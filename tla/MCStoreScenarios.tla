-------------------------- MODULE MCStoreScenarios --------------------------
(***************************************************************************)
(* Five uses of the image store, one of which a behavior takes:            *)
(*                                                                         *)
(*   aliases: the store of MCImageStore, whose .cfg has one process and    *)
(*            names that are new: images share layers, and several names   *)
(*            one manifest;                                                *)
(*   rebuild: one command at a time, images rebuilt under their name, two  *)
(*            names with one short name, rmi of several arguments;         *)
(*   reuse:   one command at a time of any kind, names and images used     *)
(*            again in any way, rmi of several arguments;                  *)
(*   races:   two processes, one of which builds and pulls, and one name;  *)
(*   crash:   a process that builds and tags beside one that tags, either  *)
(*            of which may die.                                            *)
(***************************************************************************)
EXTENDS MCImageStore

VARIABLES scenario, index1, blobs1, torn1, staged1, pc1, cmd1, mem1, job1, out1

vars1 == <<index1, blobs1, torn1, staged1, pc1, cmd1, mem1, job1, out1>>

ConfigsOf(M) == [m \in M |-> CASE m = m1 -> c1 [] m = m2 -> c2 [] m = m3 -> c3]

\* Two manifests over one layer.
OneLayer == [m \in {m1, m2} |-> {l1}]

Races == INSTANCE ImageStore WITH
    Procs <- {p1, p2}, Names <- {localA}, Shorts <- {shortA},
    ShortOf <- [n \in {localA} |-> shortA],
    LocalName <- [s \in {shortA} |-> localA],
    Manifests <- {m1, m2}, Configs <- {c1, c2}, Layers <- {l1},
    ConfigOf <- ConfigsOf({m1, m2}), LayersOf <- OneLayer,
    CommandsOf <- [p \in {p1, p2} |->
                     IF p = p1 THEN {"build", "pull"} ELSE {"build", "rmi"}],
    MaxArgs <- 1, MaxPos <- 1, MaxHistory <- 1,
    Reuse <- FALSE, FreshBuilds <- FALSE,
    WriteErrors <- FALSE, LossyRegistry <- FALSE, Crashes <- FALSE,
    index <- index1, blobs <- blobs1, torn <- torn1, staged <- staged1,
    pc <- pc1, cmd <- cmd1, mem <- mem1, job <- job1, out <- out1

LocalNames == [s \in {shortA, shortB} |-> IF s = shortB THEN localB ELSE localA]
ShortsOf(N) == [n \in N |-> IF n = localB THEN shortB ELSE shortA]

Uploads == INSTANCE ImageStore WITH
    Procs <- {p1, p2},
    Names <- {localA, localB}, Shorts <- {shortA, shortB},
    ShortOf <- ShortsOf({localA, localB}), LocalName <- LocalNames,
    Manifests <- {m1, m2}, Configs <- {c1, c2}, Layers <- {l1},
    ConfigOf <- ConfigsOf({m1, m2}), LayersOf <- OneLayer,
    CommandsOf <- [p \in {p1, p2} |->
                     IF p = p1 THEN {"build", "tag"} ELSE {"tag"}],
    MaxArgs <- 1, MaxPos <- 2, MaxHistory <- 0,
    Reuse <- FALSE, FreshBuilds <- FALSE,
    WriteErrors <- FALSE, LossyRegistry <- FALSE, Crashes <- TRUE,
    index <- index1, blobs <- blobs1, torn <- torn1, staged <- staged1,
    pc <- pc1, cmd <- cmd1, mem <- mem1, job <- job1, out <- out1

\* m1 and m2 share their base layer l1; m3 has a layer of its own.
Rebuild == INSTANCE ImageStore WITH
    Procs <- {p1},
    Names <- {localA, localB, remoteA}, Shorts <- {shortA, shortB},
    ShortOf <- ShortsOf({localA, localB, remoteA}), LocalName <- LocalNames,
    Manifests <- {m1, m2, m3}, Configs <- {c1, c2, c3},
    Layers <- {l1, l2, l3}, ConfigOf <- ConfigsOf({m1, m2, m3}),
    LayersOf <- [m \in {m1, m2, m3} |->
                   CASE m = m1 -> {l1} [] m = m2 -> {l1, l2} [] m = m3 -> {l3}],
    CommandsOf <- [p \in {p1} |-> {"build", "rmi"}],
    MaxArgs <- 2, MaxPos <- 2, MaxHistory <- 2,
    Reuse <- TRUE, FreshBuilds <- TRUE,
    WriteErrors <- FALSE, LossyRegistry <- FALSE, Crashes <- FALSE,
    index <- index1, blobs <- blobs1, torn <- torn1, staged <- staged1,
    pc <- pc1, cmd <- cmd1, mem <- mem1, job <- job1, out <- out1

\* m1 and m2 over one layer, m3 over another.
Reused == INSTANCE ImageStore WITH
    Procs <- {p1},
    Names <- {localA, localB}, Shorts <- {shortA, shortB},
    ShortOf <- ShortsOf({localA, localB}), LocalName <- LocalNames,
    Manifests <- {m1, m2, m3}, Configs <- {c1, c2, c3}, Layers <- {l1, l3},
    ConfigOf <- ConfigsOf({m1, m2, m3}),
    LayersOf <- [m \in {m1, m2, m3} |-> IF m = m3 THEN {l3} ELSE {l1}],
    CommandsOf <- [p \in {p1} |-> {"build", "pull", "tag", "config", "rmi"}],
    MaxArgs <- 2, MaxPos <- 2, MaxHistory <- 1,
    Reuse <- TRUE, FreshBuilds <- FALSE,
    WriteErrors <- FALSE, LossyRegistry <- FALSE, Crashes <- FALSE,
    index <- index1, blobs <- blobs1, torn <- torn1, staged <- staged1,
    pc <- pc1, cmd <- cmd1, mem <- mem1, job <- job1, out <- out1

ScenarioInit ==
    /\ Init
    /\ \/ scenario \in {"aliases", "rebuild"} /\ Rebuild!Init
       \/ scenario = "reuse" /\ Reused!Init
       \/ scenario = "races" /\ Races!Init
       \/ scenario = "crash" /\ Uploads!Init

ScenarioNext ==
    /\ \/ scenario = "aliases" /\ Next /\ UNCHANGED vars1
       \/ scenario = "rebuild" /\ Rebuild!Next /\ UNCHANGED vars
       \/ scenario = "reuse" /\ Reused!Next /\ UNCHANGED vars
       \/ scenario = "races" /\ Races!Next /\ UNCHANGED vars
       \/ scenario = "crash" /\ Uploads!Next /\ UNCHANGED vars
    /\ UNCHANGED scenario

ScenarioSpec == ScenarioInit /\ [][ScenarioNext]_<<scenario, vars, vars1>>

-----------------------------------------------------------------------------
\* One command at a time, no failures, images rebuilt under their name:
\* whatever the index refers to, in the histories too, is stored
\* (ImageStore::Delete, storage.cpp:1315-1486, and the order of
\* copy.cpp:18-109).
HistoriesIntact == scenario = "rebuild" => Rebuild!StoreIntact

\* One command at a time of any kind, names and images used again in any way,
\* arguments of rmi that name one image: as long as the index names no manifest twice,
\* whatever it refers to is stored (ImageStore::Delete, storage.cpp:1315-1486).
ReusedIntact == scenario = "reuse" => Reused!IntactUnlessShared

\* Two processes, which take each other's temporary files and find files
\* gone: a name is recorded once (copy.cpp:85-109, pull.cpp:229-260).
RecordedOnce == scenario = "races" => Races!NamesUnique

\* A process that builds and tags beside one that tags, either of which may
\* die, also between truncating the index and writing it: the index is never
\* ahead of the blobs (copy.cpp:18-109, storage.cpp:198-240).
CrashComplete == scenario = "crash" => Uploads!HistoryComplete
=============================================================================
