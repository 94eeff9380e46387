---------------------------- MODULE MCStoreDamage ----------------------------
(***************************************************************************)
(* Two uses of the image store that leave it damaged; a behavior takes     *)
(* one.                                                                    *)
(*                                                                         *)
(*   failures: the store of MCImageStore, whose .cfg has one process that  *)
(*             runs all commands, a registry that loses blobs and writes   *)
(*             that fail;                                                  *)
(*   deaths:   two processes that build and rmi one name, either of which  *)
(*             may die.                                                    *)
(***************************************************************************)
EXTENDS MCImageStore

VARIABLES scenario, index1, blobs1, torn1, staged1, pc1, cmd1, mem1, job1, out1

vars1 == <<index1, blobs1, torn1, staged1, pc1, cmd1, mem1, job1, out1>>

Deaths == INSTANCE ImageStore WITH
    Procs <- {p1, p2}, Names <- {localA}, Shorts <- {shortA},
    ShortOf <- [n \in {localA} |-> shortA],
    LocalName <- [s \in {shortA} |-> localA],
    Manifests <- {m1}, Configs <- {c1}, Layers <- {l1},
    ConfigOf <- [m \in {m1} |-> c1], LayersOf <- [m \in {m1} |-> {l1}],
    CommandsOf <- [p \in {p1, p2} |-> {"build", "rmi"}],
    MaxArgs <- 1, MaxPos <- 1, MaxHistory <- 1,
    Reuse <- FALSE, FreshBuilds <- FALSE,
    WriteErrors <- FALSE, LossyRegistry <- FALSE, Crashes <- TRUE,
    index <- index1, blobs <- blobs1, torn <- torn1, staged <- staged1,
    pc <- pc1, cmd <- cmd1, mem <- mem1, job <- job1, out <- out1

ScenarioInit ==
    /\ scenario \in {"failures", "deaths"}
    /\ Init
    /\ Deaths!Init

ScenarioNext ==
    /\ \/ scenario = "failures" /\ Next /\ UNCHANGED vars1
       \/ scenario = "deaths" /\ Deaths!Next /\ UNCHANGED vars
    /\ UNCHANGED scenario

ScenarioSpec == ScenarioInit /\ [][ScenarioNext]_<<scenario, vars, vars1>>

\* Two processes that build and rmi one image beside each other, either of
\* which may die at any point, also between truncating the index and writing
\* it: a name is recorded once (copy.cpp:85-109, storage.cpp:198-240).
RecordedOnceAfterDeaths == Deaths!NamesUnique
=============================================================================
