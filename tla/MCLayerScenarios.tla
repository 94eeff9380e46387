-------------------------- MODULE MCLayerScenarios --------------------------
(***************************************************************************)
(* Three uses of the layer store; a behavior takes one of them.            *)
(*                                                                         *)
(*   races:  the store of MCLayerStore, whose .cfg has a process that      *)
(*           pulls a layer made here beside one that builds, with attempts *)
(*           to copy an image that fail and deaths at any step;            *)
(*   builds: two processes that build, of which one also pulls, while      *)
(*           nothing fails;                                                *)
(*   alone:  a store of its own, with one command at a time over images of *)
(*           another tool, whose layers pack to other digests, images with *)
(*           one layer twice, pulls that lose blobs or are repeated,       *)
(*           attempts that fail and deaths.                                *)
(***************************************************************************)
EXTENDS MCLayerStore

VARIABLES scenario, layersjson1, dirs1, writer1, images1, pc1, mem1, job1

vars1 == <<layersjson1, dirs1, writer1, images1, pc1, mem1, job1>>

\* The variables and, where nothing is said, the constants of MCLayerStore.
Builds == INSTANCE LayerStore WITH
    CommandsOf <- [p \in Procs |-> CommandsOf[p] \cup {"build"}],
    MaxRetry <- 0, CopyFails <- FALSE, Crashes <- FALSE

Alone == INSTANCE LayerStore WITH
    Procs <- {p1}, CommandsOf <- [p \in {p1} |-> {"pull", "build"}],
    Working <- {w1}, Layers <- {partial, a, foreign, native},
    Repack <- [l \in {partial, a, foreign, native} |->
                 IF l = foreign THEN native ELSE l],
    PullImages <- McForeign, Contents <- {a},
    MaxLayers <- 3, MaxRetry <- 1,
    CopyFails <- TRUE, LostBlobs <- TRUE, Crashes <- TRUE,
    layersjson <- layersjson1, dirs <- dirs1, writer <- writer1,
    images <- images1, pc <- pc1, mem <- mem1, job <- job1

ScenarioInit ==
    /\ scenario \in {"races", "builds", "alone"}
    /\ Init
    /\ Alone!Init

ScenarioNext ==
    /\ \/ scenario = "races" /\ Next /\ UNCHANGED vars1
       \/ scenario = "builds" /\ Builds!Next /\ UNCHANGED vars1
       \/ scenario = "alone" /\ Alone!Next /\ UNCHANGED vars
    /\ UNCHANGED scenario

ScenarioSpec == ScenarioInit /\ [][ScenarioNext]_<<scenario, vars, vars1>>

\* One command at a time, also after pulls that lost a blob, died half-way or
\* went over a layer that was there, and in attempts after one that threw: every
\* layer of a built image has its directory, which holds the files of that
\* digest (NewImageSource, image.cpp:261-336).
AloneUnpacked == Alone!ResultUnpacked
=============================================================================
