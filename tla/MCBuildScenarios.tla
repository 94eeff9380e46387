-------------------------- MODULE MCBuildScenarios --------------------------
(***************************************************************************)
(* What a build consists of beside the stores' contents; a behavior takes  *)
(* one of                                                                  *)
(*                                                                         *)
(*   stages:    the stages of one build (MCBuildStages);                   *)
(*   semaphore: three threads over a semaphore of two shares;              *)
(*   locks:     three commands that open the stores.                       *)
(***************************************************************************)
EXTENDS MCBuildStages

CONSTANTS t1, t2, t3, None

VARIABLES scenario, cur, mu, waiters, calls, held,
          at, owner, counter

vars1 == <<cur, mu, waiters, calls, held>>
vars2 == <<at, owner, counter>>

Semaphore == INSTANCE WeightedSemaphore WITH Threads <- {t1, t2, t3}, Size <- 2,
                                              MaxOver <- 1
Locks == INSTANCE LockFile WITH Commands <- {t1, t2, t3}, pc <- at

ScenarioInit ==
    /\ scenario \in {"stages", "semaphore", "locks"}
    /\ Init /\ Semaphore!Init /\ Locks!Init
    /\ scenario = "stages" \/ request = CHOOSE r \in Requests : TRUE

ScenarioNext ==
    /\ \/ scenario = "stages" /\ Next /\ UNCHANGED <<vars1, vars2>>
       \/ scenario = "semaphore" /\ Semaphore!Next /\ UNCHANGED <<vars, vars2>>
       \/ scenario = "locks" /\ Locks!Next /\ UNCHANGED <<vars, vars1>>
    /\ UNCHANGED scenario

\* The fairness of a part that is not under way asks for nothing: none of
\* its steps is enabled then.
ScenarioSpec ==
    /\ ScenarioInit
    /\ [][ScenarioNext]_<<scenario, vars, vars1, vars2>>
    /\ Fairness /\ Semaphore!Fairness
    /\ scenario = "locks" => Locks!Fairness

SharesAccounted == Semaphore!SharesAccounted
WaitersQueued == Semaphore!WaitersQueued
OwnersInside == Locks!OwnersInside
CallsReturn == Semaphore!CallsReturn

\* Every command gets its stores opened (LockFile).
StoresOpened == scenario = "locks" => Locks!OpenEnds
=============================================================================
