----------------------------- MODULE BuildProofs -----------------------------
(***************************************************************************)
(* For all Dockerfiles, any number of platforms, repetitions and faults: a *)
(* build that says it has succeeded has recorded an image, one that can be *)
(* built fails only when something failed that is not repeated, and none   *)
(* goes on for ever.  At the end, what is proved of the semaphore and the  *)
(* lock files is related to the scenarios that TLC checks.                 *)
(***************************************************************************)
EXTENDS MCBuildScenarios, TLAPS

USE DEF attempt, store

\* Nothing failed but copies, and those not too often.
Clean == Buildable /\ hit.others = 0 /\ hit.copies <= MaxRetry

\* A clean build is on its way to its end: every repetition of the copy is
\* owed to a copy that failed, unless one has succeeded.
OnCourse ==
    /\ stage = 1 /\ platform = 1
    /\ result # "failed"
    /\ pc \in {"idle", "prepare"} /\ result = "none" => ~container
    /\ copied \/ id => kept
    /\ pc # "commit" => tries = 0
    /\ pc = "commit" => copied \/ hit.copies >= tries
    /\ pc = "digest" => copied
    /\ pc = "readback" => id

IInv ==
    /\ BuildTypeOK
    /\ copied \/ id => recorded /\ request.named
    /\ SuccessRecorded
    /\ pc # "idle" => result = "none"
    /\ Clean => OnCourse

-----------------------------------------------------------------------------
LEMMA FileFacts ==
    ASSUME NEW f \in Dockerfiles
    PROVE  /\ f \in Seq(Stages) /\ Len(f) \in Nat /\ DOMAIN f = 1..Len(f)
           /\ Len(f) >= 1
           /\ \A i \in DOMAIN f : f[i] \in Stages
<1>1. f \in Seq(Stages) /\ f # <<>>
  BY BuildAssumption DEF BuildAssumption
<1>. QED
  BY <1>1

LEMMA Facts ==
    ASSUME BuildTypeOK
    PROVE  /\ request.file \in Dockerfiles /\ request.platforms \in Nat
           /\ stage \in 1..Len(request.file) /\ Len(request.file) \in Nat
           /\ request.file[stage].steps \in Nat
           /\ hit.copies \in Nat /\ hit.others \in Nat
           /\ MaxRetry \in Nat /\ MaxFaults \in Nat
<1>1. request.file \in Dockerfiles /\ request.platforms \in 1..MaxPlatforms
  BY DEF BuildTypeOK, Requests
<1>2. request.platforms \in Nat /\ MaxRetry \in Nat /\ MaxFaults \in Nat
  BY <1>1, BuildAssumption DEF BuildAssumption
<1>3. /\ stage \in 1..Len(request.file) /\ Len(request.file) \in Nat
      /\ request.file[stage] \in Stages
  BY <1>1, FileFacts DEF BuildTypeOK
<1>4. request.file[stage].steps \in Nat
  BY <1>3 DEF Stages
<1>5. hit.copies \in Nat /\ hit.others \in Nat
  BY <1>2 DEF BuildTypeOK
<1>. QED
  BY <1>1, <1>2, <1>3, <1>4, <1>5

\* A fault is counted where it belongs.
LEMMA HitFacts ==
    ASSUME BuildTypeOK, NEW copy \in BOOLEAN, NEW other \in BOOLEAN,
           ~copy \/ ~other, Hit(copy, other)
    PROVE  /\ hit' \in [copies : 0..MaxFaults, others : 0..MaxFaults]
           /\ hit'.copies >= hit.copies /\ hit'.others >= hit.others
           /\ hit'.copies \in Nat /\ hit'.others \in Nat
           /\ copy => hit'.copies = hit.copies + 1
           /\ other => hit'.others # 0
<1>1. /\ hit.copies \in 0..MaxFaults /\ hit.others \in 0..MaxFaults
      /\ MaxFaults \in Nat
  BY Facts DEF BuildTypeOK
<1>. QED
  BY <1>1 DEF Hit, Faults

LEMMA CleanBefore ==
    ASSUME BuildTypeOK, request' = request, hit'.copies >= hit.copies,
           hit'.others >= hit.others, hit'.others \in Nat, Clean',
           hit'.copies \in Nat
    PROVE  Clean
BY Facts DEF Clean, Buildable

-----------------------------------------------------------------------------
LEMMA InitInv == Init => IInv
<1>. SUFFICES ASSUME Init PROVE IInv
  OBVIOUS
<1>1. request.file \in Dockerfiles /\ request.platforms \in 1..MaxPlatforms
  BY DEF Init, Requests
<1>2. 1 \in DOMAIN request.file /\ 1 \in 1..request.platforms
  BY <1>1, FileFacts, BuildAssumption DEF BuildAssumption
<1>3. 0 \in 0..MaxFaults /\ 0 \in 0..MaxRetry
  BY BuildAssumption DEF BuildAssumption
<1>4. BuildTypeOK
  BY <1>2, <1>3 DEF Init, BuildTypeOK, PCs
<1>. QED
  BY <1>4 DEF Init, IInv, SuccessRecorded, OnCourse

LEMMA NextInv == IInv /\ [Next]_vars => IInv'
<1>. SUFFICES ASSUME IInv, [Next]_vars PROVE IInv'
  OBVIOUS
<1>. USE DEF IInv, SuccessRecorded
<1>1. CASE UNCHANGED vars
  BY <1>1 DEF vars, BuildTypeOK, Clean, Buildable, OnCourse
<1>2. CASE Start
  BY <1>2 DEF Start, BuildTypeOK, PCs, Clean, Buildable, OnCourse
<1>3. ASSUME NEW ok \in BOOLEAN, Prepare(ok) PROVE IInv'
  <2>1. /\ hit' \in [copies : 0..MaxFaults, others : 0..MaxFaults]
        /\ hit'.copies >= hit.copies /\ hit'.others >= hit.others
        /\ hit'.copies \in Nat /\ hit'.others \in Nat
        /\ ~ok => hit'.others # 0
    BY <1>3, HitFacts DEF Prepare
  <2>2. BuildTypeOK'
    BY <1>3, <2>1 DEF Prepare, Fail, BuildTypeOK, PCs
  <2>3. Clean' => OnCourse'
    <3>. SUFFICES ASSUME Clean' PROVE OnCourse'
      OBVIOUS
    <3>1. Clean
      BY <1>3, <2>1, CleanBefore DEF Prepare
    <3>2. ok
      BY <2>1 DEF Clean
    <3>. QED
      BY <1>3, <3>1, <3>2 DEF Prepare, OnCourse
  <2>. QED
    BY <1>3, <2>2, <2>3 DEF Prepare, Fail
<1>4. ASSUME NEW ok \in BOOLEAN, Run(ok) PROVE IInv'
  <2>1. /\ hit' \in [copies : 0..MaxFaults, others : 0..MaxFaults]
        /\ hit'.copies >= hit.copies /\ hit'.others >= hit.others
        /\ hit'.copies \in Nat /\ hit'.others \in Nat
        /\ ~ok => hit'.others # 0
    BY <1>4, HitFacts DEF Run
  <2>2. BuildTypeOK'
    BY <1>4, <2>1 DEF Run, Fail, BuildTypeOK, PCs
  <2>3. Clean' => OnCourse'
    <3>. SUFFICES ASSUME Clean' PROVE OnCourse'
      OBVIOUS
    <3>1. Clean
      BY <1>4, <2>1, CleanBefore DEF Run
    <3>2. ok
      BY <2>1 DEF Clean
    <3>3. Commits /\ tries = 0
      BY <1>4, <3>1 DEF Run, Clean, Buildable, Commits, Last, OnCourse
    <3>. QED
      BY <1>4, <3>1, <3>2, <3>3, Facts, <2>1 DEF Run, OnCourse
  <2>. QED
    BY <1>4, <2>2, <2>3 DEF Run, Fail
<1>5. ASSUME NEW how \in {"recorded", "threw", "empty"}, Copy(how) PROVE IInv'
  <2>1. /\ hit' \in [copies : 0..MaxFaults, others : 0..MaxFaults]
        /\ hit'.copies >= hit.copies /\ hit'.others >= hit.others
        /\ hit'.copies \in Nat /\ hit'.others \in Nat
        /\ how = "empty" => hit'.others # 0
        /\ how = "threw" => hit'.copies = hit.copies + 1
    <3>1. Hit(how = "threw", how = "empty")
      BY <1>5 DEF Copy
    <3>. QED
      BY <3>1, HitFacts
  <2>2. CASE Output
    <3>1. /\ recorded' = (recorded \/ how = "recorded")
          /\ kept' = (kept \/ how = "recorded")
          /\ copied' = IF how = "threw" THEN copied ELSE how = "recorded"
          /\ UNCHANGED <<request, platform, stage, container, id, result>>
          /\ Retry(how = "threw")
      BY <1>5, <2>2 DEF Copy
    <3>2. /\ tries' \in 0..MaxRetry /\ pc' \in {"commit", "digest"}
          /\ tries' = IF pc' = "commit" THEN tries + 1 ELSE 0
          /\ pc' = "digest" => \/ how # "threw" /\ tries = 0
                               \/ tries = MaxRetry
      BY <3>1, Facts DEF Retry, BuildTypeOK
    <3>3. BuildTypeOK'
      BY <2>1, <3>1, <3>2 DEF BuildTypeOK, PCs
    <3>4. copied' \/ id' => recorded' /\ request'.named
      BY <2>2, <3>1 DEF Output
    <3>5. Clean' => OnCourse'
      <4>. SUFFICES ASSUME Clean' PROVE OnCourse'
        OBVIOUS
      <4>1. Clean /\ OnCourse
        BY <2>1, <3>1, CleanBefore
      <4>2. how # "empty" /\ hit'.copies <= MaxRetry /\ hit'.copies \in Nat
        BY <2>1 DEF Clean
      <4>3. tries \in Nat
        BY DEF BuildTypeOK
      <4>4. pc = "commit" /\ (copied \/ hit.copies >= tries)
        BY <1>5, <4>1 DEF Copy, OnCourse
      <4>5. how = "recorded" => copied'
        BY <3>1
      <4>6. how = "threw" => copied' = copied /\ (copied \/ hit'.copies >= tries + 1)
        BY <2>1, <3>1, <4>3, <4>4, Facts
      <4>7. copied' \/ hit'.copies >= tries + 1
        BY <4>2, <4>5, <4>6
      <4>8. pc' = "digest" => copied'
        BY <3>2, <4>2, <4>3, <4>5, <4>6, <4>7, Facts
      <4>9. copied' \/ id' => kept'
        BY <3>1, <4>1 DEF OnCourse
      <4>. QED
        BY <3>1, <3>2, <4>1, <4>7, <4>8, <4>9 DEF OnCourse
    <3>. QED
      BY <1>5, <3>1, <3>2, <3>3, <3>4, <3>5 DEF Copy
  <2>3. CASE ~Output
    <3>1. ~Clean'
      <4>1. Clean => Output
        BY DEF Clean, Buildable, OnCourse, Output, Last
      <4>. QED
        BY <1>5, <2>1, <2>3, <4>1, CleanBefore DEF Copy
    <3>. QED
      BY <1>5, <2>1, <2>3, <3>1 DEF Copy, Fail, BuildTypeOK, PCs
  <2>. QED
    BY <2>2, <2>3
<1>6. CASE Digest
  <2>1. BuildTypeOK'
    BY <1>6 DEF Digest, Fail, BuildTypeOK, PCs
  <2>2. Clean' => OnCourse'
    BY <1>6 DEF Digest, Clean, Buildable, OnCourse
  <2>. QED
    BY <1>6, <2>1, <2>2 DEF Digest, Fail
<1>7. CASE ReadBack
  <2>1. BuildTypeOK'
    <3>1. /\ stage' \in 1..Len(request.file) /\ platform' \in 1..request.platforms
          /\ pc' \in PCs /\ result' \in {"none", "success", "failed"}
      BY <1>7, Facts DEF ReadBack, Advance, Fail, BuildTypeOK, PCs, Last
    <3>2. DOMAIN request.file = 1..Len(request.file)
      BY Facts, FileFacts
    <3>. QED
      BY <1>7, <3>1, <3>2 DEF ReadBack, BuildTypeOK
  <2>2. Clean' => OnCourse'
    <3>. SUFFICES ASSUME Clean' PROVE OnCourse'
      OBVIOUS
    <3>1. Clean /\ OnCourse /\ id /\ kept
      BY <1>7 DEF ReadBack, Clean, Buildable, OnCourse
    <3>2. pc' = "idle" /\ result' = "success" /\ UNCHANGED <<stage, platform>>
      BY <1>7, <3>1 DEF ReadBack, Advance, Clean, Buildable, OnCourse
    <3>. QED
      BY <1>7, <3>1, <3>2 DEF ReadBack, OnCourse
  <2>3. result' = "success" => id
    BY <1>7 DEF ReadBack, Advance, Fail, BuildTypeOK
  <2>4. pc' # "idle" => result' = "none"
    BY <1>7 DEF ReadBack, Advance, Fail
  <2>. QED
    BY <1>7, <2>1, <2>2, <2>3, <2>4 DEF ReadBack
<1>8. CASE Remove
  <2>1. /\ hit' \in [copies : 0..MaxFaults, others : 0..MaxFaults]
        /\ hit'.others # 0
    BY <1>8, HitFacts DEF Remove
  <2>. QED
    BY <1>8, <2>1 DEF Remove, BuildTypeOK, Clean
<1>. QED
  BY <1>1, <1>2, <1>3, <1>4, <1>5, <1>6, <1>7, <1>8 DEF Next, Step

LEMMA Invariance == Spec => []IInv
BY InitInv, NextInv, PTL DEF Spec

-----------------------------------------------------------------------------
\* The variables keep their types: a copy is repeated no more than MaxRetry
\* times (retry.cpp:46), stages and platforms stay within the request.
THEOREM BuildTypeCorrect == Spec => []BuildTypeOK
<1>1. IInv => BuildTypeOK
  BY DEF IInv
<1>. QED
  BY <1>1, Invariance, PTL

\* A build that says it has succeeded has recorded an image under the name
\* asked for (executor.cpp:485, build.cpp:225).
THEOREM SuccessMeansRecorded == Spec => []SuccessRecorded
<1>1. IInv => SuccessRecorded
  BY DEF IInv
<1>. QED
  BY <1>1, Invariance, PTL

\* A build that can be done at all is done unless something fails that is not
\* repeated, or the copy more than MaxRetry times (retry.cpp:41-59).
THEOREM FailuresHaveCauses == Spec => []FailureHasCause
<1>1. IInv => FailureHasCause
  BY Facts DEF IInv, Clean, OnCourse, FailureHasCause
<1>. QED
  BY <1>1, Invariance, PTL

-----------------------------------------------------------------------------
(* No build goes on for ever.                                              *)

\* Every step of a build brings it nearer to its end.
LEMMA StepAdvances ==
    ASSUME IInv, Step
    PROVE  request' = request /\ Advances
<1>. USE DEF IInv
<1>1. tries \in 0..MaxRetry /\ MaxRetry \in Nat
  BY Facts DEF BuildTypeOK
<1>2. ASSUME NEW ok \in BOOLEAN, Prepare(ok) \/ Run(ok)
      PROVE  request' = request /\ Advances
  <2>1. UNCHANGED <<request, platform, stage, tries>>
    BY <1>2 DEF Prepare, Run
  <2>2. \/ pc' = "idle"
        \/ pc = "prepare" /\ pc' = "run"
        \/ pc = "run" /\ pc' \in {"commit", "readback"}
    BY <1>2 DEF Prepare, Run, Fail
  <2>. QED
    BY <1>1, <2>1, <2>2 DEF Advances, Distance
<1>3. ASSUME NEW how \in {"recorded", "threw", "empty"}, Copy(how)
      PROVE  request' = request /\ Advances
  <2>1. CASE ~Output
    BY <1>3, <2>1 DEF Copy, Fail, Advances
  <2>2. CASE Output
    <3>1. /\ UNCHANGED <<request, platform, stage>> /\ pc = "commit"
          /\ Retry(how = "threw")
      BY <1>3, <2>2 DEF Copy
    <3>2. \/ pc' = "commit" /\ tries' = tries + 1
          \/ pc' = "digest"
      BY <3>1 DEF Retry
    <3>. QED
      BY <1>1, <3>1, <3>2 DEF Advances, Distance
  <2>. QED
    BY <2>1, <2>2
<1>4. CASE Digest
  BY <1>4 DEF Digest, Fail, Advances, Distance
<1>5. CASE ReadBack
  <2>1. /\ request' = request
        /\ \/ pc' = "idle"
           \/ stage < Len(request.file) /\ stage' = stage + 1 /\ platform' = platform
           \/ platform < request.platforms /\ platform' = platform + 1
    BY <1>5 DEF ReadBack, Advance, Fail
  <2>2. /\ stage \in Int /\ Len(request.file) \in Int
        /\ platform \in Int /\ request.platforms \in Int
    BY Facts DEF BuildTypeOK
  <2>. QED
    BY <2>1, <2>2 DEF Advances
<1>. QED
  BY <1>2, <1>3, <1>4, <1>5 DEF Step

\* Every step of a build ends it, brings it to its next platform or its next
\* stage, or nearer to that, however many copies fail (the loops of
\* build.cpp:165, executor.cpp:370 and retry.cpp:46).
THEOREM BuildsAdvance == Spec => BuildAdvances
<1>1. IInv /\ [Next]_vars =>
        [/\ request' = request
         /\ pc # "idle" =>
              Advances \/ (~Step /\ UNCHANGED <<platform, stage, pc, tries>>)]_vars
  <2>. SUFFICES ASSUME IInv, Next
                PROVE  /\ request' = request
                       /\ pc # "idle" =>
                            \/ Advances
                            \/ ~Step /\ UNCHANGED <<platform, stage, pc, tries>>
    OBVIOUS
  <2>1. CASE Step
    BY <2>1, StepAdvances
  <2>2. CASE (Start \/ Remove) /\ ~Step
    BY <2>2 DEF Start, Remove
  <2>. QED
    BY <2>1, <2>2 DEF Next
<1>. QED
  BY <1>1, Invariance, PTL DEF Spec, BuildAdvances

-----------------------------------------------------------------------------
(* The scenarios of the semaphore and of the locks are instances of the    *)
(* modules that SemaphoreProofs and LockProofs are about.                  *)

SP == INSTANCE SemaphoreProofs WITH Threads <- {t1, t2, t3}, Size <- 2, MaxOver <- 1
LP == INSTANCE LockProofs WITH Commands <- {t1, t2, t3}, pc <- at

\* What SemaphoreProofs and LockProofs call a step is one of the scenario.
LEMMA Parts ==
    /\ Semaphore!Init <=> SP!Init
    /\ [Semaphore!Next]_vars1 <=> [SP!Next]_(SP!vars)
    /\ Locks!Init <=> LP!Init
    /\ [Locks!Next]_vars2 <=> [LP!Next]_(LP!vars)
  <1>1. Locks!Init <=> LP!Init
    BY DEF Locks!Init, LP!Init, Locks!Files, LP!Files
  <1>2. Semaphore!Init <=> SP!Init
    BY DEF Semaphore!Init, SP!Init, Semaphore!NoCall, SP!NoCall
  <1>3. /\ UNCHANGED SP!vars <=> UNCHANGED vars1
        /\ UNCHANGED LP!vars <=> UNCHANGED vars2
    BY DEF SP!vars, LP!vars, vars1, vars2
  <1>4. Locks!Next <=> LP!Next
    BY DEF Locks!Next, LP!Next, Locks!Step, LP!Step, Locks!End, LP!End,
        Locks!Enter, LP!Enter, Locks!Leave, LP!Leave, Locks!Loaded, LP!Loaded,
        Locks!Goto, LP!Goto, Locks!Files, LP!Files, Locks!Wants, LP!Wants,
        Locks!Inside, LP!Inside, Locks!Locked, LP!Locked
  <1>5. Semaphore!Next <=> SP!Next
    BY DEF Semaphore!Next, SP!Next, Semaphore!Step, SP!Step, Semaphore!Call, SP!Call,
        Semaphore!Acquire, SP!Acquire, Semaphore!GiveUp, SP!GiveUp,
        Semaphore!TryAcquire, SP!TryAcquire, Semaphore!Release, SP!Release,
        Semaphore!Ops, SP!Ops, Semaphore!At, SP!At, Semaphore!Take, SP!Take,
        Semaphore!Free, SP!Free, Semaphore!Hang, SP!Hang,
        Semaphore!Return, SP!Return, Semaphore!NoCall, SP!NoCall,
        Semaphore!RemoveAt, SP!RemoveAt
  <1> QED  BY <1>1, <1>2, <1>3, <1>4, <1>5

\* And what they prove is what the run checks.
LEMMA Same ==
    /\ SharesAccounted <=> SP!SharesAccounted
    /\ WaitersQueued <=> SP!WaitersQueued
    /\ OwnersInside <=> LP!OwnersInside
  <1>1. OwnersInside <=> LP!OwnersInside
    BY DEF OwnersInside, Locks!OwnersInside, LP!OwnersInside, Locks!Files, LP!Files,
        Locks!Inside, LP!Inside
  <1>2. WaitersQueued <=> SP!WaitersQueued
    BY DEF WaitersQueued, Semaphore!WaitersQueued, SP!WaitersQueued,
        Semaphore!ToSet, SP!ToSet, Semaphore!IsInjective, SP!IsInjective
  <1>3. SharesAccounted <=> SP!SharesAccounted
    BY DEF SharesAccounted, Semaphore!SharesAccounted, SP!SharesAccounted,
        Semaphore!MapThenSumSet, SP!MapThenSumSet,
        Semaphore!MapThenFoldSet, SP!MapThenFoldSet
  <1> QED  BY <1>1, <1>2, <1>3

LEMMA Hypotheses == SP!SemaphoreUse
  <1>1. SP!IsFiniteSet({})
    BY SP!FS_EmptySet
  <1>2. SP!IsFiniteSet({} \cup {t1})
    BY <1>1, SP!FS_AddElement
  <1>3. SP!IsFiniteSet(({} \cup {t1}) \cup {t2})
    BY <1>2, SP!FS_AddElement
  <1>4. SP!IsFiniteSet((({} \cup {t1}) \cup {t2}) \cup {t3})
    BY <1>3, SP!FS_AddElement
  <1>5. {t1, t2, t3} = (({} \cup {t1}) \cup {t2}) \cup {t3}
    OBVIOUS
  <1> QED  BY <1>4, <1>5 DEF SP!SemaphoreUse

\* In every behavior of the scenarios the shares of the semaphore are
\* accounted for, and its queue has the threads that wait
\* (semaphore.cpp:19-144).
THEOREM ScenarioQueues == ScenarioSpec => [](SharesAccounted /\ WaitersQueued)
  <1>1. ScenarioInit => SP!ShareInv /\ SP!QueueInv
    BY Parts, Hypotheses, SP!ShareInit, SP!QueueInit DEF ScenarioInit
  <1>2. SP!ShareInv /\ SP!QueueInv /\ [ScenarioNext]_<<scenario, vars, vars1, vars2>>
          => (SP!ShareInv /\ SP!QueueInv)'
    <2> SUFFICES ASSUME SP!ShareInv, SP!QueueInv,
                        [ScenarioNext]_<<scenario, vars, vars1, vars2>>
                 PROVE  SP!ShareInv' /\ SP!QueueInv'
      OBVIOUS
    <2>1. [ScenarioNext]_<<scenario, vars, vars1, vars2>> => [Semaphore!Next]_vars1
      BY DEF ScenarioNext
    <2> QED  BY <2>1, Parts, Hypotheses, SP!ShareInductive, SP!QueueInductive
  <1>3. SP!ShareInv /\ SP!QueueInv => SharesAccounted /\ WaitersQueued
    BY Same, SP!TotalIsFold DEF SP!ShareInv, SP!SharesAccounted, SP!QueueInv
  <1> QED  BY <1>1, <1>2, <1>3, PTL DEF ScenarioSpec

\* In every behavior of the scenarios the lock of a file is with the command
\* inside lockHandle (lockfile.cpp:47-75).
THEOREM ScenarioLocks ==
    ASSUME None \notin {t1, t2, t3}
    PROVE  ScenarioSpec => []OwnersInside
  <1>1. LP!LockUse
    BY DEF LP!LockUse
  <1>2. ScenarioInit => LP!LockInv
    BY Parts, <1>1, LP!LockInit DEF ScenarioInit
  <1>3. LP!LockInv /\ [ScenarioNext]_<<scenario, vars, vars1, vars2>> => LP!LockInv'
    <2> SUFFICES ASSUME LP!LockInv, [ScenarioNext]_<<scenario, vars, vars1, vars2>>
                 PROVE  LP!LockInv'
      OBVIOUS
    <2>1. [ScenarioNext]_<<scenario, vars, vars1, vars2>> => [Locks!Next]_vars2
      BY DEF ScenarioNext
    <2> QED  BY <1>1, <2>1, Parts, LP!LockInductive
  <1>4. LP!LockInv => OwnersInside
    BY Same DEF LP!LockInv
  <1> QED  BY <1>2, <1>3, <1>4, PTL DEF ScenarioSpec
=============================================================================
