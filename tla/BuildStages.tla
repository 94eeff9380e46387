---------------------------- MODULE BuildStages ----------------------------
(***************************************************************************)
(* build: the stages of a Dockerfile become an image.                      *)
(*                                                                         *)
(* A build goes through the platforms one after the other and, for each,   *)
(* through the stages.  A stage gets a container over its base, runs its   *)
(* instructions there and, if something later needs its image, commits     *)
(* the container: the copy into the image store is repeated when it        *)
(* throws.  Last, the manifest of the stage is read back.                  *)
(*                                                                         *)
(* That a stage waits for earlier ones (waitForStage) plays no part: no    *)
(* stage but the last ends well, as TLC shows.                             *)
(***************************************************************************)
EXTENDS Integers, Sequences

CONSTANTS
    Dockerfiles,    \* sequences of stages
    MaxPlatforms,   \* bound: platforms of one build
    MaxRetry,       \* Retry::Options::MaxRetry (--retry, 3 by default)
    MaxFaults       \* bound: failures and removals by another command

\* from: 0 for an image or a directory, else an earlier stage.
Stages == [from : Nat, steps : Nat]

ASSUME BuildAssumption ==
    /\ Dockerfiles \subseteq Seq(Stages)
    /\ \A f \in Dockerfiles :
         f # <<>> /\ \A i \in DOMAIN f : f[i].from < i
    /\ MaxPlatforms \in Nat \ {0}
    /\ MaxRetry \in Nat
    /\ MaxFaults \in Nat

VARIABLES
    request,    \* what the user asked for
    platform,   \* Dockerfiles are built for this platform
    stage,      \* the stage under way
    pc,         \* where the build stands
    container,  \* is working-container in the names of the container store?
    tries,      \* repetitions of the copy
    copied,     \* what retryCopyImage has: a manifest or nothing
    id,         \* what Execute returns: the digest of a manifest or ""
    recorded,   \* this build has recorded an image
    kept,       \* the manifest it recorded last is in the store
    result,     \* how the build ended
    hit         \* history: failed copies, other faults

vars == <<request, platform, stage, pc, container, tries, copied, id,
          recorded, kept, result, hit>>
attempt == <<tries, copied>>
store == <<recorded, kept>>

\* named: with -t; layers: with --layers.
Requests == [file : Dockerfiles, named : BOOLEAN, layers : BOOLEAN,
             platforms : 1..MaxPlatforms]
PCs == {"idle", "prepare", "run", "commit", "digest", "readback"}

Faults == hit.copies + hit.others

Init ==
    /\ request \in Requests
    /\ platform = 1
    /\ stage = 1
    /\ pc = "idle"
    /\ container = FALSE
    /\ tries = 0
    /\ copied = FALSE
    /\ id = FALSE
    /\ recorded = FALSE
    /\ kept = FALSE
    /\ result = "none"
    /\ hit = [copies |-> 0, others |-> 0]

-----------------------------------------------------------------------------
Last == stage = Len(request.file)

\* A later stage is built FROM this one (baseMap).
UsedLater == \E i \in DOMAIN request.file : request.file[i].from = stage

\* The name the image is committed under: that of the build for the last
\* stage, none for the others.
Output == Last /\ request.named

\* An exception that nobody catches, or a crash: the process is gone.
Fail == pc' = "idle" /\ result' = "failed"

\* A copy that failed, or another fault.
Hit(copy, other) ==
    /\ copy \/ other => Faults < MaxFaults
    /\ hit' = [copies |-> hit.copies + (IF copy THEN 1 ELSE 0),
               others |-> hit.others + (IF other THEN 1 ELSE 0)]

Start ==
    /\ pc = "idle"
    /\ result = "none"
    /\ pc' = "prepare"
    /\ UNCHANGED <<request, platform, stage, container, attempt, id, store,
                   result, hit>>

\* From, and prepare with newBuilder: the base may be missing.  The container
\* is given a fixed name, which must be free; no container is ever deleted.
Prepare(ok) ==
    /\ pc = "prepare"
    /\ Hit(FALSE, ~ok)
    /\ IF ok /\ ~container THEN pc' = "run" /\ container' = TRUE /\ UNCHANGED result
                           ELSE Fail /\ UNCHANGED container
    /\ UNCHANGED <<request, platform, stage, attempt, id, store>>

\* Whether Execute comes to commit: after the last instruction, without
\* --layers, when the image is needed.
Commits ==
    /\ request.file[stage].steps > 0
    /\ ~request.layers
    /\ Last \/ UsedLater

\* The instructions of the stage.
Run(ok) ==
    /\ pc = "run"
    /\ ~ok => request.file[stage].steps > 0
    /\ Hit(FALSE, ~ok)
    /\ id' = FALSE
    /\ copied' = FALSE
    /\ IF ok THEN pc' = (IF Commits THEN "commit" ELSE "readback") /\ UNCHANGED result
             ELSE Fail
    /\ UNCHANGED <<request, platform, stage, container, tries, store>>

\* Mutants: one attempt too many; the first one only; without end.
RetryMore(threw) ==
    IF (threw \/ tries > 0) /\ tries <= MaxRetry
      THEN tries' = tries + 1 /\ pc' = "commit"
      ELSE tries' = 0 /\ pc' = "digest"
RetryNever(threw) == UNCHANGED tries /\ pc' = "digest"
RetryForever(threw) ==
    IF threw \/ tries > 0 THEN tries' = 1 /\ pc' = "commit"
                          ELSE UNCHANGED tries /\ pc' = "digest"

\* RetryIfNecessary: when the first attempt throws, MaxRetry more follow,
\* whatever becomes of them.
Retry(threw) ==
    IF (threw \/ tries > 0) /\ tries < MaxRetry
      THEN tries' = tries + 1 /\ pc' = "commit"
      ELSE tries' = 0 /\ pc' = "digest"

\* Builder::Commit with retryCopyImage around Image, which records the image,
\* throws, or gives up without an exception when a config or a manifest
\* cannot be stored.  Without a name the reference is null, and Image calls it.
Copy(how) ==
    /\ pc = "commit"
    /\ Hit(how = "threw", how = "empty")
    /\ IF Output
         THEN /\ recorded' = (recorded \/ how = "recorded")
              /\ kept' = (kept \/ how = "recorded")
              /\ copied' = IF how = "threw" THEN copied ELSE how = "recorded"
              /\ Retry(how = "threw")
              /\ UNCHANGED result
         ELSE how = "recorded" /\ Fail /\ UNCHANGED <<attempt, store>>
    /\ UNCHANGED <<request, platform, stage, container, id>>

\* The manifest is parsed for the id: nothing does not parse.
Digest ==
    /\ pc = "digest"
    /\ IF copied THEN id' = TRUE /\ pc' = "readback" /\ UNCHANGED result
                 ELSE Fail /\ UNCHANGED id
    /\ UNCHANGED <<request, platform, stage, container, attempt, store, hit>>

\* Mutant: the next platform is the same again.
AdvanceAgain ==
    CASE stage < Len(request.file) ->
           stage' = stage + 1 /\ pc' = "prepare" /\ UNCHANGED <<platform, result>>
      [] Last /\ platform < request.platforms ->
           stage' = 1 /\ pc' = "prepare" /\ UNCHANGED <<platform, result>>
      [] OTHER ->
           pc' = "idle" /\ result' = "success" /\ UNCHANGED <<stage, platform>>

\* The next stage, the next platform, or the end.
Advance ==
    CASE stage < Len(request.file) ->
           stage' = stage + 1 /\ pc' = "prepare" /\ UNCHANGED <<platform, result>>
      [] Last /\ platform < request.platforms ->
           stage' = 1 /\ platform' = platform + 1 /\ pc' = "prepare" /\ UNCHANGED result
      [] OTHER ->
           pc' = "idle" /\ result' = "success" /\ UNCHANGED <<stage, platform>>

\* Mutant: the size is not asked for.
ReadBackNothing ==
    /\ pc = "readback"
    /\ Advance
    /\ UNCHANGED <<request, container, attempt, id, store, hit>>

\* buildStage opens the manifest again for its size.
ReadBack ==
    /\ pc = "readback"
    /\ IF id /\ kept THEN Advance ELSE Fail /\ UNCHANGED <<stage, platform>>
    /\ UNCHANGED <<request, container, attempt, id, store, hit>>

\* Another command removes the image that was just recorded.
Remove ==
    /\ kept
    /\ Hit(FALSE, TRUE)
    /\ kept' = FALSE
    /\ UNCHANGED <<request, platform, stage, pc, container, attempt, id,
                   recorded, result>>

Step ==
    \/ \E ok \in BOOLEAN : Prepare(ok) \/ Run(ok)
    \/ \E how \in {"recorded", "threw", "empty"} : Copy(how)
    \/ Digest
    \/ ReadBack

Next == Start \/ Step \/ Remove

\* The build runs in one thread, which waits for nothing but files.
Fairness == WF_vars(Step)

Spec == Init /\ [][Next]_vars /\ Fairness

-----------------------------------------------------------------------------
BuildTypeOK ==
    /\ request \in Requests
    /\ platform \in 1..request.platforms
    /\ stage \in DOMAIN request.file
    /\ pc \in PCs
    /\ container \in BOOLEAN
    /\ tries \in 0..MaxRetry
    /\ copied \in BOOLEAN
    /\ id \in BOOLEAN
    /\ recorded \in BOOLEAN
    /\ kept \in BOOLEAN
    /\ result \in {"none", "success", "failed"}
    /\ hit \in [copies : 0..MaxFaults, others : 0..MaxFaults]

\* A build that says it has succeeded (executor.cpp:485, build.cpp:225) has
\* recorded an image of its last stage under the name asked for, although
\* failed attempts of the copy are swallowed (retry.cpp:51-56).
SuccessRecorded == result = "success" => recorded /\ request.named

\* What can be built, and what stands in its way: one stage with at least
\* one instruction, with -t and without --layers, for one platform, is built
\* unless a step fails that is not repeated, or every attempt to copy.
Buildable ==
    /\ Len(request.file) = 1
    /\ request.file[1].steps > 0
    /\ request.named
    /\ ~request.layers
    /\ request.platforms = 1
FailureHasCause ==
    result = "failed" /\ Buildable => hit.others > 0 \/ hit.copies > MaxRetry

\* How many steps are left to the stage under way.
Distance ==
    CASE pc = "prepare"  -> MaxRetry + 5
      [] pc = "run"      -> MaxRetry + 4
      [] pc = "commit"   -> MaxRetry + 3 - tries
      [] pc = "digest"   -> 2
      [] pc = "readback" -> 1
      [] OTHER -> 0

\* A build that is under way ends, comes to its next platform or its next
\* stage, or is nearer to that, with each of its steps, however many copies
\* fail; nobody else sets it back.  So no build goes on for ever (the loops of
\* build.cpp:165, executor.cpp:370 and retry.cpp:46).
Advances ==
    \/ pc' = "idle"
    \/ platform' \in platform + 1 .. request.platforms
    \/ platform' = platform /\ stage' \in stage + 1 .. Len(request.file)
    \/ UNCHANGED <<platform, stage>> /\ Distance' < Distance
BuildAdvances ==
    [][/\ request' = request
       /\ pc # "idle" =>
            Advances \/ (~Step /\ UNCHANGED <<platform, stage, pc, tries>>)]_vars

\* Every build comes to an end (the loops of build.cpp:165, executor.cpp:370
\* and retry.cpp:46).
BuildEnds == pc = "prepare" ~> pc = "idle"

\* "Build takes care of the details of running Prepare/Execute/Commit/Delete
\* over each of the one or more parsed Dockerfiles and stages"
\* (executor.cpp:167): a build with -t, for one platform, of stages that all
\* have instructions, succeeds when nothing fails.
Plain ==
    /\ request.named /\ ~request.layers /\ request.platforms = 1
    /\ \A i \in DOMAIN request.file : request.file[i].steps > 0
AllStagesBuilt == result = "failed" /\ Plain => Faults > 0
=============================================================================
