----------------------------- MODULE PushProofs -----------------------------
(***************************************************************************)
(* Whatever is pushed by however many processes, and whatever is lost,     *)
(* damaged or killed: the registry stays a repository, a push that fails   *)
(* has a cause, and no push goes on for ever.                              *)
(***************************************************************************)
EXTENDS Push, TLAPS

Uploading == {"head", "init", "patch", "put", "verify", "confirm"}
Closing == {"manifest", "putmanifest", "headmanifest"}

-----------------------------------------------------------------------------
(* The inductive invariant.                                                *)

\* What a push has left behind is on the registry; what is left to do is part
\* of its image.
Progress(p) ==
    /\ pc[p] # "idle" => /\ job[p].img \in Manifests
                         /\ job[p].tag \in Tags
                         /\ job[p].todo \subseteq PartsOf[job[p].img]
    /\ pc[p] = "check" \/ pc[p] \in Uploading =>
         PartsOf[job[p].img] \ job[p].todo \subseteq remote
    /\ pc[p] \in Uploading => job[p].blob \in job[p].todo
    /\ pc[p] \in Closing => PartsOf[job[p].img] \subseteq remote
    /\ \/ pc[p] \in {"patch", "put", "verify"} /\ job[p].blob \in Layers
       \/ pc[p] = "hung"
       \/ job[p].tries = 0
    /\ pc[p] = "verify" => job[p].blob \in Layers

\* The causes of FailureHasCause.
Excused(p) ==
    \/ dialect # "understood"
    \/ ~(PartsOf[job[p].img] \cup {job[p].img} \subseteq whole)
    \/ lost[p].once
    \/ lost[p].again > MaxRetry

There(p) == job[p].blob \in remote

\* The upload will be taken, and hold data.
Holds(p, data) == upload[p] = [open |-> TRUE, fresh |-> TRUE, data |-> data]

\* A push without a cause to fail: each attempt to close an upload that has
\* not brought the blob there has been hit by a fault of its own.
OnCourse(p) ==
    /\ pc[p] = "patch" => job[p].tries = 0 /\ Holds(p, None)
    /\ pc[p] = "put" =>
         There(p) \/ (Holds(p, job[p].blob) /\ lost[p].again >= job[p].tries)
    /\ pc[p] = "verify" =>
         There(p) \/ (Holds(p, job[p].blob) /\ lost[p].again > job[p].tries)
    /\ pc[p] = "confirm" => There(p)
    /\ pc[p] = "headmanifest" => tags[job[p].tag] # None

PushInv(p) ==
    /\ Progress(p)
    /\ lost[p].again <= faults
    /\ pc[p] # "idle" /\ ~Excused(p) => OnCourse(p)
    /\ result[p] = "failed" => Excused(p)

IInv == PushTypeOK /\ \A p \in Pushers : PushInv(p)

-----------------------------------------------------------------------------
(* Facts about the parts.                                                  *)

\* A manifest names blobs, and none of the marks is one.
LEMMA Digests ==
    /\ \A m \in Manifests : PartsOf[m] \subseteq Blobs
    /\ None \notin Files /\ Mixed \notin Files
    /\ Blobs \subseteq Files /\ Manifests \subseteq Files
    /\ MaxRetry \in Nat /\ MaxFaults \in Nat
BY PushAssumption DEF PushAssumption, PartsOf, Blobs, Files

\* What the steps of others do to a push that is not theirs.
Spared(p) ==
    /\ pc'[p] = pc[p]
    /\ job'[p] = job[p]
    /\ upload'[p] = upload[p]
    /\ lost'[p] = lost[p]
    /\ result'[p] = result[p]
    /\ faults <= faults'
    /\ dialect' = dialect
    /\ whole' \subseteq whole
    /\ remote \subseteq remote'
    /\ \A t \in Tags : tags[t] # None => tags'[t] # None

\* Such a step leaves its invariant as it is.
LEMMA SparedInv ==
    ASSUME NEW p \in Pushers, IInv, Spared(p), faults' \in Nat
    PROVE  PushInv(p)'
<1>. USE DEF IInv, PushInv, Spared
<1>1. Progress(p)'
  BY DEF Progress, Uploading, Closing
<1>2. lost[p].again \in Nat /\ faults \in Nat
  BY Digests DEF PushTypeOK, Lost
<1>3. lost'[p].again <= faults'
  BY <1>2
<1>4. Excused(p) => Excused(p)'
  BY DEF Excused
<1>5. pc'[p] # "idle" /\ ~Excused(p)' => OnCourse(p)'
  <2>. SUFFICES ASSUME pc'[p] # "idle", ~Excused(p)'
                PROVE  OnCourse(p)'
    OBVIOUS
  <2>1. OnCourse(p) /\ job[p].tag \in Tags
    BY <1>4 DEF Progress
  <2>. QED
    BY <2>1 DEF OnCourse, There, Holds
<1>. QED
  BY <1>1, <1>3, <1>4, <1>5

-----------------------------------------------------------------------------
(* Every step keeps the types.                                             *)

\* An update of one component of one process's record.
LEMMA FinishType ==
    ASSUME NEW p \in Pushers, PushTypeOK, NEW how \in {"success", "failed"},
           Finish(p, how)
    PROVE  /\ pc' \in [Pushers -> PCs]
           /\ job' \in [Pushers -> Job]
           /\ result' \in [Pushers -> {"none", "success", "failed"}]
           /\ upload' \in [Pushers -> Upload]
<1>1. job \in [Pushers -> Job]
  BY DEF PushTypeOK
<1>2. job' \in [Pushers -> Job]
  <2>1. JobFor(job[p].img, job[p].tag, {}) \in Job
    BY <1>1, Digests DEF Job, JobFor
  <2>. QED
    BY <1>1, <2>1 DEF Finish
<1>3. NoUpload \in Upload
  BY DEF NoUpload, Upload
<1>. QED
  BY <1>2, <1>3 DEF Finish, Goto, PushTypeOK, PCs, Requests

LEMMA RetryType ==
    ASSUME NEW p \in Pushers, PushTypeOK, NEW threw \in BOOLEAN,
           NEW first \in PCs, NEW next \in PCs, Retry(p, threw, first, next)
    PROVE  pc' \in [Pushers -> PCs] /\ job' \in [Pushers -> Job]
<1>1. job \in [Pushers -> Job] /\ job[p].tries \in 0..MaxRetry
  BY DEF PushTypeOK, Job
<1>2. PICK n \in 0..MaxRetry : job' = [job EXCEPT ![p].tries = n]
  BY <1>1, Digests DEF Retry
<1>3. [job[p] EXCEPT !.tries = n] \in Job
  BY <1>1 DEF Job
<1>4. job' = [job EXCEPT ![p] = [job[p] EXCEPT !.tries = n]]
  BY <1>1, <1>2
<1>5. job' \in [Pushers -> Job]
  BY <1>1, <1>3, <1>4
<1>6. pc' \in [Pushers -> PCs]
  BY DEF PushTypeOK, Retry, Goto
<1>. QED
  BY <1>5, <1>6

LEMMA DoneType ==
    ASSUME NEW p \in Pushers, PushTypeOK, BlobDone(p)
    PROVE  pc' \in [Pushers -> PCs] /\ job' \in [Pushers -> Job]
<1>1. job \in [Pushers -> Job]
  BY DEF PushTypeOK
<1>2. [job[p] EXCEPT !.todo = @ \ {job[p].blob}, !.blob = None] \in Job
  BY <1>1 DEF Job
<1>3. job' = [job EXCEPT ![p] = [job[p] EXCEPT !.todo = @ \ {job[p].blob},
                                               !.blob = None]]
  BY <1>1 DEF BlobDone
<1>4. job' \in [Pushers -> Job]
  BY <1>1, <1>2, <1>3
<1>5. pc' \in [Pushers -> PCs]
  BY DEF PushTypeOK, BlobDone, Goto, PCs, Requests
<1>. QED
  BY <1>4, <1>5

LEMMA FaultType ==
    ASSUME NEW p \in Pushers, IInv, NEW r \in Outcomes, Fault(r)
    PROVE  /\ faults' \in 0..MaxFaults /\ faults <= faults'
           /\ Once(p, r) => /\ lost' \in [Pushers -> Lost]
                            /\ lost'[p].again = lost[p].again
                            /\ lost[p].once \/ r # "answered" => lost'[p].once
                            /\ lost[p].again <= faults'
           /\ Again(p, r) => /\ lost' \in [Pushers -> Lost]
                             /\ lost'[p].again <= faults'
                             /\ lost'[p].again = IF r = "answered"
                                  THEN lost[p].again ELSE lost[p].again + 1
                             /\ lost'[p].once = lost[p].once
<1>1. /\ faults \in 0..MaxFaults /\ lost \in [Pushers -> Lost]
      /\ lost[p].again \in 0..MaxFaults /\ lost[p].once \in BOOLEAN
      /\ lost[p].again <= faults /\ MaxFaults \in Nat
  BY Digests DEF IInv, PushInv, PushTypeOK, Lost
<1>2. faults' \in 0..MaxFaults /\ faults <= faults'
  BY <1>1 DEF Fault
<1>3. ASSUME Once(p, r)
      PROVE  /\ lost' \in [Pushers -> Lost]
             /\ lost'[p].again = lost[p].again
             /\ lost[p].once \/ r # "answered" => lost'[p].once
             /\ lost[p].again <= faults'
  <2>1. lost[p].once \in BOOLEAN /\ lost \in [Pushers -> Lost]
    BY <1>1
  <2>2. CASE r = "answered"
    <3>1. lost' = [lost EXCEPT ![p].once = lost[p].once]
      BY <1>3, <2>1, <2>2, Zenon DEF Once
    <3>2. lost' = lost
      BY <2>1, <3>1 DEF Lost
    <3>. QED
      BY <1>1, <1>2, <2>2, <3>2
  <2>3. CASE r # "answered"
    <3>1. lost' = [lost EXCEPT ![p].once = TRUE]
      BY <1>3, <2>1, <2>3 DEF Once
    <3>2. /\ [lost[p] EXCEPT !.once = TRUE] \in Lost
          /\ lost' = [lost EXCEPT ![p] = [lost[p] EXCEPT !.once = TRUE]]
      BY <2>1, <3>1 DEF Lost
    <3>3. lost'[p] = [lost[p] EXCEPT !.once = TRUE] /\ lost' \in [Pushers -> Lost]
      BY <2>1, <3>2
    <3>4. lost'[p].once = TRUE /\ lost'[p].again = lost[p].again
      BY <2>1, <3>3 DEF Lost
    <3>. QED
      BY <1>1, <1>2, <3>3, <3>4
  <2>. QED
    BY <2>2, <2>3
<1>4. ASSUME Again(p, r)
      PROVE  /\ lost' \in [Pushers -> Lost]
             /\ lost'[p].again <= faults'
             /\ lost'[p].again = IF r = "answered"
                  THEN lost[p].again ELSE lost[p].again + 1
             /\ lost'[p].once = lost[p].once
  <2>1. /\ lost' = [lost EXCEPT ![p].again =
                      IF r = "answered" THEN @ ELSE @ + 1]
        /\ r # "answered" => lost[p].again + 1 <= faults'
        /\ r # "answered" => lost[p].again + 1 \in 0..MaxFaults
    BY <1>1, <1>4 DEF Again, Fault
  <2>. QED
    BY <1>1, <1>2, <2>1 DEF Lost
<1>. QED
  BY <1>2, <1>3, <1>4

\* What the invariant says of one push.
LEMMA Here ==
    ASSUME NEW p \in Pushers, IInv
    PROVE  /\ PushTypeOK /\ PushInv(p)
           /\ job[p].img \in Manifests \cup {None}
           /\ job[p].tag \in Tags \cup {None}
           /\ job[p].todo \subseteq Blobs
           /\ job[p].blob \in Blobs \cup {None}
           /\ job[p].tries \in 0..MaxRetry
           /\ lost[p].again \in Nat /\ lost[p].once \in BOOLEAN
           /\ faults \in 0..MaxFaults
BY Digests DEF IInv, PushTypeOK, Job, Lost

\* The end of a push that has a cause to fail.
LEMMA FailInv ==
    ASSUME NEW p \in Pushers, IInv, NEW how \in {"success", "failed"},
           Finish(p, how), how = "failed" => Excused(p)',
           lost'[p].again <= faults'
    PROVE  PushInv(p)'
<1>1. /\ pc'[p] = "idle" /\ result'[p] = how
      /\ job'[p] = JobFor(job[p].img, job[p].tag, {})
  BY Here DEF Finish, Goto, PushTypeOK
<1>2. Progress(p)'
  BY <1>1 DEF Progress, Uploading, Closing, JobFor
<1>. QED
  BY <1>1, <1>2 DEF PushInv

\* A cause to fail stays one until the push ends.
Onward(p) ==
    /\ job'[p].img = job[p].img
    /\ whole' \subseteq whole
    /\ dialect' = dialect
    /\ lost[p].once => lost'[p].once
    /\ lost[p].again <= lost'[p].again
    /\ lost'[p].again <= faults'
    /\ lost'[p].again \in Nat
    /\ result'[p] = result[p]

LEMMA OnwardExcused ==
    ASSUME NEW p \in Pushers, IInv, Onward(p), Excused(p)
    PROVE  Excused(p)'
BY Here, Digests DEF Onward, Excused

\* A push that goes on.
LEMMA OnwardInv ==
    ASSUME NEW p \in Pushers, IInv, Onward(p), Progress(p)',
           pc'[p] # "idle" /\ ~Excused(p)' => OnCourse(p)'
    PROVE  PushInv(p)'
BY Here, OnwardExcused DEF Onward, PushInv

\* A blob is done: the next one, or the manifest.
LEMMA DoneInv ==
    ASSUME NEW p \in Pushers, IInv, BlobDone(p), pc[p] \in {"head", "confirm"},
           job[p].blob \in remote, remote' = remote
    PROVE  /\ Progress(p)' /\ OnCourse(p)'
           /\ job'[p].img = job[p].img
<1>1. /\ pc'[p] = IF job[p].todo = {job[p].blob} THEN "manifest" ELSE "check"
      /\ job'[p] = [job[p] EXCEPT !.todo = @ \ {job[p].blob}, !.blob = None]
  BY Here DEF BlobDone, Goto, PushTypeOK
<1>2. /\ job'[p].img = job[p].img /\ job'[p].tag = job[p].tag
      /\ job'[p].todo = job[p].todo \ {job[p].blob}
      /\ job'[p].tries = job[p].tries
  BY <1>1, Here DEF PushTypeOK, Job
<1>3. /\ PartsOf[job[p].img] \ job[p].todo \subseteq remote
      /\ job[p].img \in Manifests /\ job[p].tag \in Tags
      /\ job[p].todo \subseteq PartsOf[job[p].img]
      /\ job[p].tries = 0
  BY Here DEF PushInv, Progress, Uploading
<1>4. Progress(p)'
  BY <1>1, <1>2, <1>3 DEF Progress, Uploading, Closing
<1>. QED
  BY <1>1, <1>2, <1>4 DEF OnCourse

\* An attempt: another one, or what comes next.
LEMMA RetryInv ==
    ASSUME NEW p \in Pushers, IInv, NEW threw \in BOOLEAN,
           NEW first \in PCs, NEW next \in PCs, Retry(p, threw, first, next)
    PROVE  /\ job'[p].img = job[p].img /\ job'[p].tag = job[p].tag
           /\ job'[p].todo = job[p].todo /\ job'[p].blob = job[p].blob
           /\ \/ /\ threw \/ job[p].tries > 0
                 /\ job[p].tries < MaxRetry
                 /\ job'[p].tries = job[p].tries + 1
                 /\ pc'[p] = first
              \/ /\ (~threw /\ job[p].tries = 0) \/ job[p].tries = MaxRetry
                 /\ job'[p].tries = 0
                 /\ pc'[p] = next
<1>1. job \in [Pushers -> Job] /\ pc \in [Pushers -> PCs]
  BY Here DEF PushTypeOK
<1>2. CASE (threw \/ job[p].tries > 0) /\ job[p].tries < MaxRetry
  <2>1. /\ pc'[p] = first
        /\ job'[p] = [job[p] EXCEPT !.tries = @ + 1]
    BY <1>1, <1>2 DEF Retry, Goto
  <2>. QED
    BY <1>1, <1>2, <2>1 DEF Job
<1>3. CASE ~((threw \/ job[p].tries > 0) /\ job[p].tries < MaxRetry)
  <2>1. /\ pc'[p] = next
        /\ job'[p] = [job[p] EXCEPT !.tries = 0]
    BY <1>1, <1>3 DEF Retry, Goto
  <2>2. (~threw /\ job[p].tries = 0) \/ job[p].tries = MaxRetry
    BY <1>3, Here, Digests
  <2>. QED
    BY <1>1, <2>1, <2>2 DEF Job
<1>. QED
  BY <1>2, <1>3

-----------------------------------------------------------------------------
(* One lemma per step: the types, the process's own invariant, the others. *)

Kept(p) == PushTypeOK' /\ PushInv(p)' /\ \A q \in Pushers \ {p} : Spared(q)

LEMMA StartStep ==
    ASSUME NEW p \in Pushers, NEW m \in Manifests, NEW t \in Tags, IInv,
           Start(p, m, t)
    PROVE  Kept(p)
<1>. USE DEF Start, Goto
<1>1. JobFor(m, t, PartsOf[m]) \in Job /\ NoUpload \in Upload /\ NoLost \in Lost
  BY Digests DEF Job, JobFor, NoUpload, Upload, NoLost, Lost
<1>2. PushTypeOK'
  BY <1>1, Here DEF PushTypeOK, PCs, Requests, registry
<1>3. PushInv(p)'
  <2>1. /\ pc'[p] = "check" /\ job'[p] = JobFor(m, t, PartsOf[m])
        /\ lost'[p] = NoLost /\ result'[p] = "none" /\ faults' \in Nat
    BY Here, Digests DEF PushTypeOK
  <2>. QED
    BY <2>1, Digests DEF PushInv, Progress, JobFor, Uploading, Closing, NoLost,
                         OnCourse
<1>4. \A q \in Pushers \ {p} : Spared(q)
  BY Here, Digests DEF Spared, PushTypeOK, registry
<1>. QED
  BY <1>2, <1>3, <1>4 DEF Kept

LEMMA CheckBlobStep ==
    ASSUME NEW p \in Pushers, IInv, CheckBlob(p)
    PROVE  Kept(p)
<1>1. PICK b \in job[p].todo :
        /\ pc[p] = "check"
        /\ IF b \in whole
             THEN /\ job' = [job EXCEPT ![p].blob = b]
                  /\ Goto(p, "head")
                  /\ UNCHANGED <<upload, result>>
             ELSE Finish(p, "failed")
        /\ UNCHANGED <<whole, registry, dialect, lost, faults>>
  BY DEF CheckBlob
<1>2. CASE b \in whole
  <2>1. /\ job' = [job EXCEPT ![p] = [job[p] EXCEPT !.blob = b]]
        /\ [job[p] EXCEPT !.blob = b] \in Job
    BY <1>1, <1>2, Here DEF PushTypeOK, Job
  <2>2. PushTypeOK'
    BY <1>1, <1>2, <2>1, Here DEF PushTypeOK, Goto, PCs, Requests, registry
  <2>3. PushInv(p)'
    <3>1. pc'[p] = "head" /\ job'[p] = [job[p] EXCEPT !.blob = b]
      BY <1>1, <1>2, <2>1, Here DEF PushTypeOK, Goto
    <3>2. /\ job'[p].img = job[p].img /\ job'[p].tag = job[p].tag
          /\ job'[p].todo = job[p].todo /\ job'[p].tries = job[p].tries
          /\ job'[p].blob = b
      BY <3>1, Here DEF PushTypeOK, Job
    <3>. QED
      BY <1>1, <1>2, <3>1, <3>2, Here
      DEF PushInv, Progress, Excused, OnCourse, Uploading, Closing, registry
  <2>. QED
    BY <1>1, <1>2, <2>1, <2>2, <2>3, Here DEF Kept, Spared, Goto, PushTypeOK, registry
<1>3. CASE b \notin whole
  <2>1. PushTypeOK'
    BY <1>1, <1>3, Here, FinishType DEF PushTypeOK, registry
  <2>2. Excused(p)'
    <3>1. b \in PartsOf[job[p].img] /\ job'[p].img = job[p].img
      BY <1>1, <1>3, Here DEF PushInv, Progress, Finish, JobFor, PushTypeOK
    <3>. QED
      BY <1>1, <1>3, <3>1 DEF Excused
  <2>3. PushInv(p)'
    BY <1>1, <1>3, <2>2, Here, FailInv DEF PushInv
  <2>. QED
    BY <1>1, <1>3, <2>1, <2>3, Here
    DEF Kept, Spared, Finish, Goto, PushTypeOK, registry
<1>. QED
  BY <1>2, <1>3

LEMMA HeadBlobStep ==
    ASSUME NEW p \in Pushers, NEW r \in Outcomes, IInv, HeadBlob(p, r)
    PROVE  Kept(p)
<1>. USE DEF HeadBlob
<1>1. faults' \in 0..MaxFaults /\ faults <= faults'
  BY FaultType
<1>2. PushTypeOK'
  <2>1. pc' \in [Pushers -> PCs] /\ job' \in [Pushers -> Job]
    BY Here, DoneType DEF Goto, PushTypeOK, PCs, Requests
  <2>. QED
    BY <1>1, <2>1, Here DEF PushTypeOK, registry
<1>3. PushInv(p)'
  <2>1. lost[p].again <= faults'
    BY <1>1, Here DEF PushInv
  <2>2. CASE Found(p, r)
    <3>1. Progress(p)' /\ OnCourse(p)' /\ job'[p].img = job[p].img
      BY <2>2, DoneInv DEF Found, registry
    <3>2. Onward(p)
      BY <2>1, <3>1, Here DEF Onward
    <3>. QED
      BY <3>1, <3>2, OnwardInv
  <2>3. CASE ~Found(p, r)
    <3>1. pc'[p] = "init" /\ job' = job
      BY <2>3, Here DEF Goto, PushTypeOK
    <3>2. Onward(p) /\ OnCourse(p)'
      BY <2>1, <3>1, Here DEF Onward, OnCourse
    <3>3. Progress(p)'
      BY <3>1, Here DEF PushInv, Progress, Uploading, Closing, registry
    <3>. QED
      BY <3>2, <3>3, OnwardInv
  <2>. QED
    BY <2>2, <2>3
<1>4. \A q \in Pushers \ {p} : Spared(q)
  BY <1>1, Here DEF Spared, Goto, BlobDone, PushTypeOK, registry
<1>. QED
  BY <1>2, <1>3, <1>4 DEF Kept

LEMMA InitUploadStep ==
    ASSUME NEW p \in Pushers, NEW r \in Outcomes, IInv, InitUpload(p, r)
    PROVE  Kept(p)
<1>. USE DEF InitUpload
<1>1. /\ faults' \in 0..MaxFaults /\ faults <= faults'
      /\ lost' \in [Pushers -> Lost]
      /\ lost'[p].again = lost[p].again
      /\ lost[p].once \/ r # "answered" => lost'[p].once
      /\ lost[p].again <= faults'
  BY FaultType
<1>2. CASE r = "answered"
  <2>1. [open |-> TRUE, fresh |-> TRUE, data |-> None] \in Upload
    BY DEF Upload
  <2>2. /\ pc'[p] = "patch" /\ job' = job /\ result' = result
        /\ dialect = "understood" => Holds(p, None)'
        /\ upload' \in [Pushers -> Upload]
    BY <1>2, <2>1, Here DEF Goto, PushTypeOK, Holds
  <2>3. PushTypeOK'
    BY <1>1, <1>2, <2>2, Here DEF PushTypeOK, Goto, PCs, Requests, registry
  <2>4. Onward(p)
    BY <1>1, <2>2, Here DEF Onward
  <2>5. Progress(p)'
    BY <2>2, Here DEF PushInv, Progress, Uploading, Closing, registry
  <2>6. ~Excused(p)' => OnCourse(p)'
    <3>1. job[p].tries = 0
      BY Here DEF PushInv, Progress
    <3>. QED
      BY <2>2, <3>1 DEF Excused, OnCourse
  <2>7. PushInv(p)'
    BY <2>4, <2>5, <2>6, OnwardInv
  <2>. QED
    BY <1>1, <1>2, <2>1, <2>3, <2>7, Here
    DEF Kept, Spared, Goto, PushTypeOK, registry, Once
<1>3. CASE r # "answered"
  <2>1. Finish(p, "failed")
    BY <1>3
  <2>2. PushTypeOK'
    BY <1>1, <2>1, Here, FinishType DEF PushTypeOK, registry
  <2>3. PushInv(p)'
    BY <1>1, <1>3, <2>1, FailInv DEF Excused
  <2>. QED
    BY <1>1, <2>1, <2>2, <2>3, Here
    DEF Kept, Spared, Finish, Goto, PushTypeOK, registry, Once
<1>. QED
  BY <1>2, <1>3

LEMMA PatchBlobStep ==
    ASSUME NEW p \in Pushers, NEW r \in Outcomes, IInv, PatchBlob(p, r)
    PROVE  Kept(p)
<1>1. PICK sent \in Sent(job[p].blob, whole), taken \in Taken(upload[p]) :
        /\ pc[p] = "patch"
        /\ Fault(r)
        /\ Once(p, r)
        /\ IF taken /\ sent # None /\ r # "lost"
             THEN upload' = [upload EXCEPT ![p] = Patched(@, sent, r)]
             ELSE UNCHANGED upload
        /\ IF job[p].blob \in Layers
             THEN Retry(p, taken /\ sent # None /\ r = "answered"
                             /\ dialect = "state", "patch", "put")
             ELSE Goto(p, "put") /\ UNCHANGED job
        /\ UNCHANGED <<whole, registry, dialect, result>>
  BY DEF PatchBlob
<1>2. /\ faults' \in 0..MaxFaults /\ faults <= faults'
      /\ lost' \in [Pushers -> Lost]
      /\ lost'[p].again = lost[p].again
      /\ lost[p].once \/ r # "answered" => lost'[p].once
      /\ lost[p].again <= faults'
  BY <1>1, FaultType
<1>3. /\ job[p].blob \in job[p].todo /\ job[p].blob \in Blobs
      /\ job[p].img \in Manifests /\ job[p].tag \in Tags
      /\ job[p].todo \subseteq PartsOf[job[p].img]
      /\ PartsOf[job[p].img] \ job[p].todo \subseteq remote
  BY <1>1, Here DEF PushInv, Progress, Uploading
<1>4. upload' \in [Pushers -> Upload]
  <2>1. upload[p] \in Upload /\ upload \in [Pushers -> Upload]
    BY Here DEF PushTypeOK
  <2>2. sent \in Blobs \cup {None, Mixed}
    BY <1>3 DEF Sent
  <2>3. Appended(upload[p].data, sent) \in Blobs \cup {None, Mixed}
    BY <2>2 DEF Appended
  <2>4. (r = "answered") \in BOOLEAN
    OBVIOUS
  <2>5. Patched(upload[p], sent, r) \in Upload
    BY <2>3, <2>4 DEF Upload, Patched
  <2>6. CASE taken /\ sent # None /\ r # "lost"
    BY <1>1, <2>1, <2>5, <2>6
  <2>7. CASE ~(taken /\ sent # None /\ r # "lost")
    BY <1>1, <2>1, <2>7
  <2>. QED
    BY <2>6, <2>7
<1>5. /\ pc' \in [Pushers -> PCs] /\ job' \in [Pushers -> Job]
      /\ pc'[p] \in {"patch", "put"}
      /\ job'[p].img = job[p].img /\ job'[p].tag = job[p].tag
      /\ job'[p].todo = job[p].todo /\ job'[p].blob = job[p].blob
      /\ dialect # "state" /\ job[p].tries = 0 =>
           pc'[p] = "put" /\ job'[p].tries = 0
      /\ job[p].blob \notin Layers => job'[p].tries = job[p].tries
  <2>1. CASE job[p].blob \in Layers
    <3>1. PICK threw \in BOOLEAN :
            /\ threw <=> taken /\ sent # None /\ r = "answered" /\ dialect = "state"
            /\ Retry(p, threw, "patch", "put")
      BY <1>1, <2>1
    <3>. QED
      BY <2>1, <3>1, Here, RetryType, RetryInv DEF PCs, Requests
  <2>2. CASE job[p].blob \notin Layers
    BY <1>1, <2>2, Here DEF Goto, PushTypeOK, PCs, Requests
  <2>. QED
    BY <2>1, <2>2
<1>6. PushTypeOK'
  BY <1>1, <1>2, <1>4, <1>5, Here DEF PushTypeOK, registry
<1>7. Onward(p)
  BY <1>1, <1>2, <1>5, Here DEF Onward
<1>8. Progress(p)'
  BY <1>1, <1>3, <1>5, Here DEF PushInv, Progress, Uploading, Closing, registry
<1>9. ~Excused(p)' => OnCourse(p)'
  <2>. SUFFICES ASSUME ~Excused(p)'
                PROVE  OnCourse(p)'
    OBVIOUS
  <2>1. /\ ~Excused(p) /\ dialect = "understood" /\ r = "answered"
        /\ job[p].blob \in whole
    BY <1>1, <1>2, <1>3, <1>7, OnwardExcused, Here DEF Excused, PushTypeOK
  <2>2. job[p].tries = 0 /\ Holds(p, None)
    BY <1>1, <2>1, Here DEF PushInv, OnCourse
  <2>3. sent = job[p].blob /\ taken = TRUE
    <3>1. upload[p].open = TRUE /\ upload[p].fresh = TRUE
      BY <2>2 DEF Holds
    <3>2. Taken(upload[p]) = {TRUE}
      BY <3>1 DEF Taken
    <3>. QED
      BY <2>1, <3>2 DEF Sent
  <2>4. Holds(p, job[p].blob)'
    <3>1. upload'[p] = Patched(upload[p], job[p].blob, r)
      BY <1>1, <1>3, <2>1, <2>3, Here, Digests DEF PushTypeOK
    <3>2. Patched(upload[p], job[p].blob, r) =
            [open |-> TRUE, fresh |-> TRUE, data |-> job[p].blob]
      <4>1. (r = "answered") = TRUE
        BY <2>1
      <4>2. Patched(upload[p], job[p].blob, r) =
              [open |-> TRUE, fresh |-> TRUE,
               data |-> Appended(upload[p].data, job[p].blob)]
        BY <4>1, Zenon DEF Patched
      <4>3. upload[p].data = None
        BY <2>2 DEF Holds
      <4>4. Appended(upload[p].data, job[p].blob) = job[p].blob
        BY <4>3 DEF Appended
      <4>. QED
        BY <4>2, <4>4
    <3>. QED
      BY <1>5, <3>1, <3>2 DEF Holds
  <2>5. pc'[p] = "put" /\ job'[p].tries = 0
    BY <1>5, <2>1, <2>2
  <2>. QED
    BY <1>2, <1>5, <2>4, <2>5, Here DEF OnCourse
<1>10. PushInv(p)'
  BY <1>7, <1>8, <1>9, OnwardInv
<1>11. \A q \in Pushers \ {p} : Spared(q)
  BY <1>1, <1>2, Here DEF Spared, Goto, Retry, Once, PushTypeOK, registry
<1>. QED
  BY <1>6, <1>10, <1>11 DEF Kept

LEMMA PutBlobStep ==
    ASSUME NEW p \in Pushers, NEW r \in Outcomes, IInv, PutBlob(p, r)
    PROVE  Kept(p)
<1>1. PICK taken \in Taken(upload[p]) :
        /\ pc[p] = "put"
        /\ Fault(r)
        /\ IF taken /\ r # "lost" /\ upload[p].data = job[p].blob
             THEN /\ remote' = remote \cup {job[p].blob}
                  /\ upload' = [upload EXCEPT ![p] = NoUpload]
             ELSE UNCHANGED <<remote, upload>>
        /\ IF job[p].blob \in Layers THEN Again(p, r) /\ Goto(p, "verify")
                                     ELSE Once(p, r) /\ Goto(p, "confirm")
        /\ UNCHANGED <<whole, tags, dialect, job, result>>
  BY DEF PutBlob
<1>2. /\ faults' \in 0..MaxFaults /\ faults <= faults'
      /\ lost' \in [Pushers -> Lost]
      /\ lost[p].once => lost'[p].once
      /\ lost'[p].again \in {lost[p].again, lost[p].again + 1}
      /\ lost'[p].again <= faults'
      /\ lost'[p].again = lost[p].again =>
           r = "answered" \/ job[p].blob \notin Layers
      /\ job[p].blob \notin Layers => r = "answered" \/ lost'[p].once
  BY <1>1, FaultType, Here
<1>3. /\ job[p].blob \in job[p].todo /\ job[p].blob \in Blobs
      /\ job[p].img \in Manifests /\ job[p].tag \in Tags
      /\ job[p].todo \subseteq PartsOf[job[p].img]
      /\ PartsOf[job[p].img] \ job[p].todo \subseteq remote
  BY <1>1, Here DEF PushInv, Progress, Uploading
<1>4. /\ pc' \in [Pushers -> PCs]
      /\ pc'[p] = IF job[p].blob \in Layers THEN "verify" ELSE "confirm"
      /\ job' = job
  BY <1>1, Here DEF Goto, PushTypeOK, PCs, Requests
<1>5. PushTypeOK'
  <2>1. NoUpload \in Upload
    BY DEF NoUpload, Upload
  <2>. QED
    BY <1>1, <1>2, <1>3, <1>4, <2>1, Here DEF PushTypeOK
<1>6. Onward(p)
  BY <1>1, <1>2, <1>4, Here DEF Onward
<1>7. remote \subseteq remote'
  BY <1>1
<1>8. Progress(p)'
  <2>1. job[p].blob \notin Layers => job'[p].tries = 0
    BY <1>1, <1>4, Here DEF PushInv, Progress
  <2>. QED
    BY <1>1, <1>3, <1>4, <1>7, <2>1 DEF Progress, Uploading, Closing
<1>9. ~Excused(p)' => OnCourse(p)'
  <2>. SUFFICES ASSUME ~Excused(p)'
                PROVE  OnCourse(p)'
    OBVIOUS
  <2>1. ~Excused(p)
    BY <1>6, OnwardExcused
  <2>2. There(p) \/ (Holds(p, job[p].blob) /\ lost[p].again >= job[p].tries)
    BY <1>1, <2>1, Here DEF PushInv, OnCourse
  <2>3. CASE There(p)
    BY <1>4, <1>7, <2>3 DEF There, OnCourse
  <2>4. CASE Holds(p, job[p].blob) /\ r # "lost"
    <3>1. upload[p].open = TRUE /\ upload[p].fresh = TRUE
          /\ upload[p].data = job[p].blob
      BY <2>4 DEF Holds
    <3>2. Taken(upload[p]) = {TRUE}
      BY <3>1 DEF Taken
    <3>3. job[p].blob \in remote'
      BY <1>1, <2>4, <3>1, <3>2
    <3>. QED
      BY <1>4, <3>3 DEF There, OnCourse
  <2>5. CASE ~There(p) /\ r = "lost"
    BY <1>1, <1>2, <1>4, <2>2, <2>5, Here DEF There, OnCourse, Holds, Excused
  <2>. QED
    BY <2>2, <2>3, <2>4, <2>5
<1>10. PushInv(p)'
  BY <1>6, <1>8, <1>9, OnwardInv
<1>11. \A q \in Pushers \ {p} : Spared(q)
  BY <1>1, <1>2, <1>7, Here DEF Spared, Goto, Once, Again, PushTypeOK
<1>. QED
  BY <1>5, <1>10, <1>11 DEF Kept

LEMMA VerifyBlobStep ==
    ASSUME NEW p \in Pushers, NEW r \in Outcomes, IInv, VerifyBlob(p, r)
    PROVE  Kept(p)
<1>. USE DEF VerifyBlob
<1>1. /\ faults' \in 0..MaxFaults /\ faults <= faults'
      /\ lost' \in [Pushers -> Lost]
      /\ lost'[p].once = lost[p].once
      /\ lost'[p].again >= lost[p].again
      /\ lost'[p].again <= faults' /\ lost'[p].again \in Nat
  BY FaultType, Here
<1>2. PICK threw \in BOOLEAN : /\ threw <=> ~Found(p, r)
                               /\ Retry(p, threw, "put", "confirm")
  OBVIOUS
<1>3. /\ job[p].blob \in job[p].todo /\ job[p].blob \in Blobs
      /\ job[p].img \in Manifests /\ job[p].tag \in Tags
      /\ job[p].todo \subseteq PartsOf[job[p].img]
      /\ PartsOf[job[p].img] \ job[p].todo \subseteq remote
  BY Here DEF PushInv, Progress, Uploading
<1>4. /\ pc' \in [Pushers -> PCs] /\ job' \in [Pushers -> Job]
      /\ job'[p].img = job[p].img /\ job'[p].tag = job[p].tag
      /\ job'[p].todo = job[p].todo /\ job'[p].blob = job[p].blob
      /\ \/ /\ threw \/ job[p].tries > 0
            /\ job[p].tries < MaxRetry
            /\ job'[p].tries = job[p].tries + 1
            /\ pc'[p] = "put"
         \/ /\ (~threw /\ job[p].tries = 0) \/ job[p].tries = MaxRetry
            /\ job'[p].tries = 0
            /\ pc'[p] = "confirm"
  <2>1. "put" \in PCs /\ "confirm" \in PCs /\ PushTypeOK
    BY Here DEF PCs, Requests
  <2>2. pc' \in [Pushers -> PCs] /\ job' \in [Pushers -> Job]
    BY <1>2, <2>1, RetryType
  <2>. QED
    BY <1>2, <2>1, <2>2, RetryInv
<1>5. PushTypeOK'
  BY <1>1, <1>4, Here DEF PushTypeOK, registry
<1>6. Onward(p)
  BY <1>1, <1>4, Here DEF Onward
<1>7. job[p].blob \in Layers
  BY Here DEF PushInv, Progress
<1>8. Progress(p)'
  BY <1>3, <1>4, <1>7, Here DEF Progress, Uploading, Closing, registry
<1>9. ~Excused(p)' => OnCourse(p)'
  <2>. SUFFICES ASSUME ~Excused(p)'
                PROVE  OnCourse(p)'
    OBVIOUS
  <2>1. ~Excused(p) /\ lost'[p].again <= MaxRetry
    BY <1>1, <1>6, OnwardExcused, Digests DEF Excused
  <2>2. There(p) \/ (Holds(p, job[p].blob) /\ lost[p].again > job[p].tries)
    BY <2>1, Here DEF PushInv, OnCourse
  <2>3. CASE There(p)
    BY <1>4, <2>3 DEF There, OnCourse, registry
  <2>4. CASE ~There(p)
    <3>1. threw /\ Holds(p, job[p].blob) /\ lost[p].again > job[p].tries
      BY <1>2, <2>2, <2>4 DEF Found, There
    <3>2. job[p].tries # MaxRetry
      BY <1>1, <2>1, <3>1, Here, Digests
    <3>3. pc'[p] = "put" /\ job'[p].tries = job[p].tries + 1
      BY <1>4, <3>1, <3>2
    <3>. QED
      BY <1>1, <1>4, <3>1, <3>3, Here DEF OnCourse, Holds
  <2>. QED
    BY <2>3, <2>4
<1>10. PushInv(p)'
  BY <1>6, <1>8, <1>9, OnwardInv
<1>11. \A q \in Pushers \ {p} : Spared(q)
  BY <1>1, Here DEF Spared, Goto, Retry, Again, PushTypeOK, registry
<1>. QED
  BY <1>5, <1>10, <1>11 DEF Kept

LEMMA ConfirmBlobStep ==
    ASSUME NEW p \in Pushers, NEW r \in Outcomes, IInv, ConfirmBlob(p, r)
    PROVE  Kept(p)
<1>. USE DEF ConfirmBlob
<1>1. /\ faults' \in 0..MaxFaults /\ faults <= faults'
      /\ lost' \in [Pushers -> Lost]
      /\ lost'[p].again = lost[p].again
      /\ lost[p].once \/ r # "answered" => lost'[p].once
      /\ lost[p].again <= faults'
  BY FaultType
<1>2. CASE Found(p, r)
  <2>1. Progress(p)' /\ OnCourse(p)' /\ job'[p].img = job[p].img
    BY <1>2, DoneInv DEF Found, registry
  <2>2. Onward(p)
    BY <1>1, <1>2, <2>1, Here DEF Onward
  <2>3. PushInv(p)'
    BY <2>1, <2>2, OnwardInv
  <2>4. PushTypeOK'
    BY <1>1, <1>2, Here, DoneType DEF PushTypeOK, registry
  <2>. QED
    BY <1>1, <1>2, <2>3, <2>4, Here
    DEF Kept, Spared, Goto, BlobDone, Once, PushTypeOK, registry
<1>3. CASE ~Found(p, r)
  <2>1. Finish(p, "failed")
    BY <1>3
  <2>2. PushTypeOK'
    BY <1>1, <2>1, Here, FinishType DEF PushTypeOK, registry
  <2>3. Excused(p)'
    <3>1. job'[p].img = job[p].img
      BY <2>1, Here DEF Finish, JobFor, PushTypeOK
    <3>2. CASE r # "answered"
      BY <1>1, <3>2 DEF Excused
    <3>3. CASE r = "answered"
      <4>1. Excused(p)
        BY <1>3, <3>3, Here DEF PushInv, OnCourse, Found, There
      <4>. QED
        BY <1>1, <3>1, <4>1, Here DEF Excused
    <3>. QED
      BY <3>2, <3>3
  <2>4. PushInv(p)'
    BY <1>1, <2>1, <2>3, FailInv
  <2>. QED
    BY <1>1, <2>1, <2>2, <2>4, Here
    DEF Kept, Spared, Finish, Goto, Once, PushTypeOK, registry
<1>. QED
  BY <1>2, <1>3

LEMMA CheckManifestStep ==
    ASSUME NEW p \in Pushers, IInv, CheckManifest(p)
    PROVE  Kept(p)
<1>. USE DEF CheckManifest
<1>1. CASE job[p].img \in whole
  <2>1. pc'[p] = "putmanifest"
    BY <1>1, Here DEF Goto, PushTypeOK
  <2>2. PushTypeOK'
    BY <1>1, Here DEF PushTypeOK, Goto, PCs, Requests, registry
  <2>3. PushInv(p)'
    BY <1>1, <2>1, Here
    DEF PushInv, Progress, Excused, OnCourse, Uploading, Closing, registry
  <2>. QED
    BY <1>1, <2>2, <2>3, Here DEF Kept, Spared, Goto, PushTypeOK, registry
<1>2. CASE job[p].img \notin whole
  <2>1. Finish(p, "failed")
    BY <1>2
  <2>2. PushTypeOK'
    BY <2>1, Here, FinishType DEF PushTypeOK, registry
  <2>3. job'[p].img = job[p].img
    BY <2>1, Here DEF Finish, JobFor, PushTypeOK
  <2>4. Excused(p)'
    BY <1>2, <2>3 DEF Excused
  <2>5. PushInv(p)'
    BY <2>1, <2>4, Here, FailInv DEF PushInv
  <2>. QED
    BY <2>1, <2>2, <2>5, Here DEF Kept, Spared, Finish, Goto, PushTypeOK, registry
<1>. QED
  BY <1>1, <1>2

LEMMA PutManifestStep ==
    ASSUME NEW p \in Pushers, NEW r \in Outcomes, IInv, PutManifest(p, r)
    PROVE  Kept(p)
<1>1. PICK v1 \in Formats, good \in BOOLEAN :
        /\ pc[p] = "putmanifest"
        /\ good => job[p].img \in whole
        /\ ~good => v1 \/ job[p].img \notin whole
        /\ Fault(r)
        /\ Once(p, r)
        /\ tags' = IF good /\ r # "lost"
                     THEN [tags EXCEPT ![job[p].tag] = job[p].img] ELSE tags
        /\ IF v1
             THEN Finish(p, "success")
             ELSE Goto(p, "headmanifest") /\ UNCHANGED <<upload, job, result>>
        /\ UNCHANGED <<whole, remote, dialect>>
  BY DEF PutManifest
<1>2. /\ faults' \in 0..MaxFaults /\ faults <= faults'
      /\ lost' \in [Pushers -> Lost]
      /\ lost'[p].again = lost[p].again
      /\ lost[p].once \/ r # "answered" => lost'[p].once
      /\ lost[p].again <= faults'
  BY <1>1, FaultType
<1>3. /\ job[p].img \in Manifests /\ job[p].tag \in Tags /\ job[p].tries = 0
      /\ job[p].todo \subseteq PartsOf[job[p].img]
      /\ PartsOf[job[p].img] \subseteq remote
      /\ job[p].img # None
  BY <1>1, Here, Digests DEF PushInv, Progress, Closing
<1>4. /\ tags' \in [Tags -> Manifests \cup {None}]
      /\ \A t \in Tags : tags[t] # None => tags'[t] # None
      /\ good /\ r # "lost" => tags'[job[p].tag] = job[p].img
  BY <1>1, <1>3, Here DEF PushTypeOK
<1>5. CASE v1
  <2>1. Finish(p, "success")
    BY <1>1, <1>5
  <2>2. PushTypeOK'
    BY <1>1, <1>2, <1>4, <2>1, Here, FinishType DEF PushTypeOK
  <2>3. PushInv(p)'
    BY <1>2, <2>1, FailInv
  <2>. QED
    BY <1>1, <1>2, <1>4, <2>1, <2>2, <2>3, Here
    DEF Kept, Spared, Finish, Goto, Once, PushTypeOK
<1>6. CASE ~v1
  <2>1. /\ pc'[p] = "headmanifest" /\ pc' \in [Pushers -> PCs] /\ job' = job
        /\ upload' = upload /\ result' = result
    BY <1>1, <1>6, Here DEF Goto, PushTypeOK, PCs, Requests
  <2>2. PushTypeOK'
    BY <1>1, <1>2, <1>4, <2>1, Here DEF PushTypeOK
  <2>3. Onward(p)
    BY <1>1, <1>2, <2>1, Here DEF Onward
  <2>4. Progress(p)'
    BY <1>1, <1>3, <2>1 DEF Progress, Uploading, Closing
  <2>5. ~Excused(p)' => OnCourse(p)'
    <3>. SUFFICES ASSUME ~Excused(p)'
                  PROVE  OnCourse(p)'
      OBVIOUS
    <3>1. r = "answered" /\ job[p].img \in whole
      BY <1>1, <1>2, <2>1 DEF Excused
    <3>2. tags'[job[p].tag] = job[p].img
      BY <1>1, <1>4, <1>6, <3>1
    <3>. QED
      BY <1>3, <2>1, <3>2 DEF OnCourse
  <2>6. PushInv(p)'
    BY <2>3, <2>4, <2>5, OnwardInv
  <2>. QED
    BY <1>1, <1>2, <1>4, <1>6, <2>1, <2>2, <2>6, Here
    DEF Kept, Spared, Goto, Once, PushTypeOK
<1>. QED
  BY <1>5, <1>6

LEMMA HeadManifestStep ==
    ASSUME NEW p \in Pushers, NEW r \in Outcomes, IInv, HeadManifest(p, r)
    PROVE  Kept(p)
<1>. USE DEF HeadManifest
<1>1. /\ faults' \in 0..MaxFaults /\ faults <= faults'
      /\ lost' \in [Pushers -> Lost]
      /\ lost'[p].again = lost[p].again
      /\ lost[p].once \/ r # "answered" => lost'[p].once
      /\ lost[p].again <= faults'
  BY FaultType
<1>2. PICK how \in {"success", "failed"} :
        /\ Finish(p, how)
        /\ how = "failed" => ~(r = "answered" /\ tags[job[p].tag] # None)
  OBVIOUS
<1>3. PushTypeOK'
  BY <1>1, <1>2, Here, FinishType DEF PushTypeOK, registry
<1>4. how = "failed" => Excused(p)'
  <2>. SUFFICES ASSUME how = "failed"
                PROVE  Excused(p)'
    OBVIOUS
  <2>1. job'[p].img = job[p].img
    BY <1>2, Here DEF Finish, JobFor, PushTypeOK
  <2>2. CASE r # "answered"
    BY <1>1, <2>2 DEF Excused
  <2>3. CASE r = "answered"
    <3>1. Excused(p)
      BY <1>2, <2>3, Here DEF PushInv, OnCourse
    <3>. QED
      BY <1>1, <2>1, <3>1, Here DEF Excused
  <2>. QED
    BY <2>2, <2>3
<1>5. PushInv(p)'
  BY <1>1, <1>2, <1>4, FailInv
<1>. QED
  BY <1>1, <1>2, <1>3, <1>5, Here
  DEF Kept, Spared, Finish, Goto, Once, PushTypeOK, registry

\* What an answer that never comes may have done to the registry.
LEMMA HangRegistry ==
    ASSUME NEW p \in Pushers, IInv, Hang(p)
    PROVE  /\ job[p].img \in Manifests /\ job[p].tag \in Tags
           /\ \/ UNCHANGED <<remote, tags>>
              \/ \E b \in Blobs : remote' = remote \cup {b} /\ tags' = tags
              \/ /\ remote' = remote
                 /\ tags' = [tags EXCEPT ![job[p].tag] = job[p].img]
                 /\ PartsOf[job[p].img] \subseteq remote
<1>. USE DEF Hang
<1>1. job[p].img \in Manifests /\ job[p].tag \in Tags
  BY Here DEF PushInv, Progress, Requests
<1>2. CASE UNCHANGED registry
  BY <1>1, <1>2 DEF registry
<1>3. CASE pc[p] = "put" /\ remote' = remote \cup {job[p].blob} /\ tags' = tags
  <2>1. job[p].blob \in Blobs
    BY <1>3, Here DEF PushInv, Progress, Uploading
  <2>. QED
    BY <1>1, <1>3, <2>1
<1>4. CASE /\ pc[p] = "putmanifest" /\ remote' = remote
           /\ tags' = [tags EXCEPT ![job[p].tag] = job[p].img]
  <2>1. PartsOf[job[p].img] \subseteq remote
    BY <1>4, Here DEF PushInv, Progress, Closing
  <2>. QED
    BY <1>1, <1>4, <2>1
<1>. QED
  BY <1>2, <1>3, <1>4

LEMMA HangStep ==
    ASSUME NEW p \in Pushers, IInv, Hang(p)
    PROVE  Kept(p)
<1>1. faults' \in 0..MaxFaults /\ faults <= faults'
  BY FaultType DEF Hang, Outcomes
<1>2. /\ pc' \in [Pushers -> PCs] /\ pc'[p] = "hung"
      /\ job' = job /\ upload' = upload /\ lost' = lost /\ result' = result
      /\ dialect' = dialect /\ whole' = whole
  BY Here DEF Hang, Goto, PushTypeOK, PCs, Requests
<1>3. /\ remote' \subseteq Blobs /\ remote \subseteq remote'
      /\ tags' \in [Tags -> Manifests \cup {None}]
      /\ \A t \in Tags : tags[t] # None => tags'[t] # None
  BY Here, HangRegistry, Digests DEF PushTypeOK
<1>4. PushTypeOK'
  BY <1>1, <1>2, <1>3, Here DEF PushTypeOK
<1>5. Progress(p)'
  BY <1>2, Here DEF PushInv, Progress, Hang, Requests, Uploading, Closing
<1>6. Onward(p)
  BY <1>1, <1>2, Here DEF Onward, PushInv
<1>7. PushInv(p)'
  BY <1>2, <1>5, <1>6, OnwardInv DEF OnCourse
<1>8. \A q \in Pushers \ {p} : Spared(q)
  BY <1>1, <1>2, <1>3, Here DEF Spared, Hang, Goto, PushTypeOK
<1>. QED
  BY <1>4, <1>7, <1>8 DEF Kept

LEMMA CrashStep ==
    ASSUME NEW p \in Pushers, IInv, Crash(p)
    PROVE  Kept(p)
<1>. USE DEF Crash
<1>1. /\ faults' \in 0..MaxFaults /\ faults <= faults'
      /\ lost' \in [Pushers -> Lost]
      /\ lost'[p].again = lost[p].again
      /\ lost'[p].once
      /\ lost[p].again <= faults'
  <2>1. /\ faults \in 0..MaxFaults /\ lost \in [Pushers -> Lost]
        /\ lost[p] \in Lost /\ lost[p].again <= faults
    BY Here DEF PushInv, PushTypeOK
  <2>2. faults' \in 0..MaxFaults /\ faults <= faults'
    BY <2>1, Digests DEF Fault
  <2>3. lost' = [lost EXCEPT ![p] = [lost[p] EXCEPT !.once = TRUE]]
    BY <2>1 DEF Once, Lost
  <2>4. [lost[p] EXCEPT !.once = TRUE] \in Lost
    BY <2>1 DEF Lost
  <2>5. lost'[p] = [lost[p] EXCEPT !.once = TRUE] /\ lost' \in [Pushers -> Lost]
    BY <2>1, <2>3, <2>4
  <2>6. lost'[p].once = TRUE /\ lost'[p].again = lost[p].again
    BY <2>1, <2>5 DEF Lost
  <2>. QED
    BY <2>1, <2>2, <2>5, <2>6, Here, Digests
<1>2. PushTypeOK'
  BY <1>1, Here, FinishType DEF PushTypeOK, registry
<1>3. PushInv(p)'
  BY <1>1, FailInv DEF Excused
<1>. QED
  BY <1>1, <1>2, <1>3, Here
  DEF Kept, Spared, Finish, Goto, Once, PushTypeOK, registry

LEMMA DamageStep ==
    ASSUME NEW f \in Files, IInv, Damage(f)
    PROVE  PushTypeOK' /\ \A q \in Pushers : Spared(q)
<1>1. /\ PushTypeOK /\ faults \in 0..MaxFaults
      /\ faults' = faults + 1 /\ faults < MaxFaults
  BY DEF Damage, Fault, IInv, PushTypeOK
<1>. QED
  BY <1>1, Digests DEF Damage, PushTypeOK, Spared, registry

-----------------------------------------------------------------------------
(* The theorems.                                                           *)

LEMMA IInvInit == Init => IInv
<1>. SUFFICES ASSUME Init PROVE IInv
  OBVIOUS
<1>1. NoUpload \in Upload /\ NoJob \in Job /\ NoLost \in Lost
  BY Digests DEF NoUpload, Upload, NoJob, JobFor, Job, NoLost, Lost
<1>2. PushTypeOK
  BY <1>1, Digests, PushAssumption DEF Init, PushTypeOK, PCs, Requests, PushAssumption
<1>3. ASSUME NEW p \in Pushers PROVE PushInv(p)
  BY Digests DEF Init, PushInv, Progress, Uploading, Closing, NoJob, JobFor, NoLost
<1>. QED
  BY <1>2, <1>3 DEF IInv

LEMMA StepKept ==
    ASSUME NEW p \in Pushers, IInv, Push(p) \/ Step(p) \/ Hang(p) \/ Crash(p)
    PROVE  Kept(p)
<1>1. CASE Push(p)
  BY <1>1, StartStep DEF Push
<1>2. CASE Step(p)
  <2>1. CASE CheckBlob(p)
    BY <2>1, CheckBlobStep
  <2>2. CASE CheckManifest(p)
    BY <2>2, CheckManifestStep
  <2>3. ASSUME NEW r \in Outcomes, Request(p, r) PROVE Kept(p)
    BY <2>3, HeadBlobStep, InitUploadStep, PatchBlobStep, PutBlobStep,
       VerifyBlobStep, ConfirmBlobStep, PutManifestStep, HeadManifestStep
    DEF Request
  <2>. QED
    BY <1>2, <2>1, <2>2, <2>3 DEF Step
<1>3. CASE Hang(p)
  BY <1>3, HangStep
<1>4. CASE Crash(p)
  BY <1>4, CrashStep
<1>. QED
  BY <1>1, <1>2, <1>3, <1>4

LEMMA IInvNext == IInv /\ [Next]_vars => IInv'
<1>. SUFFICES ASSUME IInv, [Next]_vars PROVE IInv'
  OBVIOUS
<1>1. CASE UNCHANGED vars
  BY <1>1, Digests DEF vars, registry, IInv, PushTypeOK, PushInv, Progress, Excused,
                       OnCourse, There, Holds
<1>2. ASSUME NEW p \in Pushers, Push(p) \/ Step(p) \/ Hang(p) \/ Crash(p) PROVE IInv'
  <2>1. Kept(p)
    BY <1>2, StepKept
  <2>2. faults' \in Nat
    BY <2>1, Digests DEF Kept, PushTypeOK
  <2>3. \A q \in Pushers \ {p} : PushInv(q)'
    BY <2>1, <2>2, SparedInv DEF Kept
  <2>. QED
    BY <2>1, <2>3 DEF Kept, IInv
<1>3. ASSUME NEW f \in Files, Damage(f) PROVE IInv'
  <2>1. PushTypeOK' /\ \A q \in Pushers : Spared(q)
    BY <1>3, DamageStep
  <2>2. faults' \in Nat
    BY <2>1, Digests DEF PushTypeOK
  <2>. QED
    BY <2>1, <2>2, SparedInv DEF IInv
<1>. QED
  BY <1>1, <1>2, <1>3 DEF Next

LEMMA Invariance == Spec => []IInv
BY IInvInit, IInvNext, PTL DEF Spec

\* However many pushes run, fail, die and are repeated, the variables keep
\* their types; attempts never exceed MaxRetry (retry.cpp:46).
THEOREM PushTypeCorrect == Spec => []PushTypeOK
<1>1. IInv => PushTypeOK
  BY DEF IInv
<1>. QED
  BY <1>1, Invariance, PTL

\* A push fails only for a reason: for any number of processes and images,
\* any MaxRetry and any number of faults, MaxRetry faults on what is retried
\* are survived (push.cpp:239-246, retry.cpp:41-59).
THEOREM FailuresHaveCauses == Spec => []FailureHasCause
<1>1. IInv => FailureHasCause
  BY DEF IInv, PushInv, Excused, FailureHasCause
<1>. QED
  BY <1>1, Invariance, PTL

\* The registry is a repository: a tag is put on a manifest only once the
\* blobs it names have been put there, and stays complete (push.cpp:186-341).
THEOREM RegistryIsRepository == Spec => RepositorySpec
<1>1. Init => R!Init
  BY DEF Init, R!Init
<1>2. IInv /\ [Next]_vars => [R!Next]_R!repository
  <2>. SUFFICES ASSUME IInv, Next
                PROVE  R!Next \/ UNCHANGED <<remote, tags>>
    BY DEF vars, registry, R!repository
  <2>1. ASSUME NEW p \in Pushers, NEW r \in Outcomes, PutBlob(p, r)
        PROVE  R!Next \/ UNCHANGED <<remote, tags>>
    <3>1. job[p].blob \in Blobs
      BY <2>1, Here DEF PutBlob, PushInv, Progress, Uploading
    <3>. QED
      BY <2>1, <3>1 DEF PutBlob, R!Next, R!Store
  <2>2. ASSUME NEW p \in Pushers, NEW r \in Outcomes, PutManifest(p, r)
        PROVE  R!Next \/ UNCHANGED <<remote, tags>>
    <3>1. /\ job[p].img \in Manifests /\ job[p].tag \in Tags
          /\ PartsOf[job[p].img] \subseteq remote
      BY <2>2, Here DEF PutManifest, PushInv, Progress, Closing
    <3>2. /\ remote' = remote
          /\ \/ tags' = tags
             \/ tags' = [tags EXCEPT ![job[p].tag] = job[p].img]
      BY <2>2 DEF PutManifest
    <3>. QED
      BY <3>1, <3>2 DEF R!Next, R!Publish
  <2>3. ASSUME NEW p \in Pushers, Push(p)
        PROVE  UNCHANGED <<remote, tags>>
    BY <2>3 DEF Push, Start, registry
  <2>4. ASSUME NEW p \in Pushers, Step(p)
        PROVE  R!Next \/ UNCHANGED <<remote, tags>>
    BY <2>1, <2>2, <2>4
    DEF Step, CheckBlob, CheckManifest, Request, HeadBlob, InitUpload, PatchBlob,
        VerifyBlob, ConfirmBlob, HeadManifest, registry
  <2>5. ASSUME NEW p \in Pushers, Crash(p)
        PROVE  UNCHANGED <<remote, tags>>
    BY <2>5 DEF Crash, registry
  <2>6. ASSUME NEW p \in Pushers, Hang(p)
        PROVE  R!Next \/ UNCHANGED <<remote, tags>>
    <3>1. ASSUME NEW b \in Blobs, remote' = remote \cup {b}, tags' = tags
          PROVE  R!Next
      BY <3>1 DEF R!Next, R!Store
    <3>2. ASSUME job[p].img \in Manifests, job[p].tag \in Tags, remote' = remote,
                 tags' = [tags EXCEPT ![job[p].tag] = job[p].img],
                 PartsOf[job[p].img] \subseteq remote
          PROVE  R!Next
      BY <3>2 DEF R!Next, R!Publish
    <3>. QED
      BY <2>6, <3>1, <3>2, HangRegistry
  <2>7. ASSUME NEW f \in Files, Damage(f)
        PROVE  UNCHANGED <<remote, tags>>
    BY <2>7 DEF Damage, registry
  <2>. QED
    BY <2>3, <2>4, <2>5, <2>6, <2>7 DEF Next
<1>. QED
  BY <1>1, <1>2, Invariance, PTL DEF Spec, RepositorySpec, R!Spec

\* Whoever resolves a tag of the registry finds everything its manifest
\* names, whatever happened to the pushes.
THEOREM TagsComplete == Spec => []R!Complete
<1>1. R!Init => R!Complete
  BY DEF R!Init, R!Complete
<1>2. IInv /\ R!Complete /\ [R!Next]_R!repository => R!Complete'
  <2>. SUFFICES ASSUME IInv, R!Complete, [R!Next]_R!repository
                PROVE  R!Complete'
    OBVIOUS
  <2>1. CASE UNCHANGED R!repository
    BY <2>1 DEF R!repository, R!Complete
  <2>2. ASSUME NEW b \in Blobs, R!Store(b) PROVE R!Complete'
    BY <2>2 DEF R!Store, R!Complete
  <2>3. ASSUME NEW t \in Tags, NEW m \in Manifests, R!Publish(t, m)
        PROVE  R!Complete'
    <3>1. tags \in [Tags -> Manifests \cup {None}]
      BY DEF IInv, PushTypeOK
    <3>. QED
      BY <2>3, <3>1 DEF R!Publish, R!Complete
  <2>. QED
    BY <2>1, <2>2, <2>3 DEF R!Next
<1>. QED
  BY <1>1, <1>2, Invariance, RegistryIsRepository, PTL DEF RepositorySpec, R!Spec

-----------------------------------------------------------------------------
(* No push goes on for ever.                                               *)

\* What an attempt does to the distance.
LEMMA RetryNearer ==
    ASSUME NEW p \in Pushers, IInv, NEW threw \in BOOLEAN, NEW first, NEW next,
           Retry(p, threw, first, next)
    PROVE  /\ job'[p].todo = job[p].todo
           /\ \/ /\ pc'[p] = first /\ job[p].tries < MaxRetry
                 /\ job'[p].tries = job[p].tries + 1
              \/ pc'[p] = next /\ job'[p].tries = 0
BY Here DEF Retry, Goto, IInv, PushTypeOK, Job

\* Every step of a push brings it nearer to its end.
LEMMA StepAdvances ==
    ASSUME NEW p \in Pushers, IInv, Step(p)
    PROVE  Advances(p)
<1>1. /\ job[p].tries \in 0..MaxRetry /\ MaxRetry \in Nat
      /\ pc \in [Pushers -> PCs] /\ job \in [Pushers -> Job]
      /\ Progress(p)
  BY Digests DEF IInv, PushTypeOK, Job, PushInv
<1>2. ASSUME Finish(p, "failed") \/ Finish(p, "success") PROVE Advances(p)
  BY <1>1, <1>2 DEF Finish, Goto, Advances
<1>3. ASSUME BlobDone(p), pc[p] \in Uploading PROVE Advances(p)
  <2>1. job[p].blob \in job[p].todo
    BY <1>1, <1>3 DEF Progress
  <2>2. job'[p].todo = job[p].todo \ {job[p].blob}
    BY <1>1, <1>3 DEF BlobDone, Job
  <2>. QED
    BY <2>1, <2>2 DEF Advances
<1>4. ASSUME NEW s, Goto(p, s), job'[p] = job[p],
             \/ pc[p] = "head" /\ s = "init"
             \/ pc[p] = "init" /\ s = "patch"
             \/ pc[p] = "patch" /\ s = "put"
             \/ pc[p] = "put" /\ s \in {"verify", "confirm"}
             \/ pc[p] = "manifest" /\ s = "putmanifest"
             \/ pc[p] = "putmanifest" /\ s = "headmanifest"
      PROVE  Advances(p)
  <2>1. pc'[p] = s
    BY <1>1, <1>4 DEF Goto
  <2>. QED
    BY <1>1, <1>4, <2>1 DEF Advances, Distance
<1>5. CASE CheckBlob(p)
  <2>1. PICK b \in job[p].todo :
          /\ pc[p] = "check"
          /\ \/ job' = [job EXCEPT ![p].blob = b] /\ Goto(p, "head")
             \/ Finish(p, "failed")
    BY <1>5 DEF CheckBlob
  <2>2. CASE job' = [job EXCEPT ![p].blob = b] /\ Goto(p, "head")
    <3>1. /\ pc'[p] = "head" /\ job'[p].todo = job[p].todo
      BY <1>1, <2>2 DEF Goto, Job
    <3>. QED
      BY <1>1, <2>1, <3>1 DEF Advances, Distance
  <2>. QED
    BY <1>2, <2>1, <2>2
<1>6. CASE CheckManifest(p)
  BY <1>2, <1>4, <1>6 DEF CheckManifest
<1>7. ASSUME NEW r \in Outcomes, Request(p, r) PROVE Advances(p)
  <2>1. CASE HeadBlob(p, r)
    BY <1>3, <1>4, <2>1 DEF HeadBlob, Uploading
  <2>2. CASE InitUpload(p, r)
    BY <1>2, <1>4, <2>2 DEF InitUpload
  <2>3. CASE PatchBlob(p, r)
    <3>1. /\ pc[p] = "patch"
          /\ \/ \E threw \in BOOLEAN : Retry(p, threw, "patch", "put")
             \/ Goto(p, "put") /\ job' = job
      BY <2>3 DEF PatchBlob
    <3>2. ASSUME NEW threw \in BOOLEAN, Retry(p, threw, "patch", "put")
          PROVE  Advances(p)
      BY <1>1, <3>1, <3>2, RetryNearer DEF Advances, Distance
    <3>. QED
      BY <1>4, <3>1, <3>2
  <2>4. CASE PutBlob(p, r)
    BY <1>4, <2>4 DEF PutBlob
  <2>5. CASE VerifyBlob(p, r)
    <3>1. /\ pc[p] = "verify"
          /\ \E threw \in BOOLEAN : Retry(p, threw, "put", "confirm")
      BY <2>5 DEF VerifyBlob
    <3>. QED
      BY <1>1, <3>1, RetryNearer DEF Advances, Distance
  <2>6. CASE ConfirmBlob(p, r)
    BY <1>2, <1>3, <2>6 DEF ConfirmBlob, Uploading
  <2>7. CASE PutManifest(p, r)
    BY <1>2, <1>4, <2>7 DEF PutManifest
  <2>8. CASE HeadManifest(p, r)
    BY <1>2, <2>8 DEF HeadManifest
  <2>. QED
    BY <1>7, <2>1, <2>2, <2>3, <2>4, <2>5, <2>6, <2>7, <2>8 DEF Request
<1>. QED
  BY <1>5, <1>6, <1>7 DEF Step

\* Every step of a push ends it, leaves it waiting for ever, brings it to its
\* next blob or nearer to that, whatever the registry answers, however many
\* pushes run, and no other step sets it back (the loops of push.cpp:186-256
\* and retry.cpp:46-56).
THEOREM PushesAdvance == Spec => PushAdvances
<1>1. IInv /\ [Next]_vars =>
        [\A p \in Pushers :
           pc[p] # "idle" =>
              \/ Advances(p)
              \/ ~Step(p) /\ pc'[p] = pc[p] /\ job'[p] = job[p]]_vars
  <2>. SUFFICES ASSUME IInv, Next, NEW p \in Pushers, pc[p] # "idle", ~Step(p)
                PROVE  \/ Advances(p)
                       \/ pc'[p] = pc[p] /\ job'[p] = job[p]
    BY StepAdvances
  <2>1. CASE Push(p)
    BY <2>1 DEF Push, Start
  <2>2. CASE Crash(p)
    BY <2>2 DEF Crash, Finish, Goto, Advances, IInv, PushTypeOK
  <2>3. CASE Hang(p)
    BY <2>3 DEF Hang, Goto, Advances, IInv, PushTypeOK
  <2>4. ASSUME NEW q \in Pushers \ {p}, Push(q) \/ Step(q) \/ Hang(q) \/ Crash(q)
        PROVE  pc'[p] = pc[p] /\ job'[p] = job[p]
    BY <2>4, StepKept DEF Kept, Spared
  <2>5. ASSUME NEW f \in Files, Damage(f)
        PROVE  pc'[p] = pc[p] /\ job'[p] = job[p]
    BY <2>5 DEF Damage
  <2>. QED
    BY <2>1, <2>2, <2>3, <2>4, <2>5 DEF Next
<1>. QED
  BY <1>1, Invariance, PTL DEF Spec, PushAdvances
=============================================================================
