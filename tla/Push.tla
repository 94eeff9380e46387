-------------------------------- MODULE Push --------------------------------
(***************************************************************************)
(* push: an image of the local store is uploaded to a registry.            *)
(*                                                                         *)
(* Each push is a process: layer by layer, then the config, it asks for    *)
(* the blob (HEAD), opens an upload (POST), sends the file (PATCH), closes *)
(* the upload under the blob's digest (PUT) and asks for the blob again;   *)
(* last it puts the manifest under the tag and asks for the tag.  Every    *)
(* request is one step.  It may be lost on the way to the registry or      *)
(* answered with the answer lost.  Mostly the client sees an exception     *)
(* then; but it sets no timeout, so if nobody closes the connection, it    *)
(* waits for the answer for ever.                                          *)
(*                                                                         *)
(* The registry is the environment, modelled as the client relies on it:   *)
(* an upload takes what each PATCH appends to it, and a PUT stores it if   *)
(* it has the digest asked for.  It is not relied on to look whether the   *)
(* blobs of a manifest are there.                                          *)
(*                                                                         *)
(* Blobs of the local store may be removed or overwritten at any time (by  *)
(* another command), and the process may die.                              *)
(***************************************************************************)
EXTENDS Integers

CONSTANTS
    Pushers,             \* push processes
    Manifests, Configs, Layers,   \* digests
    ConfigOf,            \* [Manifests -> Configs]
    LayersOf,            \* [Manifests -> SUBSET Layers]
    Tags,
    None,                \* no blob, no manifest
    Mixed,               \* what is no blob: a torn file, two files in a row
    MaxRetry,            \* Retry::Options::MaxRetry (3 in the code)
    Formats,             \* whether --format (which asks for v1) may be given
    Dialects,            \* how registries may word the location of an upload
    MaxFaults            \* bound: requests lost, blobs damaged, crashes

Blobs == Configs \cup Layers
Files == Blobs \cup Manifests

\* understood: absolute, with the state parameter the client looks for;
\* state: with the other spelling of it; relative: without host and port.
AllDialects == {"understood", "state", "relative"}

ASSUME PushAssumption ==
    /\ ConfigOf \in [Manifests -> Configs]
    /\ LayersOf \in [Manifests -> SUBSET Layers]
    /\ None \notin Files
    /\ Mixed \notin Files \cup {None}
    /\ Configs \cap Layers = {}
    /\ MaxRetry \in Nat
    /\ MaxFaults \in Nat
    /\ Formats \subseteq BOOLEAN
    /\ Dialects \subseteq AllDialects

VARIABLES
    whole,    \* files of the local store that match their digest
    remote,   \* blobs of the registry
    tags,     \* the manifest of each tag of the registry
    upload,   \* the upload that each process's loginAuth.location names
    dialect,  \* the registry's
    pc,       \* where each process stands
    job,      \* what it pushes and how far it is
    result,   \* how its last push ended
    lost,     \* history: the faults that hit its requests
    faults    \* how many faults have happened

registry == <<remote, tags>>
vars == <<whole, remote, tags, upload, dialect, pc, job, result, lost, faults>>

PartsOf == [m \in Manifests |-> {ConfigOf[m]} \cup LayersOf[m]]

\* Where a push waits for an answer.
Requests == {"head", "init", "patch", "put", "verify", "confirm",
             "putmanifest", "headmanifest"}
PCs == Requests \cup {"idle", "check", "manifest", "hung"}
Upload == [open : BOOLEAN, fresh : BOOLEAN, data : Blobs \cup {None, Mixed}]
Job == [img : Manifests \cup {None}, tag : Tags \cup {None},
        todo : SUBSET Blobs, blob : Blobs \cup {None},
        tries : 0..MaxRetry]
Lost == [once : BOOLEAN, again : 0..MaxFaults]

NoUpload == [open |-> FALSE, fresh |-> FALSE, data |-> None]
JobFor(m, t, blobs) ==
    [img |-> m, tag |-> t, todo |-> blobs, blob |-> None, tries |-> 0]
NoJob == JobFor(None, None, {})
NoLost == [once |-> FALSE, again |-> 0]

Outcomes == {"answered", "unheard", "lost"}

Init ==
    /\ whole = Files
    /\ remote = {}
    /\ tags = [t \in Tags |-> None]
    /\ dialect \in Dialects
    /\ upload = [p \in Pushers |-> NoUpload]
    /\ pc = [p \in Pushers |-> "idle"]
    /\ job = [p \in Pushers |-> NoJob]
    /\ result = [p \in Pushers |-> "none"]
    /\ lost = [p \in Pushers |-> NoLost]
    /\ faults = 0

-----------------------------------------------------------------------------
(* Requests, attempts and the end of a push.                               *)

Goto(p, s) == pc' = [pc EXCEPT ![p] = s]

\* A request of which the client hears nothing is a fault.
Fault(r) ==
    /\ r # "answered" => faults < MaxFaults
    /\ faults' = IF r = "answered" THEN faults ELSE faults + 1

\* Whether a later attempt repeats the request.
Once(p, r) == lost' = [lost EXCEPT ![p].once = @ \/ r # "answered"]
Again(p, r) ==
    lost' = [lost EXCEPT ![p].again = IF r = "answered" THEN @ ELSE @ + 1]

\* Return, or an uncaught exception: both end the process.  What is left is
\* the answer the user got.
Finish(p, how) ==
    /\ Goto(p, "idle")
    /\ result' = [result EXCEPT ![p] = how]
    /\ job' = [job EXCEPT ![p] = JobFor(job[p].img, job[p].tag, {})]
    /\ upload' = [upload EXCEPT ![p] = NoUpload]

\* Mutants: one attempt too many; no second attempt; the attempts are not
\* counted.
RetryMore(p, threw, first, next) ==
    IF (threw \/ job[p].tries > 0) /\ job[p].tries <= MaxRetry
      THEN /\ job' = [job EXCEPT ![p].tries = @ + 1]
           /\ Goto(p, first)
      ELSE /\ job' = [job EXCEPT ![p].tries = 0]
           /\ Goto(p, next)
RetryNever(p, threw, first, next) == UNCHANGED job /\ Goto(p, next)
RetryForever(p, threw, first, next) ==
    IF threw THEN UNCHANGED job /\ Goto(p, first)
    ELSE UNCHANGED job /\ Goto(p, next)

\* RetryIfNecessary after an attempt: when the first one throws, MaxRetry
\* more follow, whatever becomes of them; the last exception is swallowed.
Retry(p, threw, first, next) ==
    IF (threw \/ job[p].tries > 0) /\ job[p].tries < MaxRetry
      THEN /\ job' = [job EXCEPT ![p].tries = @ + 1]
           /\ Goto(p, first)
      ELSE /\ job' = [job EXCEPT ![p].tries = 0]
           /\ Goto(p, next)

\* Mutant: the loop does not go on to the next blob.
BlobAgain(p) ==
    /\ job' = [job EXCEPT ![p].blob = None]
    /\ Goto(p, IF job[p].todo = {job[p].blob} THEN "manifest" ELSE "check")

\* The current blob is on the registry.
BlobDone(p) ==
    /\ job' = [job EXCEPT ![p].todo = @ \ {job[p].blob}, ![p].blob = None]
    /\ Goto(p, IF job[p].todo = {job[p].blob} THEN "manifest" ELSE "check")

-----------------------------------------------------------------------------
(* The blobs.                                                              *)

Start(p, m, t) ==
    /\ pc[p] = "idle"
    /\ Goto(p, "check")
    /\ job' = [job EXCEPT ![p] = JobFor(m, t, PartsOf[m])]
    /\ result' = [result EXCEPT ![p] = "none"]
    /\ upload' = [upload EXCEPT ![p] = NoUpload]
    /\ lost' = [lost EXCEPT ![p] = NoLost]
    /\ UNCHANGED <<whole, registry, dialect, faults>>

\* isCorrect: the local file must have its digest.  The config comes last.
CheckBlob(p) ==
    \E b \in job[p].todo :
        /\ pc[p] = "check"
        /\ b \in Configs => job[p].todo = {b}
        /\ IF b \in whole
             THEN /\ job' = [job EXCEPT ![p].blob = b]
                  /\ Goto(p, "head")
                  /\ UNCHANGED <<upload, result>>
             ELSE Finish(p, "failed")
        /\ UNCHANGED <<whole, registry, dialect, lost, faults>>

\* ifBlobExists: no answer counts as no.
Found(p, r) == r = "answered" /\ job[p].blob \in remote

HeadBlob(p, r) ==
    /\ pc[p] = "head"
    /\ Fault(r)
    /\ IF Found(p, r) THEN BlobDone(p) ELSE Goto(p, "init") /\ UNCHANGED job
    /\ UNCHANGED <<whole, registry, upload, dialect, result, lost>>

\* initUpload.  A location without host and port leaves the client's own
\* as it was.
InitUpload(p, r) ==
    /\ pc[p] = "init"
    /\ Fault(r)
    /\ Once(p, r)
    /\ IF r = "answered"
         THEN /\ upload' = IF dialect = "relative" THEN upload
                           ELSE [upload EXCEPT ![p] =
                                   [open |-> TRUE, fresh |-> TRUE, data |-> None]]
              /\ Goto(p, "patch")
              /\ UNCHANGED <<job, result>>
         ELSE Finish(p, "failed")
    /\ UNCHANGED <<whole, registry, dialect>>

\* What the registry has received when sent comes after data.
Appended(data, sent) == IF data = None THEN sent ELSE Mixed

\* The file is read again: by now it may be gone (nothing is sent then) or
\* hold something else.
Sent(b, files) == IF b \in files THEN {b} ELSE {Mixed, None}

\* A registry may refuse a location that is not the one it gave last.
Taken(u) == IF u.open THEN {TRUE} \cup {u.fresh} ELSE {FALSE}

\* Mutant: the new location in the answer is not used.
PatchedStale(u, sent, r) ==
    [open |-> TRUE, fresh |-> FALSE, data |-> Appended(u.data, sent)]

\* The upload after the registry has taken a PATCH.
Patched(u, sent, r) ==
    [open |-> TRUE, fresh |-> r = "answered", data |-> Appended(u.data, sent)]

\* uploadBlobChunk catches its own exceptions and then returns what it was
\* given, which RetryIfNecessary takes for success.  Only an answer without
\* the state it looks for makes the attempt throw.
PatchBlob(p, r) ==
    \E sent \in Sent(job[p].blob, whole), taken \in Taken(upload[p]) :
        /\ pc[p] = "patch"
        /\ Fault(r)
        /\ Once(p, r)
        /\ IF taken /\ sent # None /\ r # "lost"
             THEN upload' = [upload EXCEPT ![p] = Patched(@, sent, r)]
             ELSE UNCHANGED upload
        /\ IF job[p].blob \in Layers
             THEN Retry(p, taken /\ sent # None /\ r = "answered"
                             /\ dialect = "state", "patch", "put")
             ELSE Goto(p, "put") /\ UNCHANGED job
        /\ UNCHANGED <<whole, registry, dialect, result>>

\* finalizeUpload: what it throws, it catches.  A layer is then looked for
\* within the attempt.
PutBlob(p, r) ==
    \E taken \in Taken(upload[p]) :
        /\ pc[p] = "put"
        /\ Fault(r)
        /\ IF taken /\ r # "lost" /\ upload[p].data = job[p].blob
             THEN /\ remote' = remote \cup {job[p].blob}
                  /\ upload' = [upload EXCEPT ![p] = NoUpload]
             ELSE UNCHANGED <<remote, upload>>
        /\ IF job[p].blob \in Layers THEN Again(p, r) /\ Goto(p, "verify")
                                     ELSE Once(p, r) /\ Goto(p, "confirm")
        /\ UNCHANGED <<whole, tags, dialect, job, result>>

VerifyBlob(p, r) ==
    /\ pc[p] = "verify"
    /\ Fault(r)
    /\ Again(p, r)
    /\ Retry(p, ~Found(p, r), "put", "confirm")
    /\ UNCHANGED <<whole, registry, upload, dialect, result>>

\* Mutant: the last look at the registry does not count.
ConfirmNothing(p, r) ==
    /\ pc[p] = "confirm"
    /\ Fault(r)
    /\ Once(p, r)
    /\ BlobDone(p)
    /\ UNCHANGED <<whole, registry, upload, dialect, result>>

ConfirmBlob(p, r) ==
    /\ pc[p] = "confirm"
    /\ Fault(r)
    /\ Once(p, r)
    /\ IF Found(p, r) THEN BlobDone(p) /\ UNCHANGED <<upload, result>>
                      ELSE Finish(p, "failed")
    /\ UNCHANGED <<whole, registry, dialect>>

-----------------------------------------------------------------------------
(* The manifest.                                                           *)

CheckManifest(p) ==
    /\ pc[p] = "manifest"
    /\ IF job[p].img \in whole
         THEN Goto(p, "putmanifest") /\ UNCHANGED <<upload, job, result>>
         ELSE Finish(p, "failed")
    /\ UNCHANGED <<whole, registry, dialect, lost, faults>>

\* uploadManifest: what it throws, it catches.  The registry refuses what is
\* not a manifest: a file damaged since the check, or, with --format, the
\* rewritten manifest when it is not found or is cut to the old length.
\* With --format nobody looks whether the tag is there.  (v1, whether the
\* option was given, makes no difference before.)
PutManifest(p, r) ==
    \E v1 \in Formats, good \in BOOLEAN :
        /\ pc[p] = "putmanifest"
        /\ good => job[p].img \in whole
        /\ ~good => v1 \/ job[p].img \notin whole
        /\ Fault(r)
        /\ Once(p, r)
        /\ tags' = IF good /\ r # "lost"
                     THEN [tags EXCEPT ![job[p].tag] = job[p].img] ELSE tags
        /\ IF v1
             THEN Finish(p, "success")
             ELSE Goto(p, "headmanifest") /\ UNCHANGED <<upload, job, result>>
        /\ UNCHANGED <<whole, remote, dialect>>

\* ifManifestExists asks for the tag, whatever manifest it has.
HeadManifest(p, r) ==
    /\ pc[p] = "headmanifest"
    /\ Fault(r)
    /\ Once(p, r)
    /\ Finish(p, IF r = "answered" /\ tags[job[p].tag] # None
                   THEN "success" ELSE "failed")
    /\ UNCHANGED <<whole, registry, dialect>>

-----------------------------------------------------------------------------
(* The environment.                                                        *)

\* Another command removes or overwrites a file of the store.
Damage(f) ==
    /\ f \in whole
    /\ Fault("lost")
    /\ whole' = whole \ {f}
    /\ UNCHANGED <<registry, upload, dialect, pc, job, result, lost>>

\* The answer to a request never comes, and nobody closes the connection.
\* The registry has done what it was asked, or has not.
Hang(p) ==
    /\ pc[p] \in Requests
    /\ Fault("lost")
    /\ Goto(p, "hung")
    /\ \/ UNCHANGED registry
       \/ /\ pc[p] = "put" /\ upload[p].open /\ upload[p].data = job[p].blob
          /\ remote' = remote \cup {job[p].blob}
          /\ UNCHANGED tags
       \/ /\ pc[p] = "putmanifest" /\ job[p].img \in whole
          /\ tags' = [tags EXCEPT ![job[p].tag] = job[p].img]
          /\ UNCHANGED remote
    /\ UNCHANGED <<whole, upload, dialect, job, result, lost>>

\* The process dies.  Whoever waits for one that hangs kills it in the end.
Crash(p) ==
    /\ pc[p] # "idle"
    /\ IF pc[p] = "hung" THEN UNCHANGED faults ELSE Fault("lost")
    /\ Once(p, "lost")
    /\ Finish(p, "failed")
    /\ UNCHANGED <<whole, registry, dialect>>

-----------------------------------------------------------------------------
Request(p, r) ==
    \/ HeadBlob(p, r)
    \/ InitUpload(p, r)
    \/ PatchBlob(p, r)
    \/ PutBlob(p, r)
    \/ VerifyBlob(p, r)
    \/ ConfirmBlob(p, r)
    \/ PutManifest(p, r)
    \/ HeadManifest(p, r)

\* One step of a push that is under way.
Step(p) ==
    \/ CheckBlob(p)
    \/ CheckManifest(p)
    \/ \E r \in Outcomes : Request(p, r)

Push(p) == \E m \in Manifests, t \in Tags : Start(p, m, t)

Next ==
    \/ \E p \in Pushers : Push(p) \/ Step(p) \/ Hang(p) \/ Crash(p)
    \/ \E f \in Files : Damage(f)

\* A process that is not dead runs on: each of its calls blocks on nothing
\* but a connection, and one that neither answers nor fails is a Hang.  Who
\* sees a push hang kills it; who sees one fail repeats it.
Kill(p) == pc[p] = "hung" /\ Crash(p)
Repeat(p) == result[p] = "failed" /\ Push(p)
Fairness ==
    \A p \in Pushers : WF_vars(Step(p)) /\ WF_vars(Kill(p)) /\ WF_vars(Repeat(p))

Spec == Init /\ [][Next]_vars /\ Fairness

-----------------------------------------------------------------------------
PushTypeOK ==
    /\ whole \subseteq Files
    /\ remote \subseteq Blobs
    /\ tags \in [Tags -> Manifests \cup {None}]
    /\ upload \in [Pushers -> Upload]
    /\ dialect \in AllDialects
    /\ pc \in [Pushers -> PCs]
    /\ job \in [Pushers -> Job]
    /\ result \in [Pushers -> {"none", "success", "failed"}]
    /\ lost \in [Pushers -> Lost]
    /\ faults \in 0..MaxFaults

\* A push fails only for a reason: a local file of the image is damaged, the
\* registry words its answers in a way the client does not understand, a
\* fault has hit a request that is not repeated (or the process itself), or
\* there were more faults than attempts to close an upload.  What is retried
\* survives MaxRetry faults (push.cpp:239-246 with retry.cpp:41-59).
FailureHasCause ==
    \A p \in Pushers : result[p] = "failed" =>
        \/ dialect # "understood"
        \/ ~(PartsOf[job[p].img] \cup {job[p].img} \subseteq whole)
        \/ lost[p].once
        \/ lost[p].again > MaxRetry

\* However pushes interleave, fail, die and are repeated, the registry is a
\* repository: no tag ever names a manifest whose blobs are not all there.
R == INSTANCE Repository WITH Blobs <- Blobs, PartsOf <- PartsOf,
                              stored <- remote, named <- tags
RepositorySpec == R!Spec

\* How many requests and checks are left to a push before it comes to the
\* next blob or ends.
Distance(p) ==
    LET left == MaxRetry - job[p].tries
    IN  CASE pc[p] = "check"   -> 3 * MaxRetry + 10
          [] pc[p] = "head"    -> 3 * MaxRetry + 9
          [] pc[p] = "init"    -> 3 * MaxRetry + 8
          [] pc[p] = "patch"   -> 2 * MaxRetry + 7 + left
          [] pc[p] = "put"     -> 6 + 2 * left
          [] pc[p] = "verify"  -> 5 + 2 * left
          [] pc[p] = "confirm" -> 4
          [] pc[p] = "manifest"     -> 3
          [] pc[p] = "putmanifest"  -> 2
          [] pc[p] = "headmanifest" -> 1
          [] OTHER -> 0

\* A push that is under way ends, hangs, has a blob less to do, or is nearer to
\* that, with each of its steps, whatever the registry answers; nothing else
\* sets it back.  So no push goes on for ever (the loops of push.cpp:186-256
\* and retry.cpp:46-56), unless it waits for an answer for ever.
Advances(p) ==
    \/ pc'[p] \in {"idle", "hung"}
    \/ job'[p].todo \subseteq job[p].todo /\ job'[p].todo # job[p].todo
    \/ job'[p].todo = job[p].todo /\ Distance(p)' < Distance(p)
PushAdvances ==
    [][\A p \in Pushers :
          pc[p] # "idle" =>
             \/ Advances(p)
             \/ ~Step(p) /\ pc'[p] = pc[p] /\ job'[p] = job[p]]_vars

\* A push that runs ends or comes to wait for an answer that never comes: no
\* loop of its own keeps it going (push.cpp:186-256, retry.cpp:46-56).
PushEnds == \A p \in Pushers : pc[p] # "idle" ~> pc[p] \in {"idle", "hung"}

\* While the local store stays whole, a push that failed, or hung and was
\* killed, succeeds when it is repeated often enough: blobs already there are
\* skipped, uploads left behind do no harm (push.cpp:199).
Resumed ==
    [](whole = Files /\ dialect = "understood") =>
        \A p \in Pushers : result[p] = "failed" \/ pc[p] = "hung"
                              ~> result[p] = "success"

\* "Push success!!" (push.cpp:340): the tag names the image.
SuccessNamesImage ==
    \A p \in Pushers : result[p] = "success" => tags[job[p].tag] = job[p].img
=============================================================================
