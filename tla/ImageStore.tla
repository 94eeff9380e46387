----------------------------- MODULE ImageStore -----------------------------
(***************************************************************************)
(* The on-disk image store of ocibuilder and the commands that change it.  *)
(*                                                                         *)
(* The store is a directory: index.json lists the images (one record per   *)
(* stored reference name) and blobs/sha256 holds manifests, configs and    *)
(* layers, each in a file named after its digest.  Every command is a      *)
(* process of its own: it loads the whole index into memory, works on that *)
(* copy and writes the whole index back.  No lock is held meanwhile: the   *)
(* lock file of the image store is created and never taken                 *)
(* (storage.cpp:454-484).                                                  *)
(*                                                                         *)
(* A digest is a member of a set.  What a digest determines is given by    *)
(* constant functions: the config and the layers a manifest names.         *)
(*                                                                         *)
(* A blob is written under a temporary name first, and the digest of that  *)
(* file then becomes its name.  The temporary names are fixed: two         *)
(* processes that run the same command share them.                         *)
(***************************************************************************)
EXTENDS Integers, SequencesExt

CONSTANTS
    Procs,          \* command processes that may run at the same time
    Names,          \* full reference names, e.g. localhost/app:1
    Shorts,         \* what follows the last '/' of a name, e.g. app:1
    ShortOf,        \* [Names -> Shorts]
    LocalName,      \* [Shorts -> Names]: the name with localhost/ in front
    Manifests, Configs, Layers,   \* digests
    ConfigOf,       \* [Manifests -> Configs]
    LayersOf,       \* [Manifests -> SUBSET Layers]
    None,           \* no reference, no manifest
    CommandsOf,     \* [Procs -> set of commands a user runs there]
    MaxArgs,        \* bound: arguments of one rmi
    MaxPos,         \* bound: positions of records in the index
    MaxHistory,     \* bound: length of a record's history
    Reuse,          \* may build, pull and tag use a name that is taken?
    FreshBuilds,    \* is every build a new image (its config holds a time)?
    WriteErrors,    \* may writing a blob fail?
    LossyRegistry,  \* may a download fail or deliver a wrong blob?
    Crashes         \* may a process die between two steps?

AllCommands == {"build", "pull", "tag", "config", "rmi", "images"}
Refs  == Names \cup Shorts \cup Configs
Blobs == Manifests \cup Configs \cup Layers

ASSUME NameAssumption ==
    /\ ShortOf \in [Names -> Shorts]
    /\ LocalName \in [Shorts -> Names]
    /\ \A s \in Shorts : ShortOf[LocalName[s]] = s
    /\ None \notin Refs \cup Blobs
ASSUME DigestAssumption ==
    /\ ConfigOf \in [Manifests -> Configs]
    /\ LayersOf \in [Manifests -> SUBSET Layers]
    /\ Manifests \cap Configs = {}
    /\ Manifests \cap Layers = {}
    /\ Configs \cap Layers = {}
ASSUME CommandAssumption ==
    /\ CommandsOf \in [Procs -> SUBSET AllCommands]
    /\ Reuse \in BOOLEAN
    /\ FreshBuilds \in BOOLEAN
    /\ WriteErrors \in BOOLEAN
    /\ LossyRegistry \in BOOLEAN
    /\ Crashes \in BOOLEAN
ASSUME BoundAssumption ==
    /\ MaxArgs \in Nat \ {0}
    /\ MaxPos \in Nat
    /\ MaxHistory \in Nat

VARIABLES
    index,   \* records of index.json; pos orders them
    blobs,   \* digests whose file in blobs/sha256 is present and whole
    torn,    \* digests whose file is present but holds something else
    staged,  \* <<command, blob>>: the blob is in a temporary file
    pc,      \* where each process stands
    cmd,     \* the command it runs and the operations left to do
    mem,     \* its copy of the store: ImageStore::images and bydigest
    job,     \* the operation under way
    out      \* the index it is about to write

disk == <<index, blobs, torn, staged>>
vars == <<index, blobs, torn, staged, pc, cmd, mem, job, out>>

-----------------------------------------------------------------------------
(* Records, objects in memory, and what they refer to.                     *)

Entry == [pos : 0..MaxPos, name : Names, digest : Manifests,
          history : Seq(Manifests)]

\* An object keeps the id it had when it was loaded, and stays reachable by
\* name (byname) after it is erased from images: live tells the two apart.
Object == [pos : 0..MaxPos, name : Names, digest : Manifests,
           history : Seq(Manifests), id : Configs, live : BOOLEAN]

Uploading == {"upload", "fetched", "staged", "hashed", "mixed", "rewrite"}
PCs == {"idle", "ready", "history", "truncate", "write"} \cup Uploading
Staging == {"build", "pull", "config"}
Memory == [objs : SUBSET Object, bydigest : SUBSET Manifests]
Job == [ref : Refs \cup {None}, img : Manifests \cup {None},
        todo : SUBSET Blobs, blob : Blobs \cup {None}, hist : Seq(Manifests), pos : 0..MaxPos]

NoCmd == [op |-> "none", left |-> 0]
NoMem == [objs |-> {}, bydigest |-> {}]
NoJob == [ref |-> None, img |-> None, todo |-> {}, blob |-> None,
          hist |-> <<>>, pos |-> 0]

BlobsOf(m) == {m, ConfigOf[m]} \cup LayersOf[m]

\* All digests a record or an object refers to.
Digests(r) == {r.digest} \cup ToSet(r.history)

ObjectOf(r) == [pos |-> r.pos, name |-> r.name, digest |-> r.digest,
                history |-> r.history, id |-> ConfigOf[r.digest],
                live |-> TRUE]
EntryOf(o) == [pos |-> o.pos, name |-> o.name, digest |-> o.digest,
               history |-> o.history]

Live(objs) == {o \in objs : o.live}
Entries(objs) == {EntryOf(o) : o \in Live(objs)}

\* The place push_back gives a new record.
EndPos(S) == {n \in 0..MaxPos : /\ \A r \in S : r.pos < n
                                /\ n = 0 \/ \E r \in S : r.pos = n - 1}

\* The records of S at the positions they get in the written array.
Compact(S) ==
    {{[r EXCEPT !.pos = rank[r.pos]] : r \in S} :
       rank \in {f \in [{r.pos : r \in S} -> 0..MaxPos] :
                   \A a \in DOMAIN f :
                     /\ f[a] = 0 \/ \E b \in DOMAIN f : f[b] = f[a] - 1
                     /\ \A b \in DOMAIN f : a < b => f[a] < f[b]}}

\* parseJson reads the manifest of every record and throws when one is
\* missing: then no command can open the store.
Loadable == \A r \in index : r.digest \in blobs

\* Two records with one short name: load rewrites the index at once.
DuplicateNames(S) ==
    \E r, q \in S : r # q /\ ShortOf[r.name] = ShortOf[q.name]

\* Mutant: only the newest manifest of a record counts as in use.
LoadIndexHeads(S) == [objs     |-> {ObjectOf(r) : r \in S},
                      bydigest |-> {r.digest : r \in S}]

LoadIndex(S) == [objs     |-> {ObjectOf(r) : r \in S},
                 bydigest |-> UNION {Digests(r) : r \in S}]

\* Mutant: a short name is not looked up.
MatchesFullOnly(o, ref) == ref \in {o.name, o.id}

Matches(o, ref) == ref \in {o.name, ShortOf[o.name], o.id}

\* The maps byname and byid keep the last record of a name or an id.
Lookup(objs, ref) ==
    {o \in objs : /\ Matches(o, ref)
                  /\ \A q \in objs : Matches(q, ref) => q.pos <= o.pos}

\* Mutants: layers go whoever else uses them; the manifest being deleted
\* still counts as a user of its layers.
AllLayers(m, bydigest, files) == LayersOf[m]
NoLayers(m, bydigest, files) ==
    {l \in LayersOf[m] : \A d \in {m} \cup bydigest : l \notin LayersOf[d]}

\* The layers of m that no other manifest known to the process names.
UnusedLayers(m, bydigest, files) ==
    {l \in LayersOf[m] : \A d \in bydigest \cap files : l \notin LayersOf[d]}

-----------------------------------------------------------------------------
(* Steps every command takes.                                              *)

Init ==
    /\ index = {}
    /\ blobs = {}
    /\ torn = {}
    /\ staged = {}
    /\ pc  = [p \in Procs |-> "idle"]
    /\ cmd = [p \in Procs |-> NoCmd]
    /\ mem = [p \in Procs |-> NoMem]
    /\ job = [p \in Procs |-> NoJob]
    /\ out = [p \in Procs |-> {}]

\* Mutant: the loop over the arguments does not stop.
RunningOn(p, op) == pc[p] = "ready" /\ cmd[p].op = op

Running(p, op) == pc[p] = "ready" /\ cmd[p].op = op /\ cmd[p].left > 0

Goto(p, s) == pc' = [pc EXCEPT ![p] = s]
TakeArg(p) == cmd' = [cmd EXCEPT ![p].left = @ - 1]

\* The process ends, by return, exception or crash: its memory is lost.
End(p) ==
    /\ Goto(p, "idle")
    /\ cmd' = [cmd EXCEPT ![p] = NoCmd]
    /\ mem' = [mem EXCEPT ![p] = NoMem]
    /\ job' = [job EXCEPT ![p] = NoJob]
    /\ out' = [out EXCEPT ![p] = {}]

Open(p, op, n) ==
    /\ pc[p] = "idle"
    /\ op \in CommandsOf[p]
    /\ n \in IF op = "rmi" THEN 1..MaxArgs
             ELSE IF op = "images" THEN {0} ELSE {1}
    /\ Loadable
    /\ mem' = [mem EXCEPT ![p] = LoadIndex(index)]
    /\ cmd' = [cmd EXCEPT ![p] = [op |-> op, left |-> n]]
    /\ IF DuplicateNames(index)
         THEN Goto(p, "truncate") /\ out' = [out EXCEPT ![p] = index]
         ELSE Goto(p, "ready") /\ UNCHANGED out
    /\ UNCHANGED <<disk, job>>

OpenFails(p) == pc[p] = "idle" /\ ~Loadable /\ UNCHANGED vars

\* All arguments are done; or the user stops the command, or a Dockerfile or
\* an argument is bad, before the next operation begins.
Exit(p) == pc[p] = "ready" /\ End(p) /\ UNCHANGED disk

\* ImageStore::Save and the end of copy.cpp's Image open the file with
\* trunc, then write it.  An empty file reads as an empty index.
Truncate(p) ==
    /\ pc[p] = "truncate"
    /\ index' = {}
    /\ Goto(p, "write")
    /\ UNCHANGED <<blobs, torn, staged, cmd, mem, job, out>>

Write(p) ==
    /\ pc[p] = "write"
    /\ index' \in Compact(out[p])
    /\ out' = [out EXCEPT ![p] = {}]
    /\ Goto(p, "ready")
    /\ UNCHANGED <<blobs, torn, staged, cmd, mem, job>>

Crash(p) == Crashes /\ pc[p] # "idle" /\ End(p) /\ UNCHANGED disk

\* An operation that found nothing to do, and one that writes the index.
Skip(p) == UNCHANGED <<disk, pc, mem, job, out>>
Save(p, entries) == Goto(p, "truncate") /\ out' = [out EXCEPT ![p] = entries]

DeleteFiles(S) == blobs' = blobs \ S /\ torn' = torn \ S

-----------------------------------------------------------------------------
(* tag and rmi.                                                            *)

Tag(p, ref, new) ==
    LET objs    == mem[p].objs
        source  == Lookup(objs, ref)
        retired == Lookup(objs, new)
        kept    == Live(objs) \ retired
    IN  /\ Running(p, "tag")
        /\ Reuse \/ retired = {}
        /\ TakeArg(p)
        /\ \/ source = {} /\ Skip(p)
           \/ \E s \in source, n \in EndPos(kept) :
                /\ Save(p, {EntryOf(o) : o \in kept} \cup
                           {[pos |-> n,
                             name |-> IF new \in Shorts THEN LocalName[new]
                                      ELSE new,
                             digest |-> s.digest, history |-> s.history]})
                /\ UNCHANGED <<disk, mem, job>>

\* Delete by name.  The files go only when this is the one live record of
\* its id; else the record alone is erased.
RmiName(p, ref) ==
    LET objs == mem[p].objs
    IN  /\ Running(p, "rmi")
        /\ TakeArg(p)
        /\ \/ Lookup(objs, ref) = {} /\ Skip(p)
           \/ \E o \in Lookup(objs, ref) :
                LET same == {q \in Live(objs) : q.id = o.id}
                    rest == mem[p].bydigest \ {o.digest}
                    gone == (objs \ {o}) \cup {[o EXCEPT !.live = FALSE]}
                IN  \/ /\ \A q \in same : same # {q}
                       /\ mem' = [mem EXCEPT ![p].objs = gone]
                       /\ Save(p, Entries(gone))
                       /\ UNCHANGED <<disk, job>>
                    \/ /\ \E q \in same : same = {q}
                       /\ o.digest \in blobs /\ rest \cap torn = {}
                       /\ mem' = [mem EXCEPT ![p].bydigest = rest]
                       /\ DeleteFiles(UnusedLayers(o.digest, rest, blobs))
                       /\ job' = [job EXCEPT ![p] =
                                    [NoJob EXCEPT !.img = o.digest,
                                                  !.hist = o.history,
                                                  !.pos = o.pos]]
                       /\ Goto(p, "history")
                       /\ UNCHANGED <<index, staged, out>>

\* A manifest that must be read is gone or torn: the parser throws.
RmiNameThrows(p, ref) ==
    /\ Running(p, "rmi")
    /\ \E o \in Lookup(mem[p].objs, ref) :
         /\ o.digest \notin blobs \/ mem[p].bydigest \cap torn # {}
         /\ \E q \in Live(mem[p].objs) :
              {r \in Live(mem[p].objs) : r.id = o.id} = {q}
    /\ End(p)
    /\ UNCHANGED disk

RmiHistory(p) ==
    LET h    == Head(job[p].hist)
        rest == mem[p].bydigest \ {h}
    IN  /\ pc[p] = "history"
        /\ job[p].hist # <<>>
        /\ \/ /\ h \notin blobs \/ rest \cap torn # {}
              /\ End(p)
              /\ UNCHANGED disk
           \/ /\ h \in blobs /\ rest \cap torn = {}
              /\ mem' = [mem EXCEPT ![p].bydigest = rest]
              /\ DeleteFiles(UnusedLayers(h, rest, blobs)
                             \cup {h, ConfigOf[h]})
              /\ job' = [job EXCEPT ![p].hist = Tail(@)]
              /\ UNCHANGED <<index, staged, pc, cmd, out>>

RmiHead(p) ==
    LET m    == job[p].img
        gone == {[o EXCEPT !.live = @ /\ o.pos # job[p].pos] :
                   o \in mem[p].objs}
    IN  /\ pc[p] = "history"
        /\ job[p].hist = <<>>
        /\ DeleteFiles({m, ConfigOf[m]})
        /\ mem' = [mem EXCEPT ![p].objs = gone]
        /\ job' = [job EXCEPT ![p] = NoJob]
        /\ Save(p, Entries(gone))
        /\ UNCHANGED <<index, staged, cmd>>

\* Delete by id: all live records of the id.  A record with a history falls
\* back to its previous digest, one without is erased.
RmiId(p, id) ==
    LET objs == mem[p].objs
        same == {q \in Live(objs) : q.id = id}
        bare == {q \in same : q.history = <<>>}
    IN  /\ Running(p, "rmi")
        /\ TakeArg(p)
        /\ \/ same = {} /\ Skip(p)
           \/ \E f \in same :
                LET m    == f.digest
                    rest == IF bare = {} THEN mem[p].bydigest
                            ELSE mem[p].bydigest \ {m}
                    free == IF bare = {} THEN {}
                            ELSE UnusedLayers(m, rest, blobs)
                    new  == (objs \ same)
                            \cup {[q EXCEPT !.live = FALSE] : q \in bare}
                            \cup {[q EXCEPT !.digest = Last(q.history),
                                            !.history = Front(q.history)] :
                                    q \in same \ bare}
                IN  /\ \A q \in same : f.pos <= q.pos
                    /\ m \in blobs /\ (bare = {} \/ rest \cap torn = {})
                    /\ DeleteFiles(free \cup {m, ConfigOf[m]})
                    /\ mem' = [mem EXCEPT ![p] = [objs |-> new,
                                                  bydigest |-> rest]]
                    /\ Save(p, Entries(new))
                    /\ UNCHANGED <<index, staged, job>>

RmiIdThrows(p, id) ==
    LET same == {q \in Live(mem[p].objs) : q.id = id}
    IN  /\ Running(p, "rmi")
        /\ \E f \in same : /\ \A q \in same : f.pos <= q.pos
                           /\ \/ f.digest \notin blobs
                              \/ mem[p].bydigest \cap torn # {}
        /\ End(p)
        /\ UNCHANGED disk

-----------------------------------------------------------------------------
(* build, pull and config: blobs first, then the record.                   *)

StartUpload(p, ref, m, todo) ==
    /\ TakeArg(p)
    /\ Goto(p, "upload")
    /\ job' = [job EXCEPT ![p] = [NoJob EXCEPT !.ref = ref, !.img = m,
                                               !.todo = todo]]
    /\ UNCHANGED <<disk, mem, out>>

\* Every manifest the store, its index or a running upload knows of.
Known == blobs \cup torn \cup UNION {Digests(r) : r \in index}
               \cup {job[q].img : q \in Procs}

Build(p, name, m) ==
    /\ Running(p, "build")
    /\ \A r \in index : r.name = name =>
                          Reuse /\ Len(r.history) < MaxHistory
    /\ FreshBuilds => m \notin Known
    /\ StartUpload(p, name, m, BlobsOf(m))

\* Mutant: the digest the name had is forgotten.
PullHistoryOld(o, m) == RemoveFirst(o.history, m)

\* The history of a record that pull moves from o to m: m itself is taken
\* out of it once.
PullHistory(o, m) ==
    RemoveFirst(IF o.digest = m THEN o.history
                ELSE Append(o.history, o.digest), m)

Pull(p, short, m) ==
    /\ Running(p, "pull")
    /\ \A o \in Lookup(mem[p].objs, short) :
         Reuse /\ Len(PullHistory(o, m)) <= MaxHistory
    /\ StartUpload(p, short, m, BlobsOf(m))

\* A changed config makes a new manifest over the same layers.
Config(p, ref, m) ==
    /\ Running(p, "config")
    /\ \E o \in Lookup(mem[p].objs, ref) :
         /\ {o.digest, ConfigOf[o.digest]} \subseteq blobs
         /\ LayersOf[m] = LayersOf[o.digest]
         /\ Len(o.history) < MaxHistory
    /\ StartUpload(p, ref, m, {ConfigOf[m], m})

\* The name is unknown (a null pointer is used) or a blob cannot be parsed.
ConfigFails(p, ref) ==
    /\ Running(p, "config")
    /\ \A o \in Lookup(mem[p].objs, ref) :
         ~({o.digest, ConfigOf[o.digest]} \subseteq blobs)
    /\ End(p)
    /\ UNCHANGED disk

\* build stores layers, config, manifest; pull config, manifest, layers;
\* config has no layers to store.
IsNext(p, b) ==
    LET todo == job[p].todo
    IN  /\ b \in todo
        /\ IF cmd[p].op = "pull"
             THEN \A c \in todo : /\ c \in Configs => b \in Configs
                                  /\ c \in Manifests => b \notin Layers
             ELSE \A c \in todo : /\ c \in Layers => b \in Layers
                                  /\ c \in Configs => b \notin Manifests

\* The next blob of an upload, and the end of its work.
Begin(p, b, s) ==
    /\ job' = [job EXCEPT ![p].todo = @ \ {b}, ![p].blob = b]
    /\ Goto(p, s)
Done(p) == job' = [job EXCEPT ![p].blob = None] /\ Goto(p, "upload")

\* pull fetches a layer or a config only when there is no file for it.
Fetch(p, b) ==
    /\ pc[p] = "upload"
    /\ cmd[p].op = "pull"
    /\ IsNext(p, b)
    /\ \/ /\ b \in (blobs \cup torn) \ Manifests
          /\ job' = [job EXCEPT ![p].todo = @ \ {b}]
          /\ UNCHANGED pc
       \/ /\ b \notin (blobs \cup torn) \ Manifests
          /\ Begin(p, b, "fetched")
    /\ UNCHANGED <<disk, cmd, mem, out>>

\* A layer that cannot be fetched, or a blob whose bytes do not match its
\* digest, is reported and passed over.
LoseBlob(p) ==
    /\ pc[p] = "fetched"
    /\ \/ LossyRegistry /\ job[p].blob \notin Manifests
       \/ WriteErrors /\ job[p].blob \in Layers
    /\ Done(p)
    /\ UNCHANGED <<disk, cmd, mem, out>>

\* copySingleImage goes on when SaveConfig could not store the config.
LoseConfig(p, b) ==
    /\ WriteErrors
    /\ pc[p] = "upload"
    /\ cmd[p].op = "build"
    /\ IsNext(p, b)
    /\ b \in Configs
    /\ job' = [job EXCEPT ![p].todo = @ \ {b}]
    /\ UNCHANGED <<disk, pc, cmd, mem, out>>

\* A manifest or config that cannot be fetched, and a file that cannot be
\* written, end the command; what is stored by then stays.
Abandon(p) ==
    /\ pc[p] \in {"upload", "fetched"}
    /\ WriteErrors \/ (LossyRegistry /\ cmd[p].op = "pull")
    /\ End(p)
    /\ UNCHANGED disk

\* Each command has one temporary file for manifests, one for configs and
\* one for layers; pull has one of its own for each config and layer.
SameFile(op, b, c) ==
    IF op = "pull" /\ b \notin Manifests THEN b = c
    ELSE \E K \in {Manifests, Configs, Layers} : {b, c} \subseteq K

\* What the temporary file of p holds now: nothing when it is not there.
Content(p) == {c \in Blobs : /\ <<cmd[p].op, c>> \in staged
                             /\ SameFile(cmd[p].op, job[p].blob, c)}
Unstaged(p) == staged \ {<<cmd[p].op, c>> : c \in Content(p)}

Stage(p, b) ==
    /\ \/ /\ pc[p] = "upload" /\ cmd[p].op \in {"build", "config"}
          /\ IsNext(p, b)
          /\ Begin(p, b, "staged")
       \/ /\ pc[p] = "fetched" /\ b = job[p].blob
          /\ Goto(p, "staged")
          /\ UNCHANGED job
    /\ staged' = {s \in staged : ~(/\ s[1] = cmd[p].op
                                   /\ SameFile(cmd[p].op, b, s[2]))}
                 \cup {<<cmd[p].op, b>>}
    /\ UNCHANGED <<index, blobs, torn, cmd, mem, out>>

\* The manifests that name c where the one of p named its blob.
Revised(p, c) ==
    LET m == job[p].img
        b == job[p].blob
    IN  IF c = b THEN {m}
        ELSE {k \in Manifests :
                \/ c \in Manifests /\ k = c
                \/ c \in Configs /\ cmd[p].op # "config" /\ k = m
                \/ /\ c \in Configs /\ cmd[p].op = "config"
                   /\ ConfigOf[k] = c /\ LayersOf[k] = LayersOf[m]
                \/ /\ c \in Layers /\ ConfigOf[k] = ConfigOf[m]
                   /\ LayersOf[k] = (LayersOf[m] \ {b}) \cup {c}}

\* The digest of the temporary file, whoever has written it.
Hash(p) ==
    /\ pc[p] = "staged"
    /\ \E c \in Content(p), k \in Manifests :
         /\ k \in Revised(p, c)
         /\ job' = [job EXCEPT ![p].blob = c, ![p].img = k,
                               ![p].todo = IF job[p].img \in @
                                           THEN (@ \ {job[p].img}) \cup {k}
                                           ELSE @]
         /\ Goto(p, IF cmd[p].op = "pull" /\ c # job[p].blob THEN "mixed"
                    ELSE "hashed")
    /\ UNCHANGED <<disk, cmd, mem, out>>

\* build and config give the temporary file its name: a file that is there is
\* kept, but for the config that build saves and for manifests.
Keeps(p) == \/ job[p].blob \in Layers
            \/ job[p].blob \in Configs /\ cmd[p].op = "config"
KeepFile(p) ==
    /\ pc[p] = "hashed" /\ cmd[p].op # "pull"
    /\ Keeps(p) /\ job[p].blob \in blobs \cup torn
    /\ staged' = Unstaged(p)
    /\ Done(p)
    /\ UNCHANGED <<index, blobs, torn, cmd, mem, out>>

\* config removes the manifest file before it renames the new one.
Unlink(p) ==
    /\ pc[p] = "hashed" /\ cmd[p].op = "config"
    /\ job[p].blob \in Manifests
    /\ DeleteFiles({job[p].blob})
    /\ Goto(p, "rewrite")
    /\ UNCHANGED <<index, staged, cmd, mem, job, out>>

Renames(p) ==
    \/ /\ pc[p] = "hashed" /\ cmd[p].op # "pull"
       /\ ~(Keeps(p) /\ job[p].blob \in blobs \cup torn)
       /\ ~(cmd[p].op = "config" /\ job[p].blob \in Manifests)
    \/ pc[p] = "rewrite" /\ cmd[p].op = "config"

\* Mutant: the name is taken for stored without a look at the file.
RenameUnchecked(p) ==
    /\ Renames(p)
    /\ UNCHANGED <<index, blobs, torn, cmd, mem, out>>
    /\ staged' = Unstaged(p)
    /\ Done(p)

Rename(p) ==
    LET b == job[p].blob
    IN  /\ Renames(p)
        /\ \/ /\ b \in Content(p)
              /\ blobs' = blobs \cup {b}
              /\ torn' = torn \ {b}
           \/ /\ b \notin Content(p) /\ Content(p) # {}
              /\ blobs' = blobs \ {b}
              /\ torn' = torn \cup {b}
        /\ staged' = Unstaged(p)
        /\ Done(p)
        /\ UNCHANGED <<index, cmd, mem, out>>

\* pull opens the final file, which truncates it, and writes it again.
Truncates(p) == pc[p] \in {"hashed", "mixed"} /\ cmd[p].op = "pull"

Tear(p) ==
    LET b == job[p].blob
    IN  /\ Truncates(p)
        /\ b \in Manifests => Content(p) # {}
        /\ blobs' = blobs \ {b}
        /\ torn' = torn \cup {b}
        /\ staged' = IF b \in Manifests THEN Unstaged(p) ELSE staged
        /\ IF pc[p] = "mixed" THEN Done(p)
           ELSE Goto(p, "rewrite") /\ UNCHANGED job
        /\ UNCHANGED <<index, cmd, mem, out>>

Rewrite(p) ==
    LET b == job[p].blob
    IN  /\ pc[p] = "rewrite" /\ cmd[p].op = "pull"
        /\ blobs' = blobs \cup {b}
        /\ torn' = torn \ {b}
        /\ staged' = IF b \in Manifests THEN staged ELSE Unstaged(p)
        /\ Done(p)
        /\ UNCHANGED <<index, cmd, mem, out>>

\* Another process has taken the temporary file.  SaveConfig and pull's layers
\* and configs report it and go on; elsewhere the command ends.
FileGone(p) ==
    /\ Content(p) = {}
    /\ \/ pc[p] = "staged" \/ Renames(p)
       \/ Truncates(p) /\ job[p].blob \in Manifests
    /\ IF \/ cmd[p].op = "build" /\ job[p].blob \in Configs
          \/ cmd[p].op = "pull" /\ job[p].blob \notin Manifests
         THEN Done(p) /\ UNCHANGED <<cmd, mem, out>>
         ELSE End(p)
    /\ UNCHANGED disk

Uploaded(p, op) == pc[p] = "upload" /\ cmd[p].op = op /\ job[p].todo = {}

\* Mutant: the record to replace is the one that was loaded.
BuildRecordStale(p) ==
    LET name == job[p].ref
        same == {o \in Live(mem[p].objs) : o.name = name}
        Put(rest, h) ==
            \E n \in EndPos(rest) :
                Save(p, rest \cup {[pos |-> n, name |-> name,
                                   digest |-> job[p].img, history |-> h]})
    IN  /\ Uploaded(p, "build")
        /\ \/ same = {} /\ Put(index, <<>>)
           \/ \E o \in same : Put(index \ {EntryOf(o)},
                                  Append(o.history, o.digest))
        /\ job' = [job EXCEPT ![p] = NoJob]
        /\ UNCHANGED <<disk, cmd, mem>>

\* build reads the index file again and merges its record into that.
BuildRecord(p) ==
    LET name == job[p].ref
        same == {r \in index : r.name = name}
        Put(rest, h) ==
            \E n \in EndPos(rest) :
                Save(p, rest \cup {[pos |-> n, name |-> name,
                                   digest |-> job[p].img, history |-> h]})
    IN  /\ Uploaded(p, "build")
        /\ \/ same = {} /\ Put(index, <<>>)
           \/ \E r \in same :
                /\ \A q \in same : r.pos <= q.pos
                /\ Len(r.history) < MaxHistory
                /\ Put(index \ {r}, Append(r.history, r.digest))
        /\ job' = [job EXCEPT ![p] = NoJob]
        /\ UNCHANGED <<disk, cmd, mem>>

PullRecord(p) ==
    LET objs == mem[p].objs
        m    == job[p].img
        name == LocalName[job[p].ref]
        old  == Lookup(objs, job[p].ref)
    IN  /\ Uploaded(p, "pull")
        /\ \/ \E o \in old :
                Save(p, (Entries(objs) \ {EntryOf(o)}) \cup
                           {[pos |-> o.pos, name |-> name, digest |-> m,
                             history |-> PullHistory(o, m)]})
           \/ /\ old = {}
              /\ \E n \in EndPos(Live(objs)) :
                   Save(p, Entries(objs) \cup
                           {[pos |-> n, name |-> name, digest |-> m,
                             history |-> <<>>]})
        /\ job' = [job EXCEPT ![p] = NoJob]
        /\ UNCHANGED <<disk, cmd, mem>>

\* Mutant: the record to replace is found by its digest.
ConfigRecordByDigest(p) ==
    LET objs == mem[p].objs
    IN  /\ Uploaded(p, "config")
        /\ \E o \in Lookup(objs, job[p].ref) :
             Save(p, {r \in Entries(objs) : r.digest # o.digest} \cup
                        {[pos |-> o.pos, name |-> o.name,
                          digest |-> job[p].img,
                          history |-> Append(o.history, o.digest)]})
        /\ job' = [job EXCEPT ![p] = NoJob]
        /\ UNCHANGED <<disk, cmd, mem>>

ConfigRecord(p) ==
    LET objs == mem[p].objs
    IN  /\ Uploaded(p, "config")
        /\ \E o \in Lookup(objs, job[p].ref) :
             Save(p, (Entries(objs) \ {EntryOf(o)}) \cup
                        {[pos |-> o.pos, name |-> o.name,
                          digest |-> job[p].img,
                          history |-> Append(o.history, o.digest)]})
        /\ job' = [job EXCEPT ![p] = NoJob]
        /\ UNCHANGED <<disk, cmd, mem>>

-----------------------------------------------------------------------------
Step(p) ==
    \/ \E op \in AllCommands, n \in 0..MaxArgs : Open(p, op, n)
    \/ OpenFails(p)
    \/ Exit(p)
    \/ Truncate(p)
    \/ Write(p)
    \/ Crash(p)
    \/ \E ref \in Refs, new \in Names \cup Shorts : Tag(p, ref, new)
    \/ \E ref \in Names \cup Shorts : RmiName(p, ref) \/ RmiNameThrows(p, ref)
    \/ \E id \in Configs : RmiId(p, id) \/ RmiIdThrows(p, id)
    \/ RmiHistory(p)
    \/ RmiHead(p)
    \/ \E name \in Names, m \in Manifests : Build(p, name, m)
    \/ \E short \in Shorts, m \in Manifests : Pull(p, short, m)
    \/ \E ref \in Refs, m \in Manifests : Config(p, ref, m)
    \/ \E ref \in Refs : ConfigFails(p, ref)
    \/ \E b \in Blobs : Fetch(p, b) \/ LoseConfig(p, b) \/ Stage(p, b)
    \/ LoseBlob(p)
    \/ Abandon(p)
    \/ Hash(p)
    \/ KeepFile(p)
    \/ Unlink(p)
    \/ Rename(p)
    \/ Tear(p)
    \/ Rewrite(p)
    \/ FileGone(p)
    \/ BuildRecord(p)
    \/ PullRecord(p)
    \/ ConfigRecord(p)

Next == \E p \in Procs : Step(p)

Spec == Init /\ [][Next]_vars

-----------------------------------------------------------------------------
(* Properties.                                                             *)

\* Every variable has its type.
TypeOK ==
    /\ index \subseteq Entry
    /\ blobs \subseteq Blobs
    /\ torn \subseteq Blobs
    /\ staged \subseteq Staging \X Blobs
    /\ pc \in [Procs -> PCs]
    /\ cmd \in [Procs -> [op : AllCommands \cup {"none"}, left : 0..MaxArgs]]
    /\ mem \in [Procs -> Memory]
    /\ job \in [Procs -> Job]
    /\ out \in [Procs -> SUBSET Entry]

AtRest == \A p \in Procs : pc[p] = "idle"

\* When no command runs, every manifest the index refers to, by digest or by
\* history, has its file, its config and all its layers: no sequence of
\* commands removes a file an image still needs (Delete, storage.cpp:1315).
StoreIntact ==
    AtRest => \A r \in index : \A m \in Digests(r) : BlobsOf(m) \subseteq blobs

\* When no command runs, the next one can open the store.
Reloadable == AtRest => Loadable

\* When no command runs, every file belongs to a manifest the index refers
\* to: rmi leaves nothing behind (Delete removes layers, config, manifest).
NoGarbage ==
    AtRest => blobs \subseteq
                UNION {BlobsOf(m) : m \in UNION {Digests(r) : r \in index}}

\* A full name is recorded once, so that what a name means does not depend
\* on the order of the records (newtag, copy.cpp Image and pullCmd each
\* replace the record of a name that is taken).
NamesUnique ==
    AtRest => \A r, q \in index : r.name = q.name => r = q

\* A command that adds or changes an image keeps every name it loaded.
KeepsNames ==
    \A p \in Procs :
        pc[p] = "write" /\ cmd[p].op # "rmi" =>
            {o.name : o \in mem[p].objs} \subseteq {r.name : r \in out[p]}

\* The blobs whose file a process has taken away to write it again.
Rewriting == {job[p].blob : p \in {q \in Procs : pc[q] = "rewrite"}}

Sound(m) == BlobsOf(m) \subseteq blobs \cup Rewriting

\* At every moment, also between the steps of several processes, all that
\* the index refers to is stored: a record is written only after the blobs
\* (copySingleImage before the index, pullManifestAndBlob before Save).
HistoryComplete == \A r \in index : \A m \in Digests(r) : Sound(m)

\* A record names no manifest twice, and two records of S none in common.
Once(r) == r.digest \notin ToSet(r.history) /\ IsInjective(r.history)
Apart(S) == \A r \in S : /\ Once(r)
                         /\ \A q \in S : r # q => Digests(r) \cap Digests(q) = {}

\* Only a manifest that the index names twice can cost an image its files: as
\* long as there is none, whatever commands run, and rmi of several names or
\* ids, by full or short name, after builds, pulls and tags under names that
\* are taken, no record loses a file of its image or of its history
\* (ImageStore::Delete walks the history and keeps the layers that another
\* manifest in bydigest names).  A behavior may stop at any state, so damage
\* that comes before the first shared manifest counts, too.
Unshared == Apart(index)
IntactUnlessShared == []Unshared => []StoreIntact
=============================================================================
