----------------------------- MODULE IntactProofs -----------------------------
(***************************************************************************)
(* No sequence of commands removes a file that an image needs or leaves    *)
(* one behind that none needs, when one command runs at a time and nothing *)
(* fails, build, pull and tag use names that are new, and no config is     *)
(* changed: then no record has a history.  With histories, nothing that is *)
(* needed is removed either, when builds are new images and only build and *)
(* rmi change the store; and whatever the commands, as long as the index   *)
(* names no manifest twice.                                                *)
(***************************************************************************)
EXTENDS CatalogProofs

USE DEF disk, vars

IntactUse ==
    /\ SingleUse
    /\ ~Reuse /\ ~LossyRegistry /\ ~WriteErrors
    /\ \A p \in Procs : "config" \notin CommandsOf[p]

-----------------------------------------------------------------------------
(* The inductive invariant.                                                *)

Settled == {"idle", "ready"} \cup Uploading

\* From the first file that rmi removes until the index is written, the index
\* may name what is gone; what is about to be written may not.
IntactAt(p) ==
    /\ \A r \in index \cup out[p] : r.history = <<>>
    /\ pc[p] \in Settled => \A r \in index : Sound(r.digest)
    /\ pc[p] \in {"truncate", "write"} => \A r \in out[p] : Sound(r.digest)
    /\ pc[p] = "ready" /\ cmd[p].left > 0 =>
         mem[p].bydigest = {r.digest : r \in index}
    /\ pc[p] = "history" =>
         /\ job[p].hist = <<>> /\ job[p].img \in Manifests
         /\ \A r \in index : r.pos # job[p].pos =>
              Sound(r.digest) /\ ConfigOf[r.digest] # ConfigOf[job[p].img]
    /\ pc[p] \in Uploading =>
         /\ cmd[p].op = "build" => \A r \in index : r.name # job[p].ref
         /\ cmd[p].op = "pull" => Lookup(mem[p].objs, job[p].ref) = {}

IntactInv ==
    /\ FreshInv /\ CleanInv
    /\ Procs = {} => index = {}
    /\ \A p \in Procs : IntactAt(p)

LEMMA IntactTypes ==
    ASSUME IntactUse, IntactInv, NEW p \in Procs
    PROVE  /\ SingleUse /\ FreshInv /\ CleanUse /\ CleanInv /\ IntactAt(p)
           /\ ~ Crashes /\ ~ Reuse /\ ~ WriteErrors /\ ~ LossyRegistry
           /\ cmd[p].op # "config"
           /\ pc[p] # "rewrite" => Rewriting = {} /\ torn = {}
           /\ pc'[p] # "rewrite" => Rewriting' = {}
  <1>1. SingleUse /\ FreshInv /\ CleanInv /\ IntactAt(p)
    BY DEF IntactUse, IntactInv
  <1>2. \A q \in Procs : q = p
    BY <1>1 DEF SingleUse, Alone
  <1>3. CleanUse
    BY <1>2 DEF IntactUse, CleanUse, SingleUse
  <1>4. cmd[p].op \in CommandsOf[p] \cup {"none"}
    BY <1>1 DEF CleanInv, SafeProc
  <1>5. cmd[p].op # "config"
    BY <1>4 DEF IntactUse
  <1>6. /\ pc[p] # "rewrite" => Rewriting = {}
        /\ pc'[p] # "rewrite" => Rewriting' = {}
    BY <1>2 DEF Rewriting
  <1>7. torn \subseteq Rewriting
    BY <1>1 DEF CleanInv
  <1> QED  BY <1>1, <1>3, <1>5, <1>6, <1>7 DEF IntactUse, SingleUse

\* A step to a state in which the index counts.
LEMMA IntactSettled ==
    ASSUME IntactUse, IntactInv, NEW p \in Procs, UNCHANGED index,
           out'[p] = out[p] \/ out'[p] = {},
           \A r \in index : Sound(r.digest)',
           pc'[p] \in Settled,
           pc'[p] = "ready" /\ cmd'[p].left > 0 =>
             mem'[p].bydigest = {r.digest : r \in index},
           pc'[p] \in Uploading =>
             /\ cmd'[p].op = "build" => \A r \in index : r.name # job'[p].ref
             /\ cmd'[p].op = "pull" => Lookup(mem'[p].objs, job'[p].ref) = {}
    PROVE  IntactAt(p)'
  <1>1. pc'[p] \notin {"truncate", "write", "history"}
    BY DEF Settled, Uploading
  <1>2. \A r \in index' \cup out'[p] : r.history = <<>>
    BY IntactTypes DEF IntactAt
  <1> QED  BY <1>1, <1>2 DEF IntactAt

\* A step that has decided what to write.
LEMMA IntactSaves ==
    ASSUME IntactUse, IntactInv, NEW p \in Procs, UNCHANGED index,
           NEW T, Save(p, T),
           \A r \in T : r.history = <<>> /\ Sound(r.digest)'
    PROVE  IntactAt(p)'
  <1>1. pc'[p] = "truncate" /\ out'[p] = T
    BY IntactTypes, FreshTypes DEF Save, Goto
  <1>2. \A r \in index : r.history = <<>>
    BY IntactTypes DEF IntactAt
  <1> QED  BY <1>1, <1>2 DEF IntactAt, Settled, Uploading

\* Deleting the manifest m with what it alone uses hurts no other image.
LEMMA OthersKept ==
    ASSUME NEW m \in Manifests, NEW known, NEW d \in Manifests,
           d \in known \ {m}, d \in blobs,
           ConfigOf[d] # ConfigOf[m]
    PROVE  BlobsOf(d) \cap (UnusedLayers(m, known \ {m}, blobs)
                            \cup {m, ConfigOf[m]}) = {}
  <1>1. /\ ConfigOf[d] \in Configs /\ LayersOf[d] \subseteq Layers
        /\ ConfigOf[m] \in Configs
        /\ Manifests \cap Configs = {} /\ Manifests \cap Layers = {}
        /\ Configs \cap Layers = {}
    BY DigestAssumption
  <1>2. \A l \in UnusedLayers(m, known \ {m}, blobs) : l \in Layers /\ l \notin LayersOf[d]
    BY DigestAssumption DEF UnusedLayers
  <1> QED  BY <1>1, <1>2 DEF BlobsOf

-----------------------------------------------------------------------------
(* rmi.                                                                    *)

\* What a command that begins an operation finds.
LEMMA IntactReady ==
    ASSUME IntactUse, IntactInv, NEW p \in Procs, NEW op, Running(p, op),
           TakeArg(p)
    PROVE  /\ pc[p] = "ready" /\ cmd[p].left > 0 /\ Working(p)
           /\ cmd'[p].left = 0 /\ cmd'[p].op = cmd[p].op
           /\ \A r \in index : r.history = <<>> /\ Sound(r.digest)
           /\ mem[p].bydigest = {r.digest : r \in index}
           /\ Rewriting = {} /\ torn = {}
  <1>1. /\ SingleUse /\ FreshInv /\ IntactAt(p)
        /\ pc[p] # "rewrite" => Rewriting = {} /\ torn = {}
    BY IntactTypes
  <1>2. pc[p] = "ready" /\ cmd[p].left > 0 /\ Working(p)
    BY DEF Running, Working
  <1>3. cmd[p].left = 1
    BY <1>1, <1>2, FreshTypes
  <1>4. cmd'[p].left = 0 /\ cmd'[p].op = cmd[p].op
    BY <1>1, <1>3, FreshTypes DEF TakeArg
  <1>5. "ready" \in Settled
    BY DEF Settled
  <1> QED  BY <1>1, <1>2, <1>4, <1>5 DEF IntactAt

\* An operation that found nothing to do.
LEMMA IntactSkip ==
    ASSUME IntactUse, IntactInv, NEW p \in Procs, NEW op, Running(p, op),
           TakeArg(p), Skip(p)
    PROVE  IntactAt(p)'
  <1>1. UNCHANGED <<index, blobs, pc, out>>
    BY DEF Skip
  <1>2. /\ pc[p] = "ready" /\ cmd'[p].left = 0 /\ Rewriting = {}
        /\ \A r \in index : Sound(r.digest)
    BY IntactReady
  <1>3. pc'[p] \in Settled /\ pc'[p] \notin Uploading
    BY <1>1, <1>2 DEF Settled, Uploading
  <1>4. \A r \in index : Sound(r.digest)'
    BY <1>1, <1>2 DEF Sound
  <1> QED  BY <1>1, <1>2, <1>3, <1>4, IntactSettled

\* rmi of a name erases the record r alone while another one has its id; else
\* it begins to remove the files, with the layers that no other image has.
NameGoes(p, r) ==
    /\ Save(p, index \ {r}) /\ UNCHANGED blobs
    /\ \E t \in index \ {r} : ConfigOf[t.digest] = ConfigOf[r.digest]

LayersGo(p, r) ==
    /\ pc'[p] = "history" /\ UNCHANGED <<index, out>>
    /\ blobs' = blobs \ UnusedLayers(r.digest, mem[p].bydigest \ {r.digest}, blobs)
    /\ job'[p].img = r.digest /\ job'[p].hist = r.history /\ job'[p].pos = r.pos
    /\ \A t \in index \ {r} : ConfigOf[t.digest] # ConfigOf[r.digest]

LEMMA RmiNameFiles ==
    ASSUME IntactUse, IntactInv, NEW p \in Procs, NEW ref, RmiName(p, ref),
           ~ Skip(p)
    PROVE  \E r \in index : NameGoes(p, r) \/ LayersGo(p, r)
  <1> DEFINE objs == mem[p].objs
  <1>1. Working(p)
    BY DEF RmiName, Running, Working
  <1>2. PICK o \in Lookup(objs, ref) :
          LET same == {q \in Live(objs) : q.id = o.id}
              rest == mem[p].bydigest \ {o.digest}
              gone == (objs \ {o}) \cup {[o EXCEPT !.live = FALSE]}
          IN  \/ /\ \A q \in same : same # {q}
                 /\ Save(p, Entries(gone))
                 /\ UNCHANGED disk
              \/ /\ \E q \in same : same = {q}
                 /\ DeleteFiles(UnusedLayers(o.digest, rest, blobs))
                 /\ job' = [job EXCEPT ![p] =
                              [NoJob EXCEPT !.img = o.digest,
                                            !.hist = o.history,
                                            !.pos = o.pos]]
                 /\ Goto(p, "history")
                 /\ UNCHANGED <<index, out>>
    BY DEF RmiName
  <1> DEFINE same == {q \in Live(objs) : q.id = o.id}
             rest == mem[p].bydigest \ {o.digest}
             dead == [o EXCEPT !.live = FALSE]
             gone == (objs \ {o}) \cup {dead}
             r == EntryOf(o)
  <1>3. /\ o \in objs /\ Live(objs) = objs
        /\ \A t \in index : \E q \in objs : t = EntryOf(q)
        /\ \A q \in objs : /\ EntryOf(q) \in index /\ q = ObjectOf(EntryOf(q))
                           /\ q.id = ConfigOf[EntryOf(q).digest]
    BY <1>1, IntactTypes, LookupFinds, Known0
  <1>4. r \in index /\ \A q \in objs : q # o => EntryOf(q) # r
    BY <1>3
  <1>5. CASE (\A q \in same : same # {q}) /\ Save(p, Entries(gone)) /\ UNCHANGED disk
    <2>1. ~ dead.live
      BY <1>3, IntactTypes, NameTypes DEF FreshInv, ObjectIn
    <2>2. \A q \in objs : q.live
      BY <1>3 DEF Live
    <2>3. o \in same
      BY <1>3
    <2>4. PICK q \in objs : q # o /\ q.id = o.id
      BY <1>3, <1>5, <2>3
    <2> HIDE DEF dead, objs
    <2>5. \A q0 : q0 \in Live(gone) <=> q0 \in objs /\ q0 # o
      BY <2>1, <2>2 DEF Live
    <2> HIDE DEF gone
    <2>6. \A t : t \in Entries(gone) <=> \E q0 \in objs : q0 # o /\ t = EntryOf(q0)
      BY <2>5 DEF Entries
    <2> HIDE DEF r
    <2>7. \A t : t \in Entries(gone) <=> t \in index \ {r}
      <3>1. \A q0 \in objs : EntryOf(q0) \in index
        BY <1>3
      <3> QED  BY <1>3, <1>4, <2>6, <3>1 DEF r
    <2>8. Entries(gone) = index \ {r}
      BY <2>7
    <2>9. /\ EntryOf(q) \in index \ {r}
          /\ ConfigOf[EntryOf(q).digest] = ConfigOf[r.digest]
      BY <1>3, <1>4, <2>4 DEF r
    <2>10. NameGoes(p, r)
      BY <1>5, <2>8, <2>9 DEF NameGoes
    <2> QED  BY <1>4, <2>10
  <1>6. CASE /\ \E q \in same : same = {q}
             /\ DeleteFiles(UnusedLayers(o.digest, rest, blobs))
             /\ job' = [job EXCEPT ![p] =
                          [NoJob EXCEPT !.img = o.digest,
                                        !.hist = o.history,
                                        !.pos = o.pos]]
             /\ Goto(p, "history")
             /\ UNCHANGED <<index, out>>
    <2>1. /\ pc'[p] = "history"
          /\ job'[p].img = o.digest /\ job'[p].hist = o.history
          /\ job'[p].pos = o.pos
      BY <1>6, IntactTypes, FreshTypes DEF Goto, NoJob
    <2>2. r.digest = o.digest /\ r.history = o.history /\ r.pos = o.pos
      BY DEF EntryOf
    <2>3. \A q \in objs : q.id = o.id => q = o
      BY <1>3, <1>6
    <2>4. \A t \in index \ {r} : ConfigOf[t.digest] # ConfigOf[r.digest]
      BY <1>3, <2>3
    <2>5. blobs' = blobs \ UnusedLayers(r.digest, mem[p].bydigest \ {r.digest}, blobs)
      BY <1>6, <2>2 DEF DeleteFiles
    <2> HIDE DEF r
    <2>6. LayersGo(p, r)
      BY <1>6, <2>1, <2>2, <2>4, <2>5 DEF LayersGo
    <2> QED  BY <1>4, <2>6
  <1> QED  BY <1>2, <1>5, <1>6

LEMMA IntactRmiName ==
    ASSUME IntactUse, IntactInv, NEW p \in Procs, NEW ref, RmiName(p, ref)
    PROVE  IntactAt(p)'
  <1>1. Running(p, "rmi") /\ TakeArg(p) /\ UNCHANGED index
    BY DEF RmiName, Skip
  <1>2. /\ \A r \in index : r.history = <<>> /\ Sound(r.digest)
        /\ mem[p].bydigest = {r.digest : r \in index}
        /\ Rewriting = {}
    BY <1>1, IntactReady
  <1>3. CASE Skip(p)
    BY <1>1, <1>3, IntactSkip
  <1>4. CASE ~ Skip(p)
    <2>1. PICK r \in index : NameGoes(p, r) \/ LayersGo(p, r)
      BY <1>4, RmiNameFiles
    <2>2. CASE NameGoes(p, r)
      <3> DEFINE T == index \ {r}
      <3>1. Save(p, T) /\ UNCHANGED blobs
        BY <2>2 DEF NameGoes
      <3> HIDE DEF T
      <3>2. Rewriting' = {}
        BY <3>1, IntactTypes, FreshTypes DEF Save, Goto
      <3>3. \A t \in T : t.history = <<>> /\ Sound(t.digest)'
        BY <1>2, <3>1, <3>2 DEF Sound, T
      <3> QED  BY <1>1, <3>1, <3>3, IntactSaves
    <2>3. CASE LayersGo(p, r)
      <3>1. /\ pc'[p] = "history" /\ UNCHANGED <<index, out>>
            /\ job'[p].img = r.digest /\ job'[p].hist = <<>>
            /\ job'[p].pos = r.pos /\ Rewriting' = {} /\ r.digest \in Manifests
        BY <1>2, <2>3, IntactTypes, FreshTypes DEF LayersGo, Entry
      <3>2. ASSUME NEW t \in index, t.pos # r.pos
            PROVE  Sound(t.digest)' /\ ConfigOf[t.digest] # ConfigOf[r.digest]
        <4>1. ConfigOf[t.digest] # ConfigOf[r.digest]
          BY <2>3, <3>2 DEF LayersGo
        <4>2. BlobsOf(t.digest) \subseteq blobs /\ t.digest \in mem[p].bydigest
          BY <1>2 DEF Sound
        <4>3. t.digest \in Manifests /\ t.digest \in blobs
          BY <4>2, IntactTypes, FreshTypes DEF Entry, BlobsOf
        <4>4. BlobsOf(t.digest) \cap
              UnusedLayers(r.digest, mem[p].bydigest \ {r.digest}, blobs) = {}
          BY <3>1, <4>1, <4>2, <4>3, OthersKept
        <4>5. BlobsOf(t.digest) \subseteq blobs'
          BY <2>3, <4>2, <4>4 DEF LayersGo
        <4> QED  BY <4>1, <4>5 DEF Sound
      <3>3. \A t \in index' \cup out'[p] : t.history = <<>>
        BY <3>1, IntactTypes DEF IntactAt
      <3> QED
        BY <3>1, <3>2, <3>3 DEF IntactAt, Settled, Uploading
    <2> QED  BY <2>1, <2>2, <2>3
  <1> QED  BY <1>3, <1>4

LEMMA IntactRmiHead ==
    ASSUME IntactUse, IntactInv, NEW p \in Procs, RmiHead(p)
    PROVE  IntactAt(p)'
  <1> DEFINE T == {r \in index : r.pos # job[p].pos}
             m == job[p].img
  <1>1. /\ pc[p] = "history" /\ UNCHANGED index
        /\ blobs' = blobs \ {m, ConfigOf[m]}
    BY DEF RmiHead, DeleteFiles
  <1>2. Save(p, T) /\ Rewriting = {} /\ Rewriting' = {}
    BY <1>1, IntactTypes, FreshTypes, RmiHeadSaves DEF Save, Goto
  <1>3. ASSUME NEW r \in T PROVE r.history = <<>> /\ Sound(r.digest)'
    <2>1. /\ r.history = <<>> /\ Sound(r.digest)
          /\ ConfigOf[r.digest] # ConfigOf[m] /\ m \in Manifests
      BY <1>1, IntactTypes DEF IntactAt
    <2>2. r.digest \in Manifests
      BY IntactTypes, FreshTypes DEF Entry
    <2>3. /\ ConfigOf[r.digest] \in Configs /\ ConfigOf[m] \in Configs
          /\ LayersOf[r.digest] \subseteq Layers
          /\ Manifests \cap Configs = {} /\ Manifests \cap Layers = {}
          /\ Configs \cap Layers = {}
      BY <2>1, <2>2, DigestAssumption
    <2>4. BlobsOf(r.digest) \cap {m, ConfigOf[m]} = {}
      BY <2>1, <2>2, <2>3 DEF BlobsOf
    <2> QED  BY <1>1, <1>2, <2>1, <2>4 DEF Sound
  <1> HIDE DEF T
  <1> QED  BY <1>1, <1>2, <1>3, IntactSaves

\* The files that go with the manifest m and with nothing else p knows of.
FilesOf(p, m) ==
    UnusedLayers(m, mem[p].bydigest \ {m}, blobs) \cup {m, ConfigOf[m]}

\* Without histories, rmi of an id removes one manifest and all its names.
LEMMA RmiIdFiles ==
    ASSUME IntactUse, IntactInv, NEW p \in Procs, NEW id, RmiId(p, id),
           ~ Skip(p)
    PROVE  /\ Save(p, {r \in index : ConfigOf[r.digest] # id})
           /\ \E m \in Manifests :
                /\ ConfigOf[m] = id
                /\ \E r \in index : r.digest = m
                /\ blobs' = blobs \ FilesOf(p, m)
  <1> DEFINE objs == mem[p].objs
             same == {q \in Live(objs) : q.id = id}
             bare == {q \in same : q.history = <<>>}
  <1>1. \A r \in index : r.history = <<>>
    BY IntactTypes DEF IntactAt
  <1>2. Save(p, {r \in index : ConfigOf[r.digest] # id})
    <2>1. {BackTo(r, id) : r \in index \ Bare(index, id)} =
          {r \in index : ConfigOf[r.digest] # id}
      BY <1>1 DEF BackTo, Bare
    <2> QED  BY <2>1, IntactTypes, RmiIdSaves
  <1>3. Working(p)
    BY DEF RmiId, Running, Working
  <1>4. /\ Live(objs) = objs /\ index \in SUBSET Entry
        /\ \A q \in objs : /\ EntryOf(q) \in index
                           /\ q.id = ConfigOf[EntryOf(q).digest]
    BY <1>3, IntactTypes, Known0
  <1>5. \A q \in objs : /\ EntryOf(q).digest = q.digest
                        /\ EntryOf(q).history = q.history
    BY DEF EntryOf
  <1>6. PICK f \in same :
          DeleteFiles((IF bare = {} THEN {}
                       ELSE UnusedLayers(f.digest,
                              IF bare = {} THEN mem[p].bydigest
                              ELSE mem[p].bydigest \ {f.digest}, blobs))
                      \cup {f.digest, ConfigOf[f.digest]})
    BY DEF RmiId
  <1>7. /\ f \in objs /\ f.id = id /\ f \in bare
        /\ EntryOf(f) \in index /\ f.id = ConfigOf[f.digest]
        /\ EntryOf(f).digest = f.digest
    BY <1>1, <1>4, <1>5
  <1>8. f.digest \in Manifests
    BY <1>4, <1>7 DEF Entry
  <1>9. bare # {}
    BY <1>7
  <1> HIDE DEF same, bare, objs
  <1>10. blobs' = blobs \ FilesOf(p, f.digest)
    BY <1>6, <1>9 DEF DeleteFiles, FilesOf
  <1> QED  BY <1>2, <1>7, <1>8, <1>10

LEMMA IntactRmiId ==
    ASSUME IntactUse, IntactInv, NEW p \in Procs, NEW id, RmiId(p, id)
    PROVE  IntactAt(p)'
  <1>1. Running(p, "rmi") /\ TakeArg(p) /\ UNCHANGED index
    BY DEF RmiId, Skip
  <1>2. /\ \A r \in index : r.history = <<>> /\ Sound(r.digest)
        /\ mem[p].bydigest = {r.digest : r \in index}
        /\ Rewriting = {}
    BY <1>1, IntactReady
  <1>3. CASE Skip(p)
    BY <1>1, <1>3, IntactSkip
  <1>4. CASE ~ Skip(p)
    <2> DEFINE T == {r \in index : ConfigOf[r.digest] # id}
    <2>1. Save(p, T)
      BY <1>4, RmiIdFiles
    <2> HIDE DEF T
    <2>2. PICK m \in Manifests :
            /\ ConfigOf[m] = id
            /\ \E r \in index : r.digest = m
            /\ blobs' = blobs \ FilesOf(p, m)
      BY <1>4, RmiIdFiles
    <2>3. Rewriting' = {}
      BY <2>1, IntactTypes, FreshTypes DEF Save, Goto
    <2> USE DEF T
    <2>4. ASSUME NEW r \in T PROVE r.history = <<>> /\ Sound(r.digest)'
      <3>1. BlobsOf(r.digest) \subseteq blobs /\ r.digest \in mem[p].bydigest
        BY <1>2 DEF Sound
      <3>2. r.digest \in Manifests /\ r.digest \in blobs
        BY <3>1, IntactTypes, FreshTypes DEF Entry, BlobsOf
      <3>3. ConfigOf[r.digest] # ConfigOf[m]
        BY <2>2
      <3>4. BlobsOf(r.digest) \cap FilesOf(p, m) = {}
        BY <3>1, <3>2, <3>3, OthersKept DEF FilesOf
      <3> QED  BY <1>2, <2>2, <2>3, <3>1, <3>4 DEF Sound
    <2> HIDE DEF T
    <2> QED  BY <1>1, <2>1, <2>4, IntactSaves
  <1> QED  BY <1>3, <1>4

\* The steps that remove files leave nothing under way.
LEMMA DeletesClean ==
    ASSUME IntactUse, IntactInv, NEW p \in Procs, Step(p), Deletes(p)
    PROVE  CleanInv'
  <1>1. /\ SingleUse /\ FreshInv /\ CleanInv
        /\ TypeInv /\ SafeProc(CommandsOf[p], pc[p], cmd[p], job[p], staged,
                                blobs \cup Rewriting)
    BY IntactTypes DEF CleanInv
  <1>2. cmd'[p].op = cmd[p].op
    <2>1. TakeArg(p) \/ UNCHANGED cmd
      <3>1. ~ (RmiHistory(p) /\ End(p))
        BY IntactTypes DEF RmiHistory, IntactAt
      <3> QED  BY <3>1 DEF Deletes, RmiName, RmiId, RmiHistory, RmiHead
    <2> QED  BY <1>1, <2>1, FreshTypes DEF TakeArg
  <1>3. /\ pc'[p] \in {"ready", "history", "truncate"}
        /\ pc'[p] = "history" => cmd[p].op = "rmi"
    <2>1. ASSUME NEW ref, RmiName(p, ref) \/ RmiId(p, ref)
          PROVE  /\ pc'[p] \in {"ready", "history", "truncate"}
                 /\ cmd[p].op = "rmi"
      <3>1. pc[p] = "ready" /\ cmd[p].op = "rmi"
        BY <2>1 DEF RmiName, RmiId, Running
      <3>2. pc' = pc \/ Goto(p, "history") \/ Goto(p, "truncate")
        BY <2>1 DEF RmiName, RmiId, Skip, Save
      <3> QED  BY <1>1, <3>1, <3>2, FreshTypes DEF Goto
    <2>2. CASE RmiHead(p)
      BY <1>1, <2>2, FreshTypes DEF RmiHead, Save, Goto
    <2>3. ~ RmiHistory(p)
      BY IntactTypes DEF RmiHistory, IntactAt
    <2> QED  BY <2>1, <2>2, <2>3 DEF Deletes
  <1>4. torn' = {}
    <2>1. torn = {}
      <3>1. pc[p] # "rewrite"
        BY DEF Deletes, RmiName, RmiId, RmiHistory, RmiHead, Running
      <3> QED  BY <3>1, IntactTypes
    <2>2. torn' \subseteq torn
      BY DEF Deletes, RmiName, RmiId, RmiHistory, RmiHead, Skip, DeleteFiles
    <2> QED  BY <2>1, <2>2
  <1>5. SafeProc(CommandsOf[p], pc'[p], cmd'[p], job'[p], staged',
                 (blobs \cup Rewriting)')
    BY <1>1, <1>2, <1>3 DEF SafeProc, Uploading
  <1>6. TypeInv'
    BY <1>1, StepTypeInv
  <1>7. \A q \in Procs : q = p
    BY <1>1, FreshTypes
  <1> QED  BY <1>4, <1>5, <1>6, <1>7 DEF CleanInv

\* The other steps keep what is stored.
LEMMA IntactKept ==
    ASSUME IntactUse, IntactInv, NEW p \in Procs, Step(p), ~ Deletes(p)
    PROVE  Kept
  BY IntactTypes, StepKept

LEMMA StepClean ==
    ASSUME IntactUse, IntactInv, NEW p \in Procs, Step(p)
    PROVE  CleanInv'
  <1>1. TypeInv'
    BY IntactTypes, StepTypeInv DEF CleanInv
  <1> QED  BY <1>1, DeletesClean, IntactKept DEF Kept, CleanInv

-----------------------------------------------------------------------------
(* Opening the store, and writing the index.                               *)

\* No two records have one short name, so that load does not rewrite them.
LEMMA OpenReady ==
    ASSUME IntactUse, IntactInv, NEW p \in Procs, NEW op, NEW n,
           Open(p, op, n)
    PROVE  pc'[p] = "ready" /\ UNCHANGED out
  <1>1. \A r, q \in index : ShortOf[r.name] = ShortOf[q.name] => r = q
    BY IntactTypes, FreshTypes DEF SingleUse, DistinctShorts, Unique, Entry
  <1>2. ~ DuplicateNames(index)
    BY <1>1 DEF DuplicateNames
  <1> QED  BY <1>2, IntactTypes, FreshTypes DEF Open, Goto

LEMMA IntactOpen ==
    ASSUME IntactUse, IntactInv, NEW p \in Procs, NEW op, NEW n,
           Open(p, op, n)
    PROVE  IntactAt(p)'
  <1>1. /\ pc[p] = "idle" /\ pc'[p] = "ready" /\ UNCHANGED <<index, blobs, out>>
        /\ mem'[p].bydigest = UNION {Digests(r) : r \in index}
    BY IntactTypes, FreshTypes, OpenReady DEF Open, LoadIndex
  <1>2. Rewriting = {} /\ Rewriting' = {}
    BY <1>1, IntactTypes
  <1>3. \A r \in index : r.history = <<>> /\ Sound(r.digest)
    BY <1>1, IntactTypes DEF IntactAt, Settled
  <1>4. \A r \in index : Sound(r.digest)'
    BY <1>1, <1>2, <1>3 DEF Sound
  <1>5. mem'[p].bydigest = {r.digest : r \in index}
    <2>1. \A r \in index : Digests(r) = {r.digest}
      BY <1>3 DEF Digests, ToSet
    <2> QED  BY <1>1, <2>1
  <1>6. pc'[p] \in Settled /\ pc'[p] \notin Uploading
    BY <1>1 DEF Settled, Uploading
  <1> QED  BY <1>1, <1>4, <1>5, <1>6, IntactSettled

LEMMA IntactEnd ==
    ASSUME IntactUse, IntactInv, NEW p \in Procs, End(p), UNCHANGED disk,
           pc[p] = "ready"
    PROVE  IntactAt(p)'
  <1>1. pc'[p] = "idle" /\ out'[p] = {} /\ UNCHANGED <<index, blobs>>
    BY IntactTypes, FreshTypes DEF End, Goto
  <1>2. Rewriting = {} /\ Rewriting' = {}
    BY <1>1, IntactTypes
  <1>3. \A r \in index : Sound(r.digest)
    BY IntactTypes DEF IntactAt, Settled
  <1>4. \A r \in index : Sound(r.digest)'
    BY <1>1, <1>2, <1>3 DEF Sound
  <1>5. pc'[p] \in Settled /\ pc'[p] \notin Uploading /\ pc'[p] # "ready"
    BY <1>1 DEF Settled, Uploading
  <1> QED  BY <1>1, <1>4, <1>5, IntactSettled

LEMMA IntactTruncate ==
    ASSUME IntactUse, IntactInv, NEW p \in Procs, Truncate(p)
    PROVE  IntactAt(p)'
  <1>1. /\ pc[p] = "truncate" /\ pc'[p] = "write" /\ index' = {}
        /\ UNCHANGED <<blobs, out>>
    BY IntactTypes, FreshTypes DEF Truncate, Goto
  <1>2. Rewriting = {} /\ Rewriting' = {}
    BY <1>1, IntactTypes
  <1>3. \A r \in out[p] : r.history = <<>> /\ Sound(r.digest)
    BY <1>1, IntactTypes DEF IntactAt
  <1>4. \A r \in out[p] : Sound(r.digest)'
    BY <1>1, <1>2, <1>3 DEF Sound
  <1> QED  BY <1>1, <1>3, <1>4 DEF IntactAt, Settled, Uploading

\* The written index holds the records that were to be written.
LEMMA WrittenRecords ==
    ASSUME IntactUse, IntactInv, NEW p \in Procs, Write(p)
    PROVE  /\ \A t \in index' : \E r \in out[p] :
                t.digest = r.digest /\ t.history = r.history
           /\ \A r \in out[p] : \E t \in index' : t.digest = r.digest
  <1>1. PICK f : index' = {[r EXCEPT !.pos = f[r.pos]] : r \in out[p]}
    BY DEF Write, Compact
  <1>2. \A r \in out[p] : /\ [r EXCEPT !.pos = f[r.pos]].digest = r.digest
                          /\ [r EXCEPT !.pos = f[r.pos]].history = r.history
    BY IntactTypes, FreshTypes DEF Entry
  <1> QED  BY <1>1, <1>2

LEMMA IntactWrite ==
    ASSUME IntactUse, IntactInv, NEW p \in Procs, Write(p)
    PROVE  IntactAt(p)'
  <1>1. /\ pc[p] = "write" /\ pc'[p] = "ready"
        /\ out'[p] = {} /\ UNCHANGED <<blobs, cmd>>
    BY IntactTypes, FreshTypes DEF Write, Goto
  <1>2. Rewriting = {} /\ Rewriting' = {} /\ cmd'[p].left = 0
    BY <1>1, IntactTypes, FreshTypes DEF FreshAt, Uploading
  <1>3. \A r \in out[p] : r.history = <<>> /\ Sound(r.digest)
    BY <1>1, IntactTypes DEF IntactAt
  <1>4. \A t \in index' : t.history = <<>> /\ Sound(t.digest)'
    BY <1>1, <1>2, <1>3, WrittenRecords DEF Sound
  <1> QED  BY <1>1, <1>2, <1>4 DEF IntactAt, Uploading

-----------------------------------------------------------------------------
(* tag, build and pull.                                                    *)

\* tag adds a record for a manifest that has one.
LEMMA TagSaves ==
    ASSUME IntactUse, IntactInv, NEW p \in Procs, NEW ref, NEW new,
           Tag(p, ref, new), ~ Skip(p)
    PROVE  \E T : /\ Save(p, T) /\ index \subseteq T
                  /\ \A r \in T : \E t \in index :
                       r.digest = t.digest /\ r.history = t.history
  <1> DEFINE objs == mem[p].objs
             kept == Live(objs) \ Lookup(objs, new)
             entries == {EntryOf(o) : o \in kept}
  <1>1. Working(p) /\ kept = Live(objs)
    <2>1. ~ Reuse
      BY IntactTypes
    <2> QED  BY <2>1 DEF Tag, Running, Working
  <1>2. PICK s \in Lookup(objs, ref), n \in EndPos(kept) : \E name :
          Save(p, entries \cup {[pos |-> n, name |-> name,
                                 digest |-> s.digest, history |-> s.history]})
    BY DEF Tag
  <1>3. PICK name :
          Save(p, entries \cup {[pos |-> n, name |-> name,
                                 digest |-> s.digest, history |-> s.history]})
    BY <1>2
  <1>4. /\ s \in objs /\ kept = objs
        /\ \A o \in objs : EntryOf(o) \in index
        /\ \A r \in index : \E o \in objs : r = EntryOf(o)
    BY <1>1, IntactTypes, LookupFinds, Known0
  <1> DEFINE e == [pos |-> n, name |-> name, digest |-> s.digest,
                   history |-> s.history]
             T == entries \cup {e}
  <1>5. e.digest = EntryOf(s).digest /\ e.history = EntryOf(s).history
    BY DEF EntryOf
  <1>6. Save(p, T)
    BY <1>3
  <1> HIDE DEF e, objs, kept
  <1>7. \A r \in T : \E t \in index : r.digest = t.digest /\ r.history = t.history
    BY <1>4, <1>5
  <1>8. index \subseteq T
    BY <1>4
  <1> HIDE DEF T
  <1> QED  BY <1>6, <1>7, <1>8

LEMMA IntactTag ==
    ASSUME IntactUse, IntactInv, NEW p \in Procs, NEW ref, NEW new,
           Tag(p, ref, new)
    PROVE  IntactAt(p)'
  <1>1. Running(p, "tag") /\ TakeArg(p) /\ UNCHANGED <<index, blobs>>
    BY DEF Tag, Skip
  <1>2. \A r \in index : r.history = <<>> /\ Sound(r.digest)
    BY <1>1, IntactReady
  <1>3. CASE Skip(p)
    BY <1>1, <1>3, IntactSkip
  <1>4. CASE ~ Skip(p)
    <2>1. PICK T : /\ Save(p, T)
                   /\ \A r \in T : \E t \in index :
                        r.digest = t.digest /\ r.history = t.history
      BY <1>4, TagSaves
    <2>2. Rewriting = {} /\ Rewriting' = {}
      BY <1>1, <2>1, IntactReady, IntactTypes, FreshTypes DEF Save, Goto
    <2>3. \A r \in T : r.history = <<>> /\ Sound(r.digest)'
      BY <1>1, <1>2, <2>1, <2>2 DEF Sound
    <2> QED  BY <1>1, <2>1, <2>3, IntactSaves
  <1> QED  BY <1>3, <1>4

LEMMA IntactStart ==
    ASSUME IntactUse, IntactInv, NEW p \in Procs, NEW ref, NEW m,
           Build(p, ref, m) \/ Pull(p, ref, m)
    PROVE  IntactAt(p)'
  <1>1. PICK op \in {"build", "pull"} :
          /\ Running(p, op) /\ TakeArg(p)
          /\ op = "build" => \A r \in index : r.name # ref
          /\ op = "pull" => Lookup(mem[p].objs, ref) = {}
    <2>1. ~ Reuse
      BY IntactTypes
    <2>2. CASE Build(p, ref, m)
      BY <2>1, <2>2 DEF Build, StartUpload
    <2>3. CASE Pull(p, ref, m)
      BY <2>1, <2>3 DEF Pull, StartUpload
    <2> QED  BY <2>2, <2>3
  <1>2. PICK todo : StartUpload(p, ref, m, todo)
    BY DEF Build, Pull
  <1>3. /\ pc'[p] = "upload" /\ job'[p].ref = ref
        /\ UNCHANGED <<index, blobs, mem, out>>
    BY <1>2, IntactTypes, FreshTypes DEF StartUpload, Goto, NoJob
  <1>4. /\ cmd'[p].op = op /\ Rewriting = {} /\ Rewriting' = {}
        /\ \A r \in index : Sound(r.digest)
    BY <1>1, <1>3, IntactReady, IntactTypes DEF Running
  <1>5. \A r \in index : Sound(r.digest)'
    BY <1>3, <1>4 DEF Sound
  <1>6. pc'[p] \in Settled /\ pc'[p] # "ready"
    BY <1>3 DEF Settled, Uploading
  <1> QED  BY <1>1, <1>3, <1>4, <1>5, <1>6, IntactSettled

\* A blob step keeps the reference of its upload.
LEMMA FileRef ==
    ASSUME TypeInv, NEW p \in Procs, FileStep(p)
    PROVE  job'[p].ref = job[p].ref
  <1>1. job \in [Procs -> Job]
    BY DEF TypeInv, TypeOK
  <1>2. CASE Done(p)
    BY <1>1, <1>2, DoneJob
  <1>3. ASSUME NEW b \in Blobs, NEW s, Begin(p, b, s)
        PROVE  job'[p].ref = job[p].ref
    BY <1>1, <1>3, BeginJob
  <1>4. ASSUME NEW b \in Blobs, job' = [job EXCEPT ![p].todo = @ \ {b}]
        PROVE  job'[p].ref = job[p].ref
    BY <1>1, <1>4, DropJob
  <1>5. ASSUME NEW b \in Blobs, Fetch(p, b) \/ LoseConfig(p, b) \/ Stage(p, b)
        PROVE  job'[p].ref = job[p].ref
    BY <1>3, <1>4, <1>5 DEF Fetch, LoseConfig, Stage
  <1>6. CASE Hash(p)
    BY <1>1, <1>6, HashJob DEF Hashed
  <1>7. CASE LoseBlob(p) \/ KeepFile(p) \/ Rename(p) \/ Rewrite(p)
    BY <1>2, <1>7 DEF LoseBlob, KeepFile, Rename, Rewrite
  <1>8. CASE Unlink(p) \/ Tear(p)
    BY <1>2, <1>8 DEF Unlink, Tear
  <1> QED  BY <1>5, <1>6, <1>7, <1>8 DEF FileStep

LEMMA IntactFile ==
    ASSUME IntactUse, IntactInv, NEW p \in Procs, FileStep(p)
    PROVE  IntactAt(p)'
  <1>1. TypeInv /\ IntactAt(p)
    BY IntactTypes DEF CleanInv
  <1>2. /\ UNCHANGED <<index, cmd, mem, out>> /\ job'[p].ref = job[p].ref
        /\ pc'[p] \in Uploading
    <2>1. pc \in [Procs -> PCs]
      BY <1>1 DEF TypeInv, TypeOK
    <2> QED  BY <1>1, <2>1, FileSteps, FileRef, FileControl
  <1>3. pc[p] \in Uploading
    BY DEF FileStep, Fetch, LoseConfig, Stage, LoseBlob, Hash,
           KeepFile, Unlink, Rename, Renames, Tear, Truncates, Rewrite, Uploading
  <1>4. Kept
    <2>1. Step(p)
      <3> HIDE DEF disk, vars
      <3> QED  BY DEF FileStep, Step
    <2>2. pc[p] \notin {"ready", "history"}
      BY <1>3 DEF Uploading
    <2>3. ~ Deletes(p)
      BY <2>2 DEF Deletes, RmiName, RmiId, RmiHistory, RmiHead, Running
    <2> QED  BY <2>1, <2>3, IntactKept
  <1>5. \A r \in index : Sound(r.digest)
    BY <1>1, <1>3 DEF IntactAt, Settled
  <1>6. \A r \in index : Sound(r.digest)'
    BY <1>4, <1>5 DEF Kept, Sound
  <1>7. pc'[p] \in Settled /\ pc'[p] # "ready"
    BY <1>2 DEF Settled, Uploading
  <1> QED  BY <1>1, <1>2, <1>3, <1>6, <1>7, IntactSettled DEF IntactAt

\* build and pull add a record of their manifest.
LEMMA RecordSaves ==
    ASSUME IntactUse, IntactInv, NEW p \in Procs, BuildRecord(p) \/ PullRecord(p)
    PROVE  \E e : /\ Save(p, index \cup {e})
                  /\ e.digest = job[p].img /\ e.history = <<>>
  <1>1. /\ pc[p] = "upload" /\ "upload" \in Uploading
        /\ cmd[p].op = "build" => \A r \in index : r.name # job[p].ref
        /\ cmd[p].op = "pull" => Lookup(mem[p].objs, job[p].ref) = {}
    BY IntactTypes DEF BuildRecord, PullRecord, Uploaded, Uploading, IntactAt
  <1>2. PICK n, name :
          Save(p, index \cup {[pos |-> n, name |-> name, digest |-> job[p].img,
                               history |-> <<>>]})
    <2>1. CASE BuildRecord(p)
      BY <1>1, <2>1 DEF BuildRecord, Uploaded
    <2>2. CASE PullRecord(p)
      <3>1. Entries(mem[p].objs) = index
        <4>1. Working(p)
          BY <1>1, <2>2 DEF Working, PullRecord
        <4> QED  BY <4>1, IntactTypes, Known0
      <3> QED  BY <1>1, <2>2, <3>1 DEF PullRecord, Uploaded
    <2> QED  BY <2>1, <2>2
  <1> DEFINE e == [pos |-> n, name |-> name, digest |-> job[p].img,
                   history |-> <<>>]
  <1>3. e.digest = job[p].img /\ e.history = <<>> /\ Save(p, index \cup {e})
    BY <1>2
  <1> HIDE DEF e
  <1> QED  BY <1>3

LEMMA IntactRecord ==
    ASSUME IntactUse, IntactInv, NEW p \in Procs, BuildRecord(p) \/ PullRecord(p)
    PROVE  IntactAt(p)'
  <1>1. /\ pc[p] = "upload" /\ job[p].todo = {} /\ "upload" \in Settled
        /\ UNCHANGED <<index, blobs>>
    BY DEF BuildRecord, PullRecord, Uploaded, Uploading, Settled
  <1>2. /\ \A r \in index : r.history = <<>> /\ Sound(r.digest)
        /\ Sound(job[p].img) /\ Rewriting = {}
    BY <1>1, IntactTypes, UploadedSound DEF IntactAt
  <1>3. PICK e : /\ Save(p, index \cup {e})
                 /\ e.digest = job[p].img /\ e.history = <<>>
    BY RecordSaves
  <1> DEFINE T == index \cup {e}
  <1>4. Save(p, T) /\ \A r \in T : r \in index \/ r = e
    BY <1>3
  <1> HIDE DEF T
  <1>5. Rewriting' = {}
    BY <1>4, IntactTypes, FreshTypes DEF Save, Goto
  <1>6. \A r \in T : r.history = <<>> /\ Sound(r.digest)'
    BY <1>1, <1>2, <1>3, <1>4, <1>5 DEF Sound
  <1> QED  BY <1>1, <1>4, <1>6, IntactSaves

-----------------------------------------------------------------------------
\* The steps that such a use of the store does not take.
LEMMA NotTaken ==
    ASSUME IntactUse, IntactInv, NEW p \in Procs
    PROVE  /\ ~ Crash(p) /\ ~ Abandon(p)
           /\ \A ref : ~ ConfigFails(p, ref) /\ \A m : ~ Config(p, ref, m)
           /\ ~ ConfigRecord(p) /\ ~ RmiHistory(p) /\ ~ FileGone(p)
  <1>1. /\ ~ Crashes /\ ~ WriteErrors /\ ~ LossyRegistry
        /\ cmd[p].op # "config" /\ CleanUse /\ CleanInv /\ IntactAt(p)
    BY IntactTypes
  <1>2. ~ FileGone(p)
    BY <1>1, NoLoss
  <1>3. ~ RmiHistory(p)
    BY <1>1 DEF RmiHistory, IntactAt
  <1> QED
    BY <1>1, <1>2, <1>3 DEF Crash, Abandon, ConfigFails, Config, Running,
                            ConfigRecord, Uploaded

LEMMA StepIntact ==
    ASSUME IntactUse, IntactInv, NEW p \in Procs, Step(p)
    PROVE  IntactAt(p)'
  <1>2. CASE OpenFails(p)
    <2>1. UNCHANGED vars
      BY <1>2 DEF OpenFails
    <2>2. IntactAt(p)
      BY IntactTypes
    <2>3. Rewriting' = Rewriting
      BY <2>1 DEF Rewriting
    <2> QED  BY <2>1, <2>2, <2>3 DEF IntactAt, Sound
  <1>3. CASE Exit(p)
    BY <1>3, IntactEnd DEF Exit
  <1>4. ASSUME NEW ref, RmiNameThrows(p, ref) \/ RmiIdThrows(p, ref)
        PROVE  IntactAt(p)'
    BY <1>4, IntactEnd DEF RmiNameThrows, RmiIdThrows, Running
  <1>5. ASSUME NEW op, NEW n, Open(p, op, n) PROVE IntactAt(p)'
    BY <1>5, IntactOpen
  <1>6. ASSUME Truncate(p) \/ Write(p) PROVE IntactAt(p)'
    BY <1>6, IntactTruncate, IntactWrite
  <1>7. ASSUME NEW ref, NEW new, Tag(p, ref, new) PROVE IntactAt(p)'
    BY <1>7, IntactTag
  <1>8. ASSUME NEW ref, RmiName(p, ref) \/ RmiId(p, ref) PROVE IntactAt(p)'
    BY <1>8, IntactRmiName, IntactRmiId
  <1>9. CASE RmiHead(p)
    BY <1>9, IntactRmiHead
  <1>10. ASSUME NEW ref, NEW m, Build(p, ref, m) \/ Pull(p, ref, m)
         PROVE  IntactAt(p)'
    BY <1>10, IntactStart
  <1>11. CASE FileStep(p)
    BY <1>11, IntactFile
  <1>12. CASE BuildRecord(p) \/ PullRecord(p)
    BY <1>12, IntactRecord
  <1> HIDE DEF disk, vars
  <1> QED
    BY <1>2, <1>3, <1>4, <1>5, <1>6, <1>7, <1>8, <1>9, <1>10, <1>11,
       <1>12, NotTaken DEF Step, FileStep

LEMMA IntactInit ==
    ASSUME IntactUse
    PROVE  Init => IntactInv
  <1> SUFFICES ASSUME Init PROVE IntactInv
    OBVIOUS
  <1>1. FreshInv
    BY InitNames DEF Init, FreshInv, FreshAt, Placed, Uploading
  <1>2. \A p \in Procs : IntactAt(p)
    BY DEF Init, IntactAt, Uploading
  <1> QED  BY <1>1, <1>2, InitClean DEF IntactInv, Init

LEMMA IntactStep ==
    ASSUME IntactUse, IntactInv, [Next]_vars
    PROVE  IntactInv'
  <1>1. CASE UNCHANGED vars
    <2>1. Rewriting' = Rewriting
      BY <1>1 DEF Rewriting
    <2>2. FreshInv'
      BY <1>1 DEF IntactInv, FreshInv, FreshAt, Placed, NameInv, TypeInv,
                  TypeOK, UploadOK, UploadFits, Unique
    <2>3. CleanInv'
      BY <1>1, <2>1 DEF IntactInv, CleanInv, TypeInv, TypeOK, UploadOK, UploadFits
    <2>4. \A p \in Procs : IntactAt(p)'
      BY <1>1, <2>1 DEF IntactInv, IntactAt, Sound
    <2> QED  BY <1>1, <2>2, <2>3, <2>4 DEF IntactInv
  <1>2. ASSUME NEW p \in Procs, Step(p) PROVE IntactInv'
    <2>1. SingleUse /\ FreshInv
      BY <1>2, IntactTypes
    <2>2. NameInv'
      BY <1>2, <2>1, StepTypeInv, StepNames DEF FreshInv, NameInv, SingleUse
    <2>3. Good(p)
      BY <1>2, <2>1, StepSeen
    <2>4. \A q \in Procs : q = p
      BY <2>1, FreshTypes
    <2>5. FreshInv'
      BY <2>2, <2>3, <2>4 DEF FreshInv, Good
    <2>6. CleanInv' /\ IntactAt(p)'
      BY <1>2, StepClean, StepIntact
    <2> QED  BY <1>2, <2>4, <2>5, <2>6 DEF IntactInv
  <1> QED  BY <1>1, <1>2 DEF Next

\* One command at a time, with nothing failing, names that build, pull and tag
\* do not reuse, and no config: no sequence of commands of any length removes
\* a manifest, config or layer that an image still needs (ImageStore::Delete
\* removes the layers that no other manifest in bydigest names, and a name
\* alone while another has its id).
THEOREM NothingNeededRemoved ==
    ASSUME IntactUse
    PROVE  Spec => []StoreIntact
  <1>1. Init => IntactInv
    BY IntactInit
  <1>2. IntactInv /\ [Next]_vars => IntactInv'
    BY IntactStep
  <1>3. IntactInv => StoreIntact
    <2> SUFFICES ASSUME IntactInv, AtRest, NEW r \in index
                 PROVE  \A d \in Digests(r) : BlobsOf(d) \subseteq blobs
      BY DEF StoreIntact
    <2>1. PICK p \in Procs : TRUE
      BY DEF IntactInv
    <2>2. pc[p] = "idle" /\ Rewriting = {}
      BY DEF AtRest, Rewriting
    <2>3. r.history = <<>> /\ Sound(r.digest)
      BY <2>2, IntactTypes DEF IntactAt, Settled
    <2>4. Digests(r) = {r.digest}
      BY <2>3 DEF Digests, ToSet
    <2> QED  BY <2>2, <2>3, <2>4 DEF Sound
  <1> QED  BY <1>1, <1>2, <1>3, PTL DEF Spec

-----------------------------------------------------------------------------
(* rmi leaves nothing behind, when no two manifests share a config: every  *)
(* image that is built or pulled has its own.                              *)

OneManifest == \A m, d \in Manifests : ConfigOf[m] = ConfigOf[d] => m = d

Used(S) == UNION {BlobsOf(r.digest) : r \in S}

\* Every file has an owner: a record, the image that rmi is removing, or the
\* upload under way.
TidyAt(p) ==
    /\ pc[p] \in {"idle", "ready"} => blobs \subseteq Used(index)
    /\ pc[p] \in {"truncate", "write"} => blobs \subseteq Used(out[p])
    /\ pc[p] = "history" =>
         blobs \subseteq Used({r \in index : r.pos # job[p].pos})
                        \cup {job[p].img, ConfigOf[job[p].img]}
    /\ pc[p] \in Uploading =>
         /\ blobs \subseteq Used(index) \cup BlobsOf(job[p].img)
         /\ job[p].todo \cup {job[p].blob} \subseteq BlobsOf(job[p].img) \cup {None}

TidyInv ==
    /\ IntactInv
    /\ Procs = {} => blobs = {}
    /\ \A p \in Procs : TidyAt(p)

\* A step that writes nothing, and one that has decided what to write.
LEMMA TidyStays ==
    ASSUME NEW p \in Procs, pc'[p] \in {"idle", "ready"},
           UNCHANGED <<index, blobs>>, blobs \subseteq Used(index)
    PROVE  TidyAt(p)'
  BY DEF TidyAt, Used, Uploading

LEMMA TidySaves ==
    ASSUME IntactUse, IntactInv, NEW p \in Procs, NEW T, Save(p, T),
           blobs' \subseteq Used(T)
    PROVE  TidyAt(p)'
  <1>1. pc'[p] = "truncate" /\ out'[p] = T
    BY IntactTypes, FreshTypes DEF Save, Goto
  <1>2. Used(out[p])' = Used(T)
    BY <1>1 DEF Used
  <1> QED  BY <1>1, <1>2 DEF TidyAt, Uploading

\* A file that goes neither with m nor with its layers has another owner.
LEMMA OtherOwner ==
    ASSUME IntactUse, IntactInv, NEW p \in Procs, NEW m \in Manifests,
           mem[p].bydigest = {r.digest : r \in index},
           NEW b \in BlobsOf(m), b \in blobs, b \notin {m, ConfigOf[m]},
           b \notin UnusedLayers(m, mem[p].bydigest \ {m}, blobs)
    PROVE  \E r \in index : r.digest # m /\ b \in BlobsOf(r.digest)
  <1>1. b \in LayersOf[m]
    BY DEF BlobsOf
  <1>2. PICK d \in mem[p].bydigest \ {m} : b \in LayersOf[d]
    BY <1>1 DEF UnusedLayers
  <1> QED  BY <1>2 DEF BlobsOf

LEMMA TidyRmiName ==
    ASSUME IntactUse, OneManifest, IntactInv, NEW p \in Procs, TidyAt(p),
           NEW ref, RmiName(p, ref)
    PROVE  TidyAt(p)'
  <1>1. Running(p, "rmi") /\ TakeArg(p)
    BY DEF RmiName
  <1>2. /\ pc[p] = "ready" /\ blobs \subseteq Used(index)
        /\ mem[p].bydigest = {r.digest : r \in index}
    BY <1>1, IntactReady DEF TidyAt
  <1>3. CASE Skip(p)
    BY <1>2, <1>3, TidyStays DEF Skip
  <1>4. CASE ~ Skip(p)
    <2>1. PICK r \in index : NameGoes(p, r) \/ LayersGo(p, r)
      BY <1>4, RmiNameFiles
    <2>2. \A t \in index : t \in Entry /\ t.digest \in Manifests
      BY IntactTypes, FreshTypes DEF Entry
    <2>3. CASE NameGoes(p, r)
      <3>1. PICK t \in index \ {r} : t.digest = r.digest
        BY <2>2, <2>3 DEF NameGoes, OneManifest
      <3>2. Used(index) \subseteq Used(index \ {r})
        BY <3>1 DEF Used
      <3> QED  BY <1>2, <2>3, <3>2, TidySaves DEF NameGoes
    <2>4. CASE LayersGo(p, r)
      <3> DEFINE rest == {t \in index : t.pos # r.pos}
      <3>1. /\ pc'[p] = "history" /\ index' = index
            /\ job'[p].img = r.digest /\ job'[p].pos = r.pos
            /\ blobs' = blobs \ UnusedLayers(r.digest,
                                  mem[p].bydigest \ {r.digest}, blobs)
        BY <2>4 DEF LayersGo
      <3>2. \A t \in index : t.pos = r.pos => t = r
        BY IntactTypes, FreshTypes DEF Placed
      <3>3. ASSUME NEW b \in blobs', b \notin {r.digest, ConfigOf[r.digest]}
            PROVE  \E t \in rest : b \in BlobsOf(t.digest)
        <4>1. PICK q \in index : b \in BlobsOf(q.digest)
          BY <1>2, <3>1 DEF Used
        <4>2. CASE q = r
          <5>1. PICK t \in index : t.digest # r.digest /\ b \in BlobsOf(t.digest)
            BY <1>2, <2>2, <3>1, <3>3, <4>1, <4>2, OtherOwner
          <5> QED  BY <3>2, <5>1
        <4> QED  BY <3>2, <4>1, <4>2
      <3>4. blobs' \subseteq Used(rest) \cup {r.digest, ConfigOf[r.digest]}
        BY <3>3 DEF Used
      <3>5. Used({t \in index : t.pos # job[p].pos})' = Used(rest)
        BY <3>1 DEF Used
      <3> HIDE DEF rest
      <3> QED  BY <3>1, <3>4, <3>5 DEF TidyAt, Uploading
    <2> QED  BY <2>1, <2>3, <2>4
  <1> QED  BY <1>3, <1>4

LEMMA TidyRmiHead ==
    ASSUME IntactUse, IntactInv, NEW p \in Procs, TidyAt(p), RmiHead(p)
    PROVE  TidyAt(p)'
  <1> DEFINE T == {r \in index : r.pos # job[p].pos}
  <1>1. Save(p, T)
    BY IntactTypes, RmiHeadSaves
  <1>2. /\ blobs \subseteq Used(T) \cup {job[p].img, ConfigOf[job[p].img]}
        /\ blobs' = blobs \ {job[p].img, ConfigOf[job[p].img]}
    BY DEF RmiHead, DeleteFiles, TidyAt
  <1> HIDE DEF T
  <1> QED  BY <1>1, <1>2, TidySaves

LEMMA TidyRmiId ==
    ASSUME IntactUse, OneManifest, IntactInv, NEW p \in Procs, TidyAt(p),
           NEW id, RmiId(p, id)
    PROVE  TidyAt(p)'
  <1>1. Running(p, "rmi") /\ TakeArg(p)
    BY DEF RmiId
  <1>2. /\ pc[p] = "ready" /\ blobs \subseteq Used(index)
        /\ mem[p].bydigest = {r.digest : r \in index}
    BY <1>1, IntactReady DEF TidyAt
  <1>3. CASE Skip(p)
    BY <1>2, <1>3, TidyStays DEF Skip
  <1>4. CASE ~ Skip(p)
    <2> DEFINE T == {r \in index : ConfigOf[r.digest] # id}
    <2>1. Save(p, T)
      BY <1>4, RmiIdFiles
    <2> HIDE DEF T
    <2>2. PICK m \in Manifests :
            /\ ConfigOf[m] = id
            /\ \E r \in index : r.digest = m
            /\ blobs' = blobs \ FilesOf(p, m)
      BY <1>4, RmiIdFiles
    <2>3. \A r \in index : r.digest \in Manifests
      BY IntactTypes, FreshTypes DEF Entry
    <2>4. \A r \in index : r.digest # m => r \in T
      BY <2>2, <2>3 DEF OneManifest, T
    <2>5. ASSUME NEW b \in blobs' PROVE \E r \in T : b \in BlobsOf(r.digest)
      <3>1. PICK q \in index : b \in BlobsOf(q.digest)
        BY <1>2, <2>2 DEF Used
      <3>2. CASE q.digest = m
        <4>1. /\ b \in blobs /\ b \notin {m, ConfigOf[m]}
              /\ b \notin UnusedLayers(m, mem[p].bydigest \ {m}, blobs)
          BY <2>2 DEF FilesOf
        <4>2. PICK r \in index : r.digest # m /\ b \in BlobsOf(r.digest)
          BY <1>2, <3>1, <3>2, <4>1, OtherOwner
        <4> QED  BY <2>4, <4>2
      <3> QED  BY <2>4, <3>1, <3>2
    <2>6. blobs' \subseteq Used(T)
      BY <2>5 DEF Used
    <2> QED  BY <2>1, <2>6, TidySaves
  <1> QED  BY <1>3, <1>4

\* A blob step works on the blobs of its image, and adds no other file.
LEMMA FileAdds ==
    ASSUME CleanUse, CleanInv, NEW p \in Procs, FileStep(p), pc[p] \in Uploading
    PROVE  /\ blobs' \subseteq blobs \cup ({job[p].blob} \ {None})
           /\ job'[p].img = job[p].img
           /\ job'[p].todo \cup {job'[p].blob} \subseteq
                job[p].todo \cup {job[p].blob, None}
  <1>1. /\ job \in [Procs -> Job] /\ blobs \subseteq Blobs
        /\ pc[p] # "upload" => job[p].blob \in Blobs
        /\ pc[p] \in {"staged", "hashed"} => Content(p) = {job[p].blob}
        /\ None \notin Blobs
    BY Uploader, NameAssumption DEF CleanInv, TypeInv, TypeOK, Blobs
  <1> DEFINE Within == /\ job'[p].img = job[p].img
                       /\ job'[p].todo \cup {job'[p].blob} \subseteq
                            job[p].todo \cup {job[p].blob, None}
  <1>2. Done(p) => Within
    BY <1>1, DoneJob
  <1>3. ASSUME NEW b \in Blobs, IsNext(p, b),
               \/ \E s : Begin(p, b, s)
               \/ job' = [job EXCEPT ![p].todo = @ \ {b}]
        PROVE  Within
    <2>1. b \in job[p].todo
      BY <1>3 DEF IsNext
    <2>2. PICK j \in Job : /\ job' = [job EXCEPT ![p] = j]
                           /\ j.img = job[p].img
                           /\ j.todo = job[p].todo \ {b}
                           /\ j.blob \in {b, job[p].blob}
      BY <1>1, <1>3, BeginJob, DropJob
    <2> QED  BY <1>1, <2>1, <2>2
  <1>4. ASSUME NEW b \in Blobs, Fetch(p, b) \/ LoseConfig(p, b) \/ Stage(p, b)
        PROVE  Within /\ blobs' = blobs
    BY <1>3, <1>4 DEF Fetch, LoseConfig, Stage
  <1>5. CASE Hash(p)
    <2>1. PICK c \in Content(p), k \in Manifests, j \in Job,
              s \in {"mixed", "hashed"} : Hashed(p, c, k, j, s)
      BY <1>1, <1>5, HashJob
    <2>2. c = job[p].blob
      BY <1>1, <1>5 DEF Hash
    <2>3. k = job[p].img
      BY <2>1, <2>2 DEF Hashed, Revised
    <2>4. Within
      BY <1>1, <2>1, <2>2, <2>3 DEF Hashed
    <2> QED  BY <1>5, <2>4 DEF Hash
  <1>6. CASE LoseBlob(p) \/ KeepFile(p) \/ Rename(p) \/ Rewrite(p)
    <2>1. Done(p)
      BY <1>6 DEF LoseBlob, KeepFile, Rename, Rewrite
    <2>2. pc[p] # "upload"
      BY <1>6 DEF LoseBlob, KeepFile, Rename, Renames, Rewrite
    <2>3. blobs' \subseteq blobs \cup {job[p].blob}
      BY <1>6 DEF LoseBlob, KeepFile, Rename, Rewrite
    <2> QED  BY <1>1, <1>2, <2>1, <2>2, <2>3
  <1>7. CASE Unlink(p) \/ Tear(p)
    <2>1. Done(p) \/ UNCHANGED job
      BY <1>7 DEF Unlink, Tear
    <2>2. blobs' \subseteq blobs
      BY <1>7 DEF Unlink, Tear, DeleteFiles
    <2> QED  BY <1>1, <1>2, <2>1, <2>2
  <1> HIDE DEF Within
  <1>8. Within /\ blobs' \subseteq blobs \cup ({job[p].blob} \ {None})
    BY <1>4, <1>5, <1>6, <1>7 DEF FileStep, Within
  <1> QED  BY <1>8 DEF Within

LEMMA TidyFile ==
    ASSUME IntactUse, IntactInv, NEW p \in Procs, TidyAt(p), FileStep(p)
    PROVE  TidyAt(p)'
  <1>1. pc[p] \in Uploading
    BY DEF FileStep, Fetch, LoseConfig, Stage, LoseBlob, Hash,
           KeepFile, Unlink, Rename, Renames, Tear, Truncates, Rewrite, Uploading
  <1>2. index' = index /\ pc'[p] \in Uploading
    <2>1. TypeInv /\ pc \in [Procs -> PCs]
      BY IntactTypes, FreshTypes DEF CleanInv
    <2> QED  BY <2>1, FileSteps, FileControl
  <1>3. /\ blobs' \subseteq blobs \cup ({job[p].blob} \ {None})
        /\ job'[p].img = job[p].img
        /\ job'[p].todo \cup {job'[p].blob} \subseteq
             job[p].todo \cup {job[p].blob, None}
    BY <1>1, IntactTypes, FileAdds
  <1>4. /\ blobs \subseteq Used(index) \cup BlobsOf(job[p].img)
        /\ job[p].todo \cup {job[p].blob} \subseteq BlobsOf(job[p].img) \cup {None}
    BY <1>1 DEF TidyAt
  <1>5. /\ blobs' \subseteq Used(index) \cup BlobsOf(job[p].img)
        /\ job'[p].todo \cup {job'[p].blob} \subseteq
             BlobsOf(job[p].img) \cup {None}
    BY <1>3, <1>4
  <1>6. Used(index)' = Used(index) /\ BlobsOf(job[p].img)' = BlobsOf(job[p].img)
    BY <1>2, <1>3 DEF Used, BlobsOf
  <1>7. pc'[p] \notin {"idle", "ready", "truncate", "write", "history"}
    BY <1>2 DEF Uploading
  <1> QED  BY <1>3, <1>5, <1>6, <1>7 DEF TidyAt

LEMMA TidyStart ==
    ASSUME IntactUse, IntactInv, NEW p \in Procs, TidyAt(p), NEW ref, NEW m,
           Build(p, ref, m) \/ Pull(p, ref, m)
    PROVE  TidyAt(p)'
  <1>1. StartUpload(p, ref, m, BlobsOf(m)) /\ pc[p] = "ready"
    BY DEF Build, Pull, Running
  <1>2. /\ pc'[p] = "upload" /\ UNCHANGED <<index, blobs>>
        /\ job'[p].img = m /\ job'[p].todo = BlobsOf(m) /\ job'[p].blob = None
    BY <1>1, IntactTypes, FreshTypes DEF StartUpload, Goto, NoJob
  <1>3. blobs \subseteq Used(index)
    BY <1>1 DEF TidyAt
  <1>4. Used(index)' = Used(index) /\ BlobsOf(job[p].img)' = BlobsOf(m)
    BY <1>2 DEF Used, BlobsOf
  <1> QED  BY <1>2, <1>3, <1>4 DEF TidyAt

LEMMA TidyWrites ==
    ASSUME IntactUse, IntactInv, NEW p \in Procs, TidyAt(p),
           Truncate(p) \/ Write(p)
    PROVE  TidyAt(p)'
  <1>1. blobs \subseteq Used(out[p]) /\ UNCHANGED blobs
    BY DEF Truncate, Write, TidyAt
  <1>2. CASE Truncate(p)
    <2>1. pc'[p] = "write" /\ UNCHANGED out
      BY <1>2, IntactTypes, FreshTypes DEF Truncate, Goto
    <2>2. Used(out[p])' = Used(out[p])
      BY <2>1 DEF Used
    <2> QED  BY <1>1, <2>1, <2>2 DEF TidyAt, Uploading
  <1>3. CASE Write(p)
    <2>1. pc'[p] = "ready"
      BY <1>3, IntactTypes, FreshTypes DEF Write, Goto
    <2>2. Used(out[p]) \subseteq Used(index)'
      BY <1>3, WrittenRecords DEF Used
    <2> QED  BY <1>1, <2>1, <2>2 DEF TidyAt, Uploading
  <1> QED  BY <1>2, <1>3

LEMMA TidyTag ==
    ASSUME IntactUse, IntactInv, NEW p \in Procs, TidyAt(p), NEW ref, NEW new,
           Tag(p, ref, new)
    PROVE  TidyAt(p)'
  <1>1. pc[p] = "ready" /\ UNCHANGED <<index, blobs>>
    BY DEF Tag, Running, Skip
  <1>2. blobs \subseteq Used(index)
    BY <1>1 DEF TidyAt
  <1>3. CASE Skip(p)
    BY <1>1, <1>2, <1>3, TidyStays DEF Skip
  <1>4. CASE ~ Skip(p)
    <2>1. PICK T : Save(p, T) /\ index \subseteq T
      BY <1>4, TagSaves
    <2>2. Used(index) \subseteq Used(T)
      BY <2>1 DEF Used
    <2> QED  BY <1>1, <1>2, <2>1, <2>2, TidySaves
  <1> QED  BY <1>3, <1>4

LEMMA TidyRecord ==
    ASSUME IntactUse, IntactInv, NEW p \in Procs, TidyAt(p),
           BuildRecord(p) \/ PullRecord(p)
    PROVE  TidyAt(p)'
  <1>1. pc[p] = "upload" /\ UNCHANGED blobs
    BY DEF BuildRecord, PullRecord, Uploaded
  <1>2. blobs \subseteq Used(index) \cup BlobsOf(job[p].img)
    BY <1>1 DEF TidyAt, Uploading
  <1>3. PICK e : Save(p, index \cup {e}) /\ e.digest = job[p].img
    BY RecordSaves
  <1> DEFINE T == index \cup {e}
  <1>4. Used(index) \cup BlobsOf(job[p].img) \subseteq Used(T) /\ Save(p, T)
    BY <1>3 DEF Used
  <1> HIDE DEF T
  <1> QED  BY <1>1, <1>2, <1>4, TidySaves

LEMMA StepTidy ==
    ASSUME IntactUse, OneManifest, IntactInv, NEW p \in Procs, TidyAt(p), Step(p)
    PROVE  TidyAt(p)'
  <1>1. ASSUME pc[p] \in {"idle", "ready"}, pc'[p] \in {"idle", "ready"},
               UNCHANGED <<index, blobs>>
        PROVE  TidyAt(p)'
    BY <1>1, TidyStays DEF TidyAt
  <1>2. CASE OpenFails(p)
    BY <1>1, <1>2 DEF OpenFails
  <1>3. ASSUME End(p), UNCHANGED disk, pc[p] = "ready" PROVE TidyAt(p)'
    <2>1. pc'[p] = "idle"
      BY <1>3, IntactTypes, FreshTypes DEF End, Goto
    <2> QED  BY <1>1, <1>3, <2>1
  <1>4. CASE Exit(p)
    BY <1>3, <1>4 DEF Exit
  <1>5. ASSUME NEW ref, RmiNameThrows(p, ref) \/ RmiIdThrows(p, ref)
        PROVE  TidyAt(p)'
    BY <1>3, <1>5 DEF RmiNameThrows, RmiIdThrows, Running
  <1>6. ASSUME NEW op, NEW n, Open(p, op, n) PROVE TidyAt(p)'
    <2>1. pc[p] = "idle" /\ pc'[p] = "ready" /\ UNCHANGED <<index, blobs>>
      BY <1>6, IntactTypes, FreshTypes, OpenReady DEF Open, Goto
    <2> QED  BY <1>1, <2>1
  <1>7. CASE Truncate(p) \/ Write(p)
    BY <1>7, TidyWrites
  <1>8. ASSUME NEW ref, NEW new, Tag(p, ref, new) PROVE TidyAt(p)'
    BY <1>8, TidyTag
  <1>9. ASSUME NEW ref, RmiName(p, ref) \/ RmiId(p, ref) PROVE TidyAt(p)'
    BY <1>9, TidyRmiName, TidyRmiId
  <1>10. CASE RmiHead(p)
    BY <1>10, TidyRmiHead
  <1>11. ASSUME NEW ref, NEW m, Build(p, ref, m) \/ Pull(p, ref, m)
         PROVE  TidyAt(p)'
    BY <1>11, TidyStart
  <1>12. CASE FileStep(p)
    BY <1>12, TidyFile
  <1>13. CASE BuildRecord(p) \/ PullRecord(p)
    BY <1>13, TidyRecord
  <1> HIDE DEF disk, vars
  <1> QED
    BY <1>2, <1>4, <1>5, <1>6, <1>7, <1>8, <1>9, <1>10, <1>11, <1>12, <1>13,
       NotTaken DEF Step, FileStep

\* Under the same conditions, and when no two manifests share a config, every
\* file in the store belongs to an image of the index whenever no command
\* runs: rmi leaves no layer, config or manifest behind, whichever names,
\* ids and shared layers the removed images had (ImageStore::Delete).
THEOREM NothingLeftBehind ==
    ASSUME IntactUse, OneManifest
    PROVE  Spec => []NoGarbage
  <1>1. Init => TidyInv
    <2> SUFFICES ASSUME Init PROVE TidyInv
      OBVIOUS
    <2>1. \A p \in Procs : TidyAt(p)
      BY DEF Init, TidyAt, Uploading
    <2> QED  BY <2>1, IntactInit DEF TidyInv, Init
  <1>2. TidyInv /\ [Next]_vars => TidyInv'
    <2> SUFFICES ASSUME TidyInv, [Next]_vars PROVE TidyInv'
      OBVIOUS
    <2>1. IntactInv'
      BY IntactStep DEF TidyInv
    <2>2. CASE UNCHANGED vars
      <3>1. \A p \in Procs : TidyAt(p)'
        BY <2>2 DEF TidyInv, TidyAt, Used, BlobsOf
      <3> QED  BY <2>1, <2>2, <3>1 DEF TidyInv
    <2>3. ASSUME NEW p \in Procs, Step(p) PROVE TidyInv'
      <3>1. \A q \in Procs : q = p
        BY <2>3, IntactTypes, FreshTypes DEF TidyInv
      <3>2. TidyAt(p)'
        BY <2>3, StepTidy DEF TidyInv
      <3> QED  BY <2>1, <2>3, <3>1, <3>2 DEF TidyInv
    <2> QED  BY <2>2, <2>3 DEF Next
  <1>3. TidyInv => NoGarbage
    <2> SUFFICES ASSUME TidyInv, AtRest
                 PROVE  blobs \subseteq
                          UNION {BlobsOf(m) : m \in UNION {Digests(r) : r \in index}}
      BY DEF NoGarbage
    <2>1. CASE Procs = {}
      BY <2>1 DEF TidyInv
    <2>2. CASE Procs # {}
      <3>1. PICK p \in Procs : TRUE
        BY <2>2
      <3>2. blobs \subseteq Used(index)
        BY <3>1 DEF AtRest, TidyInv, TidyAt
      <3>3. \A r \in index : r.digest \in Digests(r)
        BY DEF Digests
      <3> QED  BY <3>2, <3>3 DEF Used
    <2> QED  BY <2>1, <2>2
  <1> QED  BY <1>1, <1>2, <1>3, PTL DEF Spec

-----------------------------------------------------------------------------
(* Any commands but one at a time, nothing failing: names and manifests are *)
(* used again, configs change, records have histories.  rmi of several      *)
(* arguments removes nothing that is needed, as long as the index names no  *)
(* manifest twice.                                                          *)

QuietUse == Alone /\ OneManifest /\ ~ LossyRegistry /\ ~ WriteErrors /\ ~ Crashes

\* What is apart, and has all its blobs among the files.
Stands(S, files) ==
    /\ Apart(S)
    /\ \A r \in S : \A d \in Digests(r) : BlobsOf(d) \subseteq files

\* The copy in the memory of a command that removes images.
Faithful(objs, known, files) ==
    /\ \A o, q \in objs : o.id = q.id => o = q
    /\ Stands(Live(objs), files)
    /\ \A o \in Live(objs) : Digests(o) \subseteq known

\* The objects that rmi of a name leaves alone.
Spared(p) == {o \in Live(mem[p].objs) : o.pos # job[p].pos}

\* From the first file it removes until the index is written, what the index
\* names may be gone; what rmi spares, or is about to write, is not.
RmiAt(p) ==
    /\ pc[p] # "idle"
    /\ pc[p] = "ready" => Stands(index, blobs)
    /\ pc[p] \in {"truncate", "write"} => Stands(out[p], blobs)
    /\ pc[p] \in {"ready", "truncate", "write"} =>
         Faithful(mem[p].objs, mem[p].bydigest, blobs)
    /\ pc[p] = "history" =>
         /\ job[p].img \in Manifests
         /\ \A o, q \in mem[p].objs : o.id = q.id => o = q
         /\ Stands(Spared(p), blobs)
         /\ \A o \in Spared(p) :
              /\ Digests(o) \subseteq mem[p].bydigest
              /\ Digests(o) \cap ({job[p].img} \cup ToSet(job[p].hist)) = {}
         /\ ToSet(job[p].hist) \subseteq blobs
         /\ IsInjective(job[p].hist)

\* The other commands add files, and a record over what is stored; they may
\* name a manifest twice.
QuietAt(p) == IF cmd[p].op = "rmi" THEN RmiAt(p) ELSE Stored(Stable)

QuietInv ==
    /\ CleanInv
    /\ Procs = {} => index = {}
    /\ \A p \in Procs : QuietAt(p)

-----------------------------------------------------------------------------
(* Sets that stand.                                                        *)

\* Copies of records stand where the records do.
LEMMA StandsCopied ==
    ASSUME NEW S, NEW T, NEW files, Stands(S, files),
           \A t \in T : \E s \in S : t.digest = s.digest /\ t.history = s.history,
           \A t, u \in T : t.digest = u.digest => t = u
    PROVE  Stands(T, files)
  <1>1. \A t \in T : \E s \in S : /\ t.digest = s.digest
                                  /\ Digests(t) = Digests(s)
                                  /\ Once(t) = Once(s)
    BY DEF Digests, Once
  <1>2. \A t \in T : Once(t) /\ \A d \in Digests(t) : BlobsOf(d) \subseteq files
    BY <1>1 DEF Stands, Apart
  <1>3. ASSUME NEW t \in T, NEW u \in T, t # u
        PROVE  Digests(t) \cap Digests(u) = {}
    <2>1. PICK s \in S : t.digest = s.digest /\ Digests(t) = Digests(s)
      BY <1>1
    <2>2. PICK r \in S : u.digest = r.digest /\ Digests(u) = Digests(r)
      BY <1>1
    <2>3. s # r
      BY <1>3, <2>1, <2>2
    <2> QED  BY <2>1, <2>2, <2>3 DEF Stands, Apart
  <1> QED  BY <1>2, <1>3 DEF Stands, Apart

\* A digest belongs to one record of a set that stands.
LEMMA StandsOwner ==
    ASSUME NEW S, NEW files, Stands(S, files)
    PROVE  /\ \A r, q \in S : r.digest = q.digest => r = q
           /\ \A r, q \in S : r # q => Digests(r) \cap Digests(q) = {}
           /\ \A r \in S : /\ r.digest \in Digests(r)
                           /\ ToSet(r.history) \subseteq Digests(r)
                           /\ Once(r)
                           /\ \A d \in Digests(r) : BlobsOf(d) \subseteq files
                           /\ Digests(r) \subseteq files
  <1>1. \A r : r.digest \in Digests(r) /\ ToSet(r.history) \subseteq Digests(r)
    BY DEF Digests
  <1>2. \A r \in S : Digests(r) \subseteq files
    BY DEF Stands, BlobsOf
  <1> QED  BY <1>1, <1>2 DEF Stands, Apart

LEMMA StandsPart ==
    ASSUME NEW S, NEW T, NEW files, NEW more, Stands(S, files), T \subseteq S,
           files \subseteq more
    PROVE  Stands(T, more)
  BY DEF Stands, Apart

\* A set stands on when files of others go.
LEMMA StandsWithout ==
    ASSUME NEW S, NEW files, NEW gone, Stands(S, files),
           \A r \in S : \A d \in Digests(r) : BlobsOf(d) \cap gone = {}
    PROVE  Stands(S, files \ gone)
  BY DEF Stands

\* A record over manifests that none of the others names.
LEMMA StandsWith ==
    ASSUME NEW S, NEW files, NEW e, Stands(S, files), Once(e),
           \A d \in Digests(e) : BlobsOf(d) \subseteq files,
           \A r \in S : Digests(r) \cap Digests(e) = {}
    PROVE  Stands(S \cup {e}, files)
  BY DEF Stands, Apart

\* The records of objects that stand.
LEMMA StandsEntries ==
    ASSUME NEW objs, NEW files, Stands(Live(objs), files)
    PROVE  Stands(Entries(objs), files)
  <1>1. \A t \in Entries(objs) : \E o \in Live(objs) :
          t = EntryOf(o) /\ t.digest = o.digest /\ t.history = o.history
    BY DEF Entries, EntryOf
  <1>2. \A o, q \in Live(objs) : o.digest = q.digest => o = q
    BY StandsOwner
  <1>3. \A t, u \in Entries(objs) : t.digest = u.digest => t = u
    BY <1>1, <1>2
  <1> QED  BY <1>1, <1>3, StandsCopied

\* What load makes of an index that stands.
LEMMA StandsLoaded ==
    ASSUME NEW S \in SUBSET Entry, NEW files, Stands(S, files), OneManifest
    PROVE  Faithful(LoadIndex(S).objs, LoadIndex(S).bydigest, files)
  <1> DEFINE objs == {ObjectOf(r) : r \in S}
  <1>1. \A o \in objs : \E r \in S :
          /\ o = ObjectOf(r) /\ o.digest = r.digest /\ o.history = r.history
          /\ o.id = ConfigOf[r.digest] /\ o.live /\ r.digest \in Manifests
    BY DEF ObjectOf, Entry
  <1>2. \A r, q \in S : r.digest = q.digest => r = q
    BY StandsOwner
  <1> HIDE DEF objs
  <1>3. \A o, q \in objs : o.id = q.id => o = q
    BY <1>1, <1>2 DEF OneManifest
  <1>4. Live(objs) = objs
    BY <1>1 DEF Live
  <1>5. \A o, q \in objs : o.digest = q.digest => o = q
    BY <1>1, <1>2
  <1>6. Stands(objs, files)
    BY <1>1, <1>5, StandsCopied
  <1>7. \A o \in objs : Digests(o) \subseteq UNION {Digests(r) : r \in S}
    BY <1>1 DEF Digests
  <1> QED  BY <1>3, <1>4, <1>6, <1>7 DEF objs, LoadIndex, Faithful

\* The head and the rest of a sequence without repetition.
LEMMA InjectiveTail ==
    ASSUME NEW s \in Seq(Manifests), s # <<>>, IsInjective(s)
    PROVE  /\ IsInjective(Tail(s)) /\ Tail(s) \in Seq(Manifests)
           /\ Head(s) \in ToSet(s) /\ Head(s) \in Manifests
           /\ ToSet(Tail(s)) \subseteq ToSet(s) \ {Head(s)}
  <1>1. /\ Len(s) \in Nat /\ Len(s) > 0 /\ DOMAIN s = 1..Len(s)
        /\ Head(s) = s[1] /\ s[1] \in Manifests
        /\ Tail(s) \in Seq(Manifests) /\ Len(Tail(s)) = Len(s) - 1
        /\ DOMAIN Tail(s) = 1..(Len(s) - 1)
        /\ \A i \in 1..(Len(s) - 1) : Tail(s)[i] = s[i + 1]
    OBVIOUS
  <1> DEFINE t == Tail(s)
             n == Len(s)
  <1> HIDE DEF t, n
  <1>2. IsInjective(t)
    <2> SUFFICES ASSUME NEW i \in 1..(n - 1), NEW j \in 1..(n - 1), t[i] = t[j]
                 PROVE  i = j
      BY <1>1 DEF IsInjective, t, n
    <2>1. i + 1 \in DOMAIN s /\ j + 1 \in DOMAIN s /\ s[i + 1] = s[j + 1]
      BY <1>1 DEF t, n
    <2>2. i + 1 = j + 1
      BY <2>1 DEF IsInjective
    <2> QED  BY <1>1, <2>2 DEF n
  <1>3. ASSUME NEW d \in ToSet(t) PROVE d \in ToSet(s) /\ d # Head(s)
    <2>1. PICK i \in 1..(n - 1) : d = t[i]
      BY <1>1 DEF ToSet, t, n
    <2>2. /\ i + 1 \in DOMAIN s /\ 1 \in DOMAIN s /\ i + 1 # 1
          /\ d = s[i + 1]
      BY <1>1, <2>1 DEF t, n
    <2> QED  BY <1>1, <2>2 DEF ToSet, IsInjective
  <1>4. Head(s) \in ToSet(s)
    BY <1>1 DEF ToSet
  <1> QED  BY <1>1, <1>2, <1>3, <1>4 DEF t

LEMMA InjectiveFront ==
    ASSUME NEW s \in Seq(Manifests), s # <<>>, IsInjective(s)
    PROVE  /\ IsInjective(Front(s)) /\ Last(s) \notin ToSet(Front(s))
           /\ {Last(s)} \cup ToSet(Front(s)) = ToSet(s)
  <1> DEFINE t == SubSeq(s, 1, Len(s) - 1)
             n == Len(s)
  <1>1. /\ n \in Nat /\ n > 0 /\ DOMAIN s = 1..n
        /\ t \in Seq(Manifests) /\ Len(t) = n - 1 /\ DOMAIN t = 1..(n - 1)
        /\ \A i \in 1..(n - 1) : t[i] = s[i]
    <2>1. n \in Nat /\ n > 0 /\ DOMAIN s = 1..n
      OBVIOUS
    <2>2. s \in Seq(Manifests) /\ \A i \in 1..(n - 1) : s[i] \in Manifests
      BY <2>1
    <2> HIDE DEF n
    <2>3. /\ Len(SubSeq(s, 1, n - 1)) = n - 1
          /\ DOMAIN SubSeq(s, 1, n - 1) = 1..(n - 1)
          /\ SubSeq(s, 1, n - 1) \in Seq(Manifests)
          /\ \A i \in 1..(n - 1) : SubSeq(s, 1, n - 1)[i] = s[i]
      BY <2>1, <2>2
    <2> QED  BY <2>1, <2>3 DEF n
  <1>2. Front(s) = t /\ Last(s) = s[n]
    BY DEF Front, Last
  <1> HIDE DEF t, n
  <1>3. IsInjective(t)
    <2>1. \A i \in 1..(n - 1) : i \in 1..n
      BY <1>1
    <2> QED  BY <1>1, <2>1 DEF IsInjective
  <1>4. s[n] \notin ToSet(t)
    <2> SUFFICES ASSUME NEW i \in 1..(n - 1), s[n] = t[i] PROVE FALSE
      BY <1>1 DEF ToSet
    <2>1. i \in DOMAIN s /\ n \in DOMAIN s /\ s[i] = s[n] /\ i # n
      BY <1>1
    <2> QED  BY <2>1 DEF IsInjective
  <1>5. {s[n]} \cup ToSet(t) = ToSet(s)
    <2>1. ASSUME NEW d \in ToSet(s) PROVE d \in {s[n]} \cup ToSet(t)
      <3>1. PICK i \in 1..n : d = s[i]
        BY <1>1 DEF ToSet
      <3>2. i = n \/ i \in 1..(n - 1)
        BY <1>1
      <3> QED  BY <1>1, <3>1, <3>2 DEF ToSet
    <2>2. ASSUME NEW d \in ToSet(t) PROVE d \in ToSet(s)
      <3>1. PICK i \in 1..(n - 1) : d = t[i]
        BY <1>1 DEF ToSet
      <3>2. i \in 1..n
        BY <1>1
      <3> QED  BY <1>1, <3>1, <3>2 DEF ToSet
    <2>3. s[n] \in ToSet(s)
      BY <1>1 DEF ToSet
    <2> QED  BY <2>1, <2>2, <2>3
  <1> QED  BY <1>2, <1>3, <1>4, <1>5

LEMMA InjectiveAppend ==
    ASSUME NEW s \in Seq(Manifests), NEW m \in Manifests, IsInjective(s),
           m \notin ToSet(s)
    PROVE  /\ IsInjective(Append(s, m))
           /\ ToSet(Append(s, m)) = ToSet(s) \cup {m}
  <1> DEFINE t == Append(s, m)
             n == Len(s)
  <1>1. /\ n \in Nat /\ DOMAIN s = 1..n /\ DOMAIN t = 1..(n + 1)
        /\ t[n + 1] = m /\ \A i \in 1..n : t[i] = s[i]
    OBVIOUS
  <1> HIDE DEF t, n
  <1>2. \A i \in 1..(n + 1) : i = n + 1 \/ i \in 1..n
    BY <1>1
  <1>3. \A i \in 1..n : t[i] # m
    BY <1>1 DEF ToSet
  <1>4. IsInjective(t)
    BY <1>1, <1>2, <1>3 DEF IsInjective
  <1>5. ToSet(t) = ToSet(s) \cup {m}
    <2>1. \A i \in 1..n : i \in 1..(n + 1)
      BY <1>1
    <2>2. n + 1 \in 1..(n + 1)
      BY <1>1
    <2>3. \A d : d \in ToSet(t) <=> d \in ToSet(s) \/ d = m
      BY <1>1, <1>2, <2>1, <2>2 DEF ToSet
    <2> QED  BY <2>3
  <1> QED  BY <1>4, <1>5 DEF t

-----------------------------------------------------------------------------
LEMMA QuietTypes ==
    ASSUME QuietUse, QuietInv, NEW p \in Procs
    PROVE  /\ CleanUse /\ CleanInv /\ TypeInv /\ OneManifest
           /\ \A q \in Procs : q = p
           /\ pc[p] = "history" => cmd[p].op = "rmi"
           /\ cmd[p].op # "rmi" => Stored(Stable)
           /\ pc[p] # "rewrite" => Rewriting = {} /\ torn = {}
           /\ pc'[p] # "rewrite" => Rewriting' = {}
           /\ cmd[p].op = "rmi" => /\ RmiAt(p) /\ pc[p] \notin Uploading
                                  /\ Rewriting = {} /\ torn = {}
  <1>1. \A q \in Procs : q = p
    BY DEF QuietUse, Alone
  <1>2. CleanUse
    BY <1>1 DEF QuietUse, CleanUse
  <1>3. /\ CleanInv /\ TypeInv /\ torn \subseteq Rewriting
        /\ UploadFits(pc[p], cmd[p], job[p])
        /\ SafeProc(CommandsOf[p], pc[p], cmd[p], job[p], staged,
                    blobs \cup Rewriting)
    BY DEF QuietInv, CleanInv, TypeInv, UploadOK
  <1>4. pc[p] = "history" => cmd[p].op = "rmi"
    BY <1>3 DEF SafeProc
  <1>5. cmd[p].op = "rmi" => pc[p] \notin Uploading
    BY <1>3 DEF UploadFits, Staging
  <1>6. /\ pc[p] # "rewrite" => Rewriting = {} /\ torn = {}
        /\ pc'[p] # "rewrite" => Rewriting' = {}
    BY <1>1, <1>3 DEF Rewriting
  <1>7. IF cmd[p].op = "rmi" THEN RmiAt(p) ELSE Stored(Stable)
    BY DEF QuietInv, QuietAt
  <1> QED
    BY <1>1, <1>2, <1>3, <1>4, <1>5, <1>6, <1>7 DEF QuietUse, Uploading

LEMMA QuietShapes ==
    ASSUME QuietUse, QuietInv, NEW p \in Procs
    PROVE  /\ pc \in [Procs -> PCs]
           /\ cmd \in [Procs -> [op : AllCommands \cup {"none"}, left : 0..MaxArgs]]
           /\ mem \in [Procs -> Memory] /\ job \in [Procs -> Job]
           /\ out \in [Procs -> SUBSET Entry]
           /\ index \in SUBSET Entry /\ out[p] \in SUBSET Entry
           /\ TakeArg(p) => cmd'[p].op = cmd[p].op
           /\ blobs \subseteq Blobs
  BY QuietTypes DEF TypeInv, TypeOK, TakeArg

\* What an object of the memory may hold.
LEMMA QuietObjects ==
    ASSUME QuietUse, QuietInv, NEW p \in Procs, NEW o \in mem[p].objs
    PROVE  /\ o \in Object /\ o.digest \in Manifests
           /\ o.history \in Seq(Manifests) /\ o.live \in BOOLEAN
           /\ Digests(o) \subseteq Manifests /\ ToSet(o.history) \subseteq Manifests
  <1>1. o \in Object
    BY QuietShapes DEF Memory
  <1>2. o.digest \in Manifests /\ o.history \in Seq(Manifests) /\ o.live \in BOOLEAN
    BY <1>1 DEF Object
  <1>3. ToSet(o.history) \subseteq Manifests
    BY <1>2 DEF ToSet
  <1> QED  BY <1>1, <1>2, <1>3 DEF Digests

\* Deleting the manifest m, its config and what it alone uses leaves alone
\* every other manifest that is known and stored.
LEMMA SparedFiles ==
    ASSUME OneManifest, NEW m \in Manifests, NEW d \in Manifests, d # m,
           NEW known, d \in known, d \in blobs
    PROVE  BlobsOf(d) \cap (UnusedLayers(m, known \ {m}, blobs)
                            \cup {m, ConfigOf[m]}) = {}
  BY OthersKept DEF OneManifest

\* A step of rmi that has decided what to write.
LEMMA RmiSaves ==
    ASSUME QuietUse, QuietInv, NEW p \in Procs, NEW T, Save(p, T),
           Stands(T, blobs'),
           Faithful(mem'[p].objs, mem'[p].bydigest, blobs')
    PROVE  RmiAt(p)'
  <1>1. pc'[p] = "truncate" /\ out'[p] = T
    BY QuietShapes DEF Save, Goto
  <1> QED  BY <1>1 DEF RmiAt

\* An argument that names no image.
LEMMA RmiRests ==
    ASSUME QuietUse, QuietInv, NEW p \in Procs, Skip(p),
           pc[p] = "ready" /\ cmd[p].op = "rmi"
    PROVE  RmiAt(p)'
  <1>1. UNCHANGED <<index, blobs, pc, mem, job, out>>
    BY DEF Skip
  <1> QED  BY <1>1, QuietTypes DEF RmiAt, Spared

-----------------------------------------------------------------------------
(* rmi.                                                                    *)

\* What rmi finds when it begins an operation.
LEMMA RmiReady ==
    ASSUME QuietUse, QuietInv, NEW p \in Procs, Running(p, "rmi")
    PROVE  /\ pc[p] = "ready" /\ cmd[p].op = "rmi"
           /\ Stands(index, blobs)
           /\ Faithful(mem[p].objs, mem[p].bydigest, blobs)
  BY QuietTypes DEF Running, RmiAt

\* rmi of a name erases the record of o alone while another has its id; else
\* it begins to remove the files, with the layers that no other image has.
ObjectGoes(p, o) ==
    LET gone == (mem[p].objs \ {o}) \cup {[o EXCEPT !.live = FALSE]}
    IN  /\ mem' = [mem EXCEPT ![p].objs = gone]
        /\ Save(p, Entries(gone))
        /\ UNCHANGED disk

ObjectFilesGo(p, o) ==
    /\ o \in Live(mem[p].objs)
    /\ mem' = [mem EXCEPT ![p].bydigest = @ \ {o.digest}]
    /\ DeleteFiles(UnusedLayers(o.digest, mem[p].bydigest \ {o.digest}, blobs))
    /\ job' = [job EXCEPT ![p] = [NoJob EXCEPT !.img = o.digest,
                                               !.hist = o.history,
                                               !.pos = o.pos]]
    /\ Goto(p, "history")

LEMMA RmiNameQuietCases ==
    ASSUME QuietUse, QuietInv, NEW p \in Procs, NEW ref, RmiName(p, ref)
    PROVE  \/ Skip(p)
           \/ \E o \in mem[p].objs : ObjectGoes(p, o) \/ ObjectFilesGo(p, o)
  <1>1. Faithful(mem[p].objs, mem[p].bydigest, blobs)
    BY RmiReady DEF RmiName
  <1>2. SUFFICES ASSUME ~ Skip(p)
                 PROVE  \E o \in mem[p].objs : ObjectGoes(p, o) \/ ObjectFilesGo(p, o)
    OBVIOUS
  <1>3. PICK o \in Lookup(mem[p].objs, ref) :
                LET objs == mem[p].objs
                    same == {q \in Live(objs) : q.id = o.id}
                    rest == mem[p].bydigest \ {o.digest}
                    gone == (objs \ {o}) \cup {[o EXCEPT !.live = FALSE]}
                IN  \/ /\ mem' = [mem EXCEPT ![p].objs = gone]
                       /\ Save(p, Entries(gone))
                       /\ UNCHANGED <<disk, job>>
                    \/ /\ \E q \in same : same = {q}
                       /\ mem' = [mem EXCEPT ![p].bydigest = rest]
                       /\ DeleteFiles(UnusedLayers(o.digest, rest, blobs))
                       /\ job' = [job EXCEPT ![p] =
                                    [NoJob EXCEPT !.img = o.digest,
                                                  !.hist = o.history,
                                                  !.pos = o.pos]]
                       /\ Goto(p, "history")
    BY <1>2 DEF RmiName
  <1>4. o \in mem[p].objs
    BY LookupFinds
  <1> DEFINE same == {q \in Live(mem[p].objs) : q.id = o.id}
  <1>5. ASSUME NEW q \in same PROVE o \in Live(mem[p].objs)
    BY <1>1, <1>4 DEF Faithful, Live
  <1>6. CASE ObjectGoes(p, o)
    BY <1>4, <1>6
  <1>7. CASE ~ ObjectGoes(p, o)
    <2>1. ObjectFilesGo(p, o)
      BY <1>3, <1>5, <1>7 DEF ObjectGoes, ObjectFilesGo
    <2> QED  BY <1>4, <2>1
  <1> QED  BY <1>6, <1>7

\* An object that is erased, or falls back, leaves the others as they are.
LEMMA ObjectErased ==
    ASSUME NEW objs, NEW o \in objs, o \in Object, NEW known, NEW files,
           Faithful(objs, known, files), NEW gone,
           gone = (objs \ {o}) \cup {[o EXCEPT !.live = FALSE]}
    PROVE  /\ Live(gone) = Live(objs) \ {o}
           /\ Faithful(gone, known, files)
  <1> DEFINE dead == [o EXCEPT !.live = FALSE]
  <1>1. ~ dead.live /\ dead.id = o.id
    BY DEF Object
  <1> HIDE DEF dead
  <1>2. gone = (objs \ {o}) \cup {dead}
    BY DEF dead
  <1>3. Live(gone) = Live(objs) \ {o}
    BY <1>1, <1>2 DEF Live
  <1>4. \A q, r \in gone : q.id = r.id => q = r
    BY <1>1, <1>2 DEF Faithful
  <1>5. Stands(Live(gone), files)
    <2>1. Stands(Live(objs), files) /\ Live(gone) \subseteq Live(objs)
      BY <1>3 DEF Faithful
    <2> QED  BY <2>1, StandsPart
  <1> QED  BY <1>3, <1>4, <1>5 DEF Faithful

LEMMA RmiNameQuiet ==
    ASSUME QuietUse, QuietInv, NEW p \in Procs, NEW ref, RmiName(p, ref)
    PROVE  RmiAt(p)'
  <1> DEFINE objs  == mem[p].objs
             known == mem[p].bydigest
  <1>1. /\ Running(p, "rmi") /\ TakeArg(p) /\ cmd'[p].op = "rmi"
        /\ pc[p] = "ready" /\ Stands(index, blobs)
        /\ Faithful(objs, known, blobs)
    BY RmiReady, QuietShapes DEF RmiName
  <1>2. CASE Skip(p)
    BY <1>1, <1>2, RmiRests DEF Running
  <1>3. ASSUME NEW o \in objs, ObjectGoes(p, o) PROVE RmiAt(p)'
    <2> DEFINE gone == (objs \ {o}) \cup {[o EXCEPT !.live = FALSE]}
    <2>1. /\ mem' = [mem EXCEPT ![p].objs = gone]
          /\ Save(p, Entries(gone)) /\ UNCHANGED blobs
      BY <1>3 DEF ObjectGoes
    <2>2. mem'[p].objs = gone /\ mem'[p].bydigest = known
      BY <2>1, QuietShapes DEF Memory
    <2>3. Faithful(gone, known, blobs)
      BY <1>1, ObjectErased, QuietObjects
    <2> HIDE DEF gone
    <2>4. Stands(Entries(gone), blobs')
      BY <2>1, <2>3, StandsEntries DEF Faithful
    <2> QED  BY <2>1, <2>2, <2>3, <2>4, RmiSaves
  <1>4. ASSUME NEW o \in objs, ObjectFilesGo(p, o) PROVE RmiAt(p)'
    <2> DEFINE m == o.digest
               gone == UnusedLayers(m, known \ {m}, blobs)
               left == {q \in Live(objs) : q.pos # o.pos}
    <2>1. /\ pc'[p] = "history" /\ o \in Live(objs)
          /\ mem'[p].objs = objs /\ mem'[p].bydigest = known \ {m}
          /\ job'[p].img = m /\ job'[p].hist = o.history /\ job'[p].pos = o.pos
          /\ blobs' = blobs \ gone
      BY <1>4, QuietShapes DEF ObjectFilesGo, Goto, NoJob, Memory, DeleteFiles
    <2>2. /\ m \in Manifests /\ Once(o) /\ Digests(o) \subseteq blobs
          /\ ToSet(o.history) \subseteq Manifests
          /\ ToSet(o.history) \subseteq blobs
      BY <1>1, <2>1, QuietObjects, StandsOwner DEF Faithful
    <2>3. ASSUME NEW q \in left
          PROVE  /\ Digests(q) \subseteq known /\ Digests(q) \cap Digests(o) = {}
                 /\ Digests(q) \subseteq Manifests /\ Digests(q) \subseteq blobs
      <3>1. q \in Live(objs) /\ q # o /\ q \in objs
        BY DEF Live
      <3> QED  BY <1>1, <2>1, <3>1, QuietObjects, StandsOwner DEF Faithful
    <2> HIDE DEF objs, known
    <2>4. ASSUME NEW q \in left, NEW d \in Digests(q)
          PROVE  BlobsOf(d) \cap gone = {}
      <3>1. d \in Manifests /\ d # m /\ d \in known /\ d \in blobs
        BY <2>3 DEF Digests
      <3> QED  BY <2>2, <3>1, QuietTypes, SparedFiles
    <2>5. Stands(left, blobs)
      BY <1>1, StandsPart DEF Faithful
    <2>6. Stands(left, blobs')
      <3> HIDE DEF left, gone
      <3>1. \A q \in left : \A d \in Digests(q) : BlobsOf(d) \cap gone = {}
        BY <2>4
      <3> QED  BY <2>1, <2>5, <3>1, StandsWithout
    <2>7. Spared(p)' = left
      BY <2>1 DEF Spared
    <2>8. ToSet(o.history) \subseteq blobs'
      <3>1. gone \cap Manifests = {}
        BY <2>2, DigestAssumption DEF UnusedLayers
      <3> QED  BY <2>1, <2>2, <3>1
    <2>9. \A q \in left : /\ Digests(q) \subseteq known \ {m}
                          /\ Digests(q) \cap ({m} \cup ToSet(o.history)) = {}
      BY <2>3 DEF Digests
    <2>10. \A q, r \in objs : q.id = r.id => q = r
      BY <1>1 DEF Faithful
    <2> HIDE DEF m, left, gone
    <2>11. /\ \A q, r \in mem'[p].objs : q.id = r.id => q = r
           /\ Stands(Spared(p)', blobs')
           /\ \A q \in Spared(p)' :
                /\ Digests(q) \subseteq mem'[p].bydigest
                /\ Digests(q) \cap ({job'[p].img} \cup ToSet(job'[p].hist)) = {}
           /\ ToSet(job'[p].hist) \subseteq blobs'
           /\ IsInjective(job'[p].hist) /\ job'[p].img \in Manifests
      BY <2>1, <2>2, <2>6, <2>7, <2>8, <2>9, <2>10 DEF Once, m
    <2> QED  BY <2>1, <2>11 DEF RmiAt
  <1> QED  BY <1>2, <1>3, <1>4, RmiNameQuietCases

\* One version that the history of the image names goes, with its config and
\* the layers that no other known manifest names.
TakesOne(p) ==
    LET h    == Head(job[p].hist)
        rest == mem[p].bydigest \ {h}
    IN  /\ mem' = [mem EXCEPT ![p].bydigest = rest]
        /\ DeleteFiles(UnusedLayers(h, rest, blobs) \cup {h, ConfigOf[h]})
        /\ job' = [job EXCEPT ![p].hist = Tail(@)]
        /\ UNCHANGED <<index, staged, pc, cmd, out>>

LEMMA RmiHistoryQuiet ==
    ASSUME QuietUse, QuietInv, NEW p \in Procs, RmiHistory(p)
    PROVE  RmiAt(p)' /\ TakesOne(p)
  <1> DEFINE h     == Head(job[p].hist)
             known == mem[p].bydigest
             gone  == UnusedLayers(h, known \ {h}, blobs) \cup {h, ConfigOf[h]}
  <1>1. /\ pc[p] = "history" /\ job[p].hist # <<>>
        /\ job[p].hist \in Seq(Manifests)
    BY QuietShapes DEF RmiHistory, Job
  <1>2. /\ job[p].img \in Manifests
        /\ \A o, q \in mem[p].objs : o.id = q.id => o = q
        /\ Stands(Spared(p), blobs)
        /\ \A o \in Spared(p) :
             /\ Digests(o) \subseteq known
             /\ Digests(o) \cap ({job[p].img} \cup ToSet(job[p].hist)) = {}
        /\ ToSet(job[p].hist) \subseteq blobs
        /\ IsInjective(job[p].hist)
    BY <1>1, QuietTypes DEF RmiAt
  <1>3. /\ IsInjective(Tail(job[p].hist))
        /\ h \in ToSet(job[p].hist) /\ h \in Manifests
        /\ ToSet(Tail(job[p].hist)) \subseteq ToSet(job[p].hist) \ {h}
        /\ Tail(job[p].hist) \in Seq(Manifests)
    BY <1>1, <1>2, InjectiveTail
  <1>4. h \in blobs /\ torn = {}
    BY <1>1, <1>2, <1>3, QuietTypes
  <1>5. TakesOne(p)
    BY <1>1, <1>4 DEF RmiHistory, TakesOne
  <1>6. /\ pc'[p] = "history" /\ mem'[p].objs = mem[p].objs
        /\ mem'[p].bydigest = known \ {h} /\ blobs' = blobs \ gone
        /\ job'[p].img = job[p].img /\ job'[p].pos = job[p].pos
        /\ job'[p].hist = Tail(job[p].hist)
    BY <1>1, <1>5, QuietShapes DEF TakesOne, Memory, Job, DeleteFiles
  <1>7. ASSUME NEW o \in Spared(p)
        PROVE  /\ Digests(o) \subseteq Manifests /\ Digests(o) \subseteq blobs
               /\ h \notin Digests(o)
    <2>1. o \in mem[p].objs
      BY DEF Spared, Live
    <2>2. Digests(o) \subseteq Manifests /\ Digests(o) \subseteq blobs
      BY <1>2, <2>1, QuietObjects, StandsOwner
    <2> QED  BY <1>2, <1>3, <2>2
  <1> HIDE DEF known, h
  <1>8. \A o \in Spared(p) : \A d \in Digests(o) : BlobsOf(d) \cap gone = {}
    <2> SUFFICES ASSUME NEW o \in Spared(p), NEW d \in Digests(o)
                 PROVE  BlobsOf(d) \cap gone = {}
      OBVIOUS
    <2>1. d \in Manifests /\ d # h /\ d \in known /\ d \in blobs
      BY <1>2, <1>7
    <2> QED  BY <1>3, <2>1, QuietTypes, SparedFiles
  <1>9. ToSet(Tail(job[p].hist)) \subseteq blobs'
    <2>1. ToSet(Tail(job[p].hist)) \subseteq Manifests
      BY <1>3 DEF ToSet
    <2>2. \A m \in Manifests : m # h => m \notin gone
      BY <1>3, DigestAssumption DEF UnusedLayers
    <2> QED  BY <1>2, <1>3, <1>6, <2>1, <2>2
  <1> HIDE DEF gone
  <1>10. Stands(Spared(p), blobs')
    BY <1>2, <1>6, <1>8, StandsWithout
  <1>11. Spared(p)' = Spared(p)
    BY <1>6 DEF Spared
  <1>12. \A o \in Spared(p) :
           /\ Digests(o) \subseteq known \ {h}
           /\ Digests(o) \cap ({job[p].img} \cup ToSet(Tail(job[p].hist))) = {}
    BY <1>2, <1>3, <1>7
  <1>13. /\ \A o, q \in mem'[p].objs : o.id = q.id => o = q
         /\ Stands(Spared(p)', blobs')
         /\ \A o \in Spared(p)' :
              /\ Digests(o) \subseteq mem'[p].bydigest
              /\ Digests(o) \cap ({job'[p].img} \cup ToSet(job'[p].hist)) = {}
         /\ ToSet(job'[p].hist) \subseteq blobs'
         /\ IsInjective(job'[p].hist) /\ job'[p].img \in Manifests
    BY <1>2, <1>3, <1>6, <1>9, <1>10, <1>11, <1>12
  <1> QED  BY <1>5, <1>6, <1>13 DEF RmiAt

LEMMA RmiHeadQuiet ==
    ASSUME QuietUse, QuietInv, NEW p \in Procs, RmiHead(p)
    PROVE  RmiAt(p)'
  <1> DEFINE m     == job[p].img
             objs  == mem[p].objs
             known == mem[p].bydigest
             fade(o) == [o EXCEPT !.live = @ /\ o.pos # job[p].pos]
             gone  == {fade(o) : o \in objs}
  <1>1. /\ pc[p] = "history" /\ blobs' = blobs \ {m, ConfigOf[m]}
        /\ mem' = [mem EXCEPT ![p].objs = gone]
        /\ Save(p, Entries(gone)) /\ UNCHANGED cmd
    BY DEF RmiHead, DeleteFiles
  <1>2. /\ m \in Manifests
        /\ \A o, q \in objs : o.id = q.id => o = q
        /\ Stands(Spared(p), blobs)
        /\ \A o \in Spared(p) : Digests(o) \subseteq known /\ m \notin Digests(o)
    BY <1>1, QuietTypes DEF RmiAt
  <1>3. mem'[p].objs = gone /\ mem'[p].bydigest = known
    BY <1>1, QuietShapes DEF Memory
  <1>4. ASSUME NEW o \in objs
        PROVE  /\ fade(o).id = o.id
               /\ fade(o).live <=> o \in Spared(p)
               /\ o \in Spared(p) => fade(o) = o
    BY QuietObjects DEF Object, Spared, Live
  <1>5. Spared(p) \subseteq objs
    BY DEF Spared, Live
  <1> HIDE DEF objs, known, fade
  <1>6. Live(gone) = Spared(p)
    BY <1>4, <1>5 DEF Live
  <1>7. \A o, q \in gone : o.id = q.id => o = q
    BY <1>2, <1>4
  <1> HIDE DEF gone
  <1>8. ASSUME NEW o \in Spared(p), NEW d \in Digests(o)
        PROVE  BlobsOf(d) \cap {m, ConfigOf[m]} = {}
    <2>1. d \in Manifests /\ d \in blobs /\ d # m /\ d \in known
      BY <1>2, <1>5, QuietObjects, StandsOwner DEF objs
    <2> QED  BY <1>2, <2>1, QuietTypes, SparedFiles
  <1> HIDE DEF m
  <1>9. Stands(Spared(p), blobs')
    <2>1. \A o \in Spared(p) : \A d \in Digests(o) :
            BlobsOf(d) \cap {m, ConfigOf[m]} = {}
      BY <1>8
    <2> QED  BY <1>1, <1>2, <2>1, StandsWithout
  <1>10. Faithful(gone, known, blobs')
    BY <1>2, <1>6, <1>7, <1>9 DEF Faithful
  <1>11. Stands(Entries(gone), blobs')
    BY <1>6, <1>9, StandsEntries
  <1> QED  BY <1>1, <1>3, <1>10, <1>11, RmiSaves

\* rmi of an id: the image f of the id is erased, or falls back to the version
\* before, whose config is not the id it keeps in memory.
Erased(f) == [f EXCEPT !.live = FALSE]
Older(f) == [f EXCEPT !.digest = Last(f.history), !.history = Front(f.history)]

IdFilesGo(p, f) ==
    LET objs  == mem[p].objs
        known == mem[p].bydigest
        new(o, k) == /\ mem' = [mem EXCEPT ![p] =
                                  [objs |-> (objs \ {f}) \cup {o}, bydigest |-> k]]
                     /\ Save(p, Entries((objs \ {f}) \cup {o}))
    IN  /\ f \in Live(objs)
        /\ \/ /\ f.history = <<>> /\ new(Erased(f), known \ {f.digest})
              /\ DeleteFiles(UnusedLayers(f.digest, known \ {f.digest}, blobs)
                             \cup {f.digest, ConfigOf[f.digest]})
           \/ /\ f.history # <<>> /\ new(Older(f), known)
              /\ DeleteFiles({f.digest, ConfigOf[f.digest]})

LEMMA RmiIdQuietCases ==
    ASSUME QuietUse, QuietInv, NEW p \in Procs, NEW id, RmiId(p, id)
    PROVE  Skip(p) \/ \E f \in mem[p].objs : IdFilesGo(p, f)
  <1> DEFINE objs == mem[p].objs
             same == {q \in Live(objs) : q.id = id}
             bare == {q \in same : q.history = <<>>}
             dead == {[q EXCEPT !.live = FALSE] : q \in bare}
             back == {[q EXCEPT !.digest = Last(q.history),
                                !.history = Front(q.history)] :
                        q \in same \ bare}
             new  == (objs \ same) \cup dead \cup back
  <1>1. Faithful(objs, mem[p].bydigest, blobs)
    BY RmiReady DEF RmiId
  <1>2. SUFFICES ASSUME ~ Skip(p) PROVE \E f \in objs : IdFilesGo(p, f)
    OBVIOUS
  <1>3. PICK f \in same :
                LET m    == f.digest
                    rest == IF bare = {} THEN mem[p].bydigest
                            ELSE mem[p].bydigest \ {m}
                    free == IF bare = {} THEN {}
                            ELSE UnusedLayers(m, rest, blobs)
                IN  /\ DeleteFiles(free \cup {m, ConfigOf[m]})
                    /\ mem' = [mem EXCEPT ![p] = [objs |-> new,
                                                  bydigest |-> rest]]
                    /\ Save(p, Entries(new))
    BY <1>2 DEF RmiId
  <1>4. f \in Live(objs) /\ f \in objs /\ same = {f}
    BY <1>1 DEF Faithful, Live
  <1>5. CASE f.history = <<>>
    <2>1. bare = {f} /\ same \ bare = {}
      BY <1>4, <1>5
    <2>2. dead = {Erased(f)} /\ back = {}
      BY <2>1 DEF Erased
    <2> HIDE DEF dead, back
    <2>3. new = (objs \ {f}) \cup {Erased(f)}
      BY <1>4, <2>2
    <2> HIDE DEF new, same
    <2>4. IdFilesGo(p, f)
      BY <1>3, <1>4, <1>5, <2>1, <2>3 DEF IdFilesGo
    <2> QED  BY <1>4, <2>4
  <1>6. CASE f.history # <<>>
    <2>1. bare = {} /\ same \ bare = {f}
      BY <1>4, <1>6
    <2>2. dead = {} /\ back = {Older(f)}
      BY <2>1 DEF Older
    <2> HIDE DEF dead, back
    <2>3. new = (objs \ {f}) \cup {Older(f)}
      BY <1>4, <2>2
    <2> HIDE DEF new, same
    <2>4. IdFilesGo(p, f)
      BY <1>3, <1>4, <1>6, <2>1, <2>3 DEF IdFilesGo
    <2> QED  BY <1>4, <2>4
  <1> QED  BY <1>5, <1>6

LEMMA ObjectRetreats ==
    ASSUME QuietUse, QuietInv, NEW p \in Procs, NEW f \in Live(mem[p].objs),
           Faithful(mem[p].objs, mem[p].bydigest, blobs), f.history # <<>>,
           NEW new, new = (mem[p].objs \ {f}) \cup {Older(f)}
    PROVE  /\ Live(new) = (Live(mem[p].objs) \ {f}) \cup {Older(f)}
           /\ Digests(Older(f)) = ToSet(f.history)
           /\ Faithful(new, mem[p].bydigest, blobs)
  <1> DEFINE objs == mem[p].objs
             old  == Older(f)
             rest == Live(objs) \ {f}
  <1>1. /\ f \in objs /\ f \in Object /\ f.live /\ f.history \in Seq(Manifests)
    BY QuietObjects DEF Live
  <1>2. /\ old.digest = Last(f.history) /\ old.history = Front(f.history)
        /\ old.live /\ old.id = f.id
    BY <1>1 DEF Older, Object
  <1>3. /\ Stands(Live(objs), blobs) /\ Once(f)
        /\ ToSet(f.history) \subseteq Digests(f)
        /\ Digests(f) \subseteq mem[p].bydigest
        /\ \A d \in Digests(f) : BlobsOf(d) \subseteq blobs
        /\ \A q \in rest : Digests(q) \cap Digests(f) = {}
        /\ \A q, r \in objs : q.id = r.id => q = r
        /\ \A q \in rest : Digests(q) \subseteq mem[p].bydigest
    BY StandsOwner DEF Faithful
  <1>4. Once(old) /\ Digests(old) = ToSet(f.history)
    BY <1>1, <1>2, <1>3, InjectiveFront DEF Once, Digests
  <1> HIDE DEF objs, old
  <1>5. new = (objs \ {f}) \cup {old}
    BY DEF objs, old
  <1>6. Live(new) = rest \cup {old}
    BY <1>2, <1>5 DEF Live
  <1>7. Stands(rest, blobs)
    <2>1. rest \subseteq Live(objs)
      OBVIOUS
    <2> QED  BY <1>3, <2>1, StandsPart
  <1> HIDE DEF rest
  <1>8. Stands(rest \cup {old}, blobs)
    BY <1>3, <1>4, <1>7, StandsWith
  <1>9. \A q, r \in new : q.id = r.id => q = r
    BY <1>1, <1>2, <1>3, <1>5 DEF objs
  <1>10. \A q \in rest \cup {old} : Digests(q) \subseteq mem[p].bydigest
    BY <1>3, <1>4
  <1>11. Faithful(new, mem[p].bydigest, blobs)
    BY <1>6, <1>8, <1>9, <1>10 DEF Faithful
  <1> QED  BY <1>4, <1>6, <1>11 DEF objs, old, rest

\* Removing the manifest m leaves alone a copy that stands without it.
LEMMA FaithfulWithout ==
    ASSUME OneManifest, NEW objs, NEW known, Faithful(objs, known, blobs),
           NEW m \in Manifests, NEW gone, NEW left,
           gone \subseteq UnusedLayers(m, known \ {m}, blobs) \cup {m, ConfigOf[m]},
           known \ {m} \subseteq left,
           \A o \in Live(objs) : Digests(o) \subseteq Manifests /\ m \notin Digests(o)
    PROVE  Faithful(objs, left, blobs \ gone)
  <1>1. Stands(Live(objs), blobs)
    BY DEF Faithful
  <1>2. ASSUME NEW o \in Live(objs), NEW d \in Digests(o)
        PROVE  BlobsOf(d) \cap gone = {} /\ d \in left
    <2>1. d \in Manifests /\ d # m /\ d \in known /\ d \in blobs
      BY <1>1, StandsOwner DEF Faithful
    <2>2. BlobsOf(d) \cap (UnusedLayers(m, known \ {m}, blobs)
                           \cup {m, ConfigOf[m]}) = {}
      BY <2>1, SparedFiles
    <2> QED  BY <2>1, <2>2
  <1>3. Stands(Live(objs), blobs \ gone)
    BY <1>1, <1>2, StandsWithout
  <1> QED  BY <1>2, <1>3 DEF Faithful

LEMMA RmiIdQuiet ==
    ASSUME QuietUse, QuietInv, NEW p \in Procs, NEW id, RmiId(p, id)
    PROVE  RmiAt(p)'
  <1> DEFINE objs  == mem[p].objs
             known == mem[p].bydigest
  <1>1. /\ Running(p, "rmi") /\ cmd'[p].op = "rmi"
        /\ pc[p] = "ready" /\ Stands(index, blobs)
        /\ Faithful(objs, known, blobs)
    BY RmiReady, QuietShapes DEF RmiId
  <1>2. CASE Skip(p)
    BY <1>1, <1>2, RmiRests DEF Running
  <1>3. ASSUME NEW f \in objs, IdFilesGo(p, f) PROVE RmiAt(p)'
    <2> DEFINE m == f.digest
    <2>1. f \in Live(objs) /\ f \in Object /\ m \in Manifests
      BY <1>3, QuietObjects DEF IdFilesGo
    <2>2. ASSUME NEW o \in Live(objs), o # f
          PROVE  Digests(o) \subseteq Manifests /\ m \notin Digests(o)
      <3>1. o \in objs
        BY DEF Live
      <3>2. Digests(o) \cap Digests(f) = {} /\ m \in Digests(f)
        BY <1>1, <2>1, <2>2, StandsOwner DEF Faithful
      <3> QED  BY <3>1, <3>2, QuietObjects
    <2>3. PICK new, left, gone :
            /\ Faithful(new, known, blobs)
            /\ \A o \in Live(new) : Digests(o) \subseteq Manifests /\ m \notin Digests(o)
            /\ gone \subseteq UnusedLayers(m, known \ {m}, blobs) \cup {m, ConfigOf[m]}
            /\ known \ {m} \subseteq left
            /\ mem' = [mem EXCEPT ![p] = [objs |-> new, bydigest |-> left]]
            /\ Save(p, Entries(new)) /\ blobs' = blobs \ gone
      <3>1. CASE f.history = <<>>
        <4> DEFINE new == (objs \ {f}) \cup {Erased(f)}
        <4>1. Live(new) = Live(objs) \ {f} /\ Faithful(new, known, blobs)
          BY <1>1, <2>1, ObjectErased DEF Erased
        <4>2. /\ mem' = [mem EXCEPT ![p] = [objs |-> new, bydigest |-> known \ {m}]]
              /\ Save(p, Entries(new))
              /\ blobs' = blobs \ (UnusedLayers(m, known \ {m}, blobs)
                                   \cup {m, ConfigOf[m]})
          BY <1>3, <3>1 DEF IdFilesGo, DeleteFiles
        <4> HIDE DEF new
        <4>3. \A o \in Live(new) : Digests(o) \subseteq Manifests /\ m \notin Digests(o)
          BY <2>2, <4>1
        <4> HIDE DEF m, objs, known
        <4> QED  BY <4>1, <4>2, <4>3
      <3>2. CASE f.history # <<>>
        <4> DEFINE new == (objs \ {f}) \cup {Older(f)}
        <4>1. /\ Live(new) = (Live(objs) \ {f}) \cup {Older(f)}
              /\ Digests(Older(f)) = ToSet(f.history)
              /\ Faithful(new, known, blobs)
          BY <1>1, <2>1, <3>2, ObjectRetreats
        <4>2. /\ mem' = [mem EXCEPT ![p] = [objs |-> new, bydigest |-> known]]
              /\ Save(p, Entries(new))
              /\ blobs' = blobs \ {m, ConfigOf[m]}
          BY <1>3, <3>2 DEF IdFilesGo, DeleteFiles
        <4> HIDE DEF new
        <4>3. m \notin ToSet(f.history) /\ ToSet(f.history) \subseteq Manifests
          BY <1>1, <2>1, StandsOwner, QuietObjects DEF Faithful, Once
        <4>4. \A o \in Live(new) : Digests(o) \subseteq Manifests /\ m \notin Digests(o)
          BY <2>2, <4>1, <4>3
        <4> HIDE DEF m, objs, known
        <4> QED  BY <4>1, <4>2, <4>4
      <3> QED  BY <3>1, <3>2
    <2> HIDE DEF m, objs, known
    <2>4. Faithful(new, left, blobs')
      BY <2>1, <2>3, QuietTypes, FaithfulWithout
    <2>5. mem'[p].objs = new /\ mem'[p].bydigest = left
      BY <2>3, QuietShapes
    <2>6. Stands(Entries(new), blobs')
      BY <2>4, StandsEntries DEF Faithful
    <2> QED  BY <2>3, <2>4, <2>5, <2>6, RmiSaves
  <1> QED  BY <1>2, <1>3, RmiIdQuietCases

-----------------------------------------------------------------------------
(* Steps of rmi, and of the others.                                        *)

LEMMA QuietDeletes ==
    ASSUME QuietUse, QuietInv, NEW p \in Procs, Step(p), Deletes(p)
    PROVE  CleanInv' /\ cmd'[p].op = "rmi" /\ RmiAt(p)'
  <1>1. cmd[p].op = "rmi"
    BY QuietTypes DEF Deletes, RmiName, RmiId, RmiHistory, RmiHead, Running
  <1>2. /\ CleanInv /\ TypeInv /\ torn = {} /\ \A q \in Procs : q = p
        /\ SafeProc(CommandsOf[p], pc[p], cmd[p], job[p], staged,
                    blobs \cup Rewriting)
    BY <1>1, QuietTypes DEF CleanInv
  <1>3. /\ pc'[p] \in {"ready", "history", "truncate"}
        /\ cmd'[p].op = cmd[p].op /\ torn' \subseteq torn
        /\ RmiAt(p)'
    <2>1. ASSUME NEW ref, RmiName(p, ref) \/ RmiId(p, ref)
          PROVE  /\ pc'[p] \in {"ready", "history", "truncate"}
                 /\ cmd'[p].op = cmd[p].op /\ torn' \subseteq torn
                 /\ RmiAt(p)'
      <3>1. pc[p] = "ready" /\ TakeArg(p)
        BY <2>1 DEF RmiName, RmiId, Running
      <3>2. pc' = pc \/ Goto(p, "history") \/ Goto(p, "truncate")
        BY <2>1 DEF RmiName, RmiId, Skip, Save
      <3>3. torn' \subseteq torn
        BY <2>1 DEF RmiName, RmiId, Skip, DeleteFiles
      <3>4. RmiAt(p)'
        BY <2>1, RmiNameQuiet, RmiIdQuiet
      <3> QED  BY <3>1, <3>2, <3>3, <3>4, QuietShapes DEF Goto
    <2>2. CASE RmiHead(p)
      <3>1. /\ Goto(p, "truncate") /\ UNCHANGED cmd /\ torn' \subseteq torn
        BY <2>2 DEF RmiHead, Save, DeleteFiles
      <3>2. RmiAt(p)'
        BY <2>2, RmiHeadQuiet
      <3> QED  BY <3>1, <3>2, QuietShapes DEF Goto
    <2>3. CASE RmiHistory(p)
      <3>1. /\ pc[p] = "history" /\ UNCHANGED <<pc, cmd>> /\ torn' \subseteq torn
            /\ RmiAt(p)'
        BY <2>3, RmiHistoryQuiet DEF RmiHistory, TakesOne, DeleteFiles
      <3> QED  BY <3>1
    <2> QED  BY <2>1, <2>2, <2>3 DEF Deletes
  <1>4. SafeProc(CommandsOf[p], pc'[p], cmd'[p], job'[p], staged',
                 (blobs \cup Rewriting)')
    BY <1>1, <1>2, <1>3 DEF SafeProc, Uploading
  <1> QED  BY <1>1, <1>2, <1>3, <1>4, StepTypeInv DEF CleanInv

LEMMA QuietKept ==
    ASSUME QuietUse, QuietInv, NEW p \in Procs, Step(p), ~ Deletes(p)
    PROVE  Kept
  BY QuietTypes, StepKept

LEMMA QuietClean ==
    ASSUME QuietUse, QuietInv, NEW p \in Procs, Step(p)
    PROVE  CleanInv'
  <1>1. TypeInv'
    BY QuietTypes, StepTypeInv
  <1> QED  BY <1>1, QuietDeletes, QuietKept DEF Kept, CleanInv

\* A step begins a command, ends it, or goes on with it.
LEMMA CommandSteps ==
    ASSUME NEW p \in Procs, Step(p)
    PROVE  \/ UNCHANGED cmd \/ TakeArg(p) \/ End(p)
           \/ \E op \in AllCommands, n \in 0..MaxArgs : Open(p, op, n)
  <1> DEFINE Goes == UNCHANGED cmd \/ TakeArg(p) \/ End(p)
  <1>1. /\ Exit(p) \/ Crash(p) \/ Abandon(p) => Goes
        /\ OpenFails(p) \/ Truncate(p) \/ Write(p) => Goes
        /\ \A ref : RmiNameThrows(p, ref) \/ RmiIdThrows(p, ref)
                    \/ ConfigFails(p, ref) => Goes
    BY DEF Exit, Crash, Abandon, RmiNameThrows, RmiIdThrows, ConfigFails,
           OpenFails, Truncate, Write
  <1>2. \A ref, m : Tag(p, ref, m) \/ Build(p, ref, m) \/ Pull(p, ref, m)
                    \/ Config(p, ref, m) => Goes
    BY DEF Tag, Build, Pull, Config, StartUpload
  <1>3. /\ \A ref : RmiName(p, ref) \/ RmiId(p, ref) => Goes
        /\ RmiHistory(p) \/ RmiHead(p) => Goes
    BY DEF RmiName, RmiId, RmiHistory, RmiHead
  <1>4. FileStep(p) \/ FileGone(p) => Goes
    BY FileSteps
  <1>5. BuildRecord(p) \/ PullRecord(p) \/ ConfigRecord(p) => Goes
    BY DEF BuildRecord, PullRecord, ConfigRecord
  <1> HIDE DEF disk, vars, Goes
  <1>6. Goes \/ \E op \in AllCommands, n \in 0..MaxArgs : Open(p, op, n)
    BY <1>1, <1>2, <1>3, <1>4, <1>5 DEF Step, FileStep
  <1> QED  BY <1>6 DEF Goes

\* Records and objects over what is stored stay so under commands that remove
\* nothing.
LEMMA QuietStored ==
    ASSUME QuietUse, QuietInv, NEW p \in Procs, Step(p), cmd[p].op # "rmi"
    PROVE  Stored(Stable)'
  <1>1. PICK G \in SUBSET Manifests : G = Stable
    BY DEF Stable
  <1>2. PICK H \in SUBSET Manifests : H = Stable'
    BY DEF Stable
  <1>3. Kept
    <2>1. ~ Deletes(p)
      BY QuietTypes DEF Deletes, RmiName, RmiId, RmiHistory, RmiHead, Running
    <2> QED  BY <2>1, QuietKept
  <1>4. G \subseteq H
    BY <1>3, <1>1, <1>2 DEF Stable, Sound, Kept
  <1>5. TypeInv /\ Stored(G)
    BY <1>1, QuietTypes
  <1>6. ASSUME pc[p] = "upload", job[p].todo = {} PROVE job[p].img \in G
    BY <1>1, <1>6, QuietTypes, UploadedSound DEF Stable
  <1>7. Stored(G)'
    BY <1>5, <1>6, StepStored
  <1>8. Stored(H)'
    BY <1>4, <1>7, EntriesGrow DEF Stored
  <1> QED  BY <1>2, <1>8 DEF Stored

\* Records that stand are records over what is stored.
LEMMA StandsStored ==
    ASSUME NEW S \in SUBSET Entry, Stands(S, blobs)
    PROVE  S \subseteq EntryIn(Stable)
  <1> SUFFICES ASSUME NEW r \in S PROVE r \in EntryIn(Stable)
    OBVIOUS
  <1>1. /\ r.digest \in Digests(r) /\ ToSet(r.history) \subseteq Digests(r)
        /\ \A d \in Digests(r) : BlobsOf(d) \subseteq blobs
    BY StandsOwner
  <1>2. r.history \in Seq(Manifests) /\ r.digest \in Manifests
    BY DEF Entry
  <1>3. ToSet(r.history) \subseteq Manifests
    BY <1>2 DEF ToSet
  <1>4. {r.digest} \cup ToSet(r.history) \subseteq Stable
    BY <1>1, <1>2, <1>3 DEF Stable, Sound
  <1> HIDE DEF Stable
  <1>5. r.history \in Seq(Stable)
    <2>1. r.history \in [1..Len(r.history) -> Stable] /\ Len(r.history) \in Nat
      BY <1>2, <1>4 DEF ToSet
    <2> QED  BY <1>2, <2>1
  <1> QED  BY <1>4, <1>5 DEF Entry, EntryIn

LEMMA StoredStands ==
    ASSUME NEW S \in SUBSET EntryIn(Stable), Apart(S), Rewriting = {}
    PROVE  Stands(S, blobs)
  <1>1. ASSUME NEW r \in S, NEW d \in Digests(r) PROVE BlobsOf(d) \subseteq blobs
    <2>1. r.digest \in Stable /\ ToSet(r.history) \subseteq Stable
      <3>1. r.digest \in Stable /\ r.history \in Seq(Stable)
        BY DEF EntryIn
      <3> HIDE DEF Stable
      <3> QED  BY <3>1 DEF ToSet
    <2> QED  BY <2>1 DEF Digests, Stable, Sound
  <1> QED  BY <1>1 DEF Stands

\* A command that removes images loads an index that names nothing twice.
LEMMA QuietOpens ==
    ASSUME QuietUse, QuietInv, NEW p \in Procs, NEW n, Open(p, "rmi", n),
           cmd[p].op # "rmi", Unshared
    PROVE  RmiAt(p)'
  <1>1. /\ pc[p] = "idle" /\ UNCHANGED <<index, blobs>>
        /\ mem'[p] = LoadIndex(index)
        /\ pc'[p] \in {"ready", "truncate"}
        /\ pc'[p] = "truncate" => out'[p] = index
    BY QuietShapes DEF Open, Goto
  <1>2. Rewriting = {} /\ index \in SUBSET EntryIn(Stable)
    BY <1>1, QuietTypes DEF Stored
  <1>3. Stands(index, blobs)
    BY <1>2, StoredStands DEF Unshared
  <1>4. Faithful(mem'[p].objs, mem'[p].bydigest, blobs)
    BY <1>1, <1>3, QuietTypes, QuietShapes, StandsLoaded
  <1> QED  BY <1>1, <1>3, <1>4 DEF RmiAt

LEMMA QuietEnds ==
    ASSUME QuietUse, QuietInv, NEW p \in Procs, End(p), UNCHANGED disk,
           pc[p] = "ready", cmd[p].op = "rmi"
    PROVE  cmd'[p].op = "none" /\ Stored(Stable)'
  <1>1. /\ mem'[p].objs = {} /\ out'[p] = {} /\ cmd'[p].op = "none"
        /\ pc'[p] = "idle"
    BY QuietShapes DEF End, NoMem, NoCmd, Goto
  <1>2. /\ Rewriting = {} /\ Rewriting' = {} /\ Stands(index, blobs)
        /\ \A q \in Procs : q = p
    BY <1>1, QuietTypes DEF RmiAt
  <1>3. Stable' = Stable
    BY <1>2 DEF Stable, Sound
  <1>4. index \subseteq EntryIn(Stable)
    BY <1>2, QuietShapes, StandsStored
  <1> QED  BY <1>1, <1>2, <1>3, <1>4 DEF Stored

\* What is written stands where what was to be written does.
LEMMA StandsWritten ==
    ASSUME NEW S \in SUBSET Entry, NEW T \in Compact(S), NEW files,
           Stands(S, files)
    PROVE  Stands(T, files)
  <1>1. PICK f : T = {[r EXCEPT !.pos = f[r.pos]] : r \in S}
    BY DEF Compact
  <1>2. \A r \in S : /\ [r EXCEPT !.pos = f[r.pos]].digest = r.digest
                     /\ [r EXCEPT !.pos = f[r.pos]].history = r.history
    BY DEF Entry
  <1>3. \A r, q \in S : r.digest = q.digest => r = q
    BY StandsOwner
  <1>4. \A t \in T : \E r \in S :
          /\ t = [r EXCEPT !.pos = f[r.pos]]
          /\ t.digest = r.digest /\ t.history = r.history
    BY <1>1, <1>2
  <1>5. \A t, u \in T : t.digest = u.digest => t = u
    BY <1>3, <1>4
  <1> QED  BY <1>4, <1>5, StandsCopied

LEMMA RmiWrites ==
    ASSUME QuietUse, QuietInv, NEW p \in Procs, Truncate(p) \/ Write(p),
           cmd[p].op = "rmi"
    PROVE  RmiAt(p)'
  <1>1. /\ Stands(out[p], blobs) /\ UNCHANGED <<blobs, cmd, mem>>
        /\ Faithful(mem[p].objs, mem[p].bydigest, blobs)
    BY QuietTypes DEF Truncate, Write, RmiAt
  <1>2. CASE Truncate(p)
    <2>1. pc'[p] = "write" /\ UNCHANGED out
      BY <1>2, QuietShapes DEF Truncate, Goto
    <2> QED  BY <1>1, <2>1 DEF RmiAt
  <1>3. CASE Write(p)
    <2>1. pc'[p] = "ready" /\ index' \in Compact(out[p])
      BY <1>3, QuietShapes DEF Write, Goto
    <2>2. Stands(index', blobs)
      BY <1>1, <2>1, QuietShapes, StandsWritten
    <2> QED  BY <1>1, <2>1, <2>2 DEF RmiAt
  <1> QED  BY <1>2, <1>3

\* The other steps of rmi.
LEMMA RmiSteps ==
    ASSUME QuietUse, QuietInv, NEW p \in Procs, Step(p), ~ Deletes(p),
           cmd[p].op = "rmi"
    PROVE  \/ UNCHANGED vars \/ Truncate(p) \/ Write(p)
           \/ pc[p] = "ready" /\ End(p) /\ UNCHANGED disk
  <1>1. RmiAt(p) /\ pc[p] # "idle" /\ pc[p] \notin Uploading /\ ~ Crashes
    BY QuietTypes DEF QuietUse, RmiAt
  <1>2. /\ \A op, n : ~ Open(p, op, n)
        /\ ~ Crash(p) /\ ~ Abandon(p) /\ ~ FileGone(p) /\ ~ FileStep(p)
        /\ ~ BuildRecord(p) /\ ~ PullRecord(p) /\ ~ ConfigRecord(p)
    BY <1>1 DEF Open, Crash, Abandon, FileGone, FileStep, Fetch, LoseConfig,
                Stage, LoseBlob, Hash, KeepFile, Unlink, Rename, Renames, Tear,
                Truncates, Rewrite, BuildRecord, PullRecord, ConfigRecord,
                Uploaded, Uploading
  <1>3. \A ref, m : /\ ~ Tag(p, ref, m) /\ ~ Build(p, ref, m)
                    /\ ~ Pull(p, ref, m) /\ ~ Config(p, ref, m)
                    /\ ~ ConfigFails(p, ref)
    BY DEF Tag, Build, Pull, Config, ConfigFails, Running
  <1>4. /\ \A ref : ~ RmiName(p, ref) /\ ~ RmiId(p, ref)
        /\ ~ RmiHistory(p) /\ ~ RmiHead(p)
    BY DEF Deletes
  <1>5. ASSUME \/ Exit(p)
               \/ \E ref : RmiNameThrows(p, ref) \/ RmiIdThrows(p, ref)
        PROVE  pc[p] = "ready" /\ End(p) /\ UNCHANGED disk
    BY <1>5 DEF Exit, RmiNameThrows, RmiIdThrows, Running
  <1>6. OpenFails(p) => UNCHANGED vars
    BY DEF OpenFails
  <1> HIDE DEF disk, vars
  <1> QED  BY <1>2, <1>3, <1>4, <1>5, <1>6 DEF Step, FileStep

LEMMA StepQuiet ==
    ASSUME QuietUse, QuietInv, NEW p \in Procs, Step(p), Unshared
    PROVE  QuietAt(p)'
  <1>1. CASE cmd[p].op = "rmi" /\ Deletes(p)
    BY <1>1, QuietDeletes DEF QuietAt
  <1>2. CASE cmd[p].op = "rmi" /\ ~ Deletes(p)
    <2>1. CASE UNCHANGED vars
      BY <1>2, <2>1, QuietTypes DEF QuietAt, RmiAt, Spared
    <2>2. CASE Truncate(p) \/ Write(p)
      <3>1. UNCHANGED cmd
        BY <2>2 DEF Truncate, Write
      <3> QED  BY <1>2, <2>2, <3>1, RmiWrites DEF QuietAt
    <2>3. CASE pc[p] = "ready" /\ End(p) /\ UNCHANGED disk
      BY <1>2, <2>3, QuietEnds DEF QuietAt
    <2> QED  BY <1>2, <2>1, <2>2, <2>3, RmiSteps
  <1>3. CASE cmd[p].op # "rmi"
    <2>1. Stored(Stable)'
      BY <1>3, QuietStored
    <2>2. ASSUME cmd'[p].op = "rmi" PROVE RmiAt(p)'
      <3>1. PICK op, n : Open(p, op, n)
        <4>1. UNCHANGED cmd \/ TakeArg(p) => cmd'[p].op # "rmi"
          BY <1>3, QuietShapes
        <4>2. End(p) => cmd'[p].op # "rmi"
          BY QuietShapes DEF End, NoCmd
        <4> QED  BY <2>2, <4>1, <4>2, CommandSteps
      <3>2. op = "rmi"
        BY <2>2, <3>1, QuietShapes DEF Open
      <3> QED  BY <1>3, <3>1, <3>2, QuietOpens
    <2> QED  BY <2>1, <2>2 DEF QuietAt
  <1> QED  BY <1>1, <1>2, <1>3

LEMMA QuietStep ==
    ASSUME QuietUse, QuietInv, Unshared, [Next]_vars
    PROVE  QuietInv'
  <1>1. CASE UNCHANGED vars
    <2>1. Rewriting' = Rewriting
      BY <1>1 DEF Rewriting
    <2>2. CleanInv'
      BY <1>1, <2>1 DEF QuietInv, CleanInv, TypeInv, TypeOK, UploadOK
    <2>3. Stored(Stable) => Stored(Stable)'
      <3>1. Stable' = Stable
        BY <1>1, <2>1 DEF Stable, Sound
      <3> QED  BY <1>1, <3>1 DEF Stored
    <2>4. \A p \in Procs : RmiAt(p) => RmiAt(p)'
      BY <1>1 DEF RmiAt, Spared
    <2> QED  BY <1>1, <2>2, <2>3, <2>4 DEF QuietInv, QuietAt
  <1>2. ASSUME NEW p \in Procs, Step(p) PROVE QuietInv'
    <2>1. \A q \in Procs : q = p
      BY <1>2, QuietTypes
    <2>2. CleanInv' /\ QuietAt(p)'
      BY <1>2, QuietClean, StepQuiet
    <2> QED  BY <1>2, <2>1, <2>2 DEF QuietInv
  <1> QED  BY <1>1, <1>2 DEF Next

LEMMA InitQuiet == Init => QuietInv
  BY InitClean DEF Init, QuietInv, QuietAt, Stored, NoCmd, NoMem

LEMMA QuietIntact ==
    ASSUME QuietUse, QuietInv
    PROVE  StoreIntact
  <1> SUFFICES ASSUME AtRest, NEW r \in index, NEW m \in Digests(r)
               PROVE  BlobsOf(m) \subseteq blobs
    BY DEF StoreIntact
  <1>1. PICK p \in Procs : TRUE
    BY DEF QuietInv
  <1>2. pc[p] = "idle" /\ Rewriting = {} /\ Stored(Stable)
    BY QuietTypes DEF AtRest, RmiAt
  <1>3. r.digest \in Stable /\ r.history \in Seq(Stable)
    BY <1>2 DEF Stored, EntryIn
  <1> HIDE DEF Stable
  <1>4. m \in Stable
    BY <1>3 DEF Digests, ToSet
  <1> QED  BY <1>2, <1>4 DEF Stable, Sound

\* One command at a time, with nothing failing: build, pull, tag and config
\* may use every name again, and rmi may name several images, in any way.
\* As long as the index names no manifest twice, no manifest, config or
\* layer goes that it refers to, by digest or by history: a manifest that is
\* named twice is all that can cost an image its files (storage.cpp
\* ImageStore::Delete, copy.cpp Image, pull.cpp pullCmd).
THEOREM OnlySharingHurts ==
    ASSUME QuietUse
    PROVE  Spec => IntactUnlessShared
  <1>1. QuietInv /\ Unshared /\ [Next]_vars => QuietInv'
    BY QuietStep
  <1>2. QuietInv => StoreIntact
    BY QuietIntact
  <1> QED  BY <1>1, <1>2, InitQuiet, PTL DEF Spec, IntactUnlessShared

-----------------------------------------------------------------------------
(* Builds of new images under new or old names, and rmi.                   *)

\* No tag, pull or config, so that no manifest and no config has two records.
RebuildUse ==
    /\ QuietUse /\ FreshBuilds
    /\ \A p \in Procs : CommandsOf[p] \subseteq {"build", "rmi", "images"}

ApartAt(p) ==
    /\ Apart(index)
    /\ pc[p] \in {"truncate", "write"} => Apart(out[p])
    /\ pc[p] \in Uploading => \A r \in index : job[p].img \notin Digests(r)

RebuildInv == QuietInv /\ \A p \in Procs : ApartAt(p)

LEMMA RebuildTypes ==
    ASSUME RebuildUse, RebuildInv, NEW p \in Procs
    PROVE  /\ QuietUse /\ QuietInv /\ FreshBuilds /\ ApartAt(p) /\ Unshared
           /\ cmd[p].op \in {"build", "rmi", "images", "none"}
           /\ Rewriting = {}
  <1>1. QuietUse /\ QuietInv /\ FreshBuilds /\ ApartAt(p)
    BY DEF RebuildUse, RebuildInv
  <1>2. /\ CommandsOf[p] \subseteq {"build", "rmi", "images"}
        /\ cmd[p].op \in CommandsOf[p] \cup {"none"}
        /\ pc[p] = "rewrite" => cmd[p].op \in {"pull", "config"}
    BY <1>1 DEF RebuildUse, QuietInv, CleanInv, SafeProc
  <1>3. pc[p] # "rewrite" /\ cmd[p].op \in {"build", "rmi", "images", "none"}
    BY <1>2
  <1> QED  BY <1>1, <1>3, QuietTypes DEF ApartAt, Unshared

\* What a command that does not remove images finds, and is about to write.
LEMMA RebuildStands ==
    ASSUME RebuildUse, RebuildInv, NEW p \in Procs
    PROVE  /\ cmd[p].op # "rmi" => Stands(index, blobs)
           /\ pc[p] \in {"truncate", "write"} => Stands(out[p], blobs)
  <1>1. /\ Apart(index) /\ Rewriting = {}
        /\ pc[p] \in {"truncate", "write"} => Apart(out[p])
    BY RebuildTypes DEF ApartAt
  <1>2. CASE cmd[p].op = "rmi"
    BY <1>2, RebuildTypes, QuietTypes DEF RmiAt
  <1>3. CASE cmd[p].op # "rmi"
    <2>1. index \subseteq EntryIn(Stable) /\ out[p] \subseteq EntryIn(Stable)
      BY <1>3, RebuildTypes, QuietTypes DEF Stored
    <2> HIDE DEF Stable
    <2> QED  BY <1>1, <1>3, <2>1, StoredStands
  <1> QED  BY <1>2, <1>3

\* A step that leaves the index as it is and uploads nothing.
LEMMA ApartStays ==
    ASSUME RebuildUse, RebuildInv, NEW p \in Procs, UNCHANGED index,
           pc'[p] \in {"idle", "ready", "history", "truncate"},
           pc'[p] = "truncate" => Apart(out'[p])
    PROVE  ApartAt(p)'
  BY RebuildTypes DEF ApartAt, Uploading

LEMMA ApartDeletes ==
    ASSUME RebuildUse, RebuildInv, NEW p \in Procs, Step(p), Deletes(p)
    PROVE  ApartAt(p)'
  <1>1. UNCHANGED index
    BY RebuildTypes, RmiHistoryQuiet
       DEF Deletes, RmiName, RmiId, RmiHead, Skip, TakesOne
  <1>2. RmiAt(p)' /\ cmd'[p].op = "rmi" /\ CleanInv'
    BY RebuildTypes, QuietDeletes
  <1>3. pc'[p] \in PCs /\ pc'[p] \notin Uploading
    BY <1>2 DEF CleanInv, TypeInv, TypeOK, UploadOK, UploadFits, Staging
  <1>4. pc'[p] \in {"truncate", "write"} => Apart(out'[p])
    BY <1>2 DEF RmiAt, Stands
  <1> QED  BY <1>1, <1>3, <1>4, RebuildTypes DEF ApartAt

LEMMA ApartWrites ==
    ASSUME RebuildUse, RebuildInv, NEW p \in Procs, Truncate(p) \/ Write(p)
    PROVE  ApartAt(p)'
  <1>1. Stands(out[p], blobs) /\ Apart(out[p])
    BY RebuildStands DEF Truncate, Write, Stands
  <1>2. CASE Truncate(p)
    <2>1. pc'[p] = "write" /\ UNCHANGED out /\ index' = {}
      BY <1>2, RebuildTypes, QuietShapes DEF Truncate, Goto
    <2> QED  BY <1>1, <2>1 DEF ApartAt, Apart, Uploading
  <1>3. CASE Write(p)
    <2>1. pc'[p] = "ready" /\ index' \in Compact(out[p])
      BY <1>3, RebuildTypes, QuietShapes DEF Write, Goto
    <2>2. Stands(index', blobs)
      BY <1>1, <2>1, RebuildTypes, QuietShapes, StandsWritten
    <2> QED  BY <2>1, <2>2 DEF ApartAt, Stands, Uploading
  <1> QED  BY <1>2, <1>3

\* A build starts over a manifest that no record names.
LEMMA ApartStart ==
    ASSUME RebuildUse, RebuildInv, NEW p \in Procs, NEW name, NEW m,
           Build(p, name, m)
    PROVE  ApartAt(p)'
  <1>1. StartUpload(p, name, m, BlobsOf(m)) /\ m \notin Known
    BY RebuildTypes DEF Build
  <1>2. pc'[p] = "upload" /\ job'[p].img = m /\ UNCHANGED index
    BY <1>1, RebuildTypes, QuietShapes DEF StartUpload, Goto, NoJob
  <1>3. \A r \in index : m \notin Digests(r)
    BY <1>1 DEF Known
  <1> QED  BY <1>2, <1>3, RebuildTypes DEF ApartAt

LEMMA ApartFile ==
    ASSUME RebuildUse, RebuildInv, NEW p \in Procs, FileStep(p)
    PROVE  ApartAt(p)'
  <1>1. pc[p] \in Uploading
    BY DEF FileStep, Fetch, LoseConfig, Stage, LoseBlob, Hash,
           KeepFile, Unlink, Rename, Renames, Tear, Truncates, Rewrite, Uploading
  <1>2. CleanUse /\ CleanInv /\ TypeInv
    BY RebuildTypes, QuietTypes
  <1>3. UNCHANGED index /\ pc'[p] \in Uploading
    BY <1>2, RebuildTypes, QuietShapes, FileSteps, FileControl
  <1>4. job'[p].img = job[p].img
    BY <1>1, <1>2, FileAdds
  <1> QED  BY <1>1, <1>3, <1>4, RebuildTypes DEF ApartAt, Uploading

\* build writes a new record, or moves the one of the name to the new manifest
\* and puts the old one into its history.
LEMMA RebuildRecord ==
    ASSUME RebuildUse, RebuildInv, NEW p \in Procs, BuildRecord(p)
    PROVE  ApartAt(p)'
  <1> DEFINE m == job[p].img
  <1>1. /\ pc[p] = "upload" /\ job[p].todo = {} /\ cmd[p].op = "build"
        /\ UNCHANGED <<index, blobs, cmd>>
    BY DEF BuildRecord, Uploaded
  <1>2. "upload" \in Uploading
    BY DEF Uploading
  <1>3. /\ Stands(index, blobs) /\ \A r \in index : m \notin Digests(r)
        /\ m \in Manifests /\ BlobsOf(m) \subseteq blobs
    <2>1. QuietUse /\ QuietInv /\ ApartAt(p) /\ Rewriting = {}
      BY RebuildTypes
    <2>2. CleanUse /\ CleanInv
      BY <2>1, QuietTypes
    <2> QED
      BY <1>1, <1>2, <2>1, <2>2, RebuildStands, UploadedSound DEF ApartAt, Sound
  <1>4. PICK n, name, rest, h :
          /\ Save(p, rest \cup {[pos |-> n, name |-> name, digest |-> m,
                                 history |-> h]})
          /\ \/ rest = index /\ h = <<>>
             \/ \E r \in index : rest = index \ {r} /\ h = Append(r.history, r.digest)
    <2> DEFINE Put(rest, h) ==
                 \E n, name : Save(p, rest \cup {[pos |-> n, name |-> name,
                                                 digest |-> m, history |-> h]})
    <2>1. \/ Put(index, <<>>)
          \/ \E r \in index : Put(index \ {r}, Append(r.history, r.digest))
      <3>1. CASE \E r \in index :
                   \E n \in EndPos(index \ {r}) :
                     Save(p, (index \ {r}) \cup
                             {[pos |-> n, name |-> job[p].ref, digest |-> m,
                               history |-> Append(r.history, r.digest)]})
        BY <3>1
      <3>2. CASE \E n \in EndPos(index) :
                   Save(p, index \cup {[pos |-> n, name |-> job[p].ref,
                                        digest |-> m, history |-> <<>>]})
        BY <3>2
      <3> QED  BY <3>1, <3>2 DEF BuildRecord
    <2> HIDE DEF m
    <2>2. CASE Put(index, <<>>)
      BY <2>2
    <2>3. ASSUME NEW r \in index, Put(index \ {r}, Append(r.history, r.digest))
          PROVE  \E n, name, rest, h :
                   /\ Save(p, rest \cup {[pos |-> n, name |-> name, digest |-> m,
                                          history |-> h]})
                   /\ \/ rest = index /\ h = <<>>
                      \/ \E q \in index : rest = index \ {q}
                                          /\ h = Append(q.history, q.digest)
      <3>1. PICK n, name :
              Save(p, (index \ {r}) \cup
                      {[pos |-> n, name |-> name, digest |-> m,
                        history |-> Append(r.history, r.digest)]})
        BY <2>3
      <3> WITNESS n, name, index \ {r}, Append(r.history, r.digest)
      <3> QED  BY <3>1
    <2> QED  BY <2>1, <2>2, <2>3
  <1> DEFINE e == [pos |-> n, name |-> name, digest |-> m, history |-> h]
  <1> HIDE DEF m
  <1>5. e.digest = m /\ e.history = h
    OBVIOUS
  <1>6. /\ Once(e) /\ \A d \in Digests(e) : BlobsOf(d) \subseteq blobs
        /\ \A q \in rest : Digests(q) \cap Digests(e) = {}
        /\ rest \subseteq index
    <2> HIDE DEF e
    <2>1. CASE rest = index /\ h = <<>>
      <3>1. ToSet(h) = {} /\ IsInjective(h)
        BY <2>1 DEF ToSet, IsInjective
      <3>2. Once(e) /\ Digests(e) = {m}
        BY <1>5, <3>1 DEF Once, Digests
      <3> QED  BY <1>3, <2>1, <3>2
    <2>2. ASSUME NEW r \in index, rest = index \ {r},
                 h = Append(r.history, r.digest)
          PROVE  /\ Once(e) /\ \A d \in Digests(e) : BlobsOf(d) \subseteq blobs
                 /\ \A q \in rest : Digests(q) \cap Digests(e) = {}
                 /\ rest \subseteq index
      <3>1. r.history \in Seq(Manifests) /\ r.digest \in Manifests
        BY RebuildTypes, QuietShapes DEF Entry
      <3>2. Once(r)
        BY <1>3, StandsOwner
      <3>3. IsInjective(h) /\ ToSet(h) = Digests(r)
        BY <2>2, <3>1, <3>2, InjectiveAppend DEF Once, Digests
      <3>4. Once(e) /\ Digests(e) = {m} \cup Digests(r)
        BY <1>3, <1>5, <3>3 DEF Once, Digests
      <3>5. \A q \in rest : Digests(q) \cap Digests(r) = {}
        BY <1>3, <2>2, StandsOwner
      <3>6. \A d \in Digests(r) : BlobsOf(d) \subseteq blobs
        BY <1>3, StandsOwner
      <3> QED  BY <1>3, <2>2, <3>4, <3>5, <3>6
    <2> QED  BY <1>4, <2>1, <2>2
  <1>7. Save(p, rest \cup {e})
    BY <1>4
  <1> HIDE DEF e
  <1>8. Stands(rest, blobs)
    BY <1>3, <1>6, StandsPart
  <1>9. Stands(rest \cup {e}, blobs)
    BY <1>6, <1>8, StandsWith
  <1>10. pc'[p] = "truncate" /\ out'[p] = rest \cup {e}
    BY <1>7, RebuildTypes, QuietShapes DEF Save, Goto
  <1> QED  BY <1>1, <1>9, <1>10, ApartStays DEF Stands

-----------------------------------------------------------------------------
(* All steps.                                                              *)

LEMMA ApartNotTaken ==
    ASSUME RebuildUse, RebuildInv, NEW p \in Procs
    PROVE  /\ ~ Crash(p) /\ ~ Abandon(p) /\ ~ FileGone(p)
           /\ \A ref, m : /\ ~ Tag(p, ref, m) /\ ~ Pull(p, ref, m)
                          /\ ~ Config(p, ref, m) /\ ~ ConfigFails(p, ref)
           /\ ~ PullRecord(p) /\ ~ ConfigRecord(p)
  <1>1. /\ cmd[p].op \notin {"tag", "pull", "config"}
        /\ ~ Crashes /\ ~ WriteErrors /\ ~ LossyRegistry
    BY RebuildTypes DEF QuietUse
  <1>2. ~ FileGone(p)
    BY RebuildTypes, QuietTypes, NoLoss
  <1> QED
    BY <1>1, <1>2 DEF Crash, Abandon, Tag, Pull, Config, ConfigFails, Running,
                      PullRecord, ConfigRecord, Uploaded

LEMMA StepApart ==
    ASSUME RebuildUse, RebuildInv, NEW p \in Procs, Step(p)
    PROVE  ApartAt(p)'
  <1>1. CASE OpenFails(p)
    BY <1>1, RebuildTypes DEF OpenFails, ApartAt
  <1>2. ASSUME \/ Exit(p)
               \/ \E ref : RmiNameThrows(p, ref) \/ RmiIdThrows(p, ref)
        PROVE  ApartAt(p)'
    <2>1. End(p) /\ UNCHANGED disk
      BY <1>2 DEF Exit, RmiNameThrows, RmiIdThrows
    <2>2. pc'[p] = "idle"
      BY <2>1, RebuildTypes, QuietShapes DEF End, Goto
    <2> QED  BY <2>1, <2>2, ApartStays
  <1>3. ASSUME NEW op, NEW n, Open(p, op, n) PROVE ApartAt(p)'
    <2>1. /\ UNCHANGED index /\ pc'[p] \in {"ready", "truncate"}
          /\ pc'[p] = "truncate" => out'[p] = index
      BY <1>3, RebuildTypes, QuietShapes DEF Open, Goto
    <2> QED  BY <2>1, RebuildTypes, ApartStays DEF ApartAt
  <1>4. ASSUME Truncate(p) \/ Write(p) PROVE ApartAt(p)'
    BY <1>4, ApartWrites
  <1>5. ASSUME Deletes(p) PROVE ApartAt(p)'
    BY <1>5, ApartDeletes
  <1>6. ASSUME NEW name, NEW m, Build(p, name, m) PROVE ApartAt(p)'
    BY <1>6, ApartStart
  <1>7. CASE FileStep(p)
    BY <1>7, ApartFile
  <1>8. CASE BuildRecord(p)
    BY <1>8, RebuildRecord
  <1> HIDE DEF disk, vars
  <1> QED
    BY <1>1, <1>2, <1>3, <1>4, <1>5, <1>6, <1>7, <1>8, ApartNotTaken
       DEF Step, FileStep, Deletes

\* One command at a time, with nothing failing and every build a new image:
\* however often a name is built again and images are removed, the index
\* never names a manifest twice (copy.cpp Image moves the digest a name had
\* into its history and replaces the record; ImageStore::Delete takes a
\* digest out of the record it belongs to).
THEOREM RebuildsUnshared ==
    ASSUME RebuildUse
    PROVE  Spec => []Unshared
  <1>1. Init => RebuildInv
    <2> SUFFICES ASSUME Init PROVE RebuildInv
      OBVIOUS
    <2>1. \A p \in Procs : ApartAt(p)
      BY DEF Init, ApartAt, Uploading, Apart
    <2> QED  BY <2>1, InitQuiet DEF RebuildInv
  <1>2. RebuildInv /\ [Next]_vars => RebuildInv'
    <2> SUFFICES ASSUME RebuildInv, [Next]_vars PROVE RebuildInv'
      OBVIOUS
    <2>1. Unshared
      BY RebuildTypes DEF RebuildInv, QuietInv, Unshared, Apart
    <2>2. QuietInv'
      BY <2>1, QuietStep DEF RebuildInv, RebuildUse
    <2>3. CASE UNCHANGED vars
      BY <2>2, <2>3 DEF RebuildInv, ApartAt
    <2>4. ASSUME NEW p \in Procs, Step(p) PROVE RebuildInv'
      <3>1. \A q \in Procs : q = p
        BY <2>4, RebuildTypes, QuietTypes
      <3> QED  BY <2>2, <2>4, <3>1, StepApart DEF RebuildInv
    <2> QED  BY <2>3, <2>4 DEF Next
  <1>3. RebuildInv => Unshared
    BY RebuildTypes DEF RebuildInv, QuietInv, Unshared, Apart
  <1> QED  BY <1>1, <1>2, <1>3, PTL DEF Spec

\* One command at a time, with nothing failing and every build a new image:
\* however often a name is built again and images are removed by name, by
\* short name or by id, in any order and with any number of arguments, no
\* manifest, config or layer goes that the index still refers to, by digest
\* or by history (storage.cpp ImageStore::Delete walks the history of the
\* image and keeps the layers that another manifest in bydigest names;
\* copy.cpp Image moves the digest a name had into its history).
THEOREM RebuiltStoreIntact ==
    ASSUME RebuildUse
    PROVE  Spec => []StoreIntact
  <1>1. Spec => []Unshared
    BY RebuildsUnshared
  <1>2. Spec => IntactUnlessShared
    BY OnlySharingHurts DEF RebuildUse
  <1> QED  BY <1>1, <1>2, PTL DEF IntactUnlessShared
=============================================================================
