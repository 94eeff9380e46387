----------------------------- MODULE LayerProofs -----------------------------
(***************************************************************************)
(* The types of the layer store hold whatever is pulled and built.         *)
(*                                                                         *)
(* What layers.json lists is unpacked, whatever pulls and builds run at    *)
(* the same time, wherever they die and however often a build repeats an   *)
(* attempt, when the layers are made by ocibuilder, the blobs pull fetches *)
(* are whole, no build makes a layer that is also pulled and no layer is   *)
(* pulled over itself; the image a build then makes is its base with the   *)
(* working layer on top, unless the process did not know a layer of the    *)
(* base.  Both properties of a new image, that its layers are there and    *)
(* that they are those of its base, are also shown for one command at a    *)
(* time over layers made elsewhere, pulled as often as one likes.          *)
(***************************************************************************)
EXTENDS LayerStore, TLAPS

USE DEF vars, Ids, Exists

-----------------------------------------------------------------------------
(* Types.                                                                  *)

JobFits(s, j) ==
    /\ s \in {"unpack", "files"} => j.todo # <<>>
    /\ s = "move" => /\ j.tar \in Layers
                     /\ j.todo = <<>> => j.work # Nothing

TypeInv == LayerTypeOK /\ \A q \in Procs : JobFits(pc[q], job[q])

LEMMA InvTypes ==
    ASSUME TypeInv, NEW p \in Procs
    PROVE  /\ layersjson \subseteq Ids
           /\ dirs \in [Ids -> Layers \cup {Nothing}]
           /\ writer \in [Ids -> Procs \cup {Nothing}]
           /\ images \subseteq Seq(Layers)
           /\ pc[p] \in PCs /\ mem[p] \in SUBSET Object /\ job[p] \in Job
           /\ JobFits(pc[p], job[p])
           /\ pc' = pc => pc' = [pc EXCEPT ![p] = pc[p]]
           /\ mem' = mem => mem' = [mem EXCEPT ![p] = mem[p]]
           /\ job' = job => job' = [job EXCEPT ![p] = job[p]]
           /\ Nothing \notin Layers /\ Nothing \notin Working
           /\ Nothing \notin Procs /\ Layers \cap Working = {}
           /\ Partial \in Layers /\ Contents \subseteq Layers
           /\ Repack \in [Layers -> Layers] /\ MaxRetry \in Nat
  BY LayerAssumption DEF TypeInv, LayerTypeOK

\* It is enough that a step of p keeps the types of what it writes.
LEMMA TypeFrame ==
    ASSUME TypeInv, NEW p \in Procs,
           layersjson' \subseteq Ids,
           dirs' \in [Ids -> Layers \cup {Nothing}],
           writer' \in [Ids -> Procs \cup {Nothing}],
           images' \subseteq Seq(Layers),
           NEW s \in PCs, pc' = [pc EXCEPT ![p] = s],
           NEW m \in SUBSET Object, mem' = [mem EXCEPT ![p] = m],
           NEW j \in Job, job' = [job EXCEPT ![p] = j],
           JobFits(s, j)
    PROVE  TypeInv'
  <1>1. LayerTypeOK'
    BY DEF TypeInv, LayerTypeOK
  <1>2. ASSUME NEW q \in Procs PROVE JobFits(pc[q], job[q])'
    BY DEF TypeInv, LayerTypeOK, JobFits
  <1> QED  BY <1>1, <1>2 DEF TypeInv

LEMMA BasesKept ==
    ASSUME NEW I, NEW J, I \subseteq J
    PROVE  Bases(I) \subseteq J
  BY DEF Bases

\* A job starts with what it has to do, and starts again with the same.
LEMMA NewJobs ==
    ASSUME NEW op \in {"none", "pull", "build"}, NEW image \in Seq(Layers),
           NEW work \in Working \cup {Nothing},
           NEW new \in Layers \cup {Nothing}, NEW known \in BOOLEAN
    PROVE  NewJob(op, image, work, new, known) \in Job
  BY LayerAssumption DEF NewJob, Job

LEMMA RestartedJob ==
    ASSUME NEW j \in Job, j.tries < MaxRetry
    PROVE  Restarted(j) \in Job
  <1>1. /\ j.tries \in 0..MaxRetry /\ j.tries + 1 \in 0..MaxRetry
        /\ <<>> \in Seq(Layers)
    BY LayerAssumption DEF Job
  <1> QED  BY <1>1 DEF Restarted, Job

\* What is left after the layer at hand.
LEMMA RestOfJob ==
    ASSUME NEW j \in Job
    PROVE  /\ Rest(j) \in Job
           /\ Rest(j).work = IF j.todo = <<>> THEN Nothing ELSE j.work
           /\ Rest(j).op = j.op /\ Rest(j).new = j.new /\ Rest(j).tar = j.tar
           /\ Rest(j).base = j.base /\ Rest(j).own = j.own
           /\ Rest(j).known = j.known /\ Rest(j).tries = j.tries
           /\ Rest(j).result = j.result
           /\ Rest(j).todo = IF j.todo = <<>> THEN <<>> ELSE Tail(j.todo)
  <1>1. CASE j.todo = <<>>
    BY <1>1 DEF Rest, Job
  <1>2. CASE j.todo # <<>>
    <2>1. Tail(j.todo) \in Seq(Layers)
      BY <1>2 DEF Job
    <2> QED  BY <1>2, <2>1 DEF Rest, Job
  <1> QED  BY <1>1, <1>2

\* The same with the tar of the layer at hand in the result.
LEMMA PackedJob ==
    ASSUME NEW j \in Job, NEW tar \in Layers
    PROVE  /\ Packed(j, tar) \in Job
           /\ Packed(j, tar).work = IF j.todo = <<>> THEN Nothing ELSE j.work
           /\ Packed(j, tar).op = j.op /\ Packed(j, tar).new = j.new
           /\ Packed(j, tar).base = j.base /\ Packed(j, tar).own = j.own
           /\ Packed(j, tar).known = j.known /\ Packed(j, tar).tries = j.tries
           /\ Packed(j, tar).result = Append(j.result, tar)
           /\ Packed(j, tar).todo =
                IF j.todo = <<>> THEN <<>> ELSE Tail(j.todo)
  <1> PICK rest : rest = Rest(j)
    OBVIOUS
  <1>1. /\ rest \in Job
        /\ rest.work = IF j.todo = <<>> THEN Nothing ELSE j.work
        /\ rest.op = j.op /\ rest.new = j.new /\ rest.tar = j.tar
        /\ rest.base = j.base /\ rest.own = j.own
        /\ rest.known = j.known /\ rest.tries = j.tries
        /\ rest.result = j.result
        /\ rest.todo = IF j.todo = <<>> THEN <<>> ELSE Tail(j.todo)
    BY RestOfJob
  <1>2. Append(rest.result, tar) \in Seq(Layers)
    BY <1>1 DEF Job
  <1>3. Packed(j, tar) = [rest EXCEPT !.tar = Nothing,
                                      !.result = Append(rest.result, tar)]
    BY DEF Packed
  <1> PICK q : q = [rest EXCEPT !.tar = Nothing,
                                !.result = Append(rest.result, tar)]
    OBVIOUS
  <1>4. /\ q \in Job /\ q.work = rest.work /\ q.op = rest.op
        /\ q.new = rest.new /\ q.base = rest.base /\ q.own = rest.own
        /\ q.known = rest.known /\ q.tries = rest.tries
        /\ q.result = Append(rest.result, tar) /\ q.todo = rest.todo
    BY <1>1, <1>2 DEF Job
  <1> QED  BY <1>1, <1>3, <1>4

LEMMA TypeEnd ==
    ASSUME TypeInv, NEW p \in Procs, End(p), UNCHANGED <<layersjson, dirs>>,
           writer' \in [Ids -> Procs \cup {Nothing}],
           images' \subseteq Seq(Layers)
    PROVE  TypeInv'
  <1>1. NoJob \in Job
    <2>1. <<>> \in Seq(Layers)
      OBVIOUS
    <2> QED  BY <2>1, NewJobs DEF NoJob
  <1>2. JobFits("idle", NoJob) /\ "idle" \in PCs
    BY DEF NoJob, NewJob, JobFits, PCs
  <1>3. /\ pc' = [pc EXCEPT ![p] = "idle"] /\ mem' = [mem EXCEPT ![p] = {}]
        /\ job' = [job EXCEPT ![p] = NoJob]
    BY DEF End, Goto
  <1>4. layersjson' \subseteq Ids /\ dirs' \in [Ids -> Layers \cup {Nothing}]
    BY InvTypes
  <1> PICK m \in SUBSET Object : m = {}
    OBVIOUS
  <1>5. mem' = [mem EXCEPT ![p] = m]
    BY <1>3
  <1> QED  BY <1>1, <1>2, <1>3, <1>4, <1>5, TypeFrame

LEMMA TypeAgain ==
    ASSUME TypeInv, NEW p \in Procs, NEW threw \in BOOLEAN, Again(p, threw),
           UNCHANGED <<layersjson, dirs, writer>>,
           images' \subseteq Seq(Layers)
    PROVE  TypeInv'
  <1>1. CASE End(p)
    BY <1>1, TypeEnd, InvTypes
  <1>2. ASSUME job[p].tries < MaxRetry, Goto(p, "layer"), UNCHANGED mem,
               job' = [job EXCEPT ![p] = Restarted(@)]
        PROVE  TypeInv'
    <2> PICK j : j = Restarted(job[p])
      OBVIOUS
    <2>1. j \in Job
      BY <1>2, InvTypes, RestartedJob
    <2>2. "layer" \in PCs /\ JobFits("layer", j)
      BY DEF PCs, JobFits
    <2>3. pc' = [pc EXCEPT ![p] = "layer"] /\ job' = [job EXCEPT ![p] = j]
      BY <1>2 DEF Goto
    <2> QED  BY <1>2, <2>1, <2>2, <2>3, InvTypes, TypeFrame
  <1> QED  BY <1>1, <1>2 DEF Again

\* The layer at hand has an id, and what is left after it is a job.
LEMMA AtHand ==
    ASSUME TypeInv, NEW p \in Procs
    PROVE  /\ job[p].todo # <<>> => Current(p) \in Layers
           /\ Current(p) \in Ids \cup {Nothing}
           /\ pc[p] \in {"unpack", "files"} => Current(p) \in Layers
           /\ pc[p] = "move" => Current(p) \in Ids /\ job[p].tar \in Layers
  <1>1. job[p].todo # <<>> => Current(p) \in Layers
    BY InvTypes DEF Job, Current
  <1> QED  BY <1>1, InvTypes DEF Job, JobFits, Current

LEMMA RenamedObjects ==
    ASSUME NEW objs \in SUBSET Object, NEW layer, NEW tar \in Layers
    PROVE  Renamed(objs, layer, tar) \in SUBSET Object
  <1>1. ASSUME NEW o \in Object PROVE [o EXCEPT !.id = tar] \in Object
    BY DEF Object
  <1> QED  BY <1>1 DEF Renamed

\* What is in the list after deleteLayer was in it before, with the same id
\* and the same key, or with none where the key is the id of a layer found
\* under the digest.
LEMMA DeletedObjects ==
    ASSUME NEW objs \in SUBSET Object, NEW tar \in Layers
    PROVE  /\ Deleted(objs, tar) \in SUBSET Object
           /\ \A o \in Deleted(objs, tar) : \E q \in objs :
                 /\ o.id = q.id
                 /\ \/ o.key = q.key
                    \/ /\ o.key = Nothing
                       /\ \E x \in objs : x.key = tar /\ q.key = x.id
  <1>1. CASE Deleted(objs, tar) = objs
    BY <1>1
  <1>2. CASE Deleted(objs, tar) # objs
    <2> DEFINE found == {o.id : o \in {x \in objs : x.key = tar}}
    <2>1. \A o \in Deleted(objs, tar) : \E q \in objs :
             o = [q EXCEPT !.key = IF @ \in found THEN Nothing ELSE @,
                           !.listed = @ /\ q.id # tar]
      BY <1>2 DEF Deleted
    <2>2. \A id \in found : \E x \in objs : x.key = tar /\ id = x.id
      OBVIOUS
    <2> HIDE DEF found
    <2>3. ASSUME NEW o \in Deleted(objs, tar)
          PROVE  /\ o \in Object
                 /\ \E q \in objs :
                      /\ o.id = q.id
                      /\ \/ o.key = q.key
                         \/ /\ o.key = Nothing
                            /\ \E x \in objs : x.key = tar /\ q.key = x.id
      <3> PICK q \in objs :
             o = [q EXCEPT !.key = IF @ \in found THEN Nothing ELSE @,
                           !.listed = @ /\ q.id # tar]
        BY <2>1
      <3>1. /\ q \in Object /\ o \in Object /\ o.id = q.id
            /\ o.key = q.key \/ (o.key = Nothing /\ q.key \in found)
        <4>1. q \in Object
          OBVIOUS
        <4> QED  BY <4>1 DEF Object
      <3>2. \/ o.key = q.key
            \/ /\ o.key = Nothing
               /\ \E x \in objs : x.key = tar /\ q.key = x.id
        BY <2>2, <3>1, Zenon
      <3> QED  BY <3>1, <3>2, Zenon
    <2> QED  BY <2>3, Zenon
  <1> QED  BY <1>1, <1>2

LEMMA LoadedObjects ==
    ASSUME TypeInv
    PROVE  /\ Loaded \in SUBSET Object
           /\ \A o \in Loaded : o.key = o.id /\ o.id \in layersjson
  <1>1. layersjson \subseteq Ids
    BY DEF TypeInv, LayerTypeOK
  <1>2. \A l \in layersjson :
          Entry(l) \in Object /\ Entry(l).key = l /\ Entry(l).id = l
    BY <1>1 DEF Entry, Object
  <1> QED  BY <1>2 DEF Loaded

LEMMA EntryObject ==
    ASSUME NEW id \in Ids
    PROVE  Entry(id) \in Object /\ Entry(id).key = id /\ Entry(id).id = id
  BY DEF Entry, Object

LEMMA TypePullImage ==
    ASSUME TypeInv, NEW p \in Procs, NEW image \in PullImages,
           PullImage(p, image)
    PROVE  TypeInv'
  <1> PICK j : j = NewJob("pull", image, Nothing, Nothing, FALSE)
    OBVIOUS
  <1>1. image \in Seq(Layers)
    BY LayerAssumption
  <1>2. j \in Job
    BY <1>1, NewJobs
  <1>3. /\ pc' = [pc EXCEPT ![p] = "load"] /\ job' = [job EXCEPT ![p] = j]
        /\ UNCHANGED <<layersjson, dirs, writer, mem>>
    BY DEF PullImage, Goto
  <1>4. images' \subseteq Seq(Layers)
    BY <1>1, InvTypes DEF PullImage, Bases
  <1>5. "load" \in PCs /\ JobFits("load", j)
    BY DEF PCs, JobFits
  <1> QED  BY <1>2, <1>3, <1>4, <1>5, InvTypes, TypeFrame

LEMMA BaseLayers ==
    ASSUME TypeInv, NEW p \in Procs, NEW base \in images \cup Bases({<<>>})
    PROVE  base \in Seq(Layers)
  <1>1. <<>> \in Seq(Layers)
    OBVIOUS
  <1> QED  BY <1>1, InvTypes DEF Bases

LEMMA TypeBuild ==
    ASSUME TypeInv, NEW p \in Procs, NEW base \in images \cup Bases({<<>>}),
           NEW new \in Contents, NEW work \in Working,
           Build(p, base, new, work)
    PROVE  TypeInv'
  <1> PICK known \in BOOLEAN : known = (ToSet(base) \subseteq layersjson)
    OBVIOUS
  <1> PICK j : j = NewJob("build", base, work, new, known)
    OBVIOUS
  <1> PICK m : m = Loaded \cup {Entry(work)}
    OBVIOUS
  <1>1. base \in Seq(Layers) /\ new \in Layers
    BY BaseLayers, InvTypes
  <1>2. j \in Job
    BY <1>1, NewJobs
  <1>3. m \in SUBSET Object
    BY LoadedObjects, EntryObject
  <1>4. /\ pc' = [pc EXCEPT ![p] = "layer"] /\ job' = [job EXCEPT ![p] = j]
        /\ mem' = [mem EXCEPT ![p] = m]
        /\ dirs' = [dirs EXCEPT ![work] = new]
        /\ UNCHANGED <<layersjson, writer, images>>
    BY DEF Build, Goto
  <1>5. dirs' \in [Ids -> Layers \cup {Nothing}]
    BY <1>1, <1>4, InvTypes
  <1>6. "layer" \in PCs /\ JobFits("layer", j)
    BY DEF PCs, JobFits
  <1>7. /\ layersjson' \subseteq Ids /\ images' \subseteq Seq(Layers)
        /\ writer' \in [Ids -> Procs \cup {Nothing}]
    BY <1>4, InvTypes
  <1> QED  BY <1>2, <1>3, <1>4, <1>5, <1>6, <1>7, TypeFrame

LEMMA TypePull ==
    ASSUME TypeInv, NEW p \in Procs,
           \/ PullLoad(p) \/ PullCreate(p) \/ Unpack(p) \/ Unpacked(p)
           \/ UnpackLost(p)
    PROVE  TypeInv'
  <1>1. CASE PullLoad(p)
    <2>1. "layer" \in PCs /\ JobFits("layer", job[p])
      BY DEF PCs, JobFits
    <2>2. /\ pc' = [pc EXCEPT ![p] = "layer"]
          /\ mem' = [mem EXCEPT ![p] = Loaded]
          /\ UNCHANGED <<layersjson, dirs, writer, images, job>>
      BY <1>1 DEF PullLoad, Goto
    <2> QED  BY <2>1, <2>2, LoadedObjects, InvTypes, TypeFrame
  <1>2. CASE PullCreate(p)
    <2> PICK m : m = mem[p] \cup {Entry(Current(p))}
      OBVIOUS
    <2>1. job[p].todo # <<>> /\ Current(p) \in Layers
      BY <1>2, AtHand DEF PullCreate
    <2>2. m \in SUBSET Object
      BY <2>1, InvTypes, EntryObject
    <2>3. dirs' \in [Ids -> Layers \cup {Nothing}]
      BY <1>2, <2>1, InvTypes DEF PullCreate
    <2>4. "unpack" \in PCs /\ JobFits("unpack", job[p])
      BY <2>1 DEF PCs, JobFits
    <2>5. /\ pc' = [pc EXCEPT ![p] = "unpack"]
          /\ mem' = [mem EXCEPT ![p] = m]
          /\ UNCHANGED <<layersjson, writer, images, job>>
      BY <1>2, InvTypes DEF PullCreate, Goto
    <2> QED  BY <2>2, <2>3, <2>4, <2>5, InvTypes, TypeFrame
  <1>3. CASE Unpack(p)
    <2>1. job[p].todo # <<>> /\ Current(p) \in Layers
      BY <1>3, InvTypes, AtHand DEF Unpack, JobFits
    <2>2. /\ dirs' \in [Ids -> Layers \cup {Nothing}]
          /\ writer' \in [Ids -> Procs \cup {Nothing}]
      BY <1>3, <2>1, InvTypes DEF Unpack
    <2>3. /\ "files" \in PCs /\ JobFits("files", job[p])
          /\ pc' = [pc EXCEPT ![p] = "files"]
          /\ UNCHANGED <<layersjson, images, mem, job>>
      BY <1>3, <2>1 DEF Unpack, Goto, PCs, JobFits
    <2> QED  BY <2>2, <2>3, InvTypes, TypeFrame
  <1>4. CASE Unpacked(p) \/ UnpackLost(p)
    <2> PICK j : j = Rest(job[p])
      OBVIOUS
    <2>1. job[p].todo # <<>> /\ Current(p) \in Layers
      BY <1>4, InvTypes, AtHand DEF Unpacked, UnpackLost, JobFits
    <2>2. /\ dirs' \in [Ids -> Layers \cup {Nothing}]
          /\ writer' \in [Ids -> Procs \cup {Nothing}]
      BY <1>4, <2>1, InvTypes DEF Unpacked, UnpackLost
    <2>3. /\ j \in Job /\ "truncate" \in PCs /\ JobFits("truncate", j)
          /\ pc' = [pc EXCEPT ![p] = "truncate"]
          /\ job' = [job EXCEPT ![p] = j]
          /\ UNCHANGED <<layersjson, images, mem>>
      BY <1>4, InvTypes, RestOfJob DEF Unpacked, UnpackLost, Goto, PCs, JobFits
    <2> QED  BY <2>2, <2>3, InvTypes, TypeFrame
  <1> QED  BY <1>1, <1>2, <1>3, <1>4

\* What Move does to the directories and the objects.
LEMMA MoveTypes ==
    ASSUME TypeInv, NEW p \in Procs, Move(p)
    PROVE  /\ Current(p) \in Ids /\ job[p].tar \in Layers
           /\ dirs' \in [Ids -> Layers \cup {Nothing}]
           /\ writer' \in [Ids -> Procs \cup {Nothing}]
           /\ \E objs \in {mem[p], Deleted(mem[p], job[p].tar)} :
                 mem' = [mem EXCEPT ![p] =
                           Renamed(objs, Current(p), job[p].tar)]
              \/ mem' = mem
           /\ \E m \in SUBSET Object : mem' = [mem EXCEPT ![p] = m]
  <1> PICK layer : layer = Current(p)
    OBVIOUS
  <1> PICK tar : tar = job[p].tar
    OBVIOUS
  <1>1. layer \in Ids /\ tar \in Layers
    BY AtHand DEF Move
  <1>2. /\ dirs' \in [Ids -> Layers \cup {Nothing}]
        /\ writer' \in [Ids -> Procs \cup {Nothing}]
    <2>1. /\ \/ dirs' = dirs
             \/ dirs' = [dirs EXCEPT ![layer] = Nothing]
             \/ dirs' = [dirs EXCEPT ![tar] = dirs[layer], ![layer] = Nothing]
          /\ writer' = writer \/ writer' = [writer EXCEPT ![layer] = Nothing]
      BY DEF Move
    <2>2. /\ dirs \in [Ids -> Layers \cup {Nothing}]
          /\ writer \in [Ids -> Procs \cup {Nothing}]
      BY InvTypes
    <2> QED  BY <1>1, <2>1, <2>2
  <1>3. \/ mem' = mem
        \/ mem' = [mem EXCEPT ![p] = Renamed(mem[p], layer, tar)]
        \/ mem' = [mem EXCEPT ![p] = Renamed(Deleted(mem[p], tar), layer, tar)]
    BY DEF Move
  <1>4. /\ mem[p] \in SUBSET Object
        /\ Renamed(mem[p], layer, tar) \in SUBSET Object
        /\ Renamed(Deleted(mem[p], tar), layer, tar) \in SUBSET Object
        /\ mem' = mem => mem' = [mem EXCEPT ![p] = mem[p]]
    BY <1>1, InvTypes, RenamedObjects, DeletedObjects
  <1> QED  BY <1>1, <1>2, <1>3, <1>4

LEMMA TypePack ==
    ASSUME TypeInv, NEW p \in Procs, Drop(p) \/ Tar(p) \/ Move(p)
    PROVE  TypeInv'
  <1>1. CASE Drop(p)
    <2> PICK j : j = Rest(job[p])
      OBVIOUS
    <2>1. /\ j \in Job /\ JobFits(pc[p], j)
          /\ job' = [job EXCEPT ![p] = j]
          /\ UNCHANGED <<layersjson, dirs, writer, images, pc, mem>>
      BY <1>1, InvTypes, RestOfJob DEF Drop, Packing, JobFits
    <2> QED  BY <2>1, InvTypes, TypeFrame
  <1>2. CASE Tar(p)
    <2> PICK j : j = [job[p] EXCEPT !.tar = dirs[Current(p)]]
      OBVIOUS
    <2>1. dirs[Current(p)] \in Layers /\ Current(p) # Nothing
      BY <1>2, InvTypes, AtHand DEF Tar, Packing
    <2>2. /\ j \in Job /\ j.todo = job[p].todo /\ j.work = job[p].work
          /\ j.tar = dirs[Current(p)]
      BY <2>1, InvTypes DEF Job
    <2>3. JobFits("move", j) /\ "move" \in PCs
      BY <2>1, <2>2 DEF JobFits, Current, PCs
    <2>4. /\ pc' = [pc EXCEPT ![p] = "move"] /\ job' = [job EXCEPT ![p] = j]
          /\ UNCHANGED <<layersjson, dirs, writer, images, mem>>
      BY <1>2 DEF Tar, Goto
    <2> QED  BY <2>2, <2>3, <2>4, InvTypes, TypeFrame
  <1>3. CASE Move(p)
    <2> PICK j : j = Packed(job[p], job[p].tar)
      OBVIOUS
    <2>1. j \in Job
      BY <1>3, MoveTypes, InvTypes, PackedJob
    <2>2. /\ pc' = [pc EXCEPT ![p] = "layer"] /\ job' = [job EXCEPT ![p] = j]
          /\ UNCHANGED <<layersjson, images>>
          /\ "layer" \in PCs /\ JobFits("layer", j)
      BY <1>3 DEF Move, Goto, PCs, JobFits
    <2> QED  BY <1>3, <2>1, <2>2, MoveTypes, InvTypes, TypeFrame
  <1> QED  BY <1>1, <1>2, <1>3

LEMMA TypeSave ==
    ASSUME TypeInv, NEW p \in Procs, Truncate(p) \/ Write(p) \/ BuildSave(p)
    PROVE  TypeInv'
  <1>1. Listed(p) \subseteq Ids
    BY InvTypes DEF Listed, Object
  <1>2. PICK s \in {"truncate", "write", "layer", "publish"} :
          pc' = [pc EXCEPT ![p] = s]
    BY DEF Truncate, Write, BuildSave, Goto
  <1>3. layersjson' \subseteq Ids /\ UNCHANGED <<dirs, writer, images, mem, job>>
    BY <1>1, InvTypes DEF Truncate, Write, BuildSave
  <1>4. s \in PCs /\ JobFits(s, job[p])
    BY DEF PCs, JobFits
  <1> QED  BY <1>2, <1>3, <1>4, InvTypes, TypeFrame

LEMMA TypeStop ==
    ASSUME TypeInv, NEW p \in Procs,
           PullEnd(p) \/ PackThrows(p) \/ Publish(p) \/ Crash(p)
    PROVE  TypeInv'
  <1>1. CASE PullEnd(p)
    BY <1>1, InvTypes, TypeEnd DEF PullEnd
  <1>2. CASE PackThrows(p)
    BY <1>2, InvTypes, TypeAgain DEF PackThrows
  <1>3. CASE Publish(p)
    <2>1. job[p].result \in Seq(Layers)
      BY InvTypes DEF Job
    <2>2. images' \subseteq Seq(Layers)
      BY <1>3, <2>1, InvTypes DEF Publish, Bases
    <2> QED  BY <1>3, <2>2, TypeAgain DEF Publish
  <1>4. CASE Crash(p)
    <2>1. writer' \in [Ids -> Procs \cup {Nothing}]
      BY <1>4, InvTypes DEF Crash
    <2> QED  BY <1>4, <2>1, InvTypes, TypeEnd DEF Crash
  <1> QED  BY <1>1, <1>2, <1>3, <1>4

LEMMA TypeInit == Init => TypeInv
  <1> HAVE Init
  <1>1. NoJob \in Job
    <2>1. <<>> \in Seq(Layers)
      OBVIOUS
    <2> QED  BY <2>1, NewJobs DEF NoJob
  <1> QED
    BY <1>1, LayerAssumption DEF Init, TypeInv, LayerTypeOK, JobFits, PCs

LEMMA TypeInductive ==
    ASSUME TypeInv, [Next]_vars
    PROVE  TypeInv'
  <1>1. CASE UNCHANGED vars
    BY <1>1 DEF TypeInv, LayerTypeOK, JobFits
  <1>2. ASSUME NEW p \in Procs, Step(p) PROVE TypeInv'
    <2>1. CASE \E image \in PullImages : PullImage(p, image)
      BY <2>1, TypePullImage
    <2>2. CASE \E base \in images \cup Bases({<<>>}), new \in Contents,
                 work \in Working : Build(p, base, new, work)
      BY <2>2, TypeBuild
    <2> QED
      BY <1>2, <2>1, <2>2, TypePull, TypePack, TypeSave, TypeStop DEF Step
  <1> QED  BY <1>1, <1>2 DEF Next

\* Every variable of the layer store keeps its type, whoever made the layers
\* and whatever is lost or repeated; no layer is unpacked or moved that a job
\* does not have (create, extractTarGz, NewImageSource).
THEOREM LayerTypeCorrect == Spec => []LayerTypeOK
  <1>1. TypeInv => LayerTypeOK
    BY DEF TypeInv
  <1> QED  BY TypeInit, TypeInductive, <1>1, PTL DEF Spec

-----------------------------------------------------------------------------
(* Layers made by ocibuilder: the inductive invariant.                     *)

OwnUse ==
    /\ \A l \in Layers : Repack[l] = l
    /\ ~LostBlobs
    /\ \A image \in PullImages : image \in Seq(Layers \ Contents)

\* The layers whose directory holds what their id says.
Whole == {l \in Layers : dirs[l] = l}

PullFits(s, m, j) ==
    /\ s \in {"load", "layer", "unpack", "files", "truncate", "write"}
    /\ j.own = Nothing /\ j.work = Nothing
    /\ j.todo \in Seq(Layers \ Contents)
    /\ \A o \in m :
          /\ o.key = o.id
          /\ \/ o.id \in Whole
             \/ s \in {"unpack", "files"} /\ o.id = Head(j.todo)

\* What the layer at hand packs to: a base layer to itself, the working layer
\* to what the instructions made.
TarFits(j) ==
    IF j.todo = <<>>
    THEN j.work # Nothing /\ j.tar = j.new /\ dirs[j.work] = j.new
    ELSE j.tar = Head(j.todo) /\ j.tar \in Whole

\* The working layer is packed last, in some attempt; once it has been moved
\* its directory is a layer's.
BuildFits(s, m, j) ==
    /\ s \in {"layer", "move", "truncate", "write", "publish"}
    /\ j.new \in Contents
    /\ j.own \in Working /\ j.work \in {Nothing, j.own}
    /\ j.todo # <<>> => j.work = j.own
    /\ ToSet(j.result) \subseteq Whole
    /\ dirs[j.own] \in {j.new, Nothing}
    /\ s = "move" => TarFits(j)
    /\ s \in {"truncate", "write", "publish"} => j.work = Nothing
    /\ \A o \in m : \/ o.id \in Whole /\ o.key \in {o.id, j.own, Nothing}
                    \/ o.key = o.id /\ o.key = j.work

Fits(s, m, j) ==
    /\ j.op = "pull" => PullFits(s, m, j)
    /\ j.op = "build" => BuildFits(s, m, j)
    /\ j.op = "none" => s = "idle" /\ m = {} /\ j.own = Nothing

\* A process that unpacks does so alone.
Writes(q) == pc[q] = "files" => writer[Current(q)] = q

LayerInv ==
    /\ TypeInv
    /\ layersjson \subseteq Whole
    /\ \A l \in Contents : dirs[l] \in {l, Nothing}
    /\ \A q \in Procs : Fits(pc[q], mem[q], job[q]) /\ Writes(q)
    /\ \A q, r \in Procs : q # r /\ job[q].own = job[r].own =>
                             job[q].own = Nothing

-----------------------------------------------------------------------------
LEMMA LayerTypes ==
    ASSUME LayerInv, NEW p \in Procs
    PROVE  /\ TypeInv
           /\ Fits(pc[p], mem[p], job[p]) /\ Writes(p)
           /\ job[p].own \in Working \cup {Nothing}
           /\ job[p].op \in {"none", "pull", "build"}
  BY InvTypes DEF LayerInv, Job

\* What a process holds outlasts steps that keep whole directories, its
\* working layer's directory and its mark as a writer.
LEMMA FitsKept ==
    ASSUME LayerInv, NEW q \in Procs,
           UNCHANGED <<pc[q], mem[q], job[q]>>,
           Whole \subseteq Whole',
           job[q].own # Nothing => dirs'[job[q].own] = dirs[job[q].own],
           pc[q] = "files" => writer'[Current(q)] = q
    PROVE  Fits(pc[q], mem[q], job[q])' /\ Writes(q)'
  <1>1. Fits(pc[q], mem[q], job[q]) /\ job[q] \in Job
    BY LayerTypes, InvTypes
  <1>2. job[q].op = "pull" => PullFits(pc[q], mem[q], job[q])'
    BY <1>1 DEF Fits, PullFits
  <1>3. job[q].op = "build" => BuildFits(pc[q], mem[q], job[q])'
    <2> SUFFICES ASSUME job[q].op = "build"
                 PROVE  BuildFits(pc[q], mem[q], job[q])'
      OBVIOUS
    <2>1. /\ BuildFits(pc[q], mem[q], job[q])
          /\ job[q].own \in Working /\ job[q].work \in {Nothing, job[q].own}
          /\ dirs'[job[q].own] = dirs[job[q].own]
      BY <1>1, LayerTypes, InvTypes DEF Fits, BuildFits
    <2>2. TarFits(job[q]) => TarFits(job[q])'
      BY <2>1 DEF TarFits
    <2> QED  BY <2>1, <2>2 DEF BuildFits
  <1>4. Writes(q)'
    BY DEF Writes, Current
  <1> QED  BY <1>1, <1>2, <1>3, <1>4 DEF Fits

\* A step of p that keeps whole directories and what belongs to others.
LEMMA LayerFrame ==
    ASSUME LayerInv, TypeInv', NEW p \in Procs,
           NEW s, pc' = [pc EXCEPT ![p] = s],
           NEW m, mem' = [mem EXCEPT ![p] = m],
           NEW j, job' = [job EXCEPT ![p] = j],
           Whole \subseteq Whole',
           layersjson' \subseteq Whole',
           \A l \in Contents : dirs'[l] \in {l, Nothing},
           \A w \in Working : \/ w = job[p].own
                              \/ dirs'[w] = dirs[w]
                              \/ FreshId(w),
           \A q \in Procs \ {p} : pc[q] = "files" => writer'[Current(q)] = q,
           j.own \in {Nothing, job[p].own} \/ FreshId(j.own),
           Fits(s, m, j)', Writes(p)'
    PROVE  LayerInv'
  <1>1. /\ pc \in [Procs -> PCs] /\ mem \in [Procs -> SUBSET Object]
        /\ job \in [Procs -> Job]
    BY DEF LayerInv, TypeInv, LayerTypeOK
  <1>2. /\ pc'[p] = s /\ mem'[p] = m /\ job'[p] = j
        /\ \A q \in Procs \ {p} : UNCHANGED <<pc[q], mem[q], job[q]>>
    BY <1>1
  <1>3. ASSUME NEW q \in Procs \ {p}
        PROVE  /\ job[q].own # Nothing => job[q].own # job[p].own
               /\ job[q].own # Nothing => dirs'[job[q].own] = dirs[job[q].own]
    <2>1. job[q].own \in Working \cup {Nothing}
      BY LayerTypes
    <2>2. job[q].own # Nothing => job[q].own # job[p].own
      BY DEF LayerInv
    <2> QED  BY <2>1, <2>2 DEF FreshId
  <1>4. ASSUME NEW q \in Procs PROVE (Fits(pc[q], mem[q], job[q]) /\ Writes(q))'
    <2>1. CASE q = p
      BY <1>2, <2>1
    <2>2. CASE q # p
      BY <1>2, <1>3, <2>2, FitsKept
    <2> QED  BY <2>1, <2>2
  <1>5. ASSUME NEW q \in Procs, NEW r \in Procs, q # r,
               job'[q].own = job'[r].own
        PROVE  job'[q].own = Nothing
    <2>1. CASE q # p /\ r # p
      BY <1>2, <1>5, <2>1 DEF LayerInv
    <2>2. CASE q = p
      BY <1>2, <1>3, <1>5, <2>2 DEF FreshId
    <2>3. CASE r = p
      BY <1>2, <1>3, <1>5, <2>3 DEF FreshId
    <2> QED  BY <2>1, <2>2, <2>3
  <1> QED  BY <1>4, <1>5 DEF LayerInv

\* A step that leaves the directories alone.
LEMMA LayerQuiet ==
    ASSUME LayerInv, TypeInv', NEW p \in Procs, UNCHANGED dirs,
           layersjson' \subseteq Whole,
           \A q \in Procs \ {p} : pc[q] = "files" => writer'[Current(q)] = q,
           NEW s, s # "files", pc' = [pc EXCEPT ![p] = s],
           NEW m, mem' = [mem EXCEPT ![p] = m],
           NEW j, job' = [job EXCEPT ![p] = j],
           j.own \in {Nothing, job[p].own},
           Fits(s, m, j)
    PROVE  LayerInv'
  <1>1. Whole' = Whole
    BY DEF Whole
  <1>2. Fits(s, m, j)'
    BY <1>1 DEF Fits, PullFits, BuildFits, TarFits
  <1>3. pc'[p] = s
    BY InvTypes DEF LayerInv, TypeInv, LayerTypeOK
  <1>4. Writes(p)'
    BY <1>3 DEF Writes
  <1>5. \A l \in Contents : dirs'[l] \in {l, Nothing}
    BY DEF LayerInv
  <1> QED  BY <1>1, <1>2, <1>4, <1>5, LayerFrame

LEMMA WritersKept ==
    ASSUME LayerInv, UNCHANGED writer, NEW p \in Procs
    PROVE  \A q \in Procs \ {p} : pc[q] = "files" => writer'[Current(q)] = q
  BY DEF LayerInv, Writes

\* Ending keeps the invariant.
LEMMA LayerEnd ==
    ASSUME LayerInv, TypeInv', NEW p \in Procs, End(p), 
           UNCHANGED <<layersjson, dirs>>,
           \A q \in Procs \ {p} : pc[q] = "files" => writer'[Current(q)] = q
    PROVE  LayerInv'
  <1> PICK m : m = {}
    OBVIOUS
  <1> PICK j : j = NoJob
    OBVIOUS
  <1>1. Fits("idle", m, j) /\ j.own = Nothing
    BY DEF Fits, NoJob, NewJob
  <1>2. /\ pc' = [pc EXCEPT ![p] = "idle"] /\ mem' = [mem EXCEPT ![p] = m]
        /\ job' = [job EXCEPT ![p] = j] /\ layersjson' \subseteq Whole
    BY DEF End, Goto, LayerInv
  <1> QED  BY <1>1, <1>2, LayerQuiet

\* An attempt that is repeated finds the working layer as the one before left
\* it: in its own directory, or moved.
LEMMA LayerAgain ==
    ASSUME LayerInv, TypeInv', NEW p \in Procs, NEW threw \in BOOLEAN,
           Again(p, threw), job[p].op = "build",
           UNCHANGED <<layersjson, dirs, writer>>
    PROVE  LayerInv'
  <1>1. CASE End(p)
    BY <1>1, LayerEnd, WritersKept
  <1>2. ASSUME Goto(p, "layer"), UNCHANGED mem,
               job' = [job EXCEPT ![p] = Restarted(@)]
        PROVE  LayerInv'
    <2> PICK j : j = Restarted(job[p])
      OBVIOUS
    <2>1. /\ j.op = "build" /\ j.own = job[p].own /\ j.work = job[p].own
          /\ j.new = job[p].new /\ j.result = <<>>
      BY LayerTypes, InvTypes DEF Restarted, Job
    <2>2. ToSet(j.result) = {}
      BY <2>1 DEF ToSet
    <2>3. BuildFits(pc[p], mem[p], job[p])
      BY LayerTypes DEF Fits
    <2>4. \A o \in mem[p] :
             \/ o.id \in Whole /\ o.key \in {o.id, j.own, Nothing}
             \/ o.key = o.id /\ o.key = j.work
      <3> TAKE o \in mem[p]
      <3>1. \/ o.id \in Whole /\ o.key \in {o.id, job[p].own, Nothing}
            \/ o.key = o.id /\ o.key = job[p].work
        BY <2>3 DEF BuildFits
      <3>2. job[p].work \in {Nothing, job[p].own}
        BY <2>3 DEF BuildFits
      <3>3. o.id # Nothing
        BY LayerTypes, InvTypes DEF Object
      <3> QED  BY <2>1, <3>1, <3>2, <3>3
    <2>5. Fits("layer", mem[p], j)
      BY <2>1, <2>2, <2>3, <2>4 DEF Fits, BuildFits
    <2>6. /\ pc' = [pc EXCEPT ![p] = "layer"] /\ job' = [job EXCEPT ![p] = j]
          /\ mem' = [mem EXCEPT ![p] = mem[p]]
          /\ layersjson' \subseteq Whole
      BY <1>2, LayerTypes, InvTypes DEF Goto, LayerInv
    <2> QED  BY <2>1, <2>5, <2>6, LayerQuiet, WritersKept
  <1> QED  BY <1>1, <1>2 DEF Again

LEMMA LoadedWhole ==
    ASSUME LayerInv
    PROVE  \A o \in Loaded : o.key = o.id /\ o.id \in Whole
  BY LoadedObjects DEF LayerInv

LEMMA StepPullImage ==
    ASSUME OwnUse, LayerInv, TypeInv', NEW p \in Procs,
           NEW image \in PullImages, PullImage(p, image)
    PROVE  LayerInv'
  <1> PICK j : j = NewJob("pull", image, Nothing, Nothing, FALSE)
    OBVIOUS
  <1>1. image \in Seq(Layers \ Contents)
    BY DEF OwnUse
  <1>2. /\ j.own = Nothing /\ j.work = Nothing /\ j.todo = image
        /\ j.op = "pull"
    BY DEF NewJob
  <1>3. mem[p] = {}
    BY LayerTypes DEF PullImage, Fits, PullFits, BuildFits
  <1>4. Fits("load", mem[p], j)
    BY <1>1, <1>2, <1>3 DEF Fits, PullFits
  <1>5. /\ pc' = [pc EXCEPT ![p] = "load"]
        /\ mem' = [mem EXCEPT ![p] = mem[p]]
        /\ job' = [job EXCEPT ![p] = j]
        /\ UNCHANGED <<dirs, writer>> /\ layersjson' \subseteq Whole
    BY LayerTypes, InvTypes DEF PullImage, Goto, LayerInv
  <1> QED  BY <1>2, <1>4, <1>5, LayerQuiet, WritersKept

LEMMA StepPullLoad ==
    ASSUME OwnUse, LayerInv, TypeInv', NEW p \in Procs, PullLoad(p)
    PROVE  LayerInv'
  <1>1. PullFits(pc[p], mem[p], job[p]) /\ job[p].op = "pull"
    BY LayerTypes DEF PullLoad, Fits, BuildFits
  <1>2. Fits("layer", Loaded, job[p])
    BY <1>1, LoadedWhole DEF Fits, PullFits
  <1>3. /\ pc' = [pc EXCEPT ![p] = "layer"]
        /\ mem' = [mem EXCEPT ![p] = Loaded]
        /\ job' = [job EXCEPT ![p] = job[p]]
        /\ UNCHANGED <<dirs, writer>> /\ layersjson' \subseteq Whole
    BY LayerTypes, InvTypes DEF PullLoad, Goto, LayerInv
  <1> QED  BY <1>2, <1>3, LayerQuiet, WritersKept

LEMMA StepTruncate ==
    ASSUME OwnUse, LayerInv, TypeInv', NEW p \in Procs, Truncate(p)
    PROVE  LayerInv'
  <1>1. Fits("write", mem[p], job[p])
    BY LayerTypes DEF Truncate, Fits, PullFits, BuildFits
  <1>2. /\ pc' = [pc EXCEPT ![p] = "write"]
        /\ mem' = [mem EXCEPT ![p] = mem[p]]
        /\ job' = [job EXCEPT ![p] = job[p]]
        /\ UNCHANGED <<dirs, writer>> /\ layersjson' \subseteq Whole
    BY LayerTypes, InvTypes DEF Truncate, Goto
  <1> QED  BY <1>1, <1>2, LayerQuiet, WritersKept

LEMMA StepWrite ==
    ASSUME OwnUse, LayerInv, TypeInv', NEW p \in Procs, Write(p)
    PROVE  LayerInv'
  <1> PICK s : s = IF job[p].op = "pull" THEN "layer" ELSE "publish"
    OBVIOUS
  <1>1. pc[p] = "write" /\ job[p].op \in {"pull", "build"}
    BY LayerTypes DEF Write, Fits
  <1>2. \A o \in mem[p] : o.id \in Whole
    <2> TAKE o \in mem[p]
    <2>1. o.id # Nothing
      BY LayerTypes, InvTypes DEF Object
    <2> QED  BY <1>1, <2>1, LayerTypes DEF Fits, PullFits, BuildFits
  <1>3. Listed(p) \subseteq Whole
    BY <1>2 DEF Listed
  <1>4. Fits(s, mem[p], job[p])
    BY <1>1, LayerTypes DEF Fits, PullFits, BuildFits
  <1>5. /\ pc' = [pc EXCEPT ![p] = s] /\ s # "files"
        /\ mem' = [mem EXCEPT ![p] = mem[p]]
        /\ job' = [job EXCEPT ![p] = job[p]]
        /\ UNCHANGED <<dirs, writer>> /\ layersjson' \subseteq Whole
    BY <1>3, LayerTypes, InvTypes DEF Write, Goto
  <1> QED  BY <1>4, <1>5, LayerQuiet, WritersKept

LEMMA StepDrop ==
    ASSUME OwnUse, LayerInv, TypeInv', NEW p \in Procs, Drop(p)
    PROVE  LayerInv'
  <1> PICK j : j = Rest(job[p])
    OBVIOUS
  <1>1. /\ pc[p] = "layer" /\ job[p].op = "build"
        /\ job[p].todo # <<>> \/ job[p].work # Nothing
    BY DEF Drop, Packing, Current
  <1>2. /\ j.op = "build" /\ j.new = job[p].new /\ j.own = job[p].own
        /\ j.result = job[p].result
        /\ j.work = IF job[p].todo = <<>> THEN Nothing ELSE job[p].work
        /\ j.todo = IF job[p].todo = <<>> THEN <<>> ELSE Tail(job[p].todo)
    BY <1>1, LayerTypes, InvTypes, RestOfJob
  <1>3. BuildFits(pc[p], mem[p], job[p])
    BY <1>1, LayerTypes DEF Fits
  <1>4. \A o \in mem[p] : o.key = job[p].work => job[p].todo # <<>>
    BY DEF Drop, Keys, Current
  <1>5. \A o \in mem[p] : \/ o.id \in Whole /\ o.key \in {o.id, j.own, Nothing}
                          \/ o.key = o.id /\ o.key = j.work
    BY <1>2, <1>3, <1>4 DEF BuildFits
  <1>6. Fits("layer", mem[p], j)
    BY <1>1, <1>2, <1>3, <1>5 DEF Fits, BuildFits
  <1>7. /\ pc' = [pc EXCEPT ![p] = "layer"]
        /\ mem' = [mem EXCEPT ![p] = mem[p]]
        /\ job' = [job EXCEPT ![p] = j]
        /\ UNCHANGED <<dirs, writer>> /\ layersjson' \subseteq Whole
    BY <1>1, LayerTypes, InvTypes DEF Drop, LayerInv
  <1> QED  BY <1>2, <1>6, <1>7, LayerQuiet, WritersKept

\* Packing is over: the list is saved next.
LEMMA StepBuildSave ==
    ASSUME OwnUse, LayerInv, TypeInv', NEW p \in Procs, BuildSave(p)
    PROVE  LayerInv'
  <1>1. pc[p] = "layer" /\ job[p].op = "build" /\ job[p].work = Nothing
    <2>1. job[p].todo # <<>> => Current(p) # Nothing
      BY LayerTypes, InvTypes, AtHand
    <2> QED  BY <2>1 DEF BuildSave, Current
  <1>2. Fits("truncate", mem[p], job[p])
    BY <1>1, LayerTypes DEF Fits, BuildFits
  <1>3. /\ pc' = [pc EXCEPT ![p] = "truncate"]
        /\ mem' = [mem EXCEPT ![p] = mem[p]]
        /\ job' = [job EXCEPT ![p] = job[p]]
        /\ UNCHANGED <<dirs, writer>> /\ layersjson' \subseteq Whole
    BY LayerTypes, InvTypes DEF BuildSave, Goto, LayerInv
  <1> QED  BY <1>2, <1>3, LayerQuiet, WritersKept

LEMMA StepTar ==
    ASSUME OwnUse, LayerInv, TypeInv', NEW p \in Procs, Tar(p)
    PROVE  LayerInv'
  <1> PICK j : j = [job[p] EXCEPT !.tar = dirs[Current(p)]]
    OBVIOUS
  <1>1. /\ pc[p] = "layer" /\ job[p].op = "build"
        /\ job[p].todo # <<>> \/ job[p].work # Nothing
        /\ Current(p) \in Keys(p) /\ dirs[Current(p)] # Nothing
    BY DEF Tar, Packing, Current
  <1>2. /\ j.op = "build" /\ j.new = job[p].new /\ j.own = job[p].own
        /\ j.result = job[p].result /\ j.work = job[p].work
        /\ j.todo = job[p].todo /\ j.tar = dirs[Current(p)]
    BY <1>1, LayerTypes, InvTypes DEF Job
  <1>3. BuildFits(pc[p], mem[p], job[p])
    BY <1>1, LayerTypes DEF Fits
  <1>4. TarFits(j)
    <2>1. CASE job[p].todo = <<>>
      BY <1>1, <1>2, <1>3, <2>1 DEF BuildFits, TarFits, Current
    <2>2. CASE job[p].todo # <<>>
      <3>1. Current(p) \in Layers /\ Current(p) = Head(job[p].todo)
        BY <2>2, LayerTypes, InvTypes, AtHand DEF Current
      <3>2. PICK o \in mem[p] : o.key = Current(p)
        BY <1>1 DEF Keys
      <3>3. job[p].own \in Working /\ job[p].work \in {Nothing, job[p].own}
        BY <1>3 DEF BuildFits
      <3>4. o.id \in Whole /\ o.key \in {o.id, job[p].own, Nothing}
        BY <1>3, <3>1, <3>2, <3>3, LayerTypes, InvTypes DEF BuildFits
      <3>5. Head(job[p].todo) \in Whole
        BY <3>1, <3>2, <3>3, <3>4, LayerTypes, InvTypes
      <3> QED  BY <1>2, <2>2, <3>1, <3>5 DEF TarFits, Whole
    <2> QED  BY <2>1, <2>2
  <1>5. Fits("move", mem[p], j)
    BY <1>1, <1>2, <1>3, <1>4 DEF Fits, BuildFits
  <1>6. /\ pc' = [pc EXCEPT ![p] = "move"]
        /\ mem' = [mem EXCEPT ![p] = mem[p]]
        /\ job' = [job EXCEPT ![p] = j]
        /\ UNCHANGED <<dirs, writer>> /\ layersjson' \subseteq Whole
    BY LayerTypes, InvTypes DEF Tar, Goto, LayerInv
  <1> QED  BY <1>2, <1>5, <1>6, LayerQuiet, WritersKept

LEMMA StepStop ==
    ASSUME OwnUse, LayerInv, TypeInv', NEW p \in Procs,
           PullEnd(p) \/ PackThrows(p) \/ Publish(p) \/ Crash(p)
    PROVE  LayerInv'
  <1>1. CASE PullEnd(p)
    BY <1>1, LayerEnd, WritersKept DEF PullEnd
  <1>2. CASE PackThrows(p)
    <2>1. job[p].op = "build"
      BY <1>2, LayerTypes DEF PackThrows, Packing, Fits, PullFits
    <2> QED  BY <1>2, <2>1, LayerAgain DEF PackThrows
  <1>3. CASE Publish(p)
    <2>1. job[p].op = "build"
      BY <1>3, LayerTypes DEF Publish, Fits, PullFits
    <2> QED  BY <1>3, <2>1, LayerAgain DEF Publish
  <1>4. CASE Crash(p)
    <2>1. ASSUME NEW q \in Procs \ {p}, pc[q] = "files"
          PROVE  writer'[Current(q)] = q
      <3>1. writer[Current(q)] = q /\ Current(q) \in Ids
        BY <2>1, LayerTypes, AtHand DEF Writes
      <3> QED  BY <1>4, <3>1 DEF Crash
    <2> QED  BY <1>4, <2>1, LayerEnd DEF Crash
  <1> QED  BY <1>1, <1>2, <1>3, <1>4

-----------------------------------------------------------------------------
(* The steps that change directories.                                      *)

\* A pulled layer is no layer of a build, so that its directory, which lacks
\* files until it is unpacked, is nobody's result.
LEMMA StepPullCreate ==
    ASSUME OwnUse, LayerInv, TypeInv', NEW p \in Procs, PullCreate(p)
    PROVE  LayerInv'
  <1> PICK id : id = Current(p)
    OBVIOUS
  <1> PICK m : m = mem[p] \cup {Entry(id)}
    OBVIOUS
  <1> PICK j : j = job[p]
    OBVIOUS
  <1>1. /\ pc[p] = "layer" /\ j.op = "pull" /\ j.todo # <<>>
        /\ PullFits(pc[p], mem[p], j)
    BY LayerTypes DEF PullCreate, Fits
  <1>2. id = Head(j.todo) /\ id \in Layers \ Contents
    BY <1>1 DEF Current, PullFits
  <1>3. /\ pc' = [pc EXCEPT ![p] = "unpack"] /\ mem' = [mem EXCEPT ![p] = m]
        /\ dirs[id] # Nothing => dirs' = dirs
        /\ dirs[id] = Nothing => dirs' = [dirs EXCEPT ![id] = Partial]
        /\ job' = [job EXCEPT ![p] = j]
        /\ UNCHANGED <<layersjson, writer, images, job>>
    <2>1. dirs \in [Ids -> Layers \cup {Nothing}]
      BY LayerTypes, InvTypes
    <2> QED  BY <1>2, <2>1, LayerTypes, InvTypes DEF PullCreate, Goto
  <1>4. \A o \in m : o.key = o.id /\ (o.id \in Whole \/ o.id = id)
    BY <1>1, <1>2, EntryObject DEF PullFits
  <1>5. /\ dirs \in [Ids -> Layers \cup {Nothing}]
        /\ Layers \cap Working = {} /\ Nothing \notin Layers
    BY LayerTypes, InvTypes
  <1>6. Whole \subseteq Whole'
    BY <1>2, <1>3, <1>5 DEF Whole
  <1>7. \A l \in Contents : dirs'[l] \in {l, Nothing}
    BY <1>2, <1>3, <1>5, LayerTypes, InvTypes DEF LayerInv
  <1>8. \A w \in Working : dirs'[w] = dirs[w]
    BY <1>2, <1>3, <1>5
  <1>9. PullFits("unpack", m, j)'
    BY <1>1, <1>2, <1>4, <1>6 DEF PullFits
  <1>10. Fits("unpack", m, j)' /\ j.own = Nothing
    BY <1>1, <1>9 DEF Fits, PullFits
  <1>11. pc'[p] = "unpack"
    BY <1>3 DEF LayerInv, TypeInv, LayerTypeOK
  <1>12. layersjson' \subseteq Whole' /\ Writes(p)'
    BY <1>3, <1>6, <1>11 DEF LayerInv, Writes
  <1>13. \A q \in Procs \ {p} : pc[q] = "files" => writer'[Current(q)] = q
    BY <1>3, WritersKept
  <1>14. \A w \in Working : w = job[p].own \/ dirs'[w] = dirs[w] \/ FreshId(w)
    BY <1>8
  <1> QED
    BY <1>3, <1>6, <1>7, <1>10, <1>12, <1>13, <1>14, LayerFrame

\* Nobody else is at the layer, and its directory lacked files before.
LEMMA StepUnpack ==
    ASSUME OwnUse, FreshPulls, LayerInv, TypeInv', NEW p \in Procs, Unpack(p)
    PROVE  LayerInv'
  <1> PICK id : id = Current(p)
    OBVIOUS
  <1>1. id \in Layers /\ dirs[id] = Partial
    BY LayerTypes, AtHand DEF Unpack, FreshPulls
  <1>2. \A q \in Procs \ {p} : pc[q] = "files" => Current(q) # id
    BY DEF Unpack, FreshPulls
  <1>3. /\ pc' = [pc EXCEPT ![p] = "files"] /\ mem' = [mem EXCEPT ![p] = mem[p]]
        /\ job' = [job EXCEPT ![p] = job[p]]
        /\ dirs' = dirs
        /\ writer' = [writer EXCEPT ![id] = p]
        /\ UNCHANGED <<layersjson, images, mem, job>>
    <2>1. /\ dirs \in [Ids -> Layers \cup {Nothing}]
          /\ dirs' = [dirs EXCEPT ![id] = Partial]
      BY LayerTypes, InvTypes DEF Unpack
    <2>2. dirs' = dirs
      BY <1>1, <2>1
    <2> QED  BY <1>2, <2>2, LayerTypes, InvTypes DEF Unpack, Goto, Unpacking
  <1>4. Whole' = Whole
    BY <1>3 DEF Whole
  <1>5. PullFits(pc[p], mem[p], job[p]) /\ job[p].op = "pull" /\ pc[p] = "unpack"
    BY LayerTypes DEF Unpack, Fits, BuildFits
  <1>6. PullFits("files", mem[p], job[p])'
    BY <1>3, <1>4, <1>5 DEF PullFits
  <1>7. Fits("files", mem[p], job[p])'
    BY <1>3, <1>5, <1>6 DEF Fits
  <1>8. \A q \in Procs \ {p} : pc[q] = "files" => writer'[Current(q)] = q
    <2> TAKE q \in Procs \ {p}
    <2> HAVE pc[q] = "files"
    <2>1. writer[Current(q)] = q /\ Current(q) \in Ids /\ Current(q) # id
      BY <1>2, LayerTypes, AtHand DEF Writes
    <2> QED  BY <1>1, <1>3, <2>1, LayerTypes, InvTypes
  <1>9. Writes(p)'
    <2>1. writer'[id] = p
      BY <1>1, <1>3, LayerTypes, InvTypes
    <2> QED  BY <1>3, <2>1 DEF Writes, Current
  <1>10. \A l \in Contents : dirs'[l] \in {l, Nothing}
    BY <1>3 DEF LayerInv
  <1> PICK m : m = mem[p]
    OBVIOUS
  <1> PICK j : j = job[p]
    OBVIOUS
  <1>11. Fits("files", m, j)' /\ layersjson' \subseteq Whole'
    BY <1>3, <1>4, <1>7 DEF LayerInv, Fits, PullFits, BuildFits, TarFits
  <1> QED
    BY <1>3, <1>4, <1>8, <1>9, <1>10, <1>11, LayerFrame

\* It was alone at the layer, so that all files are there.
LEMMA StepUnpacked ==
    ASSUME OwnUse, LayerInv, TypeInv', NEW p \in Procs, Unpacked(p)
    PROVE  LayerInv'
  <1> PICK id : id = Current(p)
    OBVIOUS
  <1> PICK j : j = Rest(job[p])
    OBVIOUS
  <1> PICK m : m = mem[p]
    OBVIOUS
  <1>1. /\ pc[p] = "files" /\ job[p].op = "pull" /\ job[p].todo # <<>>
        /\ PullFits(pc[p], mem[p], job[p])
    BY LayerTypes, InvTypes DEF Unpacked, Fits, BuildFits, JobFits
  <1>2. id = Head(job[p].todo) /\ id \in Layers \ Contents
    BY <1>1 DEF Current, PullFits
  <1>3. /\ pc' = [pc EXCEPT ![p] = "truncate"]
        /\ mem' = [mem EXCEPT ![p] = m]
        /\ dirs' = [dirs EXCEPT ![id] = id]
        /\ writer' = [writer EXCEPT ![id] = Nothing]
        /\ job' = [job EXCEPT ![p] = j]
        /\ UNCHANGED <<layersjson, images, mem>>
    <2>1. writer[id] = p
      BY <1>1, LayerTypes DEF Writes
    <2> QED
      BY <1>2, <2>1, LayerTypes, InvTypes DEF Unpacked, Goto, OwnUse
  <1>4. /\ j.op = "pull" /\ j.work = Nothing /\ j.own = Nothing
        /\ j.todo \in Seq(Layers \ Contents)
    <2>1. /\ j.op = job[p].op /\ j.work = job[p].work /\ j.own = job[p].own
          /\ j.todo = Tail(job[p].todo)
      BY <1>1, LayerTypes, InvTypes, RestOfJob
    <2> QED  BY <1>1, <2>1 DEF PullFits
  <1>5. \A o \in m : o.key = o.id /\ (o.id \in Whole \/ o.id = id)
    BY <1>1, <1>2 DEF PullFits
  <1>6. /\ dirs \in [Ids -> Layers \cup {Nothing}]
        /\ Layers \cap Working = {} /\ Nothing \notin Layers
    BY LayerTypes, InvTypes
  <1>7. Whole' = Whole \cup {id}
    BY <1>2, <1>3, <1>6 DEF Whole
  <1>8. \A l \in Contents : dirs'[l] \in {l, Nothing}
    BY <1>2, <1>3, <1>6, LayerTypes, InvTypes DEF LayerInv
  <1>9. \A w \in Working : dirs'[w] = dirs[w]
    BY <1>2, <1>3, <1>6
  <1>10. PullFits("truncate", m, j)'
    BY <1>4, <1>5, <1>7 DEF PullFits
  <1>11. Fits("truncate", m, j)'
    BY <1>4, <1>10 DEF Fits
  <1>12. layersjson' \subseteq Whole' /\ Whole \subseteq Whole'
    BY <1>3, <1>7 DEF LayerInv
  <1>13. \A q \in Procs \ {p} : pc[q] = "files" => writer'[Current(q)] = q
    <2> TAKE q \in Procs \ {p}
    <2> HAVE pc[q] = "files"
    <2>1. writer[Current(q)] = q /\ Current(q) \in Ids /\ writer[id] = p
      BY <1>1, LayerTypes, AtHand DEF Writes
    <2> QED  BY <1>3, <2>1, LayerTypes, InvTypes
  <1>14. pc'[p] = "truncate"
    BY <1>3 DEF LayerInv, TypeInv, LayerTypeOK
  <1>15. Writes(p)'
    BY <1>14 DEF Writes
  <1> QED
    BY <1>3, <1>4, <1>8, <1>9, <1>11, <1>12, <1>13, <1>15, LayerFrame

LEMMA StepBuild ==
    ASSUME OwnUse, LayerInv, TypeInv', NEW p \in Procs,
           NEW base \in images \cup Bases({<<>>}),
           NEW new \in Contents, NEW work \in Working,
           Build(p, base, new, work)
    PROVE  LayerInv'
  <1> PICK known : known = (ToSet(base) \subseteq layersjson)
    OBVIOUS
  <1> PICK j : j = NewJob("build", base, work, new, known)
    OBVIOUS
  <1> PICK m : m = Loaded \cup {Entry(work)}
    OBVIOUS
  <1>1. /\ j.op = "build" /\ j.own = work /\ j.work = work /\ j.new = new
        /\ ToSet(j.result) = {}
    BY DEF NewJob, ToSet
  <1>2. FreshId(work) /\ dirs[work] = Nothing
    BY DEF Build, FreshId
  <1>3. /\ pc' = [pc EXCEPT ![p] = "layer"] /\ mem' = [mem EXCEPT ![p] = m]
        /\ dirs' = [dirs EXCEPT ![work] = new]
        /\ job' = [job EXCEPT ![p] = j]
        /\ UNCHANGED <<layersjson, writer, images>>
    BY DEF Build, Goto
  <1>4. /\ dirs \in [Ids -> Layers \cup {Nothing}] /\ Contents \subseteq Layers
        /\ Layers \cap Working = {} /\ Nothing \notin Layers
    BY LayerTypes, InvTypes
  <1>5. Whole' = Whole
    BY <1>3, <1>4 DEF Whole
  <1>6. \A l \in Contents : dirs'[l] \in {l, Nothing}
    BY <1>3, <1>4 DEF LayerInv
  <1>7. \A w \in Working : w = job[p].own \/ dirs'[w] = dirs[w] \/ FreshId(w)
    BY <1>2, <1>3, <1>4
  <1>8. \A o \in m : \/ o.id \in Whole /\ o.key = o.id
                     \/ o.key = o.id /\ o.key = work
    BY LoadedWhole, EntryObject
  <1>9. dirs'[work] = new
    BY <1>3, <1>4
  <1>10. Fits("layer", m, j)'
    BY <1>1, <1>5, <1>8, <1>9 DEF Fits, BuildFits
  <1>11. pc'[p] = "layer"
    BY <1>3 DEF LayerInv, TypeInv, LayerTypeOK
  <1>12. layersjson' \subseteq Whole' /\ Writes(p)'
    BY <1>3, <1>5, <1>11 DEF LayerInv, Writes
  <1>13. \A q \in Procs \ {p} : pc[q] = "files" => writer'[Current(q)] = q
    BY <1>3, WritersKept
  <1>14. j.own \in {Nothing, job[p].own} \/ FreshId(j.own)
    BY <1>1, <1>2
  <1> QED
    BY <1>3, <1>5, <1>6, <1>7, <1>10, <1>12, <1>13, <1>14, LayerFrame

\* What becomes of the objects of a build when its working layer takes the
\* digest of a whole layer for its id.
LEMMA MovedObjects ==
    ASSUME LayerInv, NEW p \in Procs,
           BuildFits(pc[p], mem[p], job[p]), job[p].work = job[p].own,
           NEW tar \in Layers, tar \in Whole', Whole \subseteq Whole',
           NEW objs \in {mem[p], Deleted(mem[p], tar)}
    PROVE  \A o \in Renamed(objs, job[p].own, tar) :
              o.id \in Whole' /\ o.key \in {o.id, job[p].own, Nothing}
  <1> PICK layer : layer = job[p].own
    OBVIOUS
  <1> PICK W : W = Whole'
    OBVIOUS
  <1>1. \A o \in mem[p] : \/ o.id \in W /\ o.key \in {o.id, layer, Nothing}
                          \/ o.key = o.id /\ o.key = layer
    BY DEF BuildFits
  <1>2. /\ mem[p] \in SUBSET Object /\ tar \in Layers
        /\ Layers \cap Working = {}
        /\ Nothing \notin Working /\ Nothing \notin Layers
        /\ layer \in Working /\ tar \in W
    BY LayerTypes, InvTypes DEF BuildFits
  <1>3. ASSUME NEW q \in objs
        PROVE  /\ q \in Object
               /\ \/ q.id \in W /\ q.key \in {q.id, layer, Nothing}
                  \/ q.key = q.id /\ q.key = layer
    <2>1. CASE q \in mem[p]
      BY <1>1, <1>2, <2>1
    <2>2. CASE q \notin mem[p]
      <3>1. q \in Deleted(mem[p], tar)
        BY <2>2
      <3>2. /\ q \in Object
            /\ \E o \in mem[p] :
                  /\ q.id = o.id
                  /\ \/ q.key = o.key
                     \/ /\ q.key = Nothing
                        /\ \E x \in mem[p] : x.key = tar /\ o.key = x.id
        BY <1>2, <3>1, DeletedObjects
      <3> PICK o \in mem[p] :
                  /\ q.id = o.id
                  /\ \/ q.key = o.key
                     \/ /\ q.key = Nothing
                        /\ \E x \in mem[p] : x.key = tar /\ o.key = x.id
        BY <3>2
      <3>3. CASE q.key = o.key
        BY <1>1, <3>2, <3>3
      <3>4. CASE q.key # o.key
        <4>1. PICK x \in mem[p] : x.key = tar /\ o.key = x.id
          BY <3>4
        <4>2. x.id = tar
          BY <1>1, <1>2, <4>1
        <4>3. o.id \in W
          BY <1>1, <1>2, <4>1, <4>2
        <4> QED  BY <3>2, <3>4, <4>3
      <3> QED  BY <3>3, <3>4
    <2> QED  BY <2>1, <2>2
  <1> SUFFICES ASSUME NEW o \in Renamed(objs, layer, tar)
               PROVE  o.id \in W /\ o.key \in {o.id, layer, Nothing}
    OBVIOUS
  <1> PICK q \in objs : o = IF q.key = layer THEN [q EXCEPT !.id = tar] ELSE q
    BY DEF Renamed
  <1>4. CASE q.key = layer
    <2>1. o.key = layer /\ o.id = tar
      BY <1>3, <1>4 DEF Object
    <2> QED  BY <1>2, <2>1
  <1>5. CASE q.key # layer
    BY <1>3, <1>5
  <1> QED  BY <1>4, <1>5

\* Only a build moves layers.
LEMMA MoveFits ==
    ASSUME LayerInv, NEW p \in Procs, Move(p)
    PROVE  /\ pc[p] = "move" /\ job[p].op = "build" /\ job[p] \in Job
           /\ BuildFits(pc[p], mem[p], job[p]) /\ TarFits(job[p])
  <1>1. pc[p] = "move" /\ Fits(pc[p], mem[p], job[p]) /\ job[p] \in Job
    BY LayerTypes, InvTypes DEF Move
  <1>2. job[p].op = "build"
    BY <1>1, LayerTypes DEF Fits, PullFits
  <1> QED  BY <1>1, <1>2 DEF Fits, BuildFits

\* A base layer packs to itself and stays.
LEMMA StepMoveBase ==
    ASSUME OwnUse, LayerInv, TypeInv', NEW p \in Procs, Move(p),
           job[p].todo # <<>>
    PROVE  LayerInv'
  <1> PICK tar : tar = job[p].tar
    OBVIOUS
  <1> PICK j : j = Packed(job[p], tar)
    OBVIOUS
  <1>1. /\ pc[p] = "move" /\ job[p].op = "build"
        /\ BuildFits(pc[p], mem[p], job[p]) /\ TarFits(job[p])
    BY MoveFits
  <1>2. Current(p) = tar /\ tar \in Whole /\ tar \in Layers
    BY <1>1 DEF TarFits, Current, Whole
  <1>3. UNCHANGED <<dirs, writer, mem>>
    <2>1. dirs[tar] # Nothing
      BY <1>2, LayerTypes, InvTypes DEF Whole
    <2> QED  BY <1>2, <2>1 DEF Move
  <1>4. /\ j.op = "build" /\ j.new = job[p].new /\ j.own = job[p].own
        /\ j.work = job[p].work /\ j.result = Append(job[p].result, tar)
    BY <1>1, <1>2, LayerTypes, InvTypes, PackedJob
  <1>5. ToSet(j.result) \subseteq Whole
    <2>1. job[p].result \in Seq(Layers) /\ ToSet(job[p].result) \subseteq Whole
      BY <1>1, LayerTypes, InvTypes DEF BuildFits, Job
    <2> QED  BY <1>2, <1>4, <2>1 DEF ToSet
  <1>6. Fits("layer", mem[p], j)
    BY <1>1, <1>4, <1>5 DEF Fits, BuildFits
  <1>7. /\ pc' = [pc EXCEPT ![p] = "layer"]
        /\ mem' = [mem EXCEPT ![p] = mem[p]]
        /\ job' = [job EXCEPT ![p] = j]
        /\ layersjson' \subseteq Whole
    BY <1>3, LayerTypes, InvTypes DEF Move, Goto, LayerInv
  <1> QED  BY <1>3, <1>4, <1>6, <1>7, LayerQuiet, WritersKept

\* The working layer packs to what the instructions made, and its directory
\* takes that name or goes.
LEMMA StepMoveWork ==
    ASSUME OwnUse, LayerInv, TypeInv', NEW p \in Procs, Move(p),
           job[p].todo = <<>>
    PROVE  LayerInv'
  <1> PICK layer : layer = Current(p)
    OBVIOUS
  <1> PICK tar : tar = job[p].tar
    OBVIOUS
  <1> PICK j : j = Packed(job[p], tar)
    OBVIOUS
  <1>1. /\ pc[p] = "move" /\ job[p].op = "build"
        /\ BuildFits(pc[p], mem[p], job[p]) /\ TarFits(job[p])
    BY MoveFits
  <1>2. /\ layer = job[p].own /\ layer \in Working /\ layer = job[p].work
        /\ tar = job[p].new /\ tar \in Contents /\ tar \in Layers
        /\ layer # tar /\ dirs[layer] = tar
    BY <1>1, LayerTypes, InvTypes DEF TarFits, BuildFits, Current
  <1>3. /\ dirs \in [Ids -> Layers \cup {Nothing}] /\ Contents \subseteq Layers
        /\ writer \in [Ids -> Procs \cup {Nothing}]
        /\ Layers \cap Working = {} /\ Nothing \notin Layers
    BY LayerTypes, InvTypes
  <1>4. /\ dirs'[layer] = Nothing /\ dirs'[tar] = tar
        /\ \A id \in Ids \ {layer, tar} : dirs'[id] = dirs[id]
        /\ \A id \in Ids \ {layer} : writer'[id] = writer[id]
    <2>1. dirs[tar] \in {tar, Nothing}
      BY <1>2 DEF LayerInv
    <2> QED  BY <1>2, <1>3, <2>1 DEF Move
  <1>5. /\ j.op = "build" /\ j.new = job[p].new /\ j.own = layer
        /\ j.work = Nothing /\ j.todo = <<>>
        /\ j.result = Append(job[p].result, tar)
    <2>1. job[p] \in Job /\ tar \in Layers
      BY <1>2, LayerTypes, InvTypes
    <2>2. /\ j.op = job[p].op /\ j.new = job[p].new /\ j.own = job[p].own
          /\ j.work = Nothing /\ j.todo = <<>>
          /\ j.result = Append(job[p].result, tar)
      BY <2>1, PackedJob
    <2> QED  BY <1>1, <1>2, <2>2
  <1>6. Whole \subseteq Whole' /\ tar \in Whole' /\ Whole' \in SUBSET Layers
    BY <1>2, <1>3, <1>4 DEF Whole
  <1>7. ToSet(j.result) \subseteq Whole'
    <2>1. job[p].result \in Seq(Layers) /\ ToSet(job[p].result) \subseteq Whole
      BY <1>1, LayerTypes, InvTypes DEF BuildFits, Job
    <2> QED  BY <1>5, <1>6, <2>1 DEF ToSet
  <1> PICK objs \in {mem[p], Deleted(mem[p], tar)} :
             mem' = [mem EXCEPT ![p] = Renamed(objs, layer, tar)]
    BY <1>2 DEF Move
  <1> PICK m : m = Renamed(objs, layer, tar)
    OBVIOUS
  <1>8. \A o \in m : o.id \in Whole' /\ o.key \in {o.id, layer, Nothing}
    BY <1>1, <1>2, <1>6, MovedObjects
  <1>9. Fits("layer", m, j)'
    <2>1. BuildFits("layer", m, j)'
      <3>1. \A o \in m : o.id \in Whole' /\ o.key \in {o.id, j.own, Nothing}
        BY <1>5, <1>8
      <3> QED  BY <1>1, <1>2, <1>4, <1>5, <1>7, <3>1 DEF BuildFits
    <2> QED  BY <1>5, <2>1 DEF Fits
  <1>10. \A l \in Contents : dirs'[l] \in {l, Nothing}
    BY <1>2, <1>3, <1>4 DEF LayerInv
  <1>11. \A w \in Working : w = job[p].own \/ dirs'[w] = dirs[w] \/ FreshId(w)
    BY <1>2, <1>3, <1>4
  <1>12. /\ pc' = [pc EXCEPT ![p] = "layer"] /\ mem' = [mem EXCEPT ![p] = m]
         /\ job' = [job EXCEPT ![p] = j] /\ UNCHANGED <<layersjson, images>>
    BY DEF Move, Goto
  <1>13. pc'[p] = "layer"
    BY <1>12 DEF LayerInv, TypeInv, LayerTypeOK
  <1>14. layersjson' \subseteq Whole' /\ Writes(p)'
    BY <1>6, <1>12, <1>13 DEF LayerInv, Writes
  <1>15. \A q \in Procs \ {p} : pc[q] = "files" => writer'[Current(q)] = q
    <2> TAKE q \in Procs \ {p}
    <2> HAVE pc[q] = "files"
    <2>1. writer[Current(q)] = q /\ Current(q) \in Layers
      BY LayerTypes, AtHand DEF Writes
    <2> QED  BY <1>2, <1>3, <1>4, <2>1
  <1>16. j.own \in {Nothing, job[p].own} \/ FreshId(j.own)
    BY <1>2, <1>5
  <1> QED
    BY <1>6, <1>9, <1>10, <1>11, <1>12, <1>14, <1>15, <1>16, LayerFrame

-----------------------------------------------------------------------------
LEMMA LayerStep ==
    ASSUME OwnUse, FreshPulls, LayerInv, TypeInv', NEW p \in Procs, Step(p)
    PROVE  LayerInv'
  <1>1. CASE \E image \in PullImages : PullImage(p, image)
    BY <1>1, StepPullImage
  <1>2. CASE \E base \in images \cup Bases({<<>>}), new \in Contents,
               work \in Working : Build(p, base, new, work)
    BY <1>2, StepBuild
  <1>3. CASE \/ PullLoad(p) \/ PullCreate(p) \/ Unpack(p) \/ Unpacked(p)
             \/ UnpackLost(p)
    BY <1>3, StepPullLoad, StepPullCreate, StepUnpack, StepUnpacked
    DEF UnpackLost, OwnUse
  <1>4. CASE Drop(p) \/ Tar(p) \/ Move(p) \/ BuildSave(p)
    BY <1>4, StepDrop, StepTar, StepMoveBase, StepMoveWork, StepBuildSave
  <1>5. CASE Truncate(p) \/ Write(p)
    BY <1>5, StepTruncate, StepWrite
  <1> QED  BY <1>1, <1>2, <1>3, <1>4, <1>5, StepStop DEF Step

LEMMA LayerInit == ASSUME Init PROVE LayerInv
  <1>1. \A l \in Contents : dirs[l] = Nothing
    BY LayerAssumption DEF Init
  <1>2. \A q \in Procs : /\ Fits(pc[q], mem[q], job[q]) /\ Writes(q)
                         /\ job[q].own = Nothing
    BY DEF Init, Fits, NoJob, NewJob, Writes
  <1>3. layersjson \subseteq Whole
    BY DEF Init
  <1> QED  BY <1>1, <1>2, <1>3, TypeInit DEF LayerInv

LEMMA LayerStutter == ASSUME LayerInv, UNCHANGED vars PROVE LayerInv'
  <1>1. TypeInv' /\ Whole' = Whole
    BY DEF LayerInv, TypeInv, LayerTypeOK, JobFits, Whole
  <1>2. \A q \in Procs : (Fits(pc[q], mem[q], job[q]) /\ Writes(q))'
    BY <1>1, FitsKept, LayerTypes DEF Writes
  <1> QED  BY <1>1, <1>2 DEF LayerInv

LEMMA LayerInductive ==
    ASSUME OwnUse, FreshPulls, LayerInv, [Next]_vars
    PROVE  LayerInv'
  <1>1. TypeInv'
    BY TypeInductive DEF LayerInv
  <1>2. CASE Next
    BY <1>1, <1>2, LayerStep DEF Next
  <1>3. CASE UNCHANGED vars
    BY <1>3, LayerStutter
  <1> QED  BY <1>2, <1>3

\* Whatever pulls and builds of own layers run at the same time, however often
\* a build repeats an attempt and wherever they die: as long as no layer is
\* pulled over itself, every layer that layers.json lists has its directory,
\* with the files its id is the digest of (create, extractTarGz and
\* NewImageSource come before savelayer). The list is never ahead of the files.
THEOREM ListedLayersUnpacked == ASSUME OwnUse PROVE Spec => ListedUnlessAgain
  <1>1. LayerInv => ListedUnpacked
    BY DEF LayerInv, Whole, ListedUnpacked, OwnUse
  <1>2. LayerInv /\ FreshPulls /\ [Next]_vars => LayerInv'
    BY LayerInductive
  <1> QED  BY LayerInit, <1>1, <1>2, PTL DEF Spec, ListedUnlessAgain

\* And every layer of an image that build is about to record, in any attempt,
\* has its directory under the digest the image gives it, although other builds
\* and pulls have been moving and creating directories since it was packed
\* (image.cpp:261-336).
THEOREM BuiltLayersUnpacked == ASSUME OwnUse PROVE Spec => BuiltUnlessAgain
  <1>1. ASSUME LayerInv PROVE ResultUnpacked
    <2>1. ASSUME NEW p \in Procs, pc[p] = "publish"
          PROVE  ToSet(job[p].result) \subseteq Whole
      BY <1>1, <2>1, LayerTypes DEF Fits, PullFits, BuildFits
    <2> QED  BY <2>1 DEF ResultUnpacked, Whole
  <1>2. LayerInv /\ FreshPulls /\ [Next]_vars => LayerInv'
    BY LayerInductive
  <1> QED  BY LayerInit, <1>1, <1>2, PTL DEF Spec, BuiltUnlessAgain

-----------------------------------------------------------------------------
(* The image of a build.                                                   *)

KeysOf(m) == {o.key : o \in m}

\* As long as the working layer has its directory, a build that knew the base
\* knows it still, and what is packed and what is left to pack are the base.
\* Once the working layer has been moved no attempt gets past it again.
Progress(m, j) ==
    j.op = "build" =>
        /\ j.own \in KeysOf(m)
        /\ j.work = Nothing => dirs[j.own] = Nothing
        /\ j.known =>
             IF j.work = Nothing
             THEN j.todo = <<>> /\ j.result = Append(j.base, j.new)
             ELSE dirs[j.own] # Nothing =>
                    /\ ToSet(j.base) \subseteq KeysOf(m)
                    /\ j.base = j.result \o j.todo

ImageInv == LayerInv /\ \A q \in Procs : Progress(mem[q], job[q])

LEMMA ProgressTypes ==
    ASSUME ImageInv, NEW p \in Procs
    PROVE  /\ LayerInv /\ TypeInv /\ Progress(mem[p], job[p])
           /\ Fits(pc[p], mem[p], job[p])
           /\ pc[p] \in PCs /\ mem[p] \in SUBSET Object /\ job[p] \in Job
           /\ mem' = mem => mem' = [mem EXCEPT ![p] = mem[p]]
           /\ job' = job => job' = [job EXCEPT ![p] = job[p]]
           /\ Nothing \notin Layers /\ Nothing \notin Working
           /\ Layers \cap Working = {} /\ Contents \subseteq Layers
           /\ dirs \in [Ids -> Layers \cup {Nothing}]
  BY LayerTypes, InvTypes DEF ImageInv

\* No step touches the working layer of another process.
LEMMA OwnDirs ==
    ASSUME OwnUse, LayerInv, NEW p \in Procs, Step(p), NEW q \in Procs \ {p},
           job[q].own # Nothing
    PROVE  dirs'[job[q].own] = dirs[job[q].own]
  <1> PICK own : own = job[q].own
    OBVIOUS
  <1>1. /\ own \in Working /\ own # job[p].own
        /\ dirs \in [Ids -> Layers \cup {Nothing}] /\ Layers \cap Working = {}
    BY LayerTypes, InvTypes DEF LayerInv
  <1>2. CASE PullCreate(p) \/ Unpack(p) \/ Unpacked(p)
    <2>1. Current(p) \in Layers
      BY <1>2, LayerTypes, AtHand DEF PullCreate, Unpack, Unpacked
    <2>2. Current(p) # own
      BY <1>1, <2>1
    <2> QED  BY <1>1, <1>2, <2>2 DEF PullCreate, Unpack, Unpacked
  <1>3. CASE \E base \in images \cup Bases({<<>>}), new \in Contents,
                work \in Working : Build(p, base, new, work)
    BY <1>1, <1>3 DEF Build, FreshId
  <1>4. CASE Move(p)
    <2>1. BuildFits(pc[p], mem[p], job[p]) /\ TarFits(job[p])
      BY <1>4, MoveFits
    <2>2. CASE job[p].todo = <<>>
      <3>1. Current(p) = job[p].own /\ job[p].tar \in Layers
        BY <2>1, <2>2, LayerTypes, InvTypes DEF TarFits, BuildFits, Current
      <3> QED  BY <1>1, <1>4, <3>1 DEF Move
    <2>3. CASE job[p].todo # <<>>
      <3>1. Current(p) = job[p].tar /\ job[p].tar \in Layers
        BY <2>1, <2>3 DEF TarFits, Current, Whole
      <3> QED  BY <1>1, <1>4, <3>1 DEF Move
    <2> QED  BY <2>2, <2>3
  <1>5. \/ PullCreate(p) \/ Unpack(p) \/ Unpacked(p) \/ Move(p)
        \/ \E base \in images \cup Bases({<<>>}), new \in Contents,
              work \in Working : Build(p, base, new, work)
        \/ UNCHANGED dirs
    BY DEF Step, PullImage, PullLoad, UnpackLost, PullEnd, Drop, Tar,
           PackThrows, BuildSave, Truncate, Write, Publish, Crash
  <1> QED  BY <1>2, <1>3, <1>4, <1>5

\* A step of p leaves the progress of the others alone.
LEMMA ProgressFrame ==
    ASSUME OwnUse, ImageInv, LayerInv', NEW p \in Procs, Step(p),
           NEW m, mem' = [mem EXCEPT ![p] = m],
           NEW j, job' = [job EXCEPT ![p] = j],
           Progress(m, j)'
    PROVE  ImageInv'
  <1>1. mem \in [Procs -> SUBSET Object] /\ job \in [Procs -> Job]
    BY DEF ImageInv, LayerInv, TypeInv, LayerTypeOK
  <1>2. ASSUME NEW q \in Procs PROVE Progress(mem[q], job[q])'
    <2>1. CASE q = p
      BY <1>1, <2>1
    <2>2. CASE q # p
      <3>1. mem'[q] = mem[q] /\ job'[q] = job[q] /\ Progress(mem[q], job[q])
        BY <1>1, <2>2 DEF ImageInv
      <3>2. job[q].op = "build" => job[q].own # Nothing
        <4>1. Fits(pc[q], mem[q], job[q]) /\ Nothing \notin Working
          BY ProgressTypes
        <4> QED  BY <4>1 DEF Fits, BuildFits
      <3>3. job[q].op = "build" => dirs'[job[q].own] = dirs[job[q].own]
        BY <2>2, <3>2, ProgressTypes, OwnDirs
      <3> QED  BY <3>1, <3>3 DEF Progress, KeysOf
    <2> QED  BY <2>1, <2>2
  <1> QED  BY <1>2 DEF ImageInv

\* A step that keeps what p knows and is doing, or is none of build's.
LEMMA ProgressQuiet ==
    ASSUME OwnUse, ImageInv, LayerInv', NEW p \in Procs, Step(p),
           NEW m, mem' = [mem EXCEPT ![p] = m],
           NEW j, job' = [job EXCEPT ![p] = j],
           \/ j.op # "build"
           \/ /\ dirs' = dirs /\ m = mem[p] /\ j.op = job[p].op
              /\ j.base = job[p].base /\ j.own = job[p].own
              /\ j.todo = job[p].todo /\ j.work = job[p].work
              /\ j.new = job[p].new /\ j.result = job[p].result
              /\ j.known = job[p].known
    PROVE  ImageInv'
  <1>1. Progress(m, j)'
    BY ProgressTypes DEF Progress, KeysOf
  <1> QED  BY <1>1, ProgressFrame

LEMMA TakeHead ==
    ASSUME NEW S, NEW r \in Seq(S), NEW s \in Seq(S), s # <<>>
    PROVE  /\ Append(r, Head(s)) \o Tail(s) = r \o s
           /\ Head(s) \in ToSet(r \o s)
  <1>1. Append(r, Head(s)) \o Tail(s) = r \o s
    OBVIOUS
  <1>2. (r \o s)[Len(r) + 1] = Head(s) /\ Len(r) + 1 \in DOMAIN (r \o s)
    OBVIOUS
  <1>3. Head(s) \in ToSet(r \o s)
    BY <1>2 DEF ToSet
  <1> QED  BY <1>1, <1>3

\* A build leaves a layer out only when it does not know it.
LEMMA ProgressDrop ==
    ASSUME OwnUse, ImageInv, LayerInv', NEW p \in Procs, Step(p), Drop(p)
    PROVE  ImageInv'
  <1> PICK j : j = Rest(job[p])
    OBVIOUS
  <1>1. /\ job[p].op = "build" /\ Current(p) # Nothing
        /\ Current(p) \notin KeysOf(mem[p])
        /\ mem' = mem /\ dirs' = dirs /\ job' = [job EXCEPT ![p] = j]
    BY DEF Drop, Packing, Keys, KeysOf
  <1>2. /\ job[p].todo # <<>> /\ job[p].work = job[p].own
        /\ job[p].work # Nothing
    <2>1. BuildFits(pc[p], mem[p], job[p])
      BY <1>1, ProgressTypes DEF Fits
    <2>2. job[p].todo # <<>>
      BY <1>1, <2>1, ProgressTypes DEF Current, Progress, BuildFits
    <2> QED  BY <2>1, <2>2, ProgressTypes DEF BuildFits
  <1>3. job[p].known => dirs[job[p].own] = Nothing
    <2> SUFFICES ASSUME job[p].known, dirs[job[p].own] # Nothing
                 PROVE  FALSE
      OBVIOUS
    <2>1. /\ job[p].base = job[p].result \o job[p].todo
          /\ ToSet(job[p].base) \subseteq KeysOf(mem[p])
      BY <1>1, <1>2, ProgressTypes DEF Progress
    <2>2. job[p].result \in Seq(Layers) /\ job[p].todo \in Seq(Layers)
      BY ProgressTypes DEF Job
    <2>3. Head(job[p].todo) \in ToSet(job[p].base)
      BY <1>2, <2>1, <2>2, TakeHead
    <2> QED  BY <1>1, <1>2, <2>1, <2>3 DEF Current
  <1>4. /\ j.op = "build" /\ j.work = job[p].work /\ j.own = job[p].own
        /\ j.known = job[p].known
    BY <1>1, <1>2, ProgressTypes, RestOfJob
  <1>5. Progress(mem[p], j)'
    BY <1>1, <1>2, <1>3, <1>4, ProgressTypes DEF Progress, KeysOf
  <1> QED  BY <1>1, <1>5, ProgressTypes, ProgressFrame

\* A base layer goes into the result as it is.
LEMMA ProgressMoveBase ==
    ASSUME OwnUse, ImageInv, LayerInv', NEW p \in Procs, Step(p), Move(p),
           job[p].todo # <<>>
    PROVE  ImageInv'
  <1> PICK tar : tar = job[p].tar
    OBVIOUS
  <1> PICK j : j = Packed(job[p], tar)
    OBVIOUS
  <1>1. /\ pc[p] = "move" /\ job[p].op = "build" /\ job[p] \in Job
        /\ BuildFits(pc[p], mem[p], job[p]) /\ TarFits(job[p])
        /\ job' = [job EXCEPT ![p] = j]
    BY ProgressTypes, MoveFits DEF Move
  <1>2. /\ Current(p) = tar /\ tar = Head(job[p].todo)
        /\ tar \in Whole /\ tar \in Layers
    BY <1>1 DEF TarFits, Current, Whole
  <1>3. UNCHANGED <<dirs, mem>>
    <2>1. dirs[tar] # Nothing
      BY <1>2, ProgressTypes DEF Whole
    <2> QED  BY <1>2, <2>1 DEF Move
  <1>4. /\ j.op = "build" /\ j.base = job[p].base /\ j.own = job[p].own
        /\ j.known = job[p].known
        /\ j.result = Append(job[p].result, tar)
        /\ j.work = job[p].work /\ j.todo = Tail(job[p].todo)
    BY <1>1, <1>2, PackedJob
  <1>5. j.result \o j.todo = job[p].result \o job[p].todo
    <2> PICK r : r = job[p].result
      OBVIOUS
    <2> PICK s : s = job[p].todo
      OBVIOUS
    <2>1. r \in Seq(Layers) /\ s \in Seq(Layers) /\ s # <<>>
      BY <1>1 DEF Job
    <2>2. Append(r, Head(s)) \o Tail(s) = r \o s
      BY <2>1, TakeHead
    <2> QED  BY <1>2, <1>4, <2>2
  <1>6. j.work # Nothing
    BY <1>1, <1>4, ProgressTypes DEF BuildFits
  <1>7. Progress(mem[p], j)'
    BY <1>1, <1>3, <1>4, <1>5, <1>6, ProgressTypes DEF Progress, KeysOf
  <1> QED  BY <1>1, <1>3, <1>7, ProgressTypes, ProgressFrame

\* deleteLayer leaves a record under the id of a working layer alone.
LEMMA DeletedKeeps ==
    ASSUME ImageInv, NEW p \in Procs, BuildFits(pc[p], mem[p], job[p]),
           NEW tar \in Layers, NEW o \in mem[p], o.key = job[p].own
    PROVE  \E q \in Deleted(mem[p], tar) : q.key = job[p].own /\ q \in Object
  <1> DEFINE found == {x.id : x \in {y \in mem[p] : y.key = tar}}
             q == [o EXCEPT !.key = IF @ \in found THEN Nothing ELSE @,
                            !.listed = @ /\ o.id # tar]
  <1>1. /\ o \in Object /\ job[p].own \in Working /\ job[p].own # Nothing
        /\ job[p].work \in {Nothing, job[p].own} /\ tar # job[p].own
    BY ProgressTypes DEF BuildFits
  <1>2. job[p].own \notin found
    <2>1. ASSUME NEW x \in mem[p], x.key = tar PROVE x.id # job[p].own
      <3>1. \/ x.id \in Whole /\ x.key \in {x.id, job[p].own, Nothing}
            \/ x.key = x.id /\ x.key = job[p].work
        BY DEF BuildFits
      <3> QED  BY <1>1, <2>1, <3>1, ProgressTypes DEF Whole
    <2> QED  BY <2>1
  <1>3. q.key = job[p].own /\ q \in Object
    <2> HIDE DEF found
    <2> QED  BY <1>1, <1>2 DEF Object
  <1>4. CASE found = {}
    BY <1>1, <1>4 DEF Deleted
  <1>5. CASE found # {}
    <2>1. q \in Deleted(mem[p], tar)
      BY <1>1, <1>3, <1>5 DEF Deleted
    <2> QED  BY <1>3, <2>1
  <1> QED  BY <1>4, <1>5

\* The working layer goes into the result as what the instructions made, and
\* is the last; its id is still in byid.
LEMMA ProgressMoveWork ==
    ASSUME OwnUse, ImageInv, LayerInv', NEW p \in Procs, Step(p), Move(p),
           job[p].todo = <<>>
    PROVE  ImageInv'
  <1> PICK own : own = job[p].own
    OBVIOUS
  <1> PICK tar : tar = job[p].tar
    OBVIOUS
  <1> PICK j : j = Packed(job[p], tar)
    OBVIOUS
  <1>1. /\ pc[p] = "move" /\ job[p].op = "build" /\ job[p] \in Job
        /\ BuildFits(pc[p], mem[p], job[p]) /\ TarFits(job[p])
        /\ job' = [job EXCEPT ![p] = j]
    BY ProgressTypes, MoveFits DEF Move
  <1>2. /\ Current(p) = own /\ own = job[p].work /\ own \in Working
        /\ tar = job[p].new /\ tar \in Layers /\ own # tar
        /\ dirs[own] = tar /\ dirs[own] # Nothing
    BY <1>1, ProgressTypes DEF TarFits, BuildFits, Current
  <1>3. dirs'[own] = Nothing
    BY <1>2, ProgressTypes DEF Move
  <1>4. /\ j.op = "build" /\ j.base = job[p].base /\ j.own = own
        /\ j.known = job[p].known /\ j.new = job[p].new
        /\ j.result = Append(job[p].result, tar)
        /\ j.work = Nothing /\ j.todo = <<>>
    BY <1>1, <1>2, PackedJob
  <1> PICK objs \in {mem[p], Deleted(mem[p], tar)} :
             mem' = [mem EXCEPT ![p] = Renamed(objs, own, tar)]
    BY <1>2 DEF Move
  <1> PICK m : m = Renamed(objs, own, tar)
    OBVIOUS
  <1>5. own \in KeysOf(m)
    <2>1. PICK o \in mem[p] : o.key = own
      <3>1. own \in KeysOf(mem[p])
        BY <1>1, ProgressTypes DEF Progress
      <3> QED  BY <3>1 DEF KeysOf
    <2>2. \E q \in objs : q.key = own /\ q \in Object
      <3>1. CASE objs = mem[p]
        BY <2>1, <3>1, ProgressTypes
      <3>2. CASE objs = Deleted(mem[p], tar)
        BY <1>1, <1>2, <2>1, <3>2, ProgressTypes, DeletedKeeps
      <3> QED  BY <3>1, <3>2
    <2>3. PICK q \in objs : q.key = own /\ q \in Object
      BY <2>2
    <2>4. [q EXCEPT !.id = tar] \in m /\ [q EXCEPT !.id = tar].key = own
      BY <2>3 DEF Renamed, Object
    <2> QED  BY <2>4 DEF KeysOf
  <1>6. job[p].known => job[p].base = job[p].result
    <2> HAVE job[p].known
    <2>1. job[p].base = job[p].result \o <<>>
      BY <1>1, <1>2, ProgressTypes DEF Progress
    <2>2. job[p].result \in Seq(Layers)
      BY <1>1 DEF Job
    <2> QED  BY <2>1, <2>2
  <1>7. Progress(m, j)'
    BY <1>2, <1>3, <1>4, <1>5, <1>6 DEF Progress, KeysOf
  <1> QED  BY <1>1, <1>7, ProgressFrame

LEMMA ProgressBuild ==
    ASSUME OwnUse, ImageInv, LayerInv', NEW p \in Procs, Step(p),
           NEW base \in images \cup Bases({<<>>}),
           NEW new \in Contents, NEW work \in Working,
           Build(p, base, new, work)
    PROVE  ImageInv'
  <1> PICK known : known = (ToSet(base) \subseteq layersjson)
    OBVIOUS
  <1> PICK j : j = NewJob("build", base, work, new, known)
    OBVIOUS
  <1> PICK m : m = Loaded \cup {Entry(work)}
    OBVIOUS
  <1>1. /\ j.op = "build" /\ j.work = work /\ j.own = work /\ j.base = base
        /\ j.todo = base /\ j.result = <<>> /\ j.known = known
    BY DEF NewJob
  <1>2. base \in Seq(Layers) /\ work # Nothing
    BY BaseLayers, ProgressTypes
  <1>3. work \in KeysOf(m) /\ base = <<>> \o base
    <2>1. Entry(work) \in m /\ Entry(work).key = work
      BY EntryObject
    <2>2. work \in KeysOf(m)
      BY <2>1 DEF KeysOf
    <2> QED  BY <1>2, <2>2
  <1>4. layersjson \subseteq KeysOf(m)
    <2>1. \A l \in layersjson : Entry(l) \in m /\ Entry(l).key = l
      BY DEF Loaded, Entry
    <2> QED  BY <2>1 DEF KeysOf
  <1>5. known => ToSet(base) \subseteq KeysOf(m)
    BY <1>4
  <1>6. Progress(m, j)'
    BY <1>1, <1>2, <1>3, <1>5 DEF Progress, KeysOf
  <1>7. mem' = [mem EXCEPT ![p] = m] /\ job' = [job EXCEPT ![p] = j]
    BY DEF Build
  <1> QED  BY <1>6, <1>7, ProgressFrame

\* A repeated attempt starts with the base again, or with a working layer
\* that has no directory any more.
LEMMA ProgressStop ==
    ASSUME OwnUse, ImageInv, LayerInv', NEW p \in Procs, Step(p),
           PullEnd(p) \/ PackThrows(p) \/ Publish(p) \/ Crash(p)
    PROVE  ImageInv'
  <1>1. CASE End(p)
    <2>1. NoJob.op # "build"
      BY DEF NoJob, NewJob
    <2> QED  BY <1>1, <2>1, ProgressQuiet DEF End
  <1>2. ASSUME UNCHANGED <<dirs, mem>>,
               job' = [job EXCEPT ![p] = Restarted(@)]
        PROVE  ImageInv'
    <2> PICK j : j = Restarted(job[p])
      OBVIOUS
    <2>1. /\ j.op = job[p].op /\ j.own = job[p].own /\ j.work = job[p].own
          /\ j.base = job[p].base /\ j.todo = job[p].base /\ j.result = <<>>
          /\ j.known = job[p].known /\ job[p].base \in Seq(Layers)
      BY ProgressTypes DEF Restarted, Job
    <2>2. j.base = j.result \o j.todo
      BY <2>1
    <2>3. job[p].op = "build" => job[p].own # Nothing
      BY ProgressTypes DEF Fits, BuildFits
    <2>4. Progress(mem[p], j)'
      BY <1>2, <2>1, <2>2, <2>3, ProgressTypes DEF Progress, KeysOf
    <2> QED  BY <1>2, <2>4, ProgressTypes, ProgressFrame
  <1>3. End(p) \/ (/\ UNCHANGED <<dirs, mem>>
                   /\ job' = [job EXCEPT ![p] = Restarted(@)])
    BY DEF PullEnd, PackThrows, Publish, Crash, Again
  <1> QED  BY <1>1, <1>2, <1>3

LEMMA ProgressPull ==
    ASSUME OwnUse, ImageInv, LayerInv', NEW p \in Procs, Step(p),
           \/ \E image \in PullImages : PullImage(p, image)
           \/ PullLoad(p) \/ PullCreate(p) \/ Unpack(p) \/ Unpacked(p)
    PROVE  ImageInv'
  <1>1. ASSUME NEW image, PullImage(p, image) PROVE ImageInv'
    <2>1. NewJob("pull", image, Nothing, Nothing, FALSE).op # "build"
      BY DEF NewJob
    <2> QED  BY <1>1, <2>1, ProgressTypes, ProgressQuiet DEF PullImage
  <1>2. CASE PullLoad(p) \/ PullCreate(p) \/ Unpack(p) \/ Unpacked(p)
    <2>1. job[p].op # "build"
      BY <1>2, ProgressTypes
      DEF PullLoad, PullCreate, Unpack, Unpacked, Fits, BuildFits
    <2>2. Rest(job[p]).op # "build"
      BY <2>1, ProgressTypes, RestOfJob
    <2>3. \E m : mem' = [mem EXCEPT ![p] = m]
      BY <1>2, ProgressTypes DEF PullLoad, PullCreate, Unpack, Unpacked
    <2>4. \/ job' = [job EXCEPT ![p] = job[p]]
          \/ job' = [job EXCEPT ![p] = Rest(job[p])]
      BY <1>2, ProgressTypes DEF PullLoad, PullCreate, Unpack, Unpacked
    <2> QED  BY <2>1, <2>2, <2>3, <2>4, ProgressQuiet
  <1> QED  BY <1>1, <1>2

LEMMA ProgressSave ==
    ASSUME OwnUse, ImageInv, LayerInv', NEW p \in Procs, Step(p),
           Tar(p) \/ BuildSave(p) \/ Truncate(p) \/ Write(p)
    PROVE  ImageInv'
  <1>1. CASE Tar(p)
    <2> PICK j : j = [job[p] EXCEPT !.tar = dirs[Current(p)]]
      OBVIOUS
    <2>1. UNCHANGED <<mem, dirs>> /\ job' = [job EXCEPT ![p] = j]
      BY <1>1 DEF Tar
    <2>2. /\ j.op = job[p].op /\ j.base = job[p].base /\ j.own = job[p].own
          /\ j.todo = job[p].todo /\ j.work = job[p].work
          /\ j.new = job[p].new /\ j.result = job[p].result
          /\ j.known = job[p].known
      BY ProgressTypes DEF Job
    <2> QED  BY <2>1, <2>2, ProgressTypes, ProgressQuiet
  <1>2. CASE BuildSave(p) \/ Truncate(p) \/ Write(p)
    <2>1. UNCHANGED <<dirs, mem, job>>
      BY <1>2 DEF BuildSave, Truncate, Write
    <2> QED  BY <2>1, ProgressTypes, ProgressQuiet
  <1> QED  BY <1>1, <1>2

\* As long as no layer is pulled over itself, the new image of a build of own
\* layers is its base image with the working layer on top, unless the process
\* did not find a layer of the base in layers.json: however other builds rename
\* and remove directories meanwhile, and although an attempt that throws leaves
\* directories moved and records gone for the next one (retryCopyImage,
\* NewImageSource, image.cpp:261-336).
THEOREM KnownBasesKept == ASSUME OwnUse PROVE Spec => KeptUnlessAgain
  <1>1. Init => ImageInv
    BY LayerInit DEF Init, ImageInv, Progress, NoJob, NewJob
  <1>2. ASSUME FreshPulls, ImageInv, [Next]_vars PROVE ImageInv'
    <2>1. LayerInv'
      BY <1>2, LayerInductive DEF ImageInv
    <2>2. CASE UNCHANGED vars
      BY <1>2, <2>1, <2>2 DEF ImageInv, Progress, KeysOf
    <2>3. ASSUME NEW p \in Procs, Step(p) PROVE ImageInv'
      <3>1. CASE PullEnd(p) \/ PackThrows(p) \/ Publish(p) \/ Crash(p)
        BY <1>2, <2>1, <2>3, <3>1, ProgressStop
      <3>2. CASE \E base \in images \cup Bases({<<>>}), new \in Contents,
                   work \in Working : Build(p, base, new, work)
        BY <1>2, <2>1, <2>3, <3>2, ProgressBuild
      <3>3. CASE Drop(p) \/ Move(p)
        BY <1>2, <2>1, <2>3, <3>3, ProgressDrop, ProgressMoveBase,
           ProgressMoveWork
      <3>4. CASE Tar(p) \/ BuildSave(p) \/ Truncate(p) \/ Write(p)
        BY <1>2, <2>1, <2>3, <3>4, ProgressSave
      <3>5. CASE \/ \E image \in PullImages : PullImage(p, image)
                 \/ PullLoad(p) \/ PullCreate(p) \/ Unpack(p) \/ Unpacked(p)
                 \/ UnpackLost(p)
        BY <1>2, <2>1, <2>3, <3>5, ProgressPull DEF UnpackLost, OwnUse
      <3> QED  BY <2>3, <3>1, <3>2, <3>3, <3>4, <3>5 DEF Step
    <2> QED  BY <1>2, <2>2, <2>3 DEF Next
  <1>3. ASSUME ImageInv PROVE KnownBaseKept
    <2> SUFFICES ASSUME NEW p \in Procs, pc[p] = "publish", job[p].known
                 PROVE  job[p].result = Append(Repacked(job[p].base), job[p].new)
      BY DEF KnownBaseKept
    <2>1. job[p].op = "build" /\ job[p].work = Nothing
      BY <1>3, ProgressTypes DEF Fits, PullFits, BuildFits, Job
    <2>2. job[p].result = Append(job[p].base, job[p].new)
      BY <1>3, <2>1, ProgressTypes DEF Progress
    <2>3. job[p].base \in Seq(Layers)
      BY <1>3, ProgressTypes DEF Job
    <2>4. Repacked(job[p].base) = job[p].base
      BY <2>3 DEF Repacked, OwnUse
    <2> QED  BY <2>2, <2>4
  <1>4. ImageInv /\ FreshPulls /\ [Next]_vars => ImageInv'
    BY <1>2
  <1> QED  BY <1>1, <1>3, <1>4, PTL DEF Spec, KeptUnlessAgain

-----------------------------------------------------------------------------
(* One command at a time, whoever made the layers.                         *)

Pulled == UNION {ToSet(image) : image \in PullImages}

\* What a directory may be packed to without having been called so before.
Made == Contents \cup {Partial}
          \cup {Repack[l] : l \in {k \in Pulled : Repack[k] # k}}

\* Blobs may be lost and commands may die, unless some layer is both pulled
\* and made by builds: its directory may then be there without its files when
\* a build finds that it has made it.
AloneUse ==
    /\ \A p, q \in Procs : p = q
    /\ LostBlobs \/ Crashes => Pulled \cap Made \subseteq {Partial}

DirsNamed == \A id \in Ids : dirs[id] \in {Nothing, id} \cup Made

\* A pull that ends well has begun with the directory of l.
Filling(l) ==
    /\ ~LostBlobs /\ ~Crashes
    /\ \E p \in Procs : pc[p] \in {"unpack", "files"} /\ Current(p) = l

MadeUnpacked == \A l \in Made : dirs[l] \in {Nothing, l} \/ Filling(l)

AloneFits(s, j) ==
    /\ j.op = "pull" =>
         /\ s \notin {"move", "publish"}
         /\ ToSet(j.todo) \subseteq Pulled
    /\ j.op = "build" =>
         /\ s \notin {"unpack", "files"}
         /\ ToSet(j.result) \subseteq Whole
         /\ s = "move" =>
              j.tar = dirs[IF j.todo = <<>> THEN j.work ELSE Head(j.todo)]
    /\ j.op = "none" => s = "idle"

AloneInv ==
    /\ TypeInv
    /\ DirsNamed
    /\ MadeUnpacked
    /\ \A p \in Procs : AloneFits(pc[p], job[p]) /\ Writes(p)

LEMMA MadeLayers ==
    /\ Made \subseteq Layers
    /\ \A l \in Made : Repack[l] = l
    /\ Partial \in Made /\ Contents \subseteq Made
  <1>1. ASSUME NEW image \in PullImages PROVE ToSet(image) \subseteq Layers
    BY LayerAssumption DEF ToSet
  <1>2. Pulled \subseteq Layers
    BY <1>1 DEF Pulled
  <1> QED  BY <1>2, LayerAssumption DEF Made

LEMMA AloneTypes ==
    ASSUME AloneInv, NEW p \in Procs
    PROVE  /\ TypeInv /\ AloneFits(pc[p], job[p]) /\ Writes(p)
           /\ dirs \in [Ids -> Layers \cup {Nothing}]
           /\ writer \in [Ids -> Procs \cup {Nothing}]
           /\ pc[p] \in PCs /\ job[p] \in Job
           /\ Current(p) = IF job[p].todo = <<>> THEN job[p].work
                           ELSE Head(job[p].todo)
           /\ Nothing \notin Layers /\ Nothing \notin Working
           /\ Layers \cap Working = {}
           /\ pc' = pc => pc' = [pc EXCEPT ![p] = pc[p]]
           /\ job' = job => job' = [job EXCEPT ![p] = job[p]]
  BY InvTypes DEF AloneInv, Current

\* There is one process: it is enough to look at it.
LEMMA AloneFrame ==
    ASSUME AloneUse, AloneInv, TypeInv', NEW p \in Procs,
           NEW s, pc' = [pc EXCEPT ![p] = s],
           NEW j, job' = [job EXCEPT ![p] = j],
           AloneFits(s, j)', Writes(p)', DirsNamed',
           \A l \in Made : dirs'[l] \in {Nothing, l} \/ Filling(l)'
    PROVE  AloneInv'
  <1>1. pc \in [Procs -> PCs] /\ job \in [Procs -> Job]
    BY DEF AloneInv, TypeInv, LayerTypeOK
  <1>2. \A q \in Procs : q = p
    BY DEF AloneUse
  <1>3. MadeUnpacked'
    BY DEF MadeUnpacked, Made
  <1>4. pc'[p] = s /\ job'[p] = j
    BY <1>1
  <1>5. AloneFits(pc[p], job[p])'
    BY <1>4 DEF AloneFits
  <1> QED  BY <1>2, <1>3, <1>5 DEF AloneInv

LEMMA AloneQuiet ==
    ASSUME AloneUse, AloneInv, TypeInv', NEW p \in Procs, UNCHANGED dirs,
           NEW s, s # "files", pc' = [pc EXCEPT ![p] = s],
           NEW j, job' = [job EXCEPT ![p] = j],
           AloneFits(s, j),
           pc[p] \notin {"unpack", "files"} \/ LostBlobs \/ Crashes
    PROVE  AloneInv'
  <1>1. AloneFits(s, j)' /\ DirsNamed'
    BY DEF AloneFits, AloneInv, DirsNamed, Whole, Made
  <1>2. \A q \in Procs : q = p
    BY DEF AloneUse
  <1>3. \A l \in Made : dirs'[l] \in {Nothing, l}
    BY <1>2 DEF AloneInv, MadeUnpacked, Filling
  <1>4. pc'[p] = s
    BY DEF AloneInv, TypeInv, LayerTypeOK
  <1>5. Writes(p)'
    BY <1>4 DEF Writes
  <1> QED  BY <1>1, <1>3, <1>5, AloneFrame

LEMMA AloneEnd ==
    ASSUME AloneUse, AloneInv, TypeInv', NEW p \in Procs, End(p),
           UNCHANGED dirs, pc[p] \notin {"unpack", "files"} \/ Crashes
    PROVE  AloneInv'
  <1> PICK j : j = NoJob
    OBVIOUS
  <1>1. AloneFits("idle", j)
    BY DEF AloneFits, NoJob, NewJob
  <1>2. pc' = [pc EXCEPT ![p] = "idle"] /\ job' = [job EXCEPT ![p] = j]
    BY DEF End, Goto
  <1> QED  BY <1>1, <1>2, AloneQuiet

\* A command ends, or a build begins an attempt again, with no result yet.
LEMMA AloneStop ==
    ASSUME AloneUse, AloneInv, TypeInv', NEW p \in Procs,
           PullEnd(p) \/ PackThrows(p) \/ Publish(p) \/ Crash(p)
    PROVE  AloneInv'
  <1>1. UNCHANGED dirs /\ (pc[p] \notin {"unpack", "files"} \/ Crashes)
    BY DEF PullEnd, PackThrows, Packing, Publish, Crash
  <1>2. CASE End(p)
    BY <1>1, <1>2, AloneEnd
  <1>3. ASSUME Goto(p, "layer"), job' = [job EXCEPT ![p] = Restarted(@)],
               PackThrows(p) \/ Publish(p)
        PROVE  AloneInv'
    <2> PICK j : j = Restarted(job[p])
      OBVIOUS
    <2>1. j.op = job[p].op /\ j.result = <<>> /\ job[p] \in Job
      BY AloneTypes DEF Restarted, Job
    <2>2. ToSet(j.result) = {}
      BY <2>1 DEF ToSet
    <2>3. job[p].op = "build"
      <3>1. pc[p] \in {"move", "publish"} \/ job[p].op = "build"
        BY <1>3 DEF PackThrows, Packing, Publish
      <3> QED  BY <3>1, AloneTypes DEF AloneFits, Job
    <2>4. AloneFits("layer", j)
      BY <2>1, <2>2, <2>3 DEF AloneFits
    <2>5. pc' = [pc EXCEPT ![p] = "layer"] /\ job' = [job EXCEPT ![p] = j]
      BY <1>3 DEF Goto
    <2> QED  BY <1>1, <2>4, <2>5, AloneQuiet
  <1> QED  BY <1>2, <1>3 DEF PullEnd, PackThrows, Publish, Crash, Again

\* The steps that leave the directories alone.
LEMMA AloneStays ==
    ASSUME AloneUse, AloneInv, TypeInv', NEW p \in Procs,
           \/ \E image \in PullImages : PullImage(p, image)
           \/ PullLoad(p) \/ Drop(p) \/ Tar(p)
           \/ BuildSave(p) \/ Truncate(p) \/ Write(p)
    PROVE  AloneInv'
  <1>1. CASE \E image \in PullImages : PullImage(p, image)
    <2> PICK image \in PullImages : PullImage(p, image)
      BY <1>1
    <2> PICK j : j = NewJob("pull", image, Nothing, Nothing, FALSE)
      OBVIOUS
    <2>1. ToSet(image) \subseteq Pulled
      BY DEF Pulled
    <2>2. AloneFits("load", j)
      BY <2>1 DEF AloneFits, NewJob
    <2>3. /\ pc' = [pc EXCEPT ![p] = "load"] /\ job' = [job EXCEPT ![p] = j]
          /\ UNCHANGED dirs /\ pc[p] = "idle"
      BY DEF PullImage, Goto
    <2> QED  BY <2>2, <2>3, AloneQuiet
  <1>2. CASE PullLoad(p)
    <2>1. AloneFits("layer", job[p])
      BY <1>2, AloneTypes DEF AloneFits, PullLoad
    <2> QED  BY <1>2, <2>1, AloneTypes, AloneQuiet DEF PullLoad, Goto
  <1>3. CASE Drop(p)
    <2> PICK j : j = Rest(job[p])
      OBVIOUS
    <2>1. /\ j.op = job[p].op /\ j.result = job[p].result
      BY AloneTypes, RestOfJob
    <2>2. AloneFits("layer", j)
      BY <1>3, <2>1, AloneTypes DEF AloneFits, Drop, Packing
    <2> QED  BY <1>3, <2>2, AloneTypes, AloneQuiet DEF Drop, Packing
  <1>4. CASE Tar(p)
    <2> PICK j : j = [job[p] EXCEPT !.tar = dirs[Current(p)]]
      OBVIOUS
    <2>1. /\ j.op = "build" /\ j.result = job[p].result
          /\ j.todo = job[p].todo /\ j.work = job[p].work
          /\ j.tar = dirs[Current(p)]
      BY <1>4, AloneTypes DEF Tar, Packing, Job
    <2>2. AloneFits("move", j)
      BY <1>4, <2>1, AloneTypes DEF AloneFits, Tar, Packing
    <2> QED  BY <1>4, <2>2, AloneQuiet DEF Tar, Packing, Goto
  <1>5. CASE BuildSave(p) \/ Truncate(p) \/ Write(p)
    <2>1. PICK s : /\ pc' = [pc EXCEPT ![p] = s]
                   /\ s \in {"truncate", "write", "layer", "publish"}
                   /\ s = "publish" => job[p].op # "pull"
      BY <1>5 DEF BuildSave, Truncate, Write, Goto
    <2>2. /\ UNCHANGED <<dirs, job>> /\ pc[p] \notin {"unpack", "files", "idle"}
      BY <1>5 DEF BuildSave, Truncate, Write
    <2>3. AloneFits(s, job[p])
      BY <2>1, <2>2, AloneTypes DEF AloneFits
    <2> QED  BY <2>1, <2>2, <2>3, AloneTypes, AloneQuiet
  <1> QED  BY <1>1, <1>2, <1>3, <1>4, <1>5

\* The layer a pull is at.
LEMMA AlonePulls ==
    ASSUME AloneUse, AloneInv, NEW p \in Procs,
           PullCreate(p) \/ Unpack(p) \/ Unpacked(p) \/ UnpackLost(p)
    PROVE  /\ job[p].todo # <<>> /\ job[p].op = "pull"
           /\ Current(p) \in Layers /\ Current(p) \in Pulled
           /\ \A l \in Made \ {Current(p)} : dirs[l] \in {Nothing, l}
           /\ Current(p) \in Made /\ (LostBlobs \/ Crashes) =>
                Current(p) = Partial
  <1>1. /\ job[p].todo # <<>> /\ job[p].op = "pull"
    BY AloneTypes, InvTypes
    DEF PullCreate, Unpack, Unpacked, UnpackLost, JobFits, AloneFits, Job
  <1>2. Current(p) \in Layers /\ Current(p) \in Pulled
    <2>1. Head(job[p].todo) \in ToSet(job[p].todo)
      BY <1>1, AloneTypes DEF Job, ToSet
    <2> QED  BY <1>1, <2>1, AloneTypes, AtHand DEF AloneFits
  <1>3. \A l \in Made \ {Current(p)} : dirs[l] \in {Nothing, l}
    BY DEF AloneInv, MadeUnpacked, Filling, AloneUse
  <1> QED  BY <1>1, <1>2, <1>3 DEF AloneUse

\* A layer that builds make is only pulled when pulls end well, or lacks files
\* anyway.
LEMMA AlonePull ==
    ASSUME AloneUse, AloneInv, TypeInv', NEW p \in Procs,
           PullCreate(p) \/ Unpack(p) \/ Unpacked(p) \/ UnpackLost(p)
    PROVE  AloneInv'
  <1> PICK id : id = Current(p)
    OBVIOUS
  <1>1. /\ job[p].todo # <<>> /\ job[p].op = "pull"
        /\ id \in Layers /\ id \in Pulled
        /\ \A l \in Made \ {id} : dirs[l] \in {Nothing, l}
        /\ id \in Made /\ (LostBlobs \/ Crashes) => id = Partial
    BY AlonePulls
  <1>2. ASSUME PullCreate(p) \/ Unpack(p)
        PROVE  AloneInv'
    <2>1. PICK s : /\ pc' = [pc EXCEPT ![p] = s] /\ s \in {"unpack", "files"}
                   /\ PullCreate(p) => s = "unpack"
      BY <1>2 DEF PullCreate, Unpack, Goto
    <2>2. /\ UNCHANGED job /\ pc'[p] = s /\ job' = [job EXCEPT ![p] = job[p]]
      BY <1>2, <2>1, AloneTypes DEF PullCreate, Unpack, AloneInv, TypeInv, LayerTypeOK
    <2>3. AloneFits(s, job[p])'
      BY <1>1, <2>1, <2>2, AloneTypes DEF AloneFits
    <2>4. /\ dirs'[id] \in {dirs[id], Partial} /\ dirs'[id] # Nothing
          /\ \A l \in Ids \ {id} : dirs'[l] = dirs[l]
      BY <1>1, <1>2, AloneTypes, LayerAssumption DEF PullCreate, Unpack
    <2>5. DirsNamed'
      BY <1>1, <2>4, AloneTypes, MadeLayers DEF AloneInv, DirsNamed, Made
    <2>6. ASSUME NEW l \in Made
          PROVE  dirs'[l] \in {Nothing, l} \/ Filling(l)'
      <3>1. CASE l # id
        BY <1>1, <2>4, <3>1, MadeLayers
      <3>2. CASE l = id /\ (LostBlobs \/ Crashes)
        <4>1. id = Partial
          BY <1>1, <3>2
        <4>2. dirs[id] \in {Nothing, id}
          BY <1>1, <3>2 DEF AloneInv, MadeUnpacked, Filling
        <4> QED  BY <2>4, <3>2, <4>1, <4>2
      <3>3. CASE l = id /\ ~LostBlobs /\ ~Crashes
        <4>1. Current(p)' = id
          BY <2>2 DEF Current
        <4> QED  BY <2>1, <2>2, <3>3, <4>1 DEF Filling
      <3> QED  BY <3>1, <3>2, <3>3
    <2>7. Writes(p)'
      <3>1. CASE s = "unpack"
        BY <2>2, <3>1 DEF Writes
      <3>2. CASE s = "files"
        <4>1. Unpack(p)
          BY <1>2, <2>1, <3>2
        <4>2. writer'[id] = p
          BY <1>1, <4>1, AloneTypes DEF Unpack, AloneUse
        <4> QED  BY <2>2, <4>2 DEF Writes, Current
      <3> QED  BY <2>1, <3>1, <3>2
    <2> QED  BY <2>1, <2>2, <2>3, <2>5, <2>6, <2>7, AloneFrame
  <1>3. ASSUME Unpacked(p) \/ UnpackLost(p)
        PROVE  AloneInv'
    <2> PICK j : j = Rest(job[p])
      OBVIOUS
    <2>1. pc' = [pc EXCEPT ![p] = "truncate"] /\ job' = [job EXCEPT ![p] = j]
      BY <1>3 DEF Unpacked, UnpackLost, Goto
    <2>2. j.op = "pull" /\ j.todo = Tail(job[p].todo)
      BY <1>1, AloneTypes, RestOfJob
    <2>3. ToSet(j.todo) \subseteq Pulled
      <3>1. ToSet(Tail(job[p].todo)) \subseteq ToSet(job[p].todo)
        BY <1>1, AloneTypes DEF Job, ToSet
      <3> QED  BY <1>1, <2>2, <3>1, AloneTypes DEF AloneFits
    <2>4. AloneFits("truncate", j) /\ AloneFits("truncate", j)'
      BY <2>2, <2>3 DEF AloneFits, Pulled
    <2>5. CASE UnpackLost(p)
      <3>1. UNCHANGED dirs /\ LostBlobs
        BY <2>5 DEF UnpackLost
      <3> QED  BY <2>1, <2>4, <3>1, AloneQuiet
    <2>6. CASE Unpacked(p)
      <3>1. /\ \A l \in Ids \ {id} : dirs'[l] = dirs[l]
            /\ \/ dirs'[id] = Repack[id]
               \/ LostBlobs /\ dirs'[id] = Partial
        <4>1. writer[id] = p
          BY <2>6, AloneTypes DEF Unpacked, Writes
        <4> QED  BY <1>1, <2>6, <4>1, AloneTypes DEF Unpacked
      <3>2. Repack[id] \in {id} \cup Made
        BY <1>1 DEF Made
      <3>3. DirsNamed'
        BY <1>1, <3>1, <3>2, MadeLayers DEF AloneInv, DirsNamed, Made
      <3>4. ASSUME NEW l \in Made PROVE dirs'[l] \in {Nothing, l}
        <4>1. CASE l # id
          BY <1>1, <3>1, <4>1, MadeLayers
        <4>2. CASE l = id
          BY <1>1, <3>1, <4>2, MadeLayers
        <4> QED  BY <4>1, <4>2
      <3>5. pc'[p] = "truncate"
        BY <2>1 DEF AloneInv, TypeInv, LayerTypeOK
      <3>6. Writes(p)'
        BY <3>5 DEF Writes
      <3> QED  BY <2>1, <2>4, <3>3, <3>4, <3>6, AloneFrame
    <2> QED  BY <1>3, <2>5, <2>6
  <1> QED  BY <1>2, <1>3

LEMMA AloneBuild ==
    ASSUME AloneUse, AloneInv, TypeInv', NEW p \in Procs,
           NEW base \in images \cup Bases({<<>>}), NEW new \in Contents,
           NEW work \in Working, Build(p, base, new, work)
    PROVE  AloneInv'
  <1> PICK known : known = (ToSet(base) \subseteq layersjson)
    OBVIOUS
  <1> PICK j : j = NewJob("build", base, work, new, known)
    OBVIOUS
  <1>1. /\ dirs' = [dirs EXCEPT ![work] = new] /\ pc[p] = "idle"
        /\ pc' = [pc EXCEPT ![p] = "layer"] /\ job' = [job EXCEPT ![p] = j]
    BY DEF Build, Goto
  <1>2. AloneFits("layer", j)'
    BY DEF AloneFits, NewJob, ToSet
  <1>3. DirsNamed'
    BY <1>1, AloneTypes, MadeLayers DEF AloneInv, DirsNamed, Made
  <1>4. ASSUME NEW l \in Made PROVE dirs'[l] \in {Nothing, l}
    <2>1. dirs[l] \in {Nothing, l}
      BY <1>1 DEF AloneInv, MadeUnpacked, Filling, AloneUse
    <2> QED  BY <1>1, <2>1, AloneTypes, MadeLayers
  <1>5. pc'[p] = "layer"
    BY <1>1 DEF AloneInv, TypeInv, LayerTypeOK
  <1>6. Writes(p)'
    BY <1>5 DEF Writes
  <1> QED  BY <1>1, <1>2, <1>3, <1>4, <1>6, AloneFrame

\* What is moved has its name or one that builds make, under which there is
\* nothing else.
LEMMA AloneMove ==
    ASSUME AloneUse, AloneInv, TypeInv', NEW p \in Procs, Move(p)
    PROVE  AloneInv'
  <1> PICK layer : layer = Current(p)
    OBVIOUS
  <1> PICK tar : tar = job[p].tar
    OBVIOUS
  <1> PICK j : j = Packed(job[p], tar)
    OBVIOUS
  <1>1. /\ pc[p] = "move"
        /\ pc' = [pc EXCEPT ![p] = "layer"] /\ job' = [job EXCEPT ![p] = j]
        /\ \/ Exists(tar) /\ layer # tar /\ dirs' = [dirs EXCEPT ![layer] = Nothing]
           \/ layer = tar /\ dirs' = dirs
           \/ ~Exists(tar) /\ dirs' = [dirs EXCEPT ![tar] = dirs[layer],
                                                   ![layer] = Nothing]
    BY DEF Move, Goto
  <1>2. layer \in Ids /\ tar \in Layers /\ layer # Nothing /\ tar # Nothing
    BY <1>1, AtHand, LayerAssumption DEF AloneInv
  <1>3. /\ job[p].op = "build" /\ tar = dirs[layer]
        /\ ToSet(job[p].result) \subseteq Whole
    BY <1>1, AloneTypes DEF AloneFits, Job
  <1>4. \A l \in Made : dirs[l] \in {Nothing, l}
    BY <1>1 DEF AloneInv, MadeUnpacked, Filling, AloneUse
  <1>5. tar \in {layer} \cup Made
    BY <1>2, <1>3 DEF AloneInv, DirsNamed
  <1>6. /\ \A id \in Ids : dirs'[id] \in {dirs[id], Nothing, tar}
        /\ \A id \in Ids : dirs'[id] # dirs[id] => id \in {layer, tar}
        /\ dirs'[tar] = tar
        /\ layer # tar => dirs'[layer] = Nothing
    BY <1>1, <1>2, <1>3, <1>4, <1>5, AloneTypes
  <1>7. DirsNamed'
    <2>1. CASE layer = tar
      BY <1>1, <1>2, <1>3, <2>1, AloneTypes DEF AloneInv, DirsNamed, Made
    <2>2. CASE layer # tar
      BY <1>5, <1>6, <2>2 DEF AloneInv, DirsNamed, Made
    <2> QED  BY <2>1, <2>2
  <1>8. ASSUME NEW l \in Made PROVE dirs'[l] \in {Nothing, l}
    <2>1. l \in Ids
      BY MadeLayers
    <2> QED  BY <1>4, <1>6, <2>1
  <1>9. AloneFits("layer", j)'
    <2>1. j.op = "build" /\ ToSet(j.result) \subseteq ToSet(job[p].result) \cup {tar}
      <3>1. /\ j.op = "build" /\ j.result = Append(job[p].result, tar)
            /\ job[p].result \in Seq(Layers)
        BY <1>2, <1>3, AloneTypes, PackedJob DEF Job
      <3> QED  BY <1>2, <3>1 DEF ToSet
    <2>2. ASSUME NEW l \in ToSet(job[p].result) PROVE dirs'[l] = l
      <3>1. l \in Layers /\ dirs[l] = l
        BY <1>3 DEF Whole
      <3> QED  BY <1>3, <1>6, <3>1
    <2>3. ToSet(j.result) \subseteq Whole'
      <3>1. ASSUME NEW l \in ToSet(j.result) PROVE l \in Layers /\ dirs'[l] = l
        BY <1>2, <1>3, <1>6, <2>1, <2>2 DEF Whole
      <3> QED  BY <3>1 DEF Whole
    <2> QED  BY <2>1, <2>3 DEF AloneFits
  <1>10. pc'[p] = "layer"
    BY <1>1 DEF AloneInv, TypeInv, LayerTypeOK
  <1>11. Writes(p)'
    BY <1>10 DEF Writes
  <1> QED  BY <1>1, <1>7, <1>8, <1>9, <1>11, AloneFrame

LEMMA AloneInit == Init => AloneInv
  <1> SUFFICES ASSUME Init PROVE AloneInv
    OBVIOUS
  <1>1. TypeInv
    BY TypeInit
  <1>2. DirsNamed /\ MadeUnpacked
    BY MadeLayers DEF Init, DirsNamed, MadeUnpacked
  <1> QED
    BY <1>1, <1>2 DEF Init, AloneInv, AloneFits, NoJob, NewJob, Writes

LEMMA AloneInductive ==
    ASSUME AloneUse, AloneInv, [Next]_vars
    PROVE  AloneInv'
  <1>1. TypeInv'
    BY TypeInductive DEF AloneInv
  <1>2. CASE UNCHANGED vars
    BY <1>1, <1>2
    DEF AloneInv, DirsNamed, MadeUnpacked, Filling, AloneFits, Whole, Current,
        Made, Writes
  <1>3. ASSUME NEW p \in Procs, Step(p) PROVE AloneInv'
    <2>1. CASE PullEnd(p) \/ PackThrows(p) \/ Crash(p) \/ Publish(p)
      BY <1>1, <2>1, AloneStop
    <2>2. CASE \E base \in images \cup Bases({<<>>}), new \in Contents,
                 work \in Working : Build(p, base, new, work)
      BY <1>1, <2>2, AloneBuild
    <2> QED
      BY <1>1, <1>3, <2>1, <2>2, AloneStays, AlonePull, AloneMove DEF Step
  <1> QED  BY <1>2, <1>3 DEF Next

\* One command at a time, whoever made the layers, whatever blobs pull has
\* lost, however often a layer is pulled over itself or an attempt is repeated
\* and wherever commands have died: every layer of an image that build is about
\* to record has its directory under the digest the image gives it
\* (NewImageSource, image.cpp:261-336).  No layer that builds make may be lost
\* half pulled, for build takes its directory for the files it has packed.
THEOREM AloneLayersUnpacked == ASSUME AloneUse PROVE Spec => []ResultUnpacked
  <1>1. ASSUME AloneInv PROVE ResultUnpacked
    <2>1. ASSUME NEW p \in Procs, pc[p] = "publish"
          PROVE  ToSet(job[p].result) \subseteq Whole
      BY <1>1, <2>1, AloneTypes DEF AloneFits, Job
    <2> QED  BY <2>1 DEF ResultUnpacked, Whole
  <1> QED  BY <1>1, AloneInit, AloneInductive, PTL DEF Spec

-----------------------------------------------------------------------------
(* One command at a time over the images of other tools.                   *)

Unmixed(image) ==
    \A l \in ToSet(image) : Repack[l] # l => Repack[l] \notin ToSet(image)

\* Nothing dies and no blob is lost: a layer that builds make may then be
\* pulled as well, and layers may pack to anything that is not in their image.
BaseUse ==
    /\ \A p, q \in Procs : p = q
    /\ ~LostBlobs /\ ~Crashes
    /\ \A image \in PullImages : Unmixed(image)

PacksRight == \A l \in Layers : dirs[l] \in {Nothing, Repack[l]} \/ Filling(l)

\* A record is found under a digest that build makes as that very layer.
RecordsRight(m) == \A o \in m : o.key \in Layers /\ Repack[o.key] = o.key
                                  => o.id = o.key

\* As long as the working layer has its directory, a build that knew the base
\* knows it still, and what is packed and what the rest packs to are what the
\* base packs to.  Once the working layer has been moved no attempt gets past
\* it again.
OnWay(m, j) ==
    /\ j.new \in Contents
    /\ j.own \in Working /\ j.own \in KeysOf(m)
    /\ j.work \in {Nothing, j.own}
    /\ dirs[j.own] \in {Nothing, j.new}
    /\ Unmixed(j.base)
    /\ \A l \in ToSet(j.result) : Repack[l] = l
    /\ ToSet(j.todo) \subseteq ToSet(j.base)
    /\ j.work = Nothing => j.todo = <<>> /\ dirs[j.own] = Nothing
    /\ j.known =>
         IF j.work = Nothing
         THEN j.result = Append(Repacked(j.base), j.new)
         ELSE dirs[j.own] # Nothing =>
                /\ ToSet(j.base) \subseteq KeysOf(m)
                /\ j.result \o Repacked(j.todo) = Repacked(j.base)

BaseFits(s, m, j) ==
    /\ RecordsRight(m)
    /\ j.op = "build" =>
         /\ s # "load" /\ OnWay(m, j)
         /\ s \in {"truncate", "write", "publish"} => j.work = Nothing

BaseInv ==
    /\ AloneInv
    /\ PacksRight
    /\ \A image \in images : Unmixed(image)
    /\ \A p \in Procs : BaseFits(pc[p], mem[p], job[p])

LEMMA RepackedParts ==
    ASSUME NEW s \in Seq(Layers)
    PROVE  /\ Repacked(s) \in Seq(Layers)
           /\ s = <<>> => Repacked(s) = <<>>
           /\ s # <<>> => /\ Repacked(s) # <<>>
                          /\ Head(Repacked(s)) = Repack[Head(s)]
                          /\ Tail(Repacked(s)) = Repacked(Tail(s))
  <1>1. /\ Repacked(s) \in Seq(Layers) /\ Len(Repacked(s)) = Len(s)
        /\ \A i \in 1..Len(s) : Repacked(s)[i] = Repack[s[i]]
    BY LayerAssumption DEF Repacked
  <1>2. s = <<>> => Repacked(s) = <<>>
    BY DEF Repacked
  <1>3. ASSUME s # <<>>
        PROVE  /\ Repacked(s) # <<>> /\ Head(Repacked(s)) = Repack[Head(s)]
               /\ Tail(Repacked(s)) = Repacked(Tail(s))
    <2>1. Repacked(s) # <<>> /\ Head(Repacked(s)) = Repack[Head(s)]
      BY <1>1, <1>3
    <2>2. Tail(s) \in Seq(Layers) /\ Len(Tail(s)) = Len(s) - 1
          /\ \A i \in 1..(Len(s) - 1) : Tail(s)[i] = s[i + 1]
      BY <1>3
    <2>3. /\ Repacked(Tail(s)) \in Seq(Layers)
          /\ Len(Repacked(Tail(s))) = Len(s) - 1
          /\ \A i \in 1..(Len(s) - 1) : Repacked(Tail(s))[i] = Repack[s[i + 1]]
      BY <2>2, LayerAssumption DEF Repacked
    <2>4. /\ Tail(Repacked(s)) \in Seq(Layers)
          /\ Len(Tail(Repacked(s))) = Len(s) - 1
          /\ \A i \in 1..(Len(s) - 1) : Tail(Repacked(s))[i] = Repacked(s)[i + 1]
      BY <1>1, <2>1
    <2> QED  BY <1>1, <2>1, <2>3, <2>4
  <1> QED  BY <1>1, <1>2, <1>3

LEMMA BaseTypes ==
    ASSUME BaseUse, BaseInv, NEW p \in Procs
    PROVE  /\ AloneInv /\ BaseFits(pc[p], mem[p], job[p])
           /\ mem[p] \in SUBSET Object
           /\ \A image \in images : Unmixed(image)
           /\ mem' = mem => mem' = [mem EXCEPT ![p] = mem[p]]
           /\ pc[p] \notin {"unpack", "files"} =>
                \A l \in Layers : dirs[l] \in {Nothing, Repack[l]}
  <1>1. AloneInv /\ BaseFits(pc[p], mem[p], job[p])
    BY DEF BaseInv
  <1>2. TypeInv /\ mem \in [Procs -> SUBSET Object]
    BY <1>1, AloneTypes DEF TypeInv, LayerTypeOK
  <1>3. \A q \in Procs : q = p
    BY DEF BaseUse
  <1>4. ASSUME pc[p] \notin {"unpack", "files"}, NEW l \in Layers
        PROVE  dirs[l] \in {Nothing, Repack[l]}
    BY <1>3, <1>4 DEF BaseInv, PacksRight, Filling
  <1> QED  BY <1>1, <1>2, <1>4 DEF BaseInv

\* There is one process: it is enough to look at it.
LEMMA BaseFrame ==
    ASSUME BaseUse, BaseInv, AloneInv', NEW p \in Procs,
           \A image \in images' : Unmixed(image),
           NEW s, pc' = [pc EXCEPT ![p] = s],
           NEW m, mem' = [mem EXCEPT ![p] = m],
           NEW j, job' = [job EXCEPT ![p] = j],
           BaseFits(s, m, j)',
           \A l \in Layers : dirs'[l] \in {Nothing, Repack[l]} \/ Filling(l)'
    PROVE  BaseInv'
  <1>1. /\ pc \in [Procs -> PCs] /\ job \in [Procs -> Job]
        /\ mem \in [Procs -> SUBSET Object]
    BY DEF BaseInv, AloneInv, TypeInv, LayerTypeOK
  <1>2. \A q \in Procs : q = p
    BY DEF BaseUse
  <1>3. pc'[p] = s /\ mem'[p] = m /\ job'[p] = j
    BY <1>1
  <1>4. BaseFits(pc[p], mem[p], job[p])'
    BY <1>3 DEF BaseFits, OnWay, KeysOf, RecordsRight
  <1>5. PacksRight'
    BY DEF PacksRight
  <1>6. \A image \in images' : Unmixed(image)'
    BY DEF Unmixed
  <1> QED  BY <1>2, <1>4, <1>5, <1>6 DEF BaseInv

\* A step that leaves the directories and the images alone.
LEMMA BaseQuiet ==
    ASSUME BaseUse, BaseInv, AloneInv', NEW p \in Procs,
           UNCHANGED dirs, \A image \in images' : Unmixed(image),
           pc[p] \notin {"unpack", "files"},
           NEW s, pc' = [pc EXCEPT ![p] = s],
           NEW m, mem' = [mem EXCEPT ![p] = m],
           NEW j, job' = [job EXCEPT ![p] = j],
           BaseFits(s, m, j)
    PROVE  BaseInv'
  <1>1. BaseFits(s, m, j)'
    BY DEF BaseFits, OnWay, KeysOf, RecordsRight
  <1>2. \A l \in Layers : dirs'[l] \in {Nothing, Repack[l]}
    BY BaseTypes
  <1> QED  BY <1>1, <1>2, BaseFrame

LEMMA LoadedRight == RecordsRight(Loaded)
  BY DEF RecordsRight, Loaded, Entry

LEMMA BasePullImage ==
    ASSUME BaseUse, BaseInv, AloneInv', NEW p \in Procs,
           NEW image \in PullImages, PullImage(p, image)
    PROVE  BaseInv'
  <1> PICK j : j = NewJob("pull", image, Nothing, Nothing, FALSE)
    OBVIOUS
  <1>1. j.op = "pull"
    BY DEF NewJob
  <1>2. BaseFits("load", mem[p], j)
    BY <1>1, BaseTypes DEF BaseFits
  <1>3. /\ UNCHANGED <<dirs, mem>> /\ job' = [job EXCEPT ![p] = j]
        /\ pc' = [pc EXCEPT ![p] = "load"] /\ pc[p] = "idle"
        /\ images' = images \cup Bases({image})
    BY DEF PullImage, Goto
  <1>4. \A i \in images' : Unmixed(i)
    BY <1>3, BaseTypes DEF BaseUse, Bases
  <1> QED  BY <1>2, <1>3, <1>4, BaseTypes, BaseQuiet

LEMMA BasePull ==
    ASSUME BaseUse, BaseInv, AloneInv', NEW p \in Procs,
           \/ PullLoad(p) \/ PullCreate(p) \/ Unpack(p) \/ Unpacked(p)
    PROVE  BaseInv'
  <1>1. job[p].op # "build"
    BY BaseTypes, AloneTypes
    DEF BaseFits, AloneFits, PullLoad, PullCreate, Unpack, Unpacked
  <1>2. \A image \in images' : Unmixed(image)
    BY BaseTypes DEF PullLoad, PullCreate, Unpack, Unpacked
  <1>3. CASE PullLoad(p)
    <2>1. BaseFits("layer", Loaded, job[p])
      BY <1>1, LoadedRight DEF BaseFits
    <2> QED  BY <1>2, <1>3, <2>1, AloneTypes, BaseTypes, BaseQuiet DEF PullLoad, Goto
  <1>4. CASE PullCreate(p) \/ Unpack(p)
    <2> PICK id : id = Current(p)
      OBVIOUS
    <2>1. /\ dirs' = [dirs EXCEPT ![id] = dirs'[id]]
          /\ UNCHANGED job
          /\ \E s \in {"unpack", "files"} : pc' = [pc EXCEPT ![p] = s]
          /\ mem' \in {mem, [mem EXCEPT ![p] = @ \cup {Entry(id)}]}
      BY <1>4, BaseTypes, AloneTypes DEF PullCreate, Unpack, Goto
    <2>2. PICK m : /\ mem' = [mem EXCEPT ![p] = m]
                   /\ m \in {mem[p], mem[p] \cup {Entry(id)}}
      <3>1. CASE mem' = mem
        BY <3>1, BaseTypes
      <3>2. CASE mem' = [mem EXCEPT ![p] = @ \cup {Entry(id)}]
        BY <3>2
      <3> QED  BY <2>1, <3>1, <3>2
    <2>3. PICK s \in {"unpack", "files"} : pc' = [pc EXCEPT ![p] = s]
      BY <2>1
    <2>4. RecordsRight(m)
      <3>1. RecordsRight(mem[p])
        BY BaseTypes DEF BaseFits
      <3>2. Entry(id).id = Entry(id).key
        BY DEF Entry
      <3> QED  BY <2>2, <3>1, <3>2 DEF RecordsRight
    <2>5. BaseFits(s, m, job[p])'
      BY <1>1, <2>1, <2>4 DEF BaseFits, RecordsRight
    <2>6. Current(p)' = id /\ pc'[p] = s
      BY <2>1, <2>3, BaseTypes, AloneTypes DEF Current, AloneInv, TypeInv, LayerTypeOK
    <2>7. ASSUME NEW l \in Layers
          PROVE  dirs'[l] \in {Nothing, Repack[l]} \/ Filling(l)'
      <3>1. CASE l = id
        BY <2>6, <3>1 DEF Filling, BaseUse
      <3>2. CASE l # id
        <4>1. dirs'[l] = dirs[l]
          BY <2>1, <3>2, BaseTypes, AloneTypes
        <4>2. ~ Filling(l)
          BY <3>2 DEF Filling, BaseUse
        <4> QED  BY <4>1, <4>2 DEF BaseInv, PacksRight
      <3> QED  BY <3>1, <3>2
    <2> QED  BY <1>2, <2>1, <2>2, <2>3, <2>5, <2>7, BaseTypes, AloneTypes, BaseFrame
  <1>5. CASE Unpacked(p)
    <2> PICK id : id = Current(p)
      OBVIOUS
    <2> PICK j : j = Rest(job[p])
      OBVIOUS
    <2>1. /\ dirs' = [dirs EXCEPT ![id] = Repack[id]]
          /\ pc' = [pc EXCEPT ![p] = "truncate"]
          /\ job' = [job EXCEPT ![p] = j]
          /\ UNCHANGED mem
      <3>1. writer[id] = p
        BY <1>5, BaseTypes, AloneTypes DEF Unpacked, Writes
      <3> QED  BY <1>5, <3>1 DEF Unpacked, Goto, BaseUse
    <2>2. j.op # "build"
      BY <1>1, BaseTypes, AloneTypes, RestOfJob
    <2>3. BaseFits("truncate", mem[p], j)'
      BY <2>1, <2>2, BaseTypes DEF BaseFits, RecordsRight
    <2>4. ASSUME NEW l \in Layers PROVE dirs'[l] \in {Nothing, Repack[l]}
      <3>1. CASE l = id
        BY <2>1, <3>1, BaseTypes, AloneTypes
      <3>2. CASE l # id
        <4>1. ~ Filling(l)
          BY <3>2 DEF Filling, BaseUse
        <4>2. dirs[l] \in {Nothing, Repack[l]}
          BY <4>1 DEF BaseInv, PacksRight
        <4> QED  BY <2>1, <3>2, <4>2, BaseTypes, AloneTypes
      <3> QED  BY <3>1, <3>2
    <2> QED  BY <1>2, <2>1, <2>3, <2>4, BaseTypes, BaseFrame
  <1> QED  BY <1>3, <1>4, <1>5

LEMMA BaseBuild ==
    ASSUME BaseUse, BaseInv, AloneInv', NEW p \in Procs,
           NEW base \in images \cup Bases({<<>>}), NEW new \in Contents,
           NEW work \in Working, Build(p, base, new, work)
    PROVE  BaseInv'
  <1> PICK known : known = (ToSet(base) \subseteq layersjson)
    OBVIOUS
  <1> PICK j : j = NewJob("build", base, work, new, known)
    OBVIOUS
  <1> PICK m : m = Loaded \cup {Entry(work)}
    OBVIOUS
  <1>1. /\ j.op = "build" /\ j.work = work /\ j.base = base /\ j.own = work
        /\ j.todo = base /\ j.result = <<>> /\ j.new = new /\ j.known = known
    BY DEF NewJob
  <1>2. /\ dirs' = [dirs EXCEPT ![work] = new] /\ pc[p] = "idle"
        /\ pc' = [pc EXCEPT ![p] = "layer"] /\ job' = [job EXCEPT ![p] = j]
        /\ mem' = [mem EXCEPT ![p] = m] /\ UNCHANGED images
    BY DEF Build, Goto
  <1>3. base \in Seq(Layers) /\ Unmixed(base)
    <2>1. Unmixed(<<>>)
      BY DEF Unmixed, ToSet
    <2> QED  BY <2>1, BaseTypes, BaseLayers, AloneTypes DEF Bases
  <1>4. j.result \o Repacked(j.todo) = Repacked(j.base)
    <2>1. Repacked(base) \in Seq(Layers)
      BY <1>3, RepackedParts
    <2>2. <<>> \o Repacked(base) = Repacked(base)
      BY <2>1
    <2> QED  BY <1>1, <2>2
  <1>5. work \in KeysOf(m) /\ work # Nothing
    <2>1. Entry(work) \in m /\ Entry(work).key = work
      BY EntryObject
    <2>2. work \in KeysOf(m)
      BY <2>1 DEF KeysOf
    <2> QED  BY <2>2, BaseTypes, AloneTypes
  <1>6. known => ToSet(base) \subseteq KeysOf(m)
    <2>1. \A l \in layersjson : Entry(l) \in m /\ Entry(l).key = l
      BY DEF Loaded, Entry
    <2>2. layersjson \subseteq KeysOf(m)
      BY <2>1 DEF KeysOf
    <2> QED  BY <2>2
  <1>7. dirs'[work] = new
    BY <1>2, BaseTypes, AloneTypes
  <1>8. RecordsRight(m)
    BY LoadedRight, BaseTypes, AloneTypes DEF RecordsRight, Entry
  <1>9. \A l \in ToSet(j.result) : Repack[l] = l
    BY <1>1 DEF ToSet
  <1>10. OnWay(m, j)'
    BY <1>1, <1>3, <1>4, <1>5, <1>6, <1>7, <1>9 DEF OnWay, KeysOf, Unmixed
  <1>11. BaseFits("layer", m, j)'
    BY <1>8, <1>10 DEF BaseFits, RecordsRight
  <1>12. \A l \in Layers : dirs'[l] \in {Nothing, Repack[l]}
    BY <1>2, BaseTypes, AloneTypes
  <1> QED  BY <1>2, <1>11, <1>12, BaseTypes, BaseFrame

\* A build leaves a layer out only when it does not know it.
LEMMA BaseDrop ==
    ASSUME BaseUse, BaseInv, AloneInv', NEW p \in Procs, Drop(p)
    PROVE  BaseInv'
  <1> PICK j : j = Rest(job[p])
    OBVIOUS
  <1>1. /\ pc[p] = "layer" /\ job[p].op = "build" /\ Current(p) # Nothing
        /\ Current(p) \notin KeysOf(mem[p])
        /\ UNCHANGED <<dirs, mem, pc, images>> /\ job' = [job EXCEPT ![p] = j]
    BY DEF Drop, Packing, Keys, KeysOf
  <1>2. OnWay(mem[p], job[p]) /\ job[p] \in Job
    BY <1>1, BaseTypes, AloneTypes DEF BaseFits
  <1>3. job[p].todo # <<>> /\ job[p].work = job[p].own
        /\ job[p].work # Nothing
    BY <1>1, <1>2 DEF Current, OnWay
  <1>4. /\ Head(job[p].todo) \in ToSet(job[p].todo)
        /\ ToSet(Tail(job[p].todo)) \subseteq ToSet(job[p].todo)
    BY <1>2, <1>3 DEF Job, ToSet
  <1>5. ~ (ToSet(job[p].base) \subseteq KeysOf(mem[p]))
    BY <1>1, <1>2, <1>3, <1>4 DEF Current, OnWay
  <1>6. /\ j.op = "build" /\ j.work = job[p].work /\ j.base = job[p].base
        /\ j.own = job[p].own /\ j.known = job[p].known
        /\ j.new = job[p].new /\ j.todo = Tail(job[p].todo)
        /\ j.result = job[p].result
    BY <1>1, <1>2, <1>3, RestOfJob
  <1>7. job[p].known => dirs[job[p].own] = Nothing
    BY <1>2, <1>3, <1>5 DEF OnWay
  <1>8. OnWay(mem[p], j)
    BY <1>2, <1>3, <1>4, <1>6, <1>7 DEF OnWay
  <1>9. BaseFits("layer", mem[p], j)
    BY <1>1, <1>6, <1>8, BaseTypes DEF BaseFits
  <1> QED  BY <1>1, <1>9, BaseTypes, AloneTypes, BaseQuiet

\* What the renaming of a layer does to the list: it takes at most the digest
\* from byid, and keeps records under the digests that build makes.
LEMMA MovedRecords ==
    ASSUME NEW m \in SUBSET Object, RecordsRight(m),
           NEW tar \in Layers, Repack[tar] = tar, NEW layer \in Ids,
           layer \in Layers /\ Repack[layer] = layer => layer = tar,
           NEW objs \in {m, Deleted(m, tar)}
    PROVE  /\ RecordsRight(Renamed(objs, layer, tar))
           /\ \A k \in KeysOf(m) \ {Nothing} :
                objs = m \/ k # tar => k \in KeysOf(Renamed(objs, layer, tar))
  <1> PICK r : r = Renamed(objs, layer, tar)
    OBVIOUS
  <1>1. Nothing \notin Ids
    BY LayerAssumption
  <1>2. objs \in SUBSET Object /\ RecordsRight(objs)
    <2>1. CASE objs = m
      BY <2>1
    <2>2. CASE objs = Deleted(m, tar)
      <3>1. objs \in SUBSET Object
        BY <2>2, DeletedObjects
      <3>2. ASSUME NEW o \in objs, o.key \in Layers, Repack[o.key] = o.key
            PROVE  o.id = o.key
        <4> PICK q \in m : o.id = q.id /\ (o.key = q.key \/ o.key = Nothing)
          BY <2>2, DeletedObjects
        <4> QED  BY <1>1, <3>2 DEF RecordsRight
      <3> QED  BY <3>1, <3>2 DEF RecordsRight
    <2> QED  BY <2>1, <2>2
  <1>3. ASSUME NEW o \in r, o.key \in Layers, Repack[o.key] = o.key
        PROVE  o.id = o.key
    <2> PICK q \in objs : o = IF q.key = layer THEN [q EXCEPT !.id = tar] ELSE q
      BY DEF Renamed
    <2>1. CASE q.key = layer
      <3>1. o.key = layer /\ o.id = tar
        BY <1>2, <2>1 DEF Object
      <3> QED  BY <1>3, <3>1
    <2>2. CASE q.key # layer
      BY <1>2, <1>3, <2>2 DEF RecordsRight
    <2> QED  BY <2>1, <2>2
  <1>4. ASSUME NEW k \in KeysOf(m) \ {Nothing}, objs = m \/ k # tar
        PROVE  k \in KeysOf(r)
    <2>1. \E q \in objs : q.key = k
      <3> PICK o \in m : o.key = k
        BY DEF KeysOf
      <3>1. CASE objs = m
        BY <3>1
      <3>2. CASE objs = Deleted(m, tar)
        <4> DEFINE found == {x.id : x \in {y \in m : y.key = tar}}
                   q == [o EXCEPT !.key = IF @ \in found THEN Nothing ELSE @,
                                  !.listed = @ /\ o.id # tar]
        <4>1. found \subseteq {tar}
          BY DEF RecordsRight
        <4>2. CASE objs = m
          BY <4>2
        <4>3. CASE objs # m
          <5>1. k \notin found
            BY <1>4, <4>1, <4>3
          <5>2. q.key = k
            <6> HIDE DEF found
            <6> QED  BY <5>1 DEF Object
          <5>3. found # {}
            BY <3>2, <4>3 DEF Deleted
          <5>4. q \in Deleted(m, tar)
            BY <1>4, <5>2, <5>3 DEF Deleted
          <5> QED  BY <3>2, <5>2, <5>4
        <4> QED  BY <4>2, <4>3
      <3> QED  BY <3>1, <3>2
    <2>2. PICK q \in objs : q.key = k
      BY <2>1
    <2>3. \E o \in r : o.key = k
      <3>1. q \in Object
        BY <1>2
      <3>2. [q EXCEPT !.id = tar].key = k
        BY <2>2, <3>1 DEF Object
      <3> QED  BY <2>2, <3>2 DEF Renamed
    <2> QED  BY <2>3 DEF KeysOf
  <1> QED  BY <1>3, <1>4 DEF RecordsRight

\* What a build is at when it moves a layer.
LEMMA BaseAt ==
    ASSUME BaseUse, BaseInv, NEW p \in Procs, Move(p)
    PROVE  /\ job[p].op = "build" /\ job[p] \in Job
           /\ OnWay(mem[p], job[p]) /\ RecordsRight(mem[p])
           /\ mem[p] \in SUBSET Object
           /\ Current(p) \in Ids
           /\ job[p].tar \in Layers /\ Repack[job[p].tar] = job[p].tar
           /\ job[p].tar = dirs[Current(p)] /\ dirs[Current(p)] # Nothing
           /\ Current(p) = IF job[p].todo = <<>> THEN job[p].own
                           ELSE Head(job[p].todo)
           /\ job[p].work = job[p].own /\ job[p].work # Nothing
           /\ job[p].todo = <<>> => job[p].tar = job[p].new
           /\ job[p].todo # <<>> => /\ Current(p) \in Layers
                                    /\ Current(p) \in ToSet(job[p].base)
                                    /\ job[p].tar = Repack[Current(p)]
  <1>1. /\ pc[p] = "move" /\ job[p].tar \in Layers /\ Current(p) \in Ids
        /\ job[p].todo = <<>> => job[p].work # Nothing
    BY BaseTypes, AloneTypes, InvTypes, AtHand DEF Move, JobFits
  <1>2. job[p].op = "build" /\ job[p] \in Job
    BY <1>1, BaseTypes, AloneTypes DEF AloneFits, Job
  <1>3. OnWay(mem[p], job[p]) /\ RecordsRight(mem[p])
    BY <1>2, BaseTypes DEF BaseFits
  <1>4. job[p].work = job[p].own /\ job[p].work # Nothing
    BY <1>1, <1>3, BaseTypes, AloneTypes DEF OnWay
  <1>5. job[p].tar = dirs[Current(p)] /\ dirs[Current(p)] # Nothing
    BY <1>1, <1>2, BaseTypes, AloneTypes DEF AloneFits
  <1>6. job[p].todo = <<>> => /\ job[p].tar = job[p].new
                              /\ Repack[job[p].tar] = job[p].tar
    BY <1>3, <1>4, <1>5, BaseTypes, AloneTypes, LayerAssumption DEF OnWay
  <1>7. ASSUME job[p].todo # <<>>
        PROVE  /\ Current(p) \in Layers /\ Current(p) \in ToSet(job[p].base)
               /\ job[p].tar = Repack[Current(p)]
               /\ Repack[job[p].tar] = job[p].tar
    <2>1. Current(p) \in Layers /\ Current(p) = Head(job[p].todo)
      BY <1>7, BaseTypes, AloneTypes, AtHand
    <2>2. Head(job[p].todo) \in ToSet(job[p].todo)
      BY <1>2, <1>7 DEF Job, ToSet
    <2>3. Current(p) \in ToSet(job[p].base)
      BY <1>3, <2>1, <2>2 DEF OnWay
    <2>4. job[p].tar = Repack[Current(p)]
      BY <1>1, <1>5, <2>1, BaseTypes
    <2> QED  BY <2>1, <2>3, <2>4, LayerAssumption
  <1> QED
    BY <1>1, <1>2, <1>3, <1>4, <1>5, <1>6, <1>7, BaseTypes, AloneTypes

\* The directories stay right: what is moved is what its new name packs to.
LEMMA BaseMoveDirs ==
    ASSUME BaseUse, BaseInv, NEW p \in Procs, Move(p)
    PROVE  /\ \A l \in Layers : dirs'[l] \in {Nothing, Repack[l]}
           /\ \A id \in Working \ {Current(p)} : dirs'[id] = dirs[id]
           /\ job[p].tar # Current(p) => dirs'[Current(p)] = Nothing
  <1> PICK layer : layer = Current(p)
    OBVIOUS
  <1> PICK tar : tar = job[p].tar
    OBVIOUS
  <1>1. /\ tar \in Layers /\ Repack[tar] = tar /\ tar = dirs[layer]
        /\ layer \in Ids /\ pc[p] = "move" /\ dirs[layer] # Nothing
    BY BaseAt DEF Move
  <1>2. \A l \in Layers : dirs[l] \in {Nothing, Repack[l]}
    BY <1>1, BaseTypes
  <1>3. dirs \in [Ids -> Layers \cup {Nothing}] /\ Layers \cap Working = {}
    BY BaseTypes, AloneTypes
  <1>4. \/ layer # tar /\ dirs' = [dirs EXCEPT ![layer] = Nothing]
        \/ layer = tar /\ dirs' = dirs
        \/ /\ layer # tar
           /\ dirs' = [dirs EXCEPT ![tar] = dirs[layer], ![layer] = Nothing]
    BY <1>1 DEF Move
  <1> QED  BY <1>1, <1>2, <1>3, <1>4

\* The list of records after the step.
LEMMA BaseMoveRecords ==
    ASSUME BaseUse, BaseInv, NEW p \in Procs, Move(p)
    PROVE  \E m : /\ mem' = [mem EXCEPT ![p] = m]
                  /\ RecordsRight(m)
                  /\ job[p].own \in KeysOf(m)
                  /\ job[p].todo # <<>> =>
                       (ToSet(job[p].base) \subseteq KeysOf(mem[p]) =>
                          ToSet(job[p].base) \subseteq KeysOf(m))
  <1> PICK layer : layer = Current(p)
    OBVIOUS
  <1> PICK tar : tar = job[p].tar
    OBVIOUS
  <1>1. /\ tar \in Layers /\ Repack[tar] = tar /\ layer \in Ids
        /\ job[p].own \in Working /\ job[p].own \in KeysOf(mem[p])
        /\ RecordsRight(mem[p]) /\ mem[p] \in SUBSET Object
        /\ Unmixed(job[p].base) /\ job[p] \in Job
        /\ job[p].todo = <<>> => layer = job[p].own
        /\ job[p].todo # <<>> =>
             layer \in ToSet(job[p].base) /\ tar = Repack[layer] /\ layer \in Layers
    BY BaseAt DEF OnWay
  <1>2. Layers \cap Working = {} /\ Nothing \notin Ids
    BY LayerAssumption
  <1>3. CASE layer = tar
    <2>1. mem' = mem
      BY <1>3, BaseAt DEF Move
    <2> QED  BY <1>1, <2>1, BaseTypes
  <1>4. CASE layer # tar
    <2>1. PICK objs : /\ objs \in {mem[p], Deleted(mem[p], tar)}
                      /\ mem' = [mem EXCEPT ![p] = Renamed(objs, layer, tar)]
      <3>1. \/ mem' = [mem EXCEPT ![p] = Renamed(mem[p], layer, tar)]
            \/ mem' = [mem EXCEPT ![p] =
                         Renamed(Deleted(mem[p], tar), layer, tar)]
        BY <1>4 DEF Move
      <3> QED  BY <3>1
    <2> PICK m : m = Renamed(objs, layer, tar)
      OBVIOUS
    <2>2. layer \in Layers /\ Repack[layer] = layer => layer = tar
      BY <1>1, <1>2
    <2>3. /\ RecordsRight(m)
          /\ \A k \in KeysOf(mem[p]) \ {Nothing} : k # tar => k \in KeysOf(m)
      BY <1>1, <2>1, <2>2, MovedRecords
    <2>4. job[p].own \in KeysOf(m)
      BY <1>1, <1>2, <2>3
    <2>5. ASSUME job[p].todo # <<>>,
                 ToSet(job[p].base) \subseteq KeysOf(mem[p])
          PROVE  ToSet(job[p].base) \subseteq KeysOf(m)
      <3>1. tar \notin ToSet(job[p].base)
        BY <1>1, <1>4, <2>5 DEF Unmixed
      <3>2. ToSet(job[p].base) \subseteq Layers
        BY <1>1 DEF Job, ToSet
      <3> QED  BY <1>2, <2>3, <2>5, <3>1, <3>2
    <2> QED  BY <2>1, <2>3, <2>4, <2>5
  <1> QED  BY <1>3, <1>4

\* What has to be shown of a step that moves a layer.
LEMMA BaseStepped ==
    ASSUME BaseUse, BaseInv, AloneInv', NEW p \in Procs,
           UNCHANGED images, pc' = [pc EXCEPT ![p] = "layer"],
           NEW m, mem' = [mem EXCEPT ![p] = m], RecordsRight(m),
           NEW old, OnWay(mem[p], old),
           NEW j, job' = [job EXCEPT ![p] = j],
           j.base = old.base, j.new = old.new, j.own = old.own,
           old.own \in KeysOf(m), j.work \in {Nothing, j.own},
           dirs'[j.own] \in {Nothing, dirs[j.own]},
           \A l \in ToSet(j.result) : Repack[l] = l,
           ToSet(j.todo) \subseteq ToSet(j.base),
           j.work = Nothing => j.todo = <<>> /\ dirs'[j.own] = Nothing,
           j.known =>
             IF j.work = Nothing
             THEN j.result = Append(Repacked(j.base), j.new)
             ELSE dirs'[j.own] # Nothing =>
                    /\ ToSet(j.base) \subseteq KeysOf(m)
                    /\ j.result \o Repacked(j.todo) = Repacked(j.base),
           \A l \in Layers : dirs'[l] \in {Nothing, Repack[l]}
    PROVE  BaseInv'
  <1>1. OnWay(m, j)'
    BY DEF OnWay, KeysOf, Unmixed
  <1>2. BaseFits("layer", m, j)'
    BY <1>1 DEF BaseFits, RecordsRight
  <1> QED  BY <1>2, BaseTypes, BaseFrame

\* A base layer goes into the result as what it packs to; the working layer as
\* what the instructions made, and is the last.
LEMMA BaseMove ==
    ASSUME BaseUse, BaseInv, AloneInv', NEW p \in Procs, Move(p)
    PROVE  BaseInv'
  <1> PICK layer : layer = Current(p)
    OBVIOUS
  <1> PICK tar : tar = job[p].tar
    OBVIOUS
  <1> PICK old : old = job[p]
    OBVIOUS
  <1> PICK j : j = Packed(old, tar)
    OBVIOUS
  <1>1. /\ old.op = "build" /\ old \in Job
        /\ OnWay(mem[p], old) /\ tar \in Layers /\ Repack[tar] = tar
        /\ layer = IF old.todo = <<>> THEN old.own ELSE Head(old.todo)
        /\ old.work = old.own /\ old.work # Nothing
        /\ old.todo = <<>> => tar = old.new
        /\ old.todo # <<>> => layer \in Layers /\ tar = Repack[layer]
    BY BaseAt
  <1>2. /\ pc' = [pc EXCEPT ![p] = "layer"] /\ job' = [job EXCEPT ![p] = j]
        /\ UNCHANGED images
    BY DEF Move, Goto
  <1>3. /\ j.op = "build" /\ j.base = old.base /\ j.new = old.new
        /\ j.own = old.own /\ j.known = old.known
        /\ j.result = Append(old.result, tar)
        /\ j.work = IF old.todo = <<>> THEN Nothing ELSE old.work
        /\ j.todo = IF old.todo = <<>> THEN <<>> ELSE Tail(old.todo)
    BY <1>1, PackedJob
  <1>4. PICK m : /\ mem' = [mem EXCEPT ![p] = m]
                 /\ RecordsRight(m)
                 /\ old.own \in KeysOf(m)
                 /\ old.todo # <<>> =>
                      (ToSet(old.base) \subseteq KeysOf(mem[p]) =>
                         ToSet(old.base) \subseteq KeysOf(m))
    BY BaseMoveRecords
  <1>5. /\ \A l \in Layers : dirs'[l] \in {Nothing, Repack[l]}
        /\ \A id \in Working \ {layer} : dirs'[id] = dirs[id]
        /\ tar # layer => dirs'[layer] = Nothing
    BY BaseMoveDirs
  <1>6. Layers \cap Working = {} /\ Nothing \notin Working
    BY LayerAssumption
  <1>7. \A l \in ToSet(j.result) : Repack[l] = l
    <2>1. old.result \in Seq(Layers) /\ \A l \in ToSet(old.result) : Repack[l] = l
      BY <1>1 DEF Job, OnWay
    <2>2. ToSet(j.result) \subseteq ToSet(old.result) \cup {tar}
      BY <1>1, <1>3, <2>1 DEF ToSet
    <2> QED  BY <1>1, <2>1, <2>2
  <1>8. CASE old.todo # <<>>
    <2>1. /\ old.result \in Seq(Layers) /\ old.todo \in Seq(Layers)
          /\ layer = Head(old.todo) /\ layer \in Layers /\ tar = Repack[layer]
      BY <1>1, <1>8 DEF Job
    <2>2. ToSet(j.todo) \subseteq ToSet(j.base)
      <3>1. ToSet(Tail(old.todo)) \subseteq ToSet(old.todo)
        BY <1>8, <2>1 DEF ToSet
      <3> QED  BY <1>1, <1>3, <1>8, <3>1 DEF OnWay
    <2>3. dirs'[j.own] = dirs[old.own] /\ j.work = j.own
      BY <1>1, <1>3, <1>5, <1>6, <1>8, <2>1 DEF OnWay
    <2>4. j.result \o Repacked(j.todo) = old.result \o Repacked(old.todo)
      <3> PICK r : r = Repacked(old.todo)
        OBVIOUS
      <3>1. /\ r \in Seq(Layers) /\ r # <<>> /\ Head(r) = tar
            /\ Tail(r) = Repacked(j.todo)
        BY <1>3, <1>8, <2>1, RepackedParts
      <3>2. Append(old.result, Head(r)) \o Tail(r) = old.result \o r
        BY <2>1, <3>1, TakeHead
      <3> QED  BY <1>3, <3>1, <3>2
    <2>5. ASSUME j.known, dirs'[j.own] # Nothing
          PROVE  /\ ToSet(j.base) \subseteq KeysOf(m)
                 /\ j.result \o Repacked(j.todo) = Repacked(j.base)
      <3>1. /\ ToSet(old.base) \subseteq KeysOf(mem[p])
            /\ old.result \o Repacked(old.todo) = Repacked(old.base)
        BY <1>1, <1>3, <2>3, <2>5 DEF OnWay
      <3> QED  BY <1>3, <1>4, <1>8, <2>4, <3>1
    <2>6. j.work # Nothing
      BY <1>1, <1>3, <1>8
    <2> QED
      BY <1>1, <1>2, <1>3, <1>4, <1>5, <1>7, <2>2, <2>3, <2>5, <2>6,
         BaseStepped
  <1>9. CASE old.todo = <<>>
    <2>1. dirs'[j.own] = Nothing /\ j.work = Nothing /\ j.todo = <<>>
      BY <1>1, <1>3, <1>5, <1>6, <1>9 DEF OnWay
    <2>2. ToSet(j.todo) \subseteq ToSet(j.base)
      BY <2>1 DEF ToSet
    <2>3. ASSUME j.known
          PROVE  j.result = Append(Repacked(j.base), j.new)
      <3>1. old.result \o Repacked(old.todo) = Repacked(old.base)
        <4>1. dirs[old.own] # Nothing
          BY <1>1, <1>9, BaseAt
        <4> QED  BY <1>1, <1>3, <2>3, <4>1 DEF OnWay
      <3>2. old.result \in Seq(Layers) /\ old.todo \in Seq(Layers)
        BY <1>1 DEF Job
      <3>3. Repacked(old.todo) = <<>>
        BY <1>9, <3>2, RepackedParts
      <3>4. old.result = Repacked(old.base)
        BY <3>1, <3>2, <3>3
      <3> QED  BY <1>1, <1>3, <1>9, <3>4
    <2> QED
      BY <1>1, <1>2, <1>3, <1>4, <1>5, <1>7, <2>1, <2>2, <2>3, BaseStepped
  <1> QED  BY <1>8, <1>9
LEMMA BaseSave ==
    ASSUME BaseUse, BaseInv, AloneInv', NEW p \in Procs,
           Tar(p) \/ BuildSave(p) \/ Truncate(p) \/ Write(p)
    PROVE  BaseInv'
  <1> PICK m : m = mem[p]
    OBVIOUS
  <1>1. CASE Tar(p)
    <2> PICK j : j = [job[p] EXCEPT !.tar = dirs[Current(p)]]
      OBVIOUS
    <2>1. /\ UNCHANGED <<dirs, mem, images>> /\ job' = [job EXCEPT ![p] = j]
          /\ pc' = [pc EXCEPT ![p] = "move"] /\ pc[p] = "layer"
      BY <1>1 DEF Tar, Packing, Goto
    <2>2. /\ j.op = job[p].op /\ j.base = job[p].base /\ j.own = job[p].own
          /\ j.todo = job[p].todo /\ j.work = job[p].work
          /\ j.new = job[p].new /\ j.result = job[p].result
          /\ j.known = job[p].known
      BY BaseTypes, AloneTypes DEF Job
    <2>3. OnWay(m, j) = OnWay(m, job[p])
      BY <2>2 DEF OnWay
    <2>4. BaseFits("move", m, j)
      BY <2>2, <2>3, BaseTypes DEF BaseFits
    <2> QED  BY <2>1, <2>4, BaseTypes, BaseQuiet
  <1>2. CASE BuildSave(p)
    <2>1. /\ UNCHANGED <<dirs, mem, job, images>> /\ pc[p] = "layer"
          /\ pc' = [pc EXCEPT ![p] = "truncate"] /\ Current(p) = Nothing
      BY <1>2 DEF BuildSave, Goto
    <2>2. job[p].work = Nothing
      <3>1. /\ TypeInv /\ job[p] \in Job /\ Nothing \notin Layers
            /\ Current(p) = IF job[p].todo = <<>> THEN job[p].work
                            ELSE Head(job[p].todo)
        BY BaseTypes, AloneTypes
      <3>2. job[p].todo # <<>> => Head(job[p].todo) \in Layers
        BY <3>1 DEF Job
      <3> QED  BY <2>1, <3>1, <3>2
    <2>3. BaseFits("truncate", m, job[p])
      BY <2>2, BaseTypes DEF BaseFits
    <2> QED  BY <2>1, <2>3, BaseTypes, AloneTypes, BaseQuiet
  <1>3. CASE Truncate(p) \/ Write(p)
    <2>1. /\ UNCHANGED <<dirs, mem, job, images>>
          /\ pc[p] \in {"truncate", "write"}
          /\ \E s \in {"write", "layer", "publish"} :
               pc' = [pc EXCEPT ![p] = s]
      BY <1>3 DEF Truncate, Write, Goto
    <2>2. ASSUME NEW s \in {"write", "layer", "publish"}
          PROVE  BaseFits(s, m, job[p])
      BY <2>1, BaseTypes DEF BaseFits
    <2> QED  BY <2>1, <2>2, BaseTypes, AloneTypes, BaseQuiet
  <1> QED  BY <1>1, <1>2, <1>3

\* A repeated attempt starts with the base again, or with a working layer
\* that has no directory any more.
LEMMA BaseStop ==
    ASSUME BaseUse, BaseInv, AloneInv', NEW p \in Procs,
           PullEnd(p) \/ PackThrows(p) \/ Publish(p) \/ Crash(p)
    PROVE  BaseInv'
  <1>1. /\ UNCHANGED dirs /\ pc[p] \notin {"unpack", "files"}
    BY DEF PullEnd, PackThrows, Packing, Publish, Crash, BaseUse
  <1>2. \A image \in images' : Unmixed(image)
    <2>1. CASE UNCHANGED images
      BY <2>1, BaseTypes
    <2>2. CASE Publish(p)
      <3>1. job[p].op = "build"
        BY <2>2, BaseTypes, AloneTypes DEF Publish, AloneFits, Job
      <3>2. \A l \in ToSet(job[p].result) : Repack[l] = l
        BY <3>1, BaseTypes DEF BaseFits, OnWay
      <3>3. Unmixed(job[p].result)
        BY <3>2 DEF Unmixed
      <3>4. images' = images \/ images' = images \cup Bases({job[p].result})
        BY <2>2 DEF Publish
      <3> QED  BY <3>3, <3>4, BaseTypes DEF Bases
    <2> QED  BY <2>1, <2>2 DEF PullEnd, PackThrows, Crash
  <1>3. CASE End(p)
    <2> PICK j : j = NoJob
      OBVIOUS
    <2> PICK m : m = {}
      OBVIOUS
    <2>1. BaseFits("idle", m, j)
      BY DEF BaseFits, NoJob, NewJob, RecordsRight
    <2>2. /\ pc' = [pc EXCEPT ![p] = "idle"] /\ mem' = [mem EXCEPT ![p] = m]
          /\ job' = [job EXCEPT ![p] = j]
      BY <1>3 DEF End, Goto
    <2> QED  BY <1>1, <1>2, <2>1, <2>2, BaseQuiet
  <1>4. ASSUME Goto(p, "layer"), job' = [job EXCEPT ![p] = Restarted(@)],
               UNCHANGED mem, PackThrows(p) \/ Publish(p)
        PROVE  BaseInv'
    <2> PICK j : j = Restarted(job[p])
      OBVIOUS
    <2> PICK m : m = mem[p]
      OBVIOUS
    <2>1. job[p].op = "build" /\ job[p] \in Job
      <3>1. pc[p] \in {"move", "publish"} \/ job[p].op = "build"
        BY <1>4 DEF PackThrows, Packing, Publish
      <3> QED  BY <3>1, BaseTypes, AloneTypes DEF AloneFits, Job
    <2>2. OnWay(m, job[p]) /\ RecordsRight(m)
      BY <2>1, BaseTypes DEF BaseFits
    <2>3. /\ j.op = "build" /\ j.own = job[p].own /\ j.work = job[p].own
          /\ j.base = job[p].base /\ j.todo = job[p].base /\ j.result = <<>>
          /\ j.known = job[p].known /\ j.new = job[p].new
          /\ job[p].base \in Seq(Layers)
      BY <2>1 DEF Restarted, Job
    <2>4. j.result \o Repacked(j.todo) = Repacked(j.base)
      <3>1. Repacked(job[p].base) \in Seq(Layers)
        BY <2>3, RepackedParts
      <3>2. <<>> \o Repacked(job[p].base) = Repacked(job[p].base)
        BY <3>1
      <3> QED  BY <2>3, <3>2
    <2>5. ASSUME j.known, dirs[j.own] # Nothing
          PROVE  ToSet(j.base) \subseteq KeysOf(m)
      BY <2>2, <2>3, <2>5 DEF OnWay
    <2>6. \A l \in ToSet(j.result) : Repack[l] = l
      BY <2>3 DEF ToSet
    <2>7. j.work # Nothing
      BY <2>2, <2>3, BaseTypes, AloneTypes DEF OnWay
    <2>8. OnWay(m, j)
      BY <2>2, <2>3, <2>4, <2>5, <2>6, <2>7 DEF OnWay
    <2>9. BaseFits("layer", m, j)
      BY <2>2, <2>8 DEF BaseFits
    <2>10. pc' = [pc EXCEPT ![p] = "layer"] /\ job' = [job EXCEPT ![p] = j]
      BY <1>4 DEF Goto
    <2> QED  BY <1>1, <1>2, <1>4, <2>9, <2>10, BaseTypes, BaseQuiet
  <1>5. \/ End(p)
        \/ /\ Goto(p, "layer") /\ job' = [job EXCEPT ![p] = Restarted(@)]
           /\ UNCHANGED mem /\ (PackThrows(p) \/ Publish(p))
    BY DEF PullEnd, PackThrows, Publish, Crash, Again
  <1> QED  BY <1>3, <1>4, <1>5

\* One command at a time that runs to its end, nothing lost, whoever made the
\* layers: the new image of a build is what its base image packs to here, layer
\* by layer, with the working layer on top, unless the process did not find a
\* layer of the base.  An attempt that throws after it has renamed layers may
\* be followed by others: none of them records a shorter image
\* (retryCopyImage, NewImageSource, image.cpp:261-336).
THEOREM AloneBasesKept == ASSUME BaseUse PROVE Spec => []KnownBaseKept
  <1>1. AloneUse
    BY DEF BaseUse, AloneUse
  <1>2. ASSUME Init PROVE BaseInv
    <2>1. AloneInv
      BY <1>2, AloneInit
    <2>2. PacksRight /\ images = {}
      BY <1>2 DEF Init, PacksRight
    <2>3. ASSUME NEW p \in Procs PROVE BaseFits(pc[p], mem[p], job[p])
      <3>1. mem[p] = {} /\ job[p].op = "none"
        BY <1>2 DEF Init, NoJob, NewJob
      <3>2. RecordsRight(mem[p])
        BY <3>1 DEF RecordsRight
      <3> QED  BY <3>1, <3>2 DEF BaseFits
    <2> QED  BY <2>1, <2>2, <2>3 DEF BaseInv
  <1>3. ASSUME BaseInv, [Next]_vars PROVE BaseInv'
    <2>1. AloneInv'
      BY <1>1, <1>3, AloneInductive DEF BaseInv
    <2>2. CASE UNCHANGED vars
      <3>1. PacksRight'
        BY <1>3, <2>2 DEF BaseInv, PacksRight, Filling, Current
      <3>2. ASSUME NEW p \in Procs PROVE BaseFits(pc[p], mem[p], job[p])'
        <4>1. BaseFits(pc[p], mem[p], job[p])
          BY <1>3 DEF BaseInv
        <4>2. RecordsRight(mem[p]) => RecordsRight(mem[p])'
          BY <2>2 DEF RecordsRight
        <4>3. OnWay(mem[p], job[p]) => OnWay(mem[p], job[p])'
          BY <2>2 DEF OnWay, KeysOf, Unmixed
        <4> QED  BY <2>2, <4>1, <4>2, <4>3 DEF BaseFits
      <3>3. \A image \in images' : Unmixed(image)'
        BY <1>3, <2>2 DEF BaseInv, Unmixed
      <3> QED  BY <2>1, <3>1, <3>2, <3>3 DEF BaseInv
    <2>3. ASSUME NEW p \in Procs, Step(p) PROVE BaseInv'
      <3>1. CASE PullEnd(p) \/ PackThrows(p) \/ Crash(p) \/ Publish(p)
        BY <1>3, <2>1, <3>1, BaseStop
      <3>2. CASE \E base \in images \cup Bases({<<>>}), new \in Contents,
                   work \in Working : Build(p, base, new, work)
        BY <1>3, <2>1, <3>2, BaseBuild
      <3>3. CASE \E image \in PullImages : PullImage(p, image)
        BY <1>3, <2>1, <3>3, BasePullImage
      <3>4. ~ UnpackLost(p)
        BY DEF UnpackLost, BaseUse
      <3> QED
        BY <1>3, <2>1, <2>3, <3>1, <3>2, <3>3, <3>4, BasePull, BaseDrop,
           BaseMove, BaseSave DEF Step
    <2> QED  BY <1>3, <2>2, <2>3 DEF Next
  <1>4. ASSUME BaseInv PROVE KnownBaseKept
    <2> SUFFICES ASSUME NEW p \in Procs, pc[p] = "publish", job[p].known
                 PROVE  job[p].result = Append(Repacked(job[p].base), job[p].new)
      BY DEF KnownBaseKept
    <2>1. job[p].op = "build"
      BY <1>4, BaseTypes, AloneTypes DEF AloneFits, Job
    <2> QED  BY <1>4, <2>1, BaseTypes DEF BaseFits, OnWay
  <1> QED  BY <1>2, <1>3, <1>4, PTL DEF Spec
=============================================================================
