----------------------------- MODULE LayerStore -----------------------------
(***************************************************************************)
(* The overlay layer store: one directory per layer with its files         *)
(* unpacked, and layers.json, the list of the layers.  pull unpacks the    *)
(* layers of an image; build adds a working layer and turns the layers of  *)
(* its base image and the working layer into those of a new image, in one  *)
(* attempt or several (retryCopyImage).                                    *)
(*                                                                         *)
(* Every process has its own copy of the list and writes it back whole,    *)
(* under no lock.  A layer digest stands for the files of the layer: a     *)
(* directory is described by the digest its tar has, and a digest names    *)
(* that directory when build has packed it.                                *)
(***************************************************************************)
EXTENDS Integers, SequencesExt

CONSTANTS
    Procs,       \* command processes that may run at the same time
    CommandsOf,  \* [Procs -> SUBSET {"pull", "build"}]: run there
    Layers,      \* digests of layer tars
    Working,     \* random ids of working layers
    Nothing,     \* no id, no directory, no process
    Partial,     \* the digest of a tar of a directory that lacks some files
    Repack,      \* [Layers -> Layers]: unpacked and packed again here
    PullImages,  \* the images pull finds: sequences of layer digests
    Contents,    \* what the instructions of a Dockerfile may produce
    MaxLayers,   \* bound: layers of an image
    MaxRetry,    \* attempts to copy an image after the first
    CopyFails,   \* may an attempt throw, or give up, without a cause here?
    LostBlobs,   \* may a pulled layer blob be missing or broken?
    Crashes      \* may a process die between two steps?

Ids == Layers \cup Working

ASSUME LayerAssumption ==
    /\ CommandsOf \in [Procs -> SUBSET {"pull", "build"}]
    /\ Layers \cap Working = {}
    /\ Nothing \notin Ids \cup Procs
    /\ Partial \in Layers
    /\ Repack \in [Layers -> Layers]
    /\ \A l \in Layers : Repack[Repack[l]] = Repack[l]
    /\ PullImages \subseteq Seq(Layers)
    /\ Contents \subseteq Layers
    /\ \A c \in Contents \cup {Partial} : Repack[c] = c
    /\ MaxLayers \in Nat
    /\ MaxRetry \in Nat
    /\ CopyFails \in BOOLEAN
    /\ LostBlobs \in BOOLEAN
    /\ Crashes \in BOOLEAN

VARIABLES
    layersjson,  \* the ids layers.json lists
    dirs,        \* the digest of what each layer directory holds
    writer,      \* who unpacks into each directory, alone since he began
    images,      \* the layer digests of the images of the image store, of
                 \* those that have room for another layer
    pc,          \* where each process stands
    mem,         \* its layerStore: the objects, with the key that finds them
                 \* in byid, and whether they are in the list layers
    job          \* the command it runs

vars == <<layersjson, dirs, writer, images, pc, mem, job>>

PCs == {"idle", "load", "layer", "unpack", "files", "move", "truncate",
        "write", "publish"}
Object == [key : Ids \cup {Nothing}, id : Ids, listed : BOOLEAN]
Job == [op : {"none", "pull", "build"}, base : Seq(Layers),
        todo : Seq(Layers), own : Working \cup {Nothing},
        work : Working \cup {Nothing}, new : Layers \cup {Nothing},
        tar : Layers \cup {Nothing}, result : Seq(Layers),
        known : BOOLEAN, tries : 0..MaxRetry]

NewJob(op, image, work, new, known) ==
    [op |-> op, base |-> image, todo |-> image, own |-> work, work |-> work,
     new |-> new, tar |-> Nothing, result |-> <<>>, known |-> known,
     tries |-> 0]
NoJob == NewJob("none", <<>>, Nothing, Nothing, FALSE)
Restarted(j) == [j EXCEPT !.todo = j.base, !.work = j.own, !.tar = Nothing,
                          !.result = <<>>, !.tries = @ + 1]

\* An image that may be a base has fewer than MaxLayers layers.
Bases(I) == {i \in I : Len(i) < MaxLayers}

Exists(id) == dirs[id] # Nothing
Entry(id)  == [key |-> id, id |-> id, listed |-> TRUE]
Keys(p)    == {o.key : o \in mem[p]}
Listed(p)  == {o.id : o \in {x \in mem[p] : x.listed}}
Loaded     == {Entry(l) : l \in layersjson}

\* The layers of a job: those of the image, then the working layer.
Current(p) == IF job[p].todo = <<>> THEN job[p].work ELSE Head(job[p].todo)
Rest(j) == IF j.todo = <<>> THEN [j EXCEPT !.work = Nothing]
           ELSE [j EXCEPT !.todo = Tail(@)]
Packed(j, tar) ==
    [Rest(j) EXCEPT !.tar = Nothing, !.result = Append(@, tar)]
Packing(p) == /\ pc[p] = "layer"
              /\ job[p].op = "build"
              /\ Current(p) # Nothing
Unpacking(p, id) == pc[p] = "files" /\ Current(p) = id

-----------------------------------------------------------------------------
Init ==
    /\ layersjson = {}
    /\ dirs = [id \in Ids |-> Nothing]
    /\ writer = [id \in Ids |-> Nothing]
    /\ images = {}
    /\ pc  = [p \in Procs |-> "idle"]
    /\ mem = [p \in Procs |-> {}]
    /\ job = [p \in Procs |-> NoJob]

Goto(p, s) == pc' = [pc EXCEPT ![p] = s]

End(p) ==
    /\ Goto(p, "idle")
    /\ mem' = [mem EXCEPT ![p] = {}]
    /\ job' = [job EXCEPT ![p] = NoJob]

\* IfNecessary: once the first attempt has thrown, MaxRetry more follow,
\* whatever becomes of them.  The layerStore stays as the attempt left it.
Again(p, threw) ==
    IF (threw \/ job[p].tries > 0) /\ job[p].tries < MaxRetry
    THEN /\ Goto(p, "layer")
         /\ job' = [job EXCEPT ![p] = Restarted(@)]
         /\ UNCHANGED mem
    ELSE End(p)

Crash(p) ==
    /\ Crashes
    /\ pc[p] # "idle"
    /\ writer' = [id \in Ids |-> IF writer[id] = p THEN Nothing
                                 ELSE writer[id]]
    /\ End(p)
    /\ UNCHANGED <<layersjson, dirs, images>>

\* savelayer truncates the file, then writes it.
Truncate(p) ==
    /\ pc[p] = "truncate"
    /\ layersjson' = {}
    /\ Goto(p, "write")
    /\ UNCHANGED <<dirs, writer, images, mem, job>>

Write(p) ==
    /\ pc[p] = "write"
    /\ layersjson' = Listed(p)
    /\ Goto(p, IF job[p].op = "pull" THEN "layer" ELSE "publish")
    /\ UNCHANGED <<dirs, writer, images, mem, job>>

-----------------------------------------------------------------------------
(* pull: the image is recorded first, then its layers are unpacked.        *)

PullImage(p, image) ==
    /\ pc[p] = "idle"
    /\ "pull" \in CommandsOf[p]
    /\ images' = images \cup Bases({image})
    /\ job' = [job EXCEPT ![p] =
                     NewJob("pull", image, Nothing, Nothing, FALSE)]
    /\ Goto(p, "load")
    /\ UNCHANGED <<layersjson, dirs, writer, mem>>

PullLoad(p) ==
    /\ pc[p] = "load"
    /\ mem' = [mem EXCEPT ![p] = Loaded]
    /\ Goto(p, "layer")
    /\ UNCHANGED <<layersjson, dirs, writer, images, job>>

\* Mutant: the list is saved before the layer is unpacked.
PullCreateSave(p) ==
    LET id == Current(p)
    IN  /\ pc[p] = "layer"
        /\ job[p].op = "pull"
        /\ job[p].todo # <<>>
        /\ mem' = [mem EXCEPT ![p] = @ \cup {Entry(id)}]
        /\ dirs' = [dirs EXCEPT ![id] = IF Exists(id) THEN @ ELSE Partial]
        /\ layersjson' = Listed(p) \cup {id}
        /\ Goto(p, "unpack")
        /\ UNCHANGED <<writer, images, job>>

\* create makes the record and the directory; one that is there is kept.
PullCreate(p) ==
    LET id == Current(p)
    IN  /\ pc[p] = "layer"
        /\ job[p].op = "pull"
        /\ job[p].todo # <<>>
        /\ mem' = [mem EXCEPT ![p] = @ \cup {Entry(id)}]
        /\ dirs' = [dirs EXCEPT ![id] = IF Exists(id) THEN @ ELSE Partial]
        /\ Goto(p, "unpack")
        /\ UNCHANGED <<layersjson, writer, images, job>>

\* extractTarGz writes file by file over what is there, be the layer listed
\* or not; with another process at the same layer neither is alone any more.
Unpack(p) ==
    LET id == Current(p)
    IN  /\ pc[p] = "unpack"
        /\ dirs' = [dirs EXCEPT ![id] = Partial]
        /\ writer' = [writer EXCEPT ![id] =
               IF \E q \in Procs \ {p} : Unpacking(q, id) THEN Nothing ELSE p]
        /\ Goto(p, "files")
        /\ UNCHANGED <<layersjson, images, mem, job>>

\* The last file is written.  Whether all are there is certain only for a
\* process that was alone in a directory that stayed where it was, and if it
\* could read the blob to its end; what extractTarGz returns is only printed.
Unpacked(p) ==
    LET id == Current(p)
    IN  /\ pc[p] = "files"
        /\ \/ dirs' = [dirs EXCEPT ![id] = Repack[id]]
           \/ /\ writer[id] # p \/ LostBlobs
              /\ dirs' = [dirs EXCEPT ![id] = Partial]
        /\ writer' = [writer EXCEPT ![id] = Nothing]
        /\ job' = [job EXCEPT ![p] = Rest(@)]
        /\ Goto(p, "truncate")
        /\ UNCHANGED <<layersjson, images, mem>>

\* There is no blob, or it has another digest: nothing is written.
UnpackLost(p) ==
    /\ LostBlobs
    /\ pc[p] = "unpack"
    /\ job' = [job EXCEPT ![p] = Rest(@)]
    /\ Goto(p, "truncate")
    /\ UNCHANGED <<layersjson, dirs, writer, images, mem>>

PullEnd(p) ==
    /\ pc[p] = "layer"
    /\ job[p].op = "pull"
    /\ job[p].todo = <<>>
    /\ End(p)
    /\ UNCHANGED <<layersjson, dirs, writer, images>>

-----------------------------------------------------------------------------
(* build: CreateContainer, the instructions, NewImageSource.               *)

\* A random id is nobody's directory and nobody's working layer.
FreshId(work) == ~Exists(work) /\ \A q \in Procs : job[q].own # work

\* Mutant: the working layer counts as a layer of the base image.
BuildOnWork(p, base, new, work) ==
    /\ pc[p] = "idle"
    /\ "build" \in CommandsOf[p]
    /\ base \in images \cup Bases({<<>>})
    /\ FreshId(work)
    /\ mem' = [mem EXCEPT ![p] = Loaded \cup {Entry(work)}]
    /\ dirs' = [dirs EXCEPT ![work] = new]
    /\ job' = [job EXCEPT ![p] =
          NewJob("build", Append(base, work), Nothing, new,
                 ToSet(base) \subseteq layersjson)]
    /\ Goto(p, "layer")
    /\ UNCHANGED <<layersjson, writer, images>>

\* The base image is one of the store, or scratch.  The working layer is
\* created and filled; nobody else knows its id.
Build(p, base, new, work) ==
    /\ pc[p] = "idle"
    /\ "build" \in CommandsOf[p]
    /\ base \in images \cup Bases({<<>>})
    /\ FreshId(work)
    /\ mem' = [mem EXCEPT ![p] = Loaded \cup {Entry(work)}]
    /\ dirs' = [dirs EXCEPT ![work] = new]
    /\ job' = [job EXCEPT ![p] =
          NewJob("build", base, work, new, ToSet(base) \subseteq layersjson)]
    /\ Goto(p, "layer")
    /\ UNCHANGED <<layersjson, writer, images>>

\* A layer the process does not know is reported and left out.
Drop(p) ==
    /\ Packing(p)
    /\ Current(p) \notin Keys(p)
    /\ job' = [job EXCEPT ![p] = Rest(@)]
    /\ UNCHANGED <<layersjson, dirs, writer, images, pc, mem>>

\* The digest of a new tar of the layer's directory.
Tar(p) ==
    /\ Packing(p)
    /\ Current(p) \in Keys(p)
    /\ Exists(Current(p))
    /\ job' = [job EXCEPT ![p].tar = dirs[Current(p)]]
    /\ Goto(p, "move")
    /\ UNCHANGED <<layersjson, dirs, writer, images, mem>>

\* Mutant: a layer whose directory is not there is left out.
PackSkips(p) ==
    /\ Packing(p)
    /\ Current(p) \in Keys(p)
    /\ ~Exists(Current(p))
    /\ job' = [job EXCEPT ![p] = Rest(@)]
    /\ UNCHANGED <<layersjson, dirs, writer, images, pc, mem>>

\* No tar comes about: the directory is not where it was, because another
\* process or an earlier attempt has moved it, or the tar cannot be written.
\* Reading the tar, or copying the directory, throws.
PackThrows(p) ==
    /\ Packing(p) \/ (pc[p] = "move" /\ ~Exists(job[p].tar))
    /\ Current(p) \in Keys(p)
    /\ ~Exists(Current(p)) \/ (CopyFails /\ pc[p] = "layer")
    /\ Again(p, TRUE)
    /\ UNCHANGED <<layersjson, dirs, writer, images>>

\* deleteLayer: what has the digest for its id leaves the list, and byid
\* loses the key that is the present id of what it finds under the digest.
Deleted(objs, tar) ==
    LET found == {o.id : o \in {x \in objs : x.key = tar}}
    IN  IF found = {} THEN objs
        ELSE {x \in {[o EXCEPT !.key = IF @ \in found THEN Nothing ELSE @,
                               !.listed = @ /\ o.id # tar] : o \in objs} :
                x.key # Nothing \/ x.listed}

\* The list after layer, now with the id tar, has been dealt with.
Renamed(objs, layer, tar) ==
    {IF o.key = layer THEN [o EXCEPT !.id = tar] ELSE o : o \in objs}

\* Mutant: of two equal directories the older one is removed, too.
MoveOver(p) ==
    LET layer == Current(p)
        tar   == job[p].tar
    IN  /\ pc[p] = "move"
        /\ dirs' = [dirs EXCEPT ![tar] = Nothing, ![layer] = Nothing]
        /\ mem' = [mem EXCEPT ![p] = Renamed(Deleted(@, tar), layer, tar)]
        /\ job' = [job EXCEPT ![p] = Packed(@, tar)]
        /\ Goto(p, "layer")
        /\ UNCHANGED <<layersjson, writer, images>>

\* The directory gets the digest for its name, or is removed when there is
\* one of that name; the layer gets the digest for its id.
Move(p) ==
    LET layer == Current(p)
        tar   == job[p].tar
    IN  /\ pc[p] = "move"
        /\ Exists(tar) \/ Exists(layer)
        /\ \/ /\ Exists(tar) /\ layer # tar
              /\ dirs' = [dirs EXCEPT ![layer] = Nothing]
              /\ writer' = [writer EXCEPT ![layer] = Nothing]
              /\ mem' = [mem EXCEPT ![p] = Renamed(Deleted(@, tar), layer, tar)]
           \/ /\ Exists(tar) /\ layer = tar
              /\ UNCHANGED <<dirs, writer, mem>>
           \/ /\ ~Exists(tar)
              /\ dirs' = [dirs EXCEPT ![tar] = dirs[layer], ![layer] = Nothing]
              /\ writer' = [writer EXCEPT ![layer] = Nothing]
              /\ mem' = [mem EXCEPT ![p] = Renamed(@, layer, tar)]
        /\ job' = [job EXCEPT ![p] = Packed(@, tar)]
        /\ Goto(p, "layer")
        /\ UNCHANGED <<layersjson, images>>

BuildSave(p) ==
    /\ pc[p] = "layer"
    /\ job[p].op = "build"
    /\ Current(p) = Nothing
    /\ Goto(p, "truncate")
    /\ UNCHANGED <<layersjson, dirs, writer, images, mem, job>>

\* The blobs are stored and the image is recorded (module ImageStore), or the
\* attempt throws, or it gives up and returns nothing.
Publish(p) ==
    /\ pc[p] = "publish"
    /\ \/ /\ images' = images \cup Bases({job[p].result})
          /\ Again(p, FALSE)
       \/ /\ CopyFails
          /\ \E threw \in BOOLEAN : Again(p, threw)
          /\ UNCHANGED images
    /\ UNCHANGED <<layersjson, dirs, writer>>

Step(p) ==
    \/ \E image \in PullImages : PullImage(p, image)
    \/ PullLoad(p)
    \/ PullCreate(p)
    \/ Unpack(p)
    \/ Unpacked(p)
    \/ UnpackLost(p)
    \/ PullEnd(p)
    \/ \E base \in images \cup Bases({<<>>}), new \in Contents, work \in Working :
          Build(p, base, new, work)
    \/ Drop(p)
    \/ Tar(p)
    \/ Move(p)
    \/ PackThrows(p)
    \/ BuildSave(p)
    \/ Truncate(p)
    \/ Write(p)
    \/ Publish(p)
    \/ Crash(p)

Next == \E p \in Procs : Step(p)

Spec == Init /\ [][Next]_vars

-----------------------------------------------------------------------------
(* Properties.                                                             *)

\* Every variable has its type.
LayerTypeOK ==
    /\ layersjson \subseteq Ids
    /\ dirs \in [Ids -> Layers \cup {Nothing}]
    /\ writer \in [Ids -> Procs \cup {Nothing}]
    /\ images \subseteq Seq(Layers)
    /\ pc \in [Procs -> PCs]
    /\ mem \in [Procs -> SUBSET Object]
    /\ job \in [Procs -> Job]

\* A pull is about to unpack into a directory that lacks files anyway, as
\* create or a pull that died has left it, and nobody else is at the layer.
\* Otherwise it overwrites, file by file, a layer that others rely on.
FreshPulls ==
    \A p \in Procs : pc[p] = "unpack" =>
        /\ dirs[Current(p)] = Partial
        /\ \A q \in Procs \ {p} :
              pc[q] \in {"unpack", "files"} => Current(q) # Current(p)

\* Every layer that layers.json lists has its directory, and the directory
\* holds the files the id is the digest of.
ListedUnpacked == \A id \in layersjson : id \in Layers /\ dirs[id] = Repack[id]

\* As long as no layer is pulled over itself, no interleaving of pull and
\* build, no attempt repeated after directories were moved and no crash leaves
\* a record ahead of its files (create, extractTarGz and NewImageSource before
\* savelayer).
ListedUnlessAgain == []FreshPulls => []ListedUnpacked

\* What the layers of an image become when build packs them again.
Repacked(base) == [i \in DOMAIN base |-> Repack[base[i]]]

\* The new image of a build is its base image with the working layer on top,
\* if the build loaded records of all layers of the base (NewImageSource).
KnownBaseKept ==
    \A p \in Procs :
        pc[p] = "publish" /\ job[p].known =>
            job[p].result = Append(Repacked(job[p].base), job[p].new)

\* An attempt to copy that threw may have renamed directories and taken
\* records out of byid: the next one finds less.  As long as no layer is pulled
\* over itself, none of the attempts records an image that lacks a layer of a
\* base the build knew (retryCopyImage, NewImageSource).
KeptUnlessAgain == []FreshPulls => []KnownBaseKept

\* The same whatever the process knew: no build loses a base layer.
BaseKept ==
    \A p \in Procs :
        pc[p] = "publish" =>
            job[p].result = Append(Repacked(job[p].base), job[p].new)

\* Every layer of an image a build is about to record is there, unpacked,
\* under the digest the image gives it.
ResultUnpacked ==
    \A p \in Procs :
        pc[p] = "publish" => \A l \in ToSet(job[p].result) : dirs[l] = l

\* The same, in any attempt, as long as no layer is pulled over itself: a build
\* beside pulls, other builds and deaths names layers whose directories are
\* there and whole (NewImageSource).
BuiltUnlessAgain == []FreshPulls => []ResultUnpacked
=============================================================================
