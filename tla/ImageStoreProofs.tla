------------------------- MODULE ImageStoreProofs -------------------------
(***************************************************************************)
(* Theorems about ImageStore, for any number of processes, names and blobs *)
(* and any bounds: types, that no record is ahead of its blobs, and that   *)
(* names are recorded once and kept.                                       *)
(***************************************************************************)
EXTENDS ImageStore, WellFoundedInduction, TLAPS

USE DEF disk, vars

-----------------------------------------------------------------------------
(* Sequences.                                                              *)

\* A set of naturals that is not empty has a least element.
LEMMA NatMin ==
    ASSUME NEW T \in SUBSET Nat, T # {}
    PROVE  Min(T) \in T
  <1> DEFINE R == {ss \in Nat \X Nat : ss[1] < ss[2]}
  <1>1. IsWellFoundedOn(R, Nat)
    BY NatLessThanWellFounded DEF OpToRel
  <1> HIDE DEF R
  <1>2. PICK x \in T : \A y \in T : ~ (<<y, x>> \in R)
    BY <1>1, WFMin
  <1>3. \A y \in T : y \in Nat /\ x \in Nat /\ (~ (<<y, x>> \in R) => x <= y)
    BY DEF R
  <1>4. \A y \in T : x <= y
    BY <1>2, <1>3
  <1> QED  BY <1>4 DEF Min

\* Taking the first occurrence of an element out of a sequence over S leaves
\* a sequence over S.
LEMMA RemoveFirstType ==
    ASSUME NEW S, NEW s \in Seq(S), NEW e
    PROVE  RemoveFirst(s, e) \in Seq(S)
  <1> DEFINE I == {i \in 1..Len(s) : s[i] = e}
  <1>1. CASE \E i \in 1..Len(s) : s[i] = e
    <2>1. I \in SUBSET Nat /\ I # {}
      BY <1>1
    <2>2. Min(I) \in 1..Len(s)
      BY <2>1, NatMin
    <2>3. RemoveFirst(s, e) =
            SubSeq(s, 1, Min(I) - 1) \o SubSeq(s, Min(I) + 1, Len(s))
      BY <1>1, <2>1 DEF RemoveFirst, RemoveAt, SelectInSeq
    <2> HIDE DEF I
    <2> QED  BY <2>2, <2>3
  <1>2. CASE ~ \E i \in 1..Len(s) : s[i] = e
    BY <1>2 DEF RemoveFirst
  <1> QED  BY <1>1, <1>2

-----------------------------------------------------------------------------
(* Records and objects that refer to manifests of a set G only.            *)

EntryIn(G) == [pos : 0..MaxPos, name : Names, digest : G, history : Seq(G)]
ObjectIn(G) == [pos : 0..MaxPos, name : Names, digest : G, history : Seq(G),
                id : Configs, live : BOOLEAN]

Stored(G) ==
    /\ index \subseteq EntryIn(G)
    /\ \A q \in Procs : /\ mem[q].objs \subseteq ObjectIn(G)
                        /\ out[q] \subseteq EntryIn(G)

\* An upload is for a manifest, under the kind of name its command uses, and
\* once it is past "upload" it has a blob in hand.
UploadFits(s, c, j) ==
    s \in Uploading =>
        /\ c.op \in Staging
        /\ j.img \in Manifests
        /\ c.op = "build" => j.ref \in Names
        /\ c.op = "pull" => j.ref \in Shorts
        /\ s # "upload" => j.blob \in Blobs

UploadOK == \A p \in Procs : UploadFits(pc[p], cmd[p], job[p])

TypeInv == TypeOK /\ UploadOK

\* The steps that handle one blob of an upload and do not end the command.
FileStep(p) ==
    \/ \E b \in Blobs : Fetch(p, b) \/ LoseConfig(p, b) \/ Stage(p, b)
    \/ LoseBlob(p)
    \/ Hash(p)
    \/ KeepFile(p)
    \/ Unlink(p)
    \/ Rename(p)
    \/ Tear(p)
    \/ Rewrite(p)

LEMMA FileSteps ==
    ASSUME NEW p \in Procs
    PROVE  /\ FileStep(p) => UNCHANGED <<index, cmd, mem, out>>
           /\ FileGone(p) =>
                \/ End(p) /\ UNCHANGED disk
                \/ Done(p) /\ pc[p] \in Uploading \ {"upload"}
                   /\ UNCHANGED <<disk, cmd, mem, out>>
  <1>1. ASSUME NEW b, Fetch(p, b) \/ LoseConfig(p, b) \/ Stage(p, b)
        PROVE  UNCHANGED <<index, cmd, mem, out>>
    BY <1>1 DEF Fetch, LoseConfig, Stage
  <1>2. ASSUME LoseBlob(p) \/ KeepFile(p) \/ Unlink(p) \/ Hash(p)
        PROVE  UNCHANGED <<index, cmd, mem, out>>
    BY <1>2 DEF LoseBlob, KeepFile, Unlink, Hash
  <1>3. ASSUME Rename(p) \/ Rewrite(p) \/ Tear(p)
        PROVE  UNCHANGED <<index, cmd, mem, out>>
    BY <1>3 DEF Rename, Rewrite, Tear
  <1>4. FileStep(p) => UNCHANGED <<index, cmd, mem, out>>
    BY <1>1, <1>2, <1>3 DEF FileStep
  <1>5. FileGone(p) =>
          \/ End(p) /\ UNCHANGED disk
          \/ Done(p) /\ pc[p] \in Uploading \ {"upload"}
             /\ UNCHANGED <<disk, cmd, mem, out>>
    BY DEF FileGone, Renames, Truncates, Uploading
  <1> QED  BY <1>4, <1>5

LEMMA LiveEntries ==
    ASSUME NEW G, NEW objs \in SUBSET ObjectIn(G)
    PROVE  /\ Live(objs) \in SUBSET ObjectIn(G)
           /\ Entries(objs) \in SUBSET EntryIn(G)
           /\ \A o \in ObjectIn(G) : EntryOf(o) \in EntryIn(G)
  <1>1. Live(objs) \in SUBSET ObjectIn(G)
    BY DEF Live
  <1>2. ASSUME NEW o \in ObjectIn(G) PROVE EntryOf(o) \in EntryIn(G)
    BY DEF EntryOf, ObjectIn, EntryIn
  <1> QED  BY <1>1, <1>2 DEF Entries

LEMMA ObjectUpdates ==
    ASSUME NEW G, NEW o \in ObjectIn(G)
    PROVE  /\ \A b \in BOOLEAN : [o EXCEPT !.live = b] \in ObjectIn(G)
           /\ o.history # <<>> =>
                [o EXCEPT !.digest = Last(o.history),
                          !.history = Front(o.history)] \in ObjectIn(G)
  <1>1. \A b \in BOOLEAN : [o EXCEPT !.live = b] \in ObjectIn(G)
    BY DEF ObjectIn
  <1>2. ASSUME o.history # <<>>
        PROVE  Last(o.history) \in G /\ Front(o.history) \in Seq(G)
    <2>1. o.history \in Seq(G)
      BY DEF ObjectIn
    <2> QED  BY <1>2, <2>1 DEF Last, Front
  <1>3. \A m \in G, h \in Seq(G) :
          [o EXCEPT !.digest = m, !.history = h] \in ObjectIn(G)
    BY DEF ObjectIn
  <1> QED  BY <1>1, <1>2, <1>3

LEMMA LookupFinds ==
    ASSUME NEW objs, NEW ref
    PROVE  Lookup(objs, ref) \subseteq objs
  BY DEF Lookup

LEMMA LoadedObjects ==
    ASSUME NEW G \in SUBSET Manifests, NEW S \in SUBSET EntryIn(G)
    PROVE  LoadIndex(S).objs \in SUBSET ObjectIn(G)
  <1>1. ASSUME NEW r \in EntryIn(G) PROVE ObjectOf(r) \in ObjectIn(G)
    BY DigestAssumption DEF ObjectOf, EntryIn, ObjectIn
  <1>2. LoadIndex(S).objs = {ObjectOf(r) : r \in S}
    BY DEF LoadIndex
  <1> QED  BY <1>1, <1>2

LEMMA CompactEntries ==
    ASSUME NEW G, NEW S \in SUBSET EntryIn(G), NEW T \in Compact(S)
    PROVE  T \subseteq EntryIn(G)
  <1>1. PICK f \in [{r.pos : r \in S} -> 0..MaxPos] :
              T = {[r EXCEPT !.pos = f[r.pos]] : r \in S}
    BY DEF Compact
  <1>2. \A r \in S : f[r.pos] \in 0..MaxPos
    BY <1>1
  <1> QED  BY <1>1, <1>2 DEF EntryIn

\* No step brings in a record or an object that refers to a manifest outside
\* G, as long as what is uploaded is in G.
LEMMA StepStored ==
    ASSUME TypeInv, NEW G \in SUBSET Manifests, Stored(G),
           NEW p \in Procs, Step(p),
           pc[p] = "upload" /\ job[p].todo = {} => job[p].img \in G
    PROVE  Stored(G)'
  <1>1. /\ pc \in [Procs -> PCs]
        /\ mem \in [Procs -> Memory]
        /\ job \in [Procs -> Job]
        /\ out \in [Procs -> SUBSET Entry]
    BY DEF TypeInv, TypeOK
  <1>2. /\ index \subseteq EntryIn(G)
        /\ mem[p].objs \subseteq ObjectIn(G)
        /\ out[p] \subseteq EntryIn(G)
        /\ {} \subseteq EntryIn(G) /\ NoMem.objs \subseteq ObjectIn(G)
    BY DEF Stored, NoMem
  \* It is enough that p keeps its own part of the state within G.
  <1>3. ASSUME index' \subseteq EntryIn(G),
               \/ mem' = mem
               \/ \E M : M.objs \subseteq ObjectIn(G) /\ mem' = [mem EXCEPT ![p] = M],
               \/ out' = out
               \/ \E O : O \subseteq EntryIn(G) /\ out' = [out EXCEPT ![p] = O]
        PROVE  Stored(G)'
    <2>1. \A q \in Procs : mem'[q].objs \subseteq ObjectIn(G)
      BY <1>1, <1>3 DEF Stored
    <2>2. \A q \in Procs : out'[q] \subseteq EntryIn(G)
      BY <1>1, <1>3 DEF Stored
    <2> QED  BY <1>3, <2>1, <2>2 DEF Stored
  \* The end of a command.
  <1>4. End(p) /\ UNCHANGED disk => Stored(G)'
    BY <1>2, <1>3 DEF End
  <1>5. ASSUME NEW op, NEW n, Open(p, op, n) PROVE Stored(G)'
    BY <1>2, <1>3, <1>5, LoadedObjects DEF Open
  <1>6. CASE OpenFails(p)
    BY <1>2, <1>3, <1>6 DEF OpenFails
  <1>7. CASE Exit(p)
    BY <1>4, <1>7 DEF Exit
  <1>8. CASE Truncate(p)
    BY <1>2, <1>3, <1>8 DEF Truncate
  <1>9. CASE Write(p)
    BY <1>2, <1>3, <1>9, CompactEntries DEF Write
  <1>10. CASE Crash(p)
    BY <1>4, <1>10 DEF Crash
  <1>11. ASSUME NEW ref, NEW new \in Names \cup Shorts, Tag(p, ref, new)
         PROVE  Stored(G)'
    <2> DEFINE kept == Live(mem[p].objs) \ Lookup(mem[p].objs, new)
               name == IF new \in Shorts THEN LocalName[new] ELSE new
               entries == {EntryOf(o) : o \in kept}
    <2>1. name \in Names
      BY NameAssumption
    <2>2. entries \subseteq EntryIn(G)
      BY <1>2, LiveEntries
    <2>3. CASE Skip(p)
      BY <1>2, <1>3, <2>3 DEF Skip
    <2>4. CASE ~ Skip(p)
      <3>1. PICK s \in Lookup(mem[p].objs, ref), n \in EndPos(kept) :
              /\ Save(p, entries \cup {[pos |-> n, name |-> name,
                                       digest |-> s.digest,
                                       history |-> s.history]})
              /\ UNCHANGED <<disk, mem, job>>
        BY <1>11, <2>4 DEF Tag
      <3>2. [pos |-> n, name |-> name, digest |-> s.digest,
             history |-> s.history] \in EntryIn(G)
        BY <1>2, <2>1, LookupFinds DEF EntryIn, ObjectIn, EndPos
      <3> HIDE DEF name, entries, kept
      <3> QED  BY <1>2, <1>3, <2>2, <3>1, <3>2 DEF Save
    <2> QED  BY <2>3, <2>4
  <1>12. ASSUME NEW ref, RmiName(p, ref) PROVE Stored(G)'
    <2>1. CASE Skip(p)
      BY <1>2, <1>3, <2>1 DEF Skip
    <2>2. CASE ~ Skip(p)
      <3>1. PICK o \in Lookup(mem[p].objs, ref) :
              \/ LET gone == (mem[p].objs \ {o}) \cup {[o EXCEPT !.live = FALSE]}
                 IN  /\ mem' = [mem EXCEPT ![p].objs = gone]
                     /\ Save(p, Entries(gone))
                     /\ UNCHANGED <<disk, job>>
              \/ /\ mem' = [mem EXCEPT ![p].bydigest = mem[p].bydigest \ {o.digest}]
                 /\ UNCHANGED <<index, out>>
        BY <1>12, <2>2 DEF RmiName
      <3> DEFINE gone == (mem[p].objs \ {o}) \cup {[o EXCEPT !.live = FALSE]}
      <3>2. gone \subseteq ObjectIn(G)
        BY <1>2, LookupFinds, ObjectUpdates
      <3>3. Entries(gone) \subseteq EntryIn(G)
        BY <3>2, LiveEntries
      <3>4. /\ [mem[p] EXCEPT !.objs = gone].objs \subseteq ObjectIn(G)
            /\ [mem[p] EXCEPT !.bydigest = mem[p].bydigest \ {o.digest}].objs
                 \subseteq ObjectIn(G)
        BY <1>1, <1>2, <3>2 DEF Memory
      <3> HIDE DEF gone
      <3> QED  BY <1>2, <1>3, <3>1, <3>3, <3>4 DEF Save, gone
    <2> QED  BY <2>1, <2>2
  <1>13. ASSUME NEW ref, RmiNameThrows(p, ref) PROVE Stored(G)'
    BY <1>4, <1>13 DEF RmiNameThrows
  <1>14. CASE RmiHistory(p)
    <2>1. CASE End(p) /\ UNCHANGED disk
      BY <1>4, <2>1
    <2>2. CASE ~ (End(p) /\ UNCHANGED disk)
      <3> DEFINE rest == mem[p].bydigest \ {Head(job[p].hist)}
      <3>1. /\ mem' = [mem EXCEPT ![p].bydigest = rest]
            /\ UNCHANGED <<index, out>>
        BY <1>14, <2>2 DEF RmiHistory
      <3>2. [mem[p] EXCEPT !.bydigest = rest].objs \subseteq ObjectIn(G)
        BY <1>1, <1>2 DEF Memory
      <3> QED  BY <1>2, <1>3, <3>1, <3>2
    <2> QED  BY <2>1, <2>2
  <1>15. CASE RmiHead(p)
    <2> DEFINE gone == {[o EXCEPT !.live = @ /\ o.pos # job[p].pos] :
                          o \in mem[p].objs}
    <2>1. gone \subseteq ObjectIn(G)
      <3>1. ASSUME NEW o \in mem[p].objs
            PROVE  [o EXCEPT !.live = @ /\ o.pos # job[p].pos] \in ObjectIn(G)
        BY <1>2 DEF ObjectIn
      <3> QED  BY <3>1
    <2>2. Entries(gone) \subseteq EntryIn(G)
      BY <2>1, LiveEntries
    <2>3. [mem[p] EXCEPT !.objs = gone].objs \subseteq ObjectIn(G)
      BY <1>1, <2>1 DEF Memory
    <2>4. /\ mem' = [mem EXCEPT ![p].objs = gone]
          /\ Save(p, Entries(gone))
          /\ UNCHANGED index
      BY <1>15 DEF RmiHead
    <2> HIDE DEF gone
    <2> QED  BY <1>2, <1>3, <2>2, <2>3, <2>4 DEF Save
  <1>16. ASSUME NEW id, RmiId(p, id) PROVE Stored(G)'
    <2>1. CASE Skip(p)
      BY <1>2, <1>3, <2>1 DEF Skip
    <2>2. CASE ~ Skip(p)
      <3> DEFINE objs == mem[p].objs
                 same == {q \in Live(objs) : q.id = id}
                 bare == {q \in same : q.history = <<>>}
                 dead == {[q EXCEPT !.live = FALSE] : q \in bare}
                 back == {[q EXCEPT !.digest = Last(q.history),
                                    !.history = Front(q.history)] :
                            q \in same \ bare}
                 new  == (objs \ same) \cup dead \cup back
      <3>1. PICK rest : /\ mem' = [mem EXCEPT ![p] = [objs |-> new,
                                                     bydigest |-> rest]]
                        /\ Save(p, Entries(new))
                        /\ UNCHANGED index
        BY <1>16, <2>2 DEF RmiId
      <3>2. same \subseteq ObjectIn(G)
        BY <1>2 DEF Live
      <3>3. dead \subseteq ObjectIn(G)
        BY <3>2, ObjectUpdates
      <3>4. back \subseteq ObjectIn(G)
        BY <3>2, ObjectUpdates
      <3>5. new \subseteq ObjectIn(G)
        BY <1>2, <3>3, <3>4
      <3>6. Entries(new) \subseteq EntryIn(G)
        BY <3>5, LiveEntries
      <3> HIDE DEF new
      <3> QED  BY <1>2, <1>3, <3>1, <3>5, <3>6 DEF Save
    <2> QED  BY <2>1, <2>2
  <1>17. ASSUME NEW id, RmiIdThrows(p, id) PROVE Stored(G)'
    BY <1>4, <1>17 DEF RmiIdThrows
  <1>18. ASSUME NEW name, NEW m, Build(p, name, m) PROVE Stored(G)'
    BY <1>2, <1>3, <1>18 DEF Build, StartUpload
  <1>19. ASSUME NEW short, NEW m, Pull(p, short, m) PROVE Stored(G)'
    BY <1>2, <1>3, <1>19 DEF Pull, StartUpload
  <1>20. ASSUME NEW ref, NEW m, Config(p, ref, m) PROVE Stored(G)'
    BY <1>2, <1>3, <1>20 DEF Config, StartUpload
  <1>21. ASSUME NEW ref, ConfigFails(p, ref) PROVE Stored(G)'
    BY <1>4, <1>21 DEF ConfigFails
  <1>22. CASE FileStep(p)
    BY <1>2, <1>3, <1>22, FileSteps
  <1>23. CASE FileGone(p)
    BY <1>2, <1>3, <1>4, <1>23, FileSteps
  <1>24. CASE Abandon(p)
    BY <1>4, <1>24 DEF Abandon
  <1>25. CASE BuildRecord(p)
    <2> DEFINE name == job[p].ref
               m    == job[p].img
    <2>1. name \in Names /\ m \in G
      BY <1>25 DEF BuildRecord, Uploaded, TypeInv, UploadOK, UploadFits, Uploading
    <2>2. ASSUME NEW rest \in SUBSET index, NEW h \in Seq(G), NEW n \in EndPos(rest),
                 Save(p, rest \cup {[pos |-> n, name |-> name, digest |-> m,
                                    history |-> h]}),
                 UNCHANGED <<disk, mem>>
          PROVE  Stored(G)'
      <3>1. [pos |-> n, name |-> name, digest |-> m, history |-> h] \in EntryIn(G)
        BY <2>1 DEF EntryIn, EndPos
      <3> HIDE DEF name, m
      <3> QED  BY <1>2, <1>3, <2>2, <3>1 DEF Save
    <2>3. <<>> \in Seq(G)
      OBVIOUS
    <2>4. ASSUME NEW r \in index PROVE Append(r.history, r.digest) \in Seq(G)
      BY <1>2 DEF EntryIn
    <2>5. \/ \E n \in EndPos(index) :
               Save(p, index \cup {[pos |-> n, name |-> name, digest |-> m,
                                    history |-> <<>>]})
          \/ \E r \in index : \E n \in EndPos(index \ {r}) :
               Save(p, (index \ {r}) \cup
                       {[pos |-> n, name |-> name, digest |-> m,
                         history |-> Append(r.history, r.digest)]})
      BY <1>25 DEF BuildRecord
    <2>6. UNCHANGED <<disk, mem>>
      BY <1>25 DEF BuildRecord
    <2> HIDE DEF name, m
    <2> QED  BY <2>2, <2>3, <2>4, <2>5, <2>6
  <1>26. CASE PullRecord(p)
    <2> DEFINE objs == mem[p].objs
               name == LocalName[job[p].ref]
               m    == job[p].img
    <2>1. name \in Names /\ m \in G
      BY <1>26, NameAssumption
      DEF PullRecord, Uploaded, TypeInv, UploadOK, UploadFits, Uploading
    <2>2. ASSUME NEW rest \in SUBSET EntryIn(G), NEW h \in Seq(G),
                 NEW n \in 0..MaxPos,
                 Save(p, rest \cup {[pos |-> n, name |-> name, digest |-> m,
                                    history |-> h]}),
                 UNCHANGED <<disk, mem>>
          PROVE  Stored(G)'
      <3>1. [pos |-> n, name |-> name, digest |-> m, history |-> h] \in EntryIn(G)
        BY <2>1 DEF EntryIn
      <3> HIDE DEF name, m
      <3> QED  BY <1>2, <1>3, <2>2, <3>1 DEF Save
    <2>3. Entries(objs) \in SUBSET EntryIn(G) /\ <<>> \in Seq(G)
      <3>1. Entries(objs) \in SUBSET EntryIn(G)
        BY <1>2, LiveEntries
      <3> QED  BY <3>1
    <2>4. ASSUME NEW o \in Lookup(objs, job[p].ref)
          PROVE  o.pos \in 0..MaxPos /\ PullHistory(o, m) \in Seq(G)
      <3>1. /\ o.pos \in 0..MaxPos
            /\ o.history \in Seq(G)
            /\ Append(o.history, o.digest) \in Seq(G)
        BY <1>2, LookupFinds DEF ObjectIn
      <3> HIDE DEF objs, m
      <3> QED  BY <3>1, RemoveFirstType DEF PullHistory
    <2>5. \/ \E o \in Lookup(objs, job[p].ref) :
               Save(p, (Entries(objs) \ {EntryOf(o)}) \cup
                       {[pos |-> o.pos, name |-> name, digest |-> m,
                         history |-> PullHistory(o, m)]})
          \/ \E n \in EndPos(Live(objs)) :
               Save(p, Entries(objs) \cup
                       {[pos |-> n, name |-> name, digest |-> m,
                         history |-> <<>>]})
      BY <1>26 DEF PullRecord
    <2>6. UNCHANGED <<disk, mem>> /\ EndPos(Live(objs)) \subseteq 0..MaxPos
      BY <1>26 DEF PullRecord, EndPos
    <2> HIDE DEF objs, name, m
    <2> QED  BY <2>2, <2>3, <2>4, <2>5, <2>6
  <1>27. CASE ConfigRecord(p)
    <2> DEFINE objs == mem[p].objs
               m    == job[p].img
    <2>1. m \in G
      BY <1>27 DEF ConfigRecord, Uploaded
    <2>2. PICK o \in Lookup(objs, job[p].ref) :
            Save(p, (Entries(objs) \ {EntryOf(o)}) \cup
                    {[pos |-> o.pos, name |-> o.name, digest |-> m,
                      history |-> Append(o.history, o.digest)]})
      BY <1>27 DEF ConfigRecord
    <2>3. Entries(objs) \subseteq EntryIn(G) /\ o \in ObjectIn(G)
      BY <1>2, LiveEntries, LookupFinds
    <2>4. [pos |-> o.pos, name |-> o.name, digest |-> m,
           history |-> Append(o.history, o.digest)] \in EntryIn(G)
      <3> HIDE DEF m
      <3> QED  BY <2>1, <2>3 DEF EntryIn, ObjectIn
    <2>5. UNCHANGED <<disk, mem>>
      BY <1>27 DEF ConfigRecord
    <2> HIDE DEF objs, m
    <2> QED  BY <1>2, <1>3, <2>2, <2>3, <2>4, <2>5 DEF Save
  <1> QED
    BY <1>5, <1>6, <1>7, <1>8, <1>9, <1>10, <1>11, <1>12, <1>13, <1>14, <1>15,
       <1>16, <1>17, <1>18, <1>19, <1>20, <1>21, <1>22, <1>23, <1>24, <1>25,
       <1>26, <1>27 DEF Step, FileStep


-----------------------------------------------------------------------------
(* Types.                                                                  *)

\* The initial state has its types.
LEMMA InitType == Init => TypeInv
  <1> SUFFICES ASSUME Init PROVE TypeInv
    OBVIOUS
  <1>1. NoCmd \in [op : AllCommands \cup {"none"}, left : 0..MaxArgs]
    BY BoundAssumption DEF NoCmd
  <1>2. NoMem \in Memory
    BY DEF NoMem, Memory
  <1>3. NoJob \in Job
    BY BoundAssumption DEF NoJob, Job
  <1>4. TypeOK
    BY <1>1, <1>2, <1>3 DEF Init, TypeOK, PCs
  <1>5. UploadOK
    BY DEF Init, UploadOK, UploadFits, Uploading
  <1> QED  BY <1>4, <1>5 DEF TypeInv

\* What a step of p may do to each variable without breaking its type.
MemStep(p) ==
    \/ mem' = mem
    \/ \E O : mem' = [mem EXCEPT ![p].objs = O]
    \/ \E B \in SUBSET Manifests : mem' = [mem EXCEPT ![p].bydigest = B]
    \/ \E O : \E B \in SUBSET Manifests :
         mem' = [mem EXCEPT ![p] = [objs |-> O, bydigest |-> B]]

OutStep(p) == out' = out \/ \E O : out' = [out EXCEPT ![p] = O]

LEMMA StoredTypes ==
    ASSUME TypeInv, NEW p \in Procs, Stored(Manifests)', MemStep(p), OutStep(p)
    PROVE  /\ index' \subseteq Entry
           /\ mem' \in [Procs -> Memory]
           /\ out' \in [Procs -> SUBSET Entry]
  <1>1. /\ index' \subseteq Entry
        /\ \A q \in Procs : /\ mem'[q].objs \subseteq Object
                            /\ out'[q] \subseteq Entry
    BY DEF Stored, EntryIn, ObjectIn, Entry, Object
  <1>2. mem \in [Procs -> Memory] /\ out \in [Procs -> SUBSET Entry]
    BY DEF TypeInv, TypeOK
  <1>3. out' \in [Procs -> SUBSET Entry]
    BY <1>1, <1>2 DEF OutStep
  <1>4. mem' \in [Procs -> Memory]
    <2>1. CASE mem' = mem
      BY <1>2, <2>1
    <2>2. ASSUME NEW O, mem' = [mem EXCEPT ![p].objs = O]
          PROVE  mem' \in [Procs -> Memory]
      <3>1. O \subseteq Object
        BY <1>1, <1>2, <2>2 DEF Memory
      <3> QED  BY <1>2, <2>2, <3>1 DEF Memory
    <2>3. ASSUME NEW B \in SUBSET Manifests,
                 mem' = [mem EXCEPT ![p].bydigest = B]
          PROVE  mem' \in [Procs -> Memory]
      BY <1>2, <2>3 DEF Memory
    <2>4. ASSUME NEW O, NEW B \in SUBSET Manifests,
                 mem' = [mem EXCEPT ![p] = [objs |-> O, bydigest |-> B]]
          PROVE  mem' \in [Procs -> Memory]
      <3>1. O \subseteq Object
        BY <1>1, <1>2, <2>4
      <3> QED  BY <1>2, <2>4, <3>1 DEF Memory
    <2> QED  BY <2>1, <2>2, <2>3, <2>4 DEF MemStep
  <1> QED  BY <1>1, <1>3, <1>4

\* The copy every process keeps holds digests of manifests only.
LEMMA LoadedDigests ==
    ASSUME NEW S \in SUBSET Entry
    PROVE  LoadIndex(S) = [objs |-> LoadIndex(S).objs,
                           bydigest |-> LoadIndex(S).bydigest]
           /\ LoadIndex(S).bydigest \in SUBSET Manifests
  <1>1. ASSUME NEW r \in Entry PROVE Digests(r) \subseteq Manifests
    BY DEF Digests, ToSet, Entry
  <1> QED  BY <1>1 DEF LoadIndex

\* Every step keeps mem and out of the shape StoredTypes asks for.
LEMMA StepShape ==
    ASSUME TypeInv, NEW p \in Procs, Step(p)
    PROVE  MemStep(p) /\ OutStep(p)
  <1>1. mem[p].bydigest \in SUBSET Manifests /\ index \in SUBSET Entry
    BY DEF TypeInv, TypeOK, Memory
  <1>2. End(p) => MemStep(p) /\ OutStep(p)
    BY DEF End, MemStep, OutStep, NoMem
  <1>3. ASSUME NEW op, NEW n, Open(p, op, n) PROVE MemStep(p) /\ OutStep(p)
    BY <1>1, <1>3, LoadedDigests DEF Open, MemStep, OutStep
  <1>4. CASE OpenFails(p) \/ Truncate(p) \/ Write(p)
    BY <1>4 DEF OpenFails, Truncate, Write, MemStep, OutStep
  <1>5. CASE Exit(p) \/ Crash(p) \/ Abandon(p)
    BY <1>2, <1>5 DEF Exit, Crash, Abandon
  <1>6. ASSUME NEW ref, NEW new, Tag(p, ref, new) PROVE MemStep(p) /\ OutStep(p)
    BY <1>6 DEF Tag, Skip, Save, MemStep, OutStep
  <1>7. ASSUME NEW ref, RmiName(p, ref) PROVE MemStep(p) /\ OutStep(p)
    <2>1. CASE Skip(p)
      BY <2>1 DEF Skip, MemStep, OutStep
    <2>2. CASE ~ Skip(p)
      <3>1. PICK o : \/ (\E O : mem' = [mem EXCEPT ![p].objs = O])
                       /\ \E O : Save(p, O)
                    \/ /\ mem' = [mem EXCEPT ![p].bydigest =
                                    mem[p].bydigest \ {o.digest}]
                       /\ UNCHANGED out
        BY <1>7, <2>2 DEF RmiName
      <3>2. mem[p].bydigest \ {o.digest} \in SUBSET Manifests
        BY <1>1
      <3> QED  BY <3>1, <3>2 DEF MemStep, OutStep, Save
    <2> QED  BY <2>1, <2>2
  <1>8. ASSUME NEW ref, RmiNameThrows(p, ref) \/ RmiIdThrows(p, ref)
                        \/ ConfigFails(p, ref)
        PROVE  MemStep(p) /\ OutStep(p)
    BY <1>2, <1>8 DEF RmiNameThrows, RmiIdThrows, ConfigFails
  <1>9. CASE RmiHistory(p)
    <2>1. CASE End(p)
      BY <1>2, <2>1
    <2>2. CASE ~ End(p)
      <3>1. /\ mem' = [mem EXCEPT ![p].bydigest =
                          mem[p].bydigest \ {Head(job[p].hist)}]
            /\ UNCHANGED out
        BY <1>9, <2>2 DEF RmiHistory
      <3>2. mem[p].bydigest \ {Head(job[p].hist)} \in SUBSET Manifests
        BY <1>1
      <3> QED  BY <3>1, <3>2 DEF MemStep, OutStep
    <2> QED  BY <2>1, <2>2
  <1>10. CASE RmiHead(p)
    BY <1>10 DEF RmiHead, Save, MemStep, OutStep
  <1>11. ASSUME NEW id, RmiId(p, id) PROVE MemStep(p) /\ OutStep(p)
    <2>1. CASE Skip(p)
      BY <2>1 DEF Skip, MemStep, OutStep
    <2>2. CASE ~ Skip(p)
      <3>1. PICK f, O, E :
              LET bare == {q \in Live(mem[p].objs) : q.id = id /\ q.history = <<>>}
                  rest == IF bare = {} THEN mem[p].bydigest
                          ELSE mem[p].bydigest \ {f.digest}
              IN  /\ mem' = [mem EXCEPT ![p] = [objs |-> O, bydigest |-> rest]]
                  /\ Save(p, E)
        BY <1>11, <2>2 DEF RmiId
      <3> QED  BY <1>1, <3>1 DEF MemStep, OutStep, Save
    <2> QED  BY <2>1, <2>2
  <1>12. ASSUME NEW ref, NEW m, Build(p, ref, m) \/ Pull(p, ref, m)
                               \/ Config(p, ref, m)
         PROVE  MemStep(p) /\ OutStep(p)
    BY <1>12 DEF Build, Pull, Config, StartUpload, MemStep, OutStep
  <1>13. CASE FileStep(p) \/ FileGone(p)
    BY <1>2, <1>13, FileSteps DEF MemStep, OutStep
  <1>14. CASE BuildRecord(p)
    BY <1>14 DEF BuildRecord, Save, MemStep, OutStep
  <1>15. CASE PullRecord(p)
    BY <1>15 DEF PullRecord, Save, MemStep, OutStep
  <1>16. CASE ConfigRecord(p)
    BY <1>16 DEF ConfigRecord, Save, MemStep, OutStep
  <1> QED
    BY <1>3, <1>4, <1>5, <1>6, <1>7, <1>8, <1>9, <1>10, <1>11, <1>12, <1>13,
       <1>14, <1>15, <1>16 DEF Step, FileStep


\* What the end, the start and the loss of a blob make of an upload.
LEMMA DoneJob ==
    ASSUME job \in [Procs -> Job], NEW p \in Procs, Done(p)
    PROVE  \E j \in Job : /\ job' = [job EXCEPT ![p] = j]
                          /\ j.ref = job[p].ref /\ j.img = job[p].img
                          /\ j.todo = job[p].todo /\ j.blob = None
  <1> DEFINE j == [job[p] EXCEPT !.blob = None]
  <1>1. /\ j \in Job /\ j.ref = job[p].ref /\ j.img = job[p].img
        /\ j.todo = job[p].todo /\ j.blob = None
    BY DEF Job
  <1>2. job' = [job EXCEPT ![p] = j]
    BY DEF Done
  <1> HIDE DEF j
  <1> QED  BY <1>1, <1>2

LEMMA BeginJob ==
    ASSUME job \in [Procs -> Job], NEW p \in Procs, NEW b \in Blobs, NEW s,
           Begin(p, b, s)
    PROVE  \E j \in Job : /\ job' = [job EXCEPT ![p] = j]
                          /\ j.ref = job[p].ref /\ j.img = job[p].img
                          /\ j.todo = job[p].todo \ {b} /\ j.blob = b
  <1> DEFINE j == [job[p] EXCEPT !.todo = @ \ {b}, !.blob = b]
  <1>1. /\ j \in Job /\ j.ref = job[p].ref /\ j.img = job[p].img
        /\ j.todo = job[p].todo \ {b} /\ j.blob = b
    BY DEF Job
  <1>2. job' = [job EXCEPT ![p] = j]
    BY DEF Begin
  <1> HIDE DEF j
  <1> QED  BY <1>1, <1>2

LEMMA DropJob ==
    ASSUME job \in [Procs -> Job], NEW p \in Procs, NEW b \in Blobs,
           job' = [job EXCEPT ![p].todo = @ \ {b}]
    PROVE  \E j \in Job : /\ job' = [job EXCEPT ![p] = j]
                          /\ j.ref = job[p].ref /\ j.img = job[p].img
                          /\ j.todo = job[p].todo \ {b}
                          /\ j.blob = job[p].blob
  <1> DEFINE j == [job[p] EXCEPT !.todo = @ \ {b}]
  <1>1. /\ j \in Job /\ j.ref = job[p].ref /\ j.img = job[p].img
        /\ j.todo = job[p].todo \ {b} /\ j.blob = job[p].blob
    BY DEF Job
  <1>2. job' = [job EXCEPT ![p] = j]
    OBVIOUS
  <1> HIDE DEF j
  <1> QED  BY <1>1, <1>2

\* A digest taken of the temporary file is of what the file holds.
Hashed(p, c, k, j, s) ==
    /\ k \in Revised(p, c)
    /\ job' = [job EXCEPT ![p] = j]
    /\ j.ref = job[p].ref /\ j.img = k /\ j.blob = c
    /\ j.todo = IF job[p].img \in job[p].todo
                THEN (job[p].todo \ {job[p].img}) \cup {k}
                ELSE job[p].todo
    /\ pc' = [pc EXCEPT ![p] = s] /\ (s = "mixed" => c # job[p].blob)

LEMMA HashJob ==
    ASSUME job \in [Procs -> Job], NEW p \in Procs, Hash(p)
    PROVE  \E c \in Content(p), k \in Manifests, j \in Job,
              s \in {"mixed", "hashed"} : Hashed(p, c, k, j, s)
  <1>1. PICK c \in Content(p), k \in Manifests :
          /\ k \in Revised(p, c)
          /\ job' = [job EXCEPT ![p].blob = c, ![p].img = k,
                    ![p].todo = IF job[p].img \in @
                                THEN (@ \ {job[p].img}) \cup {k} ELSE @]
          /\ Goto(p, IF cmd[p].op = "pull" /\ c # job[p].blob THEN "mixed"
                     ELSE "hashed")
    BY DEF Hash
  <1> DEFINE T == IF job[p].img \in job[p].todo
                  THEN (job[p].todo \ {job[p].img}) \cup {k}
                  ELSE job[p].todo
             j == [job[p] EXCEPT !.blob = c, !.img = k, !.todo = T]
  <1>2. c \in Blobs /\ k \in Blobs
    BY DEF Content, Blobs
  <1>3. T \subseteq Blobs
    BY <1>2 DEF Job
  <1>4. job' = [job EXCEPT ![p] = j]
    BY <1>1
  <1> HIDE DEF T
  <1>5. /\ j \in Job /\ j.ref = job[p].ref /\ j.img = k /\ j.blob = c
        /\ j.todo = T
    BY <1>2, <1>3 DEF Job
  <1>6. PICK s \in {"mixed", "hashed"} :
          pc' = [pc EXCEPT ![p] = s] /\ (s = "mixed" => c # job[p].blob)
    BY <1>1 DEF Goto
  <1> HIDE DEF j
  <1>7. Hashed(p, c, k, j, s)
    BY <1>1, <1>4, <1>5, <1>6 DEF Hashed, T
  <1> QED  BY <1>5, <1>7

\* A blob step leaves its process in an upload that fits its command, and
\* the files it may write are blobs.
LEMMA FileControl ==
    ASSUME TypeInv, NEW p \in Procs, FileStep(p)
    PROVE  /\ blobs' \subseteq Blobs
           /\ torn' \subseteq Blobs
           /\ staged' \subseteq Staging \X Blobs
           /\ \E s \in Uploading, j \in Job :
                /\ pc' = [pc EXCEPT ![p] = s]
                /\ job' = [job EXCEPT ![p] = j]
                /\ UploadFits(s, cmd[p], j)
  <1> DEFINE Files == /\ blobs' \subseteq Blobs
                      /\ torn' \subseteq Blobs
                      /\ staged' \subseteq Staging \X Blobs
             Moves == \E s \in Uploading, j \in Job :
                        /\ pc' = [pc EXCEPT ![p] = s]
                        /\ job' = [job EXCEPT ![p] = j]
                        /\ UploadFits(s, cmd[p], j)
  <1>1. /\ blobs \subseteq Blobs
        /\ torn \subseteq Blobs
        /\ staged \subseteq Staging \X Blobs
        /\ pc \in [Procs -> PCs]
        /\ job \in [Procs -> Job]
    BY DEF TypeInv, TypeOK
  <1>2. /\ job[p] \in Job
        /\ job[p].todo \subseteq Blobs
        /\ job[p].blob \in Blobs \cup {None}
        /\ Unstaged(p) \subseteq staged
    BY <1>1 DEF Job, Unstaged
  <1>3. pc[p] \in Uploading
    <2>1. Renames(p) \/ Truncates(p) => pc[p] \in Uploading
      BY DEF Renames, Truncates, Uploading
    <2> QED
      BY <2>1 DEF FileStep, Fetch, LoseConfig, Stage, LoseBlob, Hash, KeepFile,
                  Unlink, Rename, Tear, Rewrite, Uploading
  <1>4. UploadFits(pc[p], cmd[p], job[p])
    BY DEF TypeInv, UploadOK
  <1>5. ASSUME NEW s \in Uploading, pc' = [pc EXCEPT ![p] = s],
               NEW j \in Job, job' = [job EXCEPT ![p] = j],
               j.img \in Manifests, j.ref = job[p].ref,
               s # "upload" => j.blob \in Blobs
        PROVE  Moves
    <2>1. UploadFits(s, cmd[p], j)
      BY <1>3, <1>4, <1>5 DEF UploadFits
    <2> QED  BY <1>5, <2>1
  <1>6. ASSUME job' = job, NEW s \in Uploading, pc' = [pc EXCEPT ![p] = s],
               pc[p] # "upload"
        PROVE  Moves
    <2>1. job' = [job EXCEPT ![p] = job[p]]
      BY <1>1, <1>6
    <2>2. job[p].img \in Manifests /\ job[p].blob \in Blobs
      BY <1>3, <1>4, <1>6 DEF UploadFits
    <2> QED  BY <1>2, <1>5, <1>6, <2>1, <2>2
  <1>7. job[p].img \in Manifests
    BY <1>3, <1>4 DEF UploadFits
  <1>8. pc[p] # "upload" => job[p].blob \in Blobs
    BY <1>3, <1>4 DEF UploadFits
  <1> HIDE DEF Moves
  <1>9. ASSUME Done(p) PROVE Moves
    BY <1>1, <1>5, <1>7, <1>9, DoneJob DEF Done, Goto, Uploading
  <1>10. ASSUME NEW b \in Blobs, NEW s \in Uploading, Begin(p, b, s) PROVE Moves
    <2>1. PICK j \in Job : /\ job' = [job EXCEPT ![p] = j]
                           /\ j.ref = job[p].ref /\ j.img = job[p].img
                           /\ j.blob = b
      BY <1>1, <1>10, BeginJob
    <2> QED  BY <1>5, <1>7, <1>10, <2>1 DEF Begin, Goto
  <1>11. ASSUME NEW b \in Blobs, job' = [job EXCEPT ![p].todo = @ \ {b}],
                pc[p] = "upload", pc' = pc
         PROVE  Moves
    <2>1. PICK j \in Job : /\ job' = [job EXCEPT ![p] = j]
                           /\ j.ref = job[p].ref /\ j.img = job[p].img
      BY <1>1, <1>11, DropJob
    <2>2. pc' = [pc EXCEPT ![p] = "upload"]
      BY <1>1, <1>11
    <2> QED  BY <1>5, <1>7, <2>1, <2>2 DEF Uploading
  <1>12. ASSUME NEW b \in Blobs, Fetch(p, b) PROVE Files /\ Moves
    <2>1. Files
      BY <1>1, <1>12 DEF Fetch
    <2>2. Moves
      BY <1>10, <1>11, <1>12 DEF Fetch, Uploading
    <2> QED  BY <2>1, <2>2
  <1>13. ASSUME NEW b \in Blobs, LoseConfig(p, b) PROVE Files /\ Moves
    <2>1. Files
      BY <1>1, <1>13 DEF LoseConfig
    <2>2. Moves
      BY <1>11, <1>13 DEF LoseConfig
    <2> QED  BY <2>1, <2>2
  <1>14. ASSUME NEW b \in Blobs, Stage(p, b) PROVE Files /\ Moves
    <2>1. cmd[p].op \in Staging
      BY <1>3, <1>4 DEF UploadFits
    <2>2. Files
      BY <1>1, <1>14, <2>1 DEF Stage
    <2>3. Moves
      BY <1>6, <1>10, <1>14 DEF Stage, Goto, Uploading
    <2> QED  BY <2>2, <2>3
  <1>15. ASSUME LoseBlob(p) PROVE Files /\ Moves
    BY <1>1, <1>9, <1>15 DEF LoseBlob
  <1>16. ASSUME Hash(p) PROVE Files /\ Moves
    <2>1. Files
      BY <1>1, <1>16 DEF Hash
    <2>2. PICK c \in Content(p), k \in Manifests, j \in Job,
              s \in {"mixed", "hashed"} : Hashed(p, c, k, j, s)
      BY <1>1, <1>16, HashJob
    <2>3. c \in Blobs
      BY DEF Content
    <2> QED  BY <1>5, <2>1, <2>2, <2>3 DEF Hashed, Uploading
  <1>17. ASSUME KeepFile(p) PROVE Files /\ Moves
    BY <1>1, <1>2, <1>9, <1>17 DEF KeepFile
  <1>18. ASSUME Unlink(p) PROVE Files /\ Moves
    BY <1>1, <1>6, <1>18 DEF Unlink, DeleteFiles, Goto, Uploading
  <1>19. ASSUME Rename(p) PROVE Files /\ Moves
    <2>1. job[p].blob \in Blobs
      BY <1>8, <1>19 DEF Rename, Renames
    <2> QED  BY <1>1, <1>2, <1>9, <1>19, <2>1 DEF Rename
  <1>20. ASSUME Tear(p) PROVE Files /\ Moves
    <2>1. pc[p] # "upload" /\ job[p].blob \in Blobs
      BY <1>8, <1>20 DEF Tear, Truncates
    <2>2. Files
      BY <1>1, <1>2, <1>20, <2>1 DEF Tear
    <2>3. Moves
      BY <1>6, <1>9, <1>20, <2>1 DEF Tear, Goto, Uploading
    <2> QED  BY <2>2, <2>3
  <1>21. ASSUME Rewrite(p) PROVE Files /\ Moves
    <2>1. job[p].blob \in Blobs
      BY <1>8, <1>21 DEF Rewrite
    <2> QED  BY <1>1, <1>2, <1>9, <1>21, <2>1 DEF Rewrite
  <1>22. Files /\ Moves
    BY <1>12, <1>13, <1>14, <1>15, <1>16, <1>17, <1>18, <1>19, <1>20, <1>21
    DEF FileStep
  <1> QED  BY <1>22 DEF Moves

\* Every step keeps the types of pc, cmd, job and the files, and an upload
\* stays one that fits its command.
LEMMA StepControl ==
    ASSUME TypeInv, NEW p \in Procs, Step(p)
    PROVE  /\ blobs' \subseteq Blobs
           /\ torn' \subseteq Blobs
           /\ staged' \subseteq Staging \X Blobs
           /\ pc' \in [Procs -> PCs]
           /\ cmd' \in [Procs -> [op : AllCommands \cup {"none"},
                                 left : 0..MaxArgs]]
           /\ job' \in [Procs -> Job]
           /\ UploadOK'
  <1> DEFINE Cmd  == [op : AllCommands \cup {"none"}, left : 0..MaxArgs]
             Files == /\ blobs' \subseteq Blobs
                      /\ torn' \subseteq Blobs
                      /\ staged' \subseteq Staging \X Blobs
             Goal == /\ Files
                     /\ pc' \in [Procs -> PCs]
                     /\ cmd' \in [Procs -> Cmd]
                     /\ job' \in [Procs -> Job]
                     /\ UploadOK'
  <1>1. /\ blobs \subseteq Blobs
        /\ torn \subseteq Blobs
        /\ staged \subseteq Staging \X Blobs
        /\ pc \in [Procs -> PCs]
        /\ cmd \in [Procs -> Cmd]
        /\ job \in [Procs -> Job]
    BY DEF TypeInv, TypeOK
  <1>2. /\ cmd[p] \in Cmd /\ job[p] \in Job
        /\ NoCmd \in Cmd /\ NoJob \in Job
    BY <1>1, BoundAssumption DEF NoCmd, NoJob, Job
  <1>3. ASSUME Files,
               NEW s \in PCs, pc' = [pc EXCEPT ![p] = s],
               NEW c \in Cmd, cmd' = [cmd EXCEPT ![p] = c],
               NEW j \in Job, job' = [job EXCEPT ![p] = j],
               UploadFits(s, c, j)
        PROVE  Goal
    <2>1. UploadOK'
      <3> SUFFICES ASSUME NEW q \in Procs
                   PROVE  UploadFits(pc'[q], cmd'[q], job'[q])
        BY DEF UploadOK
      <3>1. CASE q = p
        BY <1>1, <1>3, <3>1
      <3>2. CASE q # p
        BY <1>1, <1>3, <3>2 DEF TypeInv, UploadOK
      <3> QED  BY <3>1, <3>2
    <2> QED  BY <1>1, <1>3, <2>1
  <1>4. /\ pc' = pc => pc' = [pc EXCEPT ![p] = pc[p]]
        /\ cmd' = cmd => cmd' = [cmd EXCEPT ![p] = cmd[p]]
        /\ job' = job => job' = [job EXCEPT ![p] = job[p]]
    BY <1>1
  <1>5. pc[p] \in PCs /\ UploadFits(pc[p], cmd[p], job[p])
    BY <1>1 DEF TypeInv, UploadOK
  <1>6. /\ [cmd[p] EXCEPT !.left = @ - 1].op = cmd[p].op
        /\ cmd[p].left > 0 => [cmd[p] EXCEPT !.left = @ - 1] \in Cmd
    BY <1>2, BoundAssumption
  <1>7. TakeArg(p) => cmd' = [cmd EXCEPT ![p] = [cmd[p] EXCEPT !.left = @ - 1]]
    BY <1>1 DEF TakeArg
  <1>8. ASSUME NEW s, s \notin Uploading, NEW c, NEW j
        PROVE  UploadFits(s, c, j)
    BY <1>8 DEF UploadFits
  <1>9. /\ {"idle", "ready", "truncate", "write", "history"} \subseteq PCs \ Uploading
        /\ Uploading \subseteq PCs
    BY DEF PCs, Uploading
  <1>10. UNCHANGED disk => Files
    BY <1>1
  <1> HIDE DEF Cmd, Goal, Files
  <1>11. End(p) /\ UNCHANGED disk => Goal
    BY <1>2, <1>3, <1>8, <1>9, <1>10 DEF End, Goto
  <1>12. ASSUME NEW op \in AllCommands, NEW n \in 0..MaxArgs, Open(p, op, n)
        PROVE  Goal
    <2>1. [op |-> op, left |-> n] \in Cmd
      BY DEF Cmd
    <2> QED  BY <1>2, <1>3, <1>4, <1>12, <1>8, <1>9, <1>10, <2>1 DEF Open, Goto
  <1>13. ASSUME OpenFails(p) PROVE Goal
    BY <1>2, <1>3, <1>4, <1>5, <1>13, <1>10 DEF OpenFails
  <1>14. ASSUME Truncate(p) \/ Write(p) PROVE Goal
    <2>1. Files
      BY <1>1, <1>14 DEF Truncate, Write, Files
    <2> QED  BY <1>2, <1>3, <1>4, <1>14, <1>8, <1>9, <2>1 DEF Truncate, Write, Goto
  <1>15. ASSUME Exit(p) \/ Crash(p) \/ Abandon(p) PROVE Goal
    BY <1>11, <1>15 DEF Exit, Crash, Abandon
  \* Operations that take an argument and leave the upload state alone.
  <1>16. ASSUME TakeArg(p), cmd[p].left > 0, pc[p] = "ready",
                UNCHANGED job, Files,
                pc' = pc \/ Goto(p, "truncate")
         PROVE  Goal
    <2>1. PICK s \in PCs : s \notin Uploading /\ pc' = [pc EXCEPT ![p] = s]
      BY <1>4, <1>5, <1>16, <1>9 DEF Goto
    <2> QED  BY <1>2, <1>3, <1>4, <1>6, <1>7, <1>16, <1>8, <2>1
  <1>17. ASSUME NEW ref, NEW new, Tag(p, ref, new) PROVE Goal
    BY <1>16, <1>17, <1>10 DEF Tag, Skip, Save, Running
  <1>18. ASSUME NEW ref, RmiName(p, ref) PROVE Goal
    <2>1. TakeArg(p) /\ cmd[p].left > 0 /\ pc[p] = "ready"
      BY <1>18 DEF RmiName, Running
    <2>2. CASE Skip(p)
      BY <1>16, <1>10, <2>1, <2>2 DEF Skip
    <2>3. CASE ~ Skip(p)
      <3>1. PICK o \in Lookup(mem[p].objs, ref) :
              \/ (\E O : Save(p, O)) /\ UNCHANGED <<disk, job>>
              \/ /\ (\E S : DeleteFiles(S)) /\ UNCHANGED staged
                 /\ job' = [job EXCEPT ![p] =
                              [NoJob EXCEPT !.img = o.digest,
                                            !.hist = o.history, !.pos = o.pos]]
                 /\ Goto(p, "history")
        BY <1>18, <2>3 DEF RmiName
      <3>2. [NoJob EXCEPT !.img = o.digest, !.hist = o.history,
                          !.pos = o.pos] \in Job
        <4>1. o \in Object
          BY LookupFinds DEF TypeInv, TypeOK, Memory
        <4> QED  BY <4>1 DEF NoJob, Job, Object
      <3>3. Files
        BY <1>1, <1>10, <3>1 DEF Files, DeleteFiles
      <3> QED
        BY <1>2, <1>3, <1>6, <1>7, <1>16, <1>8, <1>9, <2>1, <3>1, <3>2, <3>3
        DEF Save, Goto
    <2> QED  BY <2>2, <2>3
  <1>19. ASSUME NEW ref, RmiNameThrows(p, ref) \/ RmiIdThrows(p, ref)
                        \/ ConfigFails(p, ref)
         PROVE  Goal
    BY <1>11, <1>19 DEF RmiNameThrows, RmiIdThrows, ConfigFails
  <1>20. ASSUME RmiHistory(p) PROVE Goal
    <2>1. CASE End(p) /\ UNCHANGED disk
      BY <1>11, <2>1
    <2>2. CASE ~ (End(p) /\ UNCHANGED disk)
      <3>1. /\ \E S : DeleteFiles(S)
            /\ UNCHANGED staged
            /\ job' = [job EXCEPT ![p].hist = Tail(@)]
            /\ UNCHANGED <<pc, cmd>>
            /\ pc[p] = "history" /\ job[p].hist # <<>>
        BY <1>20, <2>2 DEF RmiHistory
      <3>2. [job[p] EXCEPT !.hist = Tail(@)] \in Job
        <4>1. job[p].hist \in Seq(Manifests)
          BY <1>2 DEF Job
        <4>2. Tail(job[p].hist) \in Seq(Manifests)
          BY <3>1, <4>1
        <4> QED  BY <1>2, <4>2 DEF Job
      <3>3. job' = [job EXCEPT ![p] = [job[p] EXCEPT !.hist = Tail(@)]]
        BY <1>1, <3>1
      <3>4. Files
        BY <1>1, <3>1 DEF Files, DeleteFiles
      <3> QED  BY <1>2, <1>3, <1>4, <1>8, <1>9, <3>1, <3>2, <3>3, <3>4
    <2> QED  BY <2>1, <2>2
  <1>21. ASSUME RmiHead(p) PROVE Goal
    <2>1. Files
      BY <1>1, <1>21 DEF RmiHead, DeleteFiles, Files
    <2> QED  BY <1>2, <1>3, <1>4, <1>21, <1>8, <1>9, <2>1 DEF RmiHead, Save, Goto
  <1>22. ASSUME NEW id, RmiId(p, id) PROVE Goal
    <2>1. TakeArg(p) /\ cmd[p].left > 0 /\ pc[p] = "ready"
      BY <1>22 DEF RmiId, Running
    <2>2. /\ UNCHANGED job
          /\ pc' = pc \/ Goto(p, "truncate")
          /\ \/ UNCHANGED disk
             \/ (\E S : DeleteFiles(S)) /\ UNCHANGED staged
      <3>1. CASE Skip(p)
        BY <3>1 DEF Skip
      <3>2. CASE ~ Skip(p)
        BY <1>22, <3>2 DEF RmiId, Save
      <3> QED  BY <3>1, <3>2
    <2>3. Files
      BY <1>1, <1>10, <2>2 DEF Files, DeleteFiles
    <2> QED  BY <1>16, <2>1, <2>2, <2>3
  <1>23. ASSUME NEW ref \in Refs, NEW m \in Manifests,
                NEW todo \in SUBSET Blobs,
                StartUpload(p, ref, m, todo), cmd[p].left > 0,
                cmd[p].op \in Staging,
                cmd[p].op = "build" => ref \in Names,
                cmd[p].op = "pull" => ref \in Shorts
         PROVE  Goal
    <2> DEFINE j == [NoJob EXCEPT !.ref = ref, !.img = m, !.todo = todo]
    <2>1. j \in Job /\ j.img = m /\ j.ref = ref
      BY <1>2 DEF Job, NoJob
    <2>2. job' = [job EXCEPT ![p] = j]
      BY <1>23 DEF StartUpload
    <2> HIDE DEF j
    <2>3. UploadFits("upload", [cmd[p] EXCEPT !.left = @ - 1], j)
      BY <1>6, <1>23, <2>1 DEF UploadFits
    <2>4. pc' = [pc EXCEPT ![p] = "upload"] /\ "upload" \in PCs
      BY <1>23 DEF StartUpload, Goto, PCs, Uploading
    <2> QED
      BY <1>3, <1>6, <1>7, <1>23, <1>10, <2>1, <2>2, <2>3, <2>4 DEF StartUpload
  <1>24. \A m \in Manifests : BlobsOf(m) \subseteq Blobs
                               /\ {ConfigOf[m], m} \subseteq Blobs
    BY DigestAssumption DEF BlobsOf, Blobs
  <1>25. ASSUME NEW name \in Names, NEW m \in Manifests, Build(p, name, m)
         PROVE  Goal
    BY <1>23, <1>24, <1>25 DEF Build, Running, Staging, Refs
  <1>26. ASSUME NEW short \in Shorts, NEW m \in Manifests, Pull(p, short, m)
         PROVE  Goal
    BY <1>23, <1>24, <1>26 DEF Pull, Running, Staging, Refs
  <1>27. ASSUME NEW ref \in Refs, NEW m \in Manifests, Config(p, ref, m)
         PROVE  Goal
    BY <1>23, <1>24, <1>27 DEF Config, Running, Staging
  <1>28. ASSUME FileStep(p) PROVE Goal
    <2>1. Files
      BY <1>28, FileControl DEF Files
    <2>2. UNCHANGED cmd
      BY <1>28, FileSteps
    <2> QED  BY <1>2, <1>3, <1>4, <1>28, <1>9, <2>1, <2>2, FileControl
  <1>29. ASSUME FileGone(p) PROVE Goal
    <2>1. CASE End(p) /\ UNCHANGED disk
      BY <1>11, <2>1
    <2>2. CASE Done(p) /\ pc[p] \in Uploading \ {"upload"}
               /\ UNCHANGED <<disk, cmd>>
      <3>2. PICK j \in Job : /\ job' = [job EXCEPT ![p] = j]
                             /\ j.img = job[p].img /\ j.ref = job[p].ref
        BY <1>1, <2>2, DoneJob
      <3>3. UploadFits("upload", cmd[p], j)
        BY <1>5, <2>2, <3>2 DEF UploadFits
      <3>4. pc' = [pc EXCEPT ![p] = "upload"] /\ "upload" \in PCs
        BY <2>2 DEF Done, Goto, PCs, Uploading
      <3> QED  BY <1>2, <1>3, <1>4, <1>10, <2>2, <3>2, <3>3, <3>4
    <2> QED  BY <1>29, <2>1, <2>2, FileSteps
  <1>30. ASSUME BuildRecord(p) \/ PullRecord(p) \/ ConfigRecord(p) PROVE Goal
    <2>1. /\ pc' = [pc EXCEPT ![p] = "truncate"]
          /\ job' = [job EXCEPT ![p] = NoJob]
          /\ UNCHANGED <<disk, cmd>>
      BY <1>30 DEF BuildRecord, PullRecord, ConfigRecord, Save, Goto
    <2>2. "truncate" \in PCs
      BY DEF PCs
    <2> QED  BY <1>2, <1>3, <1>4, <1>8, <1>9, <1>10, <2>1, <2>2
  <1>31. Goal
    BY <1>12, <1>13, <1>14, <1>15, <1>17, <1>18, <1>19, <1>20, <1>21, <1>22,
       <1>25, <1>26, <1>27, <1>28, <1>29, <1>30 DEF Step, FileStep
  <1> QED  BY <1>31 DEF Goal, Cmd, Files

\* Every step keeps the type invariant.
LEMMA StepTypeInv ==
    ASSUME TypeInv, NEW p \in Procs, Step(p)
    PROVE  TypeInv'
  <1>1. Stored(Manifests)
    BY DEF TypeInv, TypeOK, Stored, EntryIn, ObjectIn, Entry, Object, Memory
  <1>2. pc[p] = "upload" => job[p].img \in Manifests
    BY DEF TypeInv, UploadOK, UploadFits, Uploading
  <1>3. Stored(Manifests)'
    BY <1>1, <1>2, StepStored
  <1>4. /\ index' \subseteq Entry
        /\ mem' \in [Procs -> Memory]
        /\ out' \in [Procs -> SUBSET Entry]
    BY <1>3, StepShape, StoredTypes
  <1> QED  BY <1>4, StepControl DEF TypeInv, TypeOK

\* Type correctness: each variable keeps its type in every behaviour, for
\* every set of processes and every value of the constants.
THEOREM TypeCorrect == Spec => []TypeOK
  <1>1. TypeInv /\ UNCHANGED vars => TypeInv'
    BY DEF TypeInv, TypeOK, UploadOK
  <1>2. TypeInv /\ [Next]_vars => TypeInv'
    BY <1>1, StepTypeInv DEF Next
  <1>3. TypeInv => TypeOK
    BY DEF TypeInv
  <1> QED  BY InitType, <1>2, <1>3, PTL DEF Spec

-----------------------------------------------------------------------------
(* What the index refers to is stored, at every moment and with any number *)
(* of processes, as long as the store is used in a way that keeps blobs:   *)
(* no rmi; a registry that delivers what it names and files that can be    *)
(* written; no crash of a command that rewrites a file in place; and no    *)
(* two processes that run the same uploading command, since those share    *)
(* temporary files.                                                        *)

\* A use in which no upload loses or spoils a blob.
CleanUse ==
    /\ ~ LossyRegistry
    /\ WriteErrors => \A p \in Procs : CommandsOf[p] \cap {"build", "pull"} = {}
    /\ Crashes => \A p \in Procs : CommandsOf[p] \cap {"pull", "config"} = {}
    /\ \A p, q \in Procs :
         p # q => CommandsOf[p] \cap CommandsOf[q] \cap Staging = {}

SafeUse == CleanUse /\ \A p \in Procs : "rmi" \notin CommandsOf[p]

-----------------------------------------------------------------------------
(* The inductive invariant.                                                *)

Stable == {m \in Manifests : Sound(m)}

\* What an upload neither has before it nor in hand is in S.
Ahead(j, S) == BlobsOf(j.img) \ (j.todo \cup {j.blob}) \subseteq S

\* What the temporary file named by op and b holds when st is staged.
ContentOf(st, op, b) ==
    {c \in Blobs : <<op, c>> \in st /\ SameFile(op, b, c)}

\* A process at s with command c and operation j, which may run the commands
\* ops, has stored into S what it is past, and its temporary file holds the
\* blob it has staged.
SafeProc(ops, s, c, j, st, S) ==
    /\ c.op \in ops \cup {"none"}
    /\ s # "mixed"
    /\ s = "history" => c.op = "rmi"
    /\ s = "upload" => j.blob = None
    /\ s = "fetched" => c.op = "pull"
    /\ s = "rewrite" => c.op \in {"pull", "config"}
    /\ s \in Uploading => Ahead(j, S)
    /\ s \in {"staged", "hashed"} \/ (s = "rewrite" /\ c.op = "config") =>
         ContentOf(st, c.op, j.blob) = {j.blob}

CleanInv ==
    /\ TypeInv
    /\ torn \subseteq Rewriting
    /\ \A q \in Procs : SafeProc(CommandsOf[q], pc[q], cmd[q], job[q], staged,
                                 blobs \cup Rewriting)

SafeInv == CleanInv /\ Stored(Stable)

-----------------------------------------------------------------------------
(* What a step of p does to the blobs being rewritten and to the others.   *)

LEMMA RewritingStep ==
    ASSUME pc \in [Procs -> PCs], job \in [Procs -> Job], NEW p \in Procs,
           NEW s, pc' = [pc EXCEPT ![p] = s],
           NEW j, job' = [job EXCEPT ![p] = j]
    PROVE  /\ pc[p] # "rewrite" /\ s # "rewrite" => Rewriting' = Rewriting
           /\ pc[p] # "rewrite" /\ s = "rewrite" =>
                Rewriting' = Rewriting \cup {j.blob}
           /\ pc[p] = "rewrite" /\ s # "rewrite" =>
                /\ Rewriting' \subseteq Rewriting
                /\ Rewriting = Rewriting' \cup {job[p].blob}
  <1> DEFINE Other == {job[q].blob : q \in {r \in Procs : r # p /\ pc[r] = "rewrite"}}
  <1>1. Rewriting = Other \cup (IF pc[p] = "rewrite" THEN {job[p].blob} ELSE {})
    BY DEF Rewriting
  <1>2. \A q \in Procs : q # p => pc'[q] = pc[q] /\ job'[q] = job[q]
    OBVIOUS
  <1>3. pc'[p] = s /\ job'[p] = j
    OBVIOUS
  <1>4. Rewriting' = Other \cup (IF s = "rewrite" THEN {j.blob} ELSE {})
    BY <1>2, <1>3 DEF Rewriting
  <1> HIDE DEF Other
  <1> QED  BY <1>1, <1>4

Kept ==
    /\ blobs \cup Rewriting \subseteq (blobs \cup Rewriting)'
    /\ torn' \subseteq Rewriting'
    /\ \A q \in Procs : SafeProc(CommandsOf[q], pc'[q], cmd'[q], job'[q], staged',
                                 (blobs \cup Rewriting)')

\* It is enough to look at what the step does to p: no other process runs the
\* same uploading command, so none looks at the temporary files of p.
LEMMA SafeFrame ==
    ASSUME CleanUse, CleanInv, NEW p \in Procs,
           NEW s, pc' = [pc EXCEPT ![p] = s],
           NEW c, cmd' = [cmd EXCEPT ![p] = c],
           NEW j, job' = [job EXCEPT ![p] = j],
           blobs \cup Rewriting \subseteq (blobs \cup Rewriting)',
           torn' \subseteq Rewriting',
           SafeProc(CommandsOf[p], s, c, j, staged', (blobs \cup Rewriting)'),
           \/ staged' = staged
           \/ /\ pc[p] \in Uploading
              /\ \A op, b : op # cmd[p].op =>
                   (<<op, b>> \in staged' <=> <<op, b>> \in staged)
    PROVE  Kept
  <1>1. /\ pc \in [Procs -> PCs]
        /\ cmd \in [Procs -> [op : AllCommands \cup {"none"},
                              left : 0..MaxArgs]]
        /\ job \in [Procs -> Job]
        /\ \A q \in Procs : UploadFits(pc[q], cmd[q], job[q])
    BY DEF CleanInv, TypeInv, TypeOK, UploadOK
  <1>2. SUFFICES ASSUME NEW q \in Procs
                 PROVE  SafeProc(CommandsOf[q], pc'[q], cmd'[q], job'[q],
                                 staged', (blobs \cup Rewriting)')
    BY DEF Kept
  <1>3. CASE q = p
    BY <1>1, <1>3
  <1>4. CASE q # p
    <2>1. pc'[q] = pc[q] /\ cmd'[q] = cmd[q] /\ job'[q] = job[q]
      BY <1>1, <1>4
    <2>2. SafeProc(CommandsOf[q], pc[q], cmd[q], job[q], staged,
                   blobs \cup Rewriting)
      BY DEF CleanInv
    <2>3. pc[q] \in Uploading => Ahead(job[q], (blobs \cup Rewriting)')
      BY <2>2 DEF SafeProc, Ahead
    <2>4. ASSUME pc[q] \in Uploading
          PROVE  ContentOf(staged', cmd[q].op, job[q].blob) =
                 ContentOf(staged, cmd[q].op, job[q].blob)
      <3>1. CASE staged' = staged
        BY <3>1
      <3>2. CASE staged' # staged
        <4>1. cmd[q].op \in Staging /\ cmd[p].op \in Staging /\ "none" \notin Staging
          BY <1>1, <2>4, <3>2 DEF UploadFits, Staging
        <4>2. cmd[q].op \in CommandsOf[q] /\ cmd[p].op \in CommandsOf[p]
          BY <2>2, <4>1 DEF CleanInv, SafeProc
        <4>3. cmd[q].op # cmd[p].op
          BY <1>4, <4>1, <4>2 DEF CleanUse
        <4> QED  BY <3>2, <4>3 DEF ContentOf
      <3> QED  BY <3>1, <3>2
    <2>5. pc[q] \in {"staged", "hashed", "rewrite"} => pc[q] \in Uploading
      BY DEF Uploading
    <2> QED  BY <2>1, <2>2, <2>3, <2>4, <2>5 DEF SafeProc
  <1> QED  BY <1>3, <1>4

\* Steps that leave the files alone and are not part of an upload.
LEMMA SafeQuiet ==
    ASSUME CleanUse, CleanInv, NEW p \in Procs, UNCHANGED disk,
           pc[p] # "rewrite",
           NEW s \in {"idle", "ready", "truncate", "write"},
           pc' = [pc EXCEPT ![p] = s],
           NEW c, cmd' = [cmd EXCEPT ![p] = c],
           c.op \in CommandsOf[p] \cup {"none"},
           NEW j, job' = [job EXCEPT ![p] = j]
    PROVE  Kept
  <1>1. pc \in [Procs -> PCs] /\ job \in [Procs -> Job]
    BY DEF CleanInv, TypeInv, TypeOK
  <1>2. Rewriting' = Rewriting
    BY <1>1, RewritingStep
  <1>3. s \notin Uploading /\ s \notin {"history", "mixed", "upload", "fetched",
                                   "rewrite", "staged", "hashed"}
    BY DEF Uploading
  <1>4. SafeProc(CommandsOf[p], s, c, j, staged', (blobs \cup Rewriting)')
    BY <1>3 DEF SafeProc
  <1> QED  BY <1>2, <1>4, SafeFrame DEF CleanInv

-----------------------------------------------------------------------------
(* The blob steps.                                                         *)

\* What holds of p before a blob step.
LEMMA Uploader ==
    ASSUME CleanUse, CleanInv, NEW p \in Procs, pc[p] \in Uploading
    PROVE  /\ pc \in [Procs -> PCs]
           /\ job \in [Procs -> Job] /\ job[p] \in Job
           /\ cmd \in [Procs -> [op : AllCommands \cup {"none"},
                                 left : 0..MaxArgs]]
           /\ cmd[p].op \in CommandsOf[p] \cap Staging
           /\ torn \subseteq Rewriting
           /\ pc[p] # "mixed"
           /\ pc[p] = "upload" => job[p].blob = None
           /\ pc[p] # "upload" => job[p].blob \in Blobs
           /\ pc[p] = "fetched" => cmd[p].op = "pull"
           /\ pc[p] = "rewrite" => cmd[p].op \in {"pull", "config"}
           /\ Ahead(job[p], blobs \cup Rewriting)
           /\ \/ pc[p] \in {"staged", "hashed"}
              \/ pc[p] = "rewrite" /\ cmd[p].op = "config"
              => Content(p) = {job[p].blob}
  <1>1. /\ TypeInv /\ torn \subseteq Rewriting
        /\ UploadFits(pc[p], cmd[p], job[p])
        /\ SafeProc(CommandsOf[p], pc[p], cmd[p], job[p], staged,
                    blobs \cup Rewriting)
    BY DEF CleanInv, TypeInv, UploadOK
  <1>2. Content(p) = ContentOf(staged, cmd[p].op, job[p].blob)
    BY DEF Content, ContentOf
  <1>3. cmd[p].op \in CommandsOf[p] \cap Staging
    BY <1>1 DEF UploadFits, SafeProc, Staging
  <1> QED
    BY <1>1, <1>2, <1>3 DEF TypeInv, TypeOK, UploadFits, SafeProc

\* A blob step keeps the invariant when it takes no blob away, stores what
\* the upload leaves behind it and leaves the blob in hand staged.
LEMMA SafeFiles ==
    ASSUME CleanUse, CleanInv, NEW p \in Procs, pc[p] \in Uploading,
           UNCHANGED cmd,
           NEW s \in Uploading \ {"mixed"}, pc' = [pc EXCEPT ![p] = s],
           NEW j, job' = [job EXCEPT ![p] = j],
           blobs \cup Rewriting \subseteq (blobs \cup Rewriting)',
           torn' \subseteq Rewriting',
           \A op, b : op # cmd[p].op =>
             (<<op, b>> \in staged' <=> <<op, b>> \in staged),
           Ahead(j, (blobs \cup Rewriting)'),
           s = "upload" => j.blob = None,
           s = "fetched" => cmd[p].op = "pull",
           s = "rewrite" => cmd[p].op \in {"pull", "config"},
           s \in {"staged", "hashed"} \/ (s = "rewrite" /\ cmd[p].op = "config")
             => ContentOf(staged', cmd[p].op, j.blob) = {j.blob}
    PROVE  Kept
  <1>1. /\ cmd[p].op \in CommandsOf[p] \cup {"none"}
        /\ cmd' = [cmd EXCEPT ![p] = cmd[p]]
    BY Uploader
  <1>2. s \notin {"history", "mixed"}
    BY DEF Uploading
  <1>3. SafeProc(CommandsOf[p], s, cmd[p], j, staged', (blobs \cup Rewriting)')
    BY <1>1, <1>2 DEF SafeProc
  <1> QED  BY <1>1, <1>3, SafeFrame

\* Taking what p has staged leaves the files of the other commands alone.
LEMMA UnstagedOthers ==
    ASSUME NEW p \in Procs
    PROVE  \A op, b : op # cmd[p].op =>
             (<<op, b>> \in Unstaged(p) <=> <<op, b>> \in staged)
  BY DEF Unstaged

\* The end of the work on a blob that is stored now.
LEMMA SafeDone ==
    ASSUME CleanUse, CleanInv, NEW p \in Procs, pc[p] \in Uploading \ {"upload"},
           UNCHANGED cmd, Done(p),
           blobs \cup Rewriting \subseteq (blobs \cup Rewriting)',
           job[p].blob \in (blobs \cup Rewriting)',
           torn' \subseteq Rewriting',
           staged' = staged \/ staged' = Unstaged(p)
    PROVE  Kept
  <1>1. PICK j \in Job : /\ job' = [job EXCEPT ![p] = j]
                         /\ j.ref = job[p].ref /\ j.img = job[p].img
                         /\ j.todo = job[p].todo /\ j.blob = None
    BY Uploader, DoneJob
  <1>2. Ahead(job[p], blobs \cup Rewriting)
    BY Uploader
  <1>3. Ahead(j, (blobs \cup Rewriting)')
    BY <1>1, <1>2 DEF Ahead
  <1>4. pc' = [pc EXCEPT ![p] = "upload"] /\ "upload" \in Uploading \ {"mixed"}
    BY DEF Done, Goto, Uploading
  <1>5. \A op, b : op # cmd[p].op =>
          (<<op, b>> \in staged' <=> <<op, b>> \in staged)
    BY UnstagedOthers
  <1> QED  BY <1>1, <1>3, <1>4, <1>5, SafeFiles

LEMMA SafeFetch ==
    ASSUME CleanUse, CleanInv, NEW p \in Procs, NEW b \in Blobs, Fetch(p, b)
    PROVE  Kept
  <1>1. pc[p] = "upload" /\ "upload" \in Uploading /\ "fetched" \in Uploading
    BY DEF Fetch, Uploading
  <1>2. UNCHANGED <<disk, cmd>> /\ cmd[p].op = "pull"
    BY DEF Fetch
  <1>3. /\ job[p].blob = None /\ Ahead(job[p], blobs \cup Rewriting)
        /\ torn \subseteq Rewriting
        /\ pc \in [Procs -> PCs] /\ job \in [Procs -> Job]
    BY <1>1, Uploader
  <1>4. None \notin Blobs /\ BlobsOf(job[p].img) \subseteq Blobs
    <2>1. job[p].img \in Manifests
      BY <1>1 DEF CleanInv, TypeInv, UploadOK, UploadFits
    <2> QED  BY <2>1, NameAssumption, DigestAssumption DEF BlobsOf, Blobs
  <1>5. CASE b \in blobs \cup torn /\ job' = [job EXCEPT ![p].todo = @ \ {b}]
             /\ UNCHANGED pc
    <2>1. PICK j \in Job : /\ job' = [job EXCEPT ![p] = j]
                           /\ j.ref = job[p].ref /\ j.img = job[p].img
                           /\ j.todo = job[p].todo \ {b} /\ j.blob = job[p].blob
      BY <1>3, <1>5, DropJob
    <2>2. pc' = [pc EXCEPT ![p] = "upload"]
      BY <1>1, <1>3, <1>5
    <2>3. Rewriting' = Rewriting
      BY <1>1, <1>3, <2>1, <2>2, RewritingStep
    <2>4. Ahead(j, (blobs \cup Rewriting)')
      BY <1>2, <1>3, <1>5, <2>1, <2>3 DEF Ahead
    <2> QED  BY <1>1, <1>2, <1>3, <2>1, <2>2, <2>3, <2>4, SafeFiles
  <1>6. CASE Begin(p, b, "fetched")
    <2>1. PICK j \in Job : /\ job' = [job EXCEPT ![p] = j]
                           /\ j.ref = job[p].ref /\ j.img = job[p].img
                           /\ j.todo = job[p].todo \ {b} /\ j.blob = b
      BY <1>3, <1>6, BeginJob
    <2>2. pc' = [pc EXCEPT ![p] = "fetched"]
      BY <1>6 DEF Begin, Goto
    <2>3. Rewriting' = Rewriting
      BY <1>1, <1>3, <2>1, <2>2, RewritingStep
    <2>4. Ahead(j, (blobs \cup Rewriting)')
      BY <1>2, <1>3, <1>4, <2>1, <2>3 DEF Ahead
    <2>5. "fetched" \in Uploading \ {"mixed"}
      BY DEF Uploading
    <2> QED  BY <1>1, <1>2, <1>3, <2>1, <2>2, <2>3, <2>4, <2>5, SafeFiles
  <1> QED  BY <1>5, <1>6 DEF Fetch

LEMMA SafeStage ==
    ASSUME CleanUse, CleanInv, NEW p \in Procs, NEW b \in Blobs, Stage(p, b)
    PROVE  Kept
  <1>1. pc[p] \in {"upload", "fetched"} /\ "staged" \in Uploading \ {"mixed"}
        /\ pc[p] \in Uploading
    BY DEF Stage, Uploading
  <1>2. UNCHANGED <<index, blobs, torn, cmd>>
    BY DEF Stage
  <1>3. /\ Ahead(job[p], blobs \cup Rewriting)
        /\ pc[p] = "upload" => job[p].blob = None
        /\ torn \subseteq Rewriting
        /\ pc \in [Procs -> PCs] /\ job \in [Procs -> Job]
    BY <1>1, Uploader
  <1>4. PICK j \in Job : /\ job' = [job EXCEPT ![p] = j]
                         /\ j.img = job[p].img /\ j.blob = b
                         /\ job[p].todo \subseteq j.todo \cup {b}
                         /\ job[p].blob \in {None, b}
                         /\ pc' = [pc EXCEPT ![p] = "staged"]
    <2>1. CASE pc[p] = "upload" /\ Begin(p, b, "staged")
      <3>1. PICK j \in Job : /\ job' = [job EXCEPT ![p] = j]
                             /\ j.ref = job[p].ref /\ j.img = job[p].img
                             /\ j.todo = job[p].todo \ {b} /\ j.blob = b
        BY <1>3, <2>1, BeginJob
      <3>2. pc' = [pc EXCEPT ![p] = "staged"]
        BY <2>1 DEF Begin, Goto
      <3> QED  BY <1>3, <2>1, <3>1, <3>2
    <2>2. CASE pc[p] = "fetched" /\ b = job[p].blob /\ Goto(p, "staged")
               /\ UNCHANGED job
      <3>1. job' = [job EXCEPT ![p] = job[p]] /\ job[p] \in Job
        BY <1>3, <2>2
      <3> QED  BY <2>2, <3>1 DEF Goto
    <2> QED  BY <2>1, <2>2 DEF Stage
  <1>5. Rewriting' = Rewriting
    BY <1>1, <1>3, <1>4, RewritingStep
  <1>6. None \notin Blobs /\ \A m \in Manifests : BlobsOf(m) \subseteq Blobs
    BY NameAssumption, DigestAssumption DEF BlobsOf, Blobs
  <1>7. job[p].img \in Manifests
    BY <1>1 DEF CleanInv, TypeInv, UploadOK, UploadFits
  <1>8. Ahead(j, (blobs \cup Rewriting)')
    BY <1>2, <1>3, <1>4, <1>5, <1>6, <1>7 DEF Ahead
  <1>9. staged' = {x \in staged : ~(/\ x[1] = cmd[p].op
                                    /\ SameFile(cmd[p].op, b, x[2]))}
                  \cup {<<cmd[p].op, b>>}
    BY DEF Stage
  <1>10. \A op, c : op # cmd[p].op =>
           (<<op, c>> \in staged' <=> <<op, c>> \in staged)
    BY <1>9
  <1>11. SameFile(cmd[p].op, b, b)
    BY DEF SameFile, Blobs
  <1>12. ContentOf(staged', cmd[p].op, b) = {b}
    BY <1>9, <1>11 DEF ContentOf
  <1> QED  BY <1>1, <1>2, <1>3, <1>4, <1>5, <1>8, <1>10, <1>12, SafeFiles

LEMMA SafeHash ==
    ASSUME CleanUse, CleanInv, NEW p \in Procs, Hash(p)
    PROVE  Kept
  <1>1. pc[p] = "staged" /\ pc[p] \in Uploading
        /\ "hashed" \in Uploading \ {"mixed"}
    BY DEF Hash, Uploading
  <1>2. UNCHANGED <<disk, cmd>>
    BY DEF Hash
  <1>3. /\ Ahead(job[p], blobs \cup Rewriting)
        /\ Content(p) = {job[p].blob}
        /\ torn \subseteq Rewriting
        /\ pc \in [Procs -> PCs] /\ job \in [Procs -> Job]
    BY <1>1, Uploader
  <1>4. PICK c \in Content(p), k \in Manifests, j \in Job,
             s \in {"mixed", "hashed"} : Hashed(p, c, k, j, s)
    BY <1>3, HashJob
  <1>5. c = job[p].blob /\ k = job[p].img
    BY <1>3, <1>4 DEF Hashed, Revised
  <1>6. /\ job' = [job EXCEPT ![p] = j] /\ pc' = [pc EXCEPT ![p] = "hashed"]
        /\ j.img = job[p].img /\ j.blob = job[p].blob /\ j.todo = job[p].todo
    BY <1>4, <1>5 DEF Hashed
  <1>7. Rewriting' = Rewriting
    BY <1>1, <1>3, <1>6, RewritingStep
  <1>8. Ahead(j, (blobs \cup Rewriting)')
    BY <1>2, <1>3, <1>6, <1>7 DEF Ahead
  <1>9. ContentOf(staged', cmd[p].op, j.blob) = {j.blob}
    BY <1>2, <1>3, <1>6 DEF Content, ContentOf
  <1> QED  BY <1>1, <1>2, <1>3, <1>6, <1>7, <1>8, <1>9, SafeFiles

LEMMA SafeStore ==
    ASSUME CleanUse, CleanInv, NEW p \in Procs, KeepFile(p) \/ Rename(p)
    PROVE  Kept
  <1> DEFINE b == job[p].blob
  <1>1. /\ pc[p] \in Uploading \ {"upload"} /\ Done(p) /\ UNCHANGED cmd
        /\ staged' = Unstaged(p)
        /\ pc[p] = "hashed" \/ (pc[p] = "rewrite" /\ cmd[p].op = "config")
    <2>1. CASE KeepFile(p)
      BY <2>1 DEF KeepFile, Uploading
    <2>2. CASE Rename(p)
      BY <2>2 DEF Rename, Renames, Uploading
    <2> QED  BY <2>1, <2>2
  <1>2. /\ torn \subseteq Rewriting /\ Content(p) = {b}
        /\ pc \in [Procs -> PCs] /\ job \in [Procs -> Job]
    BY <1>1, Uploader
  <1>3. PICK j \in Job : /\ job' = [job EXCEPT ![p] = j]
                         /\ pc' = [pc EXCEPT ![p] = "upload"]
    BY <1>1, <1>2, DoneJob DEF Done, Goto
  <1>4. Rewriting \subseteq Rewriting' \cup {b}
    BY <1>1, <1>2, <1>3, RewritingStep
  <1>5. CASE KeepFile(p)
    <2>1. pc[p] = "hashed" /\ b \in blobs \cup torn /\ UNCHANGED <<blobs, torn>>
      BY <1>5 DEF KeepFile
    <2>2. Rewriting' = Rewriting
      BY <1>2, <1>3, <2>1, RewritingStep
    <2> QED  BY <1>1, <1>2, <2>1, <2>2, SafeDone
  <1>6. CASE Rename(p)
    <2>1. blobs' = blobs \cup {b} /\ torn' = torn \ {b}
      BY <1>2, <1>6 DEF Rename
    <2> QED  BY <1>1, <1>2, <1>4, <2>1, SafeDone
  <1> QED  BY <1>5, <1>6

LEMMA SafeRewrite ==
    ASSUME CleanUse, CleanInv, NEW p \in Procs, Rewrite(p)
    PROVE  Kept
  <1> DEFINE b == job[p].blob
  <1>1. /\ pc[p] \in Uploading \ {"upload"} /\ pc[p] = "rewrite"
        /\ Done(p) /\ UNCHANGED cmd
        /\ staged' = staged \/ staged' = Unstaged(p)
        /\ blobs' = blobs \cup {b} /\ torn' = torn \ {b}
    BY DEF Rewrite, Uploading
  <1>2. /\ torn \subseteq Rewriting
        /\ pc \in [Procs -> PCs] /\ job \in [Procs -> Job]
    BY <1>1, Uploader
  <1>3. PICK j \in Job : /\ job' = [job EXCEPT ![p] = j]
                         /\ pc' = [pc EXCEPT ![p] = "upload"]
    BY <1>1, <1>2, DoneJob DEF Done, Goto
  <1>4. Rewriting \subseteq Rewriting' \cup {b}
    BY <1>1, <1>2, <1>3, RewritingStep
  <1> QED  BY <1>1, <1>2, <1>4, SafeDone

LEMMA SafeTake ==
    ASSUME CleanUse, CleanInv, NEW p \in Procs, Unlink(p) \/ Tear(p)
    PROVE  Kept
  <1> DEFINE b == job[p].blob
  <1>1. pc[p] \in {"hashed", "mixed"} /\ pc[p] \in Uploading
        /\ "rewrite" \in Uploading \ {"mixed"}
    BY DEF Unlink, Tear, Truncates, Uploading
  <1>2. /\ pc[p] = "hashed" /\ torn \subseteq Rewriting /\ Content(p) = {b}
        /\ Ahead(job[p], blobs \cup Rewriting)
        /\ pc \in [Procs -> PCs] /\ job \in [Procs -> Job]
    BY <1>1, Uploader
  <1>3. /\ blobs' = blobs \ {b} /\ torn' \subseteq torn \cup {b}
        /\ pc' = [pc EXCEPT ![p] = "rewrite"]
        /\ UNCHANGED <<cmd, job>>
        /\ cmd[p].op \in {"pull", "config"}
        /\ staged' = staged \/ (cmd[p].op = "pull" /\ staged' = Unstaged(p))
    <2>1. CASE Unlink(p)
      BY <2>1 DEF Unlink, DeleteFiles, Goto
    <2>2. CASE Tear(p)
      BY <1>2, <2>2 DEF Tear, Truncates, Goto
    <2> QED  BY <2>1, <2>2
  <1>4. job' = [job EXCEPT ![p] = job[p]]
    BY <1>2, <1>3
  <1>5. Rewriting' = Rewriting \cup {b}
    BY <1>2, <1>3, <1>4, RewritingStep
  <1>6. Ahead(job[p], (blobs \cup Rewriting)')
    BY <1>2, <1>3, <1>5 DEF Ahead
  <1>7. cmd[p].op = "config" => ContentOf(staged', cmd[p].op, b) = {b}
    BY <1>2, <1>3 DEF Content, ContentOf
  <1>8. \A op, c : op # cmd[p].op =>
          (<<op, c>> \in staged' <=> <<op, c>> \in staged)
    BY <1>3, UnstagedOthers
  <1> HIDE DEF b
  <1>9. /\ blobs \cup Rewriting \subseteq (blobs \cup Rewriting)'
        /\ torn' \subseteq Rewriting'
    BY <1>2, <1>3, <1>5
  <1> QED
    BY <1>1, <1>2, <1>3, <1>4, <1>6, <1>7, <1>8, <1>9, SafeFiles DEF b

\* With a safe use no blob is lost, and no temporary file of an upload goes.
LEMMA NoLoss ==
    ASSUME CleanUse, CleanInv, NEW p \in Procs
    PROVE  ~ LoseBlob(p) /\ ~ FileGone(p)
           /\ \A b : ~ LoseConfig(p, b)
  <1>1. pc[p] \in {"upload", "fetched", "staged", "hashed", "rewrite", "mixed"} =>
          pc[p] \in Uploading
    BY DEF Uploading
  <1>2. ~ LoseBlob(p)
    BY <1>1, Uploader DEF LoseBlob, CleanUse
  <1>3. \A b : ~ LoseConfig(p, b)
    BY <1>1, Uploader DEF LoseConfig, CleanUse
  <1>4. ~ FileGone(p)
    BY <1>1, Uploader DEF FileGone, Renames, Truncates
  <1> QED  BY <1>2, <1>3, <1>4

\* The first step of an upload: what it does not have before it is stored.
LEMMA SafeStart ==
    ASSUME CleanUse, CleanInv, NEW p \in Procs, pc[p] = "ready",
           NEW ref, NEW m, NEW todo, StartUpload(p, ref, m, todo),
           BlobsOf(m) \ todo \subseteq blobs \cup Rewriting
    PROVE  Kept
  <1> DEFINE j == [NoJob EXCEPT !.ref = ref, !.img = m, !.todo = todo]
  <1>1. /\ pc \in [Procs -> PCs] /\ job \in [Procs -> Job]
        /\ cmd \in [Procs -> [op : AllCommands \cup {"none"},
                              left : 0..MaxArgs]]
        /\ torn \subseteq Rewriting
        /\ cmd[p].op \in CommandsOf[p] \cup {"none"}
    BY DEF CleanInv, TypeInv, TypeOK, SafeProc
  <1>2. j.img = m /\ j.todo = todo /\ j.blob = None
    BY DEF NoJob
  <1>3. job' = [job EXCEPT ![p] = j] /\ UNCHANGED disk
    BY DEF StartUpload
  <1> HIDE DEF j
  <1>4. pc' = [pc EXCEPT ![p] = "upload"]
    BY DEF StartUpload, Goto
  <1>5. PICK c : cmd' = [cmd EXCEPT ![p] = c] /\ c.op = cmd[p].op
    <2>1. [cmd[p] EXCEPT !.left = @ - 1].op = cmd[p].op
      BY <1>1
    <2>2. cmd' = [cmd EXCEPT ![p] = [cmd[p] EXCEPT !.left = @ - 1]]
      BY <1>1 DEF StartUpload, TakeArg
    <2> QED  BY <2>1, <2>2
  <1>6. Rewriting' = Rewriting
    BY <1>1, <1>3, <1>4, RewritingStep
  <1>7. Ahead(j, (blobs \cup Rewriting)')
    BY <1>2, <1>3, <1>6 DEF Ahead
  <1>8. SafeProc(CommandsOf[p], "upload", c, j, staged', (blobs \cup Rewriting)')
    BY <1>1, <1>2, <1>5, <1>7 DEF SafeProc
  <1> QED  BY <1>1, <1>3, <1>4, <1>5, <1>6, <1>8, SafeFrame

-----------------------------------------------------------------------------
(* All steps.                                                              *)

\* The steps of rmi that remove files.
Deletes(p) ==
    \/ \E ref : RmiName(p, ref) \/ RmiId(p, ref)
    \/ RmiHistory(p)
    \/ RmiHead(p)

\* With a clean use, no step of another kind takes away a blob that is stored or about to be,
\* and none leads to a state from which one would.
LEMMA StepKept ==
    ASSUME CleanUse, CleanInv, NEW p \in Procs, Step(p), ~ Deletes(p),
           cmd[p].op = "config" => Stored(Stable)
    PROVE  Kept
  <1>1. /\ pc \in [Procs -> PCs]
        /\ cmd \in [Procs -> [op : AllCommands \cup {"none"},
                              left : 0..MaxArgs]]
        /\ job \in [Procs -> Job]
    BY DEF CleanInv, TypeInv, TypeOK
  <1>2. SafeProc(CommandsOf[p], pc[p], cmd[p], job[p], staged,
                 blobs \cup Rewriting)
    BY DEF CleanInv
  <1>3. /\ cmd[p].op \in CommandsOf[p] \cup {"none"}
        /\ NoCmd.op = "none"
    BY <1>2 DEF SafeProc, NoCmd
  <1>4. ASSUME End(p), UNCHANGED disk, pc[p] # "rewrite" PROVE Kept
    BY <1>3, <1>4, SafeQuiet DEF End, Goto
  <1>5. ASSUME NEW op, NEW n, Open(p, op, n) PROVE Kept
    <2>1. /\ pc[p] = "idle" /\ op \in CommandsOf[p] /\ UNCHANGED disk
          /\ cmd' = [cmd EXCEPT ![p] = [op |-> op, left |-> n]]
          /\ job' = [job EXCEPT ![p] = job[p]]
      BY <1>1, <1>5 DEF Open
    <2>2. Goto(p, "truncate") \/ Goto(p, "ready")
      BY <1>5 DEF Open
    <2>3. [op |-> op, left |-> n].op \in CommandsOf[p] \cup {"none"}
      BY <2>1
    <2> QED  BY <2>1, <2>2, <2>3, SafeQuiet DEF Goto
  <1>6. ASSUME UNCHANGED vars PROVE Kept
    <2>1. Rewriting' = Rewriting
      BY <1>6 DEF Rewriting
    <2> QED  BY <1>6, <2>1 DEF Kept, CleanInv
  <1>7. ASSUME Truncate(p) \/ Write(p) PROVE Kept
    <2>1. /\ pc[p] \in {"truncate", "write"}
          /\ UNCHANGED <<blobs, torn, staged, cmd, job>>
          /\ \/ pc' = [pc EXCEPT ![p] = "write"]
             \/ pc' = [pc EXCEPT ![p] = "ready"]
      BY <1>7 DEF Truncate, Write, Goto
    <2>2. PICK s \in {"write", "ready"} : pc' = [pc EXCEPT ![p] = s]
      BY <2>1
    <2>3. cmd' = [cmd EXCEPT ![p] = cmd[p]] /\ job' = [job EXCEPT ![p] = job[p]]
      BY <1>1, <2>1
    <2>4. Rewriting' = Rewriting
      BY <1>1, <2>1, <2>2, <2>3, RewritingStep
    <2>5. SafeProc(CommandsOf[p], s, cmd[p], job[p], staged', (blobs \cup Rewriting)')
      BY <1>3, <2>2 DEF SafeProc, Uploading
    <2> QED  BY <2>1, <2>2, <2>3, <2>4, <2>5, SafeFrame DEF CleanInv
  <1>8. ASSUME \/ Exit(p) \/ Abandon(p)
               \/ \E ref : \/ ConfigFails(p, ref) \/ RmiNameThrows(p, ref)
                           \/ RmiIdThrows(p, ref)
        PROVE  Kept
    BY <1>4, <1>8 DEF Exit, Abandon, ConfigFails, RmiNameThrows, RmiIdThrows,
                      Running
  <1>9. ASSUME Crash(p) PROVE Kept
    <2>1. pc[p] # "rewrite"
      BY <1>2, <1>9 DEF Crash, CleanUse, SafeProc
    <2> QED  BY <1>4, <1>9, <2>1 DEF Crash
  <1>10. ASSUME NEW ref, NEW new, Tag(p, ref, new) PROVE Kept
    <2>1. /\ TakeArg(p) /\ pc[p] = "ready"
          /\ UNCHANGED <<disk, job>>
          /\ pc' = pc \/ Goto(p, "truncate")
      BY <1>10 DEF Tag, Running, Skip, Save
    <2>2. PICK c : cmd' = [cmd EXCEPT ![p] = c] /\ c.op = cmd[p].op
      <3>1. [cmd[p] EXCEPT !.left = @ - 1].op = cmd[p].op
        BY <1>1
      <3>2. cmd' = [cmd EXCEPT ![p] = [cmd[p] EXCEPT !.left = @ - 1]]
        BY <1>1, <2>1 DEF TakeArg
      <3> QED  BY <3>1, <3>2
    <2>3. PICK s \in {"ready", "truncate"} : pc' = [pc EXCEPT ![p] = s]
      BY <1>1, <2>1 DEF Goto
    <2>4. job' = [job EXCEPT ![p] = job[p]]
      BY <1>1, <2>1
    <2> QED  BY <1>3, <2>1, <2>2, <2>3, <2>4, SafeQuiet
  <1>11. ASSUME NEW ref, NEW m \in Manifests,
                Build(p, ref, m) \/ Pull(p, ref, m)
         PROVE  Kept
    <2>1. StartUpload(p, ref, m, BlobsOf(m)) /\ pc[p] = "ready"
      BY <1>11 DEF Build, Pull, Running
    <2> QED  BY <2>1, SafeStart
  <1>12. ASSUME NEW ref, NEW m \in Manifests, Config(p, ref, m) PROVE Kept
    <2>1. PICK o \in Lookup(mem[p].objs, ref) : LayersOf[m] = LayersOf[o.digest]
      BY <1>12 DEF Config
    <2>2. Sound(o.digest)
      <3>1. o \in ObjectIn(Stable)
        BY <1>12, LookupFinds DEF Config, Running, Stored
      <3> QED  BY <3>1 DEF ObjectIn, Stable
    <2>3. BlobsOf(m) \ {ConfigOf[m], m} \subseteq blobs \cup Rewriting
      BY <2>1, <2>2 DEF Sound, BlobsOf
    <2> QED  BY <1>12, <2>3, SafeStart DEF Config, Running
  <1>13. ASSUME NEW b \in Blobs, Fetch(p, b) \/ Stage(p, b) PROVE Kept
    BY <1>13, SafeFetch, SafeStage
  <1>14. ASSUME Hash(p) \/ KeepFile(p) \/ Unlink(p) \/ Rename(p) \/ Tear(p)
                \/ Rewrite(p)
         PROVE  Kept
    BY <1>14, SafeHash, SafeStore, SafeTake, SafeRewrite
  <1>15. ASSUME BuildRecord(p) \/ PullRecord(p) \/ ConfigRecord(p) PROVE Kept
    <2>1. /\ pc[p] = "upload"
          /\ pc' = [pc EXCEPT ![p] = "truncate"]
          /\ job' = [job EXCEPT ![p] = NoJob]
          /\ UNCHANGED <<disk, cmd>>
      BY <1>15 DEF BuildRecord, PullRecord, ConfigRecord, Uploaded, Save, Goto
    <2>2. cmd' = [cmd EXCEPT ![p] = cmd[p]]
      BY <1>1, <2>1
    <2> QED  BY <1>3, <2>1, <2>2, SafeQuiet
  <1>16. OpenFails(p) => UNCHANGED vars
    BY DEF OpenFails
  <1>17. /\ \A ref : ~ RmiName(p, ref) /\ ~ RmiId(p, ref)
         /\ ~ RmiHistory(p) /\ ~ RmiHead(p)
    BY DEF Deletes
  <1> HIDE DEF disk, vars
  <1> QED
    BY <1>5, <1>6, <1>7, <1>8, <1>9, <1>10, <1>11, <1>12, <1>13, <1>14, <1>15,
       <1>16, <1>17, NoLoss DEF Step

\* Records and objects over a set of manifests are ones over any larger set.
LEMMA EntriesGrow ==
    ASSUME NEW G, NEW H, G \subseteq H
    PROVE  EntryIn(G) \subseteq EntryIn(H) /\ ObjectIn(G) \subseteq ObjectIn(H)
  <1>1. ASSUME NEW s \in Seq(G) PROVE s \in Seq(H)
    OBVIOUS
  <1> QED  BY <1>1 DEF EntryIn, ObjectIn

\* An upload that is past its last blob has stored its manifest and all the
\* manifest names.
LEMMA UploadedSound ==
    ASSUME CleanUse, CleanInv, NEW p \in Procs,
           pc[p] = "upload", job[p].todo = {}
    PROVE  job[p].img \in Manifests /\ Sound(job[p].img)
  <1>1. pc[p] \in Uploading
    BY DEF Uploading
  <1>2. job[p].img \in Manifests
    BY <1>1 DEF CleanInv, TypeInv, UploadOK, UploadFits
  <1>3. BlobsOf(job[p].img) \ {None} \subseteq blobs \cup Rewriting
    BY <1>1, Uploader DEF Ahead
  <1>4. None \notin BlobsOf(job[p].img)
    BY <1>2, NameAssumption, DigestAssumption DEF BlobsOf, Blobs
  <1> QED  BY <1>2, <1>3, <1>4 DEF Sound

\* With a safe use of the store, each step keeps the inductive invariant.
LEMMA StepSafeInv ==
    ASSUME SafeUse, SafeInv, NEW p \in Procs, Step(p)
    PROVE  SafeInv'
  <1>1. PICK G \in SUBSET Manifests : G = Stable
    BY DEF Stable
  <1>2. PICK H \in SUBSET Manifests : H = Stable'
    BY DEF Stable
  <1>3. Kept
    <2>1. cmd[p].op # "rmi" /\ pc[p] # "history"
      <3>1. cmd[p].op \in CommandsOf[p] \cup {"none"}
            /\ (pc[p] = "history" => cmd[p].op = "rmi")
        BY DEF SafeInv, CleanInv, SafeProc
      <3> QED  BY <3>1 DEF SafeUse
    <2>2. ~ Deletes(p)
      BY <2>1 DEF Deletes, RmiName, RmiId, RmiHistory, RmiHead, Running
    <2> QED  BY <2>2, StepKept DEF SafeUse, SafeInv
  <1>4. G \subseteq H
    BY <1>3, <1>1, <1>2 DEF Stable, Sound, Kept
  <1>5. TypeInv /\ Stored(G)
    BY <1>1 DEF SafeInv, CleanInv
  <1>6. ASSUME pc[p] = "upload", job[p].todo = {} PROVE job[p].img \in G
    BY <1>1, <1>6, UploadedSound DEF SafeUse, SafeInv, Stable
  <1>7. Stored(G)'
    BY <1>5, <1>6, StepStored
  <1>8. Stored(H)'
    BY <1>4, <1>7, EntriesGrow DEF Stored
  <1>9. TypeInv'
    BY <1>5, StepTypeInv
  <1>10. Stored(Stable)'
    BY <1>2, <1>8 DEF Stored
  <1> QED  BY <1>3, <1>9, <1>10 DEF SafeInv, CleanInv, Kept

LEMMA InitClean == Init => CleanInv
  <1> SUFFICES ASSUME Init PROVE CleanInv
    OBVIOUS
  <1>1. ASSUME NEW q \in Procs
        PROVE  SafeProc(CommandsOf[q], pc[q], cmd[q], job[q], staged,
                        blobs \cup Rewriting)
    <2>1. pc[q] = "idle" /\ cmd[q].op = "none"
      BY DEF Init, NoCmd
    <2> QED  BY <2>1 DEF SafeProc, Uploading
  <1>2. torn \subseteq Rewriting
    BY DEF Init
  <1> QED  BY <1>1, <1>2, InitType DEF CleanInv

\* When the store is used without rmi, with a registry that delivers what it
\* names, without a crash of a command that rewrites a manifest in place and
\* with one process for each uploading command, every blob the index refers
\* to is stored at every moment, however many commands run at once
\* (copySingleImage and pullManifestAndBlob come before the index is written).
THEOREM UploadsBeforeRecords ==
    ASSUME SafeUse
    PROVE  Spec => []HistoryComplete
  <1>1. Init => SafeInv
    BY InitClean DEF Init, SafeInv, Stored, NoMem
  <1>2. SafeInv /\ UNCHANGED vars => SafeInv'
    <2>1. ASSUME SafeInv, UNCHANGED vars PROVE SafeInv'
      <3>1. TypeInv'
        BY <2>1 DEF SafeInv, CleanInv, TypeInv, TypeOK, UploadOK
      <3>2. Rewriting' = Rewriting
        BY <2>1 DEF Rewriting
      <3>3. Stable' = Stable
        BY <2>1, <3>2 DEF Stable, Sound
      <3>4. Stored(Stable)'
        BY <2>1, <3>3 DEF SafeInv, Stored
      <3> QED  BY <2>1, <3>1, <3>2, <3>4 DEF SafeInv, CleanInv
    <2> QED  BY <2>1
  <1>3. SafeInv /\ [Next]_vars => SafeInv'
    BY <1>2, StepSafeInv DEF Next
  <1>4. SafeInv => HistoryComplete
    <2> SUFFICES ASSUME SafeInv, NEW r \in index, NEW m \in Digests(r)
                 PROVE  Sound(m)
      BY DEF HistoryComplete
    <2>1. r \in EntryIn(Stable)
      BY DEF SafeInv, Stored
    <2>2. m \in Stable
      BY <2>1 DEF EntryIn, Digests, ToSet
    <2> QED  BY <2>2 DEF Stable
  <1> QED  BY <1>1, <1>3, <1>4, PTL DEF Spec

-----------------------------------------------------------------------------
(* A name is recorded once, whatever commands run at the same time, fail   *)
(* or die; and a process that is alone keeps the names it has loaded.  The *)
(* one assumption is that no two names have the same short form: tag and   *)
(* pull look a name up by its short form and replace what they find.       *)

DistinctShorts ==
    /\ \A n, k \in Names : ShortOf[n] = ShortOf[k] => n = k
    /\ Names \cap Shorts = {}
    /\ Names \cap Configs = {}
    /\ Shorts \cap Configs = {}

-----------------------------------------------------------------------------
(* Sets of records, or objects, with one member of each name.              *)

Unique(S) == \A r, q \in S : r.name = q.name => r = q

LEMMA UniqueAdd ==
    ASSUME NEW S, Unique(S), NEW e, \A r \in S : r.name # e.name
    PROVE  Unique(S \cup {e})
  BY DEF Unique

LEMMA UniqueSubset ==
    ASSUME NEW S, Unique(S), NEW T \in SUBSET S
    PROVE  Unique(T)
  BY DEF Unique

\* Changing members without renaming or splitting them.
LEMMA UniqueUpdate ==
    ASSUME NEW S, Unique(S), NEW T,
           \A t, u \in T : \E r, q \in S : /\ t.name = r.name /\ u.name = q.name
                                           /\ r = q => t = u
    PROVE  Unique(T)
  BY DEF Unique

LEMMA EntryNames ==
    ASSUME NEW objs
    PROVE  /\ \A o \in objs : EntryOf(o).name = o.name
           /\ \A r \in Entries(objs) : \E o \in objs : r = EntryOf(o)
           /\ Unique(objs) => Unique(Entries(objs))
  <1>1. \A o \in objs : EntryOf(o).name = o.name
    BY DEF EntryOf
  <1>2. \A r \in Entries(objs) : \E o \in objs : r = EntryOf(o)
    BY DEF Entries, Live
  <1>3. Unique(objs) => Unique(Entries(objs))
    BY <1>1, <1>2, UniqueUpdate
  <1> QED  BY <1>1, <1>2, <1>3

LEMMA LoadedNames ==
    ASSUME NEW S
    PROVE  /\ Unique(S) => Unique(LoadIndex(S).objs)
           /\ \A o \in LoadIndex(S).objs : o.live /\ \E r \in S : r.name = o.name
  <1>1. LoadIndex(S).objs = {ObjectOf(r) : r \in S}
    BY DEF LoadIndex
  <1>2. \A r \in S : ObjectOf(r).name = r.name /\ ObjectOf(r).live
    BY DEF ObjectOf
  <1>3. Unique(S) => Unique(LoadIndex(S).objs)
    BY <1>1, <1>2, UniqueUpdate
  <1> QED  BY <1>1, <1>2, <1>3

LEMMA CompactNames ==
    ASSUME NEW G, NEW S \in SUBSET EntryIn(G), NEW T \in Compact(S)
    PROVE  /\ Unique(S) => Unique(T)
           /\ \A r \in S : \E t \in T : t.name = r.name
  <1>1. PICK f \in [{r.pos : r \in S} -> 0..MaxPos] :
              T = {[r EXCEPT !.pos = f[r.pos]] : r \in S}
    BY DEF Compact
  <1>2. \A r \in S : [r EXCEPT !.pos = f[r.pos]].name = r.name
    BY DEF EntryIn
  <1>3. \A t, u \in T : \E r, q \in S : /\ t.name = r.name /\ u.name = q.name
                                        /\ r = q => t = u
    <2> TAKE t, u \in T
    <2>1. PICK r \in S, q \in S : /\ t = [r EXCEPT !.pos = f[r.pos]]
                                  /\ u = [q EXCEPT !.pos = f[q.pos]]
      BY <1>1
    <2> QED  BY <1>2, <2>1
  <1>4. ASSUME Unique(S) PROVE Unique(T)
    BY <1>3, <1>4, UniqueUpdate
  <1> QED  BY <1>1, <1>2, <1>4

\* The name a command means by a reference that is a name or a short name.
Meant(ref) == IF ref \in Shorts THEN LocalName[ref] ELSE ref

\* What is looked up by name is the one object of that name.
LEMMA LookupName ==
    ASSUME DistinctShorts, NEW objs \in SUBSET ObjectIn(Manifests), Unique(objs),
           NEW ref \in Names \cup Shorts
    PROVE  /\ Meant(ref) \in Names
           /\ \A o \in objs : o \in Lookup(objs, ref) <=> o.name = Meant(ref)
  <1>1. Meant(ref) \in Names
    BY NameAssumption DEF Meant
  <1>2. ASSUME NEW o \in objs PROVE Matches(o, ref) <=> o.name = Meant(ref)
    <2>1. o.name \in Names /\ o.id \in Configs /\ ref # o.id
      BY DEF ObjectIn, DistinctShorts
    <2>2. CASE ref \in Shorts
      <3>1. ref # o.name /\ ShortOf[Meant(ref)] = ref
        BY <2>1, <2>2, NameAssumption DEF DistinctShorts, Meant
      <3> QED  BY <1>1, <2>1, <3>1 DEF DistinctShorts, Matches
    <2>3. CASE ref \notin Shorts
      BY <2>1, <2>3, NameAssumption DEF Meant, Matches
    <2> QED  BY <2>2, <2>3
  <1>3. ASSUME NEW o \in objs, NEW q \in objs, o.name = Meant(ref), Matches(q, ref)
        PROVE  q.pos <= o.pos
    <2>1. q = o /\ o.pos \in Int
      BY <1>2, <1>3 DEF Unique, ObjectIn
    <2> QED  BY <2>1
  <1> QED  BY <1>1, <1>2, <1>3 DEF Lookup

-----------------------------------------------------------------------------
(* A name is recorded once.                                                *)

NameInv ==
    /\ TypeInv
    /\ Unique(index)
    /\ \A q \in Procs : Unique(mem[q].objs) /\ Unique(out[q])

LEMMA InitNames == Init => NameInv
  BY InitType DEF Init, NameInv, Unique, NoMem

\* What the types say of the process that takes a step.
LEMMA NameTypes ==
    ASSUME NameInv, NEW p \in Procs
    PROVE  /\ pc \in [Procs -> PCs] /\ mem \in [Procs -> Memory]
           /\ out \in [Procs -> SUBSET Entry]
           /\ mem[p].objs \in SUBSET ObjectIn(Manifests)
           /\ out[p] \in SUBSET EntryIn(Manifests)
           /\ index \in SUBSET EntryIn(Manifests)
           /\ Unique(mem[p].objs) /\ Unique(out[p]) /\ Unique(index)
           /\ Unique({}) /\ Unique(NoMem.objs)
  BY DEF NameInv, TypeInv, TypeOK, Memory, Entry, EntryIn, Object, ObjectIn,
         Unique, NoMem

\* A step changes the names of its own process and those of the index.
LEMMA NameFrame ==
    ASSUME NameInv, TypeInv', NEW p \in Procs, Unique(index'),
           \/ mem' = mem
           \/ \E M : Unique(M.objs) /\ mem' = [mem EXCEPT ![p] = M],
           \/ out' = out
           \/ \E O : Unique(O) /\ out' = [out EXCEPT ![p] = O]
    PROVE  NameInv'
  <1>1. \A q \in Procs : Unique(mem'[q].objs)
    BY NameTypes DEF NameInv
  <1>2. \A q \in Procs : Unique(out'[q])
    BY NameTypes DEF NameInv
  <1>3. Unique(index)'
    BY DEF Unique
  <1>4. \A q \in Procs : Unique(mem[q].objs)' /\ Unique(out[q])'
    BY <1>1, <1>2 DEF Unique
  <1> QED  BY <1>3, <1>4 DEF NameInv

LEMMA NameEnd ==
    ASSUME NameInv, TypeInv', NEW p \in Procs, End(p), UNCHANGED disk
    PROVE  NameInv'
  BY NameTypes, NameFrame DEF End

\* tag: the record that has the new name, if any, makes room for it.
LEMMA NameTag ==
    ASSUME DistinctShorts, NameInv, TypeInv', NEW p \in Procs, NEW ref,
           NEW new \in Names \cup Shorts, Tag(p, ref, new)
    PROVE  NameInv'
  <1> DEFINE objs == mem[p].objs
             kept == Live(objs) \ Lookup(objs, new)
             entries == {EntryOf(o) : o \in kept}
  <1>1. Unique(kept) /\ \A o \in kept : o.name # Meant(new)
    <2>1. kept \subseteq objs
      BY DEF Live
    <2> QED  BY <2>1, NameTypes, LookupName, UniqueSubset
  <1>2. Unique(entries) /\ \A r \in entries : r.name # Meant(new)
    <2>1. \A o \in kept : EntryOf(o).name = o.name
      BY DEF EntryOf
    <2>2. \A t, u \in entries : \E r, q \in kept :
             /\ t.name = r.name /\ u.name = q.name
             /\ r = q => t = u
      BY <2>1
    <2> HIDE DEF kept
    <2> QED  BY <1>1, <2>1, <2>2, UniqueUpdate
  <1>3. CASE Skip(p)
    BY <1>3, NameTypes, NameFrame DEF Skip
  <1>4. CASE ~ Skip(p)
    <2>1. PICK e : /\ Save(p, entries \cup {e}) /\ e.name = Meant(new)
                   /\ UNCHANGED <<disk, mem>>
      <3>1. PICK s \in Lookup(objs, ref), n \in EndPos(kept) :
              /\ Save(p, entries \cup {[pos |-> n, name |-> Meant(new),
                                        digest |-> s.digest,
                                        history |-> s.history]})
              /\ UNCHANGED <<disk, mem, job>>
        BY <1>4 DEF Tag, Meant
      <3> DEFINE e == [pos |-> n, name |-> Meant(new), digest |-> s.digest,
                       history |-> s.history]
      <3>2. e.name = Meant(new)
        OBVIOUS
      <3>3. Save(p, entries \cup {e}) /\ UNCHANGED <<disk, mem>>
        BY <3>1
      <3> HIDE DEF e, entries
      <3> QED  BY <3>2, <3>3
    <2>2. Unique(entries \cup {e})
      BY <1>2, <2>1, UniqueAdd
    <2> HIDE DEF entries
    <2> QED  BY <2>1, <2>2, NameTypes, NameFrame DEF Save
  <1> QED  BY <1>3, <1>4

\* rmi keeps the objects apart; what it writes are some of them.
LEMMA NameForget ==
    ASSUME NameInv, TypeInv', NEW p \in Procs, UNCHANGED index,
           NEW M, Unique(M.objs), mem' = [mem EXCEPT ![p] = M],
           UNCHANGED out \/ Save(p, Entries(M.objs))
    PROVE  NameInv'
  <1>1. Unique(Entries(M.objs))
    BY EntryNames
  <1> QED  BY <1>1, NameTypes, NameFrame DEF Save

LEMMA NameRmiName ==
    ASSUME NameInv, TypeInv', NEW p \in Procs, NEW ref, RmiName(p, ref)
    PROVE  NameInv'
  <1>1. CASE Skip(p)
    BY <1>1, NameTypes, NameFrame DEF Skip
  <1>2. CASE ~ Skip(p)
    <2>1. PICK o \in Lookup(mem[p].objs, ref) :
            \/ LET gone == (mem[p].objs \ {o}) \cup {[o EXCEPT !.live = FALSE]}
               IN  /\ mem' = [mem EXCEPT ![p].objs = gone]
                   /\ Save(p, Entries(gone))
                   /\ UNCHANGED <<disk, job>>
            \/ /\ mem' = [mem EXCEPT ![p].bydigest = mem[p].bydigest \ {o.digest}]
               /\ UNCHANGED <<index, out>>
      BY <1>2 DEF RmiName
    <2> DEFINE gone == (mem[p].objs \ {o}) \cup {[o EXCEPT !.live = FALSE]}
    <2>2. Unique(gone)
      <3>1. o \in mem[p].objs /\ o \in ObjectIn(Manifests)
        BY NameTypes, LookupFinds
      <3>2. [o EXCEPT !.live = FALSE].name = o.name
        BY <3>1 DEF ObjectIn
      <3>3. \A r \in mem[p].objs \ {o} : r.name # o.name
        BY <3>1, NameTypes DEF Unique
      <3>4. Unique(mem[p].objs \ {o})
        BY NameTypes, UniqueSubset
      <3> QED  BY <3>2, <3>3, <3>4, UniqueAdd
    <2>3. mem[p] \in Memory
      BY NameTypes
    <2>4. CASE /\ mem' = [mem EXCEPT ![p].objs = gone]
               /\ Save(p, Entries(gone))
               /\ UNCHANGED index
      <3> DEFINE M == [mem[p] EXCEPT !.objs = gone]
      <3>1. M.objs = gone
        BY <2>3 DEF Memory
      <3>2. mem' = [mem EXCEPT ![p] = M]
        BY <2>4
      <3> HIDE DEF M, gone
      <3> QED  BY <2>2, <2>4, <3>1, <3>2, NameForget
    <2>5. CASE /\ mem' = [mem EXCEPT ![p].bydigest = mem[p].bydigest \ {o.digest}]
               /\ UNCHANGED <<index, out>>
      <3> DEFINE M == [mem[p] EXCEPT !.bydigest = mem[p].bydigest \ {o.digest}]
      <3>1. M.objs = mem[p].objs
        BY <2>3 DEF Memory
      <3>2. mem' = [mem EXCEPT ![p] = M]
        BY <2>5
      <3> HIDE DEF M
      <3> QED  BY <2>5, <3>1, <3>2, NameTypes, NameForget
    <2> HIDE DEF gone
    <2> QED  BY <2>1, <2>4, <2>5 DEF gone
  <1> QED  BY <1>1, <1>2

LEMMA NameRmiHistory ==
    ASSUME NameInv, TypeInv', NEW p \in Procs, RmiHistory(p)
    PROVE  NameInv'
  <1>1. CASE End(p) /\ UNCHANGED disk
    BY <1>1, NameEnd
  <1>2. CASE ~ (End(p) /\ UNCHANGED disk)
    <2> DEFINE M == [mem[p] EXCEPT !.bydigest =
                       mem[p].bydigest \ {Head(job[p].hist)}]
    <2>1. mem' = [mem EXCEPT ![p] = M] /\ UNCHANGED <<index, out>>
      BY <1>2 DEF RmiHistory
    <2>2. M.objs = mem[p].objs
      BY NameTypes DEF Memory
    <2> HIDE DEF M
    <2> QED  BY <2>1, <2>2, NameTypes, NameForget
  <1> QED  BY <1>1, <1>2

LEMMA NameRmiHead ==
    ASSUME NameInv, TypeInv', NEW p \in Procs, RmiHead(p)
    PROVE  NameInv'
  <1> DEFINE gone == {[o EXCEPT !.live = @ /\ o.pos # job[p].pos] :
                        o \in mem[p].objs}
             M == [mem[p] EXCEPT !.objs = gone]
  <1>1. Unique(gone)
    <2>1. \A o \in mem[p].objs :
            [o EXCEPT !.live = @ /\ o.pos # job[p].pos].name = o.name
      BY NameTypes DEF ObjectIn
    <2>2. ASSUME NEW t \in gone, NEW u \in gone
          PROVE  \E r, q \in mem[p].objs :
                   /\ t.name = r.name /\ u.name = q.name
                   /\ r = q => t = u
      <3>1. PICK r \in mem[p].objs, q \in mem[p].objs :
              /\ t = [r EXCEPT !.live = @ /\ r.pos # job[p].pos]
              /\ u = [q EXCEPT !.live = @ /\ q.pos # job[p].pos]
        OBVIOUS
      <3> QED  BY <2>1, <3>1
    <2> HIDE DEF gone
    <2> QED  BY <2>2, NameTypes, UniqueUpdate
  <1>2. M.objs = gone
    BY NameTypes DEF Memory
  <1>3. mem' = [mem EXCEPT ![p] = M] /\ Save(p, Entries(gone)) /\ UNCHANGED index
    BY DEF RmiHead
  <1> HIDE DEF gone, M
  <1> QED  BY <1>1, <1>2, <1>3, NameForget

LEMMA NameRmiId ==
    ASSUME NameInv, TypeInv', NEW p \in Procs, NEW id, RmiId(p, id)
    PROVE  NameInv'
  <1> DEFINE objs == mem[p].objs
             same == {q \in Live(objs) : q.id = id}
             bare == {q \in same : q.history = <<>>}
             dead(q) == [q EXCEPT !.live = FALSE]
             back(q) == [q EXCEPT !.digest = Last(q.history),
                                  !.history = Front(q.history)]
             new == (objs \ same) \cup {dead(q) : q \in bare}
                                  \cup {back(q) : q \in same \ bare}
  <1>1. CASE Skip(p)
    BY <1>1, NameTypes, NameFrame DEF Skip
  <1>2. CASE ~ Skip(p)
    <2>1. PICK rest : /\ mem' = [mem EXCEPT ![p] = [objs |-> new,
                                                   bydigest |-> rest]]
                      /\ Save(p, Entries(new))
                      /\ UNCHANGED index
      BY <1>2 DEF RmiId
    <2>2. Unique(new)
      <3>1. same \subseteq objs /\ bare \subseteq same
        BY DEF Live
      <3>2. \A q \in objs : dead(q).name = q.name /\ back(q).name = q.name
        BY NameTypes DEF ObjectIn
      <3>3. \A t \in new : \E q \in objs :
               /\ t.name = q.name
               /\ t = IF q \notin same THEN q
                      ELSE IF q \in bare THEN dead(q) ELSE back(q)
        <4> HIDE DEF dead, back, same, bare
        <4> QED  BY <3>1, <3>2
      <3>4. \A t, u \in new : \E r, q \in objs :
               /\ t.name = r.name /\ u.name = q.name
               /\ r = q => t = u
        <4> HIDE DEF dead, back, same, bare, new
        <4> QED  BY <3>3
      <3> QED  BY <3>4, NameTypes, UniqueUpdate
    <2> DEFINE M == [objs |-> new, bydigest |-> rest]
    <2>3. M.objs = new
      OBVIOUS
    <2>4. mem' = [mem EXCEPT ![p] = M]
      BY <2>1
    <2> HIDE DEF new, M
    <2> QED  BY <2>1, <2>2, <2>3, <2>4, NameForget
  <1> QED  BY <1>1, <1>2

LEMMA NameBuildRecord ==
    ASSUME NameInv, TypeInv', NEW p \in Procs, BuildRecord(p)
    PROVE  NameInv'
  <1> DEFINE name == job[p].ref
             m    == job[p].img
  <1>1. UNCHANGED <<disk, mem>>
    BY DEF BuildRecord
  <1>2. ASSUME NEW rest \in SUBSET index, \A r \in rest : r.name # name,
               NEW h, NEW n,
               Save(p, rest \cup {[pos |-> n, name |-> name, digest |-> m,
                                  history |-> h]})
        PROVE  NameInv'
    <2> DEFINE e == [pos |-> n, name |-> name, digest |-> m, history |-> h]
    <2>1. e.name = name
      OBVIOUS
    <2>2. Unique(rest)
      BY NameTypes, UniqueSubset
    <2>3. Save(p, rest \cup {e})
      BY <1>2
    <2> HIDE DEF name, m, e
    <2>4. Unique(rest \cup {e})
      BY <1>2, <2>1, <2>2, UniqueAdd
    <2> QED  BY <1>1, <2>3, <2>4, NameTypes, NameFrame DEF Save
  <1>3. \/ /\ \A r \in index : r.name # name
           /\ \E n \in EndPos(index) :
                Save(p, index \cup {[pos |-> n, name |-> name, digest |-> m,
                                     history |-> <<>>]})
        \/ \E r \in index :
             /\ r.name = name
             /\ \E n \in EndPos(index \ {r}) :
                  Save(p, (index \ {r}) \cup
                          {[pos |-> n, name |-> name, digest |-> m,
                            history |-> Append(r.history, r.digest)]})
    BY DEF BuildRecord
  <1>4. ASSUME NEW r \in index, r.name = name
        PROVE  \A q \in index \ {r} : q.name # name
    BY <1>4, NameTypes DEF Unique
  <1> HIDE DEF name, m
  <1> QED  BY <1>2, <1>3, <1>4

\* pull and config put their record where the one of that name was.
LEMMA NameReplace ==
    ASSUME NameInv, TypeInv', NEW p \in Procs, UNCHANGED <<index, mem>>,
           NEW gone, NEW e,
           \A o \in Live(mem[p].objs) :
              o.name = e.name => EntryOf(o) \in gone,
           Save(p, (Entries(mem[p].objs) \ gone) \cup {e})
    PROVE  NameInv'
  <1> DEFINE entries == Entries(mem[p].objs)
  <1>1. Unique(entries)
    BY NameTypes, EntryNames
  <1>2. \A r \in entries \ gone : r.name # e.name
    BY EntryNames DEF Entries
  <1> HIDE DEF entries
  <1>3. Unique(entries \ gone)
    BY <1>1, UniqueSubset
  <1>4. Unique((entries \ gone) \cup {e})
    BY <1>2, <1>3, UniqueAdd
  <1> QED  BY <1>4, NameTypes, NameFrame DEF Save, entries

LEMMA NamePullRecord ==
    ASSUME DistinctShorts, NameInv, TypeInv', NEW p \in Procs, PullRecord(p)
    PROVE  NameInv'
  <1> DEFINE objs == mem[p].objs
             ref  == job[p].ref
             m    == job[p].img
             name == LocalName[ref]
  <1>1. ref \in Shorts /\ ref \in Names \cup Shorts /\ name = Meant(ref)
    <2>1. ref \in Shorts
      BY DEF NameInv, PullRecord, Uploaded, TypeInv, UploadOK, UploadFits,
             Uploading
    <2> QED  BY <2>1 DEF Meant
  <1>2. \A o \in objs : o \in Lookup(objs, ref) <=> o.name = name
    BY <1>1, NameTypes, LookupName
  <1>3. UNCHANGED <<index, mem>>
    BY DEF PullRecord
  <1>4. ASSUME NEW o \in Lookup(objs, ref), NEW h,
               Save(p, (Entries(objs) \ {EntryOf(o)}) \cup
                       {[pos |-> o.pos, name |-> name, digest |-> m,
                         history |-> h]})
        PROVE  NameInv'
    <2> DEFINE e == [pos |-> o.pos, name |-> name, digest |-> m, history |-> h]
    <2>1. e.name = name
      OBVIOUS
    <2>2. \A q \in Live(objs) : q.name = name => q = o
      BY <1>2, <1>4, NameTypes, LookupFinds DEF Live, Unique
    <2>3. Save(p, (Entries(objs) \ {EntryOf(o)}) \cup {e})
      BY <1>4
    <2>4. \A q \in Live(objs) : q.name = e.name => EntryOf(q) \in {EntryOf(o)}
      BY <2>1, <2>2
    <2> HIDE DEF e, name, m, ref
    <2> QED  BY <1>3, <2>3, <2>4, NameReplace
  <1>5. ASSUME Lookup(objs, ref) = {}, NEW n,
               Save(p, Entries(objs) \cup
                       {[pos |-> n, name |-> name, digest |-> m,
                         history |-> <<>>]})
        PROVE  NameInv'
    <2> DEFINE e == [pos |-> n, name |-> name, digest |-> m, history |-> <<>>]
    <2>1. e.name = name
      OBVIOUS
    <2>2. \A q \in Live(objs) : q.name # name
      BY <1>2, <1>5 DEF Live
    <2>3. Save(p, (Entries(objs) \ {}) \cup {e})
      BY <1>5
    <2>4. \A q \in Live(objs) : q.name = e.name => EntryOf(q) \in {}
      BY <2>1, <2>2
    <2> HIDE DEF e, name, m, ref
    <2> QED  BY <1>3, <2>3, <2>4, NameReplace
  <1>6. \/ \E o \in Lookup(objs, ref) :
             Save(p, (Entries(objs) \ {EntryOf(o)}) \cup
                     {[pos |-> o.pos, name |-> name, digest |-> m,
                       history |-> PullHistory(o, m)]})
        \/ /\ Lookup(objs, ref) = {}
           /\ \E n \in EndPos(Live(objs)) :
                Save(p, Entries(objs) \cup
                        {[pos |-> n, name |-> name, digest |-> m,
                          history |-> <<>>]})
    BY DEF PullRecord
  <1> HIDE DEF objs, ref, name, m
  <1> QED  BY <1>4, <1>5, <1>6

LEMMA NameConfigRecord ==
    ASSUME NameInv, TypeInv', NEW p \in Procs, ConfigRecord(p)
    PROVE  NameInv'
  <1> DEFINE objs == mem[p].objs
  <1>1. PICK o \in Lookup(objs, job[p].ref) :
          Save(p, (Entries(objs) \ {EntryOf(o)}) \cup
                  {[pos |-> o.pos, name |-> o.name, digest |-> job[p].img,
                    history |-> Append(o.history, o.digest)]})
    BY DEF ConfigRecord
  <1>2. UNCHANGED <<index, mem>>
    BY DEF ConfigRecord
  <1>3. o \in objs
    BY LookupFinds
  <1> DEFINE e == [pos |-> o.pos, name |-> o.name, digest |-> job[p].img,
                   history |-> Append(o.history, o.digest)]
  <1>4. e.name = o.name
    OBVIOUS
  <1>5. Save(p, (Entries(objs) \ {EntryOf(o)}) \cup {e})
    BY <1>1
  <1>6. \A q \in Live(objs) : q.name = o.name => q = o
    BY <1>3, NameTypes DEF Live, Unique
  <1>7. \A q \in Live(objs) : q.name = e.name => EntryOf(q) \in {EntryOf(o)}
    BY <1>4, <1>6
  <1> HIDE DEF e
  <1> QED  BY <1>2, <1>5, <1>7, NameReplace

-----------------------------------------------------------------------------
LEMMA StepNames ==
    ASSUME DistinctShorts, NameInv, TypeInv', NEW p \in Procs, Step(p)
    PROVE  NameInv'
  <1>1. ASSUME NEW op, NEW n, Open(p, op, n) PROVE NameInv'
    <2> DEFINE M == LoadIndex(index)
    <2>1. Unique(M.objs)
      BY NameTypes, LoadedNames
    <2>2. mem' = [mem EXCEPT ![p] = M] /\ UNCHANGED index
      BY <1>1 DEF Open
    <2>3. out' = out \/ out' = [out EXCEPT ![p] = index]
      BY <1>1 DEF Open
    <2> HIDE DEF M
    <2> QED  BY <2>1, <2>2, <2>3, NameTypes, NameFrame
  <1>2. CASE OpenFails(p)
    BY <1>2, NameTypes, NameFrame DEF OpenFails
  <1>3. CASE Exit(p)
    BY <1>3, NameEnd DEF Exit
  <1>4. CASE Truncate(p)
    BY <1>4, NameTypes, NameFrame DEF Truncate
  <1>5. CASE Write(p)
    <2>1. Unique(index')
      BY <1>5, NameTypes, CompactNames DEF Write
    <2>2. UNCHANGED mem /\ out' = [out EXCEPT ![p] = {}]
      BY <1>5 DEF Write
    <2> QED  BY <2>1, <2>2, NameTypes, NameFrame
  <1>6. CASE Crash(p)
    BY <1>6, NameEnd DEF Crash
  <1>7. ASSUME NEW ref, NEW new \in Names \cup Shorts, Tag(p, ref, new)
        PROVE  NameInv'
    BY <1>7, NameTag
  <1>8. ASSUME NEW ref, RmiName(p, ref) PROVE NameInv'
    BY <1>8, NameRmiName
  <1>9. ASSUME NEW ref, RmiNameThrows(p, ref) PROVE NameInv'
    BY <1>9, NameEnd DEF RmiNameThrows
  <1>10. ASSUME NEW id, RmiId(p, id) PROVE NameInv'
    BY <1>10, NameRmiId
  <1>11. ASSUME NEW id, RmiIdThrows(p, id) PROVE NameInv'
    BY <1>11, NameEnd DEF RmiIdThrows
  <1>12. CASE RmiHistory(p)
    BY <1>12, NameRmiHistory
  <1>13. CASE RmiHead(p)
    BY <1>13, NameRmiHead
  <1>14. ASSUME NEW name, NEW m, Build(p, name, m) PROVE NameInv'
    BY <1>14, NameTypes, NameFrame DEF Build, StartUpload
  <1>15. ASSUME NEW short, NEW m, Pull(p, short, m) PROVE NameInv'
    BY <1>15, NameTypes, NameFrame DEF Pull, StartUpload
  <1>16. ASSUME NEW ref, NEW m, Config(p, ref, m) PROVE NameInv'
    BY <1>16, NameTypes, NameFrame DEF Config, StartUpload
  <1>17. ASSUME NEW ref, ConfigFails(p, ref) PROVE NameInv'
    BY <1>17, NameEnd DEF ConfigFails
  <1>18. CASE FileStep(p)
    BY <1>18, FileSteps, NameTypes, NameFrame
  <1>19. CASE FileGone(p)
    <2>1. CASE End(p)
      BY <1>19, <2>1, NameEnd DEF FileGone
    <2>2. CASE ~ End(p)
      <3>1. UNCHANGED <<index, mem, out>>
        BY <1>19, <2>2 DEF FileGone
      <3> QED  BY <3>1, NameTypes, NameFrame
    <2> QED  BY <2>1, <2>2
  <1>20. CASE Abandon(p)
    BY <1>20, NameEnd DEF Abandon
  <1>21. CASE BuildRecord(p)
    BY <1>21, NameBuildRecord
  <1>22. CASE PullRecord(p)
    BY <1>22, NamePullRecord
  <1>23. CASE ConfigRecord(p)
    BY <1>23, NameConfigRecord
  <1> QED
    BY <1>1, <1>2, <1>3, <1>4, <1>5, <1>6, <1>7, <1>8, <1>9, <1>10, <1>11,
       <1>12, <1>13, <1>14, <1>15, <1>16, <1>17, <1>18, <1>19, <1>20, <1>21,
       <1>22, <1>23 DEF Step, FileStep

\* However many commands run at once, and whatever they lose of each other's
\* records, no name is recorded twice, not even while one of them is between
\* truncating the index and writing it: newtag, the end of copy.cpp's Image
\* and pullCmd take the record of the name out of what they write.
THEOREM NamesRecordedOnce ==
    ASSUME DistinctShorts
    PROVE  Spec => []NamesUnique
  <1>1. Init => NameInv
    BY InitNames
  <1>2. NameInv /\ [Next]_vars => NameInv'
    <2> SUFFICES ASSUME NameInv, [Next]_vars PROVE NameInv'
      OBVIOUS
    <2>1. CASE UNCHANGED vars
      BY <2>1 DEF NameInv, TypeInv, TypeOK, UploadOK, UploadFits, Unique
    <2>2. ASSUME NEW p \in Procs, Step(p) PROVE NameInv'
      <3>1. TypeInv'
        BY <2>2, StepTypeInv DEF NameInv
      <3> QED  BY <2>2, <3>1, StepNames
    <2> QED  BY <2>1, <2>2 DEF Next
  <1>3. NameInv => NamesUnique
    BY DEF NameInv, NamesUnique, Unique
  <1> QED  BY <1>1, <1>2, <1>3, PTL DEF Spec


-----------------------------------------------------------------------------
(* A process that is alone keeps the names it has loaded.                  *)

Alone == \A p, q \in Procs : p = q

\* The names of S are all names of T.
NamesKept(S, T) == \A o \in S : \E r \in T : r.name = o.name

\* Only rmi erases objects; every other command has in memory only names that
\* are in the index, or that it is about to write there.
KeepsAt(p) ==
    cmd[p].op # "rmi" =>
        /\ pc[p] # "history"
        /\ \A o \in mem[p].objs : o.live
        /\ pc[p] \in {"ready"} \cup Uploading => NamesKept(mem[p].objs, index)
        /\ pc[p] \in {"truncate", "write"} => NamesKept(mem[p].objs, out[p])

KeepInv == NameInv /\ \A p \in Procs : KeepsAt(p)

LEMMA KeepTypes ==
    ASSUME KeepInv, NEW p \in Procs
    PROVE  /\ pc \in [Procs -> PCs]
           /\ cmd \in [Procs -> [op : AllCommands \cup {"none"},
                                 left : 0..MaxArgs]]
           /\ mem \in [Procs -> Memory]
           /\ out \in [Procs -> SUBSET Entry]
           /\ NameInv /\ KeepsAt(p)
           /\ TakeArg(p) => cmd'[p].op = cmd[p].op
  BY DEF KeepInv, NameInv, TypeInv, TypeOK, TakeArg

\* Every command but rmi: going on with an upload, writing the index, ending.
LEMMA KeepUpload ==
    ASSUME KeepInv, NEW p \in Procs, UNCHANGED <<index, mem>>,
           cmd'[p].op = cmd[p].op, pc[p] \in {"ready"} \cup Uploading,
           pc'[p] \in {"ready"} \cup Uploading
    PROVE  KeepsAt(p)'
  BY KeepTypes DEF KeepsAt, NamesKept, Uploading

LEMMA KeepSave ==
    ASSUME KeepInv, NEW p \in Procs, UNCHANGED mem, cmd'[p].op = cmd[p].op,
           NEW entries, Save(p, entries), NamesKept(mem[p].objs, entries)
    PROVE  KeepsAt(p)'
  <1>1. pc'[p] = "truncate" /\ out'[p] = entries
    BY KeepTypes DEF Save, Goto
  <1> QED  BY <1>1, KeepTypes DEF KeepsAt, NamesKept, Uploading

LEMMA KeepEnd ==
    ASSUME KeepInv, NEW p \in Procs, End(p)
    PROVE  KeepsAt(p)'
  <1>1. pc'[p] = "idle" /\ mem'[p].objs = {}
    BY KeepTypes DEF End, Goto, NoMem
  <1> QED  BY <1>1 DEF KeepsAt, Uploading

LEMMA KeepRmi ==
    ASSUME NEW p \in Procs, cmd'[p].op = "rmi"
    PROVE  KeepsAt(p)'
  BY DEF KeepsAt

\* A record that takes the place of all those of its name.
LEMMA KeptWith ==
    ASSUME NEW S, NEW T, NEW U, NEW e, NamesKept(S, T),
           \A r \in T : r.name # e.name => r \in U
    PROVE  NamesKept(S, U \cup {e})
  BY DEF NamesKept

\* What a command other than rmi would write if it changed nothing.
LEMMA KeptEntries ==
    ASSUME KeepInv, NEW p \in Procs, cmd[p].op # "rmi"
    PROVE  /\ NamesKept(mem[p].objs, Entries(mem[p].objs))
           /\ Live(mem[p].objs) = mem[p].objs
  <1>1. Live(mem[p].objs) = mem[p].objs
    BY KeepTypes DEF KeepsAt, Live
  <1>2. \A o \in mem[p].objs :
          EntryOf(o) \in Entries(mem[p].objs) /\ EntryOf(o).name = o.name
    BY <1>1 DEF Entries, EntryOf
  <1> QED  BY <1>1, <1>2 DEF NamesKept

LEMMA KeepTag ==
    ASSUME DistinctShorts, KeepInv, NEW p \in Procs, NEW ref,
           NEW new \in Names \cup Shorts, Tag(p, ref, new)
    PROVE  KeepsAt(p)'
  <1> DEFINE objs == mem[p].objs
             kept == Live(objs) \ Lookup(objs, new)
             entries == {EntryOf(o) : o \in kept}
  <1>1. /\ pc[p] = "ready" /\ cmd[p].op = "tag"
        /\ cmd'[p].op = cmd[p].op
    BY KeepTypes DEF Tag, Running
  <1>2. CASE Skip(p)
    BY <1>1, <1>2, KeepUpload DEF Skip
  <1>3. CASE ~ Skip(p)
    <2>1. PICK s \in Lookup(objs, ref), n \in EndPos(kept) :
            /\ Save(p, entries \cup {[pos |-> n, name |-> Meant(new),
                                      digest |-> s.digest,
                                      history |-> s.history]})
            /\ UNCHANGED <<disk, mem, job>>
      BY <1>3 DEF Tag, Meant
    <2> DEFINE e == [pos |-> n, name |-> Meant(new), digest |-> s.digest,
                     history |-> s.history]
    <2>2. e.name = Meant(new)
      OBVIOUS
    <2>3. ASSUME NEW r \in Entries(objs), r.name # e.name PROVE r \in entries
      <3>1. PICK o \in Live(objs) : r = EntryOf(o)
        BY DEF Entries
      <3>2. o.name # Meant(new) /\ o \in objs
        BY <2>2, <2>3, <3>1 DEF EntryOf, Live
      <3>3. o \notin Lookup(objs, new)
        BY <3>2, KeepTypes, NameTypes, LookupName
      <3> QED  BY <3>1, <3>3
    <2>4. Save(p, entries \cup {e})
      BY <2>1
    <2> HIDE DEF e, entries
    <2>5. NamesKept(objs, entries \cup {e})
      BY <1>1, <2>3, KeptEntries, KeptWith
    <2> QED  BY <1>1, <2>1, <2>4, <2>5, KeepSave
  <1> QED  BY <1>2, <1>3

LEMMA KeepBuildRecord ==
    ASSUME KeepInv, NEW p \in Procs, BuildRecord(p)
    PROVE  KeepsAt(p)'
  <1> DEFINE name == job[p].ref
             m    == job[p].img
  <1>1. /\ pc[p] = "upload" /\ cmd[p].op = "build"
        /\ UNCHANGED <<disk, cmd, mem>>
    BY DEF BuildRecord, Uploaded
  <1>2. NamesKept(mem[p].objs, index)
    BY <1>1, KeepTypes DEF KeepsAt, Uploading
  <1>3. ASSUME NEW rest, \A r \in index : r.name # name => r \in rest,
               NEW h, NEW n,
               Save(p, rest \cup {[pos |-> n, name |-> name, digest |-> m,
                                  history |-> h]})
        PROVE  KeepsAt(p)'
    <2> DEFINE e == [pos |-> n, name |-> name, digest |-> m, history |-> h]
    <2>1. e.name = name
      OBVIOUS
    <2>2. Save(p, rest \cup {e})
      BY <1>3
    <2> HIDE DEF name, m, e
    <2>3. NamesKept(mem[p].objs, rest \cup {e})
      BY <1>2, <1>3, <2>1, KeptWith
    <2> QED  BY <1>1, <2>2, <2>3, KeepSave
  <1>4. \/ \E n \in EndPos(index) :
             Save(p, index \cup {[pos |-> n, name |-> name, digest |-> m,
                                  history |-> <<>>]})
        \/ \E r \in index :
             /\ r.name = name
             /\ \E n \in EndPos(index \ {r}) :
                  Save(p, (index \ {r}) \cup
                          {[pos |-> n, name |-> name, digest |-> m,
                            history |-> Append(r.history, r.digest)]})
    BY DEF BuildRecord
  <1> HIDE DEF name, m
  <1> QED  BY <1>3, <1>4

LEMMA KeepReplace ==
    ASSUME KeepInv, NEW p \in Procs, cmd[p].op # "rmi",
           UNCHANGED <<cmd, mem>>, NEW gone, NEW e,
           \A o \in gone : o.name = e.name,
           Save(p, (Entries(mem[p].objs) \ {EntryOf(o) : o \in gone}) \cup {e})
    PROVE  KeepsAt(p)'
  <1> DEFINE lost == {EntryOf(o) : o \in gone}
             entries == Entries(mem[p].objs)
  <1>1. \A r \in entries : r.name # e.name => r \in entries \ lost
    BY DEF EntryOf
  <1> HIDE DEF lost
  <1>2. NamesKept(mem[p].objs, (entries \ lost) \cup {e})
    BY <1>1, KeptEntries, KeptWith
  <1> QED  BY <1>2, KeepSave DEF lost

LEMMA KeepPullRecord ==
    ASSUME DistinctShorts, KeepInv, NEW p \in Procs, PullRecord(p)
    PROVE  KeepsAt(p)'
  <1> DEFINE objs == mem[p].objs
             ref  == job[p].ref
             m    == job[p].img
             name == LocalName[ref]
  <1>1. ref \in Names \cup Shorts /\ name = Meant(ref)
    <2>1. ref \in Shorts
      BY DEF KeepInv, NameInv, PullRecord, Uploaded, TypeInv, UploadOK,
             UploadFits, Uploading
    <2> QED  BY <2>1 DEF Meant
  <1>2. \A o \in Lookup(objs, ref) : o.name = name
    BY <1>1, KeepTypes, NameTypes, LookupName, LookupFinds
  <1>3. cmd[p].op # "rmi" /\ UNCHANGED <<cmd, mem>>
    BY DEF PullRecord, Uploaded
  <1>4. ASSUME NEW gone, \A o \in gone : o.name = name, NEW n, NEW h,
               Save(p, (Entries(objs) \ {EntryOf(o) : o \in gone}) \cup
                       {[pos |-> n, name |-> name, digest |-> m,
                         history |-> h]})
        PROVE  KeepsAt(p)'
    <2> DEFINE e == [pos |-> n, name |-> name, digest |-> m, history |-> h]
    <2>1. e.name = name
      OBVIOUS
    <2>2. Save(p, (Entries(objs) \ {EntryOf(o) : o \in gone}) \cup {e})
      BY <1>4
    <2>3. \A o \in gone : o.name = e.name
      BY <1>4, <2>1
    <2> HIDE DEF e, name, m, ref
    <2> QED  BY <1>3, <2>2, <2>3, KeepReplace
  <1>5. \/ \E o \in Lookup(objs, ref) :
             Save(p, (Entries(objs) \ {EntryOf(o)}) \cup
                     {[pos |-> o.pos, name |-> name, digest |-> m,
                       history |-> PullHistory(o, m)]})
        \/ \E n \in EndPos(Live(objs)) :
             Save(p, Entries(objs) \cup
                     {[pos |-> n, name |-> name, digest |-> m,
                       history |-> <<>>]})
    BY DEF PullRecord
  <1>6. /\ \A o : {EntryOf(q) : q \in {o}} = {EntryOf(o)}
        /\ Entries(objs) \ {EntryOf(q) : q \in {}} = Entries(objs)
    OBVIOUS
  <1> HIDE DEF objs, ref, name, m
  <1>7. ASSUME NEW o \in Lookup(objs, ref),
               Save(p, (Entries(objs) \ {EntryOf(o)}) \cup
                       {[pos |-> o.pos, name |-> name, digest |-> m,
                         history |-> PullHistory(o, m)]})
        PROVE  KeepsAt(p)'
    <2>1. \A q \in {o} : q.name = name
      BY <1>2
    <2>2. Save(p, (Entries(objs) \ {EntryOf(q) : q \in {o}}) \cup
                  {[pos |-> o.pos, name |-> name, digest |-> m,
                    history |-> PullHistory(o, m)]})
      BY <1>6, <1>7
    <2> QED  BY <1>4, <2>1, <2>2
  <1>8. ASSUME NEW n, Save(p, Entries(objs) \cup
                       {[pos |-> n, name |-> name, digest |-> m,
                         history |-> <<>>]})
        PROVE  KeepsAt(p)'
    <2>1. Save(p, (Entries(objs) \ {EntryOf(q) : q \in {}}) \cup
                  {[pos |-> n, name |-> name, digest |-> m,
                    history |-> <<>>]})
      BY <1>6, <1>8
    <2> QED  BY <1>4, <2>1
  <1> QED  BY <1>5, <1>7, <1>8

LEMMA KeepConfigRecord ==
    ASSUME KeepInv, NEW p \in Procs, ConfigRecord(p)
    PROVE  KeepsAt(p)'
  <1> DEFINE objs == mem[p].objs
  <1>1. PICK o \in Lookup(objs, job[p].ref) :
          Save(p, (Entries(objs) \ {EntryOf(o)}) \cup
                  {[pos |-> o.pos, name |-> o.name, digest |-> job[p].img,
                    history |-> Append(o.history, o.digest)]})
    BY DEF ConfigRecord
  <1> DEFINE e == [pos |-> o.pos, name |-> o.name, digest |-> job[p].img,
                   history |-> Append(o.history, o.digest)]
  <1>2. cmd[p].op # "rmi" /\ UNCHANGED <<cmd, mem>>
    BY DEF ConfigRecord, Uploaded
  <1> DEFINE gone == {o}
  <1>3. \A q \in gone : q.name = e.name
    OBVIOUS
  <1>4. {EntryOf(q) : q \in gone} = {EntryOf(o)}
    OBVIOUS
  <1>5. Save(p, (Entries(mem[p].objs) \ {EntryOf(q) : q \in gone}) \cup {e})
    BY <1>1, <1>4
  <1> HIDE DEF e, gone, objs
  <1> QED  BY <1>2, <1>3, <1>5, KeepReplace

LEMMA StepKeeps ==
    ASSUME DistinctShorts, KeepInv, NEW p \in Procs, Step(p)
    PROVE  KeepsAt(p)'
  <1>1. ASSUME NEW op, NEW n, Open(p, op, n) PROVE KeepsAt(p)'
    <2>1. mem'[p] = LoadIndex(index) /\ UNCHANGED index
      BY <1>1, KeepTypes DEF Open
    <2>2. \/ pc'[p] = "ready"
          \/ pc'[p] = "truncate" /\ out'[p] = index
      BY <1>1, KeepTypes DEF Open, Goto
    <2>3. /\ \A o \in mem'[p].objs : o.live
          /\ NamesKept(mem'[p].objs, index)
      BY <2>1, LoadedNames DEF NamesKept
    <2> QED  BY <2>1, <2>2, <2>3 DEF KeepsAt, NamesKept, Uploading
  <1>2. CASE OpenFails(p)
    BY <1>2, KeepTypes DEF OpenFails, KeepsAt, NamesKept
  <1>3. End(p) => KeepsAt(p)'
    BY KeepEnd
  <1>4. CASE Exit(p) \/ Crash(p) \/ Abandon(p)
    BY <1>3, <1>4 DEF Exit, Crash, Abandon
  <1>5. CASE Truncate(p)
    BY <1>5, KeepTypes DEF Truncate, Goto, KeepsAt, NamesKept, Uploading
  <1>6. CASE Write(p)
    <2>1. /\ pc'[p] = "ready" /\ pc[p] = "write"
          /\ UNCHANGED <<cmd, mem>> /\ index' \in Compact(out[p])
      BY <1>6, KeepTypes DEF Write, Goto
    <2>2. \A r \in out[p] : \E t \in index' : t.name = r.name
      BY <2>1, KeepTypes, NameTypes, CompactNames
    <2>3. NamesKept(mem[p].objs, out[p]) => NamesKept(mem[p].objs, index')
      BY <2>2 DEF NamesKept
    <2> QED  BY <2>1, <2>3, KeepTypes DEF KeepsAt, NamesKept, Uploading
  <1>7. ASSUME NEW ref, NEW new \in Names \cup Shorts, Tag(p, ref, new)
        PROVE  KeepsAt(p)'
    BY <1>7, KeepTag
  <1>8. ASSUME NEW ref, RmiName(p, ref) \/ RmiId(p, ref) PROVE KeepsAt(p)'
    BY <1>8, KeepTypes, KeepRmi DEF RmiName, RmiId, Running
  <1>9. ASSUME NEW ref, RmiNameThrows(p, ref) \/ RmiIdThrows(p, ref)
        PROVE  KeepsAt(p)'
    BY <1>3, <1>9 DEF RmiNameThrows, RmiIdThrows
  <1>10. CASE RmiHistory(p)
    <2>1. CASE cmd[p].op = "rmi"
      BY <1>3, <1>10, <2>1, KeepRmi DEF RmiHistory
    <2>2. CASE cmd[p].op # "rmi"
      BY <1>10, <2>2, KeepTypes DEF RmiHistory, KeepsAt
    <2> QED  BY <2>1, <2>2
  <1>11. CASE RmiHead(p)
    <2>1. cmd' = cmd /\ pc[p] = "history"
      BY <1>11 DEF RmiHead
    <2>2. cmd[p].op = "rmi"
      BY <2>1, KeepTypes DEF KeepsAt
    <2> QED  BY <2>1, <2>2, KeepRmi
  <1>12. ASSUME NEW ref, NEW m,
                Build(p, ref, m) \/ Pull(p, ref, m) \/ Config(p, ref, m)
         PROVE  KeepsAt(p)'
    <2>1. PICK todo : StartUpload(p, ref, m, todo) /\ pc[p] = "ready"
      BY <1>12 DEF Build, Pull, Config, Running
    <2>2. pc'[p] \in Uploading /\ cmd'[p].op = cmd[p].op
          /\ UNCHANGED <<index, mem>>
      BY <2>1, KeepTypes DEF StartUpload, Goto, Uploading
    <2> QED  BY <2>1, <2>2, KeepUpload
  <1>13. ASSUME NEW ref, ConfigFails(p, ref) PROVE KeepsAt(p)'
    BY <1>3, <1>13 DEF ConfigFails
  <1>14. CASE FileStep(p)
    <2>1. UNCHANGED <<index, cmd, mem>>
      BY <1>14, FileSteps
    <2>2. pc[p] \in Uploading
      BY <1>14 DEF FileStep, Fetch, LoseConfig, Stage, LoseBlob, Hash,
         KeepFile, Unlink, Rename, Renames, Tear, Truncates, Rewrite, Uploading
    <2>3. pc'[p] \in Uploading
      BY <1>14, KeepTypes, FileControl DEF NameInv
    <2> QED  BY <2>1, <2>2, <2>3, KeepUpload
  <1>15. CASE FileGone(p)
    <2>1. CASE End(p)
      BY <1>3, <2>1
    <2>2. CASE ~ End(p)
      <3>1. /\ Done(p) /\ pc[p] \in Uploading
            /\ UNCHANGED <<disk, cmd, mem>>
        BY <1>15, <2>2, FileSteps
      <3>2. pc'[p] \in Uploading
        BY <3>1, KeepTypes DEF Done, Goto, Uploading
      <3> QED  BY <3>1, <3>2, KeepUpload
    <2> QED  BY <2>1, <2>2
  <1>16. CASE BuildRecord(p)
    BY <1>16, KeepBuildRecord
  <1>17. CASE PullRecord(p)
    BY <1>17, KeepPullRecord
  <1>18. CASE ConfigRecord(p)
    BY <1>18, KeepConfigRecord
  <1> QED
    BY <1>1, <1>2, <1>4, <1>5, <1>6, <1>7, <1>8, <1>9, <1>10, <1>11, <1>12,
       <1>13, <1>14, <1>15, <1>16, <1>17, <1>18 DEF Step, FileStep

\* One command at a time: what a command other than rmi writes has every name
\* it loaded, whether it is a build that reads the index again, or a command
\* that writes its own copy of it; also when blobs are lost or the process
\* dies (newtag, copy.cpp Image, pullCmd).
THEOREM LoadedNamesKept ==
    ASSUME DistinctShorts, Alone
    PROVE  Spec => []KeepsNames
  <1>1. Init => KeepInv
    BY InitNames DEF Init, KeepInv, KeepsAt, NoMem, Uploading
  <1>2. KeepInv /\ [Next]_vars => KeepInv'
    <2> SUFFICES ASSUME KeepInv, [Next]_vars PROVE KeepInv'
      OBVIOUS
    <2>1. CASE UNCHANGED vars
      BY <2>1 DEF KeepInv, KeepsAt, NamesKept, NameInv, TypeInv, TypeOK,
                  UploadOK, UploadFits, Unique
    <2>2. ASSUME NEW p \in Procs, Step(p) PROVE KeepInv'
      <3>1. NameInv'
        BY <2>2, StepTypeInv, StepNames DEF KeepInv, NameInv
      <3>2. \A q \in Procs : KeepsAt(q)'
        BY <2>2, StepKeeps DEF Alone
      <3> QED  BY <3>1, <3>2 DEF KeepInv
    <2> QED  BY <2>1, <2>2 DEF Next
  <1>3. KeepInv => KeepsNames
    BY DEF KeepInv, KeepsAt, NamesKept, KeepsNames
  <1> QED  BY <1>1, <1>2, <1>3, PTL DEF Spec

===============================================================================
