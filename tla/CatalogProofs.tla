---------------------------- MODULE CatalogProofs ----------------------------
(***************************************************************************)
(* The image store implements a Catalog, when one command runs at a time,  *)
(* none dies, rmi gets one argument and no two names have one short form,  *)
(* whatever blobs are lost and whichever writes fail.                      *)
(***************************************************************************)
EXTENDS StoreCatalog, ImageStoreProofs

USE DEF disk, vars

SingleUse == DistinctShorts /\ Alone /\ ~Crashes /\ MaxArgs = 1

-----------------------------------------------------------------------------
(* The catalog a set of records with unique names stands for.              *)

Chain(r) == Append(r.history, r.digest)

CatalogOf(S) ==
    [n \in {r.name : r \in S} |->
       LET r == CHOOSE q \in S : q.name = n
       IN  Append(r.history, r.digest)]

Others(S, name) == {r \in S : r.name # name}

\* No two records have one place.
Placed(S) == \A r, q \in S : r.pos = q.pos => r = q

LEMMA CatalogAt ==
    ASSUME NEW S, Unique(S)
    PROVE  /\ DOMAIN CatalogOf(S) = {r.name : r \in S}
           /\ \A r \in S : CatalogOf(S)[r.name] = Chain(r)
           /\ CatalogOf(S) = [n \in DOMAIN CatalogOf(S) |-> CatalogOf(S)[n]]
  <1>1. DOMAIN CatalogOf(S) = {r.name : r \in S}
    BY DEF CatalogOf
  <1>2. ASSUME NEW r \in S PROVE CatalogOf(S)[r.name] = Chain(r)
    <2>1. (CHOOSE q \in S : q.name = r.name) = r
      BY DEF Unique
    <2>2. r.name \in {q.name : q \in S}
      OBVIOUS
    <2> QED  BY <2>1, <2>2 DEF CatalogOf, Chain
  <1>3. CatalogOf(S) = [n \in DOMAIN CatalogOf(S) |-> CatalogOf(S)[n]]
    BY DEF CatalogOf
  <1> QED  BY <1>1, <1>2, <1>3

\* A function that has the names of a set of records, and their chains.
LEMMA SameCatalog ==
    ASSUME NEW S, Unique(S), NEW f, f = [n \in DOMAIN f |-> f[n]],
           \A r \in S : r.name \in DOMAIN f /\ f[r.name] = Chain(r),
           \A n \in DOMAIN f : \E r \in S : n = r.name
    PROVE  CatalogOf(S) = f
  <1> DEFINE g == CatalogOf(S)
  <1>1. /\ DOMAIN g = {r.name : r \in S}
        /\ \A r \in S : g[r.name] = Chain(r)
        /\ g = [n \in DOMAIN g |-> g[n]]
    BY CatalogAt
  <1> HIDE DEF g
  <1>2. \A n : n \in DOMAIN g <=> n \in DOMAIN f
    BY <1>1
  <1>3. DOMAIN g = DOMAIN f
    BY <1>2
  <1>4. ASSUME NEW n \in DOMAIN f PROVE g[n] = f[n]
    <2>1. PICK r \in S : n = r.name
      OBVIOUS
    <2> QED  BY <1>1, <2>1
  <1>5. g = f
    BY <1>1, <1>3, <1>4
  <1> QED  BY <1>5 DEF g

LEMMA OneAssigned ==
    ASSUME NEW S, Unique(S), NEW e
    PROVE  /\ Unique(Others(S, e.name) \cup {e})
           /\ CatalogOf(Others(S, e.name) \cup {e}) =
                [n \in DOMAIN CatalogOf(S) \cup {e.name} |->
                   IF n = e.name THEN Chain(e) ELSE CatalogOf(S)[n]]
  <1> DEFINE T == Others(S, e.name) \cup {e}
             g == CatalogOf(S)
             f == [n \in DOMAIN g \cup {e.name} |->
                     IF n = e.name THEN Chain(e) ELSE g[n]]
  <1>1. Unique(T)
    BY DEF Unique, Others
  <1>2. /\ DOMAIN g = {r.name : r \in S}
        /\ \A r \in S : g[r.name] = Chain(r)
    BY CatalogAt
  <1>3. \A r \in T : r = e \/ (r \in S /\ r.name # e.name)
    BY DEF Others
  <1>4. e \in T /\ \A r \in S : r.name # e.name => r \in T
    BY DEF Others
  <1> HIDE DEF g, T
  <1>5. \A r \in T : r.name \in DOMAIN f /\ f[r.name] = Chain(r)
    BY <1>2, <1>3
  <1>6. \A n \in DOMAIN f : \E r \in T : n = r.name
    <2> TAKE n \in DOMAIN f
    <2>1. CASE n = e.name
      BY <1>4, <2>1
    <2>2. CASE n # e.name
      <3>1. PICK r \in S : n = r.name
        BY <1>2, <2>2
      <3> QED  BY <1>4, <2>2, <3>1
    <2> QED  BY <2>1, <2>2
  <1>7. f = [n \in DOMAIN f |-> f[n]]
    OBVIOUS
  <1> HIDE DEF f
  <1>8. CatalogOf(T) = f
    BY <1>1, <1>5, <1>6, <1>7, SameCatalog
  <1> QED  BY <1>1, <1>8 DEF T, f, g

LEMMA OneForgotten ==
    ASSUME NEW S, Unique(S), NEW name
    PROVE  /\ Unique(Others(S, name))
           /\ CatalogOf(Others(S, name)) =
                [n \in DOMAIN CatalogOf(S) \ {name} |-> CatalogOf(S)[n]]
  <1> DEFINE T == Others(S, name)
             g == CatalogOf(S)
             f == [n \in DOMAIN g \ {name} |-> g[n]]
  <1>1. Unique(T)
    BY DEF Unique, Others
  <1>2. /\ DOMAIN g = {r.name : r \in S}
        /\ \A r \in S : g[r.name] = Chain(r)
    BY CatalogAt
  <1>3. \A r : r \in T <=> r \in S /\ r.name # name
    BY DEF Others
  <1> HIDE DEF g, T
  <1>4. \A r \in T : r.name \in DOMAIN f /\ f[r.name] = Chain(r)
    BY <1>2, <1>3
  <1>5. \A n \in DOMAIN f : \E r \in T : n = r.name
    <2> TAKE n \in DOMAIN f
    <2>1. PICK r \in S : n = r.name
      BY <1>2
    <2> QED  BY <1>3, <2>1
  <1>6. f = [n \in DOMAIN f |-> f[n]]
    OBVIOUS
  <1> HIDE DEF f
  <1>7. CatalogOf(T) = f
    BY <1>1, <1>4, <1>5, <1>6, SameCatalog
  <1> QED  BY <1>1, <1>7 DEF T, f, g

\* The record left when the newest version of an image with the id goes.
BackTo(r, id) ==
    IF ConfigOf[r.digest] = id
      THEN [pos |-> r.pos, name |-> r.name, digest |-> Last(r.history),
            history |-> Front(r.history)]
      ELSE r

\* The records that have nothing to fall back to.
Bare(S, id) == {r \in S : ConfigOf[r.digest] = id /\ r.history = <<>>}

\* The catalog in which each name whose newest version has the id loses it.
RetreatOf(g, id) ==
    LET hit  == {n \in DOMAIN g : ConfigOf[Last(g[n])] = id}
        bare == {n \in hit : Len(g[n]) = 1}
    IN  [n \in DOMAIN g \ bare |-> IF n \in hit THEN Front(g[n]) ELSE g[n]]

LEMMA Retreated ==
    ASSUME NEW S \in SUBSET Entry, Unique(S), NEW id, NEW T,
           T = {BackTo(r, id) : r \in S \ Bare(S, id)}
    PROVE  /\ Unique(T) /\ (Placed(S) => Placed(T))
           /\ CatalogOf(T) = RetreatOf(CatalogOf(S), id)
  <1> DEFINE g    == CatalogOf(S)
             hit  == {n \in DOMAIN g : ConfigOf[Last(g[n])] = id}
             bare == {n \in hit : Len(g[n]) = 1}
             f    == [n \in DOMAIN g \ bare |->
                        IF n \in hit THEN Front(g[n]) ELSE g[n]]
             Hit(r) == ConfigOf[r.digest] = id
  <1>1. /\ DOMAIN g = {r.name : r \in S}
        /\ \A r \in S : g[r.name] = Chain(r)
    BY CatalogAt
  <1>2. ASSUME NEW r \in S
        PROVE  /\ Chain(r) \in Seq(Manifests)
               /\ Last(Chain(r)) = r.digest
               /\ Front(Chain(r)) = r.history
               /\ Len(Chain(r)) = 1 <=> r.history = <<>>
    <2>1. r.history \in Seq(Manifests) /\ r.digest \in Manifests
      BY DEF Entry
    <2> DEFINE h == r.history
               v == Append(h, r.digest)
    <2>2. h \in Seq(Manifests)
      BY <2>1
    <2> HIDE DEF h
    <2>3. /\ v \in Seq(Manifests) /\ Len(v) = Len(h) + 1
          /\ v[Len(v)] = r.digest /\ Len(h) \in Nat
      BY <2>1, <2>2
    <2>4. SubSeq(v, 1, Len(v) - 1) = h
      BY <2>1, <2>2, <2>3
    <2>5. Len(h) = 0 <=> h = <<>>
      BY <2>2
    <2>6. Len(v) = 1 <=> h = <<>>
      BY <2>3, <2>5
    <2> QED  BY <2>3, <2>4, <2>6 DEF h, Chain, Last, Front
  <1>3. ASSUME NEW r \in S, r.history # <<>>
        PROVE  Append(Front(r.history), Last(r.history)) = r.history
    <2> DEFINE h == r.history
    <2>1. h \in Seq(Manifests) /\ h # <<>>
      BY <1>3 DEF Entry
    <2> HIDE DEF h
    <2>2. Append(SubSeq(h, 1, Len(h) - 1), h[Len(h)]) = h
      BY <2>1
    <2> QED  BY <2>2 DEF h, Last, Front
  <1>4. ASSUME NEW r \in S
        PROVE  /\ BackTo(r, id).name = r.name /\ BackTo(r, id).pos = r.pos
               /\ r \notin Bare(S, id) =>
                    Chain(BackTo(r, id)) = IF Hit(r) THEN r.history
                                           ELSE Chain(r)
    BY <1>3 DEF BackTo, Bare, Chain
  <1>5. Unique(T)
    BY <1>4 DEF Unique
  <1>6. Placed(S) => Placed(T)
    BY <1>4 DEF Placed
  <1>7. ASSUME NEW r \in S
        PROVE  /\ r.name \in hit <=> Hit(r)
               /\ r.name \in bare <=> r \in Bare(S, id)
               /\ r.name \in DOMAIN g
    <2>1. r.name \in DOMAIN g /\ g[r.name] = Chain(r)
      BY <1>1
    <2> HIDE DEF g
    <2>2. r.name \in hit <=> Hit(r)
      BY <1>2, <2>1
    <2>3. r.name \in bare <=> r.name \in hit /\ Len(Chain(r)) = 1
      BY <2>1
    <2> QED  BY <1>2, <2>1, <2>2, <2>3 DEF Bare
  <1> HIDE DEF g, hit, bare
  <1>8. ASSUME NEW t \in T PROVE t.name \in DOMAIN f /\ f[t.name] = Chain(t)
    <2>1. PICK r \in S \ Bare(S, id) : t = BackTo(r, id)
      OBVIOUS
    <2>2. t.name = r.name /\ r.name \in DOMAIN g \ bare
      BY <1>4, <1>7, <2>1
    <2>3. f[t.name] = IF Hit(r) THEN Front(Chain(r)) ELSE Chain(r)
      BY <1>1, <1>7, <2>2
    <2> QED  BY <1>2, <1>4, <2>1, <2>2, <2>3
  <1>9. ASSUME NEW n \in DOMAIN f PROVE \E t \in T : n = t.name
    <2>1. PICK r \in S : n = r.name
      BY <1>1
    <2>2. r \notin Bare(S, id)
      BY <1>7, <2>1
    <2> QED  BY <1>4, <2>1, <2>2
  <1>10. f = [n \in DOMAIN f |-> f[n]]
    OBVIOUS
  <1> HIDE DEF f
  <1>11. CatalogOf(T) = f
    BY <1>5, <1>8, <1>9, <1>10, SameCatalog
  <1> QED  BY <1>5, <1>6, <1>11 DEF f, g, hit, bare, RetreatOf

\* The positions of the written records do not matter.
LEMMA CompactCatalog ==
    ASSUME NEW S \in SUBSET Entry, Unique(S), NEW T \in Compact(S)
    PROVE  /\ Unique(T) /\ CatalogOf(T) = CatalogOf(S)
           /\ Placed(S) => Placed(T)
  <1>1. PICK f \in [{r.pos : r \in S} -> 0..MaxPos] :
              /\ T = {[r EXCEPT !.pos = f[r.pos]] : r \in S}
              /\ \A a, b \in DOMAIN f : a < b => f[a] < f[b]
    BY DEF Compact
  <1>2. \A r \in S : /\ [r EXCEPT !.pos = f[r.pos]].name = r.name
                     /\ [r EXCEPT !.pos = f[r.pos]].pos = f[r.pos]
                     /\ Chain([r EXCEPT !.pos = f[r.pos]]) = Chain(r)
    BY DEF Entry, Chain
  <1>3. Unique(T)
    BY CompactNames DEF Entry, EntryIn
  <1>4. /\ \A t \in T : \E r \in S : t.name = r.name /\ Chain(t) = Chain(r)
        /\ \A r \in S : \E t \in T : t.name = r.name
    BY <1>1, <1>2
  <1> DEFINE g == CatalogOf(S)
  <1>5. /\ DOMAIN g = {r.name : r \in S}
        /\ \A r \in S : g[r.name] = Chain(r)
        /\ g = [n \in DOMAIN g |-> g[n]]
    BY CatalogAt
  <1> HIDE DEF g
  <1>6. \A t \in T : t.name \in DOMAIN g /\ g[t.name] = Chain(t)
    BY <1>4, <1>5
  <1>7. \A n \in DOMAIN g : \E t \in T : n = t.name
    BY <1>4, <1>5
  <1>8. CatalogOf(T) = g
    <2>1. g = [n \in DOMAIN g |-> g[n]]
      BY <1>5
    <2> QED  BY <1>3, <1>6, <1>7, <2>1, SameCatalog
  <1>9. ASSUME Placed(S), NEW t \in T, NEW u \in T, t.pos = u.pos
        PROVE  t = u
    <2>1. PICK r \in S : t = [r EXCEPT !.pos = f[r.pos]]
      BY <1>1
    <2>2. PICK q \in S : u = [q EXCEPT !.pos = f[q.pos]]
      BY <1>1
    <2>3. /\ r.pos \in DOMAIN f /\ q.pos \in DOMAIN f
          /\ r.pos \in Int /\ q.pos \in Int
          /\ f[r.pos] \in Int /\ f[q.pos] \in Int
      BY DEF Entry
    <2>4. f[r.pos] = f[q.pos]
      BY <1>2, <1>9, <2>1, <2>2
    <2>5. r.pos = q.pos
      BY <1>1, <2>3, <2>4
    <2> QED  BY <1>9, <2>1, <2>2, <2>5 DEF Placed
  <1> QED  BY <1>3, <1>8, <1>9 DEF g, Placed

-----------------------------------------------------------------------------
(* The records in memory are those of the file while a command works.      *)

FreshAt(p) ==
    /\ pc[p] \notin {"idle", "ready"} => cmd[p].left = 0
    /\ (pc[p] = "ready" /\ cmd[p].left > 0) \/ pc[p] \in Uploading \cup {"history"} =>
         mem[p].objs = {ObjectOf(r) : r \in index}
    /\ pc[p] = "history" => \E r \in index : r.pos = job[p].pos

FreshInv ==
    /\ NameInv
    /\ Placed(index)
    /\ \A p \in Procs : Placed(out[p]) /\ FreshAt(p)

LEMMA FreshTypes ==
    ASSUME SingleUse, FreshInv, NEW p \in Procs
    PROVE  /\ NameInv /\ FreshAt(p) /\ Placed(out[p]) /\ Placed(index)
           /\ pc \in [Procs -> PCs]
           /\ cmd \in [Procs -> [op : AllCommands \cup {"none"}, left : 0..1]]
           /\ mem \in [Procs -> Memory] /\ job \in [Procs -> Job]
           /\ out \in [Procs -> SUBSET Entry]
           /\ index \in SUBSET Entry
           /\ Unique(index) /\ Unique(out[p])
           /\ TakeArg(p) => cmd'[p].left = cmd[p].left - 1
           /\ \A q \in Procs : q = p
  BY DEF SingleUse, Alone, FreshInv, NameInv, TypeInv, TypeOK, TakeArg

\* What is in memory, written as it is, is the index.
LEMMA FreshObjects ==
    ASSUME NEW S \in SUBSET Entry, NEW objs, objs = {ObjectOf(r) : r \in S}
    PROVE  /\ Live(objs) = objs
           /\ Entries(objs) = S
           /\ \A o \in objs : /\ EntryOf(o) \in S /\ o = ObjectOf(EntryOf(o))
                              /\ EntryOf(o).name = o.name
                              /\ EntryOf(o).pos = o.pos
                              /\ Chain(EntryOf(o)) = Chain(o)
                              /\ o.id = ConfigOf[EntryOf(o).digest]
  <1>1. \A r \in S : /\ EntryOf(ObjectOf(r)) = r /\ ObjectOf(r).live
                     /\ ObjectOf(r).name = r.name /\ ObjectOf(r).pos = r.pos
                     /\ Chain(ObjectOf(r)) = Chain(r)
                     /\ ObjectOf(r).id = ConfigOf[r.digest]
    BY DEF Entry, EntryOf, ObjectOf, Chain
  <1>2. Live(objs) = objs
    BY <1>1 DEF Live
  <1>3. \A o \in objs : /\ EntryOf(o) \in S /\ o = ObjectOf(EntryOf(o))
                        /\ EntryOf(o).name = o.name
                        /\ EntryOf(o).pos = o.pos
                        /\ Chain(EntryOf(o)) = Chain(o)
                        /\ o.id = ConfigOf[EntryOf(o).digest]
    BY <1>1
  <1>4. \A r : r \in {EntryOf(o) : o \in objs} <=> r \in S
    BY <1>1
  <1>5. Entries(objs) = S
    BY <1>2, <1>4 DEF Entries
  <1> QED  BY <1>2, <1>3, <1>5

LEMMA FreshEntries ==
    ASSUME NEW S \in SUBSET Entry
    PROVE  \A r \in S : \E o \in {ObjectOf(q) : q \in S} : r = EntryOf(o)
  <1>1. \A r \in S : EntryOf(ObjectOf(r)) = r
    BY DEF Entry, EntryOf, ObjectOf
  <1> QED  BY <1>1

\* What a command has decided to write is what the store holds from then on.
Shown(p) == IF pc[p] \in {"truncate", "write"} THEN out[p] ELSE index

LEMMA Shows ==
    ASSUME SingleUse, NEW p \in Procs
    PROVE  versions = CatalogOf(Shown(p)) /\ versions' = CatalogOf(Shown(p)')
  <1>1. \A q \in Procs : q = p
    BY DEF SingleUse, Alone
  <1>2. Current = Shown(p)
    <2> DEFINE writing == {q \in Procs : pc[q] \in {"truncate", "write"}}
    <2>1. CASE pc[p] \in {"truncate", "write"}
      <3>1. writing = {p}
        BY <1>1, <2>1
      <3>2. UNION {out[q] : q \in {p}} = out[p]
        OBVIOUS
      <3> QED  BY <2>1, <3>1, <3>2 DEF Current, Shown
    <2>2. CASE pc[p] \notin {"truncate", "write"}
      <3>1. writing = {}
        BY <1>1, <2>2
      <3> QED  BY <2>2, <3>1 DEF Current, Shown
    <2> QED  BY <2>1, <2>2
  <1>3. Current' = Shown(p)'
    <2> DEFINE writing == {q \in Procs : pc'[q] \in {"truncate", "write"}}
    <2>1. CASE pc'[p] \in {"truncate", "write"}
      <3>1. writing = {p}
        BY <1>1, <2>1
      <3>2. UNION {out'[q] : q \in {p}} = out'[p]
        OBVIOUS
      <3> QED  BY <2>1, <3>1, <3>2 DEF Current, Shown
    <2>2. CASE pc'[p] \notin {"truncate", "write"}
      <3>1. writing = {}
        BY <1>1, <2>2
      <3> QED  BY <2>2, <3>1 DEF Current, Shown
    <2> QED  BY <2>1, <2>2
  <1> QED  BY <1>2, <1>3 DEF versions, CatalogOf

\* The operators of Catalog are those of the store.
LEMMA SameOperators ==
    /\ \A s : C!Front(s) = Front(s) /\ C!Last(s) = Last(s)
    /\ \A s, e : C!RemoveFirst(s, e) = RemoveFirst(s, e)
  <1>1. \A s : C!Front(s) = Front(s) /\ C!Last(s) = Last(s)
    BY DEF Front, Last, C!Front, C!Last
  <1>2. ASSUME NEW s, NEW e PROVE C!RemoveFirst(s, e) = RemoveFirst(s, e)
    BY DEF RemoveFirst, C!RemoveFirst, SelectInSeq, C!SelectInSeq, RemoveAt,
           C!RemoveAt, Min, C!Min
  <1> QED  BY <1>1, <1>2

-----------------------------------------------------------------------------
(* Steps that the catalog does not see, and the invariant they keep.       *)

\* What remains to be shown of a step, NameInv apart.
Good(p) == Placed(index') /\ Placed(out'[p]) /\ FreshAt(p)'
Seen == [C!Next]_versions

LEMMA StepEnds ==
    ASSUME SingleUse, FreshInv, NEW p \in Procs, End(p), UNCHANGED disk,
           pc[p] \notin {"truncate", "write"}
    PROVE  Good(p) /\ Seen
  <1>1. pc'[p] = "idle" /\ out'[p] = {} /\ index' = index
    BY FreshTypes DEF End, Goto
  <1>2. Shown(p)' = Shown(p)
    BY <1>1 DEF Shown
  <1>3. Good(p)
    BY <1>1, FreshTypes DEF Good, FreshAt, Placed, Uploading
  <1> QED  BY <1>2, <1>3, Shows DEF Seen

\* A step within a command that leaves the index and what is known of it.
LEMMA StepWithin ==
    ASSUME SingleUse, FreshInv, NEW p \in Procs, UNCHANGED <<index, out>>,
           mem'[p].objs = mem[p].objs,
           \/ /\ pc[p] = "ready" /\ cmd[p].left > 0
              /\ cmd'[p].left = cmd[p].left - 1
           \/ pc[p] \in Uploading \cup {"history"} /\ UNCHANGED cmd,
           \/ pc'[p] \in Uploading \cup {"ready"}
           \/ pc'[p] = "history" /\ \E r \in index : r.pos = job'[p].pos
    PROVE  Good(p) /\ Seen
  <1>1. /\ pc[p] \notin {"truncate", "write"}
        /\ pc'[p] \notin {"truncate", "write"}
    BY DEF Uploading
  <1>2. Shown(p)' = Shown(p)
    BY <1>1 DEF Shown
  <1>3. cmd'[p].left = 0
    BY FreshTypes DEF FreshAt, Uploading
  <1>4. mem[p].objs = {ObjectOf(r) : r \in index}
    BY FreshTypes DEF FreshAt
  <1>5. Good(p)
    BY <1>3, <1>4, FreshTypes DEF Good, FreshAt, Placed, Uploading
  <1> QED  BY <1>2, <1>5, Shows DEF Seen

\* A step that has decided what to write, which the catalog sees.
LEMMA StepSaves ==
    ASSUME SingleUse, FreshInv, NEW p \in Procs, NEW T, Save(p, T),
           UNCHANGED index, Placed(T),
           \/ /\ pc[p] = "ready" /\ cmd[p].left > 0
              /\ cmd'[p].left = cmd[p].left - 1
           \/ pc[p] \in Uploading \cup {"history"} /\ UNCHANGED cmd
    PROVE  /\ Good(p)
           /\ versions = CatalogOf(index) /\ versions' = CatalogOf(T)
  <1>1. /\ pc[p] \notin {"truncate", "write"}
        /\ pc'[p] = "truncate" /\ out'[p] = T
    BY FreshTypes DEF Save, Goto, Uploading
  <1>2. Shown(p) = index /\ Shown(p)' = T
    BY <1>1 DEF Shown
  <1>3. cmd'[p].left = 0
    BY FreshTypes DEF FreshAt, Uploading
  <1>4. Good(p)
    BY <1>1, <1>3, FreshTypes DEF Good, FreshAt, Placed, Uploading
  <1> QED  BY <1>2, <1>4, Shows

LEMMA StepOpens ==
    ASSUME SingleUse, FreshInv, NEW p \in Procs, NEW op, NEW n,
           Open(p, op, n)
    PROVE  Good(p) /\ Seen
  <1>1. \A r, q \in index : ShortOf[r.name] = ShortOf[q.name] => r = q
    BY FreshTypes DEF SingleUse, DistinctShorts, Unique, Entry
  <1>2. ~ DuplicateNames(index)
    BY <1>1 DEF DuplicateNames
  <1>3. /\ pc[p] = "idle" /\ pc'[p] = "ready" /\ UNCHANGED <<index, out>>
        /\ mem'[p].objs = {ObjectOf(r) : r \in index}
    BY <1>2, FreshTypes DEF Open, Goto, LoadIndex
  <1>4. Shown(p)' = Shown(p)
    BY <1>3 DEF Shown
  <1>5. Good(p)
    BY <1>3, FreshTypes DEF Good, FreshAt, Placed, Uploading
  <1> QED  BY <1>4, <1>5, Shows DEF Seen

LEMMA StepWrites ==
    ASSUME SingleUse, FreshInv, NEW p \in Procs, Truncate(p) \/ Write(p)
    PROVE  Good(p) /\ Seen
  <1>1. CASE Truncate(p)
    <2>1. /\ pc[p] = "truncate" /\ pc'[p] = "write" /\ index' = {}
          /\ UNCHANGED <<out, cmd>>
      BY <1>1, FreshTypes DEF Truncate, Goto
    <2>2. Shown(p)' = Shown(p)
      BY <2>1 DEF Shown
    <2>3. Good(p)
      BY <2>1, FreshTypes DEF Good, FreshAt, Placed, Uploading
    <2> QED  BY <2>2, <2>3, Shows DEF Seen
  <1>2. CASE Write(p)
    <2>1. /\ pc[p] = "write" /\ pc'[p] = "ready" /\ out'[p] = {}
          /\ index' \in Compact(out[p]) /\ UNCHANGED cmd
      BY <1>2, FreshTypes DEF Write, Goto
    <2>2. out[p] \in SUBSET Entry
      BY FreshTypes
    <2>3. CatalogOf(index') = CatalogOf(out[p]) /\ Placed(index')
      BY <2>1, <2>2, FreshTypes, CompactCatalog
    <2>4. Shown(p) = out[p] /\ Shown(p)' = index'
      BY <2>1 DEF Shown
    <2>5. Good(p)
      BY <2>1, <2>3, FreshTypes DEF Good, FreshAt, Placed, Uploading
    <2> QED  BY <2>3, <2>4, <2>5, Shows DEF Seen
  <1> QED  BY <1>1, <1>2

-----------------------------------------------------------------------------
(* Steps that decide what to write: each is one step of the catalog.       *)

\* When a command may still change the store, and what it then knows.
Working(p) ==
    \/ Running(p, cmd[p].op) /\ TakeArg(p)
    \/ pc[p] \in Uploading \cup {"history"} /\ UNCHANGED cmd

LEMMA Known0 ==
    ASSUME SingleUse, FreshInv, NEW p \in Procs, Working(p)
    PROVE  /\ \/ /\ pc[p] = "ready" /\ cmd[p].left > 0
                 /\ cmd'[p].left = cmd[p].left - 1
              \/ pc[p] \in Uploading \cup {"history"} /\ UNCHANGED cmd
           /\ index \in SUBSET Entry
           /\ mem[p].objs = {ObjectOf(r) : r \in index}
           /\ Live(mem[p].objs) = mem[p].objs
           /\ Entries(mem[p].objs) = index
           /\ \A r \in index : \E o \in mem[p].objs : r = EntryOf(o)
           /\ \A o \in mem[p].objs :
                /\ EntryOf(o) \in index /\ o = ObjectOf(EntryOf(o))
                /\ EntryOf(o).name = o.name
                /\ EntryOf(o).pos = o.pos
                /\ Chain(EntryOf(o)) = Chain(o)
                /\ o.id = ConfigOf[EntryOf(o).digest]
  <1>1. \/ /\ pc[p] = "ready" /\ cmd[p].left > 0
           /\ cmd'[p].left = cmd[p].left - 1
        \/ pc[p] \in Uploading \cup {"history"} /\ UNCHANGED cmd
    BY FreshTypes DEF Working, Running
  <1>2. mem[p].objs = {ObjectOf(r) : r \in index} /\ index \in SUBSET Entry
    BY <1>1, FreshTypes DEF FreshAt
  <1> DEFINE objs == mem[p].objs
  <1>3. objs = {ObjectOf(r) : r \in index}
    BY <1>2
  <1> HIDE DEF objs
  <1>4. /\ Live(objs) = objs
        /\ Entries(objs) = index
        /\ \A o \in objs :
             /\ EntryOf(o) \in index /\ o = ObjectOf(EntryOf(o))
             /\ EntryOf(o).name = o.name
             /\ EntryOf(o).pos = o.pos
             /\ Chain(EntryOf(o)) = Chain(o)
             /\ o.id = ConfigOf[EntryOf(o).digest]
    BY <1>2, <1>3, FreshObjects
  <1>5. \A r \in index : \E o \in objs : r = EntryOf(o)
    BY <1>2, <1>3, FreshEntries
  <1> QED  BY <1>1, <1>2, <1>4, <1>5 DEF objs

\* A record takes the place of the one of its name.
LEMMA Assigned ==
    ASSUME SingleUse, FreshInv, NEW p \in Procs, Working(p), UNCHANGED index,
           NEW e, \A r \in Others(index, e.name) : r.pos # e.pos,
           NEW T, Save(p, T), T = Others(index, e.name) \cup {e}
    PROVE  Good(p) /\ versions = CatalogOf(index) /\ C!Assign(e.name, Chain(e))
  <1>1. Placed(T)
    BY FreshTypes DEF Placed, Others
  <1>2. /\ Good(p)
        /\ versions = CatalogOf(index) /\ versions' = CatalogOf(T)
    BY <1>1, Known0, StepSaves
  <1>3. CatalogOf(T) =
          [n \in DOMAIN CatalogOf(index) \cup {e.name} |->
             IF n = e.name THEN Chain(e) ELSE CatalogOf(index)[n]]
    <2>1. Unique(index)
      BY FreshTypes
    <2>2. CatalogOf(Others(index, e.name) \cup {e}) =
            [n \in DOMAIN CatalogOf(index) \cup {e.name} |->
               IF n = e.name THEN Chain(e) ELSE CatalogOf(index)[n]]
      BY <2>1, OneAssigned
    <2> QED  BY <2>2
  <1>4. versions' = [n \in DOMAIN versions \cup {e.name} |->
                       IF n = e.name THEN Chain(e) ELSE versions[n]]
    BY <1>2, <1>3
  <1> QED  BY <1>2, <1>4 DEF C!Assign

\* The versions a name has.
LEMMA VersionsOf ==
    ASSUME FreshInv, versions = CatalogOf(index), NEW name
    PROVE  /\ \A r \in index : r.name = name =>
                name \in DOMAIN versions /\ versions[name] = Chain(r)
                /\ C!Versions(name) = Chain(r)
           /\ (\A r \in index : r.name # name) =>
                name \notin DOMAIN versions /\ C!Versions(name) = <<>>
  <1>1. Unique(index)
    BY DEF FreshInv, NameInv
  <1>2. /\ DOMAIN versions = {r.name : r \in index}
        /\ \A r \in index : versions[r.name] = Chain(r)
    BY <1>1, CatalogAt
  <1> HIDE DEF versions
  <1>3. \A r \in index : r.name = name =>
                name \in DOMAIN versions /\ versions[name] = Chain(r)
    BY <1>2
  <1>4. (\A r \in index : r.name # name) => name \notin DOMAIN versions
    BY <1>2
  <1> QED  BY <1>3, <1>4 DEF C!Versions

LEMMA BuildPublishes ==
    ASSUME SingleUse, FreshInv, NEW p \in Procs, BuildRecord(p)
    PROVE  Good(p) /\ Seen
  <1> DEFINE name == job[p].ref
             same == {r \in index : r.name = name}
             m == job[p].img
  <1>1. /\ name \in Names /\ m \in Manifests
        /\ Working(p) /\ UNCHANGED index
    BY DEF BuildRecord, Uploaded, FreshInv, NameInv, TypeInv, UploadOK,
           UploadFits, Uploading, Working
  <1> DEFINE rest == Others(index, name)
  <1>2. PICK h : \E n \in EndPos(rest) :
          /\ Save(p, rest \cup {[pos |-> n, name |-> name, digest |-> m,
                                 history |-> h]})
          /\ \/ same = {} /\ h = <<>>
             \/ \E r \in same : h = Append(r.history, r.digest)
    <2>1. CASE same = {}
      <3>1. index = Others(index, name)
        BY <2>1 DEF Others
      <3>2. \E n \in EndPos(index) :
              Save(p, index \cup {[pos |-> n, name |-> name, digest |-> m,
                                   history |-> <<>>]})
        BY <2>1 DEF BuildRecord
      <3> QED  BY <2>1, <3>1, <3>2
    <2>2. CASE same # {}
      <3>1. PICK r \in same :
              \E n \in EndPos(index \ {r}) :
                 Save(p, (index \ {r}) \cup
                         {[pos |-> n, name |-> name, digest |-> m,
                           history |-> Append(r.history, r.digest)]})
        BY <2>2 DEF BuildRecord
      <3>2. index \ {r} = Others(index, name)
        BY FreshTypes DEF Others, Unique
      <3> QED  BY <3>1, <3>2
    <2> QED  BY <2>1, <2>2
  <1>3. PICK n \in EndPos(rest) :
           Save(p, rest \cup {[pos |-> n, name |-> name, digest |-> m,
                               history |-> h]})
    BY <1>2
  <1> DEFINE e == [pos |-> n, name |-> name, digest |-> m, history |-> h]
             T == rest \cup {e}
  <1>4. e.name = name /\ e.pos = n /\ Chain(e) = Append(h, m)
    BY DEF Chain
  <1>5. \A r \in Others(index, name) : r.pos # n
    BY FreshTypes DEF EndPos, Others, Entry
  <1>6. Save(p, T) /\ T = Others(index, e.name) \cup {e}
    BY <1>3, <1>4
  <1> HIDE DEF e, T, rest, name, m
  <1>7. Good(p) /\ versions = CatalogOf(index) /\ C!Assign(e.name, Chain(e))
    BY <1>1, <1>4, <1>5, <1>6, Assigned
  <1>8. C!Versions(name) = h
    BY <1>2, <1>7, VersionsOf DEF Chain
  <1>9. C!Publish(name, m)
    BY <1>4, <1>7, <1>8 DEF C!Publish
  <1> QED  BY <1>1, <1>7, <1>9 DEF Seen, C!Next

LEMMA ConfigPublishes ==
    ASSUME SingleUse, FreshInv, NEW p \in Procs, ConfigRecord(p)
    PROVE  Good(p) /\ Seen
  <1> DEFINE objs == mem[p].objs
             m == job[p].img
  <1>1. m \in Manifests /\ Working(p) /\ UNCHANGED index
    BY DEF ConfigRecord, Uploaded, FreshInv, NameInv, TypeInv, UploadOK,
           UploadFits, Uploading, Working
  <1>2. PICK o \in Lookup(objs, job[p].ref) :
          Save(p, (Entries(objs) \ {EntryOf(o)}) \cup
                  {[pos |-> o.pos, name |-> o.name, digest |-> m,
                    history |-> Append(o.history, o.digest)]})
    BY DEF ConfigRecord
  <1>3. /\ o \in objs /\ EntryOf(o) \in index /\ Entries(objs) = index
        /\ EntryOf(o).name = o.name /\ EntryOf(o).pos = o.pos
        /\ Chain(EntryOf(o)) = Chain(o)
    BY <1>1, LookupFinds, Known0
  <1> DEFINE e == [pos |-> o.pos, name |-> o.name, digest |-> m,
                   history |-> Append(o.history, o.digest)]
             T == (index \ {EntryOf(o)}) \cup {e}
  <1>4. /\ e.name = o.name /\ e.pos = o.pos
        /\ Chain(e) = Append(Chain(o), m)
    BY DEF Chain
  <1>5. Others(index, o.name) = index \ {EntryOf(o)}
    BY <1>3, FreshTypes DEF Others, Unique
  <1>6. \A r \in Others(index, o.name) : r.pos # o.pos
    BY <1>3, <1>5, FreshTypes DEF Placed
  <1>7. Save(p, T) /\ T = Others(index, e.name) \cup {e}
    BY <1>2, <1>3, <1>4, <1>5
  <1> HIDE DEF e, T, m
  <1>8. Good(p) /\ versions = CatalogOf(index) /\ C!Assign(e.name, Chain(e))
    BY <1>1, <1>4, <1>6, <1>7, Assigned
  <1>9. C!Versions(o.name) = Chain(o)
    BY <1>3, <1>8, VersionsOf
  <1>10. C!Publish(o.name, m)
    BY <1>4, <1>8, <1>9 DEF C!Publish
  <1>11. o.name \in Names
    BY <1>3, FreshTypes DEF Entry
  <1> QED  BY <1>1, <1>8, <1>10, <1>11 DEF Seen, C!Next

LEMMA PullRefreshes ==
    ASSUME SingleUse, FreshInv, NEW p \in Procs, PullRecord(p)
    PROVE  Good(p) /\ Seen
  <1> DEFINE objs == mem[p].objs
             ref == job[p].ref
             m == job[p].img
             name == LocalName[ref]
             old == Lookup(objs, ref)
  <1>1. /\ ref \in Shorts /\ m \in Manifests /\ name \in Names
        /\ name = Meant(ref) /\ Working(p) /\ UNCHANGED index
    <2>1. ref \in Shorts /\ m \in Manifests /\ Working(p) /\ UNCHANGED index
      BY DEF PullRecord, Uploaded, FreshInv, NameInv, TypeInv, UploadOK,
             UploadFits, Uploading, Working
    <2> QED  BY <2>1, NameAssumption DEF Meant
  <1>2. /\ objs \in SUBSET ObjectIn(Manifests) /\ Unique(objs)
    BY NameTypes DEF FreshInv
  <1>3. \A o \in objs : o \in old <=> o.name = name
    BY <1>1, <1>2, LookupName DEF SingleUse
  <1>4. ASSUME NEW e, e.name = name,
               \A r \in Others(index, name) : r.pos # e.pos,
               Save(p, Others(index, name) \cup {e}),
               C!Assign(name, Chain(e)) /\ versions = CatalogOf(index) =>
                 C!Refresh(name, m)
        PROVE  Good(p) /\ Seen
    <2>1. Good(p) /\ versions = CatalogOf(index) /\ C!Assign(name, Chain(e))
      <3> DEFINE T == Others(index, name) \cup {e}
      <3>1. Save(p, T) /\ T = Others(index, e.name) \cup {e}
        BY <1>4
      <3> HIDE DEF T
      <3> QED  BY <1>1, <1>4, <3>1, Assigned
    <2> QED  BY <1>1, <1>4, <2>1 DEF Seen, C!Next
  <1>5. ASSUME NEW o \in old,
               Save(p, (Entries(objs) \ {EntryOf(o)}) \cup
                       {[pos |-> o.pos, name |-> name, digest |-> m,
                         history |-> PullHistory(o, m)]})
        PROVE  Good(p) /\ Seen
    <2> DEFINE e == [pos |-> o.pos, name |-> name, digest |-> m,
                     history |-> PullHistory(o, m)]
    <2>1. /\ o \in objs /\ EntryOf(o) \in index /\ Entries(objs) = index
          /\ EntryOf(o).name = o.name /\ EntryOf(o).pos = o.pos
          /\ Chain(EntryOf(o)) = Chain(o) /\ o.name = name
      BY <1>1, <1>3, LookupFinds, Known0
    <2>2. Others(index, name) = index \ {EntryOf(o)}
      BY <2>1, FreshTypes DEF Others, Unique
    <2>3. \A r \in Others(index, name) : r.pos # o.pos
      BY <2>1, <2>2, FreshTypes DEF Placed
    <2>4. /\ e.name = name /\ e.pos = o.pos
          /\ Chain(e) = Append(PullHistory(o, m), m)
      BY DEF Chain
    <2>5. Save(p, Others(index, name) \cup {e})
      BY <1>5, <2>1, <2>2
    <2>6. ASSUME C!Assign(name, Chain(e)), versions = CatalogOf(index)
          PROVE  C!Refresh(name, m)
      <3>1. C!Versions(name) = Append(o.history, o.digest)
        BY <2>1, <2>6, VersionsOf DEF Chain
      <3> DEFINE v == Append(o.history, o.digest)
                 u == IF v # <<>> /\ C!Last(v) = m THEN C!Front(v) ELSE v
      <3>2. o.history \in Seq(Manifests) /\ o.digest \in Manifests
        BY <1>2, <2>1 DEF ObjectIn
      <3>3. v # <<>> /\ Last(v) = o.digest /\ Front(v) = o.history
        <4>1. v \in Seq(Manifests) /\ Len(v) = Len(o.history) + 1
              /\ v[Len(v)] = o.digest /\ Len(o.history) \in Nat
          BY <3>2
        <4>2. v # <<>>
          BY <4>1
        <4>3. SubSeq(v, 1, Len(v) - 1) = o.history
          BY <3>2, <4>1
        <4> QED  BY <4>1, <4>2, <4>3 DEF Last, Front
      <3>4. u = IF o.digest = m THEN o.history ELSE v
        BY <3>3, SameOperators
      <3>5. PullHistory(o, m) = C!RemoveFirst(u, m)
        BY <3>4, SameOperators DEF PullHistory
      <3>6. C!Assign(name, Append(C!RemoveFirst(u, m), m))
        BY <2>4, <2>6, <3>5
      <3> HIDE DEF name, m, e
      <3> QED  BY <3>1, <3>6 DEF C!Refresh
    <2> HIDE DEF e, name, m, objs, ref, old
    <2> QED  BY <1>4, <2>3, <2>4, <2>5, <2>6
  <1>6. ASSUME old = {}, NEW n \in EndPos(Live(objs)),
               Save(p, Entries(objs) \cup
                       {[pos |-> n, name |-> name, digest |-> m,
                         history |-> <<>>]})
        PROVE  Good(p) /\ Seen
    <2> DEFINE e == [pos |-> n, name |-> name, digest |-> m,
                     history |-> <<>>]
    <2>1. Entries(objs) = index /\ Live(objs) = objs
      BY <1>1, Known0
    <2>2. \A r \in index : \E o \in objs : r.name = o.name /\ r.pos = o.pos
      BY <1>1, Known0
    <2>3. \A r \in index : r.name # name /\ r.pos # n
      <3>1. \A o \in objs : o.pos < n
        BY <1>6, <2>1 DEF EndPos
      <3> HIDE DEF objs, name, old
      <3> QED  BY <1>3, <1>6, <2>2, <3>1, FreshTypes DEF Entry
    <2>4. Others(index, name) = index
      BY <2>3 DEF Others
    <2>5. e.name = name /\ e.pos = n /\ Chain(e) = Append(<<>>, m)
      BY DEF Chain
    <2>6. Save(p, Others(index, name) \cup {e})
      BY <1>6, <2>1, <2>4
    <2>7. ASSUME C!Assign(name, Chain(e)), versions = CatalogOf(index)
          PROVE  C!Refresh(name, m)
      <3>1. C!Versions(name) = <<>>
        BY <2>3, <2>7, VersionsOf
      <3>2. C!RemoveFirst(<<>>, m) = <<>>
        BY DEF C!RemoveFirst
      <3>3. C!Assign(name, Append(C!RemoveFirst(<<>>, m), m))
        BY <2>5, <2>7, <3>2
      <3> HIDE DEF name, m, e
      <3> QED  BY <3>1, <3>3 DEF C!Refresh
    <2> HIDE DEF e, name, m, objs, ref, old
    <2> QED  BY <1>4, <2>3, <2>4, <2>5, <2>6, <2>7
  <1>7. \/ \E o \in old :
             Save(p, (Entries(objs) \ {EntryOf(o)}) \cup
                     {[pos |-> o.pos, name |-> name, digest |-> m,
                       history |-> PullHistory(o, m)]})
        \/ /\ old = {}
           /\ \E n \in EndPos(Live(objs)) :
                Save(p, Entries(objs) \cup
                        {[pos |-> n, name |-> name, digest |-> m,
                          history |-> <<>>]})
    BY DEF PullRecord
  <1> HIDE DEF objs, ref, m, name, old
  <1> QED  BY <1>5, <1>6, <1>7

LEMMA TagAliases ==
    ASSUME SingleUse, FreshInv, NEW p \in Procs, NEW ref,
           NEW new \in Names \cup Shorts, Tag(p, ref, new)
    PROVE  Good(p) /\ Seen
  <1> DEFINE objs == mem[p].objs
             name == Meant(new)
             kept == Live(objs) \ Lookup(objs, new)
             entries == {EntryOf(o) : o \in kept}
  <1>1. /\ pc[p] = "ready" /\ cmd[p].left > 0 /\ Working(p)
        /\ cmd'[p].left = cmd[p].left - 1
    BY FreshTypes DEF Tag, Running, Working
  <1>2. CASE Skip(p)
    BY <1>1, <1>2, StepWithin DEF Skip
  <1>3. CASE ~ Skip(p)
    <2>1. PICK s \in Lookup(objs, ref), n \in EndPos(kept) :
            /\ Save(p, entries \cup {[pos |-> n, name |-> name,
                                      digest |-> s.digest,
                                      history |-> s.history]})
            /\ UNCHANGED index
      BY <1>3 DEF Tag, Meant
    <2> DEFINE e == [pos |-> n, name |-> name, digest |-> s.digest,
                     history |-> s.history]
               T == entries \cup {e}
    <2>2. /\ Live(objs) = objs /\ index \in SUBSET Entry
          /\ \A r \in index : \E o \in objs : r = EntryOf(o)
          /\ \A o \in objs : /\ EntryOf(o) \in index
                             /\ EntryOf(o).name = o.name
                             /\ EntryOf(o).pos = o.pos
                             /\ Chain(EntryOf(o)) = Chain(o)
      BY <1>1, Known0
    <2>3. /\ name \in Names
          /\ \A o \in objs : o \in Lookup(objs, new) <=> o.name = name
      BY NameTypes, LookupName DEF FreshInv, SingleUse
    <2>4. \A o : o \in kept <=> o \in objs /\ o.name # name
      BY <2>2, <2>3, LookupFinds
    <2>5. entries = Others(index, name)
      <3>1. \A r : r \in entries <=> r \in index /\ r.name # name
        <4> HIDE DEF kept, objs, name
        <4> QED  BY <2>2, <2>4
      <3> HIDE DEF entries
      <3> QED  BY <3>1 DEF Others
    <2>6. \A r \in Others(index, name) : r.pos # n
      <3> SUFFICES ASSUME NEW r \in entries PROVE r.pos # n
        BY <2>5
      <3>1. PICK o \in kept : r = EntryOf(o)
        OBVIOUS
      <3>2. o.pos < n /\ r.pos = o.pos /\ r.pos \in Int
        BY <2>2, <3>1 DEF EndPos, Entry
      <3> QED  BY <3>2
    <2>7. e.name = name /\ e.pos = n /\ Chain(e) = Chain(s)
      BY DEF Chain
    <2>8. Save(p, T) /\ T = Others(index, e.name) \cup {e}
      BY <2>1, <2>5, <2>7
    <2>9. s \in objs
      BY LookupFinds
    <2> HIDE DEF e, T, entries, kept, objs, name
    <2>10. Good(p) /\ versions = CatalogOf(index) /\ C!Assign(name, Chain(s))
      BY <1>1, <2>1, <2>6, <2>7, <2>8, Assigned
    <2>11. s.name \in DOMAIN versions /\ versions[s.name] = Chain(s)
      BY <2>2, <2>9, <2>10, VersionsOf
    <2>12. s.name \in Names
      BY <2>2, <2>9 DEF Entry
    <2>13. C!Alias(s.name, name)
      BY <2>10, <2>11 DEF C!Alias
    <2> QED  BY <2>3, <2>10, <2>12, <2>13 DEF Seen, C!Next
  <1> QED  BY <1>2, <1>3

\* The record of one name goes.
LEMMA Forgotten ==
    ASSUME SingleUse, FreshInv, NEW p \in Procs, Working(p), UNCHANGED index,
           NEW name \in Names, Save(p, Others(index, name))
    PROVE  Good(p) /\ Seen
  <1> DEFINE T == Others(index, name)
  <1>1. Placed(T)
    BY FreshTypes DEF Placed, Others
  <1>2. Save(p, T)
    OBVIOUS
  <1> HIDE DEF T
  <1>3. /\ Good(p)
        /\ versions = CatalogOf(index) /\ versions' = CatalogOf(T)
    BY <1>1, <1>2, Known0, StepSaves
  <1>4. Unique(index)
    BY FreshTypes
  <1>5. CatalogOf(T) =
          [n \in DOMAIN CatalogOf(index) \ {name} |-> CatalogOf(index)[n]]
    BY <1>4, OneForgotten DEF T
  <1>6. C!Forget(name)
    BY <1>3, <1>5 DEF C!Forget
  <1> QED  BY <1>3, <1>6 DEF Seen, C!Next

\* What is written when one object is no longer live.
LEMMA WithoutOne ==
    ASSUME SingleUse, FreshInv, NEW p \in Procs, Working(p),
           NEW o \in mem[p].objs, NEW gone,
           \A r : r \in Entries(gone) <=>
                    \E q \in mem[p].objs : q # o /\ r = EntryOf(q)
    PROVE  o.name \in Names /\ Entries(gone) = Others(index, o.name)
  <1> DEFINE objs == mem[p].objs
  <1>1. /\ index \in SUBSET Entry
        /\ \A r \in index : \E q \in objs : r = EntryOf(q)
        /\ \A q \in objs : EntryOf(q) \in index /\ EntryOf(q).name = q.name
    BY Known0
  <1>2. \A q \in objs : q.name = o.name => q = o
    BY NameTypes DEF FreshInv, Unique
  <1>3. o \in objs /\ \A r : r \in Entries(gone) <=>
                               \E q \in objs : q # o /\ r = EntryOf(q)
    OBVIOUS
  <1> HIDE DEF objs
  <1>4. \A r : r \in Entries(gone) <=> r \in index /\ r.name # o.name
    BY <1>1, <1>2, <1>3
  <1>5. Entries(gone) = Others(index, o.name)
    BY <1>4 DEF Others
  <1> QED  BY <1>1, <1>3, <1>5 DEF Entry

LEMMA RmiNameForgets ==
    ASSUME SingleUse, FreshInv, NEW p \in Procs, NEW ref, RmiName(p, ref)
    PROVE  Good(p) /\ Seen
  <1> DEFINE objs == mem[p].objs
  <1>1. /\ pc[p] = "ready" /\ cmd[p].left > 0 /\ Working(p)
        /\ cmd'[p].left = cmd[p].left - 1
    BY FreshTypes DEF RmiName, Running, Working
  <1>2. CASE Skip(p)
    BY <1>1, <1>2, StepWithin DEF Skip
  <1>3. CASE ~ Skip(p)
    <2>1. PICK o \in Lookup(objs, ref) :
            LET rest == mem[p].bydigest \ {o.digest}
                gone == (objs \ {o}) \cup {[o EXCEPT !.live = FALSE]}
            IN  \/ Save(p, Entries(gone)) /\ UNCHANGED index
                \/ /\ mem' = [mem EXCEPT ![p].bydigest = rest]
                   /\ job' = [job EXCEPT ![p] =
                                [NoJob EXCEPT !.img = o.digest,
                                              !.hist = o.history,
                                              !.pos = o.pos]]
                   /\ Goto(p, "history")
                   /\ UNCHANGED <<index, out>>
      BY <1>3 DEF RmiName
    <2> DEFINE dead == [o EXCEPT !.live = FALSE]
               gone == (objs \ {o}) \cup {dead}
    <2>2. /\ o \in objs /\ Live(objs) = objs
          /\ EntryOf(o) \in index /\ EntryOf(o).pos = o.pos
      BY <1>1, LookupFinds, Known0
    <2>3. CASE Save(p, Entries(gone)) /\ UNCHANGED index
      <3>1. ~ dead.live
        BY <2>2, NameTypes DEF FreshInv, ObjectIn
      <3>2. \A q \in objs : q.live
        BY <2>2 DEF Live
      <3> HIDE DEF dead, objs
      <3>3. \A q : q \in Live(gone) <=> q \in objs /\ q # o
        BY <3>1, <3>2 DEF Live
      <3> HIDE DEF gone
      <3>4. \A r : r \in Entries(gone) <=>
                     \E q \in objs : q # o /\ r = EntryOf(q)
        BY <3>3 DEF Entries
      <3>5. o.name \in Names /\ Entries(gone) = Others(index, o.name)
        BY <1>1, <2>2, <3>4, WithoutOne DEF objs
      <3>6. Save(p, Others(index, o.name)) /\ UNCHANGED index
        BY <2>3, <3>5
      <3> QED  BY <1>1, <3>5, <3>6, Forgotten
    <2>4. CASE /\ mem' = [mem EXCEPT ![p].bydigest =
                                        mem[p].bydigest \ {o.digest}]
               /\ job' = [job EXCEPT ![p] =
                            [NoJob EXCEPT !.img = o.digest,
                                          !.hist = o.history,
                                          !.pos = o.pos]]
               /\ Goto(p, "history")
               /\ UNCHANGED <<index, out>>
      <3>1. mem'[p].objs = mem[p].objs /\ pc'[p] = "history"
        BY <2>4, FreshTypes DEF Goto, Memory
      <3>2. job'[p].pos = o.pos
        BY <2>4, FreshTypes DEF NoJob
      <3> QED  BY <1>1, <2>2, <2>4, <3>1, <3>2, StepWithin
    <2> QED  BY <2>1, <2>3, <2>4
  <1> QED  BY <1>2, <1>3

LEMMA RmiHistoryHidden ==
    ASSUME SingleUse, FreshInv, NEW p \in Procs, RmiHistory(p)
    PROVE  Good(p) /\ Seen
  <1>1. pc[p] = "history"
    BY DEF RmiHistory
  <1>2. CASE End(p) /\ UNCHANGED disk
    BY <1>1, <1>2, StepEnds
  <1>3. CASE ~ (End(p) /\ UNCHANGED disk)
    <2>1. PICK rest :
            /\ mem' = [mem EXCEPT ![p].bydigest = rest]
            /\ job' = [job EXCEPT ![p].hist = Tail(@)]
            /\ UNCHANGED <<index, pc, cmd, out>>
      BY <1>3 DEF RmiHistory
    <2>2. mem'[p].objs = mem[p].objs
      BY <2>1, FreshTypes DEF Memory
    <2>3. job'[p].pos = job[p].pos
      BY <2>1, FreshTypes DEF Job
    <2>4. \E r \in index : r.pos = job'[p].pos
      BY <1>1, <2>3, FreshTypes DEF FreshAt
    <2> QED  BY <1>1, <2>1, <2>2, <2>4, StepWithin
  <1> QED  BY <1>2, <1>3

\* What is written after the last file of an image is gone.
LEMMA RmiHeadSaves ==
    ASSUME SingleUse, FreshInv, NEW p \in Procs, RmiHead(p)
    PROVE  Save(p, {r \in index : r.pos # job[p].pos})
  <1> DEFINE objs == mem[p].objs
             fade(q) == [q EXCEPT !.live = @ /\ q.pos # job[p].pos]
             gone == {fade(q) : q \in objs}
             T == {r \in index : r.pos # job[p].pos}
  <1>1. Save(p, Entries(gone)) /\ Working(p)
    BY DEF RmiHead, Working
  <1>2. /\ index \in SUBSET Entry /\ Live(objs) = objs
        /\ \A r \in index : \E q \in objs : r = EntryOf(q)
        /\ \A q \in objs : EntryOf(q) \in index /\ EntryOf(q).pos = q.pos
    BY <1>1, Known0
  <1>3. ASSUME NEW q \in objs
        PROVE  /\ EntryOf(fade(q)) = EntryOf(q)
               /\ fade(q).live <=> EntryOf(q) \in T
    <2>1. q.live /\ q \in ObjectIn(Manifests)
      BY <1>2, NameTypes DEF FreshInv, Live
    <2>2. EntryOf(fade(q)) = EntryOf(q)
      BY <2>1 DEF ObjectIn, EntryOf
    <2>3. fade(q).live <=> q.live /\ q.pos # job[p].pos
      BY <2>1 DEF ObjectIn
    <2> QED  BY <1>2, <2>1, <2>2, <2>3
  <1>4. \A r : r \in Entries(gone) <=> r \in T
    <2>1. \A r \in T : r \in index
      OBVIOUS
    <2> HIDE DEF fade, objs, T
    <2>2. \A r : r \in Entries(gone) <=>
                   \E q \in objs : fade(q).live /\ r = EntryOf(fade(q))
      BY DEF Entries, Live
    <2> QED  BY <1>2, <1>3, <2>1, <2>2
  <1>5. Entries(gone) = T
    BY <1>4
  <1> QED  BY <1>1, <1>5

LEMMA RmiHeadForgets ==
    ASSUME SingleUse, FreshInv, NEW p \in Procs, RmiHead(p)
    PROVE  Good(p) /\ Seen
  <1>1. pc[p] = "history" /\ Working(p) /\ UNCHANGED index
    BY DEF RmiHead, Working
  <1>2. PICK o \in index : o.pos = job[p].pos
    BY <1>1, FreshTypes DEF FreshAt
  <1>3. {r \in index : r.pos # job[p].pos} = Others(index, o.name)
    BY <1>2, FreshTypes DEF Others, Unique, Placed
  <1>4. Save(p, Others(index, o.name)) /\ o.name \in Names
    BY <1>2, <1>3, RmiHeadSaves, FreshTypes DEF Entry
  <1> QED  BY <1>1, <1>4, Forgotten

\* What is written when the newest version of an id goes from its names.
LEMMA RmiIdSaves ==
    ASSUME SingleUse, FreshInv, NEW p \in Procs, NEW id, RmiId(p, id),
           ~ Skip(p)
    PROVE  /\ Save(p, {BackTo(r, id) : r \in index \ Bare(index, id)})
           /\ \E m \in Manifests : ConfigOf[m] = id
  <1> DEFINE objs == mem[p].objs
             same == {q \in Live(objs) : q.id = id}
             bare == {q \in same : q.history = <<>>}
             dead(q) == [q EXCEPT !.live = FALSE]
             back(q) == [q EXCEPT !.digest = Last(q.history),
                                  !.history = Front(q.history)]
             new == (objs \ same) \cup {dead(q) : q \in bare}
                                  \cup {back(q) : q \in same \ bare}
  <1>1. /\ pc[p] = "ready" /\ cmd[p].left > 0 /\ Working(p)
        /\ cmd'[p].left = cmd[p].left - 1
    BY FreshTypes DEF RmiId, Running, Working
  <1>2. /\ Save(p, Entries(new)) /\ UNCHANGED index
        /\ same # {}
    BY DEF RmiId
  <1>3. /\ Live(objs) = objs /\ index \in SUBSET Entry
        /\ \A r \in index : \E q \in objs : r = EntryOf(q)
        /\ \A q \in objs : /\ EntryOf(q) \in index
                           /\ q.id = ConfigOf[EntryOf(q).digest]
    BY <1>1, Known0
  <1> DEFINE kept == {BackTo(r, id) : r \in index \ Bare(index, id)}
  <1>4. \A q \in objs : q.live /\ (q \in same <=> q.id = id)
    BY <1>3 DEF Live
  <1>5. ASSUME NEW q \in objs
        PROVE  /\ q \in bare <=> EntryOf(q) \in Bare(index, id)
               /\ q \notin same => EntryOf(q) = BackTo(EntryOf(q), id)
               /\ q \in same => EntryOf(back(q)) = BackTo(EntryOf(q), id)
               /\ back(q).live /\ ~ dead(q).live
    <2>1. q \in ObjectIn(Manifests) /\ q.live
      BY <1>4, NameTypes DEF FreshInv
    <2>2. back(q).live /\ ~ dead(q).live
      BY <2>1 DEF ObjectIn
    <2>3. EntryOf(back(q)) = [pos |-> q.pos, name |-> q.name,
                              digest |-> Last(q.history),
                              history |-> Front(q.history)]
      BY <2>1 DEF ObjectIn, EntryOf
    <2>4. /\ EntryOf(q).pos = q.pos /\ EntryOf(q).name = q.name
          /\ EntryOf(q).history = q.history
      BY DEF EntryOf
    <2>5. q.id = ConfigOf[EntryOf(q).digest] /\ EntryOf(q) \in index
      BY <1>3
    <2>6. q \in same <=> ConfigOf[EntryOf(q).digest] = id
      BY <1>4, <2>5
    <2>7. q \in bare <=> EntryOf(q) \in Bare(index, id)
      BY <2>4, <2>5, <2>6 DEF Bare
    <2>8. q \notin same => EntryOf(q) = BackTo(EntryOf(q), id)
      BY <2>6 DEF BackTo
    <2>9. q \in same => EntryOf(back(q)) = BackTo(EntryOf(q), id)
      BY <2>3, <2>4, <2>6 DEF BackTo
    <2> QED  BY <2>2, <2>7, <2>8, <2>9
  <1>6. bare \subseteq same /\ same \subseteq objs
    BY <1>3
  <1> HIDE DEF dead, back, bare, same, objs
  <1>7. \A t : t \in Live(new) <=>
                 \/ t \in objs \ same
                 \/ \E q \in same \ bare : t = back(q)
    BY <1>4, <1>5, <1>6 DEF Live
  <1> HIDE DEF new
  <1>8. ASSUME NEW r \in Entries(new) PROVE r \in kept
    <2>1. PICK t \in Live(new) : r = EntryOf(t)
      BY DEF Entries
    <2>2. CASE t \in objs \ same
      <3>1. EntryOf(t) \in index /\ EntryOf(t) \notin Bare(index, id)
        BY <1>3, <1>5, <1>6, <2>2
      <3> QED  BY <1>5, <2>1, <2>2, <3>1
    <2>3. CASE \E q \in same \ bare : t = back(q)
      <3>1. PICK q \in same \ bare : t = back(q)
        BY <2>3
      <3>2. EntryOf(q) \in index /\ EntryOf(q) \notin Bare(index, id)
        BY <1>3, <1>5, <1>6, <3>1
      <3> QED  BY <1>5, <1>6, <2>1, <3>1, <3>2
    <2> QED  BY <1>7, <2>1, <2>2, <2>3
  <1>9. ASSUME NEW r \in kept PROVE r \in Entries(new)
    <2>1. PICK s \in index \ Bare(index, id) : r = BackTo(s, id)
      OBVIOUS
    <2>2. PICK q \in objs : s = EntryOf(q)
      BY <1>3, <2>1
    <2>3. CASE q \in same
      <3>1. back(q) \in Live(new) /\ EntryOf(back(q)) = r
        BY <1>5, <1>7, <2>1, <2>2, <2>3
      <3> QED  BY <3>1 DEF Entries
    <2>4. CASE q \notin same
      <3>1. q \in Live(new) /\ EntryOf(q) = r
        BY <1>5, <1>7, <2>1, <2>2, <2>4
      <3> QED  BY <3>1 DEF Entries
    <2> QED  BY <2>3, <2>4
  <1>10. Entries(new) = kept
    BY <1>8, <1>9
  <1>11. \E m \in Manifests : ConfigOf[m] = id
    <2>1. PICK q \in same : q \in objs
      BY <1>2, <1>6
    <2>2. EntryOf(q) \in Entry /\ ConfigOf[EntryOf(q).digest] = id
      BY <1>3, <1>4, <2>1
    <2> QED  BY <2>2 DEF Entry
  <1> QED  BY <1>2, <1>10, <1>11 DEF kept

LEMMA RmiIdRetreats ==
    ASSUME SingleUse, FreshInv, NEW p \in Procs, NEW id, RmiId(p, id)
    PROVE  Good(p) /\ Seen
  <1>1. /\ pc[p] = "ready" /\ cmd[p].left > 0 /\ Working(p)
        /\ cmd'[p].left = cmd[p].left - 1
    BY FreshTypes DEF RmiId, Running, Working
  <1>2. CASE Skip(p)
    BY <1>1, <1>2, StepWithin DEF Skip
  <1>3. CASE ~ Skip(p)
    <2> DEFINE T == {BackTo(r, id) : r \in index \ Bare(index, id)}
    <2>1. /\ Save(p, T) /\ UNCHANGED index
          /\ \E m \in Manifests : ConfigOf[m] = id
      BY <1>3, RmiIdSaves DEF RmiId
    <2>2. /\ Placed(T)
          /\ CatalogOf(T) = RetreatOf(CatalogOf(index), id)
      <3>1. T = {BackTo(r, id) : r \in index \ Bare(index, id)}
        OBVIOUS
      <3> HIDE DEF T
      <3> QED  BY <3>1, FreshTypes, Retreated
    <2> HIDE DEF T
    <2>3. /\ Good(p)
          /\ versions = CatalogOf(index) /\ versions' = CatalogOf(T)
      BY <1>1, <2>1, <2>2, Known0, StepSaves
    <2>4. versions' = RetreatOf(versions, id)
      BY <2>2, <2>3
    <2>5. C!Retreat(id)
      BY <2>4, SameOperators DEF RetreatOf, C!Retreat
    <2> QED  BY <2>1, <2>3, <2>5 DEF Seen, C!Next
  <1> QED  BY <1>2, <1>3

-----------------------------------------------------------------------------
LEMMA StepSeen ==
    ASSUME SingleUse, FreshInv, NEW p \in Procs, Step(p)
    PROVE  Good(p) /\ Seen
  <1>1. ASSUME NEW op, NEW n, Open(p, op, n) PROVE Good(p) /\ Seen
    BY <1>1, StepOpens
  <1>2. CASE OpenFails(p)
    <2>1. Good(p)
      BY <1>2, FreshTypes DEF OpenFails, Good, FreshAt, Placed, Uploading
    <2>2. versions' = versions
      BY <1>2 DEF OpenFails, versions, Current
    <2> QED  BY <2>1, <2>2 DEF Seen
  <1>3. ASSUME End(p), UNCHANGED disk, pc[p] \notin {"truncate", "write"}
        PROVE  Good(p) /\ Seen
    BY <1>3, StepEnds
  <1>4. CASE Exit(p) \/ Abandon(p)
    BY <1>3, <1>4 DEF Exit, Abandon
  <1>5. CASE Crash(p)
    BY <1>5 DEF Crash, SingleUse
  <1>6. CASE Truncate(p) \/ Write(p)
    BY <1>6, StepWrites
  <1>7. ASSUME NEW ref, NEW new \in Names \cup Shorts, Tag(p, ref, new)
        PROVE  Good(p) /\ Seen
    BY <1>7, TagAliases
  <1>8. ASSUME NEW ref, RmiName(p, ref) \/ RmiId(p, ref)
        PROVE  Good(p) /\ Seen
    BY <1>8, RmiNameForgets, RmiIdRetreats
  <1>9. ASSUME NEW ref,
               RmiNameThrows(p, ref) \/ RmiIdThrows(p, ref) \/ ConfigFails(p, ref)
        PROVE  Good(p) /\ Seen
    BY <1>3, <1>9 DEF RmiNameThrows, RmiIdThrows, ConfigFails, Running
  <1>10. CASE RmiHistory(p)
    BY <1>10, RmiHistoryHidden
  <1>11. CASE RmiHead(p)
    BY <1>11, RmiHeadForgets
  <1>12. ASSUME NEW ref, NEW m,
                Build(p, ref, m) \/ Pull(p, ref, m) \/ Config(p, ref, m)
         PROVE  Good(p) /\ Seen
    <2>1. PICK todo : StartUpload(p, ref, m, todo)
                      /\ pc[p] = "ready" /\ cmd[p].left > 0
      BY <1>12 DEF Build, Pull, Config, Running
    <2>2. /\ pc'[p] \in Uploading /\ cmd'[p].left = cmd[p].left - 1
          /\ UNCHANGED <<index, mem, out>>
      BY <2>1, FreshTypes DEF StartUpload, Goto, Uploading
    <2> QED  BY <2>1, <2>2, StepWithin
  <1>13. CASE FileStep(p)
    <2>1. UNCHANGED <<index, cmd, mem, out>>
      BY <1>13, FileSteps
    <2>2. pc[p] \in Uploading
      BY <1>13 DEF FileStep, Fetch, LoseConfig, Stage, LoseBlob, Hash,
         KeepFile, Unlink, Rename, Renames, Tear, Truncates, Rewrite, Uploading
    <2>3. pc'[p] \in Uploading
      BY <1>13, FreshTypes, FileControl DEF NameInv
    <2> QED  BY <2>1, <2>2, <2>3, StepWithin
  <1>14. CASE FileGone(p)
    <2>1. pc[p] \in Uploading /\ UNCHANGED disk
      BY <1>14 DEF FileGone, Renames, Truncates, Uploading
    <2>2. CASE End(p)
      BY <1>3, <2>1, <2>2 DEF Uploading
    <2>3. CASE ~ End(p)
      <3>1. Done(p) /\ UNCHANGED <<disk, cmd, mem, out>>
        BY <1>14, <2>3, FileSteps
      <3>2. pc'[p] \in Uploading
        BY <3>1, FreshTypes DEF Done, Goto, Uploading
      <3> QED  BY <2>1, <3>1, <3>2, StepWithin
    <2> QED  BY <2>2, <2>3
  <1>15. CASE BuildRecord(p)
    BY <1>15, BuildPublishes
  <1>16. CASE PullRecord(p)
    BY <1>16, PullRefreshes
  <1>17. CASE ConfigRecord(p)
    BY <1>17, ConfigPublishes
  <1> QED
    BY <1>1, <1>2, <1>4, <1>5, <1>6, <1>7, <1>8, <1>9, <1>10, <1>11, <1>12,
       <1>13, <1>14, <1>15, <1>16, <1>17 DEF Step, FileStep

\* For one command at a time that runs to an end of its own, with one argument
\* for rmi, and names with distinct short forms, the index file, read as what
\* each name stands for, changes only by whole operations of a catalog: build
\* and config add a version, pull moves one to the front, tag copies a name,
\* rmi drops a name or takes the newest version of an id from all its names.
\* This holds also when blobs are lost, cannot be written or are torn
\* (copy.cpp Image, pullCmd, newtag, ImageStore::Delete and Save).
THEOREM StoreKeepsCatalog ==
    ASSUME SingleUse
    PROVE  Spec => CatalogSpec
  <1>1. Init => FreshInv /\ C!Init
    <2> SUFFICES ASSUME Init PROVE FreshInv /\ C!Init
      OBVIOUS
    <2>1. FreshInv
      BY InitNames DEF Init, FreshInv, FreshAt, Placed, Uploading
    <2>2. Current = {}
      BY DEF Init, Current
    <2> QED  BY <2>1, <2>2 DEF C!Init, versions
  <1>2. FreshInv /\ [Next]_vars => FreshInv' /\ [C!Next]_versions
    <2> SUFFICES ASSUME FreshInv, [Next]_vars
                 PROVE  FreshInv' /\ [C!Next]_versions
      OBVIOUS
    <2>1. CASE UNCHANGED vars
      <3>1. FreshInv'
        BY <2>1 DEF FreshInv, FreshAt, Placed, NameInv, TypeInv, TypeOK,
                    UploadOK, UploadFits, Unique
      <3>2. versions' = versions
        BY <2>1 DEF versions, Current
      <3> QED  BY <3>1, <3>2
    <2>2. ASSUME NEW p \in Procs, Step(p)
          PROVE  FreshInv' /\ [C!Next]_versions
      <3>1. NameInv'
        BY <2>2, StepTypeInv, StepNames DEF FreshInv, NameInv, SingleUse
      <3>2. Good(p) /\ Seen
        BY <2>2, StepSeen
      <3>3. \A q \in Procs : q = p
        BY DEF SingleUse, Alone
      <3> QED  BY <3>1, <3>2, <3>3 DEF FreshInv, Good, Seen
    <2> QED  BY <2>1, <2>2 DEF Next
  <1> QED  BY <1>1, <1>2, PTL DEF Spec, CatalogSpec, C!Spec
===============================================================================
