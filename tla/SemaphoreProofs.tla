--------------------------- MODULE SemaphoreProofs ---------------------------
(***************************************************************************)
(* The shares of the semaphore are accounted for, for any number of        *)
(* threads and shares and whatever is released: those that are taken are   *)
(* the sum of what the threads were told they have and have not released,  *)
(* and never more than there are; and its queue has the threads that wait. *)
(*                                                                         *)
(* The property sums with a fold of the community modules.  What a fold is *)
(* equal to is proved first, from its definition.                          *)
(***************************************************************************)
EXTENDS WeightedSemaphore, FiniteSetTheorems, WellFoundedInduction, TLAPS

-----------------------------------------------------------------------------
(* The sum of a function over a finite set.                                *)

\* The element that a fold takes first.
Pick(s) == CHOOSE x \in s : TRUE

\* What a sum of f over the sets of D is, if g is one.
Sums(D, f, g) ==
    [s \in D |-> IF s = {} THEN 0 ELSE f[Pick(s)] + g[s \ {Pick(s)}]]

IsSum(S, f, g) == g = Sums(SUBSET S, f, g)

\* A set of naturals that is not empty has a least element.
LEMMA LeastNatural ==
    ASSUME NEW T \in SUBSET Nat, T # {}
    PROVE  \E n \in T : \A k \in T : n <= k
  <1> DEFINE R == {ss \in Nat \X Nat : ss[1] < ss[2]}
  <1>1. IsWellFoundedOn(R, Nat)
    BY NatLessThanWellFounded DEF OpToRel
  <1> HIDE DEF R
  <1>2. PICK n \in T : \A k \in T : ~ (<<k, n>> \in R)
    BY <1>1, WFMin
  <1>3. \A k \in T : k \in Nat /\ n \in Nat /\ (~ (<<k, n>> \in R) => n <= k)
    BY DEF R
  <1> QED  BY <1>2, <1>3

\* Induction over the subsets of a finite set: if there are bad ones, one has
\* no bad one with an element less.
LEMMA Smallest ==
    ASSUME NEW S, IsFiniteSet(S), NEW B \in SUBSET SUBSET S, B # {}
    PROVE  \E s \in B : \A x \in s : s \ {x} \notin B
  <1> DEFINE N == {Cardinality(s) : s \in B}
  <1>1. \A s \in B : IsFiniteSet(s) /\ Cardinality(s) \in Nat
    BY FS_Subset, FS_CardinalityType
  <1>2. N \in SUBSET Nat /\ N # {}
    BY <1>1
  <1>3. PICK n \in N : \A k \in N : n <= k
    BY <1>2, LeastNatural
  <1>4. PICK s \in B : Cardinality(s) = n
    OBVIOUS
  <1>5. ASSUME NEW x \in s, s \ {x} \in B PROVE FALSE
    <2>1. Cardinality(s \ {x}) = Cardinality(s) - 1
      BY <1>1, <1>5, FS_RemoveElement
    <2>2. Cardinality(s \ {x}) \in N
      BY <1>5
    <2> HIDE DEF N
    <2>3. n <= Cardinality(s \ {x}) /\ n \in Nat
      BY <1>2, <1>3, <2>2
    <2> QED  BY <1>4, <2>1, <2>3
  <1> QED  BY <1>5

LEMMA PickIn == ASSUME NEW s, s # {} PROVE Pick(s) \in s
  BY DEF Pick

\* There is a sum of f over the subsets of S.
LEMMA SumsExist ==
    ASSUME NEW S, IsFiniteSet(S), NEW f \in [S -> Int]
    PROVE  \E g : IsSum(S, f, g)
  <1> DEFINE D(n) == {s \in SUBSET S : Cardinality(s) <= n}
             Has(n) == \E g \in [D(n) -> Int] : g = Sums(D(n), f, g)
             Bad == {n \in Nat : ~ Has(n)}
  <1>1. \A s \in SUBSET S : IsFiniteSet(s) /\ Cardinality(s) \in Nat
    BY FS_Subset, FS_CardinalityType
  <1>2. \A s \in SUBSET S : s # {} =>
           /\ Pick(s) \in s /\ s \ {Pick(s)} \in SUBSET S
           /\ Cardinality(s \ {Pick(s)}) = Cardinality(s) - 1
    BY <1>1, PickIn, FS_RemoveElement
  <1>3. Has(0)
    <2>1. \A s \in D(0) : s = {}
      <3> SUFFICES ASSUME NEW s \in D(0), s # {} PROVE FALSE
        OBVIOUS
      <3>1. s \in SUBSET S /\ Cardinality(s) = 0
        BY <1>1
      <3> QED  BY <1>1, <3>1, FS_EmptySet
    <2>2. [s \in D(0) |-> 0] = Sums(D(0), f, [s \in D(0) |-> 0])
      BY <2>1 DEF Sums
    <2>3. [s \in D(0) |-> 0] \in [D(0) -> Int]
      OBVIOUS
    <2> QED  BY <2>2, <2>3
  <1>4. ASSUME NEW n \in Nat, Has(n) PROVE Has(n + 1)
    <2>1. PICK g \in [D(n) -> Int] : g = Sums(D(n), f, g)
      BY <1>4
    <2> PICK h : h = Sums(D(n + 1), f, g)
      OBVIOUS
    <2>2. D(n) \subseteq D(n + 1)
      BY <1>1
    <2>3. \A s \in D(n + 1) : s # {} => Pick(s) \in S /\ s \ {Pick(s)} \in D(n)
      BY <1>1, <1>2
    <2>4. \A s \in D(n) : h[s] = g[s]
      <3>1. \A s \in D(n) : g[s] = Sums(D(n), f, g)[s]
        BY <2>1
      <3> HIDE DEF D
      <3> QED  BY <2>2, <3>1 DEF Sums
    <2> HIDE DEF D
    <2>5. h \in [D(n + 1) -> Int]
      BY <2>3 DEF Sums
    <2>6. h = Sums(D(n + 1), f, h)
      BY <2>3, <2>4 DEF Sums
    <2> QED  BY <2>5, <2>6
  <1>5. Bad = {}
    <2> SUFFICES ASSUME Bad # {} PROVE FALSE
      OBVIOUS
    <2>1. Bad \in SUBSET Nat
      OBVIOUS
    <2> HIDE DEF Has
    <2>2. PICK n \in Bad : \A k \in Bad : n <= k
      BY <2>1, LeastNatural
    <2>3. n # 0
      BY <1>3, <2>2
    <2>4. n - 1 \in Nat /\ n - 1 \notin Bad
      BY <2>1, <2>2, <2>3
    <2>5. Has(n - 1)
      BY <2>4
    <2>6. Has((n - 1) + 1)
      BY <1>4, <2>4, <2>5
    <2> QED  BY <2>1, <2>2, <2>6
  <1> DEFINE c == Cardinality(S)
  <1>6. c \in Nat
    BY FS_CardinalityType
  <1>7. Has(c)
    <2> HIDE DEF Has, c
    <2> QED  BY <1>5, <1>6
  <1>8. D(c) = SUBSET S
    BY FS_Subset
  <1>9. PICK g \in [D(c) -> Int] : g = Sums(D(c), f, g)
    BY <1>7
  <1> QED  BY <1>8, <1>9 DEF IsSum

\* What a sum over the subsets of S says of one of them.
LEMMA SumsAt ==
    ASSUME NEW S, NEW f, NEW g, IsSum(S, f, g), NEW s \in SUBSET S
    PROVE  /\ s = {} => g[s] = 0
           /\ s # {} => /\ Pick(s) \in s
                        /\ g[s] = f[Pick(s)] + g[s \ {Pick(s)}]
  <1>1. Sums(SUBSET S, f, g)[s] =
          IF s = {} THEN 0 ELSE f[Pick(s)] + g[s \ {Pick(s)}]
    BY DEF Sums
  <1> QED  BY <1>1, PickIn DEF IsSum

LEMMA SumsType ==
    ASSUME NEW S, IsFiniteSet(S), NEW f \in [S -> Int],
           NEW g, IsSum(S, f, g)
    PROVE  \A s \in SUBSET S : g[s] \in Int
  <1> DEFINE B == {s \in SUBSET S : g[s] \notin Int}
  <1> SUFFICES ASSUME B # {} PROVE FALSE
    OBVIOUS
  <1>1. PICK s \in B : \A x \in s : s \ {x} \notin B
    <2> HIDE DEF B
    <2>1. B \in SUBSET SUBSET S
      BY DEF B
    <2> QED  BY <2>1, Smallest
  <1>2. s \in SUBSET S /\ g[s] \notin Int
    OBVIOUS
  <1>3. \A x \in s : g[s \ {x}] \in Int
    BY <1>1
  <1> HIDE DEF B
  <1>4. s = {} => g[s] = 0
    BY <1>2, SumsAt
  <1>5. s # {} => Pick(s) \in s /\ g[s] = f[Pick(s)] + g[s \ {Pick(s)}]
    BY <1>2, SumsAt
  <1> QED  BY <1>2, <1>3, <1>4, <1>5

LEMMA SumsNatural ==
    ASSUME NEW S, IsFiniteSet(S), NEW f \in [S -> Nat],
           NEW g, IsSum(S, f, g)
    PROVE  \A s \in SUBSET S : g[s] \in Nat
  <1> DEFINE B == {s \in SUBSET S : g[s] \notin Nat}
  <1> SUFFICES ASSUME B # {} PROVE FALSE
    OBVIOUS
  <1>1. PICK s \in B : \A x \in s : s \ {x} \notin B
    <2> HIDE DEF B
    <2>1. B \in SUBSET SUBSET S
      BY DEF B
    <2> QED  BY <2>1, Smallest
  <1>2. s \in SUBSET S /\ g[s] \notin Nat
    OBVIOUS
  <1>3. \A x \in s : g[s \ {x}] \in Nat
    BY <1>1
  <1> HIDE DEF B
  <1>4. s = {} => g[s] = 0
    BY <1>2, SumsAt
  <1>5. s # {} => Pick(s) \in s /\ g[s] = f[Pick(s)] + g[s \ {Pick(s)}]
    BY <1>2, SumsAt
  <1> QED  BY <1>2, <1>3, <1>4, <1>5

\* Any element may be taken first.
LEMMA SumsTake ==
    ASSUME NEW S, IsFiniteSet(S), NEW f \in [S -> Int],
           NEW g, IsSum(S, f, g)
    PROVE  \A s \in SUBSET S : \A x \in s : g[s] = f[x] + g[s \ {x}]
  <1> DEFINE Good(s) == \A x \in s : g[s] = f[x] + g[s \ {x}]
             B == {s \in SUBSET S : ~ Good(s)}
  <1> SUFFICES ASSUME B # {} PROVE FALSE
    OBVIOUS
  <1>1. PICK s \in B : \A x \in s : s \ {x} \notin B
    <2> HIDE DEF B
    <2>1. B \in SUBSET SUBSET S
      BY DEF B
    <2> QED  BY <2>1, Smallest
  <1>2. ASSUME NEW x \in s PROVE g[s] = f[x] + g[s \ {x}]
    <2> DEFINE y == Pick(s)
    <2>1. y \in s /\ g[s] = f[y] + g[s \ {y}]
      <3>1. s \in SUBSET S /\ s # {}
        OBVIOUS
      <3> HIDE DEF B
      <3> QED  BY <3>1, SumsAt
    <2> HIDE DEF y
    <2>2. CASE x = y
      BY <2>1, <2>2
    <2>3. CASE x # y
      <3>1. Good(s \ {x}) /\ Good(s \ {y})
        BY <1>1, <2>1
      <3>2. g[s \ {y}] = f[x] + g[(s \ {y}) \ {x}]
        BY <2>3, <3>1
      <3>3. g[s \ {x}] = f[y] + g[(s \ {x}) \ {y}]
        BY <2>1, <2>3, <3>1
      <3>4. (s \ {y}) \ {x} = (s \ {x}) \ {y}
        OBVIOUS
      <3>5. g[(s \ {x}) \ {y}] \in Int /\ f[x] \in Int /\ f[y] \in Int
        BY <2>1, SumsType
      <3>6. \A c \in Int : f[y] + (f[x] + c) = f[x] + (f[y] + c)
        BY <3>5
      <3>7. g[s] = f[y] + (f[x] + g[(s \ {x}) \ {y}])
        BY <2>1, <3>2, <3>4
      <3> QED  BY <3>3, <3>5, <3>6, <3>7
    <2> QED  BY <2>2, <2>3
  <1> QED  BY <1>2

\* Where two functions agree their sums agree.
LEMMA SumsAgree ==
    ASSUME NEW S, IsFiniteSet(S), NEW x,
           NEW f \in [S -> Int], NEW g, IsSum(S, f, g),
           NEW h \in [S -> Int], NEW k, IsSum(S, h, k),
           \A y \in S : y # x => f[y] = h[y]
    PROVE  \A s \in SUBSET (S \ {x}) : g[s] = k[s]
  <1> DEFINE B == {s \in SUBSET (S \ {x}) : g[s] # k[s]}
  <1> SUFFICES ASSUME B # {} PROVE FALSE
    OBVIOUS
  <1>1. PICK s \in B : \A y \in s : s \ {y} \notin B
    <2> HIDE DEF B
    <2>1. B \in SUBSET SUBSET S
      BY DEF B
    <2> QED  BY <2>1, Smallest
  <1>2. s \in SUBSET S /\ x \notin s /\ g[s] # k[s]
    OBVIOUS
  <1>3. \A y \in s : g[s \ {y}] = k[s \ {y}]
    BY <1>1
  <1> HIDE DEF B
  <1>4. s = {} => g[s] = 0 /\ k[s] = 0
    BY <1>2, SumsAt
  <1>5. s # {} => /\ Pick(s) \in s
                  /\ g[s] = f[Pick(s)] + g[s \ {Pick(s)}]
    BY <1>2, SumsAt
  <1>6. s # {} => /\ Pick(s) \in s
                  /\ k[s] = h[Pick(s)] + k[s \ {Pick(s)}]
    BY <1>2, SumsAt
  <1> QED  BY <1>2, <1>3, <1>4, <1>5, <1>6

-----------------------------------------------------------------------------
(* The sum over the threads that SharesAccounted speaks of.                *)

Total(f) == (CHOOSE g : IsSum(Threads, f, g))[Threads]

LEMMA TotalIsFold ==
    ASSUME NEW f
    PROVE  MapThenSumSet(LAMBDA t : f[t], Threads) = Total(f)
  BY DEF Total, MapThenSumSet, MapThenFoldSet, IsSum, Sums, Pick

LEMMA TotalSums ==
    ASSUME IsFiniteSet(Threads), NEW f \in [Threads -> Int]
    PROVE  \E g : IsSum(Threads, f, g) /\ Total(f) = g[Threads]
  <1> DEFINE g == CHOOSE g : IsSum(Threads, f, g)
  <1>1. IsSum(Threads, f, g)
    BY SumsExist
  <1>2. Total(f) = g[Threads]
    BY DEF Total
  <1> QED  BY <1>1, <1>2

LEMMA TotalType ==
    ASSUME IsFiniteSet(Threads), NEW f \in [Threads -> Int]
    PROVE  Total(f) \in Int
  BY TotalSums, SumsType

LEMMA TotalNatural ==
    ASSUME IsFiniteSet(Threads), NEW f \in [Threads -> Nat]
    PROVE  Total(f) \in Nat
  <1>1. f \in [Threads -> Int]
    OBVIOUS
  <1> QED  BY <1>1, TotalSums, SumsNatural

\* One thread's share changes.
LEMMA TotalDiffers ==
    ASSUME IsFiniteSet(Threads), NEW t \in Threads,
           NEW f \in [Threads -> Int], NEW h \in [Threads -> Int],
           \A y \in Threads : y # t => f[y] = h[y]
    PROVE  Total(h) = Total(f) - f[t] + h[t]
  <1>1. PICK g : IsSum(Threads, f, g) /\ Total(f) = g[Threads]
    BY TotalSums
  <1>2. PICK k : IsSum(Threads, h, k) /\ Total(h) = k[Threads]
    BY TotalSums
  <1>3. g[Threads] = f[t] + g[Threads \ {t}]
    BY <1>1, SumsTake
  <1>4. k[Threads] = h[t] + k[Threads \ {t}]
    BY <1>2, SumsTake
  <1>5. g[Threads \ {t}] = k[Threads \ {t}]
    BY <1>1, <1>2, SumsAgree
  <1>6. g[Threads \ {t}] \in Int
    BY <1>1, SumsType
  <1> QED  BY <1>1, <1>2, <1>3, <1>4, <1>5, <1>6

LEMMA TotalUpdate ==
    ASSUME IsFiniteSet(Threads), NEW f \in [Threads -> Int],
           NEW t \in Threads, NEW v \in Int
    PROVE  Total([f EXCEPT ![t] = v]) = Total(f) - f[t] + v
  <1> DEFINE h == [f EXCEPT ![t] = v]
  <1>1. /\ h \in [Threads -> Int] /\ h[t] = v
        /\ \A y \in Threads : y # t => f[y] = h[y]
    OBVIOUS
  <1> HIDE DEF h
  <1>2. Total(h) = Total(f) - f[t] + h[t]
    BY <1>1, TotalDiffers
  <1> QED  BY <1>1, <1>2 DEF h

LEMMA TotalZero ==
    ASSUME IsFiniteSet(Threads)
    PROVE  Total([t \in Threads |-> 0]) = 0
  <1> DEFINE f == [t \in Threads |-> 0]
  <1>f. f \in [Threads -> Int] /\ \A t \in Threads : f[t] = 0
    OBVIOUS
  <1> HIDE DEF f
  <1>1. PICK g : IsSum(Threads, f, g) /\ Total(f) = g[Threads]
    BY <1>f, TotalSums
  <1> DEFINE B == {s \in SUBSET Threads : g[s] # 0}
  <1>2. B = {}
    <2> SUFFICES ASSUME B # {} PROVE FALSE
      OBVIOUS
    <2>1. PICK s \in B : \A y \in s : s \ {y} \notin B
      <3> HIDE DEF B
      <3>1. B \in SUBSET SUBSET Threads
        BY DEF B
      <3> QED  BY <3>1, Smallest
    <2>2. Pick(s) \in s /\ g[s] = f[Pick(s)] + g[s \ {Pick(s)}]
      BY <1>1, SumsAt
    <2>3. g[s \ {Pick(s)}] = 0
      BY <2>1, <2>2
    <2> QED  BY <1>f, <2>2, <2>3
  <1> QED  BY <1>1, <1>2 DEF f

-----------------------------------------------------------------------------
(* The inductive invariant.                                                *)

SemaphoreUse == IsFiniteSet(Threads) /\ Size \in Nat

Places == {"idle", "wait", "hung"} \cup Ops
CallType == [at : Places, n : Nat]

ShareInv ==
    /\ cur \in Int
    /\ calls \in [Threads -> CallType]
    /\ held \in [Threads -> Int]
    /\ cur = Total(held)
    /\ cur <= Size

LEMMA CallMoves ==
    ASSUME NEW c \in CallType, NEW s \in Places
    PROVE  [c EXCEPT !.at = s] \in CallType /\ [c EXCEPT !.at = s].at = s
  BY DEF CallType

\* A step of t that neither takes nor gives shares.
LEMMA SharesStay ==
    ASSUME ShareInv, NEW t \in Threads, UNCHANGED <<cur, held>>,
           NEW c \in CallType, calls' = [calls EXCEPT ![t] = c]
    PROVE  ShareInv'
  <1>1. calls' \in [Threads -> CallType]
    BY DEF ShareInv
  <1>2. Total(held)' = Total(held)
    BY DEF Total, IsSum, Sums
  <1> QED  BY <1>1, <1>2 DEF ShareInv

\* The shares of t become v, and what is taken changes by as much.
LEMMA SharesMove ==
    ASSUME SemaphoreUse, ShareInv, NEW t \in Threads,
           NEW v \in Int, held' = [held EXCEPT ![t] = v],
           cur' = cur - held[t] + v, cur' <= Size,
           NEW c \in CallType, calls' = [calls EXCEPT ![t] = c]
    PROVE  ShareInv'
  <1>1. held \in [Threads -> Int] /\ calls \in [Threads -> CallType]
    BY DEF ShareInv
  <1>2. Total(held)' = Total(held')
    BY DEF Total, IsSum, Sums
  <1>3. Total(held') = Total(held) - held[t] + v
    BY <1>1, TotalUpdate DEF SemaphoreUse
  <1>4. held' \in [Threads -> Int] /\ calls' \in [Threads -> CallType]
    BY <1>1 DEF ShareInv
  <1>5. cur' = Total(held') /\ cur' \in Int
    <2>1. Total(held') \in Int
      BY <1>4, TotalType DEF SemaphoreUse
    <2> QED  BY <1>3, <2>1 DEF ShareInv
  <1> QED  BY <1>2, <1>4, <1>5 DEF ShareInv

LEMMA ShareTypes ==
    ASSUME ShareInv, NEW t \in Threads
    PROVE  /\ cur \in Int /\ calls[t] \in CallType /\ held[t] \in Int
           /\ calls[t].n \in Nat /\ calls[t].at \in Places
           /\ calls' = calls => calls' = [calls EXCEPT ![t] = calls[t]]
  BY DEF ShareInv, CallType

\* Taking n shares when as many are free.
LEMMA ShareTake ==
    ASSUME SemaphoreUse, ShareInv, NEW t \in Threads, Free(calls[t].n), Take(t)
    PROVE  ShareInv'
  <1>1. NoCall \in CallType
    BY DEF NoCall, CallType, Places
  <1>2. held[t] + calls[t].n \in Int
    BY ShareTypes
  <1>3. /\ held' = [held EXCEPT ![t] = held[t] + calls[t].n]
        /\ cur' = cur + calls[t].n
        /\ calls' = [calls EXCEPT ![t] = NoCall]
    BY DEF Take, Return
  <1>4. cur' = cur - held[t] + (held[t] + calls[t].n)
    <2>1. \A a, b, c \in Int : a + c = a - b + (b + c)
      OBVIOUS
    <2>2. cur \in Int /\ held[t] \in Int /\ calls[t].n \in Int
      BY ShareTypes
    <2>3. cur + calls[t].n = cur - held[t] + (held[t] + calls[t].n)
      BY <2>1, <2>2
    <2> QED  BY <1>3, <2>3
  <1>5. cur' <= Size
    BY ShareTypes DEF Take, Free, SemaphoreUse
  <1> QED  BY <1>1, <1>2, <1>3, <1>4, <1>5, SharesMove

\* What hanging, and returning, make of a call.
LEMMA CallEnds ==
    ASSUME ShareInv, NEW t \in Threads, Hang(t) \/ Return(t)
    PROVE  \E c \in CallType : /\ calls' = [calls EXCEPT ![t] = c]
                               /\ c.at \in {"hung", "idle"}
  <1> DEFINE c == [calls[t] EXCEPT !.at = "hung"]
  <1>1. c \in CallType /\ c.at = "hung"
    BY ShareTypes, CallMoves DEF Places
  <1>2. NoCall \in CallType /\ NoCall.at = "idle"
    BY DEF NoCall, CallType, Places
  <1>3. Hang(t) => calls' = [calls EXCEPT ![t] = c]
    BY DEF Hang
  <1> HIDE DEF c
  <1> QED  BY <1>1, <1>2, <1>3 DEF Return

LEMMA ShareInductive ==
    ASSUME SemaphoreUse, ShareInv, [Next]_vars
    PROVE  ShareInv'
  <1>1. CASE UNCHANGED vars
    BY <1>1 DEF vars, ShareInv, Total, IsSum, Sums
  <1>2. ASSUME NEW t \in Threads, NEW op \in Ops, NEW n \in 1..Size + 1,
               Call(t, op, n)
        PROVE  ShareInv'
    <2>1. [at |-> op, n |-> n] \in CallType
      BY DEF CallType, Places, SemaphoreUse
    <2> QED  BY <1>2, <2>1, SharesStay DEF Call
  <1>3. ASSUME NEW t \in Threads, Acquire(t) PROVE ShareInv'
    <2>1. CASE Free(calls[t].n) /\ Take(t)
      BY <2>1, ShareTake
    <2>2. CASE Return(t) /\ UNCHANGED <<cur, held>>
      BY <2>2, CallEnds, SharesStay
    <2>3. CASE calls' = [calls EXCEPT ![t].at = "wait"] /\ UNCHANGED <<cur, held>>
      <3> DEFINE c == [calls[t] EXCEPT !.at = "wait"]
      <3>1. c \in CallType /\ c.at = "wait"
        BY ShareTypes, CallMoves DEF Places
      <3>2. calls' = [calls EXCEPT ![t] = c]
        BY <2>3
      <3> HIDE DEF c
      <3> QED  BY <2>3, <3>1, <3>2, SharesStay
    <2> QED  BY <1>3, <2>1, <2>2, <2>3 DEF Acquire
  <1>4. ASSUME NEW t \in Threads, GiveUp(t) PROVE ShareInv'
    <2>1. UNCHANGED <<cur, held>> /\ (Hang(t) \/ Return(t))
      BY <1>4 DEF GiveUp
    <2> QED  BY <2>1, CallEnds, SharesStay
  <1>5. ASSUME NEW t \in Threads, Release(t) PROVE ShareInv'
    <2>1. /\ cur' = cur - calls[t].n
          /\ held' = [held EXCEPT ![t] = held[t] - calls[t].n]
          /\ Hang(t) \/ Return(t)
      BY <1>5 DEF Release
    <2>2. /\ held[t] - calls[t].n \in Int
          /\ cur' = cur - held[t] + (held[t] - calls[t].n)
          /\ cur' <= Size
      BY <2>1, ShareTypes DEF ShareInv, SemaphoreUse
    <2> QED  BY <2>1, <2>2, CallEnds, SharesMove
  <1>6. ASSUME NEW t \in Threads, TryAcquire(t) PROVE ShareInv'
    <2>1. CASE Free(calls[t].n) /\ Take(t)
      BY <2>1, ShareTake
    <2>2. CASE Return(t) /\ UNCHANGED <<cur, held>>
      BY <2>2, CallEnds, SharesStay
    <2> QED  BY <1>6, <2>1, <2>2 DEF TryAcquire
  <1> QED  BY <1>1, <1>2, <1>3, <1>4, <1>5, <1>6 DEF Next, Step

LEMMA ShareInit == ASSUME SemaphoreUse, Init PROVE ShareInv
  <1>1. Total(held) = 0
    BY TotalZero DEF Init, SemaphoreUse
  <1> QED
    BY <1>1 DEF Init, ShareInv, SemaphoreUse, NoCall, CallType, Places

-----------------------------------------------------------------------------
(* Callers that release only what they have.                               *)

\* Who is in Release has what it gives back: nothing takes shares from a
\* thread while it is in a call.
HolderInv ==
    \A t \in Threads :
        /\ held[t] >= 0
        /\ calls[t].at = "Release" => calls[t].n <= held[t]

\* A step that changes the call and the shares of t only.
LEMMA HoldersStay ==
    ASSUME ShareInv, HolderInv, NEW t \in Threads, NEW v \in Nat,
           held' = [held EXCEPT ![t] = v],
           NEW c \in CallType, calls' = [calls EXCEPT ![t] = c],
           c.at = "Release" => c.n <= v
    PROVE  HolderInv'
  BY DEF ShareInv, HolderInv

LEMMA HolderInductive ==
    ASSUME SemaphoreUse, MaxOver = 0, ShareInv, HolderInv, [Next]_vars
    PROVE  HolderInv'
  <1>n. NoCall \in CallType /\ NoCall.at = "idle"
    BY DEF NoCall, CallType, Places
  <1>h. \A t \in Threads : held[t] \in Nat /\ held = [held EXCEPT ![t] = held[t]]
    BY DEF ShareInv, HolderInv
  <1>1. CASE UNCHANGED vars
    BY <1>1 DEF vars, HolderInv
  <1>2. ASSUME NEW t \in Threads, NEW op \in Ops, NEW n \in 1..Size + 1,
               Call(t, op, n)
        PROVE  HolderInv'
    <2> DEFINE c == [at |-> op, n |-> n]
    <2>1. c \in CallType /\ c.at = op /\ c.n = n
      BY DEF CallType, Places, SemaphoreUse
    <2> HIDE DEF c
    <2>2. calls' = [calls EXCEPT ![t] = c] /\ held' = held
      BY <1>2 DEF Call, c
    <2>3. c.at = "Release" => c.n <= held[t]
      BY <1>2, <1>h, <2>1 DEF Call
    <2> QED  BY <1>h, <2>1, <2>2, <2>3, HoldersStay
  <1>3. ASSUME NEW t \in Threads, Take(t) PROVE HolderInv'
    <2>1. held[t] + calls[t].n \in Nat
      BY <1>h, ShareTypes
    <2> QED  BY <1>3, <1>n, <2>1, HoldersStay DEF Take, Return
  <1>4. ASSUME NEW t \in Threads, held' = held, Hang(t) \/ Return(t)
        PROVE  HolderInv'
    <2>1. PICK c \in CallType : /\ calls' = [calls EXCEPT ![t] = c]
                                /\ c.at \in {"hung", "idle"}
      BY <1>4, CallEnds
    <2> QED  BY <1>4, <1>h, <2>1, HoldersStay
  <1>5. ASSUME NEW t \in Threads, Acquire(t) PROVE HolderInv'
    <2>1. CASE calls' = [calls EXCEPT ![t].at = "wait"] /\ held' = held
      <3> DEFINE c == [calls[t] EXCEPT !.at = "wait"]
      <3>1. c \in CallType /\ c.at = "wait"
        BY ShareTypes, CallMoves DEF Places
      <3>2. calls' = [calls EXCEPT ![t] = c]
        BY <2>1
      <3> HIDE DEF c
      <3> QED  BY <1>h, <2>1, <3>1, <3>2, HoldersStay
    <2> QED  BY <1>3, <1>4, <1>5, <2>1 DEF Acquire
  <1>6. ASSUME NEW t \in Threads, GiveUp(t) PROVE HolderInv'
    BY <1>4, <1>6 DEF GiveUp
  <1>7. ASSUME NEW t \in Threads, Release(t) PROVE HolderInv'
    <2>1. /\ held' = [held EXCEPT ![t] = held[t] - calls[t].n]
          /\ calls[t].at = "Release" /\ (Hang(t) \/ Return(t))
      BY <1>7 DEF Release, At
    <2>2. held[t] - calls[t].n \in Nat
      BY <1>h, <2>1, ShareTypes DEF HolderInv
    <2>3. PICK c \in CallType : /\ calls' = [calls EXCEPT ![t] = c]
                                /\ c.at \in {"hung", "idle"}
      BY <2>1, CallEnds
    <2> QED  BY <2>1, <2>2, <2>3, HoldersStay
  <1>8. ASSUME NEW t \in Threads, TryAcquire(t) PROVE HolderInv'
    BY <1>3, <1>4, <1>8 DEF TryAcquire
  <1> QED  BY <1>1, <1>2, <1>5, <1>6, <1>7, <1>8 DEF Next, Step

LEMMA HolderInit == ASSUME Init PROVE HolderInv
  BY DEF Init, HolderInv, NoCall

LEMMA HoldersCount ==
    ASSUME SemaphoreUse, ShareInv, HolderInv PROVE cur \in 0..Size
  <1>1. held \in [Threads -> Nat]
    BY DEF ShareInv, HolderInv
  <1>2. cur \in Nat
    BY <1>1, TotalNatural DEF ShareInv, SemaphoreUse
  <1> QED  BY <1>2 DEF ShareInv, SemaphoreUse

-----------------------------------------------------------------------------
(* The queue of waiters.                                                   *)

Waiting == {t \in Threads : calls[t].at = "wait"}

QueueInv == waiters \in Seq(Threads) /\ WaitersQueued

LEMMA Members ==
    ASSUME NEW w \in Seq(Threads)
    PROVE  /\ ToSet(w) = {w[i] : i \in 1..Len(w)} /\ Len(w) \in Nat
           /\ DOMAIN w = 1..Len(w)
           /\ IsInjective(w) <=> \A i, j \in 1..Len(w) : w[i] = w[j] => i = j
  BY DEF ToSet, IsInjective

\* A queue that somebody joins who is not in it.
LEMMA Joined ==
    ASSUME NEW w \in Seq(Threads), IsInjective(w), NEW t \in Threads \ ToSet(w)
    PROVE  /\ Append(w, t) \in Seq(Threads)
           /\ ToSet(Append(w, t)) = ToSet(w) \cup {t}
           /\ IsInjective(Append(w, t))
  <1> DEFINE n == Len(w)
             v == Append(w, t)
  <1>1. n \in Nat /\ v \in Seq(Threads) /\ Len(v) = n + 1
    OBVIOUS
  <1>2. \A i \in 1..n : v[i] = w[i]
    OBVIOUS
  <1>3. v[n + 1] = t
    OBVIOUS
  <1>4. 1..(n + 1) = 1..n \cup {n + 1}
    BY <1>1
  <1>5. \A i \in 1..n : w[i] # t
    BY Members
  <1> HIDE DEF v, n
  <1>6. ToSet(v) = ToSet(w) \cup {t}
    <2>1. ToSet(v) = {v[i] : i \in 1..(n + 1)} /\ ToSet(w) = {w[i] : i \in 1..n}
      BY <1>1, Members DEF n
    <2> QED  BY <1>2, <1>3, <1>4, <2>1
  <1>7. IsInjective(v)
    <2>1. \A i, j \in 1..n : w[i] = w[j] => i = j
      BY Members DEF n
    <2>2. \A i, j \in 1..(n + 1) : v[i] = v[j] => i = j
      BY <1>2, <1>3, <1>4, <1>5, <2>1
    <2> QED  BY <1>1, <2>2, Members
  <1> QED  BY <1>1, <1>6, <1>7 DEF v

LEMMA Both ==
    ASSUME NEW v \in Seq(Threads), NEW w \in Seq(Threads)
    PROVE  /\ v \o w \in Seq(Threads) /\ Len(v \o w) = Len(v) + Len(w)
           /\ \A i \in 1..Len(v \o w) :
                 (v \o w)[i] = IF i <= Len(v) THEN v[i] ELSE w[i - Len(v)]
  OBVIOUS

\* A queue without the entry at i.
LEMMA Left ==
    ASSUME NEW w \in Seq(Threads), IsInjective(w), NEW i \in 1..Len(w)
    PROVE  /\ RemoveAt(w, i) \in Seq(Threads)
           /\ ToSet(RemoveAt(w, i)) = ToSet(w) \ {w[i]}
           /\ IsInjective(RemoveAt(w, i))
  <1> DEFINE n == Len(w)
             v == RemoveAt(w, i)
  <1>1. /\ n \in Nat /\ i \in 1..n /\ v \in Seq(Threads) /\ Len(v) = n - 1
        /\ \A j \in 1..(n - 1) : v[j] = IF j < i THEN w[j] ELSE w[j + 1]
    <2> DEFINE a == SubSeq(w, 1, i - 1)
               b == SubSeq(w, i + 1, n)
    <2>1. n \in Nat /\ i \in 1..n
      OBVIOUS
    <2>2. /\ a \in Seq(Threads) /\ Len(a) = i - 1
          /\ \A j \in 1..(i - 1) : a[j] = w[j]
      OBVIOUS
    <2>3. /\ b \in Seq(Threads) /\ Len(b) = n - i
          /\ \A j \in 1..(n - i) : b[j] = w[i + j]
      OBVIOUS
    <2>4. v = a \o b
      BY DEF RemoveAt
    <2> HIDE DEF a, b, v, n
    <2>5. /\ v \in Seq(Threads) /\ Len(v) = (i - 1) + (n - i)
          /\ \A j \in 1..Len(v) : v[j] = IF j <= i - 1 THEN a[j] ELSE b[j - (i - 1)]
      BY <2>2, <2>3, <2>4, Both
    <2>6. Len(v) = n - 1
      BY <2>1, <2>5
    <2>7. ASSUME NEW j \in 1..(n - 1)
          PROVE  v[j] = IF j < i THEN w[j] ELSE w[j + 1]
      <3>1. CASE j < i
        <4>1. j \in 1..(i - 1) /\ j <= i - 1
          BY <2>1, <3>1
        <4> QED  BY <2>2, <2>5, <2>6, <3>1, <4>1
      <3>2. CASE ~(j < i)
        <4>1. j - (i - 1) \in 1..(n - i) /\ ~(j <= i - 1) /\ i + (j - (i - 1)) = j + 1
          BY <2>1, <3>2
        <4>2. b[j - (i - 1)] = w[i + (j - (i - 1))]
          BY <2>3, <4>1
        <4> QED  BY <2>5, <2>6, <3>2, <4>1, <4>2
      <3> QED  BY <3>1, <3>2
    <2> QED  BY <2>1, <2>5, <2>6, <2>7
  <1> HIDE DEF v, n
  <1>2. \A j, k \in 1..n : w[j] = w[k] => j = k
    BY Members DEF n
  <1>3. ToSet(v) = {v[j] : j \in 1..(n - 1)} /\ ToSet(w) = {w[j] : j \in 1..n}
    BY <1>1, Members DEF n
  <1>4. ASSUME NEW x \in ToSet(v) PROVE x \in ToSet(w) \ {w[i]}
    <2>1. PICK j \in 1..(n - 1) : x = v[j]
      BY <1>3
    <2>2. CASE j < i
      BY <1>1, <1>2, <1>3, <2>1, <2>2
    <2>3. CASE ~(j < i)
      <3>1. j + 1 \in 1..n /\ j + 1 # i /\ x = w[j + 1]
        BY <1>1, <2>1, <2>3
      <3> QED  BY <1>1, <1>2, <1>3, <3>1
    <2> QED  BY <2>2, <2>3
  <1>5. ASSUME NEW x \in ToSet(w) \ {w[i]} PROVE x \in ToSet(v)
    <2>1. PICK k \in 1..n : x = w[k] /\ k # i
      BY <1>3
    <2>2. CASE k < i
      <3>1. k \in 1..(n - 1) /\ v[k] = w[k]
        BY <1>1, <2>2
      <3> QED  BY <1>3, <2>1, <3>1
    <2>3. CASE i < k
      <3>1. k - 1 \in 1..(n - 1) /\ ~(k - 1 < i) /\ (k - 1) + 1 = k
        BY <1>1, <2>3
      <3>2. v[k - 1] = w[k]
        BY <1>1, <3>1
      <3> QED  BY <1>3, <2>1, <3>1, <3>2
    <2> QED  BY <1>1, <2>1, <2>2, <2>3
  <1>6. \A j, k \in 1..(n - 1) : v[j] = v[k] => j = k
    <2> SUFFICES ASSUME NEW j \in 1..(n - 1), NEW k \in 1..(n - 1), v[j] = v[k]
                 PROVE  j = k
      OBVIOUS
    <2> DEFINE at(l) == IF l < i THEN l ELSE l + 1
    <2>1. \A l \in 1..(n - 1) : at(l) \in 1..n /\ v[l] = w[at(l)]
      BY <1>1
    <2>2. at(j) = at(k)
      BY <1>2, <2>1
    <2> QED  BY <1>1, <2>2
  <1>7. IsInjective(v)
    BY <1>1, <1>6, Members
  <1> QED  BY <1>1, <1>4, <1>5, <1>7 DEF v

\* A step of t outside the queue: it waits neither before nor after.
LEMMA QueueStay ==
    ASSUME ShareInv, QueueInv, NEW t \in Threads, UNCHANGED waiters,
           calls[t].at # "wait",
           NEW c \in CallType, calls' = [calls EXCEPT ![t] = c], c.at # "wait"
    PROVE  QueueInv'
  <1>1. Waiting' = Waiting
    BY DEF ShareInv, Waiting
  <1> QED  BY <1>1 DEF QueueInv, WaitersQueued, Waiting

LEMMA QueueInductive ==
    ASSUME SemaphoreUse, ShareInv, QueueInv, [Next]_vars
    PROVE  QueueInv'
  <1>n. NoCall \in CallType /\ NoCall.at = "idle"
    BY DEF NoCall, CallType, Places
  <1>1. CASE UNCHANGED vars
    BY <1>1 DEF vars, QueueInv, WaitersQueued
  <1>2. ASSUME NEW t \in Threads, NEW op \in Ops, NEW n \in 1..Size + 1,
               Call(t, op, n)
        PROVE  QueueInv'
    <2>1. [at |-> op, n |-> n] \in CallType /\ op # "wait"
      BY DEF CallType, Places, Ops
    <2> QED  BY <1>2, <2>1, QueueStay DEF Call
  <1>3. ASSUME NEW t \in Threads, calls[t].at # "wait", UNCHANGED waiters,
               Take(t) \/ Return(t)
        PROVE  QueueInv'
    BY <1>n, <1>3, QueueStay DEF Take, Return
  <1>4. ASSUME NEW t \in Threads, Acquire(t) PROVE QueueInv'
    <2>1. calls[t].at = "Acquire" /\ calls[t] \in CallType
      BY <1>4, ShareTypes DEF Acquire, At
    <2>2. CASE waiters' = Append(waiters, t) /\ calls' = [calls EXCEPT ![t].at = "wait"]
      <3>1. t \in Threads \ ToSet(waiters)
        BY <2>1 DEF QueueInv, WaitersQueued
      <3>2. Waiting' = Waiting \cup {t}
        BY <2>1, <2>2 DEF Waiting, ShareInv, CallType
      <3> QED  BY <2>2, <3>1, <3>2, Joined DEF QueueInv, WaitersQueued, Waiting
    <2> QED  BY <1>3, <1>4, <2>1, <2>2 DEF Acquire
  <1>5. ASSUME NEW t \in Threads, GiveUp(t) PROVE QueueInv'
    <2>1. PICK elem \in DOMAIN waiters :
            /\ waiters[elem] = t /\ waiters' = RemoveAt(waiters, elem)
            /\ Hang(t) \/ Return(t)
      BY <1>5 DEF GiveUp
    <2>2. elem \in 1..Len(waiters)
      BY <2>1 DEF QueueInv
    <2>3. /\ waiters' \in Seq(Threads) /\ IsInjective(waiters')
          /\ ToSet(waiters') = ToSet(waiters) \ {t}
      BY <2>1, <2>2, Left DEF QueueInv, WaitersQueued
    <2>4. Waiting' = Waiting \ {t}
      <3>1. \A u \in Threads : u # t => calls'[u] = calls[u]
        BY <2>1 DEF Hang, Return, ShareInv
      <3>2. calls'[t].at \in {"hung", "idle"}
        BY <1>n, <2>1, ShareTypes DEF Hang, Return, ShareInv, CallType
      <3> QED  BY <3>1, <3>2 DEF Waiting
    <2> QED  BY <2>3, <2>4 DEF QueueInv, WaitersQueued, Waiting
  <1>6. ASSUME NEW t \in Threads, TryAcquire(t) PROVE QueueInv'
    BY <1>3, <1>6 DEF TryAcquire, At
  <1>7. ASSUME NEW t \in Threads, Release(t) PROVE QueueInv'
    <2>1. calls[t].at = "Release" /\ UNCHANGED waiters /\ (Hang(t) \/ Return(t))
      BY <1>7 DEF Release, At
    <2>2. PICK c \in CallType : /\ calls' = [calls EXCEPT ![t] = c]
                                /\ c.at \in {"hung", "idle"}
      BY <2>1, CallEnds
    <2> QED  BY <2>1, <2>2, QueueStay
  <1> QED  BY <1>1, <1>2, <1>4, <1>5, <1>6, <1>7 DEF Next, Step

LEMMA QueueInit == ASSUME Init PROVE QueueInv
  <1>1. waiters = <<>> /\ \A t \in Threads : calls[t].at = "idle"
    BY DEF Init, NoCall
  <1>2. waiters \in Seq(Threads) /\ Len(waiters) = 0
    BY <1>1
  <1>3. 1..Len(waiters) = {}
    BY <1>2
  <1>4. ToSet(waiters) = {} /\ IsInjective(waiters)
    BY <1>2, <1>3, Members
  <1> QED  BY <1>1, <1>2, <1>4 DEF QueueInv, WaitersQueued

-----------------------------------------------------------------------------
\* Whatever calls interleave, time out, throw or hang, the shares that are
\* taken are those the threads were told they have and have not released, and
\* never more than there are (semaphore.cpp:19-72, 112-128).
THEOREM SharesAlwaysAccounted == ASSUME SemaphoreUse PROVE Spec => []SharesAccounted
  <1>1. ShareInv => SharesAccounted
    BY TotalIsFold DEF ShareInv, SharesAccounted
  <1> QED  BY ShareInit, ShareInductive, <1>1, PTL DEF Spec

\* Whatever calls interleave and give up: the queue has the threads that wait,
\* each once, so that nobody who has left it blocks the calls after him
\* (semaphore.cpp:43-61).
THEOREM QueueHasWaiters == ASSUME SemaphoreUse PROVE Spec => []WaitersQueued
  <1>1. QueueInv => WaitersQueued
    BY DEF QueueInv
  <1> QED
    BY ShareInit, ShareInductive, QueueInit, QueueInductive, <1>1, PTL DEF Spec

\* The count of a semaphore is never below zero, so that the exception of
\* Release does not occur, if each thread releases what it has and no more:
\* shares it was told it does not have are nowhere (semaphore.cpp:116-123).
THEOREM CountInRange ==
    ASSUME SemaphoreUse, MaxOver = 0 PROVE Spec => [](cur \in 0..Size)
  <1>1. Init => ShareInv /\ HolderInv
    BY ShareInit, HolderInit
  <1>2. ShareInv /\ HolderInv /\ [Next]_vars => (ShareInv /\ HolderInv)'
    BY ShareInductive, HolderInductive
  <1>3. ShareInv /\ HolderInv => cur \in 0..Size
    BY HoldersCount
  <1> QED  BY <1>1, <1>2, <1>3, PTL DEF Spec
=============================================================================
