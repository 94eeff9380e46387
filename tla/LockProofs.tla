----------------------------- MODULE LockProofs -----------------------------
(***************************************************************************)
(* No command waits for one that waits, however many open the stores and   *)
(* wherever they end: who has a file is inside lockHandle.                 *)
(***************************************************************************)
EXTENDS LockFile, TLAPS

LockUse == None \notin Commands

\* Of each file and command, whether the command has the file is told by
\* where it stands.
LockInv ==
    /\ pc \in [Commands -> {"start", "graph", "loading", "driver",
                            "containers", "open", "ended"}]
    /\ owner \in [Files -> Commands \cup {None}]
    /\ OwnersInside

LEMMA Places ==
    ASSUME NEW f \in Files
    PROVE  /\ Inside[f] \in {"graph", "containers"}
           /\ Wants[f] \in {"start", "driver"}
           /\ Locked[f] \in {"loading", "open"}
           /\ \A g \in Files : Inside[f] = Inside[g] => f = g
  BY DEF Files, Inside, Wants, Locked

\* What a command does that neither takes nor gives back a file, and that is
\* inside lockHandle neither before nor after it.
LEMMA LockStay ==
    ASSUME LockInv, NEW c \in Commands, UNCHANGED owner,
           NEW s \in {"start", "loading", "driver", "open", "ended"}, Goto(c, s),
           pc[c] \notin {"graph", "containers"}
    PROVE  LockInv'
  <1>1. \A f \in Files : owner[f] # c
    BY Places DEF LockInv, OwnersInside
  <1>2. \A f \in Files, d \in Commands : owner[f] = d <=> pc'[d] = Inside[f]
    BY <1>1, Places DEF LockInv, OwnersInside, Goto
  <1> QED  BY <1>2 DEF LockInv, OwnersInside, Goto

LEMMA LockInductive ==
    ASSUME LockUse, LockInv, [Next]_vars
    PROVE  LockInv'
  <1>1. CASE UNCHANGED vars
    BY <1>1 DEF vars, LockInv, OwnersInside
  <1>2. ASSUME NEW c \in Commands, NEW f \in Files, Enter(c, f) PROVE LockInv'
    <2>1. \A g \in Files : owner[g] # c
      BY <1>2, Places DEF LockInv, OwnersInside, Enter
    <2>2. \A d \in Commands : pc[d] # Inside[f]
      BY <1>2 DEF LockInv, OwnersInside, Enter, LockUse
    <2>3. /\ owner' = [owner EXCEPT ![f] = c] /\ Inside[f] \in {"graph", "containers"}
          /\ pc' = [pc EXCEPT ![c] = Inside[f]]
      BY <1>2, Places DEF Enter, Goto
    <2>4. \A g \in Files, d \in Commands : owner'[g] = d <=> pc'[d] = Inside[g]
      BY <2>1, <2>2, <2>3, Places DEF LockInv, OwnersInside
    <2> QED  BY <2>3, <2>4 DEF LockInv, OwnersInside
  <1>3. ASSUME NEW c \in Commands, NEW f \in Files, Leave(c, f) PROVE LockInv'
    <2>1. owner[f] = c /\ \A g \in Files : owner[g] = c => g = f
      BY <1>3, Places DEF LockInv, OwnersInside, Leave
    <2>2. \A d \in Commands : pc[d] = Inside[f] => d = c
      BY <2>1 DEF LockInv, OwnersInside
    <2>3. /\ owner' = [owner EXCEPT ![f] = None] /\ Locked[f] \in {"loading", "open"}
          /\ pc' = [pc EXCEPT ![c] = Locked[f]]
      BY <1>3, Places DEF Leave, Goto
    <2>4. \A g \in Files, d \in Commands : owner'[g] = d <=> pc'[d] = Inside[g]
      BY <2>1, <2>2, <2>3, Places DEF LockInv, OwnersInside, LockUse
    <2> QED  BY <2>3, <2>4 DEF LockInv, OwnersInside
  <1>4. ASSUME NEW c \in Commands, Loaded(c) PROVE LockInv'
    BY <1>4, LockStay DEF Loaded
  <1>5. ASSUME NEW c \in Commands, End(c) PROVE LockInv'
    <2>1. /\ owner' = [f \in Files |-> IF owner[f] = c THEN None ELSE owner[f]]
          /\ pc' = [pc EXCEPT ![c] = "ended"]
      BY <1>5 DEF End, Goto
    <2>2. \A g \in Files, d \in Commands : owner'[g] = d <=> pc'[d] = Inside[g]
      BY <2>1, Places DEF LockInv, OwnersInside, LockUse
    <2> QED  BY <2>1, <2>2 DEF LockInv, OwnersInside
  <1> QED  BY <1>1, <1>2, <1>3, <1>4, <1>5 DEF Next, Step

LEMMA LockInit == ASSUME LockUse, Init PROVE LockInv
  BY Places DEF Init, LockInv, OwnersInside, LockUse

\* Whatever commands open the stores at once, die or throw: the lock of a file
\* is with the one command that is inside lockHandle, or with none, so that
\* nobody who is waited for waits himself (lockfile.cpp:47-75).
THEOREM OwnersAlwaysInside == ASSUME LockUse PROVE Spec => []OwnersInside
  <1>2. LockInv => OwnersInside
    BY DEF LockInv
  <1> QED  BY LockInit, LockInductive, <1>2, PTL DEF Spec

\* A command that waits for a file of the stores waits for one that is about
\* to give it back: it has no file itself, and no command it waits for is
\* outside lockHandle (storage.cpp:924-948, lockfile.cpp:47-75).
THEOREM NobodyHoldsAndWaits ==
    ASSUME LockUse
    PROVE  Spec => [](\A f, g \in Files, c \in Commands :
                        pc[c] = Wants[f] => owner[g] # c)
  <1>1. OwnersInside => \A f, g \in Files, c \in Commands :
                           pc[c] = Wants[f] => owner[g] # c
    BY Places DEF OwnersInside
  <1> QED  BY OwnersAlwaysInside, <1>1, PTL
=============================================================================
