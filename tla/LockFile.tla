------------------------------ MODULE LockFile ------------------------------
(***************************************************************************)
(* The lock files of the stores: every command locks storage.lock while    *)
(* the graph driver is created, and containers.lock when it opens the      *)
(* container store, which it never unlocks.                                *)
(*                                                                         *)
(* A lock file object counts its users in the process.  The first of them  *)
(* takes the lock of the operating system on the file, in lockHandle,      *)
(* which gives it back before it returns.                                  *)
(***************************************************************************)
EXTENDS Naturals

CONSTANTS
    Commands,   \* processes, each of which runs one command
    None

VARIABLES
    pc,         \* where each command stands
    owner,      \* the process that has the lock of each file
    counter     \* the users that each process's object for each file has

vars == <<pc, owner, counter>>

Files == {"graph", "containers"}

Init ==
    /\ pc = [c \in Commands |-> "start"]
    /\ owner = [f \in Files |-> None]
    /\ counter = [c \in Commands |-> [f \in Files |-> 0]]

Goto(c, s) == pc' = [pc EXCEPT ![c] = s]

\* Where lock of a file is called, and where it goes on.
Wants == [graph |-> "start", containers |-> "driver"]
Inside == [graph |-> "graph", containers |-> "containers"]
Locked == [graph |-> "loading", containers |-> "open"]

-----------------------------------------------------------------------------
\* lock, up to the call that waits for the file (counter is 0: each command
\* locks each file once).
Enter(c, f) ==
    /\ pc[c] = Wants[f]
    /\ counter[c][f] = 0
    /\ owner[f] = None
    /\ owner' = [owner EXCEPT ![f] = c]
    /\ Goto(c, Inside[f])
    /\ UNCHANGED counter

\* Mutant: the lock is kept until Unlock.
LeaveLocked(c, f) ==
    /\ pc[c] = Inside[f]
    /\ counter' = [counter EXCEPT ![c][f] = @ + 1]
    /\ Goto(c, Locked[f])
    /\ UNCHANGED owner

\* The rest of lockHandle and of lock.
Leave(c, f) ==
    /\ pc[c] = Inside[f]
    /\ owner' = [owner EXCEPT ![f] = None]
    /\ counter' = [counter EXCEPT ![c][f] = @ + 1]
    /\ Goto(c, Locked[f])

\* load: the driver is there, and graph_lock is unlocked.
Loaded(c) ==
    /\ pc[c] = "loading"
    /\ counter' = [counter EXCEPT ![c].graph = @ - 1]
    /\ Goto(c, "driver")
    /\ UNCHANGED owner

\* The command returns, an exception is thrown at any point, or the process
\* is killed: the operating system frees what the process had locked.
End(c) ==
    /\ pc[c] # "ended"
    /\ owner' = [f \in Files |-> IF owner[f] = c THEN None ELSE owner[f]]
    /\ counter' = [counter EXCEPT ![c] = [f \in Files |-> 0]]
    /\ Goto(c, "ended")

-----------------------------------------------------------------------------
Step(c) == Loaded(c) \/ \E f \in Files : Enter(c, f) \/ Leave(c, f)

Next == \E c \in Commands : Step(c) \/ End(c)

\* A process that is not dead runs on.  How long a command works once the
\* stores are open, nothing says: it may take for ever.
Fairness == \A c \in Commands : WF_vars(Step(c))

Spec == Init /\ [][Next]_vars /\ Fairness

-----------------------------------------------------------------------------
\* Every command gets its stores opened, whatever the others do with theirs
\* and wherever they die or throw, although containers.lock is never
\* unlocked and graph_lock is not when the driver throws
\* (storage.cpp:927, 1038-1051).
OpenEnds == \A c \in Commands : <>(pc[c] \in {"open", "ended"})

\* Who has locked a file is inside lockHandle, and who is there has locked it:
\* one command at a time, and one that waits for nothing.  So no command
\* waits for another that waits, and none that has ended, thrown or died is
\* waited for (lockfile.cpp:47-75, 150-181).
OwnersInside ==
    \A f \in Files, c \in Commands : owner[f] = c <=> pc[c] = Inside[f]

\* "A write lock is exclusive" (lockfile.cpp:149, in Chinese there): between
\* Lock and Unlock of a file no other process is between them.
WritersExclude ==
    \A f \in Files, c, d \in Commands :
        c # d => counter[c][f] = 0 \/ counter[d][f] = 0
=============================================================================
