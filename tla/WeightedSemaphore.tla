------------------------- MODULE WeightedSemaphore -------------------------
(***************************************************************************)
(* The weighted semaphore that counts the jobs of a build: threads acquire *)
(* and release shares of it.                                               *)
(*                                                                         *)
(* Each call locks mu, so its critical section is one step.  A call whose  *)
(* critical section comes to notifyWaiters locks mu again there: the       *)
(* thread waits for itself, and mu stays locked for ever.                  *)
(***************************************************************************)
EXTENDS Integers, FiniteSetsExt, SequencesExt

CONSTANTS
    Threads,
    Size,       \* size: the shares there are
    MaxOver,    \* bound: shares a thread releases beyond those it has
    None        \* no thread

VARIABLES
    cur,        \* shares that are taken; below zero after an exception
    mu,         \* the thread that has mu locked between two steps
    waiters,    \* threads that wait for shares, the first come first
    calls,      \* where each thread stands, and the n of its call
    held        \* shares each thread was told it has, less those it released

vars == <<cur, mu, waiters, calls, held>>

Ops == {"Acquire", "TryAcquire", "Release"}
NoCall == [at |-> "idle", n |-> 0]

Init ==
    /\ cur = 0
    /\ mu = None
    /\ waiters = <<>>
    /\ calls = [t \in Threads |-> NoCall]
    /\ held = [t \in Threads |-> 0]

-----------------------------------------------------------------------------
\* Nothing keeps a caller from releasing what it never acquired (as
\* waitForStage, executor.cpp:808, would).
Call(t, op, n) ==
    /\ calls[t].at = "idle"
    /\ op = "Release" => n <= held[t] + MaxOver
    /\ calls' = [calls EXCEPT ![t] = [at |-> op, n |-> n]]
    /\ UNCHANGED <<cur, mu, waiters, held>>

At(t, s) == calls[t].at = s /\ mu = None

Return(t) == calls' = [calls EXCEPT ![t] = NoCall]

\* The lock_guard of notifyWaiters.
Hang(t) ==
    /\ mu' = t
    /\ calls' = [calls EXCEPT ![t].at = "hung"]

Free(n) == Size - cur >= n /\ waiters = <<>>

Take(t) ==
    /\ cur' = cur + calls[t].n
    /\ held' = [held EXCEPT ![t] = @ + calls[t].n]
    /\ Return(t)

Acquire(t) ==
    /\ At(t, "Acquire")
    /\ CASE Free(calls[t].n) ->
              Take(t) /\ UNCHANGED waiters
         [] ~Free(calls[t].n) /\ calls[t].n > Size ->
              Return(t) /\ UNCHANGED <<cur, held, waiters>>
         [] OTHER ->
              /\ waiters' = Append(waiters, t)
              /\ calls' = [calls EXCEPT ![t].at = "wait"]
              /\ UNCHANGED <<cur, held>>
    /\ UNCHANGED mu

\* Mutants: who has waited long enough takes it for a grant; who was first in
\* the queue passes nothing on; who has waited stays in the queue.
GiveUpTaken(t) ==
    /\ At(t, "wait")
    /\ \E elem \in DOMAIN waiters :
          waiters[elem] = t /\ waiters' = RemoveAt(waiters, elem)
    /\ held' = [held EXCEPT ![t] = @ + calls[t].n]
    /\ Return(t)
    /\ UNCHANGED <<cur, mu>>
GiveUpOff(t) ==
    /\ At(t, "wait")
    /\ \E elem \in DOMAIN waiters :
          /\ waiters[elem] = t
          /\ waiters' = RemoveAt(waiters, elem)
          /\ IF elem = 1 /\ Size >= cur
               THEN Hang(t)
               ELSE Return(t) /\ UNCHANGED mu
    /\ UNCHANGED <<cur, held>>
GiveUpQueued(t) ==
    /\ At(t, "wait")
    /\ Return(t)
    /\ UNCHANGED <<cur, mu, waiters, held>>

\* The rest of Acquire, a millisecond later: nobody can have granted the
\* shares, and the caller is told that it has none.
GiveUp(t) ==
    /\ At(t, "wait")
    /\ \E elem \in DOMAIN waiters :
          /\ waiters[elem] = t
          /\ waiters' = RemoveAt(waiters, elem)
          /\ IF elem = 1 /\ Size > cur
               THEN Hang(t)
               ELSE Return(t) /\ UNCHANGED mu
    /\ UNCHANGED <<cur, held>>

TryAcquire(t) ==
    /\ At(t, "TryAcquire")
    /\ IF Free(calls[t].n) THEN Take(t)
                           ELSE Return(t) /\ UNCHANGED <<cur, held>>
    /\ UNCHANGED <<mu, waiters>>

\* The exception of a release that was too large leaves cur reduced.
Release(t) ==
    /\ At(t, "Release")
    /\ cur' = cur - calls[t].n
    /\ held' = [held EXCEPT ![t] = @ - calls[t].n]
    /\ IF cur < calls[t].n THEN Return(t) /\ UNCHANGED mu
                           ELSE Hang(t)
    /\ UNCHANGED waiters

-----------------------------------------------------------------------------
Step(t) == Acquire(t) \/ GiveUp(t) \/ TryAcquire(t) \/ Release(t)

Next ==
    \E t \in Threads :
        \/ \E op \in Ops, n \in 1..Size + 1 : Call(t, op, n)
        \/ Step(t)

\* A thread that can run runs: a critical section is one step, so nobody finds
\* mu locked, unless its owner hangs.
Fairness == \A t \in Threads : WF_vars(Step(t))

Spec == Init /\ [][Next]_vars /\ Fairness

-----------------------------------------------------------------------------
\* The shares that are taken are those somebody was told he has and has not
\* released, and never more than there are: neither a call that gives up nor
\* one that ends with an exception leaves a share behind
\* (semaphore.cpp:48-65, 112-128).
SharesAccounted ==
    /\ cur = MapThenSumSet(LAMBDA t : held[t], Threads)
    /\ cur <= Size

\* In the queue are those who wait, each once: who has given up, or hangs,
\* leaves no entry behind, which would make the semaphore look taken to every
\* later call (semaphore.cpp:43-61).
WaitersQueued ==
    /\ ToSet(waiters) = {t \in Threads : calls[t].at = "wait"}
    /\ IsInjective(waiters)

\* What can be relied on beside the calls that hang: as long as callers ask for
\* one share at a time and never give one back, every call returns, although
\* nobody is granted what he waits for (semaphore.cpp:48-65).  A release that
\* is not too large never returns (semaphore.cpp:126); nor, whoever releases,
\* need an Acquire of several shares that was first in the queue (line 60).
CallsReturn ==
    [](\A t \in Threads : calls[t].n <= 1 /\ calls[t].at # "Release") =>
        \A t \in Threads : calls[t].at \in Ops ~> calls[t].at = "idle"

\* "After a release the waiters in the queue are notified" (the doc of Release,
\* semaphore.cpp:110): a release comes to the end of notifyWaiters, or to the
\* exception, and returns.
ReleaseNotifies ==
    \A t \in Threads : calls[t].at = "Release" ~> calls[t].at = "idle"
=============================================================================
