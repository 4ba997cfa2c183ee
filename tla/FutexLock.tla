----------------------------- MODULE FutexLock -----------------------------
(***************************************************************************)
(* The cross-process mutex of platform/futex_wrapper_linux.hpp, one action *)
(* per atomic instruction or system call.  The word is 0 (free), 1 (held)  *)
(* or 2 (held, and somebody may sleep).                                    *)
(***************************************************************************)
EXTENDS Integers

CONSTANT Proc        \* the processes that map the word

VARIABLES
    lock,    \* *lock
    pc,      \* where each process is in lock(), unlock() or outside
    c        \* the local c of futex_wrapper_lock

lockvars == <<lock, pc, c>>

Places == {"idle", "contend", "wait", "asleep", "retry", "held", "store", "wake"}

LockInit ==
    /\ lock = 0
    /\ pc = [p \in Proc |-> "idle"]
    /\ c = [p \in Proc |-> 0]

Goto(p, where) == pc' = [pc EXCEPT ![p] = where]

-----------------------------------------------------------------------------
\* futex_wrapper_lock

TryLock(p) ==                       \* c = cmpxchg(lock, 0, 1)
    /\ pc[p] = "idle"
    /\ c' = [c EXCEPT ![p] = lock]
    /\ lock' = IF lock = 0 THEN 1 ELSE lock
    /\ Goto(p, IF lock = 0 THEN "held" ELSE "contend")

Contend(p) ==                       \* c == 2 || cmpxchg(lock, 1, 2) != 0
    /\ pc[p] = "contend"
    /\ lock' = IF c[p] # 2 /\ lock = 1 THEN 2 ELSE lock
    /\ Goto(p, IF c[p] = 2 \/ lock # 0 THEN "wait" ELSE "retry")
    /\ UNCHANGED c

\* Slip: FUTEX_WAIT is told to expect 1, so that it sleeps on a word nobody
\* will announce the release of.
FutexWaitOnOne(p) ==
    /\ pc[p] = "wait"
    /\ Goto(p, IF lock # 0 THEN "asleep" ELSE "retry")
    /\ UNCHANGED <<lock, c>>

FutexWait(p) ==                     \* the kernel compares *lock with 2 first
    /\ pc[p] = "wait"
    /\ Goto(p, IF lock = 2 THEN "asleep" ELSE "retry")
    /\ UNCHANGED <<lock, c>>

Interrupted(p) ==                   \* FUTEX_WAIT returns early (EINTR)
    /\ pc[p] = "asleep"
    /\ Goto(p, "retry")
    /\ UNCHANGED <<lock, c>>

\* Slip: the waiter takes the word as 1, forgetting the others that sleep.
RetryAsOne(p) ==
    /\ pc[p] = "retry"
    /\ c' = [c EXCEPT ![p] = lock]
    /\ lock' = IF lock = 0 THEN 1 ELSE lock
    /\ Goto(p, IF lock = 0 THEN "held" ELSE "contend")

\* Slip: the loop ends unless cmpxchg returned 2.
RetryUnlessTwo(p) ==
    /\ pc[p] = "retry"
    /\ c' = [c EXCEPT ![p] = lock]
    /\ lock' = IF lock = 0 THEN 2 ELSE lock
    /\ Goto(p, IF lock # 2 THEN "held" ELSE "contend")

Retry(p) ==                         \* (c = cmpxchg(lock, 0, 2)) != 0
    /\ pc[p] = "retry"
    /\ c' = [c EXCEPT ![p] = lock]
    /\ lock' = IF lock = 0 THEN 2 ELSE lock
    /\ Goto(p, IF lock = 0 THEN "held" ELSE "contend")

-----------------------------------------------------------------------------
\* futex_wrapper_unlock

Unlock(p) ==                        \* c = __sync_sub_and_fetch(lock, 1)
    /\ pc[p] = "held"
    /\ lock' = lock - 1
    /\ Goto(p, IF lock - 1 = 1 THEN "store" ELSE "idle")
    /\ UNCHANGED c

Store(p) ==                         \* __sync_fetch_and_and(lock, 0)
    /\ pc[p] = "store"
    /\ lock' = 0
    /\ Goto(p, "wake")
    /\ UNCHANGED c

\* Slip: the sleepers are not woken.
WakeNobody(p) ==
    /\ pc[p] = "wake"
    /\ Goto(p, "idle")
    /\ UNCHANGED <<lock, c>>

Wake(p) ==                          \* FUTEX_WAKE, 1
    /\ pc[p] = "wake"
    /\ IF \E q \in Proc : pc[q] = "asleep"
       THEN \E q \in Proc :
              /\ pc[q] = "asleep"
              /\ pc' = [pc EXCEPT ![p] = "idle", ![q] = "retry"]
       ELSE Goto(p, "idle")
    /\ UNCHANGED <<lock, c>>

LockStep(p) ==                      \* inside futex_wrapper_lock
    Contend(p) \/ FutexWait(p) \/ Retry(p)

UnlockStep(p) == Store(p) \/ Wake(p)

LockNext ==
    \E p \in Proc :
        TryLock(p) \/ LockStep(p) \/ Interrupted(p) \/ Unlock(p) \/ UnlockStep(p)

LockSpec == LockInit /\ [][LockNext]_lockvars

-----------------------------------------------------------------------------
(***************************************************************************)
(* Type invariant: the word never leaves 0..2, although unlock decrements  *)
(* it without looking.                                                     *)
(***************************************************************************)
LockTypeOK ==
    /\ lock \in 0..2
    /\ pc \in [Proc -> Places]
    /\ c \in [Proc -> 0..2]

(***************************************************************************)
(* A process that has been let in keeps the word to itself until its       *)
(* unlock has cleared it: between the decrement 2 -> 1 and the store of 0  *)
(* the word looks like an uncontended lock, and nobody may take it.        *)
(***************************************************************************)
Inside(p) == pc[p] \in {"held", "store"}

MutualExclusion ==
    \A p, q \in Proc : Inside(p) /\ Inside(q) => p = q

(***************************************************************************)
(* No wakeup is lost: whenever a process sleeps in FUTEX_WAIT, somebody is *)
(* bound to wake it or to leave a 2 behind for the next unlock.            *)
(***************************************************************************)
Responsible(p) ==
    \/ pc[p] \in {"store", "wake", "retry"}
    \/ pc[p] = "held" /\ lock = 2
    \/ pc[p] = "contend" /\ c[p] = 1

NoLostWakeup ==
    (\E q \in Proc : pc[q] = "asleep") => \E p \in Proc : Responsible(p)
=============================================================================
