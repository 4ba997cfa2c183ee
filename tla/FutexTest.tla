----------------------------- MODULE FutexTest -----------------------------
(***************************************************************************)
(* The threads of test/futex_test.cpp on the futex mutex: each of them     *)
(* takes the lock num_iterations times and increments a shared variable    *)
(* that is not atomic.  The read and the write of global_variable++ are    *)
(* separate steps.                                                         *)
(***************************************************************************)
EXTENDS FutexLock, FiniteSets

CONSTANT num_iterations
ASSUME IterationsAssumption == num_iterations \in Nat /\ IsFiniteSet(Proc)

VARIABLES
    i,                 \* iterations of looper() that have unlocked
    global_variable,
    reg                \* what each thread read, None before the read

vars == <<lock, pc, c, i, global_variable, reg>>
None == -1

Init ==
    /\ LockInit
    /\ i = [p \in Proc |-> 0]
    /\ global_variable = 0
    /\ reg = [p \in Proc |-> None]

Begin(p) ==
    /\ i[p] < num_iterations
    /\ TryLock(p)
    /\ UNCHANGED <<i, global_variable, reg>>

Load(p) ==
    /\ pc[p] = "held" /\ reg[p] = None
    /\ reg' = [reg EXCEPT ![p] = global_variable]
    /\ UNCHANGED <<lock, pc, c, i, global_variable>>

StoreAndUnlock(p) ==
    /\ reg[p] # None
    /\ global_variable' = reg[p] + 1
    /\ reg' = [reg EXCEPT ![p] = None]
    /\ i' = [i EXCEPT ![p] = @ + 1]
    /\ Unlock(p)

Progress(p) ==
    \/ Begin(p)
    \/ Load(p)
    \/ StoreAndUnlock(p)
    \/ (LockStep(p) \/ UnlockStep(p)) /\ UNCHANGED <<i, global_variable, reg>>

Signal(p) == Interrupted(p) /\ UNCHANGED <<i, global_variable, reg>>

\* Every thread has returned and been joined.
Done == \A p \in Proc : pc[p] = "idle" /\ i[p] = num_iterations

Next ==
    \/ \E p \in Proc : Progress(p) \/ Signal(p)
    \/ Done /\ UNCHANGED vars

\* A runnable thread is scheduled; nothing is assumed about signals.
Spec == Init /\ [][Next]_vars /\ \A p \in Proc : WF_vars(Progress(p))

-----------------------------------------------------------------------------
(***************************************************************************)
(* The assertion of the test: no increment is lost.                        *)
(***************************************************************************)
CountExact ==
    Done => global_variable = num_iterations * Cardinality(Proc)

(***************************************************************************)
(* The test's join of every thread returns: no thread sleeps for ever in   *)
(* FUTEX_WAIT on a free lock, however the locks and unlocks interleave.    *)
(***************************************************************************)
AllJoined == <>Done
=============================================================================
