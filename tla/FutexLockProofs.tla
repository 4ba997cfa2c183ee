-------------------------- MODULE FutexLockProofs --------------------------
(***************************************************************************)
(* Mutual exclusion of the futex mutex, and that it loses no wakeup, for   *)
(* any set of processes.                                                   *)
(***************************************************************************)
EXTENDS FutexLock, TLAPS

(***************************************************************************)
(* The inductive invariant: the word says exactly whether somebody is      *)
(* inside.  Mutual exclusion alone is not inductive: a cmpxchg that finds  *)
(* a 0 lets a process in, which is safe only because 0 means that nobody   *)
(* is there, the process between its decrement and its store included.     *)
(***************************************************************************)
WordTells == lock # 0 <=> \E p \in Proc : Inside(p)

LInv == LockTypeOK /\ WordTells /\ MutualExclusion

\* Nobody is inside at the start.
LEMMA LInvInit == LockInit => LInv
  BY DEF LockInit, LInv, LockTypeOK, WordTells, MutualExclusion, Inside, Places

\* One step of one process keeps the word truthful and the holder alone.
LEMMA LInvStep == LInv /\ [LockNext]_lockvars => LInv'
<1> SUFFICES ASSUME LInv, [LockNext]_lockvars PROVE LInv'
  OBVIOUS
<1> USE DEF LInv, LockTypeOK, WordTells, MutualExclusion, Inside, Places
<1>1. ASSUME NEW p \in Proc, TryLock(p) PROVE LInv'
  BY <1>1 DEF TryLock, Goto
<1>2. ASSUME NEW p \in Proc, Contend(p) PROVE LInv'
  BY <1>2 DEF Contend, Goto
<1>3. ASSUME NEW p \in Proc, FutexWait(p) PROVE LInv'
  BY <1>3 DEF FutexWait, Goto
<1>4. ASSUME NEW p \in Proc, Retry(p) PROVE LInv'
  BY <1>4 DEF Retry, Goto
<1>5. ASSUME NEW p \in Proc, Interrupted(p) PROVE LInv'
  BY <1>5 DEF Interrupted, Goto
<1>6. ASSUME NEW p \in Proc, Unlock(p) PROVE LInv'
  BY <1>6 DEF Unlock, Goto
<1>7. ASSUME NEW p \in Proc, Store(p) PROVE LInv'
  BY <1>7 DEF Store, Goto
<1>8. ASSUME NEW p \in Proc, Wake(p) PROVE LInv'
  BY <1>8 DEF Wake, Goto
<1>9. CASE UNCHANGED lockvars
  BY <1>9 DEF lockvars
<1> QED
  BY <1>1, <1>2, <1>3, <1>4, <1>5, <1>6, <1>7, <1>8, <1>9
     DEF LockNext, LockStep, UnlockStep

\* The mutex protocol keeps the inductive invariant for ever.
THEOREM LockInvariant == LockSpec => []LInv
  BY LInvInit, LInvStep, PTL DEF LockSpec

\* At most one process is between its lock() and the end of its unlock().
THEOREM Exclusion == LockSpec => []MutualExclusion
<1>1. LInv => MutualExclusion
  BY DEF LInv
<1> QED
  BY <1>1, LockInvariant, PTL

\* A step out of a state with a truthful word loses no wakeup.
LEMMA WakeupStep ==
  LInv /\ LInv' /\ NoLostWakeup /\ [LockNext]_lockvars => NoLostWakeup'
<1> SUFFICES ASSUME LInv, LInv', NoLostWakeup, [LockNext]_lockvars
             PROVE  NoLostWakeup'
  OBVIOUS
<1> USE DEF LInv, LockTypeOK, WordTells, MutualExclusion, Inside, Places,
            NoLostWakeup, Responsible
<1>1. ASSUME NEW p \in Proc, TryLock(p) PROVE NoLostWakeup'
  BY <1>1 DEF TryLock, Goto
<1>2. ASSUME NEW p \in Proc, Contend(p) PROVE NoLostWakeup'
  BY <1>2 DEF Contend, Goto
<1>3. ASSUME NEW p \in Proc, FutexWait(p) PROVE NoLostWakeup'
  BY <1>3 DEF FutexWait, Goto
<1>4. ASSUME NEW p \in Proc, Retry(p) PROVE NoLostWakeup'
  BY <1>4 DEF Retry, Goto
<1>5. ASSUME NEW p \in Proc, Interrupted(p) PROVE NoLostWakeup'
  BY <1>5 DEF Interrupted, Goto
<1>6. ASSUME NEW p \in Proc, Unlock(p) PROVE NoLostWakeup'
  BY <1>6 DEF Unlock, Goto
<1>7. ASSUME NEW p \in Proc, Store(p) PROVE NoLostWakeup'
  BY <1>7 DEF Store, Goto
<1>8. ASSUME NEW p \in Proc, Wake(p) PROVE NoLostWakeup'
  BY <1>8 DEF Wake, Goto
<1>9. CASE UNCHANGED lockvars
  BY <1>9 DEF lockvars
<1> QED
  BY <1>1, <1>2, <1>3, <1>4, <1>5, <1>6, <1>7, <1>8, <1>9
     DEF LockNext, LockStep, UnlockStep

\* Nobody sleeps in FUTEX_WAIT without somebody bound to wake it or to
\* leave the word at 2 for the next unlock.
THEOREM WakeupsKept == LockSpec => []NoLostWakeup
<1>1. LockInit => NoLostWakeup
  BY DEF LockInit, NoLostWakeup
<1> QED
  BY <1>1, LockInvariant, WakeupStep, PTL DEF LockSpec
=============================================================================
