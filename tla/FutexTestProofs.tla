--------------------------- MODULE FutexTestProofs ---------------------------
(***************************************************************************)
(* The assertion of test/futex_test.cpp for any number of threads and of   *)
(* iterations: the mutex loses no increment of the plain variable.         *)
(***************************************************************************)
EXTENDS FutexTest, FutexLockProofs, FiniteSetTheorems

(***************************************************************************)
(* The increments made so far, one pair for each.  Counting pairs instead  *)
(* of adding up i needs no induction over the threads.                     *)
(***************************************************************************)
Made == {x \in Proc \X (1..num_iterations) : x[2] <= i[x[1]]}

(***************************************************************************)
(* A thread between its read and its write is inside, so what it has read  *)
(* is still the value of the variable; the variable counts the increments. *)
(***************************************************************************)
Fresh == \A p \in Proc : reg[p] # None => pc[p] = "held" /\ reg[p] = global_variable

Bounded == \A p \in Proc : pc[p] # "idle" /\ pc[p] \notin {"store", "wake"} => i[p] < num_iterations

CInv ==
    /\ LInv
    /\ i \in [Proc -> 0..num_iterations]
    /\ global_variable \in Nat
    /\ reg \in [Proc -> Nat \cup {None}]
    /\ Fresh /\ Bounded
    /\ global_variable = Cardinality(Made)

\* The increments that can be made are finitely many.
LEMMA MadeFinite == IsFiniteSet(Proc \X (1..num_iterations)) /\ IsFiniteSet(Made)
<1>1. IsFiniteSet(1..num_iterations)
  BY IterationsAssumption, FS_Interval
<1>2. IsFiniteSet(Proc \X (1..num_iterations))
  BY <1>1, IterationsAssumption, FS_Product
<1>3. Made \in SUBSET (Proc \X (1..num_iterations))
  BY DEF Made
<1>4. QED
  BY <1>2, <1>3, FS_Subset

\* Before the threads run nothing has been counted.
LEMMA CInvInit == Init => CInv
<1> SUFFICES ASSUME Init PROVE CInv
  OBVIOUS
<1>1. Made = {}
  BY IterationsAssumption DEF Init, Made
<1>2. Cardinality(Made) = 0
  BY <1>1, FS_EmptySet
<1>3. LInv
  BY LInvInit DEF Init
<1>4. QED
  BY <1>2, <1>3, IterationsAssumption DEF Init, CInv, Fresh, Bounded, LockInit, None

\* Every step of a thread is a step of the mutex or leaves its word alone.
LEMMA StepsOfTheMutex == Next => [LockNext]_lockvars
  BY DEF Next, Progress, Signal, Begin, Load, StoreAndUnlock, LockNext, lockvars, vars

\* No step loses an increment.
LEMMA CInvStep == CInv /\ [Next]_vars => CInv'
<1> SUFFICES ASSUME CInv, [Next]_vars PROVE CInv'
  OBVIOUS
<1>0. LInv'
  BY LInvStep, StepsOfTheMutex DEF CInv, vars, lockvars
<1>a. LockTypeOK /\ LockTypeOK' /\ MutualExclusion /\ num_iterations \in Nat
  BY <1>0, IterationsAssumption DEF CInv, LInv
<1> USE DEF LockTypeOK
<1>1. ASSUME NEW p \in Proc, StoreAndUnlock(p) PROVE CInv'
  <2>0. /\ pc[p] = "held" /\ reg[p] = global_variable /\ i[p] < num_iterations
        /\ reg[p] # None
    BY <1>a, <1>1 DEF StoreAndUnlock, Unlock, CInv, Fresh, Bounded
  <2>1. /\ i' \in [Proc -> 0..num_iterations] /\ global_variable' \in Nat
        /\ reg' \in [Proc -> Nat \cup {None}]
    BY <1>a, <1>1, <2>0 DEF StoreAndUnlock, CInv
  <2>2. \A q \in Proc : q # p => pc[q] # "held" /\ pc'[q] = pc[q]
    BY <1>a, <1>1, <2>0 DEF MutualExclusion, Inside, StoreAndUnlock, Unlock, Goto
  <2>3. Fresh'
    BY <1>1, <2>2 DEF StoreAndUnlock, CInv, Fresh
  <2>4. Bounded'
    BY <1>a, <1>1, <2>2 DEF StoreAndUnlock, Unlock, Goto, CInv, Bounded
  <2>5. Made' = Made \cup {<<p, i[p] + 1>>} /\ <<p, i[p] + 1>> \notin Made
    BY <1>a, <1>1, <2>0 DEF StoreAndUnlock, CInv, Made
  <2>6. Cardinality(Made') = Cardinality(Made) + 1
    BY <2>5, MadeFinite, FS_AddElement
  <2>7. Cardinality(Made)' = global_variable'
    BY <1>1, <2>0, <2>6 DEF StoreAndUnlock, CInv
  <2>8. QED
    BY <1>0, <2>1, <2>3, <2>4, <2>7 DEF CInv
<1>2. ASSUME NEW p \in Proc, Load(p) PROVE CInv'
  <2>1. Made' = Made
    BY <1>2 DEF Load, Made
  <2>2. Fresh' /\ Bounded'
    BY <1>2 DEF Load, CInv, Fresh, Bounded
  <2>3. QED
    BY <1>0, <1>2, <2>1, <2>2 DEF Load, CInv
<1>3. ASSUME NEW p \in Proc, Begin(p) \/ LockStep(p) \/ UnlockStep(p) \/ Interrupted(p),
             UNCHANGED <<i, global_variable, reg>>
      PROVE  CInv'
  <2>1. Made' = Made
    BY <1>3 DEF Made
  <2>2. Fresh'
    BY <1>a, <1>3 DEF CInv, Fresh, Begin, LockStep, UnlockStep, TryLock, Contend, FutexWait,
                  Retry, Interrupted, Store, Wake, Goto
  <2>3. Bounded'
    BY <1>a, <1>3 DEF CInv, Bounded, Begin, LockStep, UnlockStep, TryLock, Contend, FutexWait,
                  Retry, Interrupted, Store, Wake, Goto
  <2>4. QED
    BY <1>0, <1>3, <2>1, <2>2, <2>3 DEF CInv
<1>4. CASE UNCHANGED vars
  <2>1. Made' = Made
    BY <1>4 DEF Made, vars
  <2>2. QED
    BY <1>0, <1>4, <2>1 DEF CInv, Fresh, Bounded, vars
<1>5. QED
  BY <1>1, <1>2, <1>3, <1>4 DEF Next, Progress, Signal, Begin

(***************************************************************************)
(* The variable counts the increments made at every moment, and a thread   *)
(* that has read it reads what it will overwrite.                          *)
(***************************************************************************)
THEOREM CountInvariant == Spec => []CInv
  BY CInvInit, CInvStep, PTL DEF Spec

\* Under the test's threads the word stays within 0..2 and every thread at a
\* place of the protocol.
THEOREM LockTypeCorrect == Spec => []LockTypeOK
<1>1. CInv => LockTypeOK
  BY DEF CInv, LInv
<1>2. QED
  BY <1>1, CountInvariant, PTL

\* When every thread has been joined the variable is the product the test
\* asserts: num_iterations increments of every thread.
THEOREM NoIncrementLost == Spec => []CountExact
<1>1. CInv => CountExact
  <2> SUFFICES ASSUME CInv, Done PROVE global_variable = num_iterations * Cardinality(Proc)
    BY DEF CountExact
  <2>1. Made = Proc \X (1..num_iterations)
    BY IterationsAssumption DEF Made, Done
  <2>2. Cardinality(1..num_iterations) = num_iterations /\ IsFiniteSet(1..num_iterations)
    BY IterationsAssumption, FS_Interval
  <2>3. Cardinality(Proc) \in Nat
    BY IterationsAssumption, FS_CardinalityType
  <2>4. Cardinality(Made) = Cardinality(Proc) * num_iterations
    BY <2>1, <2>2, IterationsAssumption, FS_Product
  <2>5. QED
    BY <2>3, <2>4, IterationsAssumption DEF CInv
<1>2. QED
  BY <1>1, CountInvariant, PTL
=============================================================================
