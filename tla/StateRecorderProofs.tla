------------------------ MODULE StateRecorderProofs ------------------------
(***************************************************************************)
(* Proofs about StateRecorder, for any number of application threads,      *)
(* handles and objects, and however many objects and sessions there are.   *)
(***************************************************************************)
EXTENDS StateRecorder, SequenceTheorems, TLAPS

(***************************************************************************)
(* The inductive invariant.  Types: as TypeOK, with the shape of the       *)
(* sequences and of what a thread is doing.                                *)
(***************************************************************************)
Elsewhere == [op : {"drain", "crash"}, handle : Handle, means : Content, known : BOOLEAN]

Types ==
    /\ live \in [Handle -> Content \cup {None}] /\ known \subseteq Handle
    /\ busy \in [Thread -> {Idle} \cup Elsewhere \cup Calls]
    /\ creates \in 0..MaxRecords /\ sessions \in 0..MaxSessions
    /\ lock \in Thread \cup {None, Worker}
    /\ copy \in [Thread -> {"none", "made", "freed"}]
    /\ queue \in Seq(Items \cup {End}) /\ item \in Items \cup {End}
    /\ worker \in {"none", "start", "top", "reset", "wait", "break", "item", "ended"}
    /\ looping \in BOOLEAN /\ iface \in BOOLEAN /\ write \in BOOLEAN
    /\ need_flush \in BOOLEAN /\ app_info \in BOOLEAN
    /\ to_hash \in [Handle -> Content \cup {None}]
    /\ db \in Seq(Entries \cup {AppEntry}) /\ durable \in 0..Len(db)
    /\ process \in {"up", "dying", "dead"}

\* The worker is at an item that is not the end.
AtItem == worker = "item" /\ item # End

(***************************************************************************)
(* A thread with a copy that is not queued holds record_lock, and so does  *)
(* the worker from its look at the empty queue to the reset: the queue is  *)
(* still empty then, and no copy has been made.                            *)
(***************************************************************************)
LockInv ==
    /\ \A t \in Thread : copy[t] # "none" => copy[t] = "made" /\ lock = t
    /\ worker = "reset" => lock = Worker /\ queue = <<>>

(***************************************************************************)
(* While nobody can write, all that was written is on disk.                *)
(***************************************************************************)
FlushInv ==
    /\ ~iface \/ worker = "start" => durable = Len(db)
    /\ worker \in {"none", "ended"} => ~iface

(***************************************************************************)
(* There is one end item for each worker thread, and it dies with it.      *)
(***************************************************************************)
NoEnd == \A i \in 1..Len(queue) : queue[i] # End

EndInv ==
    /\ \A i, j \in 1..Len(queue) : queue[i] = End /\ queue[j] = End => i = j
    /\ worker = "item" /\ item = End => looping /\ NoEnd
    /\ ~looping \/ worker = "ended" => NoEnd
    /\ worker = "none" => ~looping
    /\ worker = "ended" => looping
    /\ worker = "break" => ~looping

(***************************************************************************)
(* The object behind a hash the worker knows has been dealt with.          *)
(***************************************************************************)
DepsInv ==
    /\ DepsFirst
    /\ \A h \in Handle : to_hash[h] # None =>
          <<"base", to_hash[h]>> \in Objects(db) \cup lost \cup kept \cup refused

(***************************************************************************)
(* What to_hash will say of the handle h when the worker has dealt with    *)
(* the item it is at and with the first n of the queue.                    *)
(***************************************************************************)
Now(h) == IF AtItem /\ item.op = "base" /\ item.handle = h THEN item.means ELSE to_hash[h]

Bases(h, n) == {i \in 1..n : queue[i] # End /\ queue[i].op = "base" /\ queue[i].handle = h}

Will(h, x, n) ==
    \/ Bases(h, n) = {} /\ Now(h) = x
    \/ \E i \in Bases(h, n) : queue[i].means = x /\ \A j \in Bases(h, n) : j <= i

(***************************************************************************)
(* A call that records is about a live object, and the call that creates   *)
(* an object is the only one about it.                                     *)
(***************************************************************************)
CallInv ==
    \A t \in Thread : busy[t] \in Calls =>
        /\ live[busy[t].handle] = busy[t].means
        /\ busy[t].op = "base" => /\ busy[t].handle \notin known /\ busy[t].known
                                  /\ \A u \in Thread \ {t} :
                                        busy[u] \in Calls => busy[u].handle # busy[t].handle
        /\ busy[t].op = "pipe" /\ busy[t].known => busy[t].handle \in known

(***************************************************************************)
(* The hash that a pipeline's handle will resolve to when its turn comes   *)
(* is that of the object the handle was when the pipeline was created.     *)
(***************************************************************************)
NameInv ==
    /\ ResolvedRight
    /\ \A h \in known : live[h] # None => Will(h, live[h], Len(queue))
    /\ \A i \in 1..Len(queue) :
          queue[i] # End /\ queue[i].op = "pipe" /\ queue[i].known =>
              Will(queue[i].handle, queue[i].means, i - 1)
    /\ AtItem /\ item.op = "pipe" /\ item.known => to_hash[item.handle] = item.means

(***************************************************************************)
(* What the worker thread was given is dealt with, passed over because of  *)
(* the filter, or still before it and before the end item.                 *)
(***************************************************************************)
Waiting(o) ==
    \/ AtItem /\ item.known /\ o = <<item.op, item.means>>
    \/ /\ worker # "ended" /\ ~(worker = "item" /\ item = End)
       /\ \E i \in 1..Len(queue) :
             /\ queue[i] # End /\ queue[i].known /\ o = <<queue[i].op, queue[i].means>>
             /\ \A j \in 1..i - 1 : queue[j] # End

DueInv ==
    looping => \A o \in due : \/ o \in Objects(db) \cup kept \cup lost
                              \/ ~write /\ worker # "start"
                              \/ Waiting(o)

IInv ==
    /\ Types /\ LockInv /\ FlushInv /\ EndInv /\ ItemAlive /\ DepsInv
    /\ CallInv /\ NameInv /\ DueInv

-----------------------------------------------------------------------------
(***************************************************************************)
(* Values that are told apart by their op field.                           *)
(***************************************************************************)
LEMMA Apart ==
    /\ Idle \notin Calls /\ Idle \notin Elsewhere /\ End \notin Items
    /\ \A x \in Calls : x \notin Elsewhere
    /\ AppEntry \notin Entries
BY DEF Idle, End, Calls, Elsewhere, Items, AppEntry, Entries

\* A queue, or the database, with one more at its end.
LEMMA Longer ==
    ASSUME NEW S, NEW s \in Seq(S), NEW x \in S, NEW r, r = Append(s, x)
    PROVE  /\ r \in Seq(S) /\ Len(s) \in Nat /\ Len(r) = Len(s) + 1
           /\ \A i \in 1..Len(s) : r[i] = s[i]
           /\ r[Len(s) + 1] = x /\ r[Len(r)] = x
BY AppendProperties, LenProperties

\* A queue without its first item.
LEMMA Shorter ==
    ASSUME NEW S, NEW s \in Seq(S), s # <<>>, NEW r, r = Tail(s)
    PROVE  /\ r \in Seq(S) /\ Len(r) \in Nat /\ Len(s) = Len(r) + 1
           /\ \A i \in 1..Len(r) : r[i] = s[i + 1]
           /\ Head(s) = s[1] /\ s[1] \in S
<1>1. /\ Len(r) = Len(s) - 1 /\ Len(s) \in Nat \ {0} /\ r \in Seq(S)
      /\ \A i \in 1..Len(r) : r[i] = s[i + 1]
      /\ Head(s) \in S
  BY HeadTailProperties, EmptySeq
<1>2. Head(s) = s[1]
  BY <1>1
<1>3. QED
  BY <1>1, <1>2

\* What a record_* call pushes is an item.
LEMMA PushedItem ==
    ASSUME NEW t \in Thread, Types, busy[t] \in Calls
    PROVE  [op |-> busy[t].op, handle |-> busy[t].handle, means |-> busy[t].means,
            known |-> busy[t].known, intact |-> copy[t] = "made"] \in Items
<1>1. (copy[t] = "made") \in BOOLEAN
  OBVIOUS
<1>2. QED
  BY <1>1, Zenon DEF Calls, Items

\* What a reset leaves of the queue is a queue.
LEMMA SpoiltQueue ==
    ASSUME Types
    PROVE  Spoilt(queue) \in Seq(Items \cup {End})
<1> DEFINE e(i) == IF queue[i] = End THEN End ELSE [queue[i] EXCEPT !.intact = FALSE]
<1>1. DOMAIN queue = 1..Len(queue) /\ Len(queue) \in Nat
      /\ \A i \in 1..Len(queue) : queue[i] \in Items \cup {End}
  BY LenProperties, ElementOfSeq DEF Types
<1>2. \A i \in 1..Len(queue) : e(i) \in Items \cup {End}
  BY <1>1 DEF Items
<1>3. Spoilt(queue) = [i \in 1..Len(queue) |-> e(i)]
  BY <1>1 DEF Spoilt
<1> HIDE DEF e
<1>4. QED
  BY <1>1, <1>2, <1>3

\* The reset finds nothing to release.
LEMMA ResetHarmless ==
    ASSUME Types, LockInv, Reset
    PROVE  queue' = queue /\ copy' = copy
<1>1. worker = "reset" /\ ResetTemp
  BY DEF Reset
<1>2. queue = <<>> /\ lock = Worker
  BY <1>1 DEF LockInv
<1>3. queue' = queue
  <2>1. queue' = [i \in {} |-> IF queue[i] = End THEN End ELSE [queue[i] EXCEPT !.intact = FALSE]]
    BY <1>1, <1>2 DEF ResetTemp, Spoilt
  <2>2. queue' \in Seq(Items \cup {End}) /\ Len(queue') = 0
    BY <2>1
  <2>3. QED
    BY <1>2, <2>2, EmptySeq
<1>4. \A t \in Thread : copy[t] = "none"
  BY <1>2, RecorderAssumption DEF LockInv
<1>5. copy' = [t \in Thread |-> copy[t]]
  BY <1>1, <1>4 DEF ResetTemp
<1>6. QED
  BY <1>3, <1>5 DEF Types

-----------------------------------------------------------------------------
(***************************************************************************)
(* Every step keeps the types.                                             *)
(***************************************************************************)
LEMMA TypesApp ==
    ASSUME Types, NEW t \in Thread,
           \/ \E h \in Handle, x \in Content : DriverCreates(t, h, x)
           \/ \E h \in Handle : DriverDestroys(t, h) \/ DriverCreatesPipeline(t, h)
           \/ RecordRefused(t) \/ Copy(t)
    PROVE  Types'
<1> USE DEF app, temp, task, ghost
<1>1. ASSUME NEW h \in Handle, NEW x \in Content, DriverCreates(t, h, x) PROVE Types'
  <2>1. [op |-> "base", handle |-> h, means |-> x, known |-> TRUE] \in Calls
    BY DEF Calls
  <2>2. creates' \in 0..MaxRecords
    BY <1>1, RecorderAssumption DEF DriverCreates, Types
  <2>3. live' \in [Handle -> Content \cup {None}] /\ known' \subseteq Handle
    BY <1>1 DEF DriverCreates, Types
  <2>4. busy' \in [Thread -> {Idle} \cup Elsewhere \cup Calls]
    BY <1>1, <2>1 DEF DriverCreates, Types
  <2>5. QED
    BY <1>1, <2>2, <2>3, <2>4 DEF DriverCreates, Types
<1>2. ASSUME NEW h \in Handle, DriverDestroys(t, h) PROVE Types'
  BY <1>2 DEF DriverDestroys, Types
<1>3. ASSUME NEW h \in Handle, DriverCreatesPipeline(t, h) PROVE Types'
  <2>1. (h \in known) \in BOOLEAN
    OBVIOUS
  <2>2. live[h] \in Content
    BY <1>3 DEF DriverCreatesPipeline, Types
  <2>3. [op |-> "pipe", handle |-> h, means |-> live[h], known |-> h \in known] \in Calls
    BY <2>1, <2>2, Zenon DEF Calls
  <2>4. creates' \in 0..MaxRecords
    BY <1>3, RecorderAssumption DEF DriverCreatesPipeline, Types
  <2>5. busy' \in [Thread -> {Idle} \cup Elsewhere \cup Calls]
    <3> DEFINE call == [op |-> "pipe", handle |-> h, means |-> live[h], known |-> h \in known]
    <3>1. busy' = [busy EXCEPT ![t] = call]
      BY <1>3, Zenon DEF DriverCreatesPipeline
    <3> HIDE DEF call
    <3>2. call \in Calls
      BY <2>3 DEF call
    <3>3. QED
      BY <3>1, <3>2 DEF Types
  <2>6. QED
    BY <1>3, <2>4, <2>5 DEF DriverCreatesPipeline, Types
<1>4. CASE RecordRefused(t)
  BY <1>4 DEF RecordRefused, Types
<1>5. CASE Copy(t)
  BY <1>5 DEF Copy, CopyLocks, Types
<1>6. QED
  BY <1>1, <1>2, <1>3, <1>4, <1>5

\* The record_* calls keep the types.
LEMMA TypesPush ==
    ASSUME Types, NEW t \in Thread, Record(t) \/ RecordInline(t) \/ EmergencyRecord(t)
    PROVE  Types'
<1> USE DEF task, ghost
<1>1. busy[t] \in Calls /\ Push(t)
  BY DEF Record, RecordInline, EmergencyRecord, Push
<1>2. queue' \in Seq(Items \cup {End}) /\ known' \subseteq Handle
  <2>1. queue' \in Seq(Items \cup {End})
    BY <1>1, PushedItem, AppendProperties DEF Push, Types
  <2>2. busy[t].handle \in Handle
    BY <1>1 DEF Calls
  <2>3. QED
    BY <1>1, <2>1, <2>2 DEF Push, Types
<1>3. /\ [busy[t] EXCEPT !.op = "drain"] \in Elsewhere
      /\ [busy[t] EXCEPT !.op = "crash"] \in Elsewhere
  BY <1>1 DEF Calls, Elsewhere
<1>4. busy' \in [Thread -> {Idle} \cup Elsewhere \cup Calls]
  <2>1. \/ busy' = [busy EXCEPT ![t] = Idle]
        \/ busy' = [busy EXCEPT ![t] = [busy[t] EXCEPT !.op = "drain"]]
        \/ busy' = [busy EXCEPT ![t] = [busy[t] EXCEPT !.op = "crash"]]
    BY DEF Record, RecordInline, EmergencyRecord
  <2>2. QED
    BY <1>3, <2>1 DEF Types
<1>5. lock' \in Thread \cup {None, Worker} /\ copy' \in [Thread -> {"none", "made", "freed"}]
  BY <1>1 DEF Push, Types
<1>6. QED
  BY <1>2, <1>4, <1>5 DEF Record, RecordInline, EmergencyRecord, Types

\* Starting and ending the worker thread, and record_task, keep the types.
LEMMA TypesTask ==
    ASSUME Types, Raise \/ InitRecordingThread \/ RecordEnd \/ Join \/ RecordTask
    PROVE  Types'
<1> USE DEF app, temp, task, ghost
<1>0. db \in Seq(Entries \cup {AppEntry}) /\ Len(db) \in Nat /\ durable \in 0..Len(db)
  BY LenProperties DEF Types
<1>1. CASE Raise \/ Join \/ RecordEnd
  <2>0. queue' = queue \/ queue' = Append(queue, End)
    BY <1>1 DEF Raise, Join, RecordEnd
  <2>1. queue' \in Seq(Items \cup {End})
    <3>1. queue \in Seq(Items \cup {End}) /\ End \in Items \cup {End}
      BY DEF Types
    <3>2. Append(queue, End) \in Seq(Items \cup {End})
      BY <3>1, AppendProperties
    <3>3. QED
      BY <2>0, <3>1, <3>2
  <2>2. QED
    BY <1>1, <2>1 DEF Raise, Join, RecordEnd, Types
<1>2. CASE InitRecordingThread
  <2>1. sessions' \in 0..MaxSessions
    BY <1>2, RecorderAssumption DEF InitRecordingThread, Types
  <2>2. iface' \in BOOLEAN /\ looping' \in BOOLEAN
    BY <1>2, Zenon DEF InitRecordingThread
  <2>3. QED
    BY <1>2, <2>1, <2>2 DEF InitRecordingThread, Types
<1>3. CASE Prepare
  <2>1. iface' \in BOOLEAN /\ write' \in BOOLEAN
    BY <1>3, Zenon DEF Prepare, Types
  <2>2. db' = db \/ db' = Append(db, AppEntry)
    BY <1>3 DEF Prepare
  <2>3. db' \in Seq(Entries \cup {AppEntry}) /\ Len(db) <= Len(db') /\ Len(db') \in Nat
    BY <1>0, <2>2, AppendProperties
  <2>4. durable' \in 0..Len(db')
    BY <1>0, <1>3, <2>3 DEF Prepare
  <2>5. QED
    BY <1>3, <2>1, <2>3, <2>4 DEF Prepare, Types
<1>4. CASE Top \/ Reset
  <2>1. queue' \in Seq(Items \cup {End})
    BY <1>4, SpoiltQueue DEF Top, Reset, ResetTemp, Types
  <2>2. lock' \in Thread \cup {None, Worker} /\ copy' \in [Thread -> {"none", "made", "freed"}]
    BY <1>4 DEF Top, Reset, ResetTemp, Types
  <2>3. worker' \in {"reset", "wait", "break"}
    BY <1>4 DEF Top, Reset
  <2>4. QED
    BY <1>4, <2>1, <2>2, <2>3 DEF Top, Reset, Types
<1>5. CASE TimedFlush
  <2>1. durable' \in 0..Len(db)
    BY <1>0, <1>5 DEF TimedFlush
  <2>2. need_flush' \in BOOLEAN
    BY <1>5 DEF TimedFlush
  <2>3. QED
    BY <1>5, <2>1, <2>2 DEF TimedFlush, Types
<1>6. CASE Pop
  <2>1. queue' \in Seq(Items \cup {End}) /\ item' \in Items \cup {End}
    BY <1>6, HeadTailProperties DEF Pop, Types
  <2>2. QED
    BY <1>6, <2>1 DEF Pop, Types
<1>7. CASE Process
  <2>0. item \in Items /\ item.means \in Content /\ item.handle \in Handle
        /\ item.op \in {"base", "pipe"}
    BY <1>7 DEF Process, Types, Items
  <2>1. to_hash' \in [Handle -> Content \cup {None}]
    BY <1>7, <2>0 DEF Process, Types
  <2>2. HashOf \in Content \cup {None}
    BY <2>0 DEF HashOf, Types
  <2>3. app_info' \in BOOLEAN
    BY <1>7, Zenon DEF Process, Types
  <2>4. db' \in Seq(Entries \cup {AppEntry}) /\ Len(db) <= Len(db') /\ Len(db') \in Nat
        /\ need_flush' \in BOOLEAN
    <3>1. CASE UNCHANGED <<need_flush, db, lost>>
      BY <1>0, <3>1 DEF Types
    <3>2. CASE Resolved /\ WriteEntry(HashOf)
      <4> DEFINE e == [op |-> item.op, hash |-> HashOf, means |-> item.means, known |-> item.known]
      <4>1. HashOf \in Content
        BY <2>2, <3>2 DEF Resolved
      <4>2. e \in Entries
        BY <2>0, <4>1 DEF Entries, Items
      <4>3. (need_flush' = TRUE \/ need_flush' = need_flush) /\ (db' = db \/ db' = Append(db, e))
        BY <3>2 DEF WriteEntry, MarkDirty
      <4> HIDE DEF e
      <4>4. QED
        <5>1. need_flush' \in BOOLEAN
          BY <4>3, Zenon DEF Types
        <5>2. QED
          BY <1>0, <4>2, <4>3, <5>1, AppendProperties
    <3>3. QED
      BY <1>7, <3>1, <3>2 DEF Process
  <2>5. durable' \in 0..Len(db')
    BY <1>0, <1>7, <2>4 DEF Process
  <2>6. QED
    BY <1>7, <2>1, <2>3, <2>4, <2>5 DEF Process, Types
<1>8. CASE Finish
  <2>1. busy' \in [Thread -> {Idle} \cup Elsewhere \cup Calls]
    BY <1>8 DEF Finish, Types
  <2>2. durable' \in 0..Len(db)
    BY <1>0, <1>8 DEF Finish, FinalFlush
  <2>3. QED
    BY <1>8, <2>1, <2>2 DEF Finish, Types
<1>9. QED
  BY <1>1, <1>2, <1>3, <1>4, <1>5, <1>6, <1>7, <1>8 DEF RecordTask

\* The types hold at the start.
LEMMA TypesInit == Init => Types
<1> SUFFICES ASSUME Init PROVE Types
  OBVIOUS
<1>1. ASSUME NEW S PROVE <<>> \in Seq(S) /\ Len(<<>>) = 0
  BY EmptySeq
<1>2. /\ looping \in BOOLEAN /\ iface \in BOOLEAN /\ write \in BOOLEAN
      /\ need_flush \in BOOLEAN /\ app_info \in BOOLEAN
  BY Zenon DEF Init
<1>3. QED
  BY <1>1, <1>2, RecorderAssumption DEF Init, Types, Idle, End

\* Every step keeps the types.
LEMMA TypesStep == Types /\ [Next]_vars => Types'
<1> SUFFICES ASSUME Types, [Next]_vars PROVE Types'
  OBVIOUS
<1>1. CASE Next
  BY <1>1, TypesApp, TypesPush, TypesTask DEF Next
<1>2. CASE UNCHANGED vars
  BY <1>2 DEF vars, app, temp, task, ghost, Types
<1>3. QED
  BY <1>1, <1>2

-----------------------------------------------------------------------------
(***************************************************************************)
(* What the steps do to the queue.                                         *)
(***************************************************************************)
LEMMA Pushed ==
    ASSUME Types, NEW t \in Thread, Record(t) \/ RecordInline(t) \/ EmergencyRecord(t)
    PROVE  LET n == Len(queue) + 1
           IN  /\ Len(queue) \in Nat /\ Len(queue') = n
               /\ \A i \in 1..Len(queue) : queue'[i] = queue[i]
               /\ queue'[n] \in Items /\ queue'[n] # End
               /\ queue'[n].intact = (copy[t] = "made") /\ copy[t] # "none"
               /\ queue'[n].op = busy[t].op /\ queue'[n].handle = busy[t].handle
               /\ queue'[n].means = busy[t].means /\ queue'[n].known = busy[t].known
               /\ busy[t] \in Calls /\ Push(t)
               /\ UNCHANGED <<live, item, iface, to_hash, db, durable, kept, lost, refused>>
<1>1. busy[t] \in Calls /\ Push(t) /\ copy[t] # "none"
  BY DEF Record, RecordInline, EmergencyRecord, Push
<1> DEFINE x == [op |-> busy[t].op, handle |-> busy[t].handle, means |-> busy[t].means,
                 known |-> busy[t].known, intact |-> copy[t] = "made"]
<1>2. x \in Items
  BY <1>1, PushedItem
<1>3. queue' = Append(queue, x)
  BY <1>1 DEF Push
<1>4. /\ x.op = busy[t].op /\ x.handle = busy[t].handle /\ x.means = busy[t].means
      /\ x.known = busy[t].known /\ x.intact = (copy[t] = "made")
  OBVIOUS
<1> HIDE DEF x
<1>5. /\ Len(queue) \in Nat /\ Len(queue') = Len(queue) + 1
      /\ \A i \in 1..Len(queue) : queue'[i] = queue[i]
      /\ queue'[Len(queue) + 1] = x
  BY <1>2, <1>3, Longer DEF Types
<1>6. x # End
  BY <1>2, Apart
<1>7. UNCHANGED <<live, item, iface, to_hash, db, durable, kept, lost, refused>>
  BY DEF Record, RecordInline, EmergencyRecord, task
<1>8. QED
  BY <1>1, <1>2, <1>4, <1>5, <1>6, <1>7

\* The worker takes the oldest item.
LEMMA Popped ==
    ASSUME Types, Pop
    PROVE  /\ Len(queue') \in Nat /\ Len(queue) = Len(queue') + 1
           /\ \A i \in 1..Len(queue') : queue'[i] = queue[i + 1]
           /\ item' = queue[1]
<1>1. queue' = Tail(queue) /\ item' = Head(queue) /\ queue # <<>>
  BY DEF Pop
<1>2. QED
  BY <1>1, Shorter DEF Types

\* The end item goes to the end of the queue.
LEMMA Ended ==
    ASSUME Types, RecordEnd
    PROVE  /\ Len(queue) \in Nat /\ Len(queue') = Len(queue) + 1
           /\ \A i \in 1..Len(queue) : queue'[i] = queue[i]
           /\ queue'[Len(queue) + 1] = End
<1>1. queue' = Append(queue, End)
  BY DEF RecordEnd
<1>2. QED
  BY <1>1, Longer DEF Types

\* Nobody but a record_* call, the end item and Pop changes the queue.
LEMMA QueueKept ==
    ASSUME Types, LockInv, [Next]_vars, ~Pop, ~RecordEnd,
           \A t \in Thread : ~Record(t) /\ ~RecordInline(t) /\ ~EmergencyRecord(t)
    PROVE  queue' = queue
<1>1. CASE Reset
  BY <1>1, ResetHarmless
<1>2. CASE ~Reset
  BY <1>2 DEF Next, RecordTask, DriverCreates, DriverDestroys, DriverCreatesPipeline, Copy, RecordRefused,
         Raise, InitRecordingThread, Join, Prepare, Top, TimedFlush, Process, Finish, vars
<1>3. QED
  BY <1>1, <1>2

-----------------------------------------------------------------------------
\* record_lock keeps a copy and its push, and a look and its reset, together.
LEMMA LockStep ==
    ASSUME Types, LockInv, [Next]_vars
    PROVE  LockInv'
<1> USE DEF app, temp, task, ghost
<1>1. ASSUME NEW t \in Thread, Copy(t) PROVE LockInv'
  <2>1. lock = None /\ lock' = t /\ copy' = [copy EXCEPT ![t] = "made"]
        /\ worker' = worker /\ queue' = queue
    BY <1>1 DEF Copy, CopyLocks
  <2>2. worker # "reset" /\ \A u \in Thread : copy[u] = "none"
    BY <2>1, RecorderAssumption DEF LockInv, None, Worker
  <2>3. QED
    BY <2>1, <2>2 DEF LockInv, Types
<1>2. ASSUME NEW t \in Thread, Record(t) \/ RecordInline(t) \/ EmergencyRecord(t) PROVE LockInv'
  <2>1. copy[t] # "none" /\ lock' = None /\ copy' = [copy EXCEPT ![t] = "none"]
    BY <1>2 DEF Record, RecordInline, EmergencyRecord, Push
  <2>2. worker' = worker \/ worker' = "top"
    BY <1>2 DEF Record, RecordInline, EmergencyRecord
  <2>3. lock = t /\ worker # "reset" /\ \A u \in Thread \ {t} : copy[u] = "none"
    BY <2>1, RecorderAssumption DEF LockInv
  <2>4. QED
    BY <2>1, <2>2, <2>3 DEF LockInv, Types
<1>3. CASE Top
  <2>1. /\ lock = None /\ copy' = copy /\ queue' = queue
        /\ worker' = "reset" => lock' = Worker /\ queue = <<>>
    BY <1>3 DEF Top
  <2>2. \A u \in Thread : copy[u] = "none"
    BY <2>1, RecorderAssumption DEF LockInv
  <2>3. QED
    BY <2>1, <2>2 DEF LockInv
<1>4. CASE Reset
  <2>1. copy' = copy /\ queue' = queue
    BY <1>4, ResetHarmless
  <2>2. worker = "reset" /\ worker' # "reset"
    BY <1>4 DEF Reset
  <2>3. \A u \in Thread : copy[u] = "none"
    BY <2>2, RecorderAssumption DEF LockInv
  <2>4. QED
    BY <2>1, <2>2, <2>3 DEF LockInv
<1>5. CASE UNCHANGED <<lock, copy>> /\ worker' # "reset"
  BY <1>5 DEF LockInv
<1>6. CASE UNCHANGED <<lock, copy, worker, queue>>
  BY <1>6 DEF LockInv
<1>7. CASE RecordEnd
  <2>1. UNCHANGED <<lock, copy, worker>> /\ lock = None
    BY <1>7 DEF RecordEnd
  <2>2. QED
    BY <2>1 DEF LockInv, None, Worker
<1>8. QED
  BY <1>1, <1>2, <1>3, <1>4, <1>5, <1>6, <1>7
     DEF Next, RecordTask, DriverCreates, DriverDestroys, DriverCreatesPipeline, RecordRefused,
         Raise, InitRecordingThread, Join, Prepare, TimedFlush, Pop, Process, Finish, vars

-----------------------------------------------------------------------------
\* What was written is on disk whenever nobody can write.
LEMMA FlushStep ==
    ASSUME Types, FlushInv, [Next]_vars
    PROVE  FlushInv'
<1> USE DEF app, temp, task, ghost
<1>1. CASE \E t \in Thread : RecordInline(t)
  BY <1>1 DEF RecordInline, FlushInv
<1>2. CASE InitRecordingThread
  BY <1>2 DEF InitRecordingThread, FlushInv
<1>3. CASE Prepare
  BY <1>3 DEF Prepare, FlushInv
<1>4. CASE Top \/ Reset \/ Pop \/ Join
  BY <1>4 DEF Top, Reset, Pop, Join, FlushInv
<1>5. CASE TimedFlush
  BY <1>5 DEF TimedFlush, FlushInv
<1>6. CASE Process
  BY <1>6 DEF Process, FlushInv
<1>7. CASE Finish
  BY <1>7 DEF Finish, FinalFlush, FlushInv
<1>8. CASE UNCHANGED <<iface, worker, durable, db>>
  BY <1>8 DEF FlushInv
<1>9. QED
  BY <1>1, <1>2, <1>3, <1>4, <1>5, <1>6, <1>7, <1>8
     DEF Next, RecordTask, DriverCreates, DriverDestroys, DriverCreatesPipeline, Copy, Record,
         RecordRefused, EmergencyRecord, Raise, RecordEnd, vars

\* One end item for each worker thread.
LEMMA EndStep ==
    ASSUME Types, LockInv, EndInv, [Next]_vars
    PROVE  EndInv'
<1> USE DEF app, temp, task, ghost
<1>0. Len(queue) \in Nat /\ Len(queue') \in Nat
  BY TypesStep, LenProperties DEF Types
<1>1. ASSUME NEW t \in Thread, Record(t) \/ RecordInline(t) \/ EmergencyRecord(t) PROVE EndInv'
  <2>1. /\ Len(queue') = Len(queue) + 1
        /\ \A i \in 1..Len(queue) : queue'[i] = queue[i]
        /\ queue'[Len(queue) + 1] # End
    BY <1>1, Pushed
  <2>2. NoEnd => NoEnd'
    BY <1>0, <2>1 DEF NoEnd
  <2>3. \A i, j \in 1..Len(queue') : queue'[i] = End /\ queue'[j] = End => i = j
    BY <1>0, <2>1 DEF EndInv
  <2>4. CASE RecordInline(t)
    BY <2>2, <2>3, <2>4 DEF RecordInline, EndInv
  <2>5. CASE UNCHANGED <<worker, looping, item>>
    BY <2>2, <2>3, <2>5 DEF EndInv
  <2>6. QED
    BY <1>1, <2>4, <2>5 DEF Record, EmergencyRecord
<1>2. CASE Pop
  <2>1. /\ Len(queue) = Len(queue') + 1 /\ item' = queue[1]
        /\ \A i \in 1..Len(queue') : queue'[i] = queue[i + 1]
    BY <1>2, Popped
  <2>2. \A i \in 1..Len(queue') : i + 1 \in 1..Len(queue) /\ i + 1 # 1
    BY <1>0, <2>1
  <2>3. NoEnd => NoEnd' /\ item' # End
    BY <1>0, <2>1, <2>2 DEF NoEnd
  <2>4. \A i, j \in 1..Len(queue') : queue'[i] = End /\ queue'[j] = End => i = j
    BY <1>0, <2>1, <2>2 DEF EndInv
  <2>5. item' = End => NoEnd'
    <3>1. 1 \in 1..Len(queue)
      BY <1>0, <2>1
    <3>2. \A j \in 1..Len(queue) : queue[1] = End /\ queue[j] = End => j = 1
      BY <3>1 DEF EndInv
    <3>3. QED
      BY <1>0, <2>1, <2>2, <3>2 DEF NoEnd
  <2>6. QED
    BY <1>2, <2>3, <2>4, <2>5 DEF Pop, EndInv
<1>3. CASE RecordEnd
  <2>1. NoEnd /\ ~(worker = "item" /\ item = End)
    BY <1>3 DEF RecordEnd, Ending, NoEnd, Types
  <2>2. /\ Len(queue') = Len(queue) + 1
        /\ \A i \in 1..Len(queue) : queue'[i] = queue[i]
    BY <1>3, Ended
  <2>3. \A i, j \in 1..Len(queue') : queue'[i] = End /\ queue'[j] = End => i = j
    BY <1>0, <2>1, <2>2 DEF NoEnd
  <2>4. QED
    BY <1>3, <2>1, <2>3 DEF RecordEnd, EndInv
<1>4. CASE queue' = queue
  <2>1. NoEnd' <=> NoEnd
    BY <1>4 DEF NoEnd
  <2>a. CASE Reset
    <3>1. UNCHANGED <<looping, item>> /\ (looping => worker' = "wait") /\ (~looping => worker' = "break")
      BY <2>a DEF Reset
    <3>2. QED
      BY <1>4, <2>1, <3>1 DEF EndInv
  <2>2. CASE InitRecordingThread \/ Join \/ Prepare \/ Top \/ TimedFlush \/ Process
    BY <1>4, <2>1, <2>2 DEF InitRecordingThread, Join, Prepare, Top, TimedFlush, Process, EndInv
  <2>3. CASE Finish
    BY <1>4, <2>1, <2>3 DEF Finish, EndInv
  <2>4. CASE UNCHANGED <<worker, looping, item>>
    BY <1>4, <2>1, <2>4 DEF EndInv
  <2>5. QED
    BY <1>1, <1>2, <1>3, <2>a, <2>2, <2>3, <2>4
       DEF Next, RecordTask, DriverCreates, DriverDestroys, DriverCreatesPipeline, Copy,
           RecordRefused, Raise, vars
<1>5. QED
  BY <1>1, <1>2, <1>3, <1>4, QueueKept

\* The copies that items point to have not been released.
LEMMA AliveStep ==
    ASSUME Types, LockInv, ItemAlive, [Next]_vars
    PROVE  ItemAlive'
<1> USE DEF app, temp, task, ghost
<1>0. /\ Len(queue) \in Nat /\ Len(queue') \in Nat
      /\ DOMAIN queue = 1..Len(queue) /\ DOMAIN queue' = 1..Len(queue')
  BY TypesStep, LenProperties DEF Types
<1>a. \A t \in Thread : copy'[t] # "freed"
  BY LockStep DEF LockInv
<1>1. ASSUME NEW t \in Thread, Record(t) \/ RecordInline(t) \/ EmergencyRecord(t) PROVE ItemAlive'
  <2>0. /\ queue'[Len(queue) + 1].intact = (copy[t] = "made") /\ copy[t] # "none"
        /\ Len(queue') = Len(queue) + 1
        /\ \A i \in 1..Len(queue) : queue'[i] = queue[i]
        /\ item' = item
    BY <1>1, Pushed
  <2>1. /\ Len(queue') = Len(queue) + 1
        /\ \A i \in 1..Len(queue) : queue'[i] = queue[i]
        /\ queue'[Len(queue) + 1].intact /\ item' = item
    BY <2>0 DEF LockInv
  <2>2. worker' = worker \/ worker' = "top"
    BY <1>1 DEF Record, RecordInline, EmergencyRecord
  <2>3. QED
    BY <1>0, <1>a, <2>1, <2>2 DEF ItemAlive
<1>2. CASE Pop
  <2>1. /\ Len(queue) = Len(queue') + 1 /\ item' = queue[1]
        /\ \A i \in 1..Len(queue') : queue'[i] = queue[i + 1]
    BY <1>2, Popped
  <2>2. 1 \in 1..Len(queue) /\ \A i \in 1..Len(queue') : i + 1 \in 1..Len(queue)
    BY <1>0, <2>1
  <2>3. QED
    BY <1>0, <1>a, <2>1, <2>2 DEF ItemAlive
<1>3. CASE RecordEnd
  <2>1. /\ Len(queue') = Len(queue) + 1 /\ queue'[Len(queue) + 1] = End
        /\ \A i \in 1..Len(queue) : queue'[i] = queue[i]
    BY <1>3, Ended
  <2>2. UNCHANGED <<worker, item>>
    BY <1>3 DEF RecordEnd
  <2>3. QED
    BY <1>0, <1>a, <2>1, <2>2 DEF ItemAlive
<1>4. CASE queue' = queue /\ ~Pop
  <2>1. worker' = "item" => worker = "item" /\ item' = item
    BY <1>4
       DEF Next, RecordTask, DriverCreates, DriverDestroys, DriverCreatesPipeline,
           Copy, RecordRefused, Raise, vars, InitRecordingThread, Join, Prepare, Top, Reset, TimedFlush, Process,
           Finish, Record, RecordInline, EmergencyRecord, RecordEnd, Pop
  <2>2. QED
    BY <1>4, <1>a, <2>1 DEF ItemAlive
<1>5. QED
  BY <1>1, <1>2, <1>3, <1>4, QueueKept

-----------------------------------------------------------------------------
(***************************************************************************)
(* Process, seen from outside: what it does to the database and to what it *)
(* could not write.                                                        *)
(***************************************************************************)
LEMMA Processed ==
    ASSUME Types, Process
    PROVE  /\ item \in Items /\ item # End /\ worker = "item" /\ worker' = "top"
           /\ item.op \in {"base", "pipe"} /\ item.handle \in Handle /\ item.means \in Content
           /\ lost \subseteq lost' /\ kept \subseteq kept' /\ refused \subseteq refused'
           /\ \/ db' = db
              \/ /\ iface /\ HashOf # None /\ HashOf \in Content
                 /\ db' = Append(db, [op |-> item.op, hash |-> HashOf, means |-> item.means,
                                      known |-> item.known])
           /\ HashOf # None =>
                 \/ <<item.op, HashOf>> \in Objects(db)
                 \/ db' # db
                 \/ <<item.op, HashOf>> \in lost' \cup kept'
                 \/ ~write /\ <<item.op, HashOf>> \in refused'
<1>1. item \in Items /\ item # End /\ worker = "item" /\ worker' = "top"
  BY DEF Process, Types
<1>2. item.op \in {"base", "pipe"} /\ item.handle \in Handle /\ item.means \in Content
  BY <1>1 DEF Items
<1>3. HashOf \in Content \cup {None}
  BY <1>2 DEF HashOf, Types
<1> DEFINE o == <<item.op, HashOf>>
           e == [op |-> item.op, hash |-> HashOf, means |-> item.means, known |-> item.known]
<1>4. /\ kept' = IF Resolved /\ ~iface THEN kept \cup {o} ELSE kept
      /\ refused' = IF Resolved /\ iface /\ ~write THEN refused \cup {o} ELSE refused
  BY DEF Process
<1>5. \/ /\ Resolved /\ iface /\ write /\ o \notin Objects(db)
         /\ \/ db' = Append(db, e) /\ lost' = lost
            \/ db' = db /\ lost' = lost \cup {o}
      \/ /\ ~(Resolved /\ iface /\ write /\ o \notin Objects(db))
         /\ db' = db /\ lost' = lost
  BY DEF Process, WriteEntry, Missing
<1>6. db # Append(db, e)
  <2> HIDE DEF e
  <2>1. e \in {e} /\ db \in Seq({e} \cup Entries \cup {AppEntry})
    BY DEF Types
  <2>2. Len(Append(db, e)) = Len(db) + 1 /\ Len(db) \in Nat
    BY <2>1, AppendProperties, LenProperties
  <2>3. QED
    BY <2>2
<1> HIDE DEF o, e
<1>7. lost \subseteq lost' /\ kept \subseteq kept' /\ refused \subseteq refused'
  BY <1>4, <1>5
<1>8. \/ db' = db
      \/ iface /\ HashOf # None /\ HashOf \in Content /\ db' = Append(db, e)
  BY <1>3, <1>5 DEF Resolved
<1>9. HashOf # None => \/ o \in Objects(db) \/ db' # db
                       \/ o \in lost' \cup kept' \/ (~write /\ o \in refused')
  BY <1>4, <1>5, <1>6 DEF Resolved
<1>10. QED
  BY <1>1, <1>2, <1>7, <1>8, <1>9 DEF o, e

\* The database only grows, at its end.
LEMMA DbGrows ==
    ASSUME Types, NEW x \in Entries \cup {AppEntry}, db' = Append(db, x)
    PROVE  /\ Len(db) \in Nat /\ Len(db') = Len(db) + 1
           /\ DOMAIN db = 1..Len(db) /\ DOMAIN db' = 1..Len(db) + 1
           /\ \A i \in 1..Len(db) : db'[i] = db[i]
           /\ db'[Len(db) + 1] = x
           /\ Objects(db)' = Objects(db) \cup {<<x.op, x.hash>>}
<1>1. /\ Len(db) \in Nat /\ Len(db') = Len(db) + 1 /\ db' \in Seq(Entries \cup {AppEntry})
      /\ \A i \in 1..Len(db) : db'[i] = db[i] /\ db'[Len(db) + 1] = x
  BY Longer DEF Types
<1>2. DOMAIN db = 1..Len(db) /\ DOMAIN db' = 1..Len(db) + 1
  BY <1>1, LenProperties DEF Types
<1>3. \A i \in DOMAIN db' : i \in DOMAIN db \/ i = Len(db) + 1
  BY <1>1, <1>2
<1>4. Len(db) + 1 \in DOMAIN db' /\ DOMAIN db \subseteq DOMAIN db'
  BY <1>1, <1>2
<1>5. db'[Len(db) + 1] = x
  <2>1. Append(db, x)[Len(db) + 1] = x
    BY AppendProperties DEF Types
  <2>2. QED
    BY <2>1
<1>6. Objects(db)' = Objects(db) \cup {<<x.op, x.hash>>}
  BY <1>1, <1>2, <1>3, <1>4, <1>5 DEF Objects
<1>7. QED
  BY <1>1, <1>2, <1>5, <1>6

\* Only Prepare and Process touch the database and what stands for it.
LEMMA DbKept ==
    ASSUME [Next]_vars, ~Prepare, ~Process
    PROVE  UNCHANGED <<db, to_hash, lost, kept, refused>>
BY DEF Next, RecordTask, DriverCreates, DriverDestroys, DriverCreatesPipeline, Record, RecordInline,
       Copy, RecordRefused, EmergencyRecord, Raise, InitRecordingThread, RecordEnd, Join, Top, Reset,
       TimedFlush, Pop, Finish, vars, app, task, ghost

\* A pipeline never precedes the object it refers to.
LEMMA DepsStep ==
    ASSUME Types, DepsInv, [Next]_vars
    PROVE  DepsInv'
<1>0. Len(db) \in Nat /\ DOMAIN db = 1..Len(db)
  BY LenProperties DEF Types
<1>1. CASE UNCHANGED <<db, to_hash, lost, kept, refused>>
  BY <1>1 DEF DepsInv, DepsFirst, Objects
<1>2. CASE Prepare
  <2>1. UNCHANGED <<to_hash, lost, kept, refused>> /\ (db' = db \/ db' = Append(db, AppEntry))
    BY <1>2 DEF Prepare
  <2>2. CASE db' = Append(db, AppEntry)
    <3>1. /\ DOMAIN db' = 1..Len(db) + 1 /\ \A i \in 1..Len(db) : db'[i] = db[i]
          /\ db'[Len(db) + 1] = AppEntry /\ Objects(db) \subseteq Objects(db)'
      BY <2>2, DbGrows
    <3>2. AppEntry.op # "pipe"
      BY DEF AppEntry
    <3>3. DepsFirst'
      BY <1>0, <2>1, <3>1, <3>2 DEF DepsInv, DepsFirst
    <3>4. QED
      BY <2>1, <3>1, <3>3 DEF DepsInv
  <2>3. QED
    BY <1>1, <2>1, <2>2
<1>3. CASE Process
  <2> DEFINE o == <<item.op, HashOf>>
             e == [op |-> item.op, hash |-> HashOf, means |-> item.means, known |-> item.known]
  <2>0. item.op \in {"base", "pipe"} /\ item.handle \in Handle /\ item.means \in Content
    BY <1>3, Processed
  <2>1. /\ lost \subseteq lost' /\ kept \subseteq kept' /\ refused \subseteq refused'
        /\ db' = db \/ (HashOf \in Content /\ db' = Append(db, e))
        /\ HashOf # None => \/ o \in Objects(db) \/ db' # db \/ o \in lost' \cup kept' \cup refused'
    BY <1>3, Processed
  <2>2. to_hash' = IF item.op = "base" THEN [to_hash EXCEPT ![item.handle] = item.means]
                   ELSE to_hash
    BY <1>3 DEF Process
  <2>3. HashOf \in Content => e \in Entries
    BY <1>3, <2>0 DEF Process, Types, Entries, Items
  <2>4. \/ db' = db /\ Objects(db)' = Objects(db)
        \/ /\ DOMAIN db' = 1..Len(db) + 1 /\ \A i \in 1..Len(db) : db'[i] = db[i]
           /\ db'[Len(db) + 1] = e /\ Objects(db)' = Objects(db) \cup {o}
    <3>1. CASE db' = db
      BY <3>1 DEF Objects
    <3>2. CASE HashOf \in Content /\ db' = Append(db, e)
      <4>1. e.op = item.op /\ e.hash = HashOf
        OBVIOUS
      <4> HIDE DEF e
      <4>2. QED
        BY <2>3, <3>2, <4>1, DbGrows
    <3>3. QED
      BY <2>1, <3>1, <3>2
  <2>5. HashOf # None => o \in Objects(db)' \cup lost' \cup kept' \cup refused'
    BY <2>1, <2>4
  <2>6. ASSUME NEW h \in Handle, to_hash'[h] # None
        PROVE  <<"base", to_hash'[h]>> \in Objects(db)' \cup lost' \cup kept' \cup refused'
    <3>1. CASE item.op = "base" /\ h = item.handle
      <4>1. to_hash'[h] = item.means /\ HashOf = item.means
        BY <2>0, <2>2, <3>1 DEF Types, HashOf
      <4>2. QED
        BY <2>5, <2>6, <3>1, <4>1
    <3>2. CASE ~(item.op = "base" /\ h = item.handle)
      <4>1. to_hash'[h] = to_hash[h]
        BY <2>0, <2>2, <3>2 DEF Types
      <4>2. QED
        BY <2>1, <2>4, <2>6, <4>1 DEF DepsInv
    <3>3. QED
      BY <3>1, <3>2
  <2>7. ASSUME item.op = "pipe", HashOf # None
        PROVE  <<"base", HashOf>> \in Objects(db) \cup lost \cup kept \cup refused
    BY <2>0, <2>7 DEF HashOf, DepsInv
  <2>8. ASSUME NEW i \in DOMAIN db', db'[i].op = "pipe"
        PROVE  \/ \E j \in 1..(i - 1) : db'[j].op = "base" /\ db'[j].hash = db'[i].hash
               \/ <<"base", db'[i].hash>> \in lost' \cup kept' \cup refused'
    <3>1. CASE i \in 1..Len(db) /\ db'[i] = db[i]
      <4>1. \/ \E j \in 1..(i - 1) : db[j].op = "base" /\ db[j].hash = db[i].hash
            \/ <<"base", db[i].hash>> \in lost \cup kept \cup refused
        BY <1>0, <2>8, <3>1 DEF DepsInv, DepsFirst
      <4>2. \A j \in 1..(i - 1) : db'[j] = db[j]
        BY <1>0, <2>4, <3>1
      <4>3. QED
        BY <2>1, <3>1, <4>1, <4>2
    <3>2. CASE i = Len(db) + 1 /\ db'[i] = e /\ \A j \in 1..Len(db) : db'[j] = db[j]
      <4>1. item.op = "pipe" /\ db'[i].hash = HashOf /\ HashOf # None
        <5>1. db' # db
          BY <1>0, <2>8, <3>2
        <5>2. HashOf \in Content
          BY <2>1, <5>1
        <5>3. QED
          BY <2>8, <3>2, <5>2, RecorderAssumption
      <4>2. CASE <<"base", HashOf>> \in Objects(db)
        <5>1. PICK j \in DOMAIN db : db[j].op = "base" /\ db[j].hash = HashOf
          BY <4>2 DEF Objects
        <5>2. QED
          BY <1>0, <3>2, <4>1, <5>1
      <4>3. QED
        BY <2>1, <2>7, <4>1, <4>2
    <3>3. QED
      BY <1>0, <2>4, <2>8, <3>1, <3>2
  <2>9. DepsFirst'
    BY <2>8 DEF DepsFirst
  <2>10. QED
    BY <2>6, <2>9 DEF DepsInv
<1>4. QED
  BY <1>1, <1>2, <1>3, DbKept

(***************************************************************************)
(* The calls of the application.                                           *)
(***************************************************************************)
LEMMA CallStep ==
    ASSUME Types, CallInv, [Next]_vars
    PROVE  CallInv'
<1> USE DEF app, temp, task, ghost
<1>1. ASSUME NEW t \in Thread, NEW h \in Handle, NEW x \in Content, DriverCreates(t, h, x)
      PROVE  CallInv'
  <2> DEFINE call == [op |-> "base", handle |-> h, means |-> x, known |-> TRUE]
  <2>1. busy' = [busy EXCEPT ![t] = call] /\ live' = [live EXCEPT ![h] = x]
        /\ known' = known \ {h} /\ live[h] = None
    BY <1>1 DEF DriverCreates
  <2>2. call.op = "base" /\ call.handle = h /\ call.means = x /\ call.known
    OBVIOUS
  <2> HIDE DEF call
  <2>3. ASSUME NEW u \in Thread, busy[u] \in Calls
        PROVE  busy[u].handle # h /\ busy[u].handle \in Handle
    BY <2>1, <2>3, RecorderAssumption DEF CallInv, Calls
  <2>4. busy'[t] = call /\ \A u \in Thread \ {t} : busy'[u] = busy[u]
    BY <2>1 DEF Types
  <2>5. live'[h] = x /\ \A g \in Handle \ {h} : live'[g] = live[g]
    BY <2>1 DEF Types
  <2>6. QED
    BY <2>1, <2>2, <2>3, <2>4, <2>5 DEF CallInv
<1>2. ASSUME NEW t \in Thread, NEW h \in Handle, DriverDestroys(t, h) PROVE CallInv'
  <2>1. live' = [live EXCEPT ![h] = None] /\ busy' = busy /\ known' = known
    BY <1>2 DEF DriverDestroys
  <2>2. ASSUME NEW u \in Thread, busy[u] \in Calls
        PROVE  busy[u].handle # h /\ busy[u].handle \in Handle
    BY <1>2, <2>2, Apart DEF DriverDestroys, InUse, Calls
  <2>3. \A g \in Handle \ {h} : live'[g] = live[g]
    BY <2>1 DEF Types
  <2>4. QED
    BY <2>1, <2>2, <2>3 DEF CallInv
<1>3. ASSUME NEW t \in Thread, NEW h \in Handle, DriverCreatesPipeline(t, h) PROVE CallInv'
  <2> DEFINE call == [op |-> "pipe", handle |-> h, means |-> live[h], known |-> h \in known]
  <2>1. busy' = [busy EXCEPT ![t] = call] /\ live' = live /\ known' = known
    BY <1>3, Zenon DEF DriverCreatesPipeline
  <2>2. call.op = "pipe" /\ call.handle = h /\ call.means = live[h]
    OBVIOUS
  <2>3. call.known => h \in known
    OBVIOUS
  <2> HIDE DEF call
  <2>4. ASSUME NEW u \in Thread, busy[u] \in Calls, busy[u].op = "base"
        PROVE  busy[u].handle # h
    BY <1>3, <2>4, Apart DEF DriverCreatesPipeline, InUse
  <2>5. busy'[t] = call /\ \A u \in Thread \ {t} : busy'[u] = busy[u]
    BY <2>1 DEF Types
  <2>6. QED
    BY <2>1, <2>2, <2>3, <2>4, <2>5 DEF CallInv
<1>4. ASSUME NEW t \in Thread, Record(t) \/ RecordInline(t) \/ EmergencyRecord(t) PROVE CallInv'
  <2>1. live' = live /\ busy[t] \in Calls
        /\ known' = IF busy[t].op = "base" THEN known \cup {busy[t].handle} ELSE known
    BY <1>4, Pushed DEF Push
  <2>2. busy'[t] \notin Calls /\ \A u \in Thread \ {t} : busy'[u] = busy[u]
    <3>1. /\ [busy[t] EXCEPT !.op = "drain"] \notin Calls
          /\ [busy[t] EXCEPT !.op = "crash"] \notin Calls
      BY <2>1 DEF Calls
    <3>2. \/ busy' = [busy EXCEPT ![t] = Idle]
          \/ busy' = [busy EXCEPT ![t] = [busy[t] EXCEPT !.op = "drain"]]
          \/ busy' = [busy EXCEPT ![t] = [busy[t] EXCEPT !.op = "crash"]]
      BY <1>4 DEF Record, RecordInline, EmergencyRecord
    <3>3. QED
      BY <3>1, <3>2, Apart DEF Types
  <2>3. QED
    BY <2>1, <2>2 DEF CallInv
<1>5. ASSUME NEW t \in Thread, RecordRefused(t) PROVE CallInv'
  <2>1. live' = live /\ known' = known /\ busy' = [busy EXCEPT ![t] = Idle]
    BY <1>5 DEF RecordRefused
  <2>2. busy'[t] \notin Calls /\ \A u \in Thread \ {t} : busy'[u] = busy[u]
    BY <2>1, Apart DEF Types
  <2>3. QED
    BY <2>1, <2>2 DEF CallInv
<1>6. CASE Finish
  <2>1. live' = live /\ known' = known /\ \A u \in Thread : busy'[u] = busy[u] \/ busy'[u] = Idle
    BY <1>6 DEF Finish
  <2>2. QED
    BY <2>1, Apart DEF CallInv
<1>7. CASE UNCHANGED <<live, known, busy>>
  BY <1>7 DEF CallInv
<1>8. QED
  BY <1>1, <1>2, <1>3, <1>4, <1>5, <1>6, <1>7
     DEF Next, RecordTask, Copy, Raise, InitRecordingThread, RecordEnd, Join, Prepare, Top, Reset,
         TimedFlush, Pop, Process, vars

-----------------------------------------------------------------------------
(***************************************************************************)
(* What a handle will resolve to.  Only Pop changes the item that the      *)
(* worker is at, and Process does to to_hash what Now has foreseen.        *)
(***************************************************************************)
LEMMA AtItemKept ==
    ASSUME Types, [Next]_vars, ~Pop, ~Process
    PROVE  /\ AtItem' <=> AtItem
           /\ AtItem => item' = item
           /\ to_hash' = to_hash
<1> USE DEF app, task, ghost, vars
<1>1. CASE UNCHANGED <<worker, item>>
  BY <1>1, DbKept DEF AtItem, Next, RecordTask, Prepare, DriverCreates
<1>2. CASE \E t \in Thread : RecordInline(t)
  BY <1>2 DEF RecordInline, AtItem
<1>3. CASE InitRecordingThread \/ Join \/ Prepare \/ Top \/ Reset \/ TimedFlush \/ Finish
  BY <1>3 DEF InitRecordingThread, Join, Prepare, Top, Reset, TimedFlush, Finish, AtItem
<1>4. QED
  BY <1>1, <1>2, <1>3
     DEF Next, RecordTask, DriverCreates, DriverDestroys, DriverCreatesPipeline, Copy, Record,
         RecordRefused, EmergencyRecord, Raise, RecordEnd

\* Unless the worker takes an item, what a handle resolves to after the current
\* item stays the same.
LEMMA NowKept ==
    ASSUME Types, [Next]_vars, ~Pop, NEW h \in Handle
    PROVE  Now(h)' = Now(h)
<1>1. CASE Process
  <2>1. /\ AtItem /\ ~AtItem' /\ item.op \in {"base", "pipe"} /\ item.handle \in Handle
        /\ to_hash' = IF item.op = "base" THEN [to_hash EXCEPT ![item.handle] = item.means]
                      ELSE to_hash
    BY <1>1, Processed DEF Process, AtItem
  <2>2. QED
    BY <2>1 DEF Now, Types
<1>2. CASE ~Process
  BY <1>2, AtItemKept DEF Now
<1>3. QED
  BY <1>1, <1>2

\* Nor does a step that leaves the first n items change what they will do.
LEMMA WillKept ==
    ASSUME NEW h \in Handle, NEW x, NEW n \in Nat, Will(h, x, n),
           \A i \in 1..n : queue'[i] = queue[i], Now(h)' = Now(h)
    PROVE  Will(h, x, n)'
<1>1. Bases(h, n)' = Bases(h, n)
  BY DEF Bases
<1>2. \A i \in Bases(h, n) : queue'[i] = queue[i]
  BY DEF Bases
<1>3. QED
  BY <1>1, <1>2 DEF Will

\* One more in the queue that is not about the handle.
LEMMA WillBeyond ==
    ASSUME NEW h \in Handle, NEW x, NEW n \in Nat, Will(h, x, n)',
           ~(queue'[n + 1] # End /\ queue'[n + 1].op = "base" /\ queue'[n + 1].handle = h)
    PROVE  Will(h, x, n + 1)'
<1>1. Bases(h, n + 1)' = Bases(h, n)'
  BY DEF Bases
<1>2. QED
  BY <1>1 DEF Will

\* One more that is.
LEMMA WillBe ==
    ASSUME NEW h \in Handle, NEW x, NEW n \in Nat, queue'[n + 1] # End,
           queue'[n + 1].op = "base", queue'[n + 1].handle = h, queue'[n + 1].means = x
    PROVE  Will(h, x, n + 1)'
<1>1. n + 1 \in Bases(h, n + 1)' /\ \A j \in Bases(h, n + 1)' : j <= n + 1
  BY DEF Bases
<1>2. QED
  BY <1>1 DEF Will

\* The oldest item moves from the queue to the worker.
LEMMA WillPop ==
    ASSUME Types, Pop, NEW h \in Handle, NEW x, NEW n \in Nat, n < Len(queue),
           Will(h, x, n + 1)
    PROVE  Will(h, x, n)'
<1>0. /\ Len(queue') \in Nat /\ Len(queue) = Len(queue') + 1 /\ item' = queue[1]
      /\ \A i \in 1..Len(queue') : queue'[i] = queue[i + 1]
      /\ worker = "wait" /\ worker' = "item" /\ to_hash' = to_hash
  BY Popped DEF Pop
<1>1. \A i \in 1..n : i \in Bases(h, n)' <=> i + 1 \in Bases(h, n + 1)
  BY <1>0 DEF Bases
<1>2. Bases(h, n)' \subseteq 1..n /\ Bases(h, n + 1) \subseteq 1..n + 1
  BY DEF Bases
<1>3. Now(h) = to_hash[h]
  BY <1>0 DEF Now, AtItem
<1>4. 1 \in Bases(h, n + 1) <=> queue[1] # End /\ queue[1].op = "base" /\ queue[1].handle = h
  BY DEF Bases
<1>5. Now(h)' = IF 1 \in Bases(h, n + 1) THEN queue[1].means ELSE to_hash[h]
  BY <1>0, <1>4 DEF Now, AtItem
<1>6. CASE Bases(h, n + 1) = {} /\ Now(h) = x
  <2>1. Bases(h, n)' = {}
    BY <1>1, <1>2, <1>6
  <2>2. QED
    BY <1>3, <1>5, <1>6, <2>1 DEF Will
<1>7. ASSUME NEW i \in Bases(h, n + 1), queue[i].means = x, \A j \in Bases(h, n + 1) : j <= i
      PROVE  Will(h, x, n)'
  <2>1. CASE i = 1
    <3>1. Bases(h, n)' = {}
      BY <1>1, <1>2, <1>7, <2>1
    <3>2. QED
      BY <1>5, <1>7, <2>1, <3>1 DEF Will
  <2>2. CASE i # 1
    <3>1. i - 1 \in 1..n /\ i \in 1..n + 1
      BY <1>2, <2>2
    <3>2. i - 1 \in Bases(h, n)'
      BY <1>1, <3>1
    <3>3. queue'[i - 1] = queue[i]
      BY <1>0, <3>1
    <3>4. ASSUME NEW j \in Bases(h, n)' PROVE j <= i - 1
      <4>1. j \in 1..n /\ j + 1 \in Bases(h, n + 1)
        BY <1>1, <1>2
      <4>2. QED
        BY <1>7, <3>1, <4>1
    <3>5. QED
      BY <1>7, <3>2, <3>3, <3>4 DEF Will
  <2>3. QED
    BY <2>1, <2>2
<1>8. QED
  BY <1>6, <1>7 DEF Will

\* The two uses of Will in the invariant, after a step.
LEMMA WillNext ==
    ASSUME NEW h, NEW x, NEW n, Will(h, x, n)'
    PROVE  /\ x = live'[h] /\ n = Len(queue') => Will(h, live[h], Len(queue))'
           /\ \A i : /\ h = queue'[i].handle /\ x = queue'[i].means /\ n = i - 1
                     => Will(queue[i].handle, queue[i].means, i - 1)'
<1>1. Now(h)' = IF AtItem' /\ item'.op = "base" /\ item'.handle = h THEN item'.means
                ELSE to_hash'[h]
  BY DEF Now
<1>2. QED
  BY <1>1 DEF Will, Bases, Now

\* A pipeline is written with the hash of what its handle was.
LEMMA RightStep ==
    ASSUME Types, NameInv, [Next]_vars
    PROVE  ResolvedRight'
<1>0. Len(db) \in Nat /\ DOMAIN db = 1..Len(db) /\ ResolvedRight
  BY LenProperties DEF Types, NameInv
<1>1. CASE db' = db
  BY <1>0, <1>1 DEF ResolvedRight
<1>2. ASSUME NEW e \in Entries \cup {AppEntry}, db' = Append(db, e), e.known => e.hash = e.means
      PROVE  ResolvedRight'
  <2>1. /\ DOMAIN db' = 1..Len(db) + 1 /\ \A i \in 1..Len(db) : db'[i] = db[i]
        /\ db'[Len(db) + 1] = e
    BY <1>2, DbGrows
  <2>2. QED
    BY <1>0, <1>2, <2>1 DEF ResolvedRight
<1>3. CASE Prepare
  <2>1. db' = db \/ db' = Append(db, AppEntry)
    BY <1>3 DEF Prepare
  <2>2. AppEntry.hash = AppEntry.means
    BY DEF AppEntry
  <2>3. QED
    BY <1>1, <1>2, <2>1, <2>2
<1>4. CASE Process
  <2> DEFINE e == [op |-> item.op, hash |-> HashOf, means |-> item.means, known |-> item.known]
  <2>1. /\ item \in Items /\ AtItem /\ item.op \in {"base", "pipe"}
        /\ db' = db \/ (HashOf \in Content /\ db' = Append(db, e))
    BY <1>4, Processed DEF AtItem
  <2>2. item.known => HashOf = item.means
    BY <2>1 DEF HashOf, NameInv
  <2>3. HashOf \in Content => e \in Entries
    BY <2>1 DEF Entries, Items
  <2>4. e.known = item.known /\ e.hash = HashOf /\ e.means = item.means
    OBVIOUS
  <2> HIDE DEF e
  <2>5. QED
    BY <1>1, <1>2, <2>1, <2>2, <2>3, <2>4
<1>5. QED
  BY <1>1, <1>3, <1>4, DbKept

\* Handles that are queued, or alive, will resolve as they should.
LEMMA NameStep ==
    ASSUME Types, LockInv, CallInv, NameInv, [Next]_vars
    PROVE  NameInv'
<1> USE DEF app, temp, task, ghost
<1>0. /\ Len(queue) \in Nat /\ Len(queue') \in Nat /\ known \subseteq Handle
      /\ \A i \in 1..Len(queue) : queue[i] \in Items \cup {End}
  BY TypesStep, LenProperties, ElementOfSeq DEF Types
<1>a. \A i \in 1..Len(queue) : queue[i] # End => queue[i].handle \in Handle
  BY <1>0 DEF Items
<1>1. ResolvedRight'
  BY RightStep
<1>2. CASE Pop
  <2>0. /\ Len(queue) = Len(queue') + 1 /\ item' = queue[1]
        /\ \A i \in 1..Len(queue') : queue'[i] = queue[i + 1]
        /\ worker = "wait" /\ UNCHANGED <<to_hash, live, known>>
    BY <1>2, Popped DEF Pop
  <2>1. ASSUME NEW h \in known, live'[h] # None PROVE Will(h, live[h], Len(queue))'
    <3>1. Will(h, live[h], Len(queue))
      BY <2>0, <2>1 DEF NameInv
    <3> DEFINE x == live[h]
               n == Len(queue) - 1
    <3>2. Will(h, x, n + 1) /\ n \in Nat /\ n < Len(queue)
      <4>1. n + 1 = Len(queue)
        BY <1>0
      <4>2. Will(h, x, n + 1)
        BY <3>1, <4>1
      <4>3. QED
        BY <1>0, <2>0, <4>2
    <3>3. x = live'[h] /\ n = Len(queue')
      BY <1>0, <2>0
    <3>4. PICK y, m : y = x /\ m = n
      OBVIOUS
    <3>5. Will(h, y, m)'
      <4>1. Will(h, y, m + 1) /\ m \in Nat /\ m < Len(queue)
        BY <3>2, <3>4
      <4>2. QED
        BY <1>0, <1>2, <4>1, WillPop
    <3>6. QED
      BY <3>3, <3>4, <3>5, WillNext
  <2>2. ASSUME NEW i \in 1..Len(queue'), queue'[i] # End, queue'[i].op = "pipe", queue'[i].known
        PROVE  Will(queue[i].handle, queue[i].means, i - 1)'
    <3>1. i + 1 \in 1..Len(queue) /\ queue'[i] = queue[i + 1] /\ (i + 1) - 1 = (i - 1) + 1
      BY <1>0, <2>0
    <3>2. Will(queue[i + 1].handle, queue[i + 1].means, (i + 1) - 1)
      BY <2>2, <3>1 DEF NameInv
    <3>3. PICK h, x, m : h = queue[i + 1].handle /\ x = queue[i + 1].means /\ m = i - 1
      OBVIOUS
    <3>4. Will(h, x, m)'
      <4>1. Will(h, x, m + 1) /\ m \in Nat /\ m < Len(queue) /\ h \in Handle
        BY <1>0, <1>a, <2>0, <2>2, <3>1, <3>2, <3>3
      <4>2. QED
        BY <1>2, <4>1, WillPop
    <3>5. QED
      BY <3>1, <3>3, <3>4, WillNext
  <2>3. ASSUME item' # End, item'.op = "pipe", item'.known
        PROVE  to_hash'[item'.handle] = item'.means
    <3>1. 1 \in 1..Len(queue)
      BY <1>0, <2>0
    <3>2. Will(item'.handle, item'.means, 1 - 1)
      BY <2>0, <2>3, <3>1 DEF NameInv
    <3>3. Bases(item'.handle, 1 - 1) = {}
      BY DEF Bases
    <3>4. Now(item'.handle) = item'.means
      BY <3>2, <3>3 DEF Will
    <3>5. QED
      BY <2>0, <3>4 DEF Now, AtItem
  <2>4. QED
    BY <1>1, <2>0, <2>1, <2>2, <2>3 DEF NameInv, AtItem
<1>3. CASE ~Pop
  <2>1. ASSUME NEW h \in Handle, NEW x, NEW n \in Nat, Will(h, x, n),
               \A i \in 1..n : queue'[i] = queue[i]
        PROVE  Will(h, x, n)'
    <3>1. Now(h)' = Now(h)
      BY <1>3, NowKept
    <3>2. QED
      BY <2>1, <3>1, WillKept
  <2>2. AtItem' /\ item'.op = "pipe" /\ item'.known => to_hash'[item'.handle] = item'.means
    <3>1. CASE Process
      BY <3>1 DEF Process, AtItem
    <3>2. CASE ~Process
      BY <1>3, <3>2, AtItemKept DEF NameInv
    <3>3. QED
      BY <3>1, <3>2
  <2>3. ASSUME NEW i \in 1..Len(queue), queue'[i] = queue[i], \A j \in 1..i - 1 : queue'[j] = queue[j],
               queue'[i] # End, queue'[i].op = "pipe", queue'[i].known
        PROVE  Will(queue[i].handle, queue[i].means, i - 1)'
    <3>1. Will(queue[i].handle, queue[i].means, i - 1)
      BY <2>3 DEF NameInv
    <3>2. PICK h, x, m : h = queue[i].handle /\ x = queue[i].means /\ m = i - 1
      OBVIOUS
    <3>3. Will(h, x, m)'
      <4>1. Will(h, x, m) /\ m \in Nat /\ h \in Handle /\ \A j \in 1..m : queue'[j] = queue[j]
        BY <1>0, <1>a, <2>3, <3>1, <3>2
      <4>2. QED
        BY <2>1, <4>1
    <3>4. QED
      BY <2>3, <3>2, <3>3, WillNext
  <2>4. ASSUME NEW h \in known, live[h] # None, live'[h] = live[h],
               \A j \in 1..Len(queue) : queue'[j] = queue[j],
               \/ Len(queue') = Len(queue)
               \/ /\ Len(queue') = Len(queue) + 1
                  /\ ~(/\ queue'[Len(queue) + 1] # End /\ queue'[Len(queue) + 1].op = "base"
                       /\ queue'[Len(queue) + 1].handle = h)
        PROVE  Will(h, live[h], Len(queue))'
    <3>1. Will(h, live[h], Len(queue))
      BY <2>4 DEF NameInv
    <3>2. PICK x, m : x = live[h] /\ m = Len(queue)
      OBVIOUS
    <3>3. Will(h, x, m)' /\ m \in Nat /\ h \in Handle
      <4>1. Will(h, x, m) /\ m \in Nat /\ h \in Handle /\ \A j \in 1..m : queue'[j] = queue[j]
        BY <1>0, <2>4, <3>1, <3>2
      <4>2. QED
        BY <2>1, <4>1
    <3>4. CASE Len(queue') = Len(queue)
      BY <2>4, <3>2, <3>3, <3>4, WillNext
    <3>5. CASE Len(queue') = Len(queue) + 1
      <4>1. Will(h, x, m + 1)'
        BY <1>0, <2>4, <3>2, <3>3, <3>5, WillBeyond
      <4>2. QED
        BY <2>4, <3>2, <3>5, <4>1, WillNext
    <3>6. QED
      BY <2>4, <3>4, <3>5
  <2>5. ASSUME NEW t \in Thread, Record(t) \/ RecordInline(t) \/ EmergencyRecord(t)
        PROVE  NameInv'
    <3> DEFINE n == Len(queue) + 1
    <3>1. /\ Len(queue') = n /\ \A i \in 1..Len(queue) : queue'[i] = queue[i]
          /\ queue'[n] \in Items /\ queue'[n] # End
          /\ queue'[n].op = busy[t].op /\ queue'[n].handle = busy[t].handle
          /\ queue'[n].means = busy[t].means /\ queue'[n].known = busy[t].known
          /\ busy[t] \in Calls /\ live' = live
          /\ known' = IF busy[t].op = "base" THEN known \cup {busy[t].handle} ELSE known
      BY <2>5, Pushed DEF Push
    <3>2. /\ live[busy[t].handle] = busy[t].means /\ busy[t].means \in Content /\ None \notin Content
          /\ busy[t].handle \in Handle /\ busy[t].op \in {"base", "pipe"}
          /\ busy[t].op = "base" => busy[t].handle \notin known
          /\ busy[t].op = "pipe" /\ busy[t].known => busy[t].handle \in known
      BY <3>1, RecorderAssumption DEF CallInv, Calls
    <3>3. ASSUME NEW h \in known', live'[h] # None PROVE Will(h, live[h], Len(queue))'
      <4>1. CASE h \in known
        BY <2>4, <3>1, <3>2, <3>3, <4>1
      <4>2. CASE busy[t].op = "base" /\ h = busy[t].handle
        <5>1. PICK x, m : x = live[h] /\ m = Len(queue)
          OBVIOUS
        <5>2. Will(h, x, m + 1)'
          BY <1>0, <3>1, <3>2, <4>2, <5>1, WillBe
        <5>3. QED
          BY <3>1, <5>1, <5>2, WillNext
      <4>3. QED
        BY <3>1, <3>3, <4>1, <4>2
    <3>4. ASSUME NEW i \in 1..Len(queue'), queue'[i] # End, queue'[i].op = "pipe", queue'[i].known
          PROVE  Will(queue[i].handle, queue[i].means, i - 1)'
      <4>1. CASE i \in 1..Len(queue)
        BY <1>0, <2>3, <3>1, <3>4, <4>1
      <4>2. CASE i = n
        <5>1. busy[t].handle \in known /\ Will(busy[t].handle, live[busy[t].handle], Len(queue))
          BY <3>1, <3>2, <3>4, <4>2 DEF NameInv
        <5>2. PICK h, x, m : h = busy[t].handle /\ x = busy[t].means /\ m = Len(queue)
          OBVIOUS
        <5>3. Will(h, x, m)'
          <6>1. Will(h, x, m) /\ m \in Nat /\ h \in Handle /\ \A j \in 1..m : queue'[j] = queue[j]
            BY <1>0, <3>1, <3>2, <5>1, <5>2
          <6>2. QED
            BY <2>1, <6>1
        <5>4. m = i - 1
          BY <1>0, <4>2, <5>2
        <5>5. QED
          BY <3>1, <4>2, <5>2, <5>3, <5>4, WillNext
      <4>3. QED
        BY <1>0, <3>1, <4>1, <4>2
    <3>5. QED
      BY <1>1, <2>2, <3>3, <3>4 DEF NameInv
  <2>6. ASSUME \A j \in 1..Len(queue) : queue'[j] = queue[j],
               \/ Len(queue') = Len(queue)
               \/ Len(queue') = Len(queue) + 1 /\ queue'[Len(queue) + 1] = End,
               \A h \in known' : live'[h] # None => h \in known /\ live'[h] = live[h]
        PROVE  NameInv'
    <3>1. ASSUME NEW h \in known', live'[h] # None PROVE Will(h, live[h], Len(queue))'
      BY <2>4, <2>6, <3>1
    <3>2. ASSUME NEW i \in 1..Len(queue'), queue'[i] # End, queue'[i].op = "pipe", queue'[i].known
          PROVE  Will(queue[i].handle, queue[i].means, i - 1)'
      <4>1. i \in 1..Len(queue) /\ \A j \in 1..i - 1 : j \in 1..Len(queue)
        BY <1>0, <2>6, <3>2
      <4>2. QED
        BY <2>3, <2>6, <3>2, <4>1
    <3>3. QED
      BY <1>1, <2>2, <3>1, <3>2 DEF NameInv
  <2>7. CASE RecordEnd
    BY <2>6, <2>7, Ended DEF RecordEnd
  <2>8. CASE queue' = queue /\ \A t \in Thread : ~Record(t) /\ ~RecordInline(t) /\ ~EmergencyRecord(t)
    <3>1. \A h \in known' : live'[h] # None => h \in known /\ live'[h] = live[h]
      <4>1. CASE UNCHANGED <<known, live>>
        BY <4>1
      <4>2. ASSUME NEW t \in Thread, NEW h \in Handle, NEW x \in Content, DriverCreates(t, h, x)
            PROVE  \A g \in known' : live'[g] # None => g \in known /\ live'[g] = live[g]
        BY <1>0, <4>2 DEF DriverCreates, Types
      <4>3. ASSUME NEW t \in Thread, NEW h \in Handle, DriverDestroys(t, h)
            PROVE  \A g \in known' : live'[g] # None => g \in known /\ live'[g] = live[g]
        BY <1>0, <4>3 DEF DriverDestroys, Types
      <4>4. QED
        BY <2>8, <4>1, <4>2, <4>3
           DEF Next, RecordTask, DriverCreatesPipeline, Copy, RecordRefused, Raise, InitRecordingThread,
               RecordEnd, Join, Prepare, Top, Reset, TimedFlush, Pop, Process, Finish, vars
    <3>2. QED
      BY <2>6, <2>8, <3>1
  <2>9. QED
    BY <1>3, <2>5, <2>7, <2>8, QueueKept
<1>4. QED
  BY <1>2, <1>3
-----------------------------------------------------------------------------
\* What waits before the worker goes on waiting while the worker does not end,
\* is between two items or stays where it is, and the queue only grows.
LEMMA WaitsOn ==
    ASSUME Types, NEW o, Waiting(o), Len(queue) \in Nat, Len(queue') \in Nat, Len(queue) <= Len(queue'),
           \A j \in 1..Len(queue) : queue'[j] = queue[j],
           \/ UNCHANGED <<worker, item>>
           \/ ~AtItem /\ worker' \in {"top", "reset", "wait", "break"}
    PROVE  Waiting(o)'
<1>1. CASE AtItem /\ item.known /\ o = <<item.op, item.means>>
  BY <1>1 DEF Waiting, AtItem
<1>2. CASE ~(AtItem /\ item.known /\ o = <<item.op, item.means>>)
  <2>1. PICK i \in 1..Len(queue) :
           /\ queue[i] # End /\ queue[i].known /\ o = <<queue[i].op, queue[i].means>>
           /\ \A j \in 1..i - 1 : queue[j] # End
    BY <1>2 DEF Waiting
  <2>2. i \in 1..Len(queue') /\ queue'[i] = queue[i] /\ \A j \in 1..i - 1 : queue'[j] = queue[j]
    BY <2>1
  <2>3. worker # "ended" /\ ~(worker = "item" /\ item = End)
    BY <1>2 DEF Waiting
  <2>4. worker' # "ended" /\ ~(worker' = "item" /\ item' = End)
    BY <2>3
  <2>5. QED
    BY <2>1, <2>2, <2>4 DEF Waiting
<1>3. QED
  BY <1>1, <1>2

\* What the worker thread was given before its end item is not forgotten.
LEMMA DueStep ==
    ASSUME Types, LockInv, EndInv, NameInv, DueInv, [Next]_vars
    PROVE  DueInv'
<1>0. /\ Types' /\ Len(queue) \in Nat /\ Len(queue') \in Nat
      /\ DOMAIN queue = 1..Len(queue)
  BY TypesStep, LenProperties DEF Types
<1>1. ASSUME NEW t \in Thread, Record(t) \/ RecordInline(t) \/ EmergencyRecord(t) PROVE DueInv'
  <2>1. CASE RecordInline(t)
    BY <2>1 DEF RecordInline, DueInv
  <2>2. CASE Record(t) \/ EmergencyRecord(t)
    <3> DEFINE n == Len(queue) + 1
    <3>1. /\ Len(queue') = n /\ \A i \in 1..Len(queue) : queue'[i] = queue[i]
          /\ queue'[n] # End /\ queue'[n].op = busy[t].op /\ queue'[n].means = busy[t].means
          /\ queue'[n].known = busy[t].known /\ Push(t)
      BY <1>1, Pushed
    <3>2. UNCHANGED <<worker, looping, item, db, kept, lost, write>>
      BY <2>2 DEF Record, EmergencyRecord, task
    <3>3. ASSUME NEW o \in due, Waiting(o) PROVE Waiting(o)'
      BY <1>0, <3>1, <3>2, <3>3, WaitsOn
    <3>4. ASSUME NEW o \in due', o \notin due PROVE Waiting(o)'
      <4>1. /\ worker # "ended" /\ ~Ending /\ busy[t].known
            /\ o = <<busy[t].op, busy[t].means>>
        BY <3>1, <3>4 DEF Push
      <4>2. ~(worker = "item" /\ item = End) /\ \A i \in 1..Len(queue) : queue[i] # End
        BY <1>0, <4>1 DEF Ending
      <4>3. n \in 1..Len(queue') /\ \A j \in 1..n - 1 : queue'[j] # End
        BY <1>0, <3>1, <4>2
      <4>4. QED
        BY <3>1, <3>2, <4>1, <4>2, <4>3 DEF Waiting
    <3>5. QED
      BY <3>2, <3>3, <3>4 DEF DueInv, Objects
  <2>3. QED
    BY <1>1, <2>1, <2>2
<1>2. CASE Pop
  <2>1. /\ Len(queue) = Len(queue') + 1 /\ item' = queue[1]
        /\ \A i \in 1..Len(queue') : queue'[i] = queue[i + 1]
    BY <1>2, Popped
  <2>2. worker = "wait" /\ worker' = "item" /\ UNCHANGED <<looping, due, db, kept, lost, write>>
    BY <1>2 DEF Pop
  <2>3. ASSUME NEW o \in due, Waiting(o) PROVE Waiting(o)'
    <3>1. PICK i \in 1..Len(queue) :
             /\ queue[i] # End /\ queue[i].known /\ o = <<queue[i].op, queue[i].means>>
             /\ \A j \in 1..i - 1 : queue[j] # End
      BY <2>2, <2>3 DEF Waiting, AtItem
    <3>2. CASE i = 1
      BY <2>1, <2>2, <3>1, <3>2 DEF Waiting, AtItem
    <3>3. CASE i # 1
      <4>1. PICK k \in Int : k = i - 1
        BY <3>1
      <4>2. k \in 1..Len(queue') /\ queue'[k] = queue[i] /\ item' # End
        BY <1>0, <2>1, <3>1, <3>3, <4>1
      <4>3. \A j \in 1..k - 1 : queue'[j] # End
        BY <1>0, <2>1, <3>1, <4>1, <4>2
      <4>4. QED
        BY <2>2, <3>1, <4>2, <4>3 DEF Waiting
    <3>4. QED
      BY <3>2, <3>3
  <2>4. QED
    BY <2>2, <2>3 DEF DueInv, Objects
<1>3. CASE RecordEnd
  <2>1. /\ Len(queue') = Len(queue) + 1
        /\ \A i \in 1..Len(queue) : queue'[i] = queue[i]
    BY <1>3, Ended
  <2>2. UNCHANGED <<worker, looping, item, due, db, kept, lost, write>>
    BY <1>3 DEF RecordEnd, task
  <2>3. ASSUME NEW o \in due, Waiting(o) PROVE Waiting(o)'
    BY <1>0, <2>1, <2>2, <2>3, WaitsOn
  <2>4. QED
    BY <2>2, <2>3 DEF DueInv, Objects
<1>4. CASE queue' = queue /\ Process
  <2> DEFINE e == [op |-> item.op, hash |-> HashOf, means |-> item.means, known |-> item.known]
  <2>1. /\ item.op \in {"base", "pipe"} /\ item.means \in Content /\ item.handle \in Handle
        /\ item # End /\ worker = "item" /\ worker' = "top"
        /\ lost \subseteq lost' /\ kept \subseteq kept'
        /\ db' = db \/ (HashOf \in Content /\ db' = Append(db, e))
        /\ HashOf # None => \/ <<item.op, HashOf>> \in Objects(db) \/ db' # db
                            \/ <<item.op, HashOf>> \in lost' \cup kept' \/ ~write
    BY <1>4, Processed
  <2>2. UNCHANGED <<looping, due, write, item>>
    BY <1>4 DEF Process
  <2>3. HashOf \in Content => e \in Entries
    BY <1>4, <2>1 DEF Process, Types, Entries, Items
  <2>4. \/ db' = db /\ Objects(db)' = Objects(db)
        \/ Objects(db)' = Objects(db) \cup {<<item.op, HashOf>>}
    <3>1. CASE db' = db
      BY <3>1 DEF Objects
    <3>2. CASE HashOf \in Content /\ db' = Append(db, e)
      <4>1. e.op = item.op /\ e.hash = HashOf
        OBVIOUS
      <4> HIDE DEF e
      <4>2. QED
        BY <2>3, <3>2, <4>1, DbGrows
    <3>3. QED
      BY <2>1, <3>1, <3>2
  <2>5. item.known => HashOf = item.means
    BY <2>1 DEF HashOf, NameInv, AtItem
  <2>6. ASSUME NEW o \in due, Waiting(o)
        PROVE  o \in Objects(db)' \cup kept' \cup lost' \/ ~write \/ Waiting(o)'
    <3>1. CASE item.known /\ o = <<item.op, item.means>>
      <4>1. HashOf = item.means /\ HashOf # None
        BY <2>1, <2>5, <3>1, RecorderAssumption
      <4>2. QED
        BY <2>1, <2>4, <3>1, <4>1
    <3>2. CASE ~(item.known /\ o = <<item.op, item.means>>)
      BY <1>4, <2>1, <2>2, <2>6, <3>2 DEF Waiting
    <3>3. QED
      BY <3>1, <3>2
  <2>7. Objects(db) \subseteq Objects(db)'
    BY <2>4
  <2>8. QED
    BY <2>1, <2>2, <2>6, <2>7 DEF DueInv
<1>5. CASE queue' = queue /\ Prepare
  <2>1. /\ UNCHANGED <<looping, due, kept, lost, item>> /\ worker = "start" /\ worker' = "top"
        /\ db' = db \/ db' = Append(db, AppEntry)
    BY <1>5 DEF Prepare
  <2>2. Objects(db) \subseteq Objects(db)'
    <3>1. CASE db' = db
      BY <3>1 DEF Objects
    <3>2. CASE db' = Append(db, AppEntry)
      BY <3>2, DbGrows
    <3>3. QED
      BY <2>1, <3>1, <3>2
  <2>3. ASSUME NEW o \in due, Waiting(o) PROVE Waiting(o)'
    BY <1>0, <1>5, <2>1, <2>3, WaitsOn DEF AtItem
  <2>4. QED
    BY <2>1, <2>2, <2>3 DEF DueInv
<1>6. CASE queue' = queue /\ (Top \/ Reset \/ TimedFlush)
  <2>1. /\ UNCHANGED <<looping, due, db, kept, lost, item, write>>
        /\ worker \in {"top", "reset", "wait"} /\ worker' \in {"top", "reset", "wait", "break"}
    BY <1>6 DEF Top, Reset, TimedFlush, task
  <2>2. ASSUME NEW o \in due, Waiting(o) PROVE Waiting(o)'
    BY <1>0, <1>6, <2>1, <2>2, WaitsOn DEF AtItem
  <2>3. QED
    BY <2>1, <2>2 DEF DueInv, Objects
<1>7. CASE Finish
  <2>1. CASE ~looping
    BY <1>7, <2>1 DEF Finish, DueInv
  <2>2. CASE looping
    <3>1. worker = "item" /\ item = End /\ UNCHANGED <<looping, due, db, kept, lost, write>>
          /\ worker' = "ended"
      BY <1>7, <2>2 DEF Finish, EndInv
    <3>2. \A o : ~Waiting(o)
      BY <3>1 DEF Waiting, AtItem
    <3>3. QED
      BY <2>2, <3>1, <3>2 DEF DueInv, Objects
  <2>3. QED
    BY <2>1, <2>2
<1>8. CASE InitRecordingThread
  BY <1>8 DEF InitRecordingThread, DueInv
<1>9. CASE Join
  BY <1>9 DEF Join, DueInv
<1>10. CASE queue' = queue /\ UNCHANGED <<worker, looping, item, due, db, kept, lost, write>>
  <2>1. ASSUME NEW o \in due, Waiting(o) PROVE Waiting(o)'
    BY <1>0, <1>10, <2>1, WaitsOn
  <2>2. QED
    BY <1>10, <2>1 DEF DueInv, Objects
<1>11. QED
  <2>1. CASE queue' = queue /\ ~Pop /\ ~RecordEnd
    BY <1>1, <1>4, <1>5, <1>6, <1>7, <1>8, <1>9, <1>10, <2>1
       DEF Next, RecordTask, DriverCreates, DriverDestroys, DriverCreatesPipeline, Copy,
           RecordRefused, Raise, vars, task
  <2>2. QED
    BY <1>1, <1>2, <1>3, <2>1, QueueKept

-----------------------------------------------------------------------------
\* The initial state satisfies the invariant.
LEMMA InvInit == Init => IInv
<1> SUFFICES ASSUME Init PROVE IInv
  OBVIOUS
<1>1. Types
  BY TypesInit
<1>2. Len(queue) = 0 /\ Len(db) = 0 /\ DOMAIN queue = {} /\ DOMAIN db = {} /\ durable = 0
  <2>1. queue = <<>> /\ db = <<>> /\ durable = 0
    BY DEF Init
  <2>2. QED
    BY <2>1
<1>3. LockInv /\ FlushInv /\ EndInv /\ ItemAlive
  BY <1>2 DEF Init, LockInv, FlushInv, EndInv, NoEnd, ItemAlive
<1>4. DepsInv
  BY <1>2 DEF Init, DepsInv, DepsFirst
<1>5. CallInv
  <2>1. \A t \in Thread : busy[t] = Idle
    BY DEF Init
  <2>2. QED
    BY <2>1, Apart DEF CallInv
<1>6. NameInv
  BY <1>2 DEF Init, NameInv, ResolvedRight, AtItem
<1>7. DueInv
  BY DEF Init, DueInv
<1>8. QED
  BY <1>1, <1>3, <1>4, <1>5, <1>6, <1>7 DEF IInv

\* Every step keeps the invariant.
LEMMA InvStep == IInv /\ [Next]_vars => IInv'
<1> SUFFICES ASSUME IInv, [Next]_vars PROVE IInv'
  OBVIOUS
<1>1. Types' /\ LockInv' /\ FlushInv' /\ EndInv' /\ ItemAlive' /\ DepsInv'
  BY TypesStep, LockStep, FlushStep, EndStep, AliveStep, DepsStep DEF IInv
<1>2. CallInv' /\ NameInv' /\ DueInv'
  BY CallStep, NameStep, DueStep DEF IInv
<1>3. QED
  BY <1>1, <1>2 DEF IInv

(***************************************************************************)
(* The invariant holds in every behaviour.                                 *)
(***************************************************************************)
THEOREM InductiveInvariant == Spec => []IInv
BY InvInit, InvStep, PTL DEF Spec

(***************************************************************************)
(* The state of the recorder has its types: in particular no flush claims  *)
(* more of the database than was written.                                  *)
(***************************************************************************)
THEOREM TypeCorrect == Spec => []TypeOK
<1>1. IInv => TypeOK
  <2> SUFFICES ASSUME Types PROVE TypeOK
    BY DEF IInv
  <2>1. \A t \in Thread : busy[t] = Idle \/ busy[t].op \in {"drain", "crash"} \/ busy[t] \in Calls
    BY DEF Types, Elsewhere
  <2>2. \A i \in DOMAIN queue : queue[i] \in Items \cup {End}
    BY LenProperties, ElementOfSeq DEF Types
  <2>3. \A i \in DOMAIN db : db[i] \in Entries \cup {AppEntry}
    BY LenProperties, ElementOfSeq DEF Types
  <2>4. QED
    BY <2>1, <2>2, <2>3 DEF Types, TypeOK
<1>2. QED
  BY <1>1, InductiveInvariant, PTL

(***************************************************************************)
(* A pipeline never precedes in the database the object it refers to.      *)
(***************************************************************************)
THEOREM DependenciesFirst == Spec => []DepsFirst
<1>1. IInv => DepsFirst
  BY DEF IInv, DepsInv
<1>2. QED
  BY <1>1, InductiveInvariant, PTL

(***************************************************************************)
(* A pipeline is written with the hash of the object its handle was when   *)
(* it was created, however late the worker gets to it and however often    *)
(* the driver has reused the handle by then.                               *)
(***************************************************************************)
THEOREM HandlesResolved == Spec => []ResolvedRight
<1>1. IInv => ResolvedRight
  BY DEF IInv, NameInv
<1>2. QED
  BY <1>1, InductiveInvariant, PTL

(***************************************************************************)
(* No copy in temp_allocator is released between its making and its use:   *)
(* the reset never falls between a thread's copy and its push, nor while   *)
(* an item waits, since record_lock spans both pairs of steps.             *)
(***************************************************************************)
THEOREM CopiesAlive == Spec => []ItemAlive
<1>1. IInv => ItemAlive
  BY DEF IInv
<1>2. QED
  BY <1>1, InductiveInvariant, PTL

(***************************************************************************)
(* tear_down_recording_thread leaves nothing behind: all the worker was    *)
(* given before its end item has been dealt with and is on disk.           *)
(***************************************************************************)
THEOREM TearDownComplete == Spec => []TornDownAll
<1>1. IInv => TornDownAll
  <2> SUFFICES ASSUME IInv, worker = "ended"
               PROVE  durable = Len(db) /\ (write => due \subseteq Objects(db) \cup kept \cup lost)
    BY DEF TornDownAll
  <2>1. durable = Len(db)
    BY DEF IInv, FlushInv
  <2>2. looping
    BY DEF IInv, EndInv
  <2>3. \A o : ~Waiting(o)
    BY DEF Waiting, AtItem
  <2>4. QED
    BY <2>1, <2>2, <2>3 DEF IInv, DueInv
<1>2. QED
  BY <1>1, InductiveInvariant, PTL

=============================================================================
