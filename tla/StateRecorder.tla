--------------------------- MODULE StateRecorder ---------------------------
(***************************************************************************)
(* StateRecorder of fossilize.cpp with the layer that feeds it: the        *)
(* application's threads create and destroy Vulkan objects, the layer      *)
(* records each creation by pushing a copy of its arguments onto a locked  *)
(* queue, and one worker thread (record_task) resolves handles to hashes   *)
(* and writes the objects to the database.                                 *)
(*                                                                         *)
(* Objects are of two ranks: a base object (sampler, set layout, shader    *)
(* module, render pass, pipeline layout) is its content, which stands for  *)
(* its hash; a pipeline is recorded with the HANDLE of a base object, and  *)
(* handles are reused by the driver.  The database is the sequence of its  *)
(* writes, of which a prefix has reached the disk.                         *)
(***************************************************************************)
EXTENDS Integers, Sequences

None == "none"       \* no object, no hash; nobody
Worker == "worker"   \* whoever runs record_task

CONSTANTS
    Thread,      \* application threads
    Handle,      \* values the driver gives to base objects
    Content,     \* base objects that differ in their hash
    MaxRecords,  \* bound: vkCreate* calls
    MaxSessions  \* bound: calls of init_recording_thread

ASSUME RecorderAssumption ==
    /\ None \notin Content /\ None \notin Thread /\ Worker \notin Thread
    /\ MaxRecords \in Nat /\ MaxSessions \in Nat

VARIABLES
    live,        \* driver: content of each live handle, or None
    known,       \* history: the handles whose object was recorded
    busy,        \* the call each thread is in: what it is about to record
    creates, sessions,
    lock,        \* who holds record_lock over several steps
    copy,        \* each thread's copy in temp_allocator that is not queued yet
    queue,       \* record_queue
    worker,      \* where record_task is; "none" when nobody runs it
    looping,     \* it is run by the worker thread, not by a record_* call
    item,        \* record_item
    iface,       \* database_iface is set
    write,       \* write_database_entries
    need_flush,
    to_hash,     \* *_to_hash: handle to hash, None if absent
    app_info,    \* application_info points into memory not yet released
    db,          \* entries written, in order
    durable,     \* how many of them a flush has put on disk for certain
    kept,        \* objects retained for serialize()
    process,     \* "up", "dying" (in the SIGSEGV handler) or "dead"
    \* History:
    due,         \* objects the last worker thread was given before its end item
    lost,        \* objects whose write_entry failed
    refused,     \* objects passed over because of the application filter
    crashed      \* pipelines in whose creation the driver crashed

app   == <<live, known, busy, creates>>
temp  == <<lock, copy>>
task  == <<item, iface, write, need_flush, to_hash, app_info, db, durable, kept, lost, refused>>
ghost == <<process, crashed>>
vars  == <<app, sessions, temp, queue, worker, looping, task, due, ghost>>

Idle == [op |-> "idle"]
End  == [op |-> "end"]               \* an item without create_info

\* What a record_* call is given.  A pipeline holds the handle of a base
\* object; means is history: the object that handle was at that moment.
Calls == [op : {"base", "pipe"}, handle : Handle, means : Content, known : BOOLEAN]

\* An item of the queue: the call and whether its copy, which lives in
\* temp_allocator, is still there.
Items == [op : {"base", "pipe"}, handle : Handle, means : Content, known : BOOLEAN,
          intact : BOOLEAN]

\* A database entry: its tag and hash, and (history) what it should have been.
\* It stands for the blob and its application blob link.
Entries == [op : {"base", "pipe"}, hash : Content, means : Content, known : BOOLEAN]

AppEntry == [op |-> "app", hash |-> None, means |-> None, known |-> TRUE]

Objects(s) == {<<s[i].op, s[i].hash>> : i \in DOMAIN s}

Init ==                              \* after record_application_info
    /\ live = [h \in Handle |-> None] /\ known = {}
    /\ busy = [t \in Thread |-> Idle]
    /\ creates = 0 /\ sessions = 0
    /\ lock = None /\ copy = [t \in Thread |-> "none"] /\ queue = <<>>
    /\ worker = "none" /\ looping = FALSE /\ item = End
    /\ iface = FALSE /\ write = TRUE /\ need_flush = FALSE
    /\ to_hash = [h \in Handle |-> None] /\ app_info = TRUE
    /\ db = <<>> /\ durable = 0 /\ kept = {}
    /\ process = "up"
    /\ due = {} /\ lost = {} /\ refused = {} /\ crashed = {}

Running == process # "dead"

-----------------------------------------------------------------------------
(***************************************************************************)
(* The application and the driver.  Vulkan requires that an object is not  *)
(* destroyed while a call uses it, and nobody can use it before the call   *)
(* that creates it returns.  Destruction is not recorded.                  *)
(***************************************************************************)
InUse(h, ops) == \E t \in Thread : busy[t] # Idle /\ busy[t].op \in ops /\ busy[t].handle = h

DriverCreates(t, h, x) ==
    /\ Running /\ busy[t] = Idle
    /\ live[h] = None /\ creates < MaxRecords
    /\ live' = [live EXCEPT ![h] = x]
    /\ known' = known \ {h}
    /\ busy' = [busy EXCEPT ![t] = [op |-> "base", handle |-> h, means |-> x, known |-> TRUE]]
    /\ creates' = creates + 1
    /\ UNCHANGED <<sessions, temp, queue, worker, looping, task, due, ghost>>

DriverDestroys(t, h) ==
    /\ Running /\ busy[t] = Idle
    /\ live[h] # None /\ ~InUse(h, {"base", "pipe", "crash"})
    /\ live' = [live EXCEPT ![h] = None]
    /\ UNCHANGED <<known, busy, creates, sessions, temp, queue, worker, looping, task, due, ghost>>

DriverCreatesPipeline(t, h) ==
    /\ Running /\ busy[t] = Idle
    /\ live[h] # None /\ ~InUse(h, {"base"}) /\ creates < MaxRecords
    /\ busy' = [busy EXCEPT ![t] =
                   [op |-> "pipe", handle |-> h, means |-> live[h], known |-> h \in known]]
    /\ creates' = creates + 1
    /\ UNCHANGED <<live, known, sessions, temp, queue, worker, looping, task, due, ghost>>

-----------------------------------------------------------------------------
(***************************************************************************)
(* record_*: under record_lock, copy into temp_allocator, then push and    *)
(* notify.  With no worker thread the caller runs record_task itself; two  *)
(* callers never do so at once (that mode is for single-threaded use).     *)
(***************************************************************************)
\* Slip: the lock is taken for the push only.
CopyUnlocked(t) == UNCHANGED lock

CopyLocks(t) == lock = None /\ lock' = t

Copy(t) ==
    /\ Running /\ busy[t] \in Calls /\ copy[t] = "none"
    /\ worker = "none" \/ looping
    /\ CopyLocks(t)
    /\ copy' = [copy EXCEPT ![t] = "made"]
    /\ UNCHANGED <<app, sessions, queue, worker, looping, task, due, ghost>>

Ending == End \in {queue[i] : i \in DOMAIN queue} \/ (item = End /\ worker = "item")

Push(t) ==
    LET call == busy[t]
    IN  /\ call \in Calls /\ copy[t] # "none"
        /\ lock \in {t, None} /\ lock' = None
        /\ copy' = [copy EXCEPT ![t] = "none"]
        /\ queue' = Append(queue, [op |-> call.op, handle |-> call.handle,
                                   means |-> call.means, known |-> call.known,
                                   intact |-> copy[t] = "made"])
        /\ due' = IF looping /\ worker # "ended" /\ ~Ending /\ call.known
                  THEN due \cup {<<call.op, call.means>>} ELSE due
        /\ known' = IF call.op = "base" THEN known \cup {call.handle} ELSE known

Record(t) ==
    /\ Running /\ worker # "none" /\ looping
    /\ Push(t)
    /\ busy' = [busy EXCEPT ![t] = Idle]
    /\ UNCHANGED <<live, creates, sessions, worker, looping, task, ghost>>

RecordInline(t) ==
    /\ Running /\ worker = "none"
    /\ Push(t)
    /\ busy' = [busy EXCEPT ![t].op = "drain"]
    /\ worker' = "top" /\ looping' = FALSE
    /\ write' = TRUE /\ need_flush' = FALSE
    /\ UNCHANGED <<live, creates, sessions, item, iface, to_hash, app_info, db,
                   durable, kept, lost, refused, ghost>>

RecordRefused(t) ==                  \* unsupported pNext, or the copy failed
    /\ Running /\ busy[t] \in Calls /\ copy[t] = "none"
    /\ busy' = [busy EXCEPT ![t] = Idle]
    /\ UNCHANGED <<live, known, creates, sessions, temp, queue, worker, looping, task, due, ghost>>

(***************************************************************************)
(* With FOSSILIZE_DUMP_SIGSEGV the layer has left the arguments in thread  *)
(* local storage; a crash of the driver runs emergencyRecord(), which      *)
(* returns what record_*_pipeline returns, and the signal is raised again. *)
(***************************************************************************)
EmergencyRecord(t) ==
    /\ process = "up" /\ busy[t] # Idle /\ busy[t].op = "pipe"
    /\ worker # "none" /\ looping
    /\ Push(t)
    /\ crashed' = IF busy[t].known THEN {<<"pipe", busy[t].means>>} ELSE {}
    /\ process' = "dying"
    /\ busy' = [busy EXCEPT ![t].op = "crash"]
    /\ UNCHANGED <<live, creates, sessions, worker, looping, task>>

Raise ==
    /\ process = "dying"
    /\ process' = "dead"
    /\ UNCHANGED <<app, sessions, temp, queue, worker, looping, task, due, crashed>>

-----------------------------------------------------------------------------
(***************************************************************************)
(* init_recording_thread and tear_down_recording_thread (sync_thread).     *)
(***************************************************************************)
InitRecordingThread ==
    /\ Running /\ worker = "none" /\ sessions < MaxSessions
    /\ sessions' = sessions + 1
    /\ iface' \in BOOLEAN
    /\ worker' = "start" /\ looping' = TRUE
    /\ due' = {}
    /\ UNCHANGED <<app, temp, queue, item, write, need_flush, to_hash, app_info, db, durable,
                   kept, lost, refused, ghost>>

RecordEnd ==
    /\ Running /\ worker \notin {"none", "ended"} /\ looping /\ ~Ending
    /\ lock = None
    /\ queue' = Append(queue, End)
    /\ UNCHANGED <<app, sessions, temp, worker, looping, task, due, ghost>>

Join ==
    /\ Running /\ worker = "ended"
    /\ worker' = "none" /\ looping' = FALSE
    /\ UNCHANGED <<app, sessions, temp, queue, task, due, ghost>>

-----------------------------------------------------------------------------
(***************************************************************************)
(* record_task.                                                            *)
(***************************************************************************)
\* The database may fail to prepare, the filter may refuse the application and
\* the entry with the application info may not be written; it does not set
\* need_flush.
Prepare ==
    /\ Running /\ worker = "start"
    /\ iface' \in {iface, FALSE}
    /\ write' \in {TRUE, ~iface}
    /\ need_flush' = FALSE
    /\ db' \in {db} \cup
          (IF iface' /\ write' /\ <<"app", None>> \notin Objects(db)
           THEN {Append(db, AppEntry)} ELSE {})
    /\ worker' = "top"
    /\ UNCHANGED <<app, sessions, temp, queue, looping, item, to_hash, app_info, durable,
                   kept, lost, refused, due, ghost>>

Spoilt(q) == [i \in DOMAIN q |-> IF q[i] = End THEN End ELSE [q[i] EXCEPT !.intact = FALSE]]

Top ==                               \* the lock is kept until the reset is done
    /\ Running /\ worker = "top"
    /\ lock = None /\ lock' = IF queue = <<>> THEN Worker ELSE None
    /\ worker' = IF queue = <<>> THEN "reset" ELSE "wait"
    /\ UNCHANGED <<app, sessions, copy, queue, looping, task, due, ghost>>

\* temp_allocator.reset(): every copy made so far is lost, queued or not.
ResetTemp ==
    /\ queue' = Spoilt(queue)
    /\ copy' = [t \in Thread |-> IF copy[t] = "made" THEN "freed" ELSE copy[t]]

Reset ==                             \* the lock is let go by the wait or the break
    /\ Running /\ worker = "reset"
    /\ ResetTemp
    /\ lock' = IF lock = Worker THEN None ELSE lock
    /\ worker' = IF looping THEN "wait" ELSE "break"
    /\ UNCHANGED <<app, sessions, looping, task, due, ghost>>

TimedFlush ==                        \* a second without new items
    /\ Running /\ worker = "wait" /\ lock = None /\ queue = <<>>
    /\ iface /\ need_flush
    /\ durable' = Len(db)
    /\ need_flush' = FALSE
    /\ worker' = "top"
    /\ UNCHANGED <<app, sessions, temp, queue, looping, item, iface, write, to_hash, app_info,
                   db, kept, lost, refused, due, ghost>>

\* Slip: the queue is a stack.
PopNewest ==
    /\ Running /\ worker = "wait" /\ lock = None /\ queue # <<>>
    /\ item' = queue[Len(queue)]
    /\ queue' = SubSeq(queue, 1, Len(queue) - 1)
    /\ worker' = "item"
    /\ UNCHANGED <<app, sessions, temp, looping, iface, write, need_flush, to_hash, app_info,
                   db, durable, kept, lost, refused, due, ghost>>

Pop ==
    /\ Running /\ worker = "wait" /\ lock = None /\ queue # <<>>
    /\ item' = Head(queue)
    /\ queue' = Tail(queue)
    /\ worker' = "item"
    /\ UNCHANGED <<app, sessions, temp, looping, iface, write, need_flush, to_hash, app_info,
                   db, durable, kept, lost, refused, due, ghost>>

-----------------------------------------------------------------------------
(***************************************************************************)
(* One item.  A base object takes the course of a shader module, of which  *)
(* there are most; a pipeline that refers to an unknown handle has no hash *)
(* and is dropped.                                                         *)
(***************************************************************************)
HashOf == IF item.op = "pipe" THEN to_hash[item.handle] ELSE item.means

\* Slip: a failed lookup is not noticed.
ResolvedAlways == TRUE

Resolved == HashOf # None

\* Slip: what a known handle stands for is taken to be in the database.
MissingIfNewHandle(op, hash) ==
    /\ <<op, hash>> \notin Objects(db)
    /\ op = "base" => to_hash[item.handle] = None

Missing(op, hash) == <<op, hash>> \notin Objects(db)

\* Slip: writing a pipeline does not ask for a flush.
MarkDirtyBase == need_flush' = (need_flush \/ item.op = "base")

MarkDirty == need_flush' = TRUE

\* The result of write_entry is ignored; when the object cannot be serialized
\* there is nothing to write.
WriteEntry(hash) ==
    \/ /\ db' = Append(db, [op |-> item.op, hash |-> hash, means |-> item.means,
                            known |-> item.known])
       /\ lost' = lost
       /\ MarkDirty
    \/ /\ lost' = lost \cup {<<item.op, hash>>}
       /\ db' = db
       /\ MarkDirty \/ UNCHANGED need_flush

Process ==
    /\ Running /\ worker = "item" /\ item # End
    /\ to_hash' = IF item.op = "base" THEN [to_hash EXCEPT ![item.handle] = item.means]
                  ELSE to_hash
    /\ IF Resolved /\ iface /\ write /\ Missing(item.op, HashOf)
       THEN WriteEntry(HashOf)
       ELSE UNCHANGED <<need_flush, db, lost>>
    /\ kept' = IF Resolved /\ ~iface THEN kept \cup {<<item.op, HashOf>>} ELSE kept
    /\ refused' = IF Resolved /\ iface /\ ~write THEN refused \cup {<<item.op, HashOf>>}
                  ELSE refused
    \* allocator.reset() releases application_info too.
    /\ app_info' = (app_info /\ ~(iface /\ Resolved /\
                       (item.op = "pipe" \/ (write /\ Missing(item.op, HashOf)))))
    /\ worker' = "top"
    /\ UNCHANGED <<app, sessions, temp, queue, looping, item, iface, write, durable, due, ghost>>

\* Slip: the thread ends without a last flush.
FinalFlushNone == durable' = durable

FinalFlush == durable' = IF iface THEN Len(db) ELSE durable

Finish ==                            \* the end of record_task
    /\ Running
    /\ \/ /\ worker = "item" /\ item = End
          /\ worker' = "ended"
          /\ UNCHANGED busy
       \/ /\ worker = "break"
          /\ worker' = "none"
          /\ busy' = [t \in Thread |-> IF busy[t] # Idle /\ busy[t].op = "drain"
                                       THEN Idle ELSE busy[t]]
    /\ FinalFlush
    /\ iface' = FALSE
    /\ UNCHANGED <<live, known, creates, sessions, temp, queue, looping, item, write, need_flush,
                   to_hash, app_info, db, kept, lost, refused, due, ghost>>

RecordTask == Prepare \/ Top \/ Reset \/ TimedFlush \/ Pop \/ Process \/ Finish

Next ==
    \/ \E t \in Thread, h \in Handle, x \in Content : DriverCreates(t, h, x)
    \/ \E t \in Thread, h \in Handle : DriverDestroys(t, h)
    \/ \E t \in Thread, h \in Handle : DriverCreatesPipeline(t, h)
    \/ \E t \in Thread : Copy(t)
    \/ \E t \in Thread : Record(t)
    \/ \E t \in Thread : RecordInline(t)
    \/ \E t \in Thread : RecordRefused(t)
    \/ \E t \in Thread : EmergencyRecord(t)
    \/ Raise
    \/ InitRecordingThread \/ RecordEnd \/ Join
    \/ RecordTask

\* The worker keeps running (the wait for a flush times out), a thread that has
\* made its copy goes on to push it, and a raised signal is delivered.
Spec ==
    /\ Init /\ [][Next]_vars
    /\ WF_vars(RecordTask) /\ WF_vars(Raise)
    /\ WF_vars(\E t \in Thread : Record(t) \/ RecordInline(t))

-----------------------------------------------------------------------------
TypeOK ==
    /\ live \in [Handle -> Content \cup {None}]
    /\ known \subseteq Handle
    /\ \A t \in Thread : busy[t] = Idle \/ busy[t].op \in {"drain", "crash"} \/ busy[t] \in Calls
    /\ creates \in 0..MaxRecords /\ sessions \in 0..MaxSessions
    /\ lock \in Thread \cup {None, Worker}
    /\ copy \in [Thread -> {"none", "made", "freed"}]
    /\ \A i \in DOMAIN queue : queue[i] \in Items \cup {End}
    /\ worker \in {"none", "start", "top", "reset", "wait", "break", "item", "ended"}
    /\ item \in Items \cup {End}
    /\ looping \in BOOLEAN /\ iface \in BOOLEAN /\ write \in BOOLEAN
    /\ need_flush \in BOOLEAN /\ app_info \in BOOLEAN
    /\ to_hash \in [Handle -> Content \cup {None}]
    /\ \A i \in DOMAIN db : db[i] \in Entries \cup {AppEntry}
    /\ durable \in 0..Len(db)
    /\ process \in {"up", "dying", "dead"}

(***************************************************************************)
(* A pipeline never precedes in the database the object it refers to,      *)
(* unless writing that object failed or it was recorded while there was no *)
(* database or one the filter kept it from: record_task takes the items in *)
(* the order they were pushed and writes each object at the first of them. *)
(***************************************************************************)
DepsFirst ==
    \A i \in DOMAIN db :
        db[i].op = "pipe" =>
            \/ \E j \in 1..(i - 1) : db[j].op = "base" /\ db[j].hash = db[i].hash
            \/ <<"base", db[i].hash>> \in lost \cup kept \cup refused

(***************************************************************************)
(* Although the driver reuses handles and items wait in the queue while it *)
(* does, a pipeline is written with the hash of the object its handle was  *)
(* when it was created, provided that object was accepted by record_*.     *)
(***************************************************************************)
ResolvedRight ==
    \A i \in DOMAIN db : db[i].known => db[i].hash = db[i].means

(***************************************************************************)
(* A copy of a call's arguments outlives its use: while a thread goes from *)
(* the copy to the push, while the item waits and while the worker is at   *)
(* it.  temp_allocator is shared and reset as a whole, so the worker's     *)
(* look at the empty queue must not fall between a thread's copy and its   *)
(* push, nor a copy between that look and the reset.                       *)
(***************************************************************************)
ItemAlive ==
    /\ \A t \in Thread : copy[t] # "freed"
    /\ \A i \in DOMAIN queue : queue[i] # End => queue[i].intact
    /\ (worker = "item" /\ item # End) => item.intact

(***************************************************************************)
(* When record_task has returned to tear_down_recording_thread, everything *)
(* recorded before the end item is in the database (or was retained, or    *)
(* its write failed) and all that was written is on disk.                  *)
(***************************************************************************)
TornDownAll ==
    worker = "ended" =>
        /\ durable = Len(db)
        /\ write => due \subseteq Objects(db) \cup kept \cup lost

Unflushed == \E n \in (durable + 1)..Len(db) : db[n].op # "app"

(***************************************************************************)
(* The objects written are flushed in the end, once the application pauses *)
(* (creations are bounded here): the worker flushes after a second without *)
(* items, or when it ends.  (The application info alone may stay behind.)  *)
(***************************************************************************)
FlushedEventually == Unflushed ~> (~Unflushed \/ process = "dead")

(***************************************************************************)
(* README.md: "the offending pipeline is serialized to disk in the         *)
(* segfault handler", "the serialization thread is flushed".  Refuted:     *)
(* emergencyRecord() returns as soon as the pipeline is queued.            *)
(***************************************************************************)
EmergencyDurable ==
    \A x \in Content :
        (<<"pipe", x>> \in crashed \cap due /\ iface /\ write /\ worker # "start") ~>
            \/ <<"pipe", x>> \in Objects(SubSeq(db, 1, durable)) \cup kept \cup lost
=============================================================================
