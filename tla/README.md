# Fossilize in TLA+

Fossilize records the Vulkan objects an application creates (a layer and the
`StateRecorder` of `fossilize.cpp`), stores them in `.foz` archives
(`fossilize_db.cpp`), and replays them later in crash-prone drivers
(`fossilize-replay`: a master process, worker processes it restarts, and a
client library, `ExternalReplayer`, that watches the master through shared
memory). This directory models the parts in which several actors, or a kill at
a bad moment, decide whether it works.

## 1. Inventory

| Part | State | Operations | Interacts with |
|---|---|---|---|
| `StreamArchive` (fossilize_db.cpp:573-1104) | the file, stdio position and buffer, `seen_blobs` | prepare (open, scan), write_entry, flush, read_entry, close | recorder worker, replayer threads, the next process that opens the file |
| `ConcurrentDatabase`, merge (1123-1394) | primed hashes, a read-only archive, a lazily created write archive | prepare, has_entry, write_entry, merge | `StreamArchive`, other processes in the same directory |
| directory and zip back ends, hash filters (75-564) | index of entries, white and black lists | the same interface | tools |
| futex mutex (platform/futex_wrapper_linux.hpp) | one int in shared memory | lock, unlock | kernel |
| `SharedControlBlock` (fossilize_external_replayer_control_block.hpp) | ring, counters, started, complete | read, write | client, master, workers |
| `ExternalReplayer` (fossilize_external_replayer_linux.hpp) | pid, kill pipe, parsed messages | start, poll_progress, is_process_complete, wait, kill | fork, signals, control block |
| replay master (cli/fossilize_replay_linux.hpp) | `ProcessProgress` per slot, `Global` | epoll loop, parse, process_shutdown, start_child_process | children by pipe, SIGCHLD, timerfd |
| replay child, `ThreadedReplayer` (cli/fossilize_replay.cpp) | work queue, counts per memory context, deferred and derived pipelines, module cache, indices per thread | seven passes of the main thread, parse, module and create items of the workers, crash handlers | master by pipe, archive, driver |
| `StateRecorder` (fossilize.cpp) | record_queue, two allocators, handle to hash maps, objects kept | record_*, record_task, init and tear down of the thread | layer, database |
| layer (layer/) | dispatch tables, recorder per application, thread local crash state | vkCreate*, SIGSEGV handler | application, driver, recorder |
| `StateReplayer`, hashing, serialization (fossilize.cpp), varint | caches of parsed objects | parse, compute_hash_*, serialize_* | replayer, tools |
| filters, object cache, paths, command line tools | small | sequential | libraries above |

What is hard here, and what makes each part correct:

* **Archive.** A process may be killed between any two writes. An entry that has
  once been found in a file must be found and be unchanged ever after; what a
  session that closed normally stored must be readable; damaged payloads must be
  refused.
* **Futex mutex.** Exclusion while the word passes through 1 on its way from 2
  to 0; no sleeper is forgotten.
* **Control block, ExternalReplayer.** FIFO without torn messages when the ring
  is full; nothing the master said is lost at the end; kill() never races the
  creation of the process group; wait() ends.
* **Replay master.** Events of one epoll batch refer to children that other
  events of the batch have replaced; lines hide in stdio buffers; SIGCHLD merges.
  Every death is noticed, SIGKILL hits the right process, a slot only moves
  forward, a restarted child knows what to avoid, a hung one is killed.
* **Concurrent database.** Processes that know nothing of each other write next to
  one archive while a tool appends their files to it. No two write one file, no
  entry is lost again, a session that ends normally has stored what it was told is
  kept, a merge that reports success is complete.
* **Threaded replayer.** Seven passes over chunks in two memory contexts overlap;
  a count per context is all that keeps memory, modules and base pipelines from
  being used before they are there or after they are gone. Every pipeline gets
  its turn, also behind a crash.
* **Recorder.** Handles are reused while items wait in the queue; memory is
  shared between threads and reset; writes are flushed late. Pipelines follow the
  objects they refer to and name the right ones; nothing is lost at tear down.

`PROJECT.json` lists the hazards one by one with their lines.

## 2. Modules

| Module | Models | Extends |
|---|---|---|
| `StreamArchive` | the archive as a sequence of cells | |
| `MCStreamArchive` | sizes for TLC | `StreamArchive` |
| `StreamArchiveProofs` | theorems | `StreamArchive` |
| `EntryStore` | abstract: what users of a shared database rely on | |
| `ConcurrentDatabase` | recording processes and merges on one database path; implements `EntryStore` | instance of `EntryStore` |
| `MCConcurrentDatabase` | its symmetry for TLC | `ConcurrentDatabase` |
| `ConcurrentDatabaseProofs` | theorems, the refinement among them | `ConcurrentDatabase` |
| `FutexLock` | the mutex, one action per instruction | |
| `FutexTest` | test/futex_test.cpp on it | `FutexLock` |
| `FutexLockProofs`, `FutexTestProofs` | theorems | `FutexLock`, `FutexTest` |
| `ControlBlock` | the ring as operators on a record | |
| `ExternalReplayer` | client, master and ring under the lock | `FutexLock`, `ControlBlock` |
| `ExternalReplayerProofs` | theorems | `ExternalReplayer`, `FutexLockProofs` |
| `ReplayMaster` | master, children, pipes, timers, signals | |
| `ReplayMasterProofs` | theorems | `ReplayMaster` |
| `ThreadedReplayer` | the child's main thread and workers, crashes and restarts | |
| `MCThreadedReplayer` | its lists for TLC | `ThreadedReplayer` |
| `ThreadedReplayerProofs` | theorems | `ThreadedReplayer` |
| `StateRecorder` | application, layer, queue, worker, database | |
| `StateRecorderProofs` | theorems | `StateRecorder` |

Operators beginning with the name of another and commented `Slip:` are versions
of it with a plausible mistake; no action uses them. They document what each
property guards against: with the slip in place of the original, TLC finds the
property violated (see "mutants" in `PROJECT.json`).

### StreamArchive

A *cell* is the 16-byte magic, a 40-byte name, a 16-byte header, or a unit of
payload. `disk` is what the kernel has, `buf` what fwrite accepted, `pos` the
stdio position: `Drain` moves one cell, so a `Kill` can leave any prefix, and
because no branch of `prepare()` truncates, old cells stay beyond new ones. What
the scanner makes of a cell depends on where it finds it: `PayloadSize` of a cell
that is no header is `Misread` or `AsciiSize`, parameters that stand for whatever
number those bytes happen to be. `PrepareScan`, `ScanEntry`, `ScanEnd`,
`ScanSlicedHead` and `ScanSlicedPayload` are the loop; `AppendPos` is the line
that decides where an append session begins. `WriteEntryFails` leaves any proper
prefix of an entry in the stream, as the returns of write_entry do. The variables
from `added` on are history. `commit` and `bounds` record which entries scans of
this file have accepted, `written` how a key was last stored. A bit-exact payload
is its cells; the CRC is modelled by what it detects (`Intact`).

### EntryStore, ConcurrentDatabase

`EntryStore` has five variables: the entries any later reader finds (`stored`),
the keys of entries that were cut short (`cut`), what each session was told is kept
(`promised`), whether one of its writes failed, and whether it runs. `Persist` may
happen any time, `Close` only when all that was promised is stored or a write of
the session has failed, `Kill` and `Fail` any time.

In `ConcurrentDatabase` a file is the set of entries that a scan lists and the
state of its magic (`head`); how a scan gets at them is `StreamArchive`'s subject,
and what that module found about cut archives is a choice here. `tail` says what
lies behind the last accepted entry of the target: nothing, a part of an entry, or
one that ends exactly behind its header, behind which the next session appends
(`broken`). `frag` holds the keys of entries that were cut short: what is written
behind one may complete it for a scan. A process primes itself file by file
(`Prime`), so what others write meanwhile it may miss; its first entry makes it
try index after index, one fopen each: `TryIndex` creates the file, `TryNextIndex`
goes on because it exists (`IndexTaken`) or because prepare() failed otherwise
(`IndexDenied`: no descriptor, a directory that is missing or not writable, a
magic that could not be written). Files may be impossible to open for priming
and for merging, too (`PrimeNothing`, `MergeRefused`). write_entry may return false
half way (`PutFails`, `MergeWriteFails`), and what is buffered may be refused by the
system when it is flushed or closed (`DrainFails`, `MergeCloseFails`), which only
the call of write_entry that happens to flush learns of. A merge opens its sources
one by one and copies entry by entry; `MergeStops` is an early return because
something cannot be read. When an entry is written over a longer tail, what is left
behind it may be nothing, a part of an entry or a bare header (`TailsBehind`,
`CutTarget`). The refinement mapping reads `stored` as the union of all files, `cut`
as the union of `frag`, and `promised` as what was primed or accepted.

### FutexLock, FutexTest

`pc` says where a process is in lock() or unlock(): the compare-and-swaps, the
FUTEX_WAIT whose comparison and sleep are one kernel step, the decrement, the
store of 0, the FUTEX_WAKE of one sleeper. `Interrupted` is EINTR.

### ControlBlock, ExternalReplayer

The ring's units remember message and place, so a torn read shows as `Torn`. The
counters wrap at `CountMod` (2^32 in the code). In `ExternalReplayer` the client
makes one API call at a time, in any order; a call is the sequence of steps
`call`, `step`: loading `progress_complete`, checking `progress_started`, locking,
draining, unlocking, reaping. The master forwards messages under the lock and can
`Exit` with a failure at any point outside it, or be `Terminated` by the SIGTERM of
`kill()` anywhere. `options.inherit_process_group` is false (with it there is no
group to wait for and killpg has no target).

### ReplayMaster

Each slot's pipe is two queues: `pipe` (kernel; makes epoll report it) and `sbuf`
(read ahead by fgets; invisible to epoll). `EpollWait` takes a batch; its events
are handled one by one in any order, since the kernel does not promise one. A
batch entry may be out of date when its turn comes: `FgetsBlocks` is the master
blocked on the pipe of a restarted child, `HandleTimer` tests only the current
`timer_fd`, as the code does. `Reap` is process_shutdown and the start of the next
child. A child's work is its pair of indices; `Crash` starts the handler, which
writes its lines one by one, exits, faults again or hangs. `Exit` is every other
end: a return, a kill from outside, or a signal while the handlers are reset for the
teardown.

### ThreadedReplayer

The functions that enqueue_deferred_pipelines collects are the numbers `Orders`,
sorted; `Script` gives each one as a sequence of waits (`sync`) and work. The main
thread executes them (`SyncContext` and one action per pass), the workers take items
and complete them. What parsing allocates carries the epoch of its memory context, a
module handle the generation of its creation: the code's dangling pointers are
records with an old number. A slot of `deferred_graphics` remembers in `from` which
pipeline it is meant for (history). A loop over a vector is the relation between the
vector and its result, not a recursion: `Picks` are the indices a loop selects, in
ascending order; `AsNamed` the modules in the order in which the stages first name
them; `Sortings` every order std::sort may leave (equals either way); `Touched` the
least-recently-used list after a series of find_object calls. The order in which
unstable_remove_if leaves the derived pipelines is any order (`EnqueueDerived`),
which includes the one it computes. Undefined behaviour is a choice: a create info
that is gone has live stages or not, and its compilation any result. A robust child
has one worker, and may have a timeout or not (--timeout-seconds is 0 by default):
whether an item that is not the last of its context wakes the main thread, and
whether the child dies by timeout, are choices. `Die` ends the process and starts
the next behind the reported indices, with the reported modules masked, as the
master would; a reported index behind the list is cut where the next process cuts
it. The pass over `parents` follows a hash map, so any order. `Failing`, `Rejected`,
`Lost`, `Malformed` and `Unreadable` say what goes wrong with which input.

### StateRecorder

A *base* object is its content; a *pipeline* is recorded with the handle of a base
object. The driver reuses handles (`DriverDestroys`, `DriverCreates`); the layer is
told afterwards, which leaves time for others. A record_* call takes record_lock and
copies its arguments into temp_allocator (`Copy`), then pushes the copy and lets go
of the lock (`Record`). The worker's round is `Top` (take the lock, look at the
queue), `Reset` if the queue is empty (temp_allocator.reset(), which frees every
copy made so far, queued or not), `Pop` or `TimedFlush`, `Process`; the database is
the sequence of writes of which `durable` have been flushed. `intact` of a queued
item says that its copy in temp_allocator has not been released, `app_info` the same
of the application info in allocator. `means`, `known`, `due`, `lost`, `refused` and
`crashed` are history: `due` is what the present worker thread was given, `refused`
what the worker passed over because of the application filter.

## 3. Runs

| Run | Instance | States | Shows |
|---|---|---|---|
| `stream_archive` | 3 keys (payloads of 1, 3 and 4 cells), 13 cells, 5 sessions, 1 failed write | 1.85 M | `CommittedStable`, `ScanReachesCommitted`, `AlignedReadable`, `ReadFaithful` |
| `stream_archive_cut` | same without failed writes | | `WrittenReadable` fails |
| `futex` | 3 processes, 2 rounds | 17 k | `MutualExclusion`, `NoLostWakeup`, `CountExact`, `AllJoined` |
| `external_replayer` | ring of 2 messages, counters modulo 8 messages, 7 messages | 472 k | `RingFifo`, `CompleteDrained`, `ReapedDrained`, `KillFindsGroup`, `WaitReturns` |
| `external_replayer_kill` | 2 messages | | `KilledWaitReturns` fails |
| `replay_master` | 2 slots, 2+1 pipelines, 1 module, 2 crashes, 1 validation error | 907 k | `KillTarget`, `ZombieNoticed`, `RestartKnowsCulprits`, `StartsForward`, `TimeoutFires` |
| `replay_master_hung` | same | | `HungChildKilled` fails |
| `recorder` | 2 threads, 1 handle, 2 contents, 4 creations, 1 session | 1.36 M | `DepsFirst`, `ResolvedRight`, `ItemAlive`, `TornDownAll`, `FlushedEventually` |
| `recorder_crash` | 1 thread | | `EmergencyDurable` fails |
| `concurrent_db` | 2 processes, 2 keys, 2 indices of which 1 is primed from, 2 sessions, 2 merges, 2 mishaps (kills, failed writes, files that cannot be opened); processes and keys symmetric | 3.6 M | `OwnFile`, `ListedOnce`, `GivesUpWhenFull`, `MergeComplete`, `ImplementsStore` |
| `threaded_replayer` | 10+4 pipelines in chunks of 2, cache of 2 modules, 2 workers, or 1 with 2 deaths | 116 k | `InfoAlive`, `BaseReady`, `ModulesFound`, `AllReplayed`, `Terminates` |
| `threaded_replayer_prune` | 10 pipelines, 2 workers | | `ModulesAlive` fails |

Every passing run also checks a type invariant.

**Why the bounds are enough.** *Archive*: five sessions allow write and cut, append
over the tail and cut again, append, and read; 13 cells hold two entries, a torn
third. Read as a header, a payload cell claims no payload, a little, or more than
the file has, so that garbage is accepted in some tails and refused in others.
*Futex*: three processes are a holder and two sleepers, the case in which a wakeup
could be lost; the theorems cover any number. *Control block*: a ring of two
messages is full after two, wraps after each, and seven messages take the counters
to the last value before their wrap, where the test for room wraps first. *Master*:
two slots give batches with events of two children, and a second crash in a slot is
what the stale events need; only slot 1 may crash (`Crashing`), which is the one
that has two pipelines, and both slots may exit at any time. *Recorder*: one handle
with two contents is reuse; four creations are two objects under one handle and two
pipelines; the two threads let a pipeline be created by one while the object of the
other is being recorded. *Concurrent database*: two processes and two indices are a
race for each index and the exhaustion of all; the two sessions overlap or follow
each other, so that one primes itself from what the other and a merge have left; two
mishaps and two merges let a merge follow one that was cut while a recorder's write
failed, or a second merge be cut over the tail of the first. A bare header that an
overwritten tail leaves is met by a third merge only; to that merge it is like one a
cut has left, which the second merge meets, and the theorems cover any number.
*Threaded replayer*: five graphics chunks are two whole batches and a half one; the
lists have a base in its chunk, in the other context, in a later chunk, one that
fails and one that does not parse, a chunk with nothing plain left, an unreadable
pipeline in a slot that was used before, and modules that are evicted, shared,
refused and missing; two deaths let a child restart from any index and die again.

Deadlock checking is off where the system may stop: an archive nobody opens any
more, a client that calls nothing, a master that has returned, a recorder without
an application, a replay that is done (`Terminates` shows that it always is).
`futex` checks it.

**Fairness.** A runnable thread or process is scheduled (weak fairness of the
steps of each process). In `ExternalReplayer` and `ReplayMaster` moreover: a master
or child that runs ends some time (replay of finitely many pipelines, with a
timeout), a delivered SIGTERM kills, a timer expires. Nothing is assumed of
signals that would wake a sleeper, of calls by the client, of a hung crash
handler, or of the application. In `StateRecorder` the worker runs (its wait has a
timeout whenever something is to be flushed), a thread that holds record_lock with
its copy made goes on to push it, and a raised signal is delivered. In
`ThreadedReplayer` the main thread and each worker run; that an item ends is the
driver's return or the timeout's signal.

**Conditions stated in the properties.** `RingFifo`, `CompleteDrained` and
`ReapedDrained` hold while fewer bytes than the counters can count have gone through
the ring (4 GiB): at the wrap the test for room of a full ring compares a wrapped
count with one that has not wrapped, and lets a message in, which the properties do
not catch. `KillFindsGroup` excepts a kill() after one whose read was interrupted.
`TimeoutFires` and `WaitReturns` except exactly the cases that the violation runs
exhibit; `TimeoutFires` moreover assumes that the timerfd can be set up
(cli/fossilize_replay_linux.hpp:105-121 only logs it otherwise, and there is no
timeout). `ReadFaithful` excepts files with a failed or misplaced write. `DepsFirst`
excepts objects whose write failed, that were recorded before there was a database,
or that the application filter kept from it; `ResolvedRight` excepts pipelines whose
base object record_* refused. `MergeComplete` excepts a target to which entries were
appended behind an orphan header, which `StreamArchive` shows to be fatal, and an
error when the target is closed, which comes after the result. `ImplementsStore` and
`ClosedKept` except sessions of which a write failed. `GivesUpWhenFull` is about
indices at which the session met a file or an error. `InfoAlive` excepts slots whose
entry could not be read, `BaseReady` chunks without one plain pipeline to parse and
bases that such a slot has compiled again, `ModulesFound` the case of
`threaded_replayer_prune`: each is the complete list of the ways in which the code
goes wrong there. `TypeOK` bounds a reported index by the list unless some entry
cannot be read. `AllReplayed` promises after crashes only that pipelines which are
not derived had their turn, and not to those less than a chunk away from an entry
that cannot be read (`Exposed`); a pipeline more than a chunk before such an entry
may be compiled twice (`Spoiled`). The exceptions for slots that were not rewritten
came out of the proof: on the lists of the run the old slot happens to hold nothing
that disturbs, with other lists it holds the index of another chunk, a base, or a
pipeline that is already compiled.

**Findings.** Five runs refute a sentence of the documentation or a comment:

1. `WrittenReadable` (README.md:62): a file cut exactly behind a header has
   `offset == len` after the scan, so the next session appends behind the orphan.
2. `KilledWaitReturns` (fossilize_external_replayer.hpp:128): SIGTERM inside the
   critical section leaves the lock taken, and wait() blocks in it.
3. `HungChildKilled` (cli/fossilize_replay_linux.hpp:722): a CRASH line read ahead
   behind another line is not parsed, so there is no timeout.
4. `EmergencyDurable` (README.md:177, 182): emergencyRecord() returns before the
   flush it contains.
5. `ModulesAlive` (cli/fossilize_replay.cpp:1943): a batch with one chunk prunes
   the module cache while context 1 may still compile derived pipelines.

The models show more behaviour that no sentence of the repository denies:

* cli/fossilize_replay.cpp:464-479: a pipeline whose payload cannot be read leaves
  the slot of an earlier chunk in place, whose create info is gone (the exception
  of `InfoAlive`; an entry that does not parse clears its slot). The old entry is
  compiled again under its old index plus the new offset, which may lie behind the
  list or behind pipelines that have not been compiled: a crash there makes the next
  process pass over them.
* cli/fossilize_replay.cpp:1827: a chunk, or a range, of derived pipelines only is
  compiled with the hashes of the bases for handles (the exception of `BaseReady`).
* cli/fossilize_replay.cpp:2086: a crash at a later index loses the derived
  pipelines that were still to come; unstable_remove_if also reverses some.
* cli/fossilize_replay.cpp:696: failed_module_hashes outlives its pipeline, so a
  crash in the next parse masks modules that compiled.
* cli/fossilize_replay.cpp:440: the timeout watches one context's count while the
  workers may be busy with others.
* cli/fossilize_replay.cpp:2071: the index of a parent pulled in for a chunk of
  context 1 is counted from the chunk of context 0; a restart then begins too
  early, never too late.
* cli/fossilize_replay_linux.hpp:590: a timer event of a batch is applied to the
  child that the same batch has started in its slot.
* fossilize_db.cpp:874-943: behind a write_entry that failed half way later ones
  return true, and no scan finds what they wrote (the exception of
  `ImplementsStore`).
* fossilize_db.cpp:1238-1242: write_entry takes every error for a taken index and
  after errors at all of them never tries again.
* fossilize_db.cpp:743: when an append over a longer torn tail leaves exactly a name
  and a header behind, the next merge appends behind them and reports success
  (the exception of `MergeComplete`).
* cli/fossilize_replay_linux.hpp:264: a child that crashes before it reports
  progress is started again from the same index, without a limit (`StartsForward`
  says only that the index does not go back).
* fossilize_db.cpp:680, 1360: a source cut inside its magic ends a merge before
  the sources behind it, a target cut there refuses every merge.
* fossilize.cpp:4425: allocator.reset() releases the application info a second
  init_recording_thread would read (`app_info`).

## 4. Proofs

TLAPS checks these for all values of the constants.

**`StreamArchiveProofs`.** Assumptions: `KeyAssumption`, `SizeAssumption`,
`BoundAssumption` (sizes and misread sizes are arbitrary naturals).
`ScanReachesCommitted` is not inductive: that a scan comes as far as an earlier one
depends on what earlier sessions left on the disk and on what is pending. The
invariant `IInv` is the conjunction of

* `TypeOK`;
* `ChainInv`: the recorded boundaries lie within the file and up to `commit`, and
  the entry that begins at any of them but the last ends at another: whoever
  starts behind the magic and follows the sizes comes to `commit`;
* `ScanInv`: a running scan stands on one of those boundaries;
* `WriteInv`: a scan that has ended came to `commit`, and in a session that can
  write the position is not before it, so that no pending cell falls on an
  accepted entry.

`InductiveInvariant` proves it step by step, one lemma per group of actions, on top
of lemmas about `Overwrite` and about the chain (a chain read with the same cells
gives the same offsets). `TypeCorrect` and `ScanReaches` follow, and `CrashSafety`
proves `CommittedStable` from the same invariant: only `PrepareOverWrite` and
`PrepareExclusive` may change a committed cell.

Durability (`AlignedReadable`, `ReadFaithful`) is about every entry of a file at
once. Instead of an induction over the entries, `DInv` describes a stretch of cells
as *covered* when each of its cells lies in a whole entry of the stretch. Only the
first cell of an entry is a name, so whole entries cannot overlap (`NoOverlap`), and
a covered stretch begins with a whole entry behind which the rest is covered
(`CoveredFirst`), which is what a turn of the scan needs. `DInv` adds to `IInv`:

* `Linear` and `SeenInv`: the scan has recorded the first entry of each name on
  the chain;
* `SessionInv`: in a good session what is behind the chain, on disk or buffered, is
  covered, and each added name is new;
* `AlignInv`: what was stored well is whole and first of its name, and is accepted
  or has only whole entries before it; the end of a scan leaves no such entry
  unaccepted;
* `PairInv`: a header that a scan can reach follows its own name. One that an
  overwritten tail left behind claims more cells than the file has: had it
  fitted, the scan before the overwrite would have gone on. `ReadFaithful` is
  proved for `Checksum`, as its run has it.

**`FutexLockProofs`.** For any set `Proc`: `LInv` is `LockTypeOK`,
`MutualExclusion` and `WordTells` (the word is not 0 exactly when somebody is
inside). `WordTells` is needed because `unlock` decrements without looking, and
because who finds 0 must know that nobody is in "store". `WakeupsKept` proves
`NoLostWakeup` from it.

**`FutexTestProofs`.** Every step of the test is a step of the mutex or leaves it
alone, so `LInv` carries over. `CountExact` for any number of threads and rounds
needs that a thread between its read and its write is inside and that what it
has read is still the value (`Fresh`), and that the variable is the number of
pairs (thread, round) made so far: counting a set avoids an induction over the
threads.

**`ConcurrentDatabaseProofs`.** For any processes, keys and indices
(`DatabaseAssumption`). `IInv` has, besides the types, six parts: a missing file
holds nothing (`FileInv`); what a process keeps fits the phase it is in
(`PhaseInv`); the creation loop has found every lower index taken or has failed to
open it (`ProbeInv`); what a session was primed with is on disk, and what it has
seen is in its file or its buffer, with no part of an entry in front of others, or
only included in them once a write has failed (`KeptInv`); no two write one file
(`Apart`, from the exclusive creation); and what a merge has listed is in the
target, its buffer or still to be copied, and only entries that some file holds
whole are cut short in the target (`MergeInv`). The four invariants of the run
follow, and `Refinement`: each action maps to one of `EntryStore` or a stutter,
where `KeptInv` is what makes `Close` keep its promise. `ClosedSessionsKept` then
carries `ClosedKept` of `EntryStore` over to the database.

**`ExternalReplayerProofs`.** For every ring size, message size and counter width
such that the ring divides the counters' modulus (`RingAssumption`; powers of two
in the code). `IInv` is `LInv` of the mutex, the types, and
`RingInv` (while the counters are fresh they count the messages, and unit *i* of
message *k* lies at `(k * MsgSize + i) % RingSize`), `MasterInv` (what the pipe, the
flags and a reaped child say about the master), and `DrainInv` (who may report the
end has read everything). The ring lemmas are stated on a block and two sequences,
not on the state, so that each is used for the state before and after a step.

**`ReplayMasterProofs`.** For any number of slots, pipelines, modules and crashes.
`StartsForward` needs that all a child has said, and all that the master has not
read yet, lies in the slot's share and not before its start (`InShare`);
`KillTarget` that a CRASH line is of a child past its work (`Alive`);
`RestartKnowsCulprits` that a blamed module is known to the master or still in
the pipe or the stdio buffer of an open file (`Blame`).

**`StateRecorderProofs`.** For any threads, handles and contents. `ResolvedRight`
is the hard one: `NameInv` says what `to_hash` *will* say of a handle when the
worker has dealt with the first *n* items of the queue, for every live object and
at the place of every queued pipeline. `CallInv` is the order of the calls on
one object, `DueInv` that what was recorded is dealt with or before the end item,
`EndInv` that there is one end item for each worker, `FlushInv` that nothing is
unflushed while nobody can write. `ItemAlive` needs `LockInv`: a thread with a copy
that is not queued holds record_lock, and so does the worker from its look at the
queue to the reset, with the queue still empty. Take the lock for the push only,
and the reset frees a copy that is about to be queued.

**`ThreadedReplayerProofs`.** For any lists, bases, stages, chunk size, cache size,
number of workers and deaths (`ReplayerAssumption`: what the files and the code
fix, such as that a list names no hash twice and that a base may be a parent).
Everything here depends on how far the main thread is in its batch of two chunks.
`Pos` numbers the steps of a batch (the table at the head of the module), and the
invariant says in layers, each proved from those before, what can be there when:

* `Shape`: the control state (`Ctl`: what is left of `todo` is a suffix of the script
  of the present function) and the types of what every variable holds. `Turn` and
  `TableHolds` give, for each action, the `Pos` before and behind it;
* `Counts`: `queued_count` less `completed_count` of a context is the number of its
  items in the queue and with workers, so a wait that ends leaves none;
* `WindowInv`: for each kind of item and context, the interval of `Pos` in which
  one can be pending. Every wait of the passes closes a window before the
  pass behind it opens the next: this is the argument that the waits are enough;
* `Contents`: what slots, derived lists, parents and items hold: create infos of the
  present epoch, whose index lies in their chunk, unless the slot's entry could not
  be read. An allocator is reset only where `WindowInv` leaves no user;
* `Modules`: an enqueued module is in the cache, lost, or still being made, by one
  item only; the stages of what is to be compiled have been enqueued (`NamedInv`);
  a pipeline with a destroyed module is a derived one of context 1 in a
  batch that has no second chunk (`FoundInv`).

* `Places`: a pipeline with an entry in `graphics_pipelines` is behind the edge the
  passes have reached, or was pulled in as a base; what a slot holds has its
  place in the chunk and no entry yet, or comes from an earlier chunk (`PlaceOK`);
* `Raws`: until the slots are sorted each pipeline of a chunk is being parsed or in its
  slot, unless it is excused (`CoverInv`); hence a derived pipeline that is compiled
  with the first pass comes from a chunk with nothing else to offer (`RawChunk`);
* `Bases`: a plain pipeline with an entry has been compiled or is queued with its
  create info (`EntryInv`). The derived ones are enqueued where `WindowInv` leaves
  nothing plain pending, so their bases are compiled, and stay so (`Settled`): only
  a slot that was not rewritten brings one back.

`TypeCorrect`, `InfosAlive`, `ModulesKept` and `BasesReady` follow.

The library's induction theorems cannot be instantiated, so where an argument
needs the last element or the smallest index it takes a minimum of a finite set
under strict inclusion (`FS_StrictSubsetOrderingWellFounded`, `WFMin`) instead.

**Only model-checked.** The liveness properties (`AllJoined`, `WaitReturns`,
`TimeoutFires`, `FlushedEventually`, `Terminates`): liveness under fairness is out of the
prover's reach. `AllReplayed` of `ThreadedReplayer`: it relates a compilation to all
that earlier passes have compiled and to the order of the queue at the moment of a
crash; the eight layers above are what a proof of it would start from.

## 5. Not modelled

The Windows variants of the two process protocols; the spinlock fallback; hashing,
copying and JSON serialization (pure functions over Vulkan structures: hashes are
opaque values here); the feature filter; set up of devices; path helpers; vendored
miniz and Vulkan headers; two merges into one archive at the same time. Statistics
counters of the control block are relaxed atomics that decide nothing. Memory
ordering is sequentially consistent in the models; the code uses acquire and release
on the two flags that publish state and full barriers in the mutex.

Smaller things that the models leave out, with what they would add:

* `ConcurrentDatabase`: an entry reaches a file in one step (`StreamArchive` has the
  cells). Behind a fragment a scan may list the entry that was cut short or the one
  written next; that it makes up a hash of neither is not considered. An
  fopen("r+b") of a merge target that fails for a moment, with the fopen("wb") behind
  it that succeeds and empties the file (fossilize_db.cpp:638-641), is left out.
* `StreamArchive`: a write that fails does so in write_entry; what is buffered
  reaches the file. (`DrainFails` of `ConcurrentDatabase` has the other case.)
* `ReplayMaster`: the failure of timerfd_create, timerfd_settime or epoll_ctl in
  parse(), after which a hung child is never killed; and indices outside a child's
  share, which a child whose list has an unreadable entry may report
  (`ThreadedReplayer` has them). `TypeOK` bounds the progress by the share for that
  reason.
* `ThreadedReplayer`: run_normal_process fails before the passes when the size of a
  listed entry cannot be read (cli/fossilize_replay.cpp:2902-2913); no pass runs
  then, and no property is about such a process.
* `StateRecorder`: a base object that depends on others (set layouts, pipeline
  layouts, render passes of pipelines) may fail in its compute_hash_* and is then
  dropped; only pipelines do so in the model. That an object cannot be serialized
  counts as a write that failed.

## 6. Plan

In this order:

1. `AllReplayed` of `ThreadedReplayer`, for which a layer must say which places of
   the lists are behind every item of the queue.
2. `StateReplayer`: recursive resolution of dependencies against the database, and
   the dependency order of set layouts, samplers and pipeline layouts in
   `StateRecorder`.
3. Operators checked against reference definitions: varint, prune's reachability,
   the hash filters.
4. Windows variants of the master and of `ExternalReplayer`.
