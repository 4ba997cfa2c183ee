-------------------------- MODULE ExternalReplayer --------------------------
(***************************************************************************)
(* ExternalReplayer::Impl of fossilize_external_replayer_linux.hpp (the    *)
(* client) and the fossilize-replay master process it forks, as the client *)
(* sees it: a child that creates its process group, announces its start,   *)
(* puts messages into the shared ring, announces completion and exits, or  *)
(* dies of the SIGTERM that kill() sends, whatever it is doing.            *)
(***************************************************************************)
EXTENDS FutexLock, ControlBlock

CONSTANT MaxMessages     \* bound: messages the master produces
ASSUME ProcAssumption == Proc = {"master", "client"} /\ MaxMessages \in Nat

VARIABLES
    cb,          \* the ring of the shared block
    started,     \* progress_started
    complete,    \* progress_complete
    master,      \* "forked", "grouped", "running", "complete", "exited"
    group,       \* the child is the leader of a process group of its own
    term,        \* SIGTERM is pending for the group
    put,         \* the master has done the write of this critical section
    sent,        \* messages the master has produced
    pid,         \* client: pid >= 0
    kill_fd,     \* client: kill_fd >= 0
    call,        \* the API call in progress
    step,        \* where in it the client is
    saw,         \* the complete that poll_progress loaded
    ret,         \* what the last call returned
    got,         \* messages the client has parsed, in order
    accepted,    \* history: messages the ring accepted, in order
    unread       \* history: a kill() gave up on its read of the pipe

mvars == <<master, group, term, put, sent>>
cvars == <<pid, kill_fd, call, step, saw, ret, got, unread>>
vars  == <<lock, pc, c, cb, started, complete, master, group, term, put, sent,
           pid, kill_fd, call, step, saw, ret, got, accepted, unread>>

Init ==                              \* start() has returned in the parent
    /\ LockInit
    /\ cb = NewBlock
    /\ started = FALSE /\ complete = FALSE
    /\ master = "forked" /\ group = FALSE /\ term = FALSE
    /\ put = FALSE /\ sent = 0
    /\ pid = TRUE /\ kill_fd = TRUE
    /\ call = "none" /\ step = "none" /\ saw = FALSE /\ ret = "none"
    /\ got = <<>> /\ accepted = <<>> /\ unread = FALSE

-----------------------------------------------------------------------------
(***************************************************************************)
(* The child.                                                              *)
(***************************************************************************)
Setpgid ==                           \* then closes its end of the kill pipe
    /\ master = "forked"
    /\ master' = "grouped" /\ group' = TRUE
    /\ UNCHANGED <<term, put, sent, lock, pc, c, cb, started, complete, accepted>>
    /\ UNCHANGED cvars

AnnounceStart ==
    /\ master = "grouped"
    /\ master' = "running" /\ started' = TRUE
    /\ UNCHANGED <<group, term, put, sent, lock, pc, c, cb, complete, accepted>>
    /\ UNCHANGED cvars

(***************************************************************************)
(* ProcessProgress::parse forwards one message under the lock.  What the   *)
(* ring does not accept is dropped.                                        *)
(***************************************************************************)
MasterTryLock ==
    /\ master = "running" /\ sent < MaxMessages
    /\ TryLock("master")
    /\ sent' = sent + 1
    /\ put' = FALSE
    /\ UNCHANGED <<master, group, term, cb, started, complete, accepted>>
    /\ UNCHANGED cvars

MasterPut ==
    /\ master = "running" /\ pc["master"] = "held" /\ ~put
    /\ cb' = IF Accepts(cb) THEN WriteBlock(cb, sent) ELSE cb
    /\ accepted' = IF Accepts(cb) THEN Append(accepted, sent) ELSE accepted
    /\ put' = TRUE
    /\ UNCHANGED <<master, group, term, sent, lock, pc, c, started, complete>>
    /\ UNCHANGED cvars

MasterUnlock ==
    /\ master = "running" /\ put
    /\ Unlock("master")
    /\ UNCHANGED <<master, group, term, put, sent, cb, started, complete, accepted>>
    /\ UNCHANGED cvars

MasterLockStep ==
    /\ master = "running"
    /\ LockStep("master") \/ UnlockStep("master")
    /\ UNCHANGED <<master, group, term, put, sent, cb, started, complete, accepted>>
    /\ UNCHANGED cvars

AnnounceComplete ==                  \* no active process is left
    /\ master = "running" /\ pc["master"] = "idle"
    /\ master' = "complete" /\ complete' = TRUE
    /\ UNCHANGED <<group, term, put, sent, lock, pc, c, cb, started, accepted>>
    /\ UNCHANGED cvars

(***************************************************************************)
(* The child exits: after completion, or with EXIT_FAILURE before (setpgid *)
(* or execv fails, the database cannot be read, fork or epoll fails).      *)
(***************************************************************************)
Exit ==
    /\ master # "exited" /\ pc["master"] = "idle"
    /\ master' = "exited"
    /\ UNCHANGED <<group, term, put, sent, lock, pc, c, cb, started, complete, accepted>>
    /\ UNCHANGED cvars

(***************************************************************************)
(* SIGTERM is not handled: the child dies where it stands.  Inside unlock  *)
(* or the critical section it leaves the word as it is; a sleeper in       *)
(* FUTEX_WAIT just disappears.                                             *)
(***************************************************************************)
DiesInside == pc["master"] \in {"held", "store", "wake"}

Terminated ==
    /\ term /\ master # "exited"
    /\ master' = "exited"
    /\ pc' = IF DiesInside THEN pc ELSE [pc EXCEPT !["master"] = "idle"]
    /\ UNCHANGED <<group, term, put, sent, lock, c, cb, started, complete, accepted>>
    /\ UNCHANGED cvars

-----------------------------------------------------------------------------
(***************************************************************************)
(* The client: one call of the API at a time.                              *)
(***************************************************************************)
ClientOnly == UNCHANGED <<cb, started, complete, accepted>> /\ UNCHANGED mvars

CallPoll ==
    /\ call = "none"
    /\ call' = "poll" /\ step' = "load"
    /\ UNCHANGED <<lock, pc, c, pid, kill_fd, saw, ret, got, unread>>
    /\ ClientOnly

\* is_process_complete: waitpid(WNOHANG) reaps a child that has exited;
\* the polls that find it running, or reaped before, change nothing.
CallIsProcessComplete ==
    /\ call = "none" /\ pid
    /\ master = "exited"
    /\ call' = "is_process_complete" /\ step' = "load"
    /\ UNCHANGED <<lock, pc, c, pid, kill_fd, saw, ret, got, unread>>
    /\ ClientOnly

CallWait ==
    /\ call = "none" /\ pid
    /\ call' = "wait" /\ step' = "load"
    /\ UNCHANGED <<lock, pc, c, pid, kill_fd, saw, ret, got, unread>>
    /\ ClientOnly

\* Slip: the fifo is not pumped again after waitpid.
WaitPidNoPump ==
    /\ call = "wait" /\ step = "waitpid"
    /\ master = "exited"
    /\ call' = "none" /\ step' = "none" /\ ret' = "reaped"
    /\ pid' = FALSE /\ kill_fd' = FALSE
    /\ UNCHANGED <<lock, pc, c, saw, got, unread>>
    /\ ClientOnly

WaitPid ==                           \* blocks until the child has exited
    /\ call = "wait" /\ step = "waitpid"
    /\ master = "exited"
    /\ call' = "wait_reaped" /\ step' = "load"
    /\ UNCHANGED <<lock, pc, c, pid, kill_fd, saw, ret, got, unread>>
    /\ ClientOnly

WaitPidFails ==                      \* interrupted by a signal: -1, not reaped
    /\ call = "wait" /\ step = "waitpid"
    /\ call' = "none" /\ step' = "none" /\ ret' = "error"
    /\ UNCHANGED <<lock, pc, c, pid, kill_fd, saw, got, unread>>
    /\ ClientOnly

(***************************************************************************)
(* Return of the poll_progress that call made, its result being res: the   *)
(* caller's own poll, or the pump of is_process_complete and wait.         *)
(***************************************************************************)
PollReturns(res) ==
    \/ /\ call = "poll"
       /\ call' = "none" /\ step' = "none"
       /\ ret' = res
       /\ UNCHANGED <<pid, kill_fd>>
    \/ /\ call = "wait"
       /\ step' = "waitpid"
       /\ UNCHANGED <<call, ret, pid, kill_fd>>
    \/ /\ call \in {"is_process_complete", "wait_reaped"}
       /\ call' = "none" /\ step' = "none"
       /\ ret' = "reaped"
       /\ pid' = FALSE /\ kill_fd' = FALSE

PollLoad ==
    /\ step = "load"
    /\ saw' = complete
    /\ IF ~pid /\ ~complete THEN PollReturns("error")
       ELSE step' = "check" /\ UNCHANGED <<call, ret, pid, kill_fd>>
    /\ UNCHANGED <<lock, pc, c, got, unread>>
    /\ ClientOnly

PollCheck ==
    /\ step = "check"
    /\ IF ~started THEN PollReturns("not_ready")
       ELSE step' = "lock" /\ UNCHANGED <<call, ret, pid, kill_fd>>
    /\ UNCHANGED <<lock, pc, c, saw, got, unread>>
    /\ ClientOnly

PollTryLock ==
    /\ step = "lock"
    /\ TryLock("client")
    /\ UNCHANGED cvars
    /\ ClientOnly

PollLockStep ==
    /\ step \in {"lock", "unlock"}
    /\ LockStep("client") \/ UnlockStep("client")
    /\ UNCHANGED cvars
    /\ ClientOnly

PollInterrupted ==                   \* a signal of the client's own
    /\ Interrupted("client")
    /\ UNCHANGED cvars
    /\ ClientOnly

PollDrain ==
    /\ step = "lock" /\ pc["client"] = "held"
    /\ got' = got \o Messages(cb)
    /\ cb' = Drained(cb)
    /\ step' = "unlock"
    /\ UNCHANGED <<lock, pc, c, pid, kill_fd, call, saw, ret, unread, started, complete, accepted>>
    /\ UNCHANGED mvars

PollUnlock ==
    /\ step = "unlock"
    /\ Unlock("client")
    /\ UNCHANGED cvars
    /\ ClientOnly

\* Slip: progress_complete is loaded after the fifo was read.
PollReturnLateLoad ==
    /\ step = "unlock" /\ pc["client"] = "idle"
    /\ PollReturns(IF complete THEN "complete" ELSE "running")
    /\ UNCHANGED <<lock, pc, c, saw, got, unread>>
    /\ ClientOnly

PollReturn ==
    /\ step = "unlock" /\ pc["client"] = "idle"
    /\ PollReturns(IF saw THEN "complete" ELSE "running")
    /\ UNCHANGED <<lock, pc, c, saw, got, unread>>
    /\ ClientOnly

(***************************************************************************)
(* kill(): the first one reads the pipe, which blocks until the child has  *)
(* closed its end (after setpgid, or by exiting).                          *)
(***************************************************************************)
CallKill ==
    /\ call = "none" /\ pid
    /\ call' = "kill"
    /\ step' = IF kill_fd THEN "read" ELSE "killpg"
    /\ UNCHANGED <<lock, pc, c, pid, kill_fd, saw, ret, got, unread>>
    /\ ClientOnly

\* Slip: the group is signalled without waiting for it.
KillReadNoWait ==
    /\ call = "kill" /\ step = "read"
    /\ kill_fd' = FALSE
    /\ step' = "killpg"
    /\ UNCHANGED <<lock, pc, c, pid, call, saw, ret, got, unread>>
    /\ ClientOnly

KillRead ==
    /\ call = "kill" /\ step = "read"
    /\ master # "forked"
    /\ kill_fd' = FALSE
    /\ step' = "killpg"
    /\ UNCHANGED <<lock, pc, c, pid, call, saw, ret, got, unread>>
    /\ ClientOnly

KillReadFails ==                     \* interrupted: the pipe is closed as well
    /\ call = "kill" /\ step = "read"
    /\ kill_fd' = FALSE /\ unread' = TRUE
    /\ ret' = "kill_failed"
    /\ call' = "none" /\ step' = "none"
    /\ UNCHANGED <<lock, pc, c, pid, saw, got>>
    /\ ClientOnly

KillPg ==
    /\ call = "kill" /\ step = "killpg"
    /\ term' = group
    /\ ret' = IF group THEN "killed" ELSE "kill_failed"
    /\ call' = "none" /\ step' = "none"
    /\ UNCHANGED <<lock, pc, c, pid, kill_fd, saw, got, unread>>
    /\ UNCHANGED <<cb, started, complete, accepted, master, group, put, sent>>

-----------------------------------------------------------------------------
MasterStep ==
    \/ Setpgid \/ AnnounceStart \/ AnnounceComplete
    \/ MasterTryLock \/ MasterPut \/ MasterUnlock \/ MasterLockStep

ClientStep ==
    \/ PollLoad \/ PollCheck \/ PollTryLock \/ PollLockStep \/ PollDrain
    \/ PollUnlock \/ PollReturn \/ WaitPid \/ KillRead \/ KillPg

ClientCall == CallPoll \/ CallIsProcessComplete \/ CallWait \/ CallKill

Next ==
    \/ MasterStep \/ Exit \/ Terminated
    \/ ClientStep \/ ClientCall
    \/ PollInterrupted \/ WaitPidFails \/ KillReadFails

(***************************************************************************)
(* Both processes are scheduled, the master ends some time, and a pending  *)
(* SIGTERM is delivered.  No call is forced on the client, and no signal   *)
(* is promised that would wake it.                                         *)
(***************************************************************************)
Spec ==
    /\ Init /\ [][Next]_vars
    /\ WF_vars(MasterStep) /\ WF_vars(Exit) /\ WF_vars(Terminated)
    /\ WF_vars(ClientStep)

-----------------------------------------------------------------------------
(***************************************************************************)
(* Type invariant.                                                         *)
(***************************************************************************)
TypeOK ==
    /\ LockTypeOK
    /\ cb.write_count \in 0..CountMod - 1 /\ cb.read_count \in 0..CountMod - 1
    /\ cb.write_offset \in 0..RingSize - 1 /\ cb.read_offset \in 0..RingSize - 1
    /\ started \in BOOLEAN /\ complete \in BOOLEAN
    /\ master \in {"forked", "grouped", "running", "complete", "exited"}
    /\ group \in BOOLEAN /\ term \in BOOLEAN /\ put \in BOOLEAN
    /\ unread \in BOOLEAN /\ pid \in BOOLEAN /\ kill_fd \in BOOLEAN /\ saw \in BOOLEAN
    /\ call \in {"none", "poll", "is_process_complete", "wait", "wait_reaped", "kill"}
    /\ step \in {"none", "load", "check", "lock", "unlock", "waitpid", "read", "killpg"}

\* Fewer bytes have gone through the ring than the counters can tell apart.
CountersFresh == Len(accepted) * MsgSize < CountMod

(***************************************************************************)
(* The ring is a FIFO across the two processes: what the client has parsed *)
(* followed by what is still in the ring is, whole and in order, what the  *)
(* ring accepted, as long as the counters have not wrapped.                *)
(***************************************************************************)
FifoExact == got \o Messages(cb) = accepted
RingFifo  == CountersFresh => FifoExact

(***************************************************************************)
(* poll_progress loads progress_complete before it reads the fifo: a       *)
(* client that is told Complete has been given every message.              *)
(***************************************************************************)
CompleteDrained == CountersFresh /\ ret = "complete" => got = accepted

(***************************************************************************)
(* Once wait() or is_process_complete() has reaped the child, every        *)
(* message the ring accepted has been parsed, whether the child completed, *)
(* failed or was killed at any point.                                      *)
(***************************************************************************)
ReapedDrained == CountersFresh /\ ~pid => got = accepted

(***************************************************************************)
(* kill() signals a group that exists, or a child that is gone: the        *)
(* comment in kill() on the pipe, "ensuring that we can immediately call   *)
(* killpg()".  (A kill() whose read failed has closed the pipe, and the    *)
(* next one does not wait.)                                                *)
(***************************************************************************)
KillFindsGroup == step = "killpg" /\ ~unread => group \/ master = "exited"

(***************************************************************************)
(* wait() returns, unless the child was killed inside the critical section *)
(* or its unlock.                                                          *)
(***************************************************************************)
InWait == call \in {"wait", "wait_reaped"}

WaitReturns == InWait ~> (call = "none" \/ (master = "exited" /\ DiesInside))

(***************************************************************************)
(* fossilize_external_replayer.hpp on wait(): it "waits in a blocking      *)
(* fashion for the process to complete" and "if a fatal signal killed the  *)
(* process, -SIGNAL is returned".  So it returns once the child has died.  *)
(***************************************************************************)
KilledWaitReturns == InWait ~> call = "none"
=============================================================================
