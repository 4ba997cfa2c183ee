---------------------------- MODULE ReplayMaster ----------------------------
(***************************************************************************)
(* The master of cli/fossilize_replay_linux.hpp: it splits the pipelines   *)
(* over slots (ProcessProgress), forks one child per slot, and serves one  *)
(* epoll loop with the children's pipes, a crash timer per child and       *)
(* SIGCHLD.  A child that crashes reports where it stopped and is started  *)
(* again behind that point.                                                *)
(*                                                                         *)
(* A child's pipe has two queues of lines: what the kernel still holds,    *)
(* which makes epoll report the pipe, and what fgets has read ahead into   *)
(* the FILE buffer, which does not.                                        *)
(***************************************************************************)
EXTENDS Integers, Sequences, FiniteSets

CONSTANTS
    processes,      \* number of slots (num_threads)
    num_graphics,   \* pipelines to replay
    num_compute,
    Module,         \* shader modules that may be blamed for a crash
    Crashing,       \* bound: slots whose children may crash or misbehave
    MaxCrashes,     \* bound: crashes of children
    MaxVerr         \* bound: validation errors

ASSUME MasterAssumption ==
    /\ processes \in Nat \ {0} /\ num_graphics \in Nat /\ num_compute \in Nat
    /\ Crashing \subseteq 0..processes - 1
    /\ MaxCrashes \in Nat /\ MaxVerr \in Nat

Slot == 0..processes - 1

VARIABLES
    master,    \* "loop", "complete" (progress_complete stored) or "failed"
    active,    \* Global::active_processes
    start,     \* start_graphics_index and start_compute_index of each slot
    pid,       \* pid >= 0
    file,      \* crash_file is open
    pipe,      \* lines in the kernel's pipe
    sbuf,      \* lines in crash_file's stdio buffer
    timer,     \* timer_fd: "off" (-1), "armed" or "fired"
    progress,  \* graphics_progress and compute_progress
    faulty,    \* Global::faulty_spirv_modules
    deaths,    \* clean_process_deaths and dirty_process_deaths
    sigchld,   \* SIGCHLD is pending on the signalfd
    batch,     \* events of the last epoll_wait not handled yet
    cur,       \* the handler the master is in the middle of
    child,     \* "none", "run", "handler", "hung" or "zombie"
    status,    \* wstatus of a zombie: "ok", "bad" (another exit code, or
               \* SIGKILL: treated alike) or "signal" (any other signal)
    at,        \* current_graphics_index and current_compute_index
    mask,      \* modules the child was told to ignore
    todo,      \* lines its crash handler has still to write
    crashes, verrs,
    blamed     \* history: modules reported by children of the slot

mvars == <<master, active, start, pid, file, timer, progress, faulty, deaths, batch, cur>>
cvars == <<child, status, at, mask, todo, crashes, verrs, blamed>>
vars  == <<master, active, start, pid, file, pipe, sbuf, timer, progress, faulty,
           deaths, sigchld, batch, cur, child, status, at, mask, todo, crashes,
           verrs, blamed>>

Split(n, p) == (p * n) \div processes
First(p) == [g |-> Split(num_graphics, p), c |-> Split(num_compute, p)]
End(p)   == First(p + 1)
Exhausted(s, p) == s.g >= End(p).g /\ s.c >= End(p).c

Unknown == [g |-> -1, c |-> -1]
Line(t, v) == [tag |-> t, val |-> v]
NoEvent == <<"none", 0>>

Init ==                            \* every slot with work has a child
    /\ master = "loop"
    /\ start = [p \in Slot |-> First(p)]
    /\ pid = [p \in Slot |-> ~Exhausted(First(p), p)]
    /\ active = Cardinality({p \in Slot : ~Exhausted(First(p), p)})
    /\ file = pid
    /\ pipe = [p \in Slot |-> <<>>]
    /\ sbuf = [p \in Slot |-> <<>>]
    /\ timer = [p \in Slot |-> "off"]
    /\ progress = [p \in Slot |-> Unknown]
    /\ faulty = {}
    /\ deaths = [clean |-> 0, dirty |-> 0]
    /\ sigchld = FALSE
    /\ batch = {} /\ cur = NoEvent
    /\ child = [p \in Slot |-> IF Exhausted(First(p), p) THEN "none" ELSE "run"]
    /\ status = [p \in Slot |-> "ok"]
    /\ at = start
    /\ mask = [p \in Slot |-> {}]
    /\ todo = [p \in Slot |-> <<>>]
    /\ crashes = 0 /\ verrs = 0
    /\ blamed = [p \in Slot |-> {}]

-----------------------------------------------------------------------------
(***************************************************************************)
(* The children (run_slave_process and its signal handlers).               *)
(***************************************************************************)
Say(p, line) == pipe' = [pipe EXCEPT ![p] = Append(@, line)]

Die(p, why) ==
    /\ child' = [child EXCEPT ![p] = "zombie"]
    /\ status' = [status EXCEPT ![p] = why]
    /\ sigchld' = TRUE

Work(p) ==                         \* run_creation_work_item, in any order
    /\ child[p] = "run"
    /\ \/ \E n \in start[p].g..End(p).g - 1 : at' = [at EXCEPT ![p].g = n + 1]
       \/ \E n \in start[p].c..End(p).c - 1 : at' = [at EXCEPT ![p].c = n + 1]
    /\ UNCHANGED <<pipe, sbuf, sigchld, child, status, mask, todo, crashes, verrs, blamed>>
    /\ UNCHANGED mvars

ValidationError(p) ==              \* validation_error_cb
    /\ child[p] = "run" /\ at[p] # start[p]
    /\ p \in Crashing /\ verrs < MaxVerr
    /\ verrs' = verrs + 1
    /\ Say(p, Line("VERR", 0))
    /\ UNCHANGED <<sbuf, sigchld, child, status, at, mask, todo, crashes, blamed>>
    /\ UNCHANGED mvars

(***************************************************************************)
(* A fault, or the SIGABRT of timeout_handler.  The handler announces it   *)
(* and then reports: a worker its indices and the modules of its pipeline, *)
(* the main thread the degenerate indices, nothing without a replayer.     *)
(***************************************************************************)
Report(ms, where) ==
    ms \o <<Line("GRAPHICS", where.g), Line("COMPUTE", where.c)>>

Crash(p) ==
    /\ child[p] = "run"
    /\ p \in Crashing /\ crashes < MaxCrashes
    /\ crashes' = crashes + 1
    /\ child' = [child EXCEPT ![p] = "handler"]
    /\ Say(p, Line("CRASH", 0))
    /\ \/ todo' = [todo EXCEPT ![p] = Report(<<>>, at[p])]
       \/ /\ at[p] # start[p]
          /\ \E m \in Module \ mask[p] :
                todo' = [todo EXCEPT ![p] = Report(<<Line("MODULE", m)>>, at[p])]
       \/ todo' = [todo EXCEPT ![p] = Report(<<>>, Unknown)]
       \/ todo' = [todo EXCEPT ![p] = <<>>]
    /\ UNCHANGED <<sbuf, sigchld, status, at, mask, verrs, blamed>>
    /\ UNCHANGED mvars

HandlerWrite(p) ==
    /\ child[p] = "handler" /\ todo[p] # <<>>
    /\ Say(p, Head(todo[p]))
    /\ todo' = [todo EXCEPT ![p] = Tail(@)]
    /\ blamed' = IF Head(todo[p]).tag = "MODULE"
                 THEN [blamed EXCEPT ![p] = @ \cup {Head(todo[p]).val}] ELSE blamed
    /\ UNCHANGED <<sbuf, sigchld, child, status, at, mask, crashes, verrs>>
    /\ UNCHANGED mvars

HandlerExit(p) ==                  \* emergency_teardown, _exit(2)
    /\ child[p] = "handler" /\ todo[p] = <<>>
    /\ Die(p, "bad")
    /\ UNCHANGED <<pipe, sbuf, at, mask, todo, crashes, verrs, blamed>>
    /\ UNCHANGED mvars

HandlerFaults(p) ==                \* SA_RESETHAND: the second fault is fatal
    /\ child[p] = "handler"
    /\ Die(p, "signal")
    /\ UNCHANGED <<pipe, sbuf, at, mask, todo, crashes, verrs, blamed>>
    /\ UNCHANGED mvars

HandlerHangs(p) ==                 \* "This might hang indefinitely"
    /\ child[p] = "handler"
    /\ child' = [child EXCEPT ![p] = "hung"]
    /\ UNCHANGED <<pipe, sbuf, sigchld, status, at, mask, todo, crashes, verrs, blamed>>
    /\ UNCHANGED mvars

\* run_normal_process returns or fails, the kernel kills the child ("bad"), or a
\* signal has no handler, as when the handlers are reset for the teardown.
Exit(p) ==
    /\ child[p] = "run"
    /\ \E why \in {"ok", "bad", "signal"} : Die(p, why)
    /\ UNCHANGED <<pipe, sbuf, at, mask, todo, crashes, verrs, blamed>>
    /\ UNCHANGED mvars

-----------------------------------------------------------------------------
(***************************************************************************)
(* parse() of a list of lines.  GRAPHICS_VERR and COMPUTE_VERR are told    *)
(* apart from GRAPHICS and COMPUTE, of which they have the prefix.         *)
(***************************************************************************)
Tagged(lines, t) == {i \in 1..Len(lines) : lines[i].tag = t}

Latest(lines, t, default) ==       \* a later line overwrites an earlier one
    LET at_t == Tagged(lines, t)
    IN  IF at_t = {} THEN default
        ELSE lines[CHOOSE i \in at_t : \A j \in at_t : j <= i].val

\* Slip: GRAPHICS is compared before GRAPHICS_VERR, whose text is no number.
ProgressPrefixFirst(lines, old) ==
    [g |-> IF Tagged(lines, "VERR") # {} THEN 0 ELSE Latest(lines, "GRAPHICS", old.g),
     c |-> Latest(lines, "COMPUTE", old.c)]

Progress(lines, old) ==
    [g |-> Latest(lines, "GRAPHICS", old.g), c |-> Latest(lines, "COMPUTE", old.c)]

Faulty(lines) ==
    faulty \cup {lines[i].val : i \in Tagged(lines, "MODULE")}

(***************************************************************************)
(* The epoll loop.  A pipe at its end without data reports EPOLLHUP, which *)
(* no branch handles.                                                      *)
(***************************************************************************)
Ready ==
    {<<"file", p>> : p \in {q \in Slot : file[q] /\ pipe[q] # <<>>}}
      \cup {<<"timer", p>> : p \in {q \in Slot : timer[q] = "fired"}}
      \cup {<<"signal", 0>> : s \in {t \in {sigchld} : t}}

EpollWait ==
    /\ master = "loop" /\ active # 0
    /\ cur = NoEvent /\ batch = {}
    /\ Ready # {}
    /\ batch' = Ready
    /\ UNCHANGED <<master, active, start, pid, file, timer, progress, faulty, deaths, cur>>
    /\ UNCHANGED <<pipe, sbuf, sigchld>> /\ UNCHANGED cvars

EpollFails ==                      \* EXIT_FAILURE: the children are left alone
    /\ master = "loop" /\ active # 0
    /\ cur = NoEvent /\ batch = {}
    /\ master' = "failed"
    /\ UNCHANGED <<active, start, pid, file, timer, progress, faulty, deaths, batch, cur>>
    /\ UNCHANGED <<pipe, sbuf, sigchld>> /\ UNCHANGED cvars

\* The loop comes to the event e of the array.
Take(e) ==
    /\ master = "loop"
    /\ cur = NoEvent /\ e \in batch
    /\ batch' = batch \ {e}

(***************************************************************************)
(* process_once(): fgets takes one line, reading ahead all that the pipe   *)
(* has.  On an empty pipe it blocks until a line or the end arrives; at    *)
(* the end the file is closed.                                             *)
(***************************************************************************)
HandleLine(p) ==
    /\ file[p]
    /\ sbuf[p] \o pipe[p] # <<>>
    /\ LET all  == IF sbuf[p] = <<>> THEN pipe[p] ELSE sbuf[p]
           line == <<Head(all)>>
       IN  /\ sbuf' = [sbuf EXCEPT ![p] = Tail(all)]
           /\ pipe' = IF sbuf[p] = <<>> THEN [pipe EXCEPT ![p] = <<>>] ELSE pipe
           /\ progress' = [progress EXCEPT ![p] = Progress(line, @)]
           /\ faulty' = Faulty(line)
           /\ timer' = IF Head(all).tag = "CRASH" THEN [timer EXCEPT ![p] = "armed"]
                       ELSE timer
    /\ UNCHANGED file

HandleEof(p) ==
    /\ file[p] /\ sbuf[p] \o pipe[p] = <<>> /\ child[p] = "zombie"
    /\ file' = [file EXCEPT ![p] = FALSE]
    /\ UNCHANGED <<pipe, sbuf, progress, faulty, timer>>

HandleClosed(p) ==                 \* crash_file is null: a stale event
    /\ ~file[p]
    /\ UNCHANGED <<file, pipe, sbuf, progress, faulty, timer>>

HandleFile(p) ==
    /\ Take(<<"file", p>>)
    /\ HandleLine(p) \/ HandleEof(p) \/ HandleClosed(p)
    /\ UNCHANGED <<master, active, start, pid, deaths, cur, sigchld>>
    /\ UNCHANGED cvars

FgetsBlocks(p) ==
    /\ Take(<<"file", p>>)
    /\ file[p] /\ sbuf[p] \o pipe[p] = <<>> /\ child[p] # "zombie"
    /\ cur' = <<"file", p>>
    /\ UNCHANGED <<master, active, start, pid, file, timer, progress, faulty, deaths>>
    /\ UNCHANGED <<pipe, sbuf, sigchld>> /\ UNCHANGED cvars

FgetsReturns(p) ==
    /\ master = "loop" /\ cur = <<"file", p>>
    /\ HandleLine(p) \/ HandleEof(p)
    /\ cur' = NoEvent
    /\ UNCHANGED <<master, active, start, pid, deaths, batch, sigchld>>
    /\ UNCHANGED cvars

\* Slip: the timer is closed, the child is not killed.
HandleTimerNoKill(p) ==
    /\ Take(<<"timer", p>>)
    /\ timer' = [timer EXCEPT ![p] = "off"]
    /\ UNCHANGED <<master, active, start, pid, file, progress, faulty, deaths, cur>>
    /\ UNCHANGED <<pipe, sbuf, sigchld>> /\ UNCHANGED cvars

HandleTimer(p) ==                  \* SIGKILL the child, unless disarmed
    /\ Take(<<"timer", p>>)
    /\ IF timer[p] # "off" /\ child[p] # "zombie" THEN Die(p, "bad")
       ELSE UNCHANGED <<child, status, sigchld>>
    /\ timer' = [timer EXCEPT ![p] = "off"]
    /\ UNCHANGED <<master, active, start, pid, file, progress, faulty, deaths, cur>>
    /\ UNCHANGED <<pipe, sbuf, at, mask, todo, crashes, verrs, blamed>>

HandleSignal ==                    \* read(signal_fd): then the waitpid loop
    /\ Take(<<"signal", 0>>)
    /\ sigchld' = FALSE
    /\ cur' = <<"reap", 0>>
    /\ UNCHANGED <<master, active, start, pid, file, timer, progress, faulty, deaths>>
    /\ UNCHANGED <<pipe, sbuf>> /\ UNCHANGED cvars

(***************************************************************************)
(* process_shutdown(): what it decides about the slot.                     *)
(***************************************************************************)
Flushed(p) == IF file[p] THEN sbuf[p] \o pipe[p] ELSE <<>>

Verdict(p, seen) ==
    IF status[p] = "ok" THEN "done"
    ELSE IF status[p] = "signal" \/ seen.g < 0 \/ seen.c < 0 THEN "dirty"
    ELSE IF Exhausted(seen, p) THEN "exhausted" ELSE "retry"

\* Slip: the child is told of the modules known before the flush.
ForkStaleModules(p, from, ms) ==
    /\ child' = [child EXCEPT ![p] = "run"]
    /\ at' = [at EXCEPT ![p] = from]
    /\ mask' = [mask EXCEPT ![p] = faulty]
    /\ file' = [file EXCEPT ![p] = TRUE]
    /\ progress' = [progress EXCEPT ![p] = Unknown]
    /\ UNCHANGED <<master, active, pid>>

\* start_child_process(): a new child, told of every faulty module so far.
Fork(p, from, ms) ==
    /\ child' = [child EXCEPT ![p] = "run"]
    /\ at' = [at EXCEPT ![p] = from]
    /\ mask' = [mask EXCEPT ![p] = ms]
    /\ file' = [file EXCEPT ![p] = TRUE]
    /\ progress' = [progress EXCEPT ![p] = Unknown]
    /\ UNCHANGED <<master, active, pid>>

\* Slip: active_processes is only counted down for children that exited well.
NoForkUncounted(p, seen) ==
    /\ child' = [child EXCEPT ![p] = "none"]
    /\ pid' = [pid EXCEPT ![p] = FALSE]
    /\ file' = [file EXCEPT ![p] = FALSE]
    /\ progress' = [progress EXCEPT ![p] = seen]
    /\ active' = IF status[p] = "ok" THEN active - 1 ELSE active
    /\ at' = [at EXCEPT ![p] = Unknown]
    /\ UNCHANGED mask

NoFork(p, seen) ==
    /\ child' = [child EXCEPT ![p] = "none"]
    /\ pid' = [pid EXCEPT ![p] = FALSE]
    /\ file' = [file EXCEPT ![p] = FALSE]
    /\ progress' = [progress EXCEPT ![p] = seen]
    /\ active' = active - 1
    /\ at' = [at EXCEPT ![p] = Unknown]
    /\ UNCHANGED mask

\* Slip: the timer survives the shutdown of its child.
TimerAfterShutdownKept(p) == timer

TimerAfterShutdown(p) == [timer EXCEPT ![p] = "off"]

Reap(p) ==
    LET seen    == Progress(Flushed(p), progress[p])
        verdict == Verdict(p, seen)
    IN  /\ master = "loop" /\ cur = <<"reap", 0>>
        /\ child[p] = "zombie"
        /\ faulty' = Faulty(Flushed(p))
        /\ pipe' = [pipe EXCEPT ![p] = <<>>]
        /\ sbuf' = [sbuf EXCEPT ![p] = <<>>]
        /\ timer' = TimerAfterShutdown(p)
        /\ todo' = [todo EXCEPT ![p] = <<>>]
        /\ deaths' = IF verdict = "dirty" THEN [deaths EXCEPT !.dirty = @ + 1]
                     ELSE IF verdict = "done" THEN deaths
                     ELSE [deaths EXCEPT !.clean = @ + 1]
        /\ start' = IF verdict \in {"exhausted", "retry"}
                    THEN [start EXCEPT ![p] = seen] ELSE start
        /\ \/ verdict = "retry" /\ Fork(p, seen, faulty')
           \/ verdict = "retry" /\ NoFork(p, Unknown) /\ master' = "failed"
           \/ verdict # "retry" /\ NoFork(p, seen) /\ UNCHANGED master
        /\ status' = [status EXCEPT ![p] = "ok"]
        /\ UNCHANGED <<sigchld, batch, cur, crashes, verrs, blamed>>

\* Slip: one waitpid per SIGCHLD.
ReapDoneEarly ==
    /\ master = "loop" /\ cur = <<"reap", 0>>
    /\ cur' = NoEvent
    /\ UNCHANGED <<master, active, start, pid, file, timer, progress, faulty, deaths, batch>>
    /\ UNCHANGED <<pipe, sbuf, sigchld>> /\ UNCHANGED cvars

ReapDone ==                        \* waitpid returns 0 or -1
    /\ master = "loop" /\ cur = <<"reap", 0>>
    /\ \A p \in Slot : child[p] # "zombie"
    /\ cur' = NoEvent
    /\ UNCHANGED <<master, active, start, pid, file, timer, progress, faulty, deaths, batch>>
    /\ UNCHANGED <<pipe, sbuf, sigchld>> /\ UNCHANGED cvars

Finish ==                          \* progress_complete is stored
    /\ master = "loop" /\ active = 0
    /\ cur = NoEvent /\ batch = {}
    /\ master' = "complete"
    /\ UNCHANGED <<active, start, pid, file, timer, progress, faulty, deaths, batch, cur>>
    /\ UNCHANGED <<pipe, sbuf, sigchld>> /\ UNCHANGED cvars

TimerExpires(p) ==                 \* one second later
    /\ timer[p] = "armed"
    /\ timer' = [timer EXCEPT ![p] = "fired"]
    /\ UNCHANGED <<master, active, start, pid, file, progress, faulty, deaths, batch, cur>>
    /\ UNCHANGED <<pipe, sbuf, sigchld>> /\ UNCHANGED cvars

-----------------------------------------------------------------------------
MasterStep ==
    \/ EpollWait \/ HandleSignal \/ ReapDone \/ Finish
    \/ \E p \in Slot :
          \/ HandleFile(p) \/ FgetsBlocks(p) \/ FgetsReturns(p)
          \/ HandleTimer(p) \/ Reap(p)

HandlerStep(p) == HandlerWrite(p) \/ HandlerExit(p)

ChildStep(p) ==
    \/ Work(p) \/ ValidationError(p) \/ Crash(p) \/ Exit(p)
    \/ HandlerStep(p) \/ HandlerFaults(p) \/ HandlerHangs(p)

Next == MasterStep \/ EpollFails \/ \E p \in Slot : ChildStep(p) \/ TimerExpires(p)

(***************************************************************************)
(* The master is scheduled, timers expire, a child that runs comes to an   *)
(* end and a crash handler that does not hang proceeds.                    *)
(***************************************************************************)
Spec ==
    /\ Init /\ [][Next]_vars
    /\ WF_vars(MasterStep)
    /\ \A p \in Slot : /\ WF_vars(Exit(p))
                       /\ WF_vars(HandlerStep(p))
                       /\ WF_vars(TimerExpires(p))

-----------------------------------------------------------------------------
(***************************************************************************)
(* Type invariant.  The counter that ends the loop counts the slots that   *)
(* have a child.                                                           *)
(***************************************************************************)
TypeOK ==
    /\ master \in {"loop", "complete", "failed"}
    /\ active = Cardinality({p \in Slot : pid[p]})
    /\ timer \in [Slot -> {"off", "armed", "fired"}]
    /\ child \in [Slot -> {"none", "run", "handler", "hung", "zombie"}]
    /\ \A p \in Slot : progress[p].g \in -1..num_graphics /\ progress[p].c \in -1..num_compute
    /\ faulty \subseteq Module

(***************************************************************************)
(* The timer's SIGKILL goes to a child that has announced a crash and has  *)
(* not been reaped: kill() is never called with the pid -1 (every process  *)
(* of the user) or with one that may have been recycled.                   *)
(***************************************************************************)
KillTarget ==
    \A p \in Slot :
        timer[p] # "off" => pid[p] /\ child[p] \in {"handler", "hung", "zombie"}

(***************************************************************************)
(* A dead child is always going to be noticed, although several deaths     *)
(* make one SIGCHLD and children die while the waitpid loop runs.          *)
(***************************************************************************)
ZombieNoticed ==
    master = "loop" /\ (\E p \in Slot : child[p] = "zombie") =>
        sigchld \/ cur = <<"reap", 0>>

(***************************************************************************)
(* A slot never goes back: no message of a child makes the master replay a *)
(* pipeline again that the slot has left behind.                           *)
(***************************************************************************)
StartsForward ==
    [][\A p \in Slot : start'[p].g >= start[p].g /\ start'[p].c >= start[p].c]_vars

(***************************************************************************)
(* A restarted child has been told of every module that an earlier child   *)
(* of its slot reported, even one reported after the master last looked.   *)
(***************************************************************************)
RestartKnowsCulprits ==
    \A p \in Slot : child[p] = "run" => blamed[p] \subseteq mask[p]

(***************************************************************************)
(* A child that hangs in its crash handler is killed, unless its CRASH     *)
(* line waits in the stdio buffer behind another line.  (A timerfd that    *)
(* cannot be set up, of which parse() only complains, is not modelled.)    *)
(***************************************************************************)
CrashUnread(p) == \E i \in 1..Len(sbuf[p]) : sbuf[p][i].tag = "CRASH"

TimeoutFires ==
    \A p \in Slot :
        child[p] = "hung" ~> (child[p] # "hung" \/ CrashUnread(p) \/ master = "failed")

(***************************************************************************)
(* The comment in crash_handler: it "might hang indefinitely", but "the    *)
(* parent will have a timeout after receiving the crash message".  So a    *)
(* hung child never stays for ever.                                        *)
(***************************************************************************)
HungChildKilled ==
    \A p \in Slot : child[p] = "hung" ~> (child[p] # "hung" \/ master = "failed")
=============================================================================
