----------------------------- MODULE EntryStore -----------------------------
(***************************************************************************)
(* What the processes that share one ConcurrentDatabase rely on, without   *)
(* files: a set of stored entries that only grows, and per session the     *)
(* entries it was told are taken care of (write_entry or has_entry         *)
(* returned true).  A session that ends cleanly leaves nothing of that     *)
(* behind; one that is killed, or whose writes failed, may.                *)
(***************************************************************************)
CONSTANTS
    Proc,       \* processes
    Key         \* (resource tag, hash) pairs

VARIABLES
    stored,     \* entries any later reader of the archives lists
    cut,        \* keys of entries that were cut short: what a reader finds for
                \* one of them may be damaged
    promised,   \* promised[p]: entries the session of p is told are kept
    failed,     \* failed[p]: a write of the session of p has failed
    session     \* session[p]: "none", "on", "closed" or "killed"

vars == <<stored, cut, promised, failed, session>>

Init ==
    /\ stored \subseteq Key /\ cut \subseteq Key
    /\ promised = [p \in Proc |-> {}]
    /\ failed = [p \in Proc |-> FALSE]
    /\ session = [p \in Proc |-> "none"]

Begin(p) ==
    /\ session[p] # "on"
    /\ session' = [session EXCEPT ![p] = "on"]
    /\ promised' = [promised EXCEPT ![p] = {}]
    /\ failed' = [failed EXCEPT ![p] = FALSE]
    /\ UNCHANGED <<stored, cut>>

Learn(p) ==             \* hashes primed from archives that hold them
    /\ session[p] = "on"
    /\ \E S \in SUBSET stored : promised' = [promised EXCEPT ![p] = @ \cup S]
    /\ UNCHANGED <<stored, cut, failed, session>>

Accept(p) ==
    /\ session[p] = "on"
    /\ \E k \in Key : promised' = [promised EXCEPT ![p] = @ \cup {k}]
    /\ UNCHANGED <<stored, cut, failed, session>>

Persist(p) ==
    /\ session[p] = "on"
    /\ \E S \in SUBSET (promised[p] \cup cut) : stored' = stored \cup S
    /\ UNCHANGED <<cut, promised, failed, session>>

Fail(p) ==              \* one entry at most is cut short
    /\ session[p] = "on"
    /\ failed' = [failed EXCEPT ![p] = TRUE]
    /\ cut' \in {cut} \cup {cut \cup {k} : k \in Key}
    /\ UNCHANGED <<stored, promised, session>>

Close(p) ==
    /\ session[p] = "on"
    /\ failed[p] \/ promised[p] \subseteq stored
    /\ session' = [session EXCEPT ![p] = "closed"]
    /\ UNCHANGED <<stored, cut, promised, failed>>

Kill(p) ==
    /\ session[p] = "on"
    /\ session' = [session EXCEPT ![p] = "killed"]
    /\ promised' = [promised EXCEPT ![p] = {}]
    /\ UNCHANGED <<stored, cut, failed>>

Tear ==                 \* a second copy of a stored entry is cut short
    /\ \E k \in stored : cut' = cut \cup {k}
    /\ UNCHANGED <<stored, promised, failed, session>>

Next ==
    \/ \E p \in Proc : \/ Begin(p) \/ Learn(p) \/ Accept(p) \/ Persist(p)
                        \/ Fail(p) \/ Close(p) \/ Kill(p)
    \/ Tear

Spec == Init /\ [][Next]_vars

(***************************************************************************)
(* The promise itself: what a session that was closed, without a failed    *)
(* write, had been told is kept is stored, and stays stored whatever other *)
(* processes do and whatever fails for them.                               *)
(***************************************************************************)
ClosedKept ==
    \A p \in Proc : session[p] = "closed" /\ ~failed[p] => promised[p] \subseteq stored
=============================================================================
