------------------------- MODULE ConcurrentDatabase -------------------------
(***************************************************************************)
(* ConcurrentDatabase and merge_concurrent_databases of fossilize_db.cpp:  *)
(* several processes record into one database path.  Each primes itself    *)
(* with the hashes of <path>.foz (file Base here) and of extra read-only   *)
(* archives, and writes what is new to a file <path>.N.foz of its own,     *)
(* which it finds by trying N = 1, 2, ... with exclusive creation.  A tool *)
(* later appends those files to <path>.foz, while recording goes on.       *)
(*                                                                         *)
(* A file is the set of entries a scan of it lists and the state of its    *)
(* magic; how a scan gets at them, cell by cell, is the subject of         *)
(* StreamArchive, and what that module shows about entries that were cut   *)
(* short is a choice here.  fwrite goes to a buffer that reaches the file  *)
(* one entry at a time, in order; a kill, or a write the system refuses    *)
(* (a full disk), loses the rest of it.                                    *)
(***************************************************************************)
EXTENDS Integers, Sequences, FiniteSets

CONSTANTS
    Proc,        \* recording processes
    Key,         \* (resource tag, hash) pairs
    LastIndex,   \* largest N of a <path>.N.foz (255 in the code)
    Extra,       \* the N of the files given as extra read-only archives
    MaxSessions, \* bound: sessions of recording processes
    MaxMishaps,  \* bound: kills, failed writes and files that cannot be opened
    MaxMerges    \* bound: calls of merge_concurrent_databases

Base  == 0
Index == 1..LastIndex
File  == {Base} \cup Index
None  == -1
Magic == "magic"            \* what prepare() writes first into a new file
Torn  == "torn"             \* the beginning of an entry whose rest is missing
Tails == {"whole", "cut", "header"}

ASSUME DatabaseAssumption ==
    /\ LastIndex \in Nat \ {0} /\ Extra \subseteq Index
    /\ Magic \notin Key /\ Torn \notin Key /\ None \notin Key
    /\ MaxSessions \in Nat /\ MaxMishaps \in Nat /\ MaxMerges \in Nat

VARIABLES
    \* The file system:
    head,       \* head[f]: "missing", "empty", "torn" (inside the magic), "good"
    disk,       \* disk[f]: keys a scan lists
    tail,       \* behind the last entry a scan of Base accepts: nothing
                \* ("whole"), a part of an entry ("cut"), or one that ends
                \* exactly behind a payload header ("header")
    broken,     \* broken[f]: entries were written behind such a part, where
                \* a scan may miss them
    frag,       \* frag[f]: keys of the entries of f that were cut short; what
                \* is written behind one may complete it for a scan
    \* A recording process:
    session,    \* "none", "on", "closed" or "killed"
    to_prime,   \* archives prepare() has still to scan
    primed,     \* primed_hashes
    index,      \* index of the creation loop in write_entry, 0 outside it
    writing,    \* the key that call is for, None outside the loop
    need,       \* need_writeonly_database
    wfile,      \* the file of writeonly_interface, None if there is none
    seen,       \* seen_blobs of writeonly_interface
    buf,        \* what it has written and the file does not hold yet
    denied,     \* history: indices whose file it could not open
    failed,     \* history: a write of this session failed
    \* merge_concurrent_databases:
    merge,      \* "none", "run" or "return" (the archives are being closed)
    result,     \* its return value: "none", "true" or "false"
    sources,    \* source_paths not opened yet
    hashes,     \* hashes of the open source still to copy
    mseen,      \* seen_blobs of append_db
    mbuf,       \* what append_db has written and Base does not hold yet
    listed,     \* history: all hashes of the sources this merge opened
    dropped,    \* history: closing the target failed, which nobody notices
    sessions, mishaps, merges

files == <<head, disk, tail, broken, frag>>
procs == <<session, to_prime, primed, index, writing, need, wfile, seen, buf, denied, failed>>
merger == <<merge, result, sources, hashes, mseen, mbuf, listed, dropped>>
bounds == <<sessions, mishaps, merges>>
vars == <<head, disk, tail, broken, frag, session, to_prime, primed, index, writing,
          need, wfile, seen, buf, denied, failed, merge, result, sources, hashes,
          mseen, mbuf, listed, dropped, sessions, mishaps, merges>>

Init ==
    /\ head = [f \in File |-> "missing"]
    /\ disk = [f \in File |-> {}]
    /\ tail = "whole"
    /\ broken = [f \in File |-> FALSE]
    /\ frag = [f \in File |-> {}]
    /\ session = [p \in Proc |-> "none"]
    /\ to_prime = [p \in Proc |-> {}]
    /\ primed = [p \in Proc |-> {}]
    /\ index = [p \in Proc |-> 0]
    /\ writing = [p \in Proc |-> None]
    /\ need = [p \in Proc |-> TRUE]
    /\ wfile = [p \in Proc |-> None]
    /\ seen = [p \in Proc |-> {}]
    /\ buf = [p \in Proc |-> <<>>]
    /\ denied = [p \in Proc |-> {}]
    /\ failed = [p \in Proc |-> FALSE]
    /\ merge = "none" /\ result = "none"
    /\ sources = {} /\ hashes = {} /\ mseen = {} /\ mbuf = <<>>
    /\ listed = {} /\ dropped = FALSE
    /\ sessions = 0 /\ mishaps = 0 /\ merges = 0

Mishap == mishaps < MaxMishaps /\ mishaps' = mishaps + 1

(***************************************************************************)
(* What a read-only StreamArchive finds in f: prepare() fails on a file    *)
(* that is missing or has no whole magic.                                  *)
(***************************************************************************)
Opens(f) == head[f] = "good"

(***************************************************************************)
(* The entry of Base that is being written.  Over the bytes of an older    *)
(* tail a scan lists it as soon as its header is there.                    *)
(***************************************************************************)
Cutting == IF mbuf = <<>> THEN {} ELSE {Head(mbuf)} \cap Key

HalfWritten(f) == IF f = Base /\ tail # "whole" THEN Cutting ELSE {}

-----------------------------------------------------------------------------
(***************************************************************************)
(* A recording process: create_concurrent_database(path, Append, extra)    *)
(* and prepare(), which scans one archive after the other.  "It's okay if  *)
(* the database doesn't exist."                                            *)
(***************************************************************************)
Start(p) ==
    /\ session[p] # "on" /\ sessions < MaxSessions
    /\ session' = [session EXCEPT ![p] = "on"]
    /\ to_prime' = [to_prime EXCEPT ![p] = {Base} \cup Extra]
    /\ primed' = [primed EXCEPT ![p] = {}]
    /\ seen' = [seen EXCEPT ![p] = {}]
    /\ denied' = [denied EXCEPT ![p] = {}]
    /\ failed' = [failed EXCEPT ![p] = FALSE]
    /\ sessions' = sessions + 1
    /\ UNCHANGED <<index, writing, need, wfile, buf, mishaps, merges>>
    /\ UNCHANGED <<files, merger>>

NextArchive(p) == CHOOSE g \in to_prime[p] : \A h \in to_prime[p] : g <= h

Prime(p) ==
    /\ session[p] = "on" /\ to_prime[p] # {}
    /\ Opens(NextArchive(p))
    /\ to_prime' = [to_prime EXCEPT ![p] = @ \ {NextArchive(p)}]
    /\ \E S \in SUBSET HalfWritten(NextArchive(p)) :
          primed' = [primed EXCEPT ![p] = @ \cup disk[NextArchive(p)] \cup S]
    /\ UNCHANGED <<session, index, writing, need, wfile, seen, buf, denied, failed>>
    /\ UNCHANGED <<files, merger, bounds>>

PrimeNothing(p) ==      \* no such archive, or it cannot be opened
    /\ session[p] = "on" /\ to_prime[p] # {}
    /\ IF Opens(NextArchive(p)) THEN Mishap ELSE UNCHANGED mishaps
    /\ to_prime' = [to_prime EXCEPT ![p] = @ \ {NextArchive(p)}]
    /\ UNCHANGED <<session, primed, index, writing, need, wfile, seen, buf, denied, failed>>
    /\ UNCHANGED <<files, merger, sessions, merges>>

(***************************************************************************)
(* write_entry(k).  A hash that is primed or already written returns true  *)
(* at once (no step).                                                      *)
(***************************************************************************)
Prepared(p) == session[p] = "on" /\ to_prime[p] = {} /\ index[p] = 0

\* Slip: primed_hashes is not looked up.
HasEntryOwnOnly(p, k) == k \in seen[p]

HasEntry(p, k) == k \in primed[p] \/ k \in seen[p]

(***************************************************************************)
(* StreamArchive::write_entry of the write-only file f, which has b in its *)
(* buffer.  It may return false behind the name (no zlib buffer, a failed  *)
(* compression): what it wrote of the entry stays in the stream, and       *)
(* seen_blobs does not learn of it.                                        *)
(***************************************************************************)
Put(p, f, b, k) ==
    /\ seen' = [seen EXCEPT ![p] = @ \cup {k}]
    /\ buf' = [buf EXCEPT ![p] = Append(b, k)]
    /\ UNCHANGED <<frag, failed, mishaps>>

PutFails(p, f, b, k) ==
    /\ Mishap
    /\ buf' = [buf EXCEPT ![p] = Append(b, Torn)]
    /\ frag' = [frag EXCEPT ![f] = @ \cup {k}]
    /\ failed' = [failed EXCEPT ![p] = TRUE]
    /\ UNCHANGED seen

WriteEntry(p, k) ==
    /\ Prepared(p) /\ ~HasEntry(p, k)
    /\ wfile[p] # None
    /\ Put(p, wfile[p], buf[p], k) \/ PutFails(p, wfile[p], buf[p], k)
    /\ UNCHANGED <<head, disk, tail, broken>>
    /\ UNCHANGED <<session, to_prime, primed, index, writing, need, wfile, denied>>
    /\ UNCHANGED <<merger, sessions, merges>>

WriteFirstEntry(p, k) ==
    /\ Prepared(p) /\ ~HasEntry(p, k)
    /\ need[p]
    /\ index' = [index EXCEPT ![p] = 1]
    /\ writing' = [writing EXCEPT ![p] = k]
    /\ UNCHANGED <<session, to_prime, primed, need, wfile, seen, buf, denied, failed>>
    /\ UNCHANGED <<files, merger, bounds>>

(***************************************************************************)
(* One turn of the loop: fopen(..., "wbx") of <path>.index.foz succeeds    *)
(* only if there is no such file.  A new file gets its magic, and then     *)
(* the entry.                                                              *)
(***************************************************************************)
\* Slip: "wb" instead of "wbx": an existing file is opened and emptied.
CreatesAlways(i) == TRUE

Creates(i) == head[i] = "missing"

TryIndex(p) ==
    /\ index[p] \in Index
    /\ Creates(index[p])
    /\ head' = [head EXCEPT ![index[p]] = "empty"]
    /\ disk' = [disk EXCEPT ![index[p]] = {}]
    /\ wfile' = [wfile EXCEPT ![p] = index[p]]
    /\ \/ Put(p, index[p], <<Magic>>, writing[p])
       \/ PutFails(p, index[p], <<Magic>>, writing[p])
    /\ index' = [index EXCEPT ![p] = 0]
    /\ need' = [need EXCEPT ![p] = FALSE]
    /\ writing' = [writing EXCEPT ![p] = None]
    /\ UNCHANGED <<tail, broken, session, to_prime, primed, denied>>
    /\ UNCHANGED <<merger, sessions, merges>>

\* Slip: the last index is not tried.
LastTried == LastIndex - 1

\* Slip: the loop runs one index too far.
OneTooMany == LastIndex + 1

NoMoreIndices == LastIndex

(***************************************************************************)
(* Any failure of prepare() sends the loop to the next index: the file is  *)
(* there already, it cannot be opened (no descriptor left, a directory     *)
(* that is missing or not writable), or it was created and its magic could *)
(* not be written.  Behind the last index write_entry gives up for good.   *)
(***************************************************************************)
IndexTaken(p) ==
    /\ ~Creates(index[p])
    /\ UNCHANGED <<head, denied, mishaps>>

IndexDenied(p) ==
    /\ Creates(index[p]) /\ Mishap
    /\ denied' = [denied EXCEPT ![p] = @ \cup {index[p]}]
    /\ \E h \in {"missing", "empty"} : head' = [head EXCEPT ![index[p]] = h]

TryNextIndex(p) ==
    /\ index[p] \in Index
    /\ IndexTaken(p) \/ IndexDenied(p)
    /\ index' = [index EXCEPT ![p] = IF @ < NoMoreIndices THEN @ + 1 ELSE 0]
    /\ need' = [need EXCEPT ![p] = index[p] < NoMoreIndices]
    /\ writing' = [writing EXCEPT ![p] = IF index[p] < NoMoreIndices THEN @ ELSE None]
    /\ UNCHANGED <<disk, tail, broken, frag>>
    /\ UNCHANGED <<session, to_prime, primed, wfile, seen, buf, failed>>
    /\ UNCHANGED <<merger, sessions, merges>>

(***************************************************************************)
(* What was written first reaches the file: because the stdio buffer is    *)
(* full, or in flush() or fclose().  A file without its magic is never     *)
(* read again.  Behind a part of an entry a scan may find the next one, or *)
(* take it for the rest of what was cut short, or stop.                    *)
(***************************************************************************)
NewHeads(f, x) ==
    IF x = Magic \/ head[f] = "good" THEN {"good"}
    ELSE IF x = Torn THEN {head[f], "torn"} ELSE {"torn"}

Listings(f, x) ==
    IF x \notin Key \/ head[f] # "good" THEN {disk[f]}
    ELSE IF broken[f] THEN {disk[f] \cup S : S \in SUBSET ({x} \cup frag[f])}
    ELSE {disk[f] \cup {x}}

Written(f, x) ==
    /\ \E h \in NewHeads(f, x) : head' = [head EXCEPT ![f] = h]
    /\ \E S \in Listings(f, x) : disk' = [disk EXCEPT ![f] = S]

Drain(p) ==
    /\ session[p] = "on" /\ buf[p] # <<>>
    /\ Written(wfile[p], Head(buf[p]))
    /\ broken' = IF Head(buf[p]) = Torn THEN [broken EXCEPT ![wfile[p]] = TRUE] ELSE broken
    /\ buf' = [buf EXCEPT ![p] = Tail(@)]
    /\ UNCHANGED <<tail, frag, session, to_prime, primed, index, writing, need, wfile, seen,
                   denied, failed>>
    /\ UNCHANGED <<merger, bounds>>

(***************************************************************************)
(* The system refuses to write: stdio drops what it has buffered.  Only    *)
(* the write_entry that happens to be called learns of it; flush() and the *)
(* destructor do not look.                                                 *)
(***************************************************************************)
DrainFails(p) ==
    /\ session[p] = "on" /\ buf[p] # <<>> /\ Mishap
    /\ buf' = [buf EXCEPT ![p] = <<Torn>>]
    /\ frag' = [frag EXCEPT ![wfile[p]] = @ \cup ({Head(buf[p])} \cap Key)]
    /\ failed' = [failed EXCEPT ![p] = TRUE]
    /\ UNCHANGED <<head, disk, tail, broken>>
    /\ UNCHANGED <<session, to_prime, primed, index, writing, need, wfile, seen, denied>>
    /\ UNCHANGED <<merger, sessions, merges>>

\* Slip: the database is dropped without closing its write-only file.
DrainedNot(p) == TRUE

Drained(p) == buf[p] = <<>>

Close(p) ==             \* ~ConcurrentDatabase(): fclose drains first
    /\ Prepared(p) /\ Drained(p)
    /\ session' = [session EXCEPT ![p] = "closed"]
    /\ buf' = [buf EXCEPT ![p] = <<>>]
    /\ wfile' = [wfile EXCEPT ![p] = None]
    /\ need' = [need EXCEPT ![p] = TRUE]
    /\ UNCHANGED <<to_prime, primed, index, writing, seen, denied, failed>>
    /\ UNCHANGED <<files, merger, bounds>>

(***************************************************************************)
(* A file whose writer stops with the magic still buffered stays empty, or *)
(* keeps a part of it.                                                     *)
(***************************************************************************)
TornHead(f, b) ==
    IF b # <<>> /\ head[f] = "empty"
    THEN \E h \in {"empty", "torn"} : head' = [head EXCEPT ![f] = h]
    ELSE UNCHANGED head

KillProcess(p) ==
    /\ session[p] = "on" /\ Mishap
    /\ session' = [session EXCEPT ![p] = "killed"]
    /\ TornHead(wfile[p], buf[p])
    /\ buf' = [buf EXCEPT ![p] = <<>>]
    /\ index' = [index EXCEPT ![p] = 0]
    /\ to_prime' = [to_prime EXCEPT ![p] = {}]
    /\ primed' = [primed EXCEPT ![p] = {}]
    /\ seen' = [seen EXCEPT ![p] = {}]
    /\ wfile' = [wfile EXCEPT ![p] = None]
    /\ need' = [need EXCEPT ![p] = TRUE]
    /\ writing' = [writing EXCEPT ![p] = None]
    /\ UNCHANGED <<disk, tail, broken, frag, denied, failed, sessions, merges>>
    /\ UNCHANGED merger

-----------------------------------------------------------------------------
(***************************************************************************)
(* merge_concurrent_databases(<path>.foz, sources): one at a time, for the *)
(* target is opened for appending without exclusion.  An append target     *)
(* that is missing or empty is made anew; one with a torn magic makes      *)
(* prepare() fail.  Behind an orphan header StreamArchive appends where no *)
(* scan need look.                                                         *)
(***************************************************************************)
MergeOpens(S) ==
    /\ merge' = "run" /\ result' = "none"
    /\ sources' = S /\ hashes' = {} /\ listed' = {} /\ dropped' = FALSE
    /\ mseen' = disk[Base]
    /\ merges' = merges + 1

MergeBegin(S) ==
    /\ merge = "none" /\ merges < MaxMerges
    /\ head[Base] # "torn"
    /\ MergeOpens(S)
    /\ head' = IF Opens(Base) THEN head ELSE [head EXCEPT ![Base] = "empty"]
    /\ mbuf' = IF Opens(Base) THEN <<>> ELSE <<Magic>>
    /\ broken' = IF tail = "header" THEN [broken EXCEPT ![Base] = TRUE] ELSE broken
    /\ UNCHANGED <<disk, tail, frag, sessions, mishaps>>
    /\ UNCHANGED procs

MergeRefused ==
    /\ merge = "none" /\ merges < MaxMerges
    /\ IF head[Base] = "torn" THEN UNCHANGED mishaps ELSE Mishap
    /\ result' = "false"
    /\ merges' = merges + 1
    /\ UNCHANGED <<merge, sources, hashes, mseen, mbuf, listed, dropped, sessions>>
    /\ UNCHANGED <<files, procs>>

NextSource == CHOOSE f \in sources : \A g \in sources : f <= g

MergeSource ==          \* prepare() of a source, and its list of hashes
    /\ merge = "run" /\ hashes = {} /\ sources # {}
    /\ Opens(NextSource)
    /\ sources' = sources \ {NextSource}
    /\ hashes' = disk[NextSource]
    /\ listed' = listed \cup disk[NextSource]
    /\ UNCHANGED <<merge, result, mseen, mbuf, dropped>>
    /\ UNCHANGED <<files, procs, bounds>>

MergeEntry(k) ==        \* raw read_entry and write_entry of one hash
    /\ merge = "run" /\ k \in hashes
    /\ hashes' = hashes \ {k}
    /\ mseen' = mseen \cup {k}
    /\ mbuf' = IF k \in mseen THEN mbuf ELSE Append(mbuf, k)
    /\ UNCHANGED <<merge, result, sources, listed, dropped>>
    /\ UNCHANGED <<files, procs, bounds>>

(***************************************************************************)
(* An unreadable source or entry ends the merge: what was copied stays.    *)
(***************************************************************************)
MergeReturns(r) ==
    /\ merge' = "return" /\ result' = r
    /\ sources' = {} /\ hashes' = {}
    /\ UNCHANGED <<mseen, listed, dropped>>
    /\ UNCHANGED procs

\* Slip: a source that cannot be opened ends the merge with success.
MergeFailsResult == "true"

MergeFails == "false"

MergeStops ==           \* a source or an entry that cannot be read
    /\ merge = "run" /\ (hashes # {} \/ sources # {})
    /\ MergeReturns(MergeFails)
    /\ UNCHANGED <<files, mbuf, bounds>>

MergeEnds ==
    /\ merge = "run" /\ hashes = {} /\ sources = {}
    /\ MergeReturns("true")
    /\ UNCHANGED <<files, mbuf, bounds>>

(***************************************************************************)
(* An entry reaches the target.  Bytes of an older, longer tail may remain *)
(* behind it, for no branch truncates the file: what the next scan takes   *)
(* them for is anybody's guess.                                            *)
(***************************************************************************)
TailsBehind(x) ==
    IF x \in Key /\ (tail # "whole" \/ broken[Base]) THEN Tails ELSE {tail}

MergeDrain ==
    /\ merge # "none" /\ mbuf # <<>>
    /\ Written(Base, Head(mbuf))
    /\ tail' \in TailsBehind(Head(mbuf))
    /\ mbuf' = Tail(mbuf)
    /\ UNCHANGED <<broken, frag, merge, result, sources, hashes, mseen, listed, dropped>>
    /\ UNCHANGED <<procs, bounds>>

MergeClose ==           \* the destructor of the target
    /\ merge = "return" /\ mbuf = <<>>
    /\ merge' = "none"
    /\ mseen' = {}
    /\ UNCHANGED <<result, sources, hashes, mbuf, listed, dropped>>
    /\ UNCHANGED <<files, procs, bounds>>

(***************************************************************************)
(* A kill, or a write the system refuses, may cut the entry S that was     *)
(* being written.  Over an older tail that leaves a new header in front of *)
(* old bytes, an entry that scans list, no reader can read and no writer   *)
(* writes again (StreamArchive shows both).                                *)
(***************************************************************************)
CutTarget(S) ==
    /\ TornHead(Base, mbuf)
    /\ \E T \in SUBSET (IF tail = "whole" THEN {} ELSE S) :
          disk' = [disk EXCEPT ![Base] = @ \cup T]
    /\ tail' \in IF S = {} THEN {tail} ELSE Tails
    /\ frag' = [frag EXCEPT ![Base] = @ \cup S]
    /\ mbuf' = <<>>
    /\ UNCHANGED broken

MergeWriteFails(k) ==   \* fwrite is short: write_entry returns false
    /\ merge = "run" /\ k \in hashes \ mseen /\ Mishap
    /\ CutTarget(IF mbuf = <<>> THEN {k} ELSE Cutting)
    /\ MergeReturns(MergeFails)
    /\ UNCHANGED <<sessions, merges>>

MergeCloseFails ==      \* fclose fails, unnoticed
    /\ merge = "return" /\ mbuf # <<>> /\ Mishap
    /\ CutTarget(Cutting)
    /\ dropped' = TRUE
    /\ UNCHANGED <<merge, result, sources, hashes, mseen, listed, sessions, merges>>
    /\ UNCHANGED procs

KillMerge ==
    /\ merge # "none" /\ Mishap
    /\ CutTarget(Cutting)
    /\ merge' = "none" /\ result' = "none"
    /\ sources' = {} /\ hashes' = {}
    /\ mseen' = {} /\ listed' = {} /\ dropped' = FALSE
    /\ UNCHANGED <<sessions, merges>>
    /\ UNCHANGED procs

-----------------------------------------------------------------------------
Record(p) ==
    \/ Start(p) \/ Prime(p) \/ PrimeNothing(p) \/ TryIndex(p) \/ TryNextIndex(p)
    \/ Drain(p) \/ DrainFails(p) \/ Close(p) \/ KillProcess(p)
    \/ \E k \in Key : WriteEntry(p, k) \/ WriteFirstEntry(p, k)

Merge ==
    \/ \E S \in SUBSET Index \ {{}} : MergeBegin(S)
    \/ MergeRefused \/ MergeSource \/ MergeStops \/ MergeEnds
    \/ \E k \in Key : MergeEntry(k) \/ MergeWriteFails(k)
    \/ MergeDrain \/ MergeClose \/ MergeCloseFails \/ KillMerge

Next == Merge \/ \E p \in Proc : Record(p)

Spec == Init /\ [][Next]_vars

-----------------------------------------------------------------------------
(***************************************************************************)
(* Type invariant.                                                         *)
(***************************************************************************)
TypeOK ==
    /\ head \in [File -> {"missing", "empty", "torn", "good"}]
    /\ disk \in [File -> SUBSET Key]
    /\ tail \in Tails
    /\ broken \in [File -> BOOLEAN] /\ frag \in [File -> SUBSET Key]
    /\ session \in [Proc -> {"none", "on", "closed", "killed"}]
    /\ to_prime \in [Proc -> SUBSET File]
    /\ primed \in [Proc -> SUBSET Key]
    /\ index \in [Proc -> {0} \cup Index]
    /\ writing \in [Proc -> Key \cup {None}]
    /\ need \in [Proc -> BOOLEAN]
    /\ wfile \in [Proc -> {None} \cup Index]
    /\ seen \in [Proc -> SUBSET Key]
    /\ buf \in [Proc -> Seq(Key \cup {Magic, Torn})]
    /\ denied \in [Proc -> SUBSET Index] /\ failed \in [Proc -> BOOLEAN]
    /\ merge \in {"none", "run", "return"}
    /\ result \in {"none", "true", "false"}
    /\ sources \subseteq Index /\ hashes \subseteq Key /\ mseen \subseteq Key
    /\ mbuf \in Seq(Key \cup {Magic})
    /\ listed \subseteq Key /\ dropped \in BOOLEAN
    /\ sessions \in Nat /\ mishaps \in Nat /\ merges \in Nat

(***************************************************************************)
(* Exclusive creation in write_entry: in whatever order the processes      *)
(* probe the indices, the file a process ends with is its own, and no      *)
(* other live session writes to it.  It holds, with what is still          *)
(* buffered, exactly the entries this session accepted; once a write has   *)
(* failed, no others but those that were cut short.                        *)
(***************************************************************************)
OwnFile ==
    \A p \in Proc : session[p] = "on" /\ wfile[p] # None =>
        /\ LET held == disk[wfile[p]] \cup ({buf[p][i] : i \in 1..Len(buf[p])} \ {Magic, Torn})
           IN  IF failed[p] THEN held \subseteq seen[p] \cup frag[wfile[p]]
                            ELSE held = seen[p]
        /\ \A q \in Proc \ {p} : session[q] = "on" => wfile[q] # wfile[p]

(***************************************************************************)
(* The processes together implement the abstract store: entries on disk    *)
(* are never lost again, not even to processes that race for an index or   *)
(* to a merge, nothing is stored that no live session wrote, and a session *)
(* that closes has every entry it was told is kept (primed from an         *)
(* archive, or accepted by write_entry) on disk, unless one of its writes  *)
(* failed: what write_entry accepts behind that one may be lost.           *)
(***************************************************************************)
Store == INSTANCE EntryStore WITH
    stored   <- UNION {disk[f] : f \in File},
    cut      <- UNION {frag[f] : f \in File},
    promised <- [p \in Proc |-> IF session[p] \in {"on", "closed"}
                                THEN primed[p] \cup seen[p] ELSE {}]

ImplementsStore == Store!Spec

(***************************************************************************)
(* get_hash_list_for_resource_tag adds the sizes of primed_hashes and of   *)
(* the write-only file: no hash is listed twice, although the archives     *)
(* that were primed are being written meanwhile.                           *)
(***************************************************************************)
ListedOnce ==
    \A p \in Proc : session[p] = "on" => primed[p] \cap seen[p] = {}

(***************************************************************************)
(* "Don't try forever": write_entry gives up for good only when this       *)
(* session has met a file, or an error, at every index, also if others     *)
(* created files while it was probing.  (After errors it never tries       *)
(* again, although the files may be missing.)                              *)
(***************************************************************************)
GivesUpWhenFull ==
    \A p \in Proc :
        session[p] = "on" /\ ~need[p] /\ wfile[p] = None
            => \A i \in Index : head[i] # "missing" \/ i \in denied[p]

(***************************************************************************)
(* merge_concurrent_databases returned true: a scan of <path>.foz lists    *)
(* every hash its sources listed, however many merges before it failed     *)
(* half way or were killed, and whatever they left behind.  The exceptions *)
(* are a target to which entries were appended behind an orphan header,    *)
(* and an error when it was closed, which comes after the result.          *)
(***************************************************************************)
MergeComplete ==
    merge = "none" /\ result = "true" /\ ~broken[Base] /\ ~dropped
        => listed \subseteq disk[Base]
=============================================================================
