--------------------------- MODULE StreamArchive ---------------------------
(***************************************************************************)
(* The .foz stream archive of fossilize_db.cpp (struct StreamArchive): an  *)
(* append-only file that one process at a time opens, scans, appends to    *)
(* and may be killed in the middle of.                                     *)
(*                                                                         *)
(* The file is a sequence of CELLS instead of bytes: the 16 byte magic is  *)
(* one cell, the 40 byte name of an entry one cell, its 16 byte payload    *)
(* header one cell, and the payload of key k is Size[k] cells.  A cell     *)
(* remembers what was meant when it was written (its kind and its key);    *)
(* what the scanner makes of a cell depends on where it meets it, which is *)
(* how a torn or half overwritten tail gets misread.                       *)
(*                                                                         *)
(* Writes go through the stdio buffer (buf) and reach the file one cell at *)
(* a time at the current file position (pos), so a kill can leave the file *)
(* cut after any cell, and a tail that is not truncated keeps its old      *)
(* cells beyond the last new one.                                          *)
(***************************************************************************)
EXTENDS Integers, Sequences

CONSTANTS
    Key,         \* (resource tag, hash) pairs the application may store
    Size,        \* Size[k]: cells of the stored payload of k
    Misread,     \* Misread[k]: payload_size decoded from a payload cell of k
    AsciiSize,   \* payload_size decoded from a cell of hex digits (a name)
    Phantom,     \* what a cell that is no name decodes to as (tag, hash)
    Checksum,    \* PAYLOAD_WRITE_COMPUTE_CHECKSUM_BIT is passed to write_entry
    MaxCells,    \* bound: length of the file
    MaxSessions, \* bound: number of prepare() calls
    MaxFails     \* bound: number of write_entry calls that fail half way

ASSUME KeyAssumption == Phantom \notin Key
ASSUME SizeAssumption ==
    /\ Size \in [Key -> Nat]
    /\ Misread \in [Key \cup {Phantom} -> Nat]
    /\ AsciiSize \in Nat
ASSUME BoundAssumption ==
    /\ Checksum \in BOOLEAN
    /\ MaxCells \in Nat /\ MaxSessions \in Nat /\ MaxFails \in Nat

VARIABLES
    exists,      \* the file exists
    disk,        \* its cells, as the operating system holds them
    st,          \* "closed", "scan" (in prepare()'s loop) or "open" (alive)
    mode,        \* DatabaseMode of the current session
    offset,      \* prepare(): offset of the loop
    pos,         \* stdio file position: where the next buffered cell goes
    seen,        \* seen_blobs: Absent, NoOffset for Entry{}, or an offset
    buf,         \* cells accepted by fwrite and not yet in the file
    sessions,    \* prepare() calls so far
    fails,       \* failed writes so far
    \* History, read by no action of the code:
    added,       \* keys this session really appended
    spoilt,      \* this session appended at a wrong place or wrote half an entry
    misplaced,   \* this session appended after a header that has no payload
    scarred,     \* some session of this file was spoilt
    written,     \* how each key was last stored by a session closed cleanly
    commit,      \* end of the entries a scan of this file has ever accepted
    bounds       \* offsets at which those entries begin or end

history == <<added, spoilt, misplaced, scarred, written, commit, bounds>>
vars == <<exists, disk, st, mode, offset, pos, seen, buf, sessions, fails,
          added, spoilt, misplaced, scarred, written, commit, bounds>>

Modes    == {"ReadOnly", "Append", "OverWrite", "ExclusiveOverWrite"}
Absent   == -1
NoOffset == 0

MagicSize == 1
HeadSize  == 2      \* FOSSILIZE_BLOB_HASH_LENGTH + sizeof(PayloadHeaderRaw)

Kinds == {"magic", "name", "header", "payload"}
Cell  == [kind : Kinds, key : Key \cup {Phantom}, n : Nat]

Magic         == [kind |-> "magic", key |-> Phantom, n |-> 0]
NameCell(k)   == [kind |-> "name", key |-> k, n |-> 0]
HeaderCell(k) == [kind |-> "header", key |-> k, n |-> Size[k]]
PayloadCell(k, i) == [kind |-> "payload", key |-> k, n |-> i]

(***************************************************************************)
(* The cells write_entry produces for k: name, header, payload.            *)
(***************************************************************************)
EntryLength(k) == HeadSize + Size[k]
EntryCells(k) ==
    [i \in 1..EntryLength(k) |->
        IF i = 1 THEN NameCell(k)
        ELSE IF i = 2 THEN HeaderCell(k)
        ELSE PayloadCell(k, i - HeadSize)]

(***************************************************************************)
(* What the scanner reads.  A cell in the header position decodes to its   *)
(* payload_size: the real one only if the cell is a header.  A cell in the *)
(* name position decodes to a (tag, hash): strtoul of anything but a name  *)
(* yields the phantom.                                                     *)
(***************************************************************************)
PayloadSize(c) ==
    IF c.kind = "header" THEN c.n
    ELSE IF c.kind = "payload" THEN Misread[c.key]
    ELSE AsciiSize

NameOf(c) == IF c.kind = "name" THEN c.key ELSE Phantom

NextOffset(o) == o + HeadSize + PayloadSize(disk[o + HeadSize])
HeadFits(o)   == o + HeadSize <= Len(disk)

\* Slip: the last entry of an undamaged file is taken for a sliced one.
EntryFitsShort(o) == HeadFits(o) /\ NextOffset(o) < Len(disk)

EntryFits(o) == HeadFits(o) /\ NextOffset(o) <= Len(disk)

WritePos == pos + Len(buf)      \* where the next fwrite lands in the end

Max2(a, b) == IF a >= b THEN a ELSE b

-----------------------------------------------------------------------------
(***************************************************************************)
(* prepare(): fopen by mode, then the magic or the scan.                   *)
(***************************************************************************)
Fresh(m) ==
    /\ st' = "open"
    /\ mode' = m
    /\ exists' = TRUE
    /\ disk' = <<>>
    /\ buf' = <<Magic>>
    /\ pos' = 0
    /\ offset' = 0
    /\ seen' = [k \in Key \cup {Phantom} |-> Absent]
    /\ sessions' = sessions + 1
    /\ added' = {}
    /\ spoilt' = FALSE
    /\ misplaced' = FALSE
    /\ scarred' = FALSE
    /\ written' = [k \in Key |-> "no"]
    /\ commit' = 0
    /\ bounds' = {}
    /\ UNCHANGED fails

PrepareOverWrite ==
    /\ st = "closed" /\ sessions < MaxSessions
    /\ Fresh("OverWrite")

PrepareExclusive ==
    /\ st = "closed" /\ sessions < MaxSessions
    /\ ~exists                                  \* "wbx" refuses to replace
    /\ Fresh("ExclusiveOverWrite")

PrepareAppendEmpty ==                           \* "r+b", or "wb" if missing
    /\ st = "closed" /\ sessions < MaxSessions
    /\ Len(disk) = 0
    /\ Fresh("Append")

(***************************************************************************)
(* ReadOnly or Append on a file with a good magic enters the scan.  (On a  *)
(* missing file, a bad magic, or an empty file opened read-only, prepare() *)
(* returns false and nothing changes.)                                     *)
(***************************************************************************)
PrepareScan(m) ==
    /\ st = "closed" /\ sessions < MaxSessions
    /\ exists /\ Len(disk) > 0
    /\ disk[MagicSize].kind = "magic"
    /\ st' = "scan"
    /\ mode' = m
    /\ offset' = MagicSize
    /\ pos' = MagicSize
    /\ seen' = [k \in Key \cup {Phantom} |-> Absent]
    /\ sessions' = sessions + 1
    /\ added' = {}
    /\ spoilt' = FALSE
    /\ misplaced' = FALSE
    /\ commit' = Max2(commit, MagicSize)
    /\ bounds' = bounds \cup {MagicSize}
    /\ UNCHANGED <<exists, disk, buf, fails, scarred, written>>

(***************************************************************************)
(* One turn of the loop that accepts an entry.  emplace keeps the entry    *)
(* that came first.                                                        *)
(***************************************************************************)
ScanEntry ==
    /\ st = "scan" /\ offset < Len(disk)
    /\ EntryFits(offset)
    /\ LET k == NameOf(disk[offset + 1])
       IN  seen' = IF seen[k] = Absent
                   THEN [seen EXCEPT ![k] = offset + HeadSize]
                   ELSE seen
    /\ offset' = NextOffset(offset)
    /\ pos' = NextOffset(offset)
    /\ commit' = Max2(commit, NextOffset(offset))
    /\ bounds' = bounds \cup {NextOffset(offset)}
    /\ UNCHANGED <<exists, disk, st, mode, buf, sessions, fails,
                   added, spoilt, misplaced, scarred, written>>

(***************************************************************************)
(* The end of prepare(), o being the loop's offset and begin its           *)
(* begin_append_offset: only Append seeks back, and only if o # len.  No   *)
(* branch truncates the file.                                              *)
(***************************************************************************)
\* Slip: begin_append_offset is never moved out of the loop's first turn.
AppendPosAtStart(o, begin) == IF o # Len(disk) THEN MagicSize ELSE Len(disk)

\* Slip: the append goes to where the sliced entry would have ended.
AppendPosPastSlice(o, begin) ==
    IF o # Len(disk) /\ HeadFits(begin) THEN NextOffset(begin) ELSE Len(disk)

AppendPos(o, begin) == IF o # Len(disk) THEN begin ELSE Len(disk)

ScanDone(o, begin) ==
    /\ st' = "open"
    /\ offset' = o
    /\ pos' = IF mode = "Append" THEN AppendPos(o, begin) ELSE pos
    /\ misplaced' = (mode = "Append" /\ pos' # begin)
    /\ spoilt' = misplaced'
    /\ scarred' = (scarred \/ misplaced')
    /\ UNCHANGED <<exists, disk, mode, seen, buf, sessions, fails,
                   added, written, commit, bounds>>

ScanEnd ==
    /\ st = "scan" /\ offset = Len(disk)
    /\ ScanDone(offset, offset)

ScanSlicedHead ==                 \* "Detected sliced file": no whole header
    /\ st = "scan" /\ offset < Len(disk)
    /\ ~HeadFits(offset)
    /\ ScanDone(offset, offset)

ScanSlicedPayload ==              \* the offset has moved past the header
    /\ st = "scan" /\ offset < Len(disk)
    /\ HeadFits(offset) /\ ~EntryFits(offset)
    /\ ScanDone(offset + HeadSize, offset)

-----------------------------------------------------------------------------
(***************************************************************************)
(* write_entry(k): a key already in seen_blobs returns true and writes     *)
(* nothing (no step).  Otherwise the whole entry goes to fwrite.           *)
(***************************************************************************)
Writable == st = "open" /\ mode # "ReadOnly"

WriteEntry(k) ==
    /\ Writable
    /\ seen[k] = Absent
    /\ WritePos + EntryLength(k) <= MaxCells
    /\ buf' = buf \o EntryCells(k)
    /\ seen' = [seen EXCEPT ![k] = NoOffset]
    /\ added' = added \cup {k}
    /\ UNCHANGED <<exists, disk, st, mode, offset, pos, sessions, fails,
                   spoilt, misplaced, scarred, written, commit, bounds>>

(***************************************************************************)
(* write_entry returns false after the name (a raw blob without a header,  *)
(* no zlib buffer, a failed compression) or after a short fwrite: the      *)
(* first j cells stay in the stream and seen_blobs does not learn of k.    *)
(***************************************************************************)
WriteEntryFails(k, j) ==
    /\ Writable
    /\ seen[k] = Absent
    /\ fails < MaxFails
    /\ WritePos + j <= MaxCells
    /\ buf' = buf \o SubSeq(EntryCells(k), 1, j)
    /\ fails' = fails + 1
    /\ spoilt' = TRUE
    /\ scarred' = TRUE
    /\ UNCHANGED <<exists, disk, st, mode, offset, pos, seen, sessions,
                   added, misplaced, written, commit, bounds>>

(***************************************************************************)
(* One cell leaves the stdio buffer: because it is full, or in flush() or  *)
(* fclose().                                                               *)
(***************************************************************************)
Overwrite(d, p, c) ==
    [i \in 1..Max2(Len(d), p + 1) |-> IF i = p + 1 THEN c ELSE d[i]]

Drain ==
    /\ st = "open" /\ buf # <<>>
    /\ disk' = Overwrite(disk, pos, Head(buf))
    /\ buf' = Tail(buf)
    /\ pos' = pos + 1
    /\ UNCHANGED <<exists, st, mode, offset, seen, sessions, fails>>
    /\ UNCHANGED history

(***************************************************************************)
(* ~StreamArchive(): fclose after everything buffered has been drained.    *)
(***************************************************************************)
Close ==
    /\ st = "open" /\ buf = <<>>
    /\ st' = "closed"
    /\ written' = IF misplaced = spoilt
                  THEN [k \in Key |-> IF k \notin added THEN written[k]
                                      ELSE IF spoilt THEN "misplaced" ELSE "aligned"]
                  ELSE written
    /\ UNCHANGED <<exists, disk, mode, offset, pos, seen, buf, sessions, fails,
                   added, spoilt, misplaced, scarred, commit, bounds>>

(***************************************************************************)
(* The process is killed: whatever is still buffered is lost.              *)
(***************************************************************************)
Kill ==
    /\ st # "closed"
    /\ st' = "closed"
    /\ buf' = <<>>
    /\ UNCHANGED <<exists, disk, mode, offset, pos, seen, sessions, fails>>
    /\ UNCHANGED history

-----------------------------------------------------------------------------
Init ==
    /\ exists \in BOOLEAN
    /\ disk = <<>>
    /\ st = "closed"
    /\ mode = "ReadOnly"
    /\ offset = 0
    /\ pos = 0
    /\ seen = [k \in Key \cup {Phantom} |-> Absent]
    /\ buf = <<>>
    /\ sessions = 0
    /\ fails = 0
    /\ added = {}
    /\ spoilt = FALSE
    /\ misplaced = FALSE
    /\ scarred = FALSE
    /\ written = [k \in Key |-> "no"]
    /\ commit = 0
    /\ bounds = {}

Prepare ==
    \/ PrepareOverWrite
    \/ PrepareExclusive
    \/ PrepareAppendEmpty
    \/ \E m \in {"ReadOnly", "Append"} : PrepareScan(m)

Scan == ScanEntry \/ ScanEnd \/ ScanSlicedHead \/ ScanSlicedPayload

Write ==
    \E k \in Key :
        \/ WriteEntry(k)
        \/ \E j \in 1..EntryLength(k) - 1 : WriteEntryFails(k, j)

Next == Prepare \/ Scan \/ Write \/ Drain \/ Close \/ Kill

Spec == Init /\ [][Next]_vars

-----------------------------------------------------------------------------
(***************************************************************************)
(* read_entry(k) of a read-only session.  An entry whose header is not one *)
(* has a bad format.  With a checksum a payload that is not the one the    *)
(* header was computed for is refused; without, its bytes are returned.    *)
(***************************************************************************)
Intact(o) ==
    LET h == disk[o]
    IN  \A i \in 1..h.n : disk[o + i] = PayloadCell(h.key, i)

\* Slip: the CRC is not compared.
ReadEntryUnchecked(k) ==
    LET o == seen[k]
    IN  IF o = Absent \/ disk[o].kind # "header" THEN "fail"
        ELSE IF Intact(o) THEN disk[o].key ELSE "garbled"

ReadEntry(k) ==
    LET o == seen[k]
    IN  IF o = Absent \/ disk[o].kind # "header" THEN "fail"
        ELSE IF Intact(o) THEN disk[o].key
        ELSE IF Checksum THEN "fail" ELSE "garbled"

Readable(k) == seen[k] # Absent /\ ReadEntry(k) = k

-----------------------------------------------------------------------------
(***************************************************************************)
(* Type invariant.  The file position never leaves a hole in the file.     *)
(***************************************************************************)
TypeOK ==
    /\ exists \in BOOLEAN
    /\ disk \in Seq(Cell)
    /\ st \in {"closed", "scan", "open"}
    /\ mode \in Modes
    /\ offset \in Nat
    /\ pos \in Nat /\ pos <= Len(disk)
    /\ seen \in [Key \cup {Phantom} -> Int]
    /\ buf \in Seq(Cell)
    /\ sessions \in Nat /\ fails \in Nat
    /\ added \subseteq Key
    /\ spoilt \in BOOLEAN /\ misplaced \in BOOLEAN /\ scarred \in BOOLEAN
    /\ written \in [Key -> {"no", "misplaced", "aligned"}]
    /\ commit \in Nat
    /\ bounds \subseteq Nat

(***************************************************************************)
(* Crash safety of the append protocol (prepare()'s begin_append_offset    *)
(* and the writes that follow): once any scan has accepted an entry, no    *)
(* step of any later session, killed or not, on however torn a file,       *)
(* changes one of its cells or cuts it off.  Only OverWrite may.           *)
(***************************************************************************)
KeepsCommitted ==
    /\ commit' >= commit
    /\ Len(disk') >= commit
    /\ \A i \in 1..commit : disk'[i] = disk[i]

CommittedStable ==
    [][PrepareOverWrite \/ PrepareExclusive \/ KeepsCommitted]_vars

(***************************************************************************)
(* Every later scan reaches all that an earlier one accepted: neither a    *)
(* torn tail nor what was appended since hides an accepted entry from      *)
(* prepare()'s loop.                                                       *)
(***************************************************************************)
ScanReachesCommitted ==
    st = "open" => offset >= commit

(***************************************************************************)
(* Durability: what write_entry appended in a session that began at the    *)
(* end of the last complete entry, had no failed write and was closed, is  *)
(* returned by read_entry in every later read-only session.                *)
(***************************************************************************)
Reading == st = "open" /\ mode = "ReadOnly"

AlignedReadable ==
    Reading => \A k \in Key : written[k] = "aligned" => Readable(k)

(***************************************************************************)
(* With checksums, read_entry(k) returns the blob of k or fails, however   *)
(* many kills left half overwritten tails in the file.  (A file to which   *)
(* a failed write or a misplaced append has happened is excepted: its      *)
(* cells may line up so that a name is followed by the header and payload  *)
(* of another key, which no checksum covers.)                              *)
(***************************************************************************)
ReadFaithful ==
    Reading /\ ~scarred => \A k \in Key : ReadEntry(k) \in {k, "fail"}

(***************************************************************************)
(* README.md: the archive "is designed to be robust in cases where writes  *)
(* to the database are cut off abrubtly".  Then a session that follows     *)
(* such a cut, appends without a failed write and closes must be readable, *)
(* wherever the cut fell.                                                  *)
(***************************************************************************)
WrittenReadable ==
    Reading => \A k \in Key : written[k] # "no" => Readable(k)
=============================================================================
