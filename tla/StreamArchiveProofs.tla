------------------------ MODULE StreamArchiveProofs ------------------------
(***************************************************************************)
(* Proofs about StreamArchive for every set of keys, every payload size    *)
(* and every way garbage may decode: the type invariant, the crash safety  *)
(* of the append protocol (CommittedStable, ScanReachesCommitted), and     *)
(* durability (AlignedReadable, ReadFaithful).                             *)
(***************************************************************************)
EXTENDS StreamArchive, SequenceTheorems, TLAPS

(***************************************************************************)
(* The inductive invariant behind crash safety.  The offsets in bounds     *)
(* form a chain of complete entries from the magic to commit; prepare()'s  *)
(* loop only ever stands on that chain or at its end; and a session that   *)
(* may write has its file position at or behind the end of the chain.      *)
(***************************************************************************)
ChainInv ==
    /\ commit <= Len(disk)
    /\ commit > 0 => MagicSize \in bounds /\ commit \in bounds
    /\ \A b \in bounds :
        /\ MagicSize <= b /\ b <= commit
        /\ b < commit => b + HeadSize <= commit /\ NextOffset(b) \in bounds

ScanInv ==
    st = "scan" => /\ offset \in bounds
                   /\ buf = <<>>
                   /\ mode \in {"ReadOnly", "Append"}

WriteInv ==
    /\ st = "open" => offset >= commit
    /\ Writable => pos >= commit
    /\ buf # <<>> => Writable

IInv == TypeOK /\ ChainInv /\ ScanInv /\ WriteInv

-----------------------------------------------------------------------------
(***************************************************************************)
(* The cells of an entry form a sequence of cells.                         *)
(***************************************************************************)
LEMMA EntryCellsType ==
    ASSUME NEW k \in Key
    PROVE  /\ EntryLength(k) \in Nat /\ EntryLength(k) >= 2
           /\ EntryCells(k) \in Seq(Cell)
           /\ Len(EntryCells(k)) = EntryLength(k)
<1>1. EntryLength(k) \in Nat /\ EntryLength(k) >= 2
  BY SizeAssumption DEF EntryLength, HeadSize
<1>2. \A i \in 1..EntryLength(k) : EntryCells(k)[i] \in Cell
  BY <1>1, SizeAssumption
  DEF EntryCells, Cell, Kinds, NameCell, HeaderCell, PayloadCell, HeadSize
<1>3. EntryCells(k) \in [1..EntryLength(k) -> Cell]
  BY <1>2 DEF EntryCells
<1>4. QED
  BY <1>1, <1>3, SeqDef, LenProperties

(***************************************************************************)
(* What is decoded from a cell in the header position is a size.           *)
(***************************************************************************)
LEMMA PayloadSizeType == \A c \in Cell : PayloadSize(c) \in Nat
BY SizeAssumption DEF PayloadSize, Cell

(***************************************************************************)
(* Draining one cell keeps a sequence of cells, without a hole, and leaves *)
(* every other cell as it was.                                             *)
(***************************************************************************)
LEMMA OverwriteType ==
    ASSUME NEW d \in Seq(Cell), NEW p \in Nat, p <= Len(d), NEW c \in Cell
    PROVE  /\ Overwrite(d, p, c) \in Seq(Cell)
           /\ Len(Overwrite(d, p, c)) = Max2(Len(d), p + 1)
           /\ \A i \in 1..p : Overwrite(d, p, c)[i] = d[i]
<1> DEFINE n == Max2(Len(d), p + 1)
<1>1. n \in Nat /\ n >= p + 1 /\ n >= Len(d) /\ (n = Len(d) \/ n = p + 1)
  BY DEF Max2
<1>2. \A i \in 1..n : i = p + 1 \/ i \in 1..Len(d)
  BY <1>1
<1>3. \A i \in 1..Len(d) : d[i] \in Cell
  BY ElementOfSeq
<1>4. Overwrite(d, p, c) \in [1..n -> Cell]
  BY <1>2, <1>3 DEF Overwrite
<1>5. \A i \in 1..p : Overwrite(d, p, c)[i] = d[i]
  BY <1>1 DEF Overwrite
<1>6. QED
  BY <1>1, <1>4, <1>5, SeqDef, LenProperties

-----------------------------------------------------------------------------
(***************************************************************************)
(* An empty seen_blobs.                                                    *)
(***************************************************************************)
LEMMA NothingSeen ==
    [k \in Key \cup {Phantom} |-> Absent] \in [Key \cup {Phantom} -> Int]
BY DEF Absent

(***************************************************************************)
(* A file that is missing or empty, and nobody at it, is well typed.       *)
(***************************************************************************)
LEMMA TypeInit == Init => TypeOK
<1> SUFFICES ASSUME Init PROVE TypeOK
  OBVIOUS
<1>1. disk \in Seq(Cell) /\ buf \in Seq(Cell) /\ Len(disk) = 0
  BY EmptySeq DEF Init
<1>2. exists \in BOOLEAN /\ spoilt \in BOOLEAN /\ misplaced \in BOOLEAN /\ scarred \in BOOLEAN
  BY Zenon DEF Init
<1>3. seen \in [Key \cup {Phantom} -> Int]
  BY NothingSeen, Zenon DEF Init
<1>4. written \in [Key -> {"no", "misplaced", "aligned"}]
  BY DEF Init
<1>5. QED
  BY <1>1, <1>2, <1>3, <1>4 DEF Init, TypeOK, Modes

(***************************************************************************)
(* Facts about the scan position used by several steps: with the type      *)
(* invariant, an offset whose header fits has a successor.                 *)
(***************************************************************************)
LEMMA NextOffsetType ==
    ASSUME TypeOK, NEW o \in Nat, HeadFits(o)
    PROVE  NextOffset(o) \in Nat /\ NextOffset(o) >= o + 2
<1>1. disk[o + HeadSize] \in Cell
  BY ElementOfSeq DEF TypeOK, HeadFits, HeadSize
<1>2. QED
  BY <1>1, PayloadSizeType DEF NextOffset, HeadSize

(***************************************************************************)
(* Every step of a session keeps the types, and none leaves a hole: the    *)
(* file position stays within the file.                                    *)
(***************************************************************************)
LEMMA TypeStep == TypeOK /\ [Next]_vars => TypeOK'
<1> SUFFICES ASSUME TypeOK, [Next]_vars PROVE TypeOK'
  OBVIOUS
<1> USE DEF Modes, Absent, NoOffset, MagicSize
<1>a. Magic \in Cell
  BY DEF Magic, Cell, Kinds
<1>1. ASSUME NEW m \in Modes, Fresh(m) PROVE TypeOK'
  <2>1. disk' \in Seq(Cell) /\ buf' \in Seq(Cell) /\ Len(disk') = 0
    BY <1>1, <1>a, EmptySeq DEF Fresh
  <2>2. /\ exists' \in BOOLEAN /\ spoilt' \in BOOLEAN
        /\ misplaced' \in BOOLEAN /\ scarred' \in BOOLEAN
    BY <1>1, Zenon DEF Fresh
  <2>3. seen' \in [Key \cup {Phantom} -> Int]
    BY <1>1, NothingSeen, Zenon DEF Fresh
  <2>4. written' \in [Key -> {"no", "misplaced", "aligned"}]
    BY <1>1 DEF Fresh
  <2>5. QED
    BY <1>1, <2>1, <2>2, <2>3, <2>4 DEF Fresh, TypeOK
<1>2. ASSUME NEW m \in {"ReadOnly", "Append"}, PrepareScan(m) PROVE TypeOK'
  <2>1. seen' \in [Key \cup {Phantom} -> Int]
    BY <1>2, NothingSeen, Zenon DEF PrepareScan
  <2>2. spoilt' \in BOOLEAN /\ misplaced' \in BOOLEAN
    BY <1>2, Zenon DEF PrepareScan
  <2>3. QED
    BY <1>2, <2>1, <2>2 DEF PrepareScan, TypeOK, Max2
<1>3. CASE ScanEntry
  <2>1. NextOffset(offset) \in Nat /\ NextOffset(offset) <= Len(disk)
    BY <1>3, NextOffsetType DEF ScanEntry, EntryFits, TypeOK
  <2>2. disk[offset + 1] \in Cell
    BY <1>3, ElementOfSeq DEF ScanEntry, TypeOK
  <2>3. NameOf(disk[offset + 1]) \in Key \cup {Phantom}
    BY <2>2 DEF NameOf, Cell
  <2>4. seen' \in [Key \cup {Phantom} -> Int]
    BY <1>3, <2>3 DEF ScanEntry, TypeOK, HeadSize
  <2>5. commit' \in Nat /\ bounds' \subseteq Nat
    BY <1>3, <2>1 DEF ScanEntry, TypeOK, Max2
  <2>6. QED
    BY <1>3, <2>1, <2>4, <2>5 DEF ScanEntry, TypeOK
<1>4. ASSUME NEW o \in Nat, NEW b \in Nat, b <= Len(disk), ScanDone(o, b)
      PROVE  TypeOK'
  BY <1>4 DEF ScanDone, AppendPos, TypeOK
<1>5. CASE ScanEnd
  BY <1>5, <1>4 DEF ScanEnd, TypeOK
<1>6. CASE ScanSlicedHead
  BY <1>6, <1>4 DEF ScanSlicedHead, TypeOK
<1>7. CASE ScanSlicedPayload
  BY <1>7, <1>4 DEF ScanSlicedPayload, TypeOK, HeadSize
<1>8. ASSUME NEW k \in Key, WriteEntry(k) PROVE TypeOK'
  <2>1. buf' \in Seq(Cell)
    BY <1>8, EntryCellsType, ConcatProperties DEF WriteEntry, TypeOK
  <2>2. QED
    BY <1>8, <2>1 DEF WriteEntry, TypeOK
<1>9. ASSUME NEW k \in Key, NEW j \in 1..EntryLength(k) - 1, WriteEntryFails(k, j)
      PROVE  TypeOK'
  <2>1. SubSeq(EntryCells(k), 1, j) \in Seq(Cell)
    BY EntryCellsType, SubSeqProperties
  <2>2. buf' \in Seq(Cell)
    BY <1>9, <2>1, ConcatProperties DEF WriteEntryFails, TypeOK
  <2>3. QED
    BY <1>9, <2>2 DEF WriteEntryFails, TypeOK
<1>10. CASE Drain
  <2>1. Head(buf) \in Cell /\ Tail(buf) \in Seq(Cell)
    BY <1>10, HeadTailProperties DEF Drain, TypeOK
  <2>2. disk' \in Seq(Cell) /\ pos + 1 <= Len(disk')
    BY <1>10, <2>1, OverwriteType DEF Drain, TypeOK, Max2
  <2>3. QED
    BY <1>10, <2>1, <2>2 DEF Drain, TypeOK, history
<1>11. CASE Close
  BY <1>11 DEF Close, TypeOK
<1>12. CASE Kill
  BY <1>12, EmptySeq DEF Kill, TypeOK, history
<1>13. CASE UNCHANGED vars
  BY <1>13 DEF vars, TypeOK
<1>14. QED
  BY <1>1, <1>2, <1>3, <1>5, <1>6, <1>7, <1>8, <1>9, <1>10, <1>11, <1>12, <1>13
  DEF Next, Prepare, Scan, Write, PrepareOverWrite, PrepareExclusive, PrepareAppendEmpty

(***************************************************************************)
(* Every reachable state of an archive and its process is well typed, and  *)
(* the file position never lies beyond the end of the file.                *)
(***************************************************************************)
THEOREM TypeCorrect == Spec => []TypeOK
BY TypeInit, TypeStep, PTL DEF Spec

-----------------------------------------------------------------------------
(***************************************************************************)
(* A step that leaves every cell below commit in place keeps the chain:    *)
(* the entries it links are decoded from those cells only.                 *)
(***************************************************************************)
LEMMA ChainKept ==
    ASSUME TypeOK, ChainInv, TypeOK', KeepsCommitted,
           commit' = commit, bounds' = bounds
    PROVE  ChainInv'
<1>1. ASSUME NEW b \in bounds, b < commit PROVE NextOffset(b)' = NextOffset(b)
  <2>1. b + HeadSize \in 1..commit
    BY <1>1 DEF ChainInv, TypeOK, HeadSize
  <2>2. QED
    BY <2>1 DEF NextOffset, KeepsCommitted
<1>2. QED
  BY <1>1 DEF ChainInv, KeepsCommitted, TypeOK

(***************************************************************************)
(* No entry has been accepted at the start, so the chain is empty.         *)
(***************************************************************************)
LEMMA InvInit == Init => IInv
<1> SUFFICES ASSUME Init PROVE IInv
  OBVIOUS
<1>1. Len(disk) = 0
  BY EmptySeq DEF Init
<1>2. QED
  BY <1>1, TypeInit DEF Init, IInv, ChainInv, ScanInv, WriteInv, Writable

(***************************************************************************)
(* Every step keeps the invariant, and every step but OverWrite's fopen    *)
(* keeps the committed cells.                                              *)
(***************************************************************************)
LEMMA InvStep ==
    ASSUME IInv, [Next]_vars
    PROVE  IInv' /\ (PrepareOverWrite \/ PrepareExclusive \/ KeepsCommitted)
<1> USE DEF IInv
<1>0. TypeOK'
  BY TypeStep
<1>a. ASSUME disk' = disk, commit' >= commit PROVE KeepsCommitted
  BY <1>a DEF KeepsCommitted, ChainInv, TypeOK
<1>1. ASSUME NEW m \in Modes \ {"ReadOnly"}, Fresh(m)
      PROVE  ChainInv' /\ ScanInv' /\ WriteInv'
  <2>1. Len(disk') = 0
    BY <1>1, EmptySeq DEF Fresh
  <2>2. QED
    BY <1>1, <2>1 DEF Fresh, ChainInv, ScanInv, WriteInv, Writable, Modes
<1>2. CASE PrepareOverWrite
  BY <1>0, <1>1, <1>2 DEF PrepareOverWrite, Modes
<1>3. CASE PrepareExclusive
  BY <1>0, <1>1, <1>3 DEF PrepareExclusive, Modes
<1>4. CASE PrepareAppendEmpty
  <2>1. commit = 0
    BY <1>4 DEF PrepareAppendEmpty, ChainInv, TypeOK
  <2>2. KeepsCommitted
    BY <1>4, <2>1, <1>0 DEF PrepareAppendEmpty, Fresh, KeepsCommitted, TypeOK
  <2>3. QED
    BY <1>0, <1>1, <1>4, <2>2 DEF PrepareAppendEmpty, Modes
<1>5. ASSUME NEW m \in {"ReadOnly", "Append"}, PrepareScan(m)
      PROVE  IInv' /\ KeepsCommitted
  <2>1. ChainInv'
    <3>1. /\ disk' = disk /\ Len(disk) > 0
          /\ commit' = Max2(commit, MagicSize) /\ bounds' = bounds \cup {MagicSize}
      BY <1>5 DEF PrepareScan
    <3>2. CASE commit > 0
      <4>1. commit' = commit /\ bounds' = bounds
        BY <3>1, <3>2 DEF ChainInv, TypeOK, Max2, MagicSize
      <4>2. QED
        BY <3>1, <4>1 DEF ChainInv, NextOffset
    <3>3. CASE commit = 0
      <4>0. bounds = {}
        <5>1. ASSUME NEW b \in bounds PROVE FALSE
          <6>1. MagicSize <= b /\ b <= commit /\ b \in Nat
            BY <5>1 DEF ChainInv, TypeOK
          <6>2. QED
            BY <3>3, <6>1 DEF MagicSize
        <5>2. QED
          BY <5>1, Zenon
      <4>1. commit' = MagicSize /\ bounds' = {MagicSize}
        BY <3>1, <3>3, <4>0 DEF Max2, MagicSize
      <4>2. QED
        BY <3>1, <4>1, LenProperties DEF ChainInv, MagicSize, TypeOK
    <3>4. QED
      BY <3>2, <3>3 DEF TypeOK
  <2>2. ScanInv' /\ WriteInv'
    BY <1>5 DEF PrepareScan, ScanInv, WriteInv, Writable, MagicSize
  <2>3. QED
    BY <1>0, <1>5, <1>a, <2>1, <2>2 DEF PrepareScan, Max2, MagicSize, TypeOK
<1>6. CASE ScanEntry
  <2>1. /\ offset \in bounds /\ offset \in Nat
        /\ NextOffset(offset) \in Nat /\ NextOffset(offset) >= offset + 2
        /\ NextOffset(offset) <= Len(disk)
    BY <1>6, NextOffsetType DEF ScanEntry, EntryFits, ScanInv, TypeOK
  <2>2. offset < commit => NextOffset(offset) \in bounds /\ NextOffset(offset) <= commit
    BY <2>1 DEF ChainInv
  <2>3. offset <= commit
    BY <2>1 DEF ChainInv
  <2>4. ChainInv'
    <3>1. CASE offset < commit
      BY <1>6, <2>1, <2>2, <3>1 DEF ScanEntry, ChainInv, NextOffset, HeadSize, Max2, TypeOK
    <3>2. CASE offset = commit
      <4>1. /\ commit' = NextOffset(offset)
            /\ bounds' = bounds \cup {NextOffset(offset)}
            /\ disk' = disk
        BY <1>6, <2>1, <3>2 DEF ScanEntry, Max2
      <4>2. \A b \in bounds' : NextOffset(b)' = NextOffset(b)
        BY <4>1 DEF NextOffset
      <4>3. \A b \in bounds : MagicSize <= b /\ b <= commit
        BY DEF ChainInv
      <4>4. ASSUME NEW b \in bounds'
            PROVE  /\ MagicSize <= b /\ b <= commit'
                   /\ b < commit' => b + HeadSize <= commit' /\ NextOffset(b) \in bounds'
        BY <2>1, <3>2, <4>1, <4>3 DEF ChainInv, TypeOK, MagicSize, HeadSize
      <4>5. commit > 0 /\ MagicSize \in bounds
        BY <2>1, <3>2, <4>3 DEF ChainInv, MagicSize
      <4>6. QED
        BY <2>1, <4>1, <4>2, <4>4, <4>5 DEF ChainInv
    <3>3. QED
      BY <2>1, <2>3, <3>1, <3>2 DEF TypeOK
  <2>5. ScanInv' /\ WriteInv'
    BY <1>6 DEF ScanEntry, ScanInv, WriteInv, Writable
  <2>6. QED
    BY <1>0, <1>6, <1>a, <2>1, <2>4, <2>5 DEF ScanEntry, Max2, TypeOK
<1>7. ASSUME st = "scan", offset >= commit, NEW o \in Nat, o >= offset,
             ScanDone(o, offset)
      PROVE  IInv' /\ KeepsCommitted
  <2>1. ChainInv'
    BY <1>7 DEF ScanDone, ChainInv, NextOffset
  <2>2. pos' >= commit \/ mode # "Append"
    BY <1>7 DEF ScanDone, AppendPos, ChainInv, TypeOK
  <2>3. ScanInv' /\ WriteInv'
    BY <1>7, <2>2 DEF ScanDone, ScanInv, WriteInv, Writable, TypeOK
  <2>4. QED
    BY <1>0, <1>7, <1>a, <2>1, <2>3 DEF ScanDone, TypeOK
<1>8. ASSUME st = "scan", ~EntryFits(offset) PROVE offset >= commit
  <2>1. offset \in bounds /\ offset \in Nat
    BY <1>8 DEF ScanInv, TypeOK
  <2>2. offset < commit => offset + HeadSize <= commit /\ NextOffset(offset) <= commit
    BY <2>1 DEF ChainInv
  <2>3. QED
    BY <1>8, <2>1, <2>2, NextOffsetType DEF EntryFits, HeadFits, ChainInv, TypeOK, HeadSize
<1>9. CASE ScanEnd
  <2>1. offset >= commit
    BY <1>9 DEF ScanEnd, ChainInv
  <2>2. st = "scan" /\ ScanDone(offset, offset)
    BY <1>9, Zenon DEF ScanEnd
  <2>3. offset \in Nat /\ offset >= offset
    BY DEF TypeOK
  <2>4. QED
    BY <1>7, <2>1, <2>2, <2>3, Zenon
<1>10. CASE ScanSlicedHead
  <2>1. st = "scan" /\ ~EntryFits(offset) /\ ScanDone(offset, offset)
    BY <1>10, Zenon DEF ScanSlicedHead, EntryFits
  <2>2. offset >= commit
    BY <1>8, <2>1, Zenon
  <2>3. offset \in Nat /\ offset >= offset
    BY DEF TypeOK
  <2>4. QED
    BY <1>7, <2>1, <2>2, <2>3, Zenon
<1>11. CASE ScanSlicedPayload
  <2>1. st = "scan" /\ ~EntryFits(offset) /\ ScanDone(offset + HeadSize, offset)
    BY <1>11, Zenon DEF ScanSlicedPayload
  <2>2. offset >= commit
    BY <1>8, <2>1, Zenon
  <2>3. offset + HeadSize \in Nat /\ offset + HeadSize >= offset
    BY DEF TypeOK, HeadSize
  <2>4. QED
    BY <1>7, <2>1, <2>2, <2>3, Zenon
<1>12. ASSUME UNCHANGED <<disk, st, mode, offset, pos, commit, bounds>>, Writable
       PROVE  IInv' /\ KeepsCommitted
  <2>1. ChainInv'
    BY <1>12 DEF ChainInv, NextOffset
  <2>2. ScanInv' /\ WriteInv'
    BY <1>12 DEF ScanInv, WriteInv, Writable
  <2>3. QED
    BY <1>0, <1>12, <1>a, <2>1, <2>2 DEF TypeOK
<1>13. ASSUME NEW k \in Key, WriteEntry(k) PROVE IInv' /\ KeepsCommitted
  BY <1>12, <1>13 DEF WriteEntry
<1>14. ASSUME NEW k \in Key, NEW j \in 1..EntryLength(k) - 1, WriteEntryFails(k, j)
       PROVE  IInv' /\ KeepsCommitted
  BY <1>12, <1>14 DEF WriteEntryFails
<1>15. CASE Drain
  <2>1. Writable /\ pos >= commit
    BY <1>15 DEF Drain, WriteInv
  <2>2. Head(buf) \in Cell
    BY <1>15, HeadTailProperties DEF Drain, TypeOK
  <2>3. /\ Len(disk') = Max2(Len(disk), pos + 1)
        /\ \A i \in 1..pos : disk'[i] = disk[i]
    BY <1>15, <2>2, OverwriteType DEF Drain, TypeOK
  <2>4. KeepsCommitted
    BY <1>15, <2>1, <2>3 DEF Drain, history, KeepsCommitted, ChainInv, Max2, TypeOK
  <2>5. ChainInv'
    BY <1>0, <1>15, <2>4, ChainKept DEF Drain, history
  <2>6. ScanInv' /\ WriteInv'
    BY <1>15, <2>1 DEF Drain, history, ScanInv, WriteInv, Writable, TypeOK
  <2>7. QED
    BY <1>0, <2>4, <2>5, <2>6
<1>16. ASSUME UNCHANGED <<disk, commit, bounds>>, st' = "closed", buf' = <<>>
       PROVE  IInv' /\ KeepsCommitted
  <2>1. ChainInv'
    BY <1>16 DEF ChainInv, NextOffset
  <2>2. QED
    BY <1>0, <1>16, <1>a, <2>1 DEF ScanInv, WriteInv, Writable, TypeOK
<1>17. CASE Close
  BY <1>16, <1>17 DEF Close
<1>18. CASE Kill
  BY <1>16, <1>18 DEF Kill, history
<1>19. CASE UNCHANGED vars
  <2>1. ChainInv' /\ ScanInv' /\ WriteInv'
    BY <1>19 DEF vars, ChainInv, NextOffset, ScanInv, WriteInv, Writable
  <2>2. QED
    BY <1>0, <1>19, <1>a, <2>1 DEF vars, TypeOK
<1>20. QED
  BY <1>2, <1>3, <1>4, <1>5, <1>6, <1>9, <1>10, <1>11, <1>13, <1>14, <1>15,
     <1>17, <1>18, <1>19
  DEF Next, Prepare, Scan, Write

(***************************************************************************)
(* In every reachable state the accepted entries form a chain of whole     *)
(* entries that the scan walks and no writer stands inside.                *)
(***************************************************************************)
THEOREM InductiveInvariant == Spec => []IInv
<1>1. IInv /\ [Next]_vars => IInv'
  BY InvStep
<1>2. QED
  BY InvInit, <1>1, PTL DEF Spec

(***************************************************************************)
(* No session, however the ones before it were killed, ever stops its scan *)
(* before the end of the entries some scan has accepted.                   *)
(***************************************************************************)
THEOREM ScanReaches == Spec => []ScanReachesCommitted
<1>1. IInv => ScanReachesCommitted
  BY DEF IInv, WriteInv, ScanReachesCommitted
<1>2. QED
  BY <1>1, InductiveInvariant, PTL

(***************************************************************************)
(* Crash safety: no step but an OverWrite open changes or cuts off a cell  *)
(* of an entry that some scan of the file has accepted.                    *)
(***************************************************************************)
THEOREM CrashSafety == Spec => CommittedStable
<1>1. IInv /\ [Next]_vars
        => [PrepareOverWrite \/ PrepareExclusive \/ KeepsCommitted]_vars
  BY InvStep
<1>2. QED
  BY <1>1, InductiveInvariant, PTL DEF Spec, CommittedStable

-----------------------------------------------------------------------------
(***************************************************************************)
(* Durability.  An entry is whole where its cells are those write_entry    *)
(* produced, and a stretch of cells is covered if it is made of whole      *)
(* entries.                                                                *)
(***************************************************************************)
Whole(d, b, k) == \A i \in 1..EntryLength(k) : d[b + i] = EntryCells(k)[i]

Covered(d, a, z) ==
    \A i \in a + 1..z : \E b \in a..i - 1, k \in Key :
        i <= b + EntryLength(k) /\ b + EntryLength(k) <= z /\ Whole(d, b, k)

\* No name in a stretch of cells is k.
Unnamed(d, a, z, k) == \A i \in a + 1..z : NameOf(d[i]) # k

\* The end of the accepted entries, also in a file nobody has scanned yet.
Start == Max2(commit, MagicSize)

\* The file up to where the session writes, as it is when buf has been drained.
File == [i \in 1..WritePos |-> IF i <= pos THEN disk[i] ELSE buf[i - pos]]

(***************************************************************************)
(* The chain is one line, so the scan cannot jump over a part of it.       *)
(***************************************************************************)
Linear == \A c, d \in bounds : c < d => NextOffset(c) <= d

(***************************************************************************)
(* The scan has put the first entry of each name into seen_blobs; a reader *)
(* has nothing else there.                                                 *)
(***************************************************************************)
Scanned == IF st = "scan" THEN offset ELSE commit

SeenInv == st # "closed" =>
    /\ \A c \in bounds : c < Scanned => seen[NameOf(disk[c + 1])] # Absent
    /\ st = "scan" \/ mode = "ReadOnly" =>
          \A k \in Key : seen[k] # Absent =>
              \E c \in bounds : /\ c < Scanned /\ seen[k] = c + HeadSize
                                /\ NameOf(disk[c + 1]) = k
                                /\ \A d \in bounds : d < c => NameOf(disk[d + 1]) # k

(***************************************************************************)
(* A session that began at the end of the chain and has had no failed      *)
(* write has put whole entries behind it, each under a new name.           *)
(***************************************************************************)
NewName(k) == \A c \in bounds : c < commit => NameOf(disk[c + 1]) # k

SessionInv ==
    /\ misplaced => spoilt
    /\ st # "closed" /\ spoilt => scarred
    /\ st = "scan" \/ mode = "ReadOnly" => added = {}
    /\ Writable /\ ~spoilt =>
          /\ Start <= WritePos /\ Covered(File, Start, WritePos)
          /\ commit = 0 => File[MagicSize] = Magic
          /\ \A k \in Key : seen[k] = Absent => Unnamed(File, Start, WritePos, k)
          /\ \A k \in added :
                /\ NewName(k)
                /\ \E b \in Start..WritePos : /\ b + EntryLength(k) <= WritePos
                                              /\ Whole(File, b, k) /\ Unnamed(File, Start, b, k)

(***************************************************************************)
(* What was stored well is whole, is the first of its name, and is either  *)
(* accepted or next in line: nothing but whole entries lies before it.     *)
(***************************************************************************)
Accepted(b) == b \in bounds /\ b < commit

InLine(b, k) ==
    /\ st # "open" /\ Start <= b
    /\ Covered(disk, Start, b + EntryLength(k)) /\ Unnamed(disk, Start, b, k)

Stored(b, k) ==
    /\ b + EntryLength(k) <= Len(disk) /\ Whole(disk, b, k)
    /\ \A c \in bounds : c < commit /\ c < b => NameOf(disk[c + 1]) # k
    /\ Accepted(b) \/ InLine(b, k)

AlignInv ==
    \A k \in Key : written[k] = "aligned" =>
        \E b \in 0..Len(disk) : Stored(b, k)

(***************************************************************************)
(* Headers.  As long as nothing was misplaced or cut short, the header of  *)
(* an accepted entry is the one its name was written with.  A header that  *)
(* an overwritten tail has left behind claims more cells than there are.   *)
(***************************************************************************)
TooLong(h) == h + disk[h].n > Len(disk)

Paired(h) ==
    /\ Start <= h - HeadSize /\ disk[h - 1] = NameCell(disk[h].key)
    /\ Covered(disk, Start, h - HeadSize)

PairInv == ~scarred =>
    /\ \A c \in bounds :
          /\ c < commit
          /\ disk[c + 1].kind = "name" /\ disk[c + HeadSize].kind = "header"
          => disk[c + HeadSize].key = disk[c + 1].key
    /\ Writable => \A h \in pos + 1..Len(disk) : disk[h].kind = "header" => TooLong(h)
    /\ ~Writable => \A h \in commit + 1..Len(disk) :
                        disk[h].kind = "header" => TooLong(h) \/ Paired(h)

DInv == IInv /\ Linear /\ SeenInv /\ SessionInv /\ AlignInv /\ PairInv

-----------------------------------------------------------------------------
(***************************************************************************)
(* Only the first cell of an entry is a name, and only its second is a     *)
(* header.                                                                 *)
(***************************************************************************)
LEMMA CellsOf ==
    ASSUME NEW k \in Key
    PROVE  /\ EntryLength(k) \in Nat /\ EntryLength(k) = 2 + Size[k] /\ EntryLength(k) >= 2
           /\ EntryCells(k)[1] = NameCell(k) /\ EntryCells(k)[2] = HeaderCell(k)
           /\ \A i \in 3..EntryLength(k) : EntryCells(k)[i] = PayloadCell(k, i - 2)
           /\ \A i \in 2..EntryLength(k) : EntryCells(k)[i].kind # "name"
           /\ \A i \in 1..EntryLength(k) : EntryCells(k)[i].kind = "header" => i = 2
<1>1. EntryLength(k) \in Nat /\ EntryLength(k) = 2 + Size[k] /\ EntryLength(k) >= 2
  BY SizeAssumption DEF EntryLength, HeadSize
<1>2. \A i \in 1..EntryLength(k) :
        EntryCells(k)[i] = IF i = 1 THEN NameCell(k)
                           ELSE IF i = 2 THEN HeaderCell(k) ELSE PayloadCell(k, i - 2)
  BY DEF EntryCells, HeadSize
<1>3. /\ EntryCells(k)[1] = NameCell(k) /\ EntryCells(k)[2] = HeaderCell(k)
      /\ \A i \in 3..EntryLength(k) : EntryCells(k)[i] = PayloadCell(k, i - 2)
  BY <1>1, <1>2
<1>4. /\ NameCell(k).kind = "name" /\ HeaderCell(k).kind = "header"
      /\ \A i : PayloadCell(k, i).kind = "payload"
  BY DEF NameCell, HeaderCell, PayloadCell
<1>5. \A i \in 2..EntryLength(k) : EntryCells(k)[i].kind # "name"
  BY <1>1, <1>3, <1>4
<1>6. \A i \in 1..EntryLength(k) : EntryCells(k)[i].kind = "header" => i = 2
  BY <1>1, <1>3, <1>4
<1>7. QED
  BY <1>1, <1>3, <1>5, <1>6

(***************************************************************************)
(* Two whole entries of a file do not overlap: a name cannot lie inside    *)
(* another entry.                                                          *)
(***************************************************************************)
LEMMA NoOverlap ==
    ASSUME NEW d, NEW b \in Nat, NEW c \in Nat, NEW k \in Key, NEW j \in Key,
           Whole(d, b, k), Whole(d, c, j), b <= c, c < b + EntryLength(k)
    PROVE  b = c /\ k = j
<1>1. d[c + 1] = NameCell(j) /\ d[b + 1] = NameCell(k)
  BY CellsOf DEF Whole
<1>2. c + 1 - b \in 1..EntryLength(k) /\ c + 1 = b + (c + 1 - b)
  BY CellsOf
<1>3. d[c + 1] = EntryCells(k)[c + 1 - b]
  BY <1>2 DEF Whole
<1>4. EntryCells(k)[c + 1 - b].kind = "name"
  BY <1>1, <1>3 DEF NameCell
<1>5. c + 1 - b = 1
  BY <1>2, <1>4, CellsOf
<1>6. b = c
  BY <1>5
<1>7. QED
  BY <1>1, <1>6 DEF NameCell

(***************************************************************************)
(* A covered stretch begins with a whole entry, and what follows it is     *)
(* covered.                                                                *)
(***************************************************************************)
LEMMA CoveredFirst ==
    ASSUME NEW d, NEW a \in Nat, NEW z \in Nat, a < z, Covered(d, a, z)
    PROVE  \E k \in Key : /\ Whole(d, a, k) /\ a + EntryLength(k) <= z
                          /\ Covered(d, a + EntryLength(k), z)
<1>1. PICK b \in a..(a + 1) - 1, k \in Key : b + EntryLength(k) <= z /\ Whole(d, b, k)
  BY DEF Covered
<1>2. b = a /\ EntryLength(k) \in Nat
  BY <1>1, CellsOf
<1>3. ASSUME NEW i \in a + EntryLength(k) + 1..z
      PROVE  \E c \in a + EntryLength(k)..i - 1, j \in Key :
                i <= c + EntryLength(j) /\ c + EntryLength(j) <= z /\ Whole(d, c, j)
  <2>1. PICK c \in a..i - 1, j \in Key :
            i <= c + EntryLength(j) /\ c + EntryLength(j) <= z /\ Whole(d, c, j)
    BY <1>2 DEF Covered
  <2>2. c >= a + EntryLength(k)
    <3>1. SUFFICES ASSUME c < a + EntryLength(k) PROVE FALSE
      BY <1>2, <2>1
    <3>2. a = c /\ k = j
      BY <1>1, <1>2, <2>1, <3>1, NoOverlap
    <3>3. QED
      BY <1>2, <2>1, <3>2
  <2>3. QED
    BY <1>2, <2>1, <2>2
<1>4. QED
  BY <1>1, <1>2, <1>3 DEF Covered

(***************************************************************************)
(* What lies before a whole entry of a covered stretch is covered.         *)
(***************************************************************************)
LEMMA CoveredSplit ==
    ASSUME NEW d, NEW a \in Nat, NEW z \in Nat, NEW b \in Nat, NEW k \in Key,
           Covered(d, a, z), Whole(d, b, k), a <= b, b <= z
    PROVE  Covered(d, a, b)
<1>1. ASSUME NEW i \in a + 1..b
      PROVE  \E c \in a..i - 1, j \in Key :
                i <= c + EntryLength(j) /\ c + EntryLength(j) <= b /\ Whole(d, c, j)
  <2>1. PICK c \in a..i - 1, j \in Key :
            i <= c + EntryLength(j) /\ c + EntryLength(j) <= z /\ Whole(d, c, j)
    BY DEF Covered
  <2>2. c + EntryLength(j) <= b
    <3>1. SUFFICES ASSUME b < c + EntryLength(j) PROVE FALSE
      BY <2>1, CellsOf
    <3>2. c = b
      BY <2>1, <3>1, NoOverlap
    <3>3. QED
      BY <2>1, <3>2
  <2>3. QED
    BY <2>1, <2>2
<1>2. QED
  BY <1>1 DEF Covered

(***************************************************************************)
(* An entry behind a covered stretch makes it longer.                      *)
(***************************************************************************)
LEMMA CoveredAppend ==
    ASSUME NEW d, NEW a \in Nat, NEW z \in Nat, NEW k \in Key,
           Covered(d, a, z), Whole(d, z, k), a <= z
    PROVE  Covered(d, a, z + EntryLength(k))
<1>1. EntryLength(k) \in Nat
  BY CellsOf
<1>2. ASSUME NEW i \in a + 1..z + EntryLength(k)
      PROVE  \E c \in a..i - 1, j \in Key :
                /\ i <= c + EntryLength(j) /\ c + EntryLength(j) <= z + EntryLength(k)
                /\ Whole(d, c, j)
  <2>1. CASE i > z
    BY <1>1, <2>1
  <2>2. CASE i <= z
    <3>1. PICK c \in a..i - 1, j \in Key :
            i <= c + EntryLength(j) /\ c + EntryLength(j) <= z /\ Whole(d, c, j)
      BY <1>1, <2>2 DEF Covered
    <3>2. QED
      BY <1>1, <3>1, CellsOf
  <2>3. QED
    BY <1>1, <2>1, <2>2
<1>3. QED
  BY <1>2 DEF Covered

(***************************************************************************)
(* Being covered is a matter of the cells of the stretch only.             *)
(***************************************************************************)
LEMMA CoveredSame ==
    ASSUME NEW d, NEW e, NEW a \in Nat, NEW z \in Nat,
           Covered(d, a, z), \A i \in a + 1..z : e[i] = d[i]
    PROVE  Covered(e, a, z)
<1>1. ASSUME NEW i \in a + 1..z
      PROVE  \E c \in a..i - 1, j \in Key :
                i <= c + EntryLength(j) /\ c + EntryLength(j) <= z /\ Whole(e, c, j)
  <2>1. PICK c \in a..i - 1, j \in Key :
            i <= c + EntryLength(j) /\ c + EntryLength(j) <= z /\ Whole(d, c, j)
    BY DEF Covered
  <2>2. \A n \in 1..EntryLength(j) : c + n \in a + 1..z
    BY <2>1, CellsOf
  <2>3. Whole(e, c, j)
    BY <2>1, <2>2 DEF Whole
  <2>4. QED
    BY <2>1, <2>3
<1>2. QED
  BY <1>1 DEF Covered

(***************************************************************************)
(* The scanner follows a whole entry to its end.                           *)
(***************************************************************************)
LEMMA WholeNext ==
    ASSUME NEW b \in Nat, NEW k \in Key, Whole(disk, b, k)
    PROVE  /\ NextOffset(b) = b + EntryLength(k)
           /\ NameOf(disk[b + 1]) = k
<1>1. disk[b + 1] = NameCell(k) /\ disk[b + 2] = HeaderCell(k)
  BY CellsOf DEF Whole
<1>2. PayloadSize(disk[b + 2]) = Size[k]
  BY <1>1 DEF PayloadSize, HeaderCell
<1>3. NameOf(disk[b + 1]) = k
  BY <1>1 DEF NameOf, NameCell
<1>4. NextOffset(b) = b + 2 + Size[k] /\ EntryLength(k) = 2 + Size[k] /\ Size[k] \in Nat
  BY <1>2, CellsOf, SizeAssumption DEF NextOffset, HeadSize
<1>5. QED
  BY <1>3, <1>4

-----------------------------------------------------------------------------
(***************************************************************************)
(* Where the scan stands.                                                  *)
(***************************************************************************)
LEMMA ScanAt ==
    ASSUME IInv, st = "scan"
    PROVE  /\ offset \in bounds /\ offset \in Nat /\ commit \in Nat /\ Len(disk) \in Nat
           /\ 1 <= offset /\ offset <= commit /\ commit <= Len(disk)
           /\ commit \in bounds /\ Start = commit /\ buf = <<>>
<1>1. /\ offset \in bounds /\ offset \in Nat /\ commit \in Nat /\ buf = <<>>
      /\ Len(disk) \in Nat
  BY DEF IInv, ScanInv, TypeOK
<1>2. 1 <= offset /\ offset <= commit /\ commit <= Len(disk)
  BY <1>1 DEF IInv, ChainInv, MagicSize
<1>3. commit \in bounds
  BY <1>1, <1>2 DEF IInv, ChainInv
<1>4. QED
  BY <1>1, <1>2, <1>3 DEF Start, Max2, MagicSize

(***************************************************************************)
(* A turn of the loop either retraces the chain or makes it longer.        *)
(***************************************************************************)
LEMMA EntryStep ==
    ASSUME IInv, ScanEntry
    PROVE  /\ disk' = disk /\ st = "scan" /\ st' = "scan" /\ offset' = NextOffset(offset)
           /\ NextOffset(offset) \in Nat /\ offset + 2 <= NextOffset(offset)
           /\ NextOffset(offset) <= Len(disk)
           /\ \/ offset < commit /\ commit' = commit /\ bounds' = bounds
              \/ /\ offset = commit /\ commit' = NextOffset(commit)
                 /\ bounds' = bounds \cup {NextOffset(commit)}
<1>1. /\ disk' = disk /\ st = "scan" /\ st' = "scan" /\ offset' = NextOffset(offset)
      /\ commit' = Max2(commit, NextOffset(offset))
      /\ bounds' = bounds \cup {NextOffset(offset)} /\ EntryFits(offset)
  BY DEF ScanEntry
<1>2. /\ NextOffset(offset) \in Nat /\ offset + 2 <= NextOffset(offset)
      /\ NextOffset(offset) <= Len(disk)
  BY <1>1, ScanAt, NextOffsetType DEF EntryFits, IInv
<1>3. CASE offset < commit
  <2>1. NextOffset(offset) \in bounds /\ NextOffset(offset) <= commit
    BY <1>1, <1>3, ScanAt DEF IInv, ChainInv
  <2>2. QED
    BY <1>1, <1>2, <1>3, <2>1, ScanAt DEF Max2
<1>4. CASE offset = commit
  BY <1>1, <1>2, <1>4, ScanAt DEF Max2
<1>5. QED
  BY <1>1, <1>2, <1>3, <1>4, ScanAt

(***************************************************************************)
(* prepare()'s loop ends at the end of the chain, where no entry fits.     *)
(***************************************************************************)
LEMMA ScanStops ==
    ASSUME IInv, ScanEnd \/ ScanSlicedHead \/ ScanSlicedPayload
    PROVE  /\ st = "scan" /\ offset = commit /\ ~EntryFits(commit)
           /\ \E o \in Nat : ScanDone(o, commit)
<1>1. st = "scan" /\ ~EntryFits(offset) /\ \E o \in Nat : ScanDone(o, offset)
  <2>1. CASE ScanEnd
    <3>1. ~HeadFits(offset)
      BY <2>1, ScanAt DEF ScanEnd, HeadFits, HeadSize
    <3>2. QED
      BY <2>1, <3>1, ScanAt DEF ScanEnd, EntryFits
  <2>2. CASE ScanSlicedHead
    BY <2>2, ScanAt DEF ScanSlicedHead, EntryFits
  <2>3. CASE ScanSlicedPayload
    <3>1. offset + HeadSize \in Nat
      BY <2>3, ScanAt DEF ScanSlicedPayload, HeadSize
    <3>2. QED
      BY <2>3, <3>1 DEF ScanSlicedPayload
  <2>4. QED
    BY <2>1, <2>2, <2>3
<1>2. offset = commit
  <2>1. SUFFICES ASSUME offset < commit PROVE FALSE
    BY <1>1, ScanAt
  <2>2. offset + HeadSize <= commit /\ NextOffset(offset) <= commit
    BY <1>1, <2>1, ScanAt DEF IInv, ChainInv
  <2>3. NextOffset(offset) \in Nat
    BY <1>1, <2>2, ScanAt, NextOffsetType DEF IInv, HeadFits, HeadSize
  <2>4. QED
    BY <1>1, <2>2, <2>3, ScanAt DEF EntryFits, HeadFits, HeadSize
<1>3. QED
  BY <1>1, <1>2

(***************************************************************************)
(* An archive with entries behind the chain does not end there.            *)
(***************************************************************************)
LEMMA CoveredFits ==
    ASSUME IInv, st = "scan", NEW z \in Nat, commit < z, z <= Len(disk),
           Covered(disk, commit, z)
    PROVE  EntryFits(commit)
<1>1. PICK k \in Key : Whole(disk, commit, k) /\ commit + EntryLength(k) <= z
  BY ScanAt, CoveredFirst
<1>2. NextOffset(commit) = commit + EntryLength(k)
  BY <1>1, ScanAt, WholeNext
<1>3. QED
  BY <1>1, <1>2, ScanAt, CellsOf DEF EntryFits, HeadFits, HeadSize

(***************************************************************************)
(* Draining a cell changes none of the accepted cells and nothing of what  *)
(* the file will be.                                                       *)
(***************************************************************************)
LEMMA DrainKeeps ==
    ASSUME IInv, Drain
    PROVE  /\ Writable /\ Writable' /\ st' = "open" /\ commit <= pos /\ pos' = pos + 1
           /\ Len(disk') \in Nat /\ Len(disk) \in Nat /\ commit \in Nat /\ pos \in Nat
           /\ Len(disk') = Max2(Len(disk), pos + 1)
           /\ \A i \in 1..pos : disk'[i] = disk[i]
           /\ \A i \in pos + 2..Len(disk) : disk'[i] = disk[i]
           /\ WritePos' = WritePos /\ File' = File
<1>1. /\ Writable /\ Writable' /\ st' = "open" /\ commit <= pos /\ pos' = pos + 1
      /\ Len(disk) \in Nat /\ commit \in Nat /\ pos \in Nat /\ pos <= Len(disk)
      /\ buf \in Seq(Cell) /\ buf # <<>> /\ buf' = Tail(buf)
      /\ disk' = Overwrite(disk, pos, Head(buf)) /\ disk \in Seq(Cell)
  BY DEF Drain, IInv, WriteInv, Writable, TypeOK
<1>2. /\ Head(buf) \in Cell /\ Head(buf) = buf[1] /\ Len(buf) \in Nat /\ Len(buf) >= 1
      /\ Len(Tail(buf)) = Len(buf) - 1
      /\ \A i \in 1..Len(buf) - 1 : Tail(buf)[i] = buf[i + 1]
  BY <1>1, HeadTailProperties, LenProperties, EmptySeq
<1>3. /\ Len(disk') = Max2(Len(disk), pos + 1) /\ Len(disk') \in Nat
      /\ \A i \in 1..Max2(Len(disk), pos + 1) :
            disk'[i] = IF i = pos + 1 THEN Head(buf) ELSE disk[i]
  <2>1. disk' = [i \in 1..Max2(Len(disk), pos + 1) |-> IF i = pos + 1 THEN Head(buf) ELSE disk[i]]
    BY <1>1 DEF Overwrite
  <2>2. disk' \in Seq(Cell) /\ Len(disk') = Max2(Len(disk), pos + 1)
    BY <1>1, <1>2, OverwriteType
  <2>3. QED
    BY <2>1, <2>2, LenProperties
<1>4. /\ \A i \in 1..pos : disk'[i] = disk[i]
      /\ \A i \in pos + 2..Len(disk) : disk'[i] = disk[i]
      /\ disk'[pos + 1] = buf[1]
  BY <1>1, <1>2, <1>3 DEF Max2
<1>5. WritePos' = WritePos /\ WritePos = pos + Len(buf) /\ WritePos' = pos + 1 + Len(Tail(buf))
  BY <1>1, <1>2 DEF WritePos
<1>6. ASSUME NEW i \in 1..WritePos
      PROVE  (IF i <= pos + 1 THEN disk'[i] ELSE Tail(buf)[i - (pos + 1)])
               = (IF i <= pos THEN disk[i] ELSE buf[i - pos])
  <2>1. CASE i <= pos
    BY <1>1, <1>4, <2>1
  <2>2. CASE i = pos + 1
    BY <1>1, <1>4, <2>2
  <2>3. CASE i > pos + 1
    <3>1. i - (pos + 1) \in 1..Len(buf) - 1 /\ (i - (pos + 1)) + 1 = i - pos
      BY <1>1, <1>2, <1>5, <2>3
    <3>2. QED
      BY <1>1, <1>2, <2>3, <3>1
  <2>4. QED
    BY <1>1, <1>2, <1>5, <2>1, <2>2, <2>3
<1>7. File' = File
  BY <1>1, <1>5, <1>6 DEF File
<1>8. QED
  BY <1>1, <1>3, <1>4, <1>5, <1>7

(***************************************************************************)
(* A scan begins a chain in a file that has none.                          *)
(***************************************************************************)
LEMMA ScanBegins ==
    ASSUME IInv, NEW m \in {"ReadOnly", "Append"}, PrepareScan(m)
    PROVE  /\ disk' = disk /\ Start' = Start /\ st = "closed" /\ st' = "scan" /\ commit \in Nat
           /\ \/ commit > 0 /\ commit' = commit /\ bounds' = bounds
              \/ commit = 0 /\ bounds = {} /\ commit' = 1 /\ bounds' = {1}
<1>1. /\ disk' = disk /\ st = "closed" /\ st' = "scan" /\ commit \in Nat
      /\ commit' = Max2(commit, 1) /\ bounds' = bounds \cup {1}
  BY DEF PrepareScan, IInv, TypeOK, MagicSize
<1>2. Start' = Start
  BY <1>1 DEF Start, Max2, MagicSize
<1>3. CASE commit > 0
  BY <1>1, <1>2, <1>3 DEF Max2, IInv, ChainInv, MagicSize
<1>4. CASE commit = 0
  <2>1. bounds = {}
    <3>1. ASSUME NEW b \in bounds PROVE FALSE
      BY <1>4, <3>1 DEF IInv, ChainInv, TypeOK, MagicSize
    <3>2. QED
      BY <3>1, Zenon
  <2>2. QED
    BY <1>1, <1>2, <1>4, <2>1 DEF Max2
<1>5. QED
  BY <1>1, <1>3, <1>4

(***************************************************************************)
(* The steps of the archive, with what a scan's end has found out.         *)
(***************************************************************************)
ScanIsDone ==
    st = "scan" /\ offset = commit /\ ~EntryFits(commit) /\ \E o \in Nat : ScanDone(o, commit)

LEMMA StepKinds ==
    ASSUME IInv, [Next]_vars
    PROVE  \/ \E m \in Modes \ {"ReadOnly"} : Fresh(m)
           \/ \E m \in {"ReadOnly", "Append"} : PrepareScan(m)
           \/ ScanEntry \/ ScanIsDone
           \/ \E k \in Key : WriteEntry(k)
           \/ \E k \in Key : \E j \in 1..EntryLength(k) - 1 : WriteEntryFails(k, j)
           \/ Drain \/ Close \/ Kill \/ UNCHANGED vars
<1>1. ASSUME PrepareOverWrite \/ PrepareExclusive \/ PrepareAppendEmpty
      PROVE  \E m \in Modes \ {"ReadOnly"} : Fresh(m)
  BY <1>1 DEF PrepareOverWrite, PrepareExclusive, PrepareAppendEmpty, Modes
<1>2. ASSUME ScanEnd \/ ScanSlicedHead \/ ScanSlicedPayload PROVE ScanIsDone
  BY <1>2, ScanStops DEF ScanIsDone
<1>3. QED
  BY <1>1, <1>2, Zenon DEF Next, Prepare, Scan, Write

(***************************************************************************)
(* The offsets of the chain follow one another.                            *)
(***************************************************************************)
LEMMA LinearStep ==
    ASSUME IInv, Linear, [Next]_vars
    PROVE  Linear'
<1>0. \A b \in bounds : b \in Nat /\ b <= commit /\ commit \in Nat
  BY DEF IInv, ChainInv, TypeOK
<1>a. ASSUME disk' = disk, bounds' = bounds PROVE Linear'
  BY <1>a DEF Linear, NextOffset
<1>1. ASSUME NEW m \in Modes \ {"ReadOnly"}, Fresh(m) PROVE Linear'
  BY <1>1 DEF Fresh, Linear
<1>2. ASSUME NEW m \in {"ReadOnly", "Append"}, PrepareScan(m) PROVE Linear'
  <2>1. CASE bounds' = bounds
    BY <1>2, <1>a, <2>1, ScanBegins
  <2>2. CASE bounds' = {1}
    BY <2>2 DEF Linear
  <2>3. QED
    BY <1>2, <2>1, <2>2, ScanBegins
<1>3. CASE ScanEntry
  <2>0. /\ commit \in Nat /\ offset \in Nat /\ disk' = disk /\ NextOffset(offset) \in Nat
        /\ offset + 2 <= NextOffset(offset)
    BY <1>3, EntryStep, ScanAt
  <2>1. CASE bounds' = bounds
    BY <1>a, <2>0, <2>1
  <2>2. CASE offset = commit /\ bounds' = bounds \cup {NextOffset(commit)}
    <3>1. ASSUME NEW c \in bounds', NEW d \in bounds', c < d PROVE NextOffset(c) <= d
      <4>1. CASE c \in bounds /\ d \in bounds
        BY <3>1, <4>1 DEF Linear
      <4>2. CASE c \in bounds /\ d = NextOffset(commit)
        <5>1. CASE c = commit
          BY <2>0, <2>2, <4>2, <5>1
        <5>2. CASE c < commit
          <6>1. NextOffset(c) \in bounds
            BY <4>2, <5>2 DEF IInv, ChainInv
          <6>2. QED
            BY <1>0, <2>0, <2>2, <4>2, <6>1
        <5>3. QED
          BY <1>0, <4>2, <5>1, <5>2
      <4>3. CASE c = NextOffset(commit)
        BY <1>0, <2>0, <2>2, <3>1, <4>3
      <4>4. QED
        BY <2>2, <4>1, <4>2, <4>3
    <3>2. \A c \in bounds' : NextOffset(c)' = NextOffset(c)
      BY <2>0 DEF NextOffset
    <3>3. QED
      BY <3>1, <3>2 DEF Linear
  <2>3. QED
    BY <1>3, <2>1, <2>2, EntryStep
<1>4. CASE ScanIsDone
  BY <1>4, <1>a DEF ScanIsDone, ScanDone
<1>5. CASE \E k \in Key : WriteEntry(k)
  BY <1>5, <1>a DEF WriteEntry
<1>6. CASE \E k \in Key : \E j \in 1..EntryLength(k) - 1 : WriteEntryFails(k, j)
  BY <1>6, <1>a DEF WriteEntryFails
<1>7. CASE Drain
  <2>1. bounds' = bounds /\ commit' = commit
    BY <1>7 DEF Drain, history
  <2>2. ASSUME NEW c \in bounds, c < commit PROVE NextOffset(c)' = NextOffset(c)
    <3>1. c + HeadSize \in 1..pos
      BY <1>0, <1>7, <2>2, DrainKeeps DEF IInv, ChainInv, HeadSize
    <3>2. QED
      BY <1>7, <3>1, DrainKeeps DEF NextOffset
  <2>3. ASSUME NEW c \in bounds, NEW d \in bounds, c < d PROVE NextOffset(c)' <= d
    BY <1>0, <2>2, <2>3 DEF Linear
  <2>4. QED
    BY <2>1, <2>3 DEF Linear
<1>8. CASE Close
  BY <1>8, <1>a DEF Close
<1>9. CASE Kill
  BY <1>9, <1>a DEF Kill, history
<1>10. CASE UNCHANGED vars
  BY <1>10, <1>a DEF vars
<1>11. QED
  BY <1>1, <1>2, <1>3, <1>4, <1>5, <1>6, <1>7, <1>8, <1>9, <1>10, StepKinds

(***************************************************************************)
(* The accepted names, and the offsets of their cells.                     *)
(***************************************************************************)
LEMMA ChainNames ==
    ASSUME IInv, NEW c \in bounds, c < commit
    PROVE  /\ c \in Nat /\ commit \in Nat /\ c + 1 \in 1..commit /\ c + 2 \in 1..commit
           /\ c + 2 <= Len(disk) /\ 1 <= c
           /\ NameOf(disk[c + 1]) \in Key \cup {Phantom}
           /\ NextOffset(c) \in bounds /\ NextOffset(c) <= commit
<1>1. /\ c \in Nat /\ commit \in Nat /\ 1 <= c /\ c + 2 <= commit
      /\ NextOffset(c) \in bounds /\ commit <= Len(disk)
  BY DEF IInv, ChainInv, TypeOK, MagicSize, HeadSize
<1>2. c + 1 \in 1..Len(disk) /\ disk \in Seq(Cell) /\ Len(disk) \in Nat
  BY <1>1 DEF IInv, TypeOK
<1>3. disk[c + 1] \in Cell
  BY <1>2, ElementOfSeq
<1>4. NameOf(disk[c + 1]) \in Key \cup {Phantom}
  BY <1>3 DEF NameOf, Cell
<1>5. NextOffset(c) <= commit
  BY <1>1 DEF IInv, ChainInv
<1>6. QED
  BY <1>1, <1>2, <1>4, <1>5

(***************************************************************************)
(* seen_blobs has the accepted names, and for a reader the first of each.  *)
(***************************************************************************)
LEMMA SeenStep ==
    ASSUME IInv, Linear, SeenInv, [Next]_vars
    PROVE  SeenInv'
<1>0. /\ \A b \in bounds : b \in Nat /\ b <= commit /\ 1 <= b
      /\ commit \in Nat /\ seen \in [Key \cup {Phantom} -> Int]
  BY DEF IInv, ChainInv, TypeOK, MagicSize
<1>1. ASSUME NEW m \in Modes \ {"ReadOnly"}, Fresh(m) PROVE SeenInv'
  BY <1>1 DEF Fresh, SeenInv
<1>2. ASSUME NEW m \in {"ReadOnly", "Append"}, PrepareScan(m) PROVE SeenInv'
  <2>1. /\ st' = "scan" /\ offset' = 1 /\ seen' = [k \in Key \cup {Phantom} |-> Absent]
        /\ bounds' = bounds \cup {1}
    BY <1>2 DEF PrepareScan, MagicSize
  <2>2. \A c \in bounds' : ~(c < 1)
    BY <1>0, <2>1
  <2>3. QED
    BY <2>1, <2>2 DEF SeenInv, Scanned
<1>3. CASE ScanEntry
  <2> DEFINE n == NameOf(disk[offset + 1])
  <2>0. /\ commit \in Nat /\ offset \in Nat /\ disk' = disk /\ NextOffset(offset) \in Nat
        /\ offset + 2 <= NextOffset(offset) /\ st = "scan" /\ st' = "scan"
        /\ offset' = NextOffset(offset) /\ offset \in bounds /\ mode' = mode
        /\ bounds \subseteq bounds' /\ NextOffset(offset) <= Len(disk)
    BY <1>3, EntryStep, ScanAt DEF ScanEntry
  <2>1. \A c \in bounds' : c < NextOffset(offset) => c \in bounds /\ c <= offset
    <3>1. \A c \in bounds' : c < NextOffset(offset) => c \in bounds
      BY <1>0, <1>3, <2>0, EntryStep
    <3>2. \A c \in bounds : offset < c => NextOffset(offset) <= c
      BY <2>0 DEF Linear
    <3>3. QED
      BY <1>0, <2>0, <3>1, <3>2
  <2>2. seen' = IF seen[n] = Absent THEN [seen EXCEPT ![n] = offset + HeadSize] ELSE seen
    BY <1>3 DEF ScanEntry
  <2>3. n \in Key \cup {Phantom}
    <3>1. disk[offset + 1] \in Cell
      BY <2>0, ElementOfSeq DEF IInv, TypeOK
    <3>2. QED
      BY <3>1 DEF NameOf, Cell
  <2>4. /\ \A c \in bounds : c < offset => seen[NameOf(disk[c + 1])] # Absent
        /\ \A k \in Key : seen[k] # Absent =>
              \E c \in bounds : /\ c < offset /\ seen[k] = c + HeadSize
                                /\ NameOf(disk[c + 1]) = k
                                /\ \A d \in bounds : d < c => NameOf(disk[d + 1]) # k
    BY <2>0 DEF SeenInv, Scanned
  <2> HIDE DEF n
  <2>5. /\ seen'[n] # Absent
        /\ \A x \in Key \cup {Phantom} : seen[x] # Absent => seen'[x] = seen[x]
        /\ \A x \in Key \cup {Phantom} : x # n => seen'[x] = seen[x]
        /\ seen[n] = Absent => seen'[n] = offset + HeadSize
    BY <1>0, <2>0, <2>2, <2>3 DEF HeadSize, Absent
  <2>6. ASSUME NEW c \in bounds', c < NextOffset(offset)
        PROVE  seen'[NameOf(disk[c + 1])] # Absent
    <3>1. CASE c = offset
      BY <2>5, <3>1 DEF n
    <3>2. CASE c < offset
      <4>1. c \in bounds /\ seen[NameOf(disk[c + 1])] # Absent
        BY <2>1, <2>4, <2>6, <3>2
      <4>2. c < commit
        BY <1>0, <2>0, <3>2, <4>1
      <4>3. NameOf(disk[c + 1]) \in Key \cup {Phantom}
        BY <4>1, <4>2, ChainNames
      <4>4. QED
        BY <2>5, <4>1, <4>3
    <3>3. QED
      BY <1>0, <2>0, <2>1, <2>6, <3>1, <3>2
  <2>7. ASSUME NEW k \in Key, seen'[k] # Absent
        PROVE  \E c \in bounds' : /\ c < NextOffset(offset) /\ seen'[k] = c + HeadSize
                                  /\ NameOf(disk[c + 1]) = k
                                  /\ \A d \in bounds' : d < c => NameOf(disk[d + 1]) # k
    <3>1. CASE seen[k] # Absent
      <4>1. PICK c \in bounds : /\ c < offset /\ seen[k] = c + HeadSize
                                /\ NameOf(disk[c + 1]) = k
                                /\ \A d \in bounds : d < c => NameOf(disk[d + 1]) # k
        BY <2>4, <3>1
      <4>2. c < NextOffset(offset) /\ c \in bounds'
        BY <1>0, <2>0, <4>1
      <4>3. \A d \in bounds' : d < c => d \in bounds
        BY <1>0, <1>3, <2>0, <4>1, EntryStep
      <4>4. QED
        BY <2>5, <3>1, <4>1, <4>2, <4>3
    <3>2. CASE seen[k] = Absent
      <4>1. k = n /\ seen'[k] = offset + HeadSize
        BY <2>5, <2>7, <3>2
      <4>2. \A d \in bounds' : d < offset => d \in bounds /\ NameOf(disk[d + 1]) # k
        <5>1. ASSUME NEW d \in bounds', d < offset PROVE d \in bounds
          BY <1>0, <1>3, <2>0, <5>1, EntryStep
        <5>2. QED
          BY <2>4, <3>2, <5>1
      <4>3. offset < NextOffset(offset) /\ offset \in bounds'
        BY <2>0
      <4>4. QED
        BY <4>1, <4>2, <4>3 DEF n
    <3>3. QED
      BY <3>1, <3>2
  <2>8. QED
    BY <2>0, <2>6, <2>7 DEF SeenInv, Scanned
<1>4. CASE ScanIsDone
  <2>1. /\ st' = "open" /\ st = "scan" /\ offset = commit
        /\ UNCHANGED <<disk, mode, seen, commit, bounds>>
    BY <1>4 DEF ScanIsDone, ScanDone
  <2>2. QED
    BY <2>1 DEF SeenInv, Scanned
<1>a. ASSUME Writable, Writable', UNCHANGED <<bounds, commit>>,
             \A c \in bounds : c < commit => disk'[c + 1] = disk[c + 1],
             \A x \in Key \cup {Phantom} : seen[x] # Absent => seen'[x] # Absent
      PROVE  SeenInv'
  <2>1. ASSUME NEW c \in bounds, c < commit PROVE seen'[NameOf(disk'[c + 1])] # Absent
    BY <1>a, <2>1, ChainNames DEF SeenInv, Writable, Scanned
  <2>2. QED
    BY <1>a, <2>1 DEF SeenInv, Writable, Scanned
<1>5. ASSUME NEW k \in Key, WriteEntry(k) PROVE SeenInv'
  <2>1. \A x \in Key \cup {Phantom} : seen[x] # Absent => seen'[x] # Absent
    BY <1>0, <1>5 DEF WriteEntry, NoOffset, Absent
  <2>2. QED
    BY <1>5, <1>a, <2>1 DEF WriteEntry, Writable
<1>6. CASE \E k \in Key : \E j \in 1..EntryLength(k) - 1 : WriteEntryFails(k, j)
  BY <1>6, <1>a DEF WriteEntryFails, Writable
<1>7. CASE Drain
  <2>1. UNCHANGED <<bounds, commit, seen>>
    BY <1>7 DEF Drain, history
  <2>2. \A c \in bounds : c < commit => disk'[c + 1] = disk[c + 1]
    BY <1>0, <1>7, DrainKeeps
  <2>3. QED
    BY <1>7, <1>a, <2>1, <2>2, DrainKeeps
<1>8. CASE Close \/ Kill
  BY <1>8 DEF Close, Kill, SeenInv
<1>9. CASE UNCHANGED vars
  BY <1>9 DEF vars, SeenInv, Scanned
<1>10. QED
  BY <1>1, <1>2, <1>3, <1>4, <1>5, <1>6, <1>7, <1>8, <1>9, StepKinds

(***************************************************************************)
(* A good session puts whole entries behind the chain, and only new names. *)
(***************************************************************************)
LEMMA SessionStep ==
    ASSUME IInv, SeenInv, SessionInv, [Next]_vars, IInv'
    PROVE  SessionInv'
<1>0. /\ commit \in Nat /\ pos \in Nat /\ buf \in Seq(Cell) /\ Len(buf) \in Nat
      /\ WritePos \in Nat /\ Start \in Nat /\ added \subseteq Key /\ misplaced \in BOOLEAN
      /\ spoilt \in BOOLEAN
  BY DEF IInv, TypeOK, WritePos, Start, Max2, MagicSize
<1>1. ASSUME NEW m \in Modes \ {"ReadOnly"}, Fresh(m) PROVE SessionInv'
  <2>1. /\ pos' = 0 /\ buf' = <<Magic>> /\ commit' = 0 /\ added' = {} /\ ~spoilt' /\ ~misplaced'
        /\ st' = "open" /\ mode' # "ReadOnly"
    BY <1>1 DEF Fresh
  <2>2. Len(buf') = 1 /\ buf'[1] = Magic
    BY <2>1
  <2>3. WritePos' = 1 /\ Start' = 1
    BY <2>1, <2>2 DEF WritePos, Start, Max2, MagicSize
  <2>4. File'[1] = Magic
    BY <2>1, <2>2, <2>3 DEF File
  <2>5. Covered(File', 1, 1) /\ \A k \in Key : Unnamed(File', 1, 1, k)
    BY DEF Covered, Unnamed
  <2>6. QED
    BY <2>1, <2>3, <2>4, <2>5 DEF SessionInv, MagicSize
<1>2. ASSUME NEW m \in {"ReadOnly", "Append"}, PrepareScan(m) PROVE SessionInv'
  BY <1>2 DEF PrepareScan, SessionInv, Writable
<1>3. CASE ScanEntry
  BY <1>3 DEF ScanEntry, SessionInv, Writable
<1>4. CASE ScanIsDone
  <2>1. PICK o \in Nat : ScanDone(o, commit)
    BY <1>4 DEF ScanIsDone
  <2>2. /\ misplaced' = (mode = "Append" /\ pos' # commit) /\ spoilt' = misplaced'
        /\ scarred' = (scarred \/ misplaced') /\ st' = "open" /\ mode' = mode
        /\ buf' = buf /\ commit' = commit /\ bounds' = bounds /\ disk' = disk
        /\ added' = added /\ seen' = seen
    BY <2>1 DEF ScanDone
  <2>3. /\ st = "scan" /\ Start = commit /\ buf = <<>> /\ mode \in {"ReadOnly", "Append"}
        /\ added = {}
    BY <1>4, ScanAt DEF ScanIsDone, IInv, ScanInv, SessionInv
  <2>4. ASSUME Writable', ~spoilt' PROVE WritePos' = commit /\ Start' = commit /\ commit >= 1
    <3>1. pos' = commit
      BY <2>2, <2>3, <2>4 DEF Writable
    <3>2. commit >= 1
      BY <1>4, ScanAt DEF ScanIsDone
    <3>3. QED
      BY <1>0, <2>2, <2>3, <3>1, <3>2, EmptySeq DEF WritePos, Start
  <2>5. Covered(File', commit, commit) /\ \A k \in Key : Unnamed(File', commit, commit, k)
    BY <1>0 DEF Covered, Unnamed
  <2>6. QED
    BY <1>0, <2>2, <2>3, <2>4, <2>5 DEF SessionInv
<1>5. ASSUME NEW k \in Key, WriteEntry(k) PROVE SessionInv'
  <2>1. /\ Writable /\ seen[k] = Absent /\ buf' = buf \o EntryCells(k)
        /\ seen' = [seen EXCEPT ![k] = NoOffset] /\ added' = added \cup {k}
        /\ UNCHANGED <<disk, st, mode, pos, spoilt, misplaced, scarred, commit, bounds>>
    BY <1>5 DEF WriteEntry
  <2> SUFFICES ASSUME ~spoilt PROVE SessionInv'
    BY <2>1 DEF SessionInv, Writable
  <2>2. /\ Start <= WritePos /\ Covered(File, Start, WritePos)
        /\ commit = 0 => File[MagicSize] = Magic
        /\ \A x \in Key : seen[x] = Absent => Unnamed(File, Start, WritePos, x)
        /\ \A x \in added :
              /\ NewName(x)
              /\ \E b \in Start..WritePos : /\ b + EntryLength(x) <= WritePos
                                            /\ Whole(File, b, x) /\ Unnamed(File, Start, b, x)
    BY <2>1 DEF SessionInv
  <2>3. EntryLength(k) \in Nat /\ EntryCells(k) \in Seq(Cell) /\ Len(EntryCells(k)) = EntryLength(k)
    BY EntryCellsType
  <2>4. /\ Len(buf') = Len(buf) + EntryLength(k)
        /\ \A i \in 1..Len(buf) : buf'[i] = buf[i]
        /\ \A i \in 1..EntryLength(k) : buf'[Len(buf) + i] = EntryCells(k)[i]
    <3>1. PICK b : b = buf'
      OBVIOUS
    <3>2. PICK e : e = EntryCells(k)
      OBVIOUS
    <3>3. b = buf \o e /\ e \in Seq(Cell) /\ Len(e) = EntryLength(k)
      BY <2>1, <2>3, <3>1, <3>2
    <3>4. /\ Len(b) = Len(buf) + EntryLength(k)
          /\ \A i \in 1..Len(buf) + EntryLength(k) :
                b[i] = IF i <= Len(buf) THEN buf[i] ELSE e[i - Len(buf)]
      BY <1>0, <3>3, ConcatProperties
    <3>5. \A i \in 1..Len(buf) : b[i] = buf[i]
      BY <1>0, <2>3, <3>4
    <3>6. ASSUME NEW i \in 1..EntryLength(k) PROVE b[Len(buf) + i] = e[i]
      <4>1. /\ Len(buf) + i \in 1..Len(buf) + EntryLength(k) /\ ~(Len(buf) + i <= Len(buf))
            /\ (Len(buf) + i) - Len(buf) = i
        BY <1>0, <2>3
      <4>2. QED
        BY <3>4, <4>1
    <3>7. QED
      BY <3>1, <3>2, <3>4, <3>5, <3>6
  <2>5. WritePos' = WritePos + EntryLength(k) /\ Start' = Start
    BY <1>0, <2>1, <2>3, <2>4 DEF WritePos, Start
  <2>6. \A i \in 1..WritePos : File'[i] = File[i]
    <3>1. ASSUME NEW i \in 1..WritePos PROVE File'[i] = File[i]
      <4>1. i \in 1..WritePos' /\ i - pos <= Len(buf) /\ (~(i <= pos) => i - pos \in 1..Len(buf))
        BY <1>0, <2>3, <2>5 DEF WritePos
      <4>2. File'[i] = IF i <= pos THEN disk[i] ELSE buf'[i - pos]
        BY <2>1, <4>1 DEF File
      <4>3. QED
        BY <2>4, <4>1, <4>2 DEF File
    <3>2. QED
      BY <3>1
  <2>7. \A i \in 1..EntryLength(k) : File'[WritePos + i] = EntryCells(k)[i]
    <3>1. ASSUME NEW i \in 1..EntryLength(k) PROVE File'[WritePos + i] = EntryCells(k)[i]
      <4>1. /\ WritePos + i \in 1..WritePos' /\ ~(WritePos + i <= pos)
            /\ (WritePos + i) - pos = Len(buf) + i
        BY <1>0, <2>3, <2>5 DEF WritePos
      <4>2. File'[WritePos + i] = buf'[(WritePos + i) - pos]
        BY <2>1, <4>1 DEF File
      <4>3. QED
        BY <2>4, <4>1, <4>2
    <3>2. QED
      BY <3>1
  <2>8. PICK f : f = File'
    OBVIOUS
  <2>9. /\ Whole(f, WritePos, k) /\ Covered(f, Start, WritePos)
        /\ Covered(f, Start, WritePos + EntryLength(k))
    <3>1. Whole(f, WritePos, k)
      BY <2>7, <2>8 DEF Whole
    <3>2. Start >= 1
      BY <1>0 DEF Start, Max2, MagicSize
    <3>3. \A i \in Start + 1..WritePos : f[i] = File[i]
      BY <1>0, <2>6, <2>8
    <3>4. PICK e : e = File
      OBVIOUS
    <3>5. Covered(f, Start, WritePos)
      BY <1>0, <2>2, <3>3, <3>4, CoveredSame
    <3>6. QED
      BY <1>0, <2>2, <3>1, <3>5, CoveredAppend
  <2>10. ASSUME NEW x \in Key, NEW z \in Nat, z <= WritePos, Unnamed(File, Start, z, x)
         PROVE  Unnamed(f, Start, z, x)
    BY <1>0, <2>6, <2>8, <2>10 DEF Unnamed
  <2>11. ASSUME NEW x \in Key, seen'[x] = Absent
         PROVE  Unnamed(f, Start, WritePos + EntryLength(k), x)
    <3>1. x # k /\ seen[x] = Absent
      BY <2>1, <2>11 DEF NoOffset, Absent, IInv, TypeOK
    <3>2. Unnamed(f, Start, WritePos, x)
      BY <1>0, <2>2, <2>10, <3>1
    <3>3. ASSUME NEW i \in Start + 1..WritePos + EntryLength(k), i > WritePos
          PROVE  NameOf(f[i]) # x
      <4>1. i - WritePos \in 1..EntryLength(k) /\ i = WritePos + (i - WritePos)
        BY <1>0, <2>3, <3>3
      <4>2. f[i] = EntryCells(k)[i - WritePos]
        BY <2>7, <2>8, <4>1
      <4>3. NameOf(f[i]) \in {k, Phantom}
        <5>1. CASE i - WritePos = 1
          <6>1. f[i] = NameCell(k)
            BY <4>2, <5>1, CellsOf
          <6>2. QED
            BY <6>1 DEF NameOf, NameCell
        <5>2. CASE i - WritePos \in 2..EntryLength(k)
          BY <4>2, <5>2, CellsOf DEF NameOf
        <5>3. i - WritePos = 1 \/ i - WritePos \in 2..EntryLength(k)
          BY <1>0, <2>3, <4>1
        <5>4. QED
          BY <5>1, <5>2, <5>3
      <4>4. QED
        BY <3>1, <4>3, KeyAssumption
    <3>4. QED
      BY <1>0, <2>3, <3>2, <3>3 DEF Unnamed
  <2>12. \A x \in Key : NewName(x)' <=> NewName(x)
    BY <2>1 DEF NewName
  <2>13. ASSUME NEW x \in added
         PROVE  \E b \in Start..WritePos + EntryLength(k) :
                    /\ b + EntryLength(x) <= WritePos + EntryLength(k)
                    /\ Whole(f, b, x) /\ Unnamed(f, Start, b, x)
    <3>1. PICK b \in Start..WritePos : /\ b + EntryLength(x) <= WritePos
                                       /\ Whole(File, b, x) /\ Unnamed(File, Start, b, x)
      BY <2>2
    <3>2. x \in Key /\ EntryLength(x) \in Nat /\ b \in Nat
      BY <1>0, CellsOf
    <3>3. \A i \in 1..EntryLength(x) : b + i \in 1..WritePos
      BY <1>0, <3>1, <3>2
    <3>4. Whole(f, b, x)
      BY <2>6, <2>8, <3>1, <3>3 DEF Whole
    <3>5. Unnamed(f, Start, b, x)
      BY <1>0, <2>10, <3>1, <3>2
    <3>6. QED
      BY <1>0, <2>3, <3>1, <3>2, <3>4, <3>5
  <2>14. NewName(k)
    BY <2>1 DEF NewName, SeenInv, Scanned, Writable
  <2>15. Unnamed(f, Start, WritePos, k)
    BY <1>0, <2>1, <2>2, <2>10
  <2>16. ASSUME NEW x \in added'
         PROVE  /\ NewName(x)'
                /\ \E b \in Start..WritePos + EntryLength(k) :
                    /\ b + EntryLength(x) <= WritePos + EntryLength(k)
                    /\ Whole(f, b, x) /\ Unnamed(f, Start, b, x)
    <3>1. CASE x \in added
      BY <1>0, <2>2, <2>12, <2>13, <3>1
    <3>2. CASE x = k
      BY <1>0, <2>2, <2>3, <2>9, <2>12, <2>14, <2>15, <3>2
    <3>3. QED
      BY <2>1, <3>1, <3>2
  <2>17. commit = 0 => File'[MagicSize] = Magic
    BY <1>0, <2>2, <2>6 DEF MagicSize, Start, Max2
  <2>18. Start <= WritePos + EntryLength(k)
    BY <1>0, <2>2, <2>3
  <2>19. /\ misplaced' => spoilt'
         /\ st' # "closed" /\ spoilt' => scarred'
         /\ st' = "scan" \/ mode' = "ReadOnly" => added' = {}
    BY <2>1 DEF SessionInv, Writable
  <2>20. QED
    BY <2>1, <2>5, <2>8, <2>9, <2>11, <2>16, <2>17, <2>18, <2>19 DEF SessionInv
<1>6. CASE \E k \in Key : \E j \in 1..EntryLength(k) - 1 : WriteEntryFails(k, j)
  BY <1>6 DEF WriteEntryFails, SessionInv, Writable
<1>7. CASE Drain
  <2>1. /\ UNCHANGED <<mode, seen, added, spoilt, misplaced, scarred, commit, bounds>>
        /\ Writable /\ Writable' /\ st = "open" /\ st' = "open"
        /\ WritePos' = WritePos /\ File' = File
    BY <1>7, DrainKeeps DEF Drain, history, Writable
  <2>2. Start' = Start
    BY <2>1 DEF Start
  <2>3. \A c \in bounds : c < commit => disk'[c + 1] = disk[c + 1]
    BY <1>7, DrainKeeps, ChainNames
  <2>4. \A k \in added : NewName(k) => NewName(k)'
    BY <2>1, <2>3 DEF NewName
  <2>5. QED
    BY <2>1, <2>2, <2>4 DEF SessionInv
<1>8. CASE Close
  BY <1>8 DEF Close, SessionInv, Writable
<1>9. CASE Kill
  BY <1>9 DEF Kill, history, SessionInv, Writable
<1>10. CASE UNCHANGED vars
  BY <1>10 DEF vars, SessionInv, Writable, WritePos, File, Start, NewName
<1>11. QED
  BY <1>1, <1>2, <1>3, <1>4, <1>5, <1>6, <1>7, <1>8, <1>9, <1>10, StepKinds

(***************************************************************************)
(* What was stored well stays whole, and is accepted by the next scan.     *)
(***************************************************************************)
LEMMA AlignStep ==
    ASSUME IInv, SessionInv, AlignInv, [Next]_vars, IInv'
    PROVE  AlignInv'
<1>0. /\ commit \in Nat /\ pos \in Nat /\ Len(disk) \in Nat /\ Start \in Nat /\ 1 <= Start
      /\ commit <= Start /\ written \in [Key -> {"no", "misplaced", "aligned"}]
      /\ \A b \in bounds : b \in Nat /\ b <= commit
  BY DEF IInv, TypeOK, ChainInv, Start, Max2, MagicSize
<1>a. ASSUME written' = written, Len(disk) <= Len(disk'), Len(disk') \in Nat,
             \A k \in Key : \A b \in 0..Len(disk) : Stored(b, k) => Stored(b, k)'
      PROVE  AlignInv'
  <2>1. ASSUME NEW k \in Key, written[k] = "aligned"
        PROVE  \E b \in 0..Len(disk') : Stored(b, k)'
    <3>1. PICK b \in 0..Len(disk) : Stored(b, k)
      BY <2>1 DEF AlignInv
    <3>2. b \in 0..Len(disk')
      BY <1>0, <1>a
    <3>3. QED
      BY <1>a, <3>1, <3>2
  <2>2. QED
    BY <1>a, <2>1 DEF AlignInv
<1>b. ASSUME UNCHANGED <<disk, commit, bounds>>, st # "open" => st' # "open", written' = written
      PROVE  AlignInv'
  <2>1. Start' = Start
    BY <1>b DEF Start
  <2>2. ASSUME NEW k \in Key, NEW b \in 0..Len(disk), Stored(b, k) PROVE Stored(b, k)'
    BY <1>b, <2>1, <2>2 DEF Stored, Accepted, InLine
  <2>3. QED
    BY <1>0, <1>a, <1>b, <2>2
<1>1. ASSUME NEW m \in Modes \ {"ReadOnly"}, Fresh(m) PROVE AlignInv'
  BY <1>1 DEF Fresh, AlignInv
<1>2. ASSUME NEW m \in {"ReadOnly", "Append"}, PrepareScan(m) PROVE AlignInv'
  <2>1. CASE commit > 0 /\ commit' = commit /\ bounds' = bounds
    BY <1>2, <1>b, <2>1 DEF PrepareScan
  <2>2. CASE commit = 0 /\ bounds = {} /\ commit' = 1 /\ bounds' = {1}
    <3>1. disk' = disk /\ Start' = Start /\ st' = "scan" /\ written' = written
      BY <1>2, ScanBegins DEF PrepareScan
    <3>2. ASSUME NEW k \in Key, NEW b \in 0..Len(disk), Stored(b, k) PROVE Stored(b, k)'
      BY <2>2, <3>1, <3>2 DEF Stored, Accepted, InLine
    <3>3. QED
      BY <1>0, <1>a, <3>1, <3>2
  <2>3. QED
    BY <1>2, <2>1, <2>2, ScanBegins
<1>3. CASE ScanEntry
  <2>0. /\ disk' = disk /\ st = "scan" /\ st' = "scan" /\ offset \in Nat /\ written' = written
        /\ NextOffset(offset) \in Nat /\ offset + 2 <= NextOffset(offset)
        /\ Start = commit /\ commit \in bounds
    BY <1>3, EntryStep, ScanAt DEF ScanEntry
  <2>1. CASE commit' = commit /\ bounds' = bounds
    BY <1>b, <2>0, <2>1
  <2>2. CASE /\ offset = commit /\ commit' = NextOffset(commit)
             /\ bounds' = bounds \cup {NextOffset(commit)}
    <3>0. /\ \A c \in bounds' : c < commit' => c \in bounds /\ c <= commit
          /\ Start' = commit' /\ commit' \in Nat /\ commit < commit'
      BY <1>0, <2>0, <2>2 DEF Start, Max2, MagicSize
    <3>1. ASSUME NEW k \in Key, NEW b \in 0..Len(disk), Stored(b, k) PROVE Stored(b, k)'
      <4>1. CASE Accepted(b)
        <5>1. \A c \in bounds' : c < commit' /\ c < b => NameOf(disk[c + 1]) # k
          <6>1. ASSUME NEW c \in bounds', c < commit', c < b PROVE NameOf(disk[c + 1]) # k
            <7>1. c \in bounds
              BY <3>0, <6>1, Zenon
            <7>2. c < commit
              BY <1>0, <4>1, <6>1, <7>1 DEF Accepted
            <7>3. QED
              BY <3>1, <6>1, <7>1, <7>2 DEF Stored
          <6>2. QED
            BY <6>1
        <5>2. Accepted(b)'
          BY <1>0, <2>2, <3>0, <4>1 DEF Accepted
        <5>3. QED
          BY <2>0, <3>1, <5>1, <5>2 DEF Stored
      <4>2. CASE InLine(b, k)
        <5>1. /\ commit <= b /\ Covered(disk, commit, b + EntryLength(k))
              /\ Unnamed(disk, commit, b, k) /\ b + EntryLength(k) <= Len(disk)
              /\ Whole(disk, b, k) /\ EntryLength(k) \in Nat /\ EntryLength(k) >= 2
              /\ b + EntryLength(k) \in Nat /\ b \in Nat
          BY <2>0, <3>1, <4>2, CellsOf DEF InLine, Stored
        <5>2. PICK j \in Key : /\ Whole(disk, commit, j)
                               /\ commit + EntryLength(j) <= b + EntryLength(k)
                               /\ Covered(disk, commit + EntryLength(j), b + EntryLength(k))
          BY <1>0, <5>1, CoveredFirst
        <5>3. commit' = commit + EntryLength(j) /\ NameOf(disk[commit + 1]) = j
          BY <1>0, <2>2, <5>2, WholeNext
        <5>4. CASE b = commit
          <6>1. Accepted(b)'
            BY <2>0, <2>2, <3>0, <5>4 DEF Accepted
          <6>2. \A c \in bounds' : c < commit' /\ c < b => NameOf(disk[c + 1]) # k
            BY <1>0, <3>0, <3>1, <5>4 DEF Stored
          <6>3. QED
            BY <2>0, <5>1, <6>1, <6>2 DEF Stored
        <5>5. CASE commit < b
          <6>1. commit + EntryLength(j) <= b
            <7>1. SUFFICES ASSUME b < commit + EntryLength(j) PROVE FALSE
              BY <1>0, <5>1, CellsOf
            <7>2. QED
              BY <1>0, <5>1, <5>2, <5>5, <7>1, NoOverlap
          <6>2. NameOf(disk[commit + 1]) # k
            BY <1>0, <5>1, <5>5 DEF Unnamed
          <6>3. Unnamed(disk, commit', b, k)
            <7>0. commit' \in Nat /\ commit < commit'
              BY <3>0, Zenon
            <7>1. ASSUME NEW n \in Nat, commit < n PROVE Unnamed(disk, n, b, k)
              BY <1>0, <5>1, <7>1 DEF Unnamed
            <7>2. QED
              BY <7>0, <7>1, Zenon
          <6>4. InLine(b, k)'
            BY <2>0, <3>0, <5>2, <5>3, <6>1, <6>3 DEF InLine
          <6>5. \A c \in bounds' : c < commit' /\ c < b => NameOf(disk[c + 1]) # k
            <7>1. ASSUME NEW c \in bounds', c < commit', c < b PROVE NameOf(disk[c + 1]) # k
              <8>1. c \in bounds /\ (c = commit \/ c < commit)
                BY <1>0, <3>0, <7>1
              <8>2. QED
                BY <3>1, <6>2, <7>1, <8>1 DEF Stored
            <7>2. QED
              BY <7>1
          <6>6. QED
            BY <2>0, <5>1, <6>4, <6>5 DEF Stored
        <5>6. QED
          BY <1>0, <5>1, <5>4, <5>5
      <4>3. QED
        BY <3>1, <4>1, <4>2 DEF Stored
    <3>2. QED
      BY <1>0, <1>a, <2>0, <3>1
  <2>3. QED
    BY <1>3, <2>1, <2>2, EntryStep
<1>4. CASE ScanIsDone
  <2>1. /\ st = "scan" /\ ~EntryFits(commit) /\ Start = commit /\ st' = "open"
        /\ UNCHANGED <<disk, commit, bounds, written>>
    BY <1>4, ScanAt DEF ScanIsDone, ScanDone
  <2>2. ASSUME NEW k \in Key, NEW b \in 0..Len(disk), Stored(b, k) PROVE Stored(b, k)'
    <3>1. ~InLine(b, k)
      <4>1. SUFFICES ASSUME InLine(b, k) PROVE FALSE
        OBVIOUS
      <4>2. /\ b + EntryLength(k) \in Nat /\ commit < b + EntryLength(k)
            /\ b + EntryLength(k) <= Len(disk) /\ Covered(disk, commit, b + EntryLength(k))
        BY <1>0, <2>1, <2>2, <4>1, CellsOf DEF InLine, Stored
      <4>3. QED
        BY <2>1, <4>2, CoveredFits
    <3>2. QED
      BY <2>1, <2>2, <3>1 DEF Stored, Accepted
  <2>3. QED
    BY <1>0, <1>a, <2>1, <2>2
<1>5. CASE \E k \in Key : WriteEntry(k)
  BY <1>5, <1>b DEF WriteEntry
<1>6. CASE \E k \in Key : \E j \in 1..EntryLength(k) - 1 : WriteEntryFails(k, j)
  BY <1>6, <1>b DEF WriteEntryFails
<1>7. CASE Drain
  <2>1. /\ UNCHANGED <<commit, bounds, written>> /\ Len(disk') \in Nat /\ Len(disk) <= Len(disk')
        /\ st = "open" /\ commit <= pos
    BY <1>0, <1>7, DrainKeeps DEF Drain, history, Writable, Max2
  <2>2. \A i \in 1..commit : disk'[i] = disk[i]
    BY <1>0, <1>7, <2>1, DrainKeeps
  <2>3. ASSUME NEW k \in Key, NEW b \in 0..Len(disk), Stored(b, k) PROVE Stored(b, k)'
    <3>1. Accepted(b) /\ b \in bounds /\ b < commit /\ Whole(disk, b, k)
      BY <2>1, <2>3 DEF Stored, InLine, Accepted
    <3>2. b + EntryLength(k) <= commit
      BY <1>0, <3>1, WholeNext, ChainNames
    <3>3. \A i \in 1..EntryLength(k) : b + i \in 1..commit
      BY <1>0, <3>1, <3>2, CellsOf
    <3>4. Whole(disk', b, k)
      BY <2>2, <3>1, <3>3 DEF Whole
    <3>5. \A c \in bounds : c < commit => disk'[c + 1] = disk[c + 1]
      BY <2>2, ChainNames
    <3>6. b + EntryLength(k) <= Len(disk')
      BY <1>0, <2>1, <2>3, CellsOf DEF Stored
    <3>7. QED
      BY <2>1, <2>3, <3>1, <3>4, <3>5, <3>6 DEF Stored, Accepted
  <2>4. QED
    BY <1>a, <2>1, <2>3
<1>8. CASE Close
  <2>1. /\ UNCHANGED <<disk, commit, bounds>> /\ st = "open" /\ st' = "closed" /\ buf = <<>>
        /\ \/ written' = written
           \/ /\ misplaced = spoilt
              /\ written' = [k \in Key |-> IF k \notin added THEN written[k]
                                           ELSE IF spoilt THEN "misplaced" ELSE "aligned"]
    BY <1>8 DEF Close
  <2>2. CASE written' = written
    <3>1. ASSUME NEW k \in Key, NEW b \in 0..Len(disk), Stored(b, k) PROVE Stored(b, k)'
      BY <2>1, <3>1 DEF Stored, Accepted, InLine
    <3>2. QED
      BY <1>0, <1>a, <2>1, <2>2, <3>1
  <2>3. CASE written' = [k \in Key |-> IF k \notin added THEN written[k]
                                       ELSE IF spoilt THEN "misplaced" ELSE "aligned"]
    <3>1. ASSUME NEW k \in Key, written'[k] = "aligned"
          PROVE  \E b \in 0..Len(disk) : Stored(b, k)'
      <4>1. CASE k \notin added
        <5>1. written[k] = "aligned"
          BY <2>3, <3>1, <4>1
        <5>2. PICK b \in 0..Len(disk) : Stored(b, k)
          BY <5>1 DEF AlignInv
        <5>3. QED
          BY <2>1, <5>2 DEF Stored, Accepted, InLine
      <4>2. CASE k \in added
        <5>1. ~spoilt /\ Writable
          BY <2>1, <2>3, <3>1, <4>2 DEF SessionInv, Writable
        <5>2. WritePos = pos /\ pos <= Len(disk)
          BY <1>0, <2>1, EmptySeq DEF WritePos, IInv, TypeOK
        <5>3. /\ Start <= pos /\ Covered(File, Start, pos) /\ NewName(k)
          BY <4>2, <5>1, <5>2 DEF SessionInv
        <5>4. PICK b \in Start..pos : /\ b + EntryLength(k) <= pos
                                      /\ Whole(File, b, k) /\ Unnamed(File, Start, b, k)
          BY <4>2, <5>1, <5>2 DEF SessionInv
        <5>5. \A i \in 1..pos : File[i] = disk[i]
          BY <5>2 DEF File
        <5>6. /\ b \in Nat /\ EntryLength(k) \in Nat /\ b \in 0..Len(disk)
              /\ b + EntryLength(k) <= Len(disk) /\ b + EntryLength(k) \in Nat
          BY <1>0, <5>2, <5>4, CellsOf
        <5>7. \A i \in 1..EntryLength(k) : b + i \in 1..pos
          BY <1>0, <5>4, <5>6
        <5>8. Whole(disk, b, k)
          BY <5>4, <5>5, <5>7 DEF Whole
        <5>9. Unnamed(disk, Start, b, k)
          BY <1>0, <5>4, <5>5, <5>6 DEF Unnamed
        <5>10. Covered(disk, Start, b + EntryLength(k))
          <6>1. PICK f : f = File
            OBVIOUS
          <6>2. Covered(f, Start, b)
            BY <1>0, <5>3, <5>4, <5>6, <6>1, CoveredSplit
          <6>3. \A i \in Start + 1..b : disk[i] = f[i]
            BY <1>0, <5>5, <5>4, <6>1
          <6>4. Covered(disk, Start, b)
            BY <1>0, <5>6, <6>2, <6>3, CoveredSame
          <6>5. QED
            BY <1>0, <5>4, <5>6, <5>8, <6>4, CoveredAppend
        <5>11. Start' = Start
          BY <2>1 DEF Start
        <5>12. InLine(b, k)'
          BY <1>0, <2>1, <5>4, <5>9, <5>10, <5>11 DEF InLine
        <5>13. QED
          BY <2>1, <5>3, <5>6, <5>8, <5>12 DEF Stored, NewName
      <4>3. QED
        BY <4>1, <4>2
    <3>2. QED
      BY <2>1, <3>1 DEF AlignInv
  <2>4. QED
    BY <2>1, <2>2, <2>3
<1>9. CASE Kill
  BY <1>9, <1>b DEF Kill, history
<1>10. CASE UNCHANGED vars
  BY <1>10, <1>b DEF vars
<1>11. QED
  BY <1>1, <1>2, <1>3, <1>4, <1>5, <1>6, <1>7, <1>8, <1>9, <1>10, StepKinds

(***************************************************************************)
(* A header is reached by a scan only behind its own name.                 *)
(***************************************************************************)
LEMMA PairStep ==
    ASSUME IInv, SessionInv, PairInv, [Next]_vars, IInv'
    PROVE  PairInv'
<1>0. /\ commit \in Nat /\ pos \in Nat /\ Len(disk) \in Nat /\ Start \in Nat /\ 1 <= Start
      /\ commit <= Start /\ disk \in Seq(Cell) /\ pos <= Len(disk)
      /\ \A b \in bounds : b \in Nat /\ b <= commit
  BY DEF IInv, TypeOK, ChainInv, Start, Max2, MagicSize
<1>a. ASSUME UNCHANGED <<disk, commit, bounds, pos>>, Writable' = Writable, scarred' = scarred
      PROVE  PairInv'
  <2>1. Start' = Start
    BY <1>a DEF Start
  <2>2. ASSUME NEW h PROVE TooLong(h)' = TooLong(h) /\ Paired(h)' = Paired(h)
    BY <1>a, <2>1 DEF TooLong, Paired
  <2>3. QED
    BY <1>a, <2>2 DEF PairInv
<1>1. ASSUME NEW m \in Modes \ {"ReadOnly"}, Fresh(m) PROVE PairInv'
  <2>1. Len(disk') = 0 /\ bounds' = {} /\ commit' = 0 /\ pos' = 0
    BY <1>1, EmptySeq DEF Fresh
  <2>2. QED
    BY <2>1 DEF PairInv
<1>2. ASSUME NEW m \in {"ReadOnly", "Append"}, PrepareScan(m) PROVE PairInv'
  <2>1. /\ disk' = disk /\ Start' = Start /\ ~Writable /\ ~Writable' /\ scarred' = scarred
    BY <1>2, ScanBegins DEF PrepareScan, Writable
  <2>2. ASSUME NEW h PROVE TooLong(h)' = TooLong(h) /\ Paired(h)' = Paired(h)
    BY <2>1 DEF TooLong, Paired
  <2>3. CASE commit' = commit /\ bounds' = bounds
    BY <2>1, <2>2, <2>3 DEF PairInv
  <2>4. CASE commit = 0 /\ commit' = 1 /\ bounds' = {1}
    <3>1. \A h \in 1 + 1..Len(disk) : h \in commit + 1..Len(disk)
      BY <1>0, <2>4
    <3>2. QED
      BY <2>1, <2>2, <2>4, <3>1 DEF PairInv
  <2>5. QED
    BY <1>2, <2>3, <2>4, ScanBegins
<1>3. CASE ScanEntry
  <2>0. /\ disk' = disk /\ st = "scan" /\ st' = "scan" /\ scarred' = scarred
        /\ ~Writable /\ ~Writable' /\ Start = commit /\ offset + 2 <= NextOffset(offset)
        /\ NextOffset(offset) \in Nat /\ NextOffset(offset) <= Len(disk)
    BY <1>3, EntryStep, ScanAt DEF ScanEntry, Writable
  <2>1. CASE commit' = commit /\ bounds' = bounds
    <3>1. Start' = Start
      BY <2>1 DEF Start
    <3>2. ASSUME NEW h PROVE TooLong(h)' = TooLong(h) /\ Paired(h)' = Paired(h)
      BY <2>0, <3>1 DEF TooLong, Paired
    <3>3. QED
      BY <2>0, <2>1, <3>2 DEF PairInv
  <2>2. CASE /\ offset = commit /\ commit' = NextOffset(commit)
             /\ bounds' = bounds \cup {NextOffset(commit)}
    <3> SUFFICES ASSUME ~scarred PROVE PairInv'
      BY <2>0 DEF PairInv
    <3>1. PICK z \in Nat : z = NextOffset(commit)
      BY <2>0, <2>2
    <3>2. /\ commit' = z /\ bounds' = bounds \cup {z} /\ z <= Len(disk) /\ commit + 2 <= z
          /\ Start' = z
      BY <1>0, <2>0, <2>2, <3>1 DEF Start, Max2, MagicSize
    <3>3. /\ \A c \in bounds :
                /\ c < commit
                /\ disk[c + 1].kind = "name" /\ disk[c + 2].kind = "header"
                => disk[c + 2].key = disk[c + 1].key
          /\ \A h \in commit + 1..Len(disk) :
                disk[h].kind = "header" => TooLong(h) \/ Paired(h)
      BY <2>0 DEF PairInv, HeadSize
    <3>4. ASSUME NEW c \in bounds', c < z, disk[c + 1].kind = "name", disk[c + 2].kind = "header"
          PROVE  disk[c + 2].key = disk[c + 1].key
      <4>1. c \in bounds /\ (c < commit \/ c = commit)
        BY <1>0, <3>2, <3>4
      <4>2. CASE c < commit
        BY <3>3, <3>4, <4>1, <4>2
      <4>3. CASE c = commit
        <5>1. commit + 2 \in commit + 1..Len(disk) /\ (commit + 2) - 1 = commit + 1
          BY <1>0, <3>2
        <5>2. ~TooLong(commit + 2)
          <6>1. z = commit + 2 + disk[commit + 2].n
            BY <3>1, <3>4, <4>3 DEF NextOffset, HeadSize, PayloadSize
          <6>2. QED
            BY <1>0, <3>2, <6>1 DEF TooLong
        <5>3. Paired(commit + 2)
          BY <3>3, <3>4, <4>3, <5>1, <5>2
        <5>4. disk[commit + 1] = NameCell(disk[commit + 2].key)
          BY <5>1, <5>3 DEF Paired
        <5>5. QED
          BY <4>3, <5>4 DEF NameCell
      <4>4. QED
        BY <4>1, <4>2, <4>3
    <3>5. ASSUME NEW h \in z + 1..Len(disk), disk[h].kind = "header", ~TooLong(h)
          PROVE  Paired(h)'
      <4>1. h \in commit + 1..Len(disk) /\ h \in Nat /\ h - 2 \in Nat /\ commit < h - 2
        BY <1>0, <3>2
      <4>2. disk[h - 1] = NameCell(disk[h].key) /\ Covered(disk, commit, h - 2)
        BY <2>0, <3>3, <3>5, <4>1 DEF Paired, HeadSize
      <4>3. PICK j \in Key : /\ Whole(disk, commit, j) /\ commit + EntryLength(j) <= h - 2
                             /\ Covered(disk, commit + EntryLength(j), h - 2)
        BY <1>0, <4>1, <4>2, CoveredFirst
      <4>4. z = commit + EntryLength(j)
        BY <1>0, <3>1, <4>3, WholeNext
      <4>5. z <= h - 2 /\ Covered(disk, z, h - 2)
        BY <4>3, <4>4
      <4>6. QED
        BY <2>0, <3>2, <4>2, <4>5 DEF Paired, HeadSize
    <3>6. ASSUME NEW h PROVE TooLong(h)' = TooLong(h)
      BY <2>0 DEF TooLong
    <3>7. /\ \A c \in bounds' :
                /\ c < commit'
                /\ disk'[c + 1].kind = "name" /\ disk'[c + HeadSize].kind = "header"
                => disk'[c + HeadSize].key = disk'[c + 1].key
          /\ \A h \in commit' + 1..Len(disk') :
                disk'[h].kind = "header" => TooLong(h)' \/ Paired(h)'
      BY <2>0, <3>2, <3>4, <3>5, <3>6 DEF HeadSize
    <3>8. QED
      BY <2>0, <3>7 DEF PairInv
  <2>3. QED
    BY <1>3, <2>1, <2>2, EntryStep
<1>4. CASE ScanIsDone
  <2>1. PICK o \in Nat : ScanDone(o, commit)
    BY <1>4 DEF ScanIsDone
  <2>2. /\ misplaced' = (mode = "Append" /\ pos' # commit)
        /\ scarred' = (scarred \/ misplaced') /\ st' = "open" /\ mode' = mode
        /\ UNCHANGED <<disk, commit, bounds>>
    BY <2>1 DEF ScanDone
  <2>3. /\ st = "scan" /\ ~EntryFits(commit) /\ Start = commit /\ ~Writable
        /\ mode \in {"ReadOnly", "Append"}
    BY <1>4, ScanAt DEF ScanIsDone, Writable, IInv, ScanInv
  <2> SUFFICES ASSUME ~scarred' PROVE PairInv'
    BY DEF PairInv
  <2>4. Start' = Start /\ ~scarred
    BY <2>2 DEF Start
  <2>5. ASSUME NEW h PROVE TooLong(h)' = TooLong(h) /\ Paired(h)' = Paired(h)
    BY <2>2, <2>4 DEF TooLong, Paired
  <2>6. \A h \in commit + 1..Len(disk) : disk[h].kind = "header" => TooLong(h) \/ Paired(h)
    BY <2>3, <2>4 DEF PairInv
  <2>7. ASSUME Writable' PROVE pos' = commit
    BY <2>2, <2>3, <2>7 DEF Writable
  <2>8. ASSUME NEW h \in commit + 1..Len(disk), disk[h].kind = "header", Paired(h)
        PROVE  TooLong(h)
    <3>1. /\ h \in Nat /\ h - 2 \in Nat /\ commit <= h - 2 /\ Covered(disk, commit, h - 2)
          /\ h <= Len(disk)
      BY <1>0, <2>3, <2>8 DEF Paired, HeadSize
    <3>2. CASE commit < h - 2
      <4>1. h - 2 <= Len(disk)
        BY <1>0, <3>1
      <4>2. QED
        BY <2>3, <3>1, <3>2, <4>1, CoveredFits
    <3>3. CASE commit = h - 2
      <4>1. h = commit + 2 /\ HeadFits(commit)
        BY <1>0, <3>1, <3>3 DEF HeadFits, HeadSize
      <4>2. NextOffset(commit) = h + disk[h].n
        BY <2>8, <4>1 DEF NextOffset, PayloadSize, HeadSize
      <4>3. NextOffset(commit) \in Nat /\ ~(NextOffset(commit) <= Len(disk))
        BY <1>0, <2>3, <4>1, NextOffsetType DEF EntryFits, IInv
      <4>4. QED
        BY <1>0, <4>2, <4>3 DEF TooLong
    <3>4. QED
      BY <1>0, <3>1, <3>2, <3>3
  <2>9. Writable' => \A h \in pos' + 1..Len(disk') : disk'[h].kind = "header" => TooLong(h)'
    <3>1. \A h \in commit + 1..Len(disk) : disk[h].kind = "header" => TooLong(h)
      BY <2>6, <2>8
    <3>2. QED
      BY <2>2, <2>5, <2>7, <3>1
  <2>10. QED
    BY <2>2, <2>3, <2>4, <2>5, <2>6, <2>9 DEF PairInv
<1>5. CASE \E k \in Key : WriteEntry(k)
  BY <1>5, <1>a DEF WriteEntry, Writable
<1>6. CASE \E k \in Key : \E j \in 1..EntryLength(k) - 1 : WriteEntryFails(k, j)
  BY <1>6 DEF WriteEntryFails, PairInv
<1>7. CASE Drain
  <2>0. /\ UNCHANGED <<scarred, commit, bounds>> /\ Writable /\ Writable' /\ commit <= pos
        /\ pos' = pos + 1 /\ Len(disk') = Max2(Len(disk), pos + 1)
        /\ \A i \in pos + 2..Len(disk) : disk'[i] = disk[i]
        /\ \A i \in 1..pos : disk'[i] = disk[i]
    BY <1>7, DrainKeeps DEF Drain, history
  <2> SUFFICES ASSUME ~scarred PROVE PairInv'
    BY <2>0 DEF PairInv
  <2>1. \A c \in bounds : c < commit => disk'[c + 1] = disk[c + 1] /\ disk'[c + 2] = disk[c + 2]
    <3>1. ASSUME NEW c \in bounds, c < commit PROVE c + 1 \in 1..pos /\ c + 2 \in 1..pos
      BY <1>0, <2>0, <3>1, ChainNames
    <3>2. QED
      BY <2>0, <3>1
  <2>2. ASSUME NEW h \in pos + 2..Len(disk'), disk'[h].kind = "header" PROVE TooLong(h)'
    <3>1. h \in pos + 2..Len(disk) /\ h \in pos + 1..Len(disk) /\ Len(disk') = Len(disk)
      BY <1>0, <2>0 DEF Max2
    <3>2. disk'[h] = disk[h]
      BY <2>0, <3>1
    <3>3. TooLong(h)
      BY <2>0, <2>2, <3>1, <3>2 DEF PairInv
    <3>4. QED
      BY <3>1, <3>2, <3>3 DEF TooLong
  <2>3. \A h \in pos' + 1..Len(disk') : h \in pos + 2..Len(disk')
    BY <1>0, <2>0
  <2>4. \A c \in bounds' :
            /\ c < commit'
            /\ disk'[c + 1].kind = "name" /\ disk'[c + HeadSize].kind = "header"
            => disk'[c + HeadSize].key = disk'[c + 1].key
    BY <2>0, <2>1 DEF PairInv, HeadSize
  <2>5. QED
    BY <2>0, <2>2, <2>3, <2>4 DEF PairInv
<1>8. CASE Close \/ Kill
  <2>1. UNCHANGED <<disk, commit, bounds, scarred>> /\ st # "closed" /\ ~Writable'
    BY <1>8 DEF Close, Kill, history, Writable
  <2>2. Start' = Start
    BY <2>1 DEF Start
  <2>3. ASSUME NEW h PROVE TooLong(h)' = TooLong(h) /\ Paired(h)' = Paired(h)
    BY <2>1, <2>2 DEF TooLong, Paired
  <2> SUFFICES ASSUME ~scarred PROVE PairInv'
    BY <2>1 DEF PairInv
  <2>4. ASSUME Writable, NEW h \in commit + 1..pos, disk[h].kind = "header" PROVE Paired(h)
    <3>1. /\ ~spoilt /\ Covered(File, Start, WritePos) /\ Start <= WritePos
          /\ commit = 0 => File[1] = Magic
      BY <2>1, <2>4 DEF SessionInv, MagicSize
    <3>2. WritePos \in Nat /\ pos <= WritePos /\ h \in Nat
      BY <1>0 DEF WritePos, IInv, TypeOK
    <3>3. PICK f : f = File
      OBVIOUS
    <3>4. \A i \in 1..pos : f[i] = disk[i]
      BY <1>0, <3>2, <3>3 DEF File
    <3>5. f[h] = disk[h]
      BY <1>0, <3>4
    <3>6. h \in Start + 1..WritePos
      <4>1. h # Start
        <5>1. SUFFICES ASSUME h = Start PROVE FALSE
          OBVIOUS
        <5>2. commit = 0 /\ h = 1
          BY <1>0, <5>1 DEF Start, Max2, MagicSize
        <5>3. f[h].kind = "magic"
          BY <3>1, <3>3, <5>2 DEF Magic
        <5>4. QED
          BY <2>4, <3>5, <5>3
      <4>2. h >= Start
        BY <1>0 DEF Start, Max2, MagicSize
      <4>3. QED
        BY <1>0, <3>2, <4>1, <4>2
    <3>7. PICK b \in Start..h - 1, k \in Key :
            h <= b + EntryLength(k) /\ b + EntryLength(k) <= WritePos /\ Whole(f, b, k)
      BY <3>1, <3>3, <3>6 DEF Covered
    <3>8. h - b \in 1..EntryLength(k) /\ b + (h - b) = h /\ b \in Nat
      BY <1>0, <3>2, <3>7, CellsOf
    <3>9. f[h] = EntryCells(k)[h - b]
      BY <3>7, <3>8 DEF Whole
    <3>10. EntryCells(k)[h - b].kind = "header"
      BY <2>4, <3>5, <3>9
    <3>11. h - b = 2
      BY <3>8, <3>10, CellsOf
    <3>12. b = h - 2 /\ h - 1 = b + 1 /\ h - 1 \in 1..pos
      BY <1>0, <3>2, <3>8, <3>11
    <3>13. disk[h].key = k
      <4>1. disk[h] = HeaderCell(k)
        BY <3>5, <3>9, <3>11, CellsOf
      <4>2. QED
        BY <4>1 DEF HeaderCell
    <3>14. disk[h - 1] = NameCell(k)
      <4>1. f[b + 1] = NameCell(k)
        BY <3>7, CellsOf DEF Whole
      <4>2. QED
        BY <3>4, <3>12, <4>1
    <3>15. Covered(f, Start, b)
      <4>1. b <= WritePos /\ Start <= b
        BY <1>0, <3>2, <3>7, <3>8, CellsOf
      <4>2. Covered(f, Start, WritePos)
        BY <3>1, <3>3
      <4>3. QED
        BY <1>0, <3>2, <3>7, <3>8, <4>1, <4>2, CoveredSplit
    <3>16. \A i \in Start + 1..b : disk[i] = f[i]
      <4>1. b <= pos
        BY <1>0, <3>8, <3>12
      <4>2. \A i \in Start + 1..b : i \in 1..pos
        BY <1>0, <3>8, <4>1
      <4>3. QED
        BY <3>4, <4>2
    <3>17. Covered(disk, Start, b)
      BY <1>0, <3>8, <3>15, <3>16, CoveredSame
    <3>18. QED
      BY <1>0, <3>7, <3>8, <3>12, <3>13, <3>14, <3>17 DEF Paired, HeadSize
  <2>5. ASSUME NEW h \in commit + 1..Len(disk), disk[h].kind = "header"
        PROVE  TooLong(h) \/ Paired(h)
    <3>1. CASE ~Writable
      BY <2>5, <3>1 DEF PairInv
    <3>2. CASE Writable /\ h <= pos
      BY <1>0, <2>4, <2>5, <3>2
    <3>3. CASE Writable /\ h > pos
      <4>1. h \in pos + 1..Len(disk)
        BY <1>0, <3>3
      <4>2. QED
        BY <2>5, <3>3, <4>1 DEF PairInv
    <3>4. QED
      BY <1>0, <3>1, <3>2, <3>3
  <2>6. QED
    BY <2>1, <2>3, <2>5 DEF PairInv
<1>9. CASE UNCHANGED vars
  BY <1>9, <1>a DEF vars, Writable
<1>10. QED
  BY <1>1, <1>2, <1>3, <1>4, <1>5, <1>6, <1>7, <1>8, <1>9, StepKinds

(***************************************************************************)
(* An empty file has no chain, no entry and no session.                    *)
(***************************************************************************)
LEMMA DurableInit == Init => DInv
<1> SUFFICES ASSUME Init PROVE DInv
  OBVIOUS
<1>1. Len(disk) = 0
  BY EmptySeq DEF Init
<1>2. Linear /\ SeenInv /\ SessionInv /\ AlignInv
  BY DEF Init, Linear, SeenInv, SessionInv, AlignInv, Writable
<1>3. PairInv
  BY <1>1 DEF Init, PairInv, Writable
<1>4. QED
  BY <1>2, <1>3, InvInit DEF DInv

(***************************************************************************)
(* In every reachable state the entries behind the chain, stored or on     *)
(* their way, are whole and in line for the next scan, and the headers     *)
(* that overwritten tails have left are out of its reach.                  *)
(***************************************************************************)
THEOREM DurabilityInvariant == Spec => []DInv
<1>1. ASSUME DInv, [Next]_vars PROVE DInv'
  <2>1. IInv'
    BY <1>1, InvStep DEF DInv
  <2>2. QED
    BY <1>1, <2>1, LinearStep, SeenStep, SessionStep, AlignStep, PairStep DEF DInv
<1>2. QED
  BY DurableInit, <1>1, PTL DEF Spec

(***************************************************************************)
(* Durability: what write_entry appended in a session that began at the    *)
(* end of the last complete entry, had no failed write and was closed, is  *)
(* returned by read_entry in every later read-only session, whatever was   *)
(* killed, cut or appended in between.                                     *)
(***************************************************************************)
THEOREM StoredIsRead == Spec => []AlignedReadable
<1>1. ASSUME DInv PROVE AlignedReadable
  <2>1. SUFFICES ASSUME Reading, NEW k \in Key, written[k] = "aligned" PROVE Readable(k)
    BY DEF AlignedReadable
  <2>2. PICK b \in 0..Len(disk) : Stored(b, k)
    BY <1>1, <2>1 DEF DInv, AlignInv
  <2>3. /\ b \in bounds /\ b < commit /\ Whole(disk, b, k) /\ b \in Nat
        /\ \A c \in bounds : c < commit /\ c < b => NameOf(disk[c + 1]) # k
    BY <2>1, <2>2 DEF Stored, Accepted, InLine, Reading
  <2>4. NameOf(disk[b + 1]) = k
    BY <2>3, WholeNext
  <2>5. seen[k] # Absent
    BY <1>1, <2>1, <2>3, <2>4 DEF DInv, SeenInv, Scanned, Reading
  <2>6. PICK c \in bounds : /\ c < commit /\ seen[k] = c + 2 /\ NameOf(disk[c + 1]) = k
                            /\ \A d \in bounds : d < c => NameOf(disk[d + 1]) # k
    BY <1>1, <2>1, <2>5 DEF DInv, SeenInv, Scanned, Reading, HeadSize
  <2>7. c = b
    <3>1. ~(b < c) /\ ~(c < b)
      BY <2>3, <2>4, <2>6
    <3>2. c \in Nat
      BY <1>1, <2>6 DEF DInv, IInv, TypeOK
    <3>3. QED
      BY <2>3, <3>1, <3>2
  <2>8. disk[b + 2] = HeaderCell(k)
    BY <2>3, CellsOf DEF Whole
  <2>9. Intact(b + 2)
    <3>1. ASSUME NEW i \in 1..Size[k] PROVE disk[b + 2 + i] = PayloadCell(k, i)
      <4>1. i + 2 \in 3..EntryLength(k) /\ i + 2 \in 1..EntryLength(k) /\ (i + 2) - 2 = i
        BY CellsOf, SizeAssumption
      <4>2. disk[b + (i + 2)] = EntryCells(k)[i + 2]
        BY <2>3, <4>1 DEF Whole
      <4>3. EntryCells(k)[i + 2] = PayloadCell(k, i)
        BY <4>1, CellsOf
      <4>4. b + (i + 2) = b + 2 + i
        BY <2>3, <4>1
      <4>5. QED
        BY <4>2, <4>3, <4>4
    <3>2. HeaderCell(k).n = Size[k] /\ HeaderCell(k).key = k
      BY DEF HeaderCell
    <3>3. QED
      BY <2>8, <3>1, <3>2 DEF Intact
  <2>10. ReadEntry(k) = k
    <3>1. disk[b + 2].kind = "header" /\ disk[b + 2].key = k
      BY <2>8 DEF HeaderCell
    <3>2. QED
      BY <2>5, <2>6, <2>7, <2>9, <3>1 DEF ReadEntry
  <2>11. QED
    BY <2>5, <2>10 DEF Readable
<1>2. QED
  BY <1>1, DurabilityInvariant, PTL

(***************************************************************************)
(* With checksums, read_entry(k) returns the blob of k or fails: in a file *)
(* without a failed or misplaced write no kill lines up the name of k with *)
(* the header of another key.                                              *)
(***************************************************************************)
THEOREM NothingForeignIsRead ==
    ASSUME Checksum
    PROVE  Spec => []ReadFaithful
<1>1. ASSUME DInv PROVE ReadFaithful
  <2>1. SUFFICES ASSUME Reading, ~scarred, NEW k \in Key PROVE ReadEntry(k) \in {k, "fail"}
    BY DEF ReadFaithful
  <2>2. CASE seen[k] = Absent
    BY <2>2 DEF ReadEntry
  <2>3. CASE seen[k] # Absent
    <3>1. PICK c \in bounds : c < commit /\ seen[k] = c + 2 /\ NameOf(disk[c + 1]) = k
      BY <1>1, <2>1, <2>3 DEF DInv, SeenInv, Scanned, Reading, HeadSize
    <3>2. disk[c + 1].kind = "name" /\ disk[c + 1].key = k
      BY <3>1, KeyAssumption DEF NameOf
    <3>3. disk[c + 2].kind = "header" => disk[c + 2].key = k
      BY <1>1, <2>1, <3>1, <3>2 DEF DInv, PairInv, HeadSize
    <3>4. QED
      BY <2>3, <3>1, <3>3 DEF ReadEntry
  <2>4. QED
    BY <2>2, <2>3
<1>2. QED
  BY <1>1, DurabilityInvariant, PTL

=============================================================================
