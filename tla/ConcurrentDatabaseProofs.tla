---------------------- MODULE ConcurrentDatabaseProofs ----------------------
(***************************************************************************)
(* Proofs about ConcurrentDatabase, for any set of processes, any number   *)
(* of keys and indices and however many sessions, merges, kills and failed *)
(* writes: the invariants its run checks, and that it implements           *)
(* EntryStore.                                                             *)
(***************************************************************************)
EXTENDS ConcurrentDatabase, SequenceTheorems, FiniteSetTheorems, TLAPS

Stored     == UNION {disk[f] : f \in File}
Item       == Key \cup {Magic, Torn}
Items(b)   == {b[i] : i \in 1..Len(b)} \ {Magic, Torn}
Whole(b)   == \A i \in 1..Len(b) : b[i] # Torn
Good(f, b) == head[f] = "good" \/ (b # <<>> /\ Head(b) = Magic)

(***************************************************************************)
(* The inductive invariant.  A file that is missing holds nothing.         *)
(***************************************************************************)
FileInv == \A f \in File : head[f] = "missing" => disk[f] = {} /\ ~broken[f]

(***************************************************************************)
(* A process has a write-only file, is looking for one, or has not begun   *)
(* to: what it keeps fits the phase it is in, and its file exists.         *)
(***************************************************************************)
PhaseInv(p) ==
    /\ session[p] # "on" => need[p] /\ index[p] = 0 /\ to_prime[p] = {}
    /\ need[p] => wfile[p] = None
    /\ index[p] # 0 => need[p] /\ to_prime[p] = {} /\ writing[p] \in Key
    /\ to_prime[p] # {} => need[p]
    /\ wfile[p] = None => buf[p] = <<>> /\ (session[p] = "on" => seen[p] = {})
    /\ wfile[p] # None => head[wfile[p]] # "missing"

(***************************************************************************)
(* The creation loop has found every lower index taken or could not open   *)
(* it, and the entry it is for was in none of the archives.  It gave up    *)
(* when that was so of all of them.                                        *)
(***************************************************************************)
ProbeInv(p) ==
    /\ index[p] # 0 => writing[p] \notin primed[p]
    /\ \A i \in Index : i < index[p] => head[i] # "missing" \/ i \in denied[p]
    /\ ~need[p] /\ wfile[p] = None => \A i \in Index : head[i] # "missing" \/ i \in denied[p]

(***************************************************************************)
(* What a live session was primed with is on disk.  What it has written is *)
(* in its file or its buffer, and was not primed; the file has its magic,  *)
(* or will get it first, and no part of an entry in front of others.       *)
(* After a failed write only the inclusions are left.                      *)
(***************************************************************************)
KeptInv(p) ==
    /\ session[p] = "on" => primed[p] \subseteq Stored /\ primed[p] \cap seen[p] = {}
    /\ wfile[p] # None => /\ Items(buf[p]) \subseteq seen[p]
                          /\ disk[wfile[p]] \subseteq seen[p] \cup frag[wfile[p]]
    /\ wfile[p] # None /\ ~failed[p] => /\ seen[p] = disk[wfile[p]] \cup Items(buf[p])
                                        /\ ~broken[wfile[p]] /\ Whole(buf[p])
                                        /\ Good(wfile[p], buf[p])

ProcInv(p) == PhaseInv(p) /\ ProbeInv(p) /\ KeptInv(p)

\* No two processes write to one file.
Apart == \A p, q \in Proc : wfile[p] # None /\ wfile[p] = wfile[q] => p = q

(***************************************************************************)
(* A merge only moves what is on disk, and only that is cut short in its   *)
(* target.  What it has listed is still to be copied, on its way, or in    *)
(* the target, unless that was broken before or could not be closed.       *)
(***************************************************************************)
MergeInv ==
    /\ hashes \subseteq Stored /\ Items(mbuf) \subseteq Stored /\ frag[Base] \subseteq Stored
    /\ merge = "none" => mbuf = <<>>
    /\ merge # "none" => head[Base] # "missing"
    /\ merge = "run" => result = "none"
    /\ merge = "run" /\ ~broken[Base] =>
          /\ mseen \subseteq disk[Base] \cup Items(mbuf)
          /\ listed \subseteq disk[Base] \cup Items(mbuf) \cup hashes
          /\ Good(Base, mbuf)
    /\ result = "true" /\ ~dropped /\ ~broken[Base] =>
          /\ listed \subseteq disk[Base] \cup Items(mbuf)
          /\ Good(Base, mbuf)

IInv ==
    /\ TypeOK /\ FileInv /\ Apart /\ MergeInv
    /\ \A p \in Proc : ProcInv(p)

-----------------------------------------------------------------------------
(***************************************************************************)
(* The choice of the next archive to scan, and of the next source to       *)
(* merge, is well defined: a set of file numbers has a smallest.           *)
(***************************************************************************)
LEMMA SmallestFile ==
    ASSUME NEW S, S \subseteq File, S # {}
    PROVE  (CHOOSE g \in S : \A h \in S : g <= h) \in S
<1> DEFINE Upto(n) == 0..n
           T == {Upto(n) : n \in S}
<1>1. S \subseteq Nat
  BY DatabaseAssumption DEF File, Index, Base
<1>2. T \subseteq FiniteSubsetsOf(Nat)
  <2>1. \A n \in S : Upto(n) \subseteq Nat
    BY <1>1
  <2>2. \A n \in S : IsFiniteSet(Upto(n))
    BY <1>1, FS_Interval
  <2>3. QED
    BY <2>1, <2>2 DEF FiniteSubsetsOf
<1>3. PICK U \in T : \A V \in T : ~(<<V, U>> \in StrictSubsetOrdering(Nat))
  <2>1. IsWellFoundedOn(StrictSubsetOrdering(Nat), FiniteSubsetsOf(Nat))
    BY FS_StrictSubsetOrderingWellFounded
  <2>2. T # {}
    OBVIOUS
  <2>3. QED
    BY <1>2, <2>1, <2>2, WFMin, Zenon
<1>4. PICK x \in S : U = Upto(x)
  OBVIOUS
<1>5. ASSUME NEW y \in S PROVE x <= y
  <2>1. ~(<<Upto(y), Upto(x)>> \in StrictSubsetOrdering(Nat))
    BY <1>3, <1>4
  <2>2. Upto(y) \subseteq Nat /\ Upto(x) \subseteq Nat
    BY <1>1
  <2>3. ~(Upto(y) \subseteq Upto(x) /\ Upto(y) # Upto(x))
    BY <2>1, <2>2 DEF StrictSubsetOrdering
  <2>4. ASSUME y < x PROVE FALSE
    <3>1. Upto(y) \subseteq Upto(x)
      BY <1>1, <2>4
    <3>2. x \in Upto(x) /\ x \notin Upto(y)
      BY <1>1, <2>4
    <3>3. QED
      BY <2>3, <3>1, <3>2
  <2>5. QED
    BY <1>1, <2>4
<1>6. QED
  BY <1>5, Zenon

(***************************************************************************)
(* What <<>>, Append and Tail do to the entries of a buffer.               *)
(***************************************************************************)
LEMMA ItemsOf ==
    /\ Items(<<>>) = {} /\ Items(<<Magic>>) = {} /\ Items(<<Torn>>) = {}
    /\ Whole(<<>>) /\ Whole(<<Magic>>)
    /\ <<>> \in Seq(Item) /\ <<Magic>> \in Seq(Item) /\ <<Torn>> \in Seq(Item)
<1>1. Magic # Torn
  BY DEF Magic, Torn
<1>2. Items(<<>>) = {} /\ Items(<<Magic>>) = {} /\ Items(<<Torn>>) = {}
  BY DEF Items
<1>3. Whole(<<>>) /\ Whole(<<Magic>>)
  BY <1>1 DEF Whole
<1>4. <<>> \in Seq(Item) /\ <<Magic>> \in Seq(Item) /\ <<Torn>> \in Seq(Item)
  BY DEF Item
<1>5. QED
  BY <1>2, <1>3, <1>4

\* An entry appended to a buffer is one more of its entries; nothing is lost.
LEMMA ItemsAppend ==
    ASSUME NEW b \in Seq(Item), NEW x \in Item
    PROVE  /\ Append(b, x) \in Seq(Item) /\ Append(b, x) # <<>>
           /\ Items(Append(b, x)) = Items(b) \cup ({x} \cap Key)
           /\ Whole(b) /\ x # Torn => Whole(Append(b, x))
           /\ b # <<>> => Head(Append(b, x)) = Head(b)
<1>1. /\ Append(b, x) \in Seq(Item)
      /\ Len(Append(b, x)) = Len(b) + 1 /\ Len(b) \in Nat
      /\ \A i \in 1..Len(b) : Append(b, x)[i] = b[i]
      /\ Append(b, x)[Len(b) + 1] = x
  BY AppendProperties, LenProperties
<1>2. Magic \notin Key /\ Torn \notin Key
  BY DatabaseAssumption
<1>3. Items(Append(b, x)) = Items(b) \cup ({x} \cap Key)
  BY <1>1, <1>2 DEF Items, Item
<1>4. Whole(b) /\ x # Torn => Whole(Append(b, x))
  BY <1>1 DEF Whole
<1>5. Append(b, x) # <<>> /\ (b # <<>> => Head(Append(b, x)) = Head(b))
  <2>1. Append(b, x) # <<>> /\ Head(Append(b, x)) = Append(b, x)[1]
    <3>1. Len(Append(b, x)) # 0
      BY <1>1
    <3>2. Append(b, x) # <<>>
      BY <1>1, <3>1, EmptySeq
    <3>3. QED
      BY <1>1, <3>2, HeadTailProperties
  <2>2. ASSUME b # <<>> PROVE Head(Append(b, x)) = Head(b)
    <3>1. Len(b) >= 1 /\ Head(b) = b[1]
      BY <1>1, <2>2, EmptySeq
    <3>2. QED
      BY <1>1, <2>1, <3>1
  <2>3. QED
    BY <2>1, <2>2
<1>6. QED
  BY <1>1, <1>3, <1>4, <1>5

\* Draining one item of a buffer takes one entry away, or the magic or a part.
LEMMA ItemsTail ==
    ASSUME NEW b \in Seq(Item), b # <<>>
    PROVE  /\ Head(b) \in Item /\ Tail(b) \in Seq(Item)
           /\ Items(b) = Items(Tail(b)) \cup ({Head(b)} \cap Key)
           /\ Whole(b) => Head(b) # Torn /\ Whole(Tail(b))
<1>1. /\ Len(Tail(b)) = Len(b) - 1 /\ Len(b) \in Nat \ {0}
      /\ \A i \in 1..Len(Tail(b)) : Tail(b)[i] = b[i + 1]
      /\ Head(b) \in Item /\ Tail(b) \in Seq(Item)
  BY HeadTailProperties, EmptySeq
<1>2. Head(b) = b[1]
  BY <1>1
<1>3. \A i \in 1..Len(b) : i = 1 \/ (i - 1 \in 1..Len(Tail(b)) /\ Tail(b)[i - 1] = b[i])
  BY <1>1
<1>4. \A i \in 1..Len(Tail(b)) : i + 1 \in 1..Len(b)
  BY <1>1
<1>5. 1 \in 1..Len(b)
  BY <1>1
<1>6. Magic \notin Key /\ Torn \notin Key
  BY DatabaseAssumption
<1>7. Items(b) = Items(Tail(b)) \cup ({Head(b)} \cap Key)
  BY <1>1, <1>2, <1>3, <1>4, <1>5, <1>6 DEF Items, Item
<1>8. Whole(b) => Head(b) # Torn /\ Whole(Tail(b))
  BY <1>1, <1>2, <1>4, <1>5 DEF Whole
<1>9. QED
  BY <1>1, <1>7, <1>8

\* The archive prepare() scans next is one of those still to be scanned.
LEMMA NextArchiveIn ==
    ASSUME TypeOK, NEW p \in Proc, to_prime[p] # {}
    PROVE  NextArchive(p) \in to_prime[p] /\ NextArchive(p) \in File
<1>1. to_prime[p] \subseteq File
  BY DEF TypeOK
<1>2. (CHOOSE g \in to_prime[p] : \A h \in to_prime[p] : g <= h) \in to_prime[p]
  BY <1>1, SmallestFile, Zenon
<1>3. NextArchive(p) \in to_prime[p]
  BY <1>2, Zenon DEF NextArchive
<1>4. QED
  BY <1>1, <1>3, Zenon

\* The entry being written to the target is in the buffer of the merge.
LEMMA CuttingItems ==
    ASSUME TypeOK
    PROVE  /\ Cutting \subseteq Items(mbuf) /\ Cutting \subseteq Key
           /\ Cutting = {} \/ \E k \in Key : Cutting = {k}
<1>1. mbuf \in Seq(Item)
  BY DEF TypeOK, Item
<1>2. CASE mbuf = <<>>
  BY <1>2 DEF Cutting
<1>3. CASE mbuf # <<>>
  <2>1. Items(mbuf) = Items(Tail(mbuf)) \cup ({Head(mbuf)} \cap Key)
    BY <1>1, <1>3, ItemsTail
  <2>2. Cutting = {Head(mbuf)} \cap Key
    BY <1>3 DEF Cutting
  <2>3. QED
    BY <2>1, <2>2
<1>4. QED
  BY <1>2, <1>3

(***************************************************************************)
(* What an item that reaches file f does to it, and to no other file.      *)
(***************************************************************************)
LEMMA WrittenFile ==
    ASSUME TypeOK, NEW f \in File, NEW x \in Item, head[f] # "missing", Written(f, x)
    PROVE  /\ head' \in [File -> {"missing", "empty", "torn", "good"}]
           /\ disk' \in [File -> SUBSET Key]
           /\ \A g \in File \ {f} : disk'[g] = disk[g] /\ head'[g] = head[g]
           /\ head'[f] # "missing"
           /\ disk[f] \subseteq disk'[f]
           /\ disk'[f] \subseteq disk[f] \cup ({x} \cap Key) \cup frag[f]
           /\ x \notin Key => disk' = disk
           /\ ~broken[f] => disk'[f] \subseteq disk[f] \cup ({x} \cap Key)
           /\ ~broken[f] /\ (head[f] = "good" \/ x = Magic)
                 => head'[f] = "good" /\ disk'[f] = disk[f] \cup ({x} \cap Key)
<1>1. PICK h \in NewHeads(f, x) : head' = [head EXCEPT ![f] = h]
  BY DEF Written
<1>2. PICK S \in Listings(f, x) : disk' = [disk EXCEPT ![f] = S]
  BY DEF Written
<1>3. /\ head \in [File -> {"missing", "empty", "torn", "good"}]
      /\ disk \in [File -> SUBSET Key] /\ frag \in [File -> SUBSET Key]
  BY DEF TypeOK
<1>4. h \in {"empty", "torn", "good"} /\ (head[f] = "good" \/ x = Magic => h = "good")
  BY <1>1, <1>3 DEF NewHeads
<1>5. Magic \notin Key
  BY DatabaseAssumption
<1>6. CASE x \notin Key \/ head[f] # "good"
  <2>1. S = disk[f]
    BY <1>2, <1>6 DEF Listings
  <2>2. disk' = disk
    BY <1>2, <1>3, <2>1
  <2>3. QED
    BY <1>1, <1>3, <1>4, <1>5, <1>6, <2>2
<1>7. CASE x \in Key /\ head[f] = "good"
  <2>1. /\ disk[f] \subseteq S /\ S \subseteq disk[f] \cup {x} \cup frag[f]
        /\ ~broken[f] => S = disk[f] \cup {x}
    <3>1. CASE broken[f]
      BY <1>2, <1>7, <3>1 DEF Listings
    <3>2. CASE ~broken[f]
      BY <1>2, <1>7, <3>2 DEF Listings
    <3>3. QED
      BY <3>1, <3>2
  <2>2. S \in SUBSET Key
    BY <1>3, <1>7, <2>1
  <2>3. {x} \cap Key = {x}
    BY <1>7
  <2>4. QED
    BY <1>1, <1>2, <1>3, <1>4, <1>7, <2>1, <2>2, <2>3
<1>8. QED
  BY <1>6, <1>7

-----------------------------------------------------------------------------
(***************************************************************************)
(* Every step keeps the types.                                             *)
(***************************************************************************)
LEMMA TypeInit == Init => TypeOK
<1> SUFFICES ASSUME Init PROVE TypeOK
  OBVIOUS
<1>1. /\ broken \in [File -> BOOLEAN] /\ need \in [Proc -> BOOLEAN]
      /\ failed \in [Proc -> BOOLEAN] /\ dropped \in BOOLEAN
  BY DEF Init
<1>2. buf \in [Proc -> Seq(Key \cup {Magic, Torn})] /\ mbuf \in Seq(Key \cup {Magic})
  BY EmptySeq DEF Init
<1>3. QED
  BY <1>1, <1>2 DEF Init, TypeOK, Tails

\* A write of an entry, or of a part of one, keeps the types of what it sets.
LEMMA PutType ==
    ASSUME TypeOK, NEW p \in Proc, NEW f \in File, NEW b \in Seq(Item), NEW k \in Key,
           Put(p, f, b, k) \/ PutFails(p, f, b, k)
    PROVE  /\ seen' \in [Proc -> SUBSET Key] /\ buf' \in [Proc -> Seq(Item)]
           /\ frag' \in [File -> SUBSET Key] /\ failed' \in [Proc -> BOOLEAN]
           /\ mishaps' \in Nat
<1>0. /\ seen \in [Proc -> SUBSET Key] /\ buf \in [Proc -> Seq(Item)]
      /\ frag \in [File -> SUBSET Key] /\ failed \in [Proc -> BOOLEAN] /\ mishaps \in Nat
      /\ k \in Item /\ Torn \in Item
  BY DEF TypeOK, Item
<1>1. Append(b, k) \in Seq(Item) /\ Append(b, Torn) \in Seq(Item)
  BY <1>0, ItemsAppend
<1>2. CASE Put(p, f, b, k)
  BY <1>0, <1>1, <1>2 DEF Put
<1>3. CASE PutFails(p, f, b, k)
  <2>1. failed' \in [Proc -> BOOLEAN]
    BY <1>0, <1>3 DEF PutFails
  <2>2. QED
    BY <1>0, <1>1, <1>3, <2>1 DEF PutFails, Mishap
<1>4. QED
  BY <1>2, <1>3

\* Every step of a recording process keeps the types.
LEMMA RecordType ==
    ASSUME TypeOK, NEW p \in Proc, Record(p),
           wfile[p] = None => buf[p] = <<>>,
           index[p] # 0 => writing[p] \in Key,
           wfile[p] # None => head[wfile[p]] # "missing"
    PROVE  TypeOK'
<1> USE DEF files, merger, bounds
<1>0. /\ Index \subseteq Nat \ {0} /\ 1 \in Index /\ Index \subseteq File /\ Base \in File
      /\ 0 \notin Index
  BY DatabaseAssumption DEF Index, File, Base
<1>1. CASE Start(p)
  <2>1. failed' \in [Proc -> BOOLEAN]
    BY <1>1 DEF Start, TypeOK
  <2>2. QED
    BY <1>0, <1>1, <2>1, DatabaseAssumption DEF Start, TypeOK
<1>2. CASE Prime(p)
  <2>1. NextArchive(p) \in File
    BY <1>2, NextArchiveIn DEF Prime
  <2>2. HalfWritten(NextArchive(p)) \subseteq Key
    BY CuttingItems DEF HalfWritten
  <2>3. PICK S \in SUBSET HalfWritten(NextArchive(p)) :
           primed' = [primed EXCEPT ![p] = @ \cup disk[NextArchive(p)] \cup S]
    BY <1>2 DEF Prime
  <2>4. primed' \in [Proc -> SUBSET Key]
    BY <2>1, <2>2, <2>3 DEF TypeOK
  <2>5. QED
    BY <1>2, <2>1, <2>4 DEF Prime, TypeOK
<1>3. CASE PrimeNothing(p)
  <2>1. mishaps' \in Nat
    BY <1>3 DEF PrimeNothing, Mishap, TypeOK
  <2>2. QED
    BY <1>3, <2>1 DEF PrimeNothing, TypeOK
<1>4. CASE TryIndex(p)
  <2>1. /\ index[p] \in Index /\ index[p] \in File /\ writing[p] \in Key
        /\ <<Magic>> \in Seq(Item)
    BY <1>0, <1>4, ItemsOf DEF TryIndex
  <2>2. /\ seen' \in [Proc -> SUBSET Key] /\ buf' \in [Proc -> Seq(Item)]
        /\ frag' \in [File -> SUBSET Key] /\ failed' \in [Proc -> BOOLEAN]
        /\ mishaps' \in Nat
    BY <1>4, <2>1, PutType DEF TryIndex
  <2>3. need' \in [Proc -> BOOLEAN]
    BY <1>4 DEF TryIndex, TypeOK
  <2>4. /\ head' \in [File -> {"missing", "empty", "torn", "good"}]
        /\ disk' \in [File -> SUBSET Key]
    BY <1>0, <1>4 DEF TryIndex, TypeOK
  <2>5. /\ wfile' \in [Proc -> {None} \cup Index]
        /\ index' \in [Proc -> {0} \cup Index] /\ writing' \in [Proc -> Key \cup {None}]
    BY <1>0, <1>4 DEF TryIndex, TypeOK
  <2>6. QED
    BY <1>4, <2>2, <2>3, <2>4, <2>5 DEF TryIndex, TypeOK, Item
<1>5. CASE TryNextIndex(p)
  <2>1. index' \in [Proc -> {0} \cup Index]
    BY <1>5, DatabaseAssumption DEF TryNextIndex, TypeOK, NoMoreIndices, Index
  <2>2. need' \in [Proc -> BOOLEAN]
    <3>1. (index[p] < NoMoreIndices) \in BOOLEAN
      BY <1>0, DatabaseAssumption DEF TypeOK, NoMoreIndices
    <3>2. QED
      BY <1>5, <3>1, Zenon DEF TryNextIndex, TypeOK
  <2>3. writing' \in [Proc -> Key \cup {None}]
    BY <1>5 DEF TryNextIndex, TypeOK
  <2>4. /\ head' \in [File -> {"missing", "empty", "torn", "good"}]
        /\ denied' \in [Proc -> SUBSET Index] /\ mishaps' \in Nat
    <3>1. CASE IndexTaken(p)
      BY <3>1 DEF IndexTaken, TypeOK
    <3>2. CASE IndexDenied(p)
      <4>1. index[p] \in Index
        BY <1>5 DEF TryNextIndex
      <4>2. denied' \in [Proc -> SUBSET Index] /\ mishaps' \in Nat
        BY <3>2, <4>1 DEF IndexDenied, Mishap, TypeOK
      <4>3. QED
        BY <3>2, <4>2 DEF IndexDenied, TypeOK
    <3>3. QED
      BY <1>5, <3>1, <3>2 DEF TryNextIndex
  <2>5. QED
    BY <1>5, <2>1, <2>2, <2>3, <2>4 DEF TryNextIndex, TypeOK
<1>6. CASE Drain(p)
  <2>1. wfile[p] \in File /\ buf[p] \in Seq(Item) /\ buf[p] # <<>> /\ wfile[p] # None
    BY <1>0, <1>6 DEF Drain, TypeOK, Item
  <2>2. Head(buf[p]) \in Item /\ Tail(buf[p]) \in Seq(Item)
    BY <2>1, ItemsTail
  <2>3. /\ head' \in [File -> {"missing", "empty", "torn", "good"}]
        /\ disk' \in [File -> SUBSET Key]
    BY <1>6, <2>1, <2>2, WrittenFile DEF Drain
  <2>4. broken' \in [File -> BOOLEAN]
    BY <1>6 DEF Drain, TypeOK
  <2>5. QED
    BY <1>6, <2>2, <2>3, <2>4 DEF Drain, TypeOK, Item
<1>7. CASE DrainFails(p)
  <2>1. failed' \in [Proc -> BOOLEAN]
    BY <1>7 DEF DrainFails, TypeOK
  <2>2. <<Torn>> \in Seq(Key \cup {Magic, Torn})
    BY ItemsOf DEF Item
  <2>3. frag' \in [File -> SUBSET Key] /\ mishaps' \in Nat
    <3>1. {Head(buf[p])} \cap Key \in SUBSET Key
      OBVIOUS
    <3>2. frag' \in [File -> SUBSET Key]
      BY <1>7, <3>1 DEF DrainFails, TypeOK
    <3>3. QED
      BY <1>7, <3>2 DEF DrainFails, Mishap, TypeOK
  <2>4. QED
    BY <1>7, <2>1, <2>2, <2>3 DEF DrainFails, TypeOK
<1>8. CASE Close(p)
  <2>1. need' \in [Proc -> BOOLEAN]
    BY <1>8 DEF Close, TypeOK
  <2>2. QED
    BY <1>8, <2>1, EmptySeq DEF Close, TypeOK
<1>9. CASE KillProcess(p)
  <2>1. need' \in [Proc -> BOOLEAN]
    BY <1>9 DEF KillProcess, TypeOK
  <2>2. head' \in [File -> {"missing", "empty", "torn", "good"}]
    BY <1>9 DEF KillProcess, TypeOK, TornHead
  <2>3. mishaps' \in Nat
    BY <1>9 DEF KillProcess, Mishap, TypeOK
  <2>4. QED
    BY <1>0, <1>9, <2>1, <2>2, <2>3, EmptySeq DEF KillProcess, TypeOK
<1>10. ASSUME NEW k \in Key, WriteEntry(p, k) PROVE TypeOK'
  <2>1. wfile[p] \in File /\ buf[p] \in Seq(Item)
    BY <1>0, <1>10 DEF WriteEntry, TypeOK, Item
  <2>2. /\ seen' \in [Proc -> SUBSET Key] /\ buf' \in [Proc -> Seq(Item)]
        /\ frag' \in [File -> SUBSET Key] /\ failed' \in [Proc -> BOOLEAN]
        /\ mishaps' \in Nat
    BY <1>10, <2>1, PutType DEF WriteEntry
  <2>3. QED
    BY <1>10, <2>2 DEF WriteEntry, TypeOK, Item
<1>11. ASSUME NEW k \in Key, WriteFirstEntry(p, k) PROVE TypeOK'
  BY <1>0, <1>11 DEF WriteFirstEntry, TypeOK
<1>12. QED
  BY <1>1, <1>2, <1>3, <1>4, <1>5, <1>6, <1>7, <1>8, <1>9, <1>10, <1>11 DEF Record

(***************************************************************************)
(* A write cut short in the target: the files keep their types, only grow, *)
(* and a key of S may be listed there.                                     *)
(***************************************************************************)
LEMMA CutFiles ==
    ASSUME TypeOK, NEW S \in SUBSET Key, CutTarget(S)
    PROVE  /\ head' \in [File -> {"missing", "empty", "torn", "good"}]
           /\ disk' \in [File -> SUBSET Key] /\ frag' \in [File -> SUBSET Key]
           /\ tail' \in Tails /\ broken' = broken /\ mbuf' = <<>>
           /\ \A g \in File \ {Base} : disk'[g] = disk[g] /\ head'[g] = head[g]
                                       /\ frag'[g] = frag[g]
           /\ disk[Base] \subseteq disk'[Base] /\ disk'[Base] \subseteq disk[Base] \cup S
           /\ frag'[Base] = frag[Base] \cup S
           /\ head[Base] # "missing" => head'[Base] # "missing"
           /\ head'[Base] = "missing" => head[Base] = "missing"
<1>0. Base \in File
  BY DEF File
<1>1. PICK T \in SUBSET S : disk' = [disk EXCEPT ![Base] = @ \cup T]
  BY DEF CutTarget
<1>2. /\ head' \in [File -> {"missing", "empty", "torn", "good"}]
      /\ \A g \in File \ {Base} : head'[g] = head[g]
      /\ head'[Base] = head[Base] \/ (head[Base] = "empty" /\ head'[Base] # "missing")
  <2>1. head \in [File -> {"missing", "empty", "torn", "good"}]
    BY DEF TypeOK
  <2>2. CASE head' = head
    BY <2>1, <2>2
  <2>3. CASE head[Base] = "empty" /\ \E h \in {"empty", "torn"} : head' = [head EXCEPT ![Base] = h]
    BY <1>0, <2>1, <2>3
  <2>4. QED
    BY <2>2, <2>3 DEF CutTarget, TornHead
<1>3. tail' \in Tails
  BY DEF CutTarget, TypeOK
<1>4. QED
  BY <1>0, <1>1, <1>2, <1>3 DEF CutTarget, TypeOK

\* Every step of merge_concurrent_databases keeps the types.
LEMMA MergeType ==
    ASSUME TypeOK, Merge, merge # "none" => head[Base] # "missing"
    PROVE  TypeOK'
<1> USE DEF files, procs, bounds
<1>0. Index \subseteq File /\ Base \in File
  BY DEF File
<1>1. ASSUME NEW S \in SUBSET Index, MergeBegin(S) PROVE TypeOK'
  <2>1. broken' \in [File -> BOOLEAN] /\ dropped' \in BOOLEAN
    BY <1>1 DEF MergeBegin, MergeOpens, TypeOK
  <2>2. mbuf' \in Seq(Key \cup {Magic})
    <3>1. <<>> \in Seq(Key \cup {Magic}) /\ <<Magic>> \in Seq(Key \cup {Magic})
      OBVIOUS
    <3>2. QED
      BY <1>1, <3>1, Zenon DEF MergeBegin
  <2>3. head' \in [File -> {"missing", "empty", "torn", "good"}]
    BY <1>1 DEF MergeBegin, TypeOK
  <2>4. QED
    BY <1>0, <1>1, <2>1, <2>2, <2>3 DEF MergeBegin, MergeOpens, TypeOK
<1>2. CASE MergeRefused
  <2>1. mishaps' \in Nat
    BY <1>2 DEF MergeRefused, Mishap, TypeOK
  <2>2. QED
    BY <1>2, <2>1 DEF MergeRefused, TypeOK
<1>3. CASE MergeSource
  <2>1. NextSource \in Index
    BY <1>0, <1>3, SmallestFile DEF MergeSource, NextSource, TypeOK
  <2>2. QED
    BY <1>0, <1>3, <2>1 DEF MergeSource, TypeOK
<1>4. CASE MergeStops
  BY <1>4 DEF MergeStops, MergeReturns, MergeFails, TypeOK
<1>5. CASE MergeEnds
  BY <1>5 DEF MergeEnds, MergeReturns, TypeOK
<1>6. ASSUME NEW k \in Key, MergeEntry(k) PROVE TypeOK'
  <2>1. Append(mbuf, k) \in Seq(Key \cup {Magic})
    BY AppendProperties DEF TypeOK
  <2>2. QED
    BY <1>6, <2>1 DEF MergeEntry, TypeOK
<1>7. CASE MergeDrain
  <2>1. Head(mbuf) \in Key \cup {Magic} /\ Tail(mbuf) \in Seq(Key \cup {Magic})
    BY <1>7, HeadTailProperties DEF MergeDrain, TypeOK
  <2>2. /\ head' \in [File -> {"missing", "empty", "torn", "good"}]
        /\ disk' \in [File -> SUBSET Key]
    BY <1>0, <1>7, <2>1, WrittenFile DEF MergeDrain, Item
  <2>3. tail' \in Tails
    BY <1>7 DEF MergeDrain, TailsBehind, TypeOK
  <2>4. QED
    BY <1>0, <1>7, <2>1, <2>2, <2>3 DEF MergeDrain, TypeOK
<1>8. CASE MergeClose
  BY <1>8 DEF MergeClose, TypeOK
<1>9. ASSUME NEW k \in Key, MergeWriteFails(k) PROVE TypeOK'
  <2> DEFINE S == IF mbuf = <<>> THEN {k} ELSE Cutting
  <2>1. S \in SUBSET Key
    BY CuttingItems
  <2>2. CutTarget(S)
    BY <1>9 DEF MergeWriteFails
  <2> HIDE DEF S
  <2>3. /\ head' \in [File -> {"missing", "empty", "torn", "good"}]
        /\ disk' \in [File -> SUBSET Key] /\ frag' \in [File -> SUBSET Key]
        /\ tail' \in Tails /\ broken' = broken /\ mbuf' = <<>>
    BY <2>1, <2>2, CutFiles
  <2>4. <<>> \in Seq(Key \cup {Magic}) /\ mishaps' \in Nat
    BY <1>9 DEF MergeWriteFails, Mishap, TypeOK
  <2>5. QED
    BY <1>9, <2>3, <2>4 DEF MergeWriteFails, MergeReturns, MergeFails, TypeOK
<1>10. CASE MergeCloseFails
  <2>1. dropped' \in BOOLEAN /\ Cutting \in SUBSET Key
    BY <1>10, CuttingItems DEF MergeCloseFails
  <2>2. /\ head' \in [File -> {"missing", "empty", "torn", "good"}]
        /\ disk' \in [File -> SUBSET Key] /\ frag' \in [File -> SUBSET Key]
        /\ tail' \in Tails /\ broken' = broken /\ mbuf' = <<>>
    BY <1>10, <2>1, CutFiles DEF MergeCloseFails
  <2>3. <<>> \in Seq(Key \cup {Magic}) /\ mishaps' \in Nat
    BY <1>10 DEF MergeCloseFails, Mishap, TypeOK
  <2>4. QED
    BY <1>10, <2>1, <2>2, <2>3 DEF MergeCloseFails, TypeOK
<1>11. CASE KillMerge
  <2>1. dropped' \in BOOLEAN /\ Cutting \in SUBSET Key
    BY <1>11, CuttingItems DEF KillMerge
  <2>2. /\ head' \in [File -> {"missing", "empty", "torn", "good"}]
        /\ disk' \in [File -> SUBSET Key] /\ frag' \in [File -> SUBSET Key]
        /\ tail' \in Tails /\ broken' = broken /\ mbuf' = <<>>
    BY <1>11, <2>1, CutFiles DEF KillMerge
  <2>3. <<>> \in Seq(Key \cup {Magic}) /\ mishaps' \in Nat
    BY <1>11 DEF KillMerge, Mishap, TypeOK
  <2>4. QED
    BY <1>11, <2>1, <2>2, <2>3 DEF KillMerge, TypeOK
<1>12. QED
  BY <1>1, <1>2, <1>3, <1>4, <1>5, <1>6, <1>7, <1>8, <1>9, <1>10, <1>11 DEF Merge

-----------------------------------------------------------------------------
(***************************************************************************)
(* The invariant is kept.  Two frames carry most of it: files only grow,   *)
(* and what one process does leaves the others and the merge alone.        *)
(***************************************************************************)
FilesGrow ==
    \A f \in File : /\ disk[f] \subseteq disk'[f]
                    /\ head[f] # "missing" => head'[f] # "missing"
                    /\ head'[f] = "missing" => disk'[f] = disk[f] /\ broken'[f] = broken[f]

Same(f) == disk'[f] = disk[f] /\ head'[f] = head[f] /\ broken'[f] = broken[f] /\ frag'[f] = frag[f]

Untouched(q) ==
    /\ session'[q] = session[q] /\ to_prime'[q] = to_prime[q]
    /\ primed'[q] = primed[q] /\ index'[q] = index[q] /\ need'[q] = need[q]
    /\ writing'[q] = writing[q] /\ wfile'[q] = wfile[q]
    /\ seen'[q] = seen[q] /\ buf'[q] = buf[q]
    /\ denied'[q] = denied[q] /\ failed'[q] = failed[q]
    /\ wfile[q] # None => Same(wfile[q])

\* While files only grow, so does what they store together.
LEMMA StoredGrows ==
    ASSUME FilesGrow
    PROVE  Stored \subseteq Stored'
BY DEF FilesGrow, Stored

\* While files only grow, a missing one still holds nothing.
LEMMA FilesKept ==
    ASSUME FileInv, FilesGrow
    PROVE  FileInv'
BY DEF FilesGrow, FileInv

\* A process that does not move, while files grow that are not its own.
LEMMA UntouchedKept ==
    ASSUME TypeOK, FilesGrow, NEW q \in Proc, Untouched(q), ProcInv(q)
    PROVE  ProcInv(q)'
<1>0. Index \subseteq File
  BY DEF File
<1>1. PhaseInv(q)'
  BY <1>0 DEF ProcInv, PhaseInv, Untouched, FilesGrow, TypeOK
<1>2. ProbeInv(q)'
  BY <1>0 DEF ProcInv, ProbeInv, Untouched, FilesGrow
<1>3. KeptInv(q)'
  <2>1. session[q] = "on" => primed[q] \subseteq Stored' /\ primed[q] \cap seen[q] = {}
    BY StoredGrows DEF ProcInv, KeptInv
  <2>2. /\ Items(buf[q])' = Items(buf[q]) /\ Whole(buf[q])' = Whole(buf[q])
        /\ wfile'[q] = wfile[q]
    BY DEF Untouched, Items, Whole
  <2>3. wfile[q] # None => Good(wfile[q], buf[q])' = Good(wfile[q], buf[q])
    BY DEF Untouched, Same, Good
  <2>4. QED
    BY <2>1, <2>2, <2>3 DEF ProcInv, KeptInv, Untouched, Same
<1>4. QED
  BY <1>1, <1>2, <1>3 DEF ProcInv

\* A merge that does not move, while files grow that are not its target.
LEMMA MergeKept ==
    ASSUME MergeInv, FilesGrow, UNCHANGED merger, Same(Base)
    PROVE  MergeInv'
<1>1. Stored \subseteq Stored'
  BY StoredGrows
<1>2. Items(mbuf)' = Items(mbuf)
  BY DEF merger, Items
<1>3. Good(Base, mbuf)' = Good(Base, mbuf)
  BY DEF merger, Same, Good
<1>4. QED
  BY <1>1, <1>2, <1>3 DEF MergeInv, merger, Same

\* Steps that leave the files alone.
LEMMA NoFileGrows ==
    ASSUME UNCHANGED <<head, disk, broken, frag>>
    PROVE  FilesGrow /\ \A f : Same(f)
BY DEF FilesGrow, Same

\* A step of p: what it must show to keep the invariant.
LEMMA OneProcess ==
    ASSUME IInv, TypeOK', NEW p \in Proc, UNCHANGED merger,
           FilesGrow, Same(Base),
           \A q \in Proc \ {p} : Untouched(q),
           ProcInv(p)', Apart'
    PROVE  IInv'
<1>1. FileInv' /\ MergeInv'
  BY FilesKept, MergeKept DEF IInv
<1>2. ASSUME NEW q \in Proc PROVE ProcInv(q)'
  BY UntouchedKept DEF IInv
<1>3. QED
  BY <1>1, <1>2 DEF IInv

(***************************************************************************)
(* write_entry of p to its file f, whose buffer was b, whole or in part.   *)
(***************************************************************************)
LEMMA PutKept ==
    ASSUME TypeOK, NEW p \in Proc, NEW f \in File, NEW b \in Seq(Item), NEW k \in Key,
           Put(p, f, b, k) \/ PutFails(p, f, b, k),
           Items(b) \subseteq seen[p], disk[f] \subseteq seen[p] \cup frag[f],
           ~failed[p] => /\ seen[p] = disk[f] \cup Items(b) /\ ~broken[f]
                         /\ Whole(b) /\ (head[f] = "good" \/ (b # <<>> /\ Head(b) = Magic))
    PROVE  /\ seen'[p] \subseteq seen[p] \cup {k}
           /\ Items(buf'[p]) \subseteq seen'[p] /\ disk[f] \subseteq seen'[p] \cup frag'[f]
           /\ ~failed'[p] => /\ seen'[p] = disk[f] \cup Items(buf'[p]) /\ ~broken[f]
                             /\ Whole(buf'[p])
                             /\ head[f] = "good" \/ (buf'[p] # <<>> /\ Head(buf'[p]) = Magic)
           /\ \A g \in File \ {f} : frag'[g] = frag[g]
           /\ \A q \in Proc \ {p} : seen'[q] = seen[q] /\ buf'[q] = buf[q] /\ failed'[q] = failed[q]
<1>0. /\ seen \in [Proc -> SUBSET Key] /\ buf \in [Proc -> Seq(Item)]
      /\ frag \in [File -> SUBSET Key] /\ failed \in [Proc -> BOOLEAN]
      /\ k \in Item /\ Torn \in Item /\ k # Torn /\ {Torn} \cap Key = {} /\ {k} \cap Key = {k}
  BY DatabaseAssumption DEF TypeOK, Item
<1>1. CASE Put(p, f, b, k)
  <2>1. seen'[p] = seen[p] \cup {k} /\ buf'[p] = Append(b, k) /\ frag' = frag /\ failed' = failed
    BY <1>0, <1>1 DEF Put
  <2>2. \A q \in Proc \ {p} : seen'[q] = seen[q] /\ buf'[q] = buf[q]
    BY <1>0, <1>1 DEF Put
  <2>3. /\ Items(buf'[p]) = Items(b) \cup {k} /\ buf'[p] # <<>>
        /\ Whole(b) => Whole(buf'[p])
        /\ b # <<>> => Head(buf'[p]) = Head(b)
    BY <1>0, <2>1, ItemsAppend
  <2>4. QED
    BY <2>1, <2>2, <2>3
<1>2. CASE PutFails(p, f, b, k)
  <2>1. failed'[p] /\ \A q \in Proc \ {p} : failed'[q] = failed[q]
    BY <1>0, <1>2 DEF PutFails
  <2>2. seen' = seen /\ buf'[p] = Append(b, Torn) /\ frag[f] \subseteq frag'[f]
    BY <1>0, <1>2 DEF PutFails
  <2>3. /\ \A q \in Proc \ {p} : buf'[q] = buf[q]
        /\ \A g \in File \ {f} : frag'[g] = frag[g]
    BY <1>0, <1>2 DEF PutFails
  <2>4. Items(buf'[p]) = Items(b)
    <3>1. Items(Append(b, Torn)) = Items(b) \cup ({Torn} \cap Key)
      BY <1>0, ItemsAppend
    <3>2. QED
      BY <1>0, <2>2, <3>1
  <2>5. QED
    BY <2>1, <2>2, <2>3, <2>4
<1>3. QED
  BY <1>1, <1>2

\* Every step of a recording process keeps the inductive invariant.
LEMMA RecordInv ==
    ASSUME IInv, TypeOK', NEW p \in Proc, Record(p)
    PROVE  IInv'
<1> USE DEF files, merger, bounds
<1>0. /\ TypeOK /\ ProcInv(p) /\ Apart /\ FileInv /\ MergeInv
      /\ PhaseInv(p) /\ ProbeInv(p) /\ KeptInv(p)
  BY DEF IInv, ProcInv
<1>a. /\ Index \subseteq File /\ Base \in File /\ Base \notin Index
      /\ 0 \notin Index /\ None \notin Index /\ Index \subseteq Nat
  BY DatabaseAssumption DEF File, Base, Index, None
<1>b. ASSUME UNCHANGED <<head, disk, broken, frag, wfile>>, UNCHANGED merger, ProcInv(p)',
             \A q \in Proc \ {p} : Untouched(q)
      PROVE  IInv'
  <2>1. FilesGrow /\ Same(Base)
    BY <1>b, NoFileGrows
  <2>2. Apart'
    BY <1>0, <1>b DEF Apart
  <2>3. QED
    BY <1>b, <2>1, <2>2, OneProcess
<1>1. CASE Start(p)
  <2>1. UNCHANGED <<head, disk, broken, frag, wfile, index, writing, need, buf>> /\ UNCHANGED merger
    BY <1>1 DEF Start
  <2>2. \A q \in Proc \ {p} : Untouched(q)
    <3>1. \A q \in Proc \ {p} : failed'[q] = failed[q]
      BY <1>0, <1>1 DEF Start, TypeOK
    <3>2. QED
      BY <1>0, <1>1, <2>1, <3>1 DEF Start, Untouched, Same, TypeOK
  <2>3. ProcInv(p)'
    <3>1. /\ need[p] /\ index[p] = 0 /\ wfile[p] = None /\ buf[p] = <<>>
      BY <1>0, <1>1 DEF Start, PhaseInv
    <3>2. seen'[p] = {} /\ primed'[p] = {} /\ session'[p] = "on"
      BY <1>0, <1>1 DEF Start, TypeOK
    <3>3. PhaseInv(p)' /\ ProbeInv(p)' /\ KeptInv(p)'
      BY <1>a, <2>1, <3>1, <3>2 DEF PhaseInv, ProbeInv, KeptInv
    <3>4. QED
      BY <3>3 DEF ProcInv
  <2>4. QED
    BY <1>b, <2>1, <2>2, <2>3
<1>2. CASE Prime(p) \/ PrimeNothing(p)
  <2>1. /\ UNCHANGED <<head, disk, broken, frag, wfile, session, index, writing, need, seen, buf,
                       denied, failed>>
        /\ UNCHANGED merger
    BY <1>2 DEF Prime, PrimeNothing
  <2>2. \A q \in Proc \ {p} : Untouched(q)
    BY <1>0, <1>2, <2>1 DEF Prime, PrimeNothing, Untouched, Same, TypeOK
  <2>3. ProcInv(p)'
    <3>1. Stored' = Stored
      BY <2>1 DEF Stored
    <3>2. primed'[p] \subseteq primed[p] \cup Stored
      <4>1. CASE Prime(p)
        <5>1. NextArchive(p) \in File
          BY <1>0, <4>1, NextArchiveIn DEF Prime
        <5>2. PICK S \in SUBSET HalfWritten(NextArchive(p)) :
                 primed' = [primed EXCEPT ![p] = @ \cup disk[NextArchive(p)] \cup S]
          BY <4>1 DEF Prime
        <5>3. S \subseteq Stored
          BY <1>0, CuttingItems DEF HalfWritten, MergeInv
        <5>4. disk[NextArchive(p)] \subseteq Stored
          BY <5>1 DEF Stored
        <5>5. QED
          BY <1>0, <5>2, <5>3, <5>4 DEF TypeOK
      <4>2. CASE PrimeNothing(p)
        BY <4>2 DEF PrimeNothing
      <4>3. QED
        BY <1>2, <4>1, <4>2
    <3>3. /\ need[p] /\ index[p] = 0 /\ seen[p] = {} /\ session[p] = "on" /\ wfile[p] = None
          /\ to_prime'[p] \subseteq to_prime[p]
      BY <1>0, <1>2 DEF Prime, PrimeNothing, PhaseInv, TypeOK
    <3>4. PhaseInv(p)' /\ ProbeInv(p)' /\ KeptInv(p)'
      BY <1>0, <2>1, <3>1, <3>2, <3>3 DEF PhaseInv, ProbeInv, KeptInv
    <3>5. QED
      BY <3>4 DEF ProcInv
  <2>4. QED
    BY <1>b, <2>1, <2>2, <2>3
<1>3. CASE TryIndex(p)
  <2> DEFINE i == index[p]
  <2>1. /\ i \in Index /\ head[i] = "missing" /\ disk[i] = {} /\ ~broken[i]
        /\ wfile[p] = None /\ seen[p] = {} /\ session[p] = "on" /\ to_prime[p] = {}
        /\ writing[p] \in Key /\ writing[p] \notin primed[p] /\ i \in File
    BY <1>0, <1>3, <1>a DEF TryIndex, Creates, FileInv, PhaseInv, ProbeInv
  <2>2. disk' = disk /\ broken' = broken
    BY <1>0, <1>3, <2>1 DEF TryIndex, TypeOK
  <2>3. /\ UNCHANGED <<session, to_prime, primed, denied>> /\ UNCHANGED merger
        /\ wfile'[p] = i /\ head'[i] = "empty" /\ index'[p] = 0
        /\ \A g \in File \ {i} : head'[g] = head[g]
        /\ \A q \in Proc \ {p} : wfile'[q] = wfile[q] /\ index'[q] = index[q]
                                 /\ writing'[q] = writing[q]
    BY <1>0, <1>3, <1>a, <2>1 DEF TryIndex, TypeOK
  <2>4. ~need'[p] /\ \A q \in Proc \ {p} : need'[q] = need[q]
    BY <1>0, <1>3 DEF TryIndex, TypeOK
  <2>5. /\ seen'[p] \subseteq {writing[p]}
        /\ Items(buf'[p]) \subseteq seen'[p] /\ disk[i] \subseteq seen'[p] \cup frag'[i]
        /\ ~failed'[p] => /\ seen'[p] = disk[i] \cup Items(buf'[p]) /\ ~broken[i]
                          /\ Whole(buf'[p])
                          /\ head[i] = "good" \/ (buf'[p] # <<>> /\ Head(buf'[p]) = Magic)
        /\ \A g \in File \ {i} : frag'[g] = frag[g]
        /\ \A q \in Proc \ {p} : seen'[q] = seen[q] /\ buf'[q] = buf[q] /\ failed'[q] = failed[q]
    <3>1. Put(p, i, <<Magic>>, writing[p]) \/ PutFails(p, i, <<Magic>>, writing[p])
      BY <1>3 DEF TryIndex
    <3>2. /\ Items(<<Magic>>) = {} /\ Whole(<<Magic>>) /\ <<Magic>> \in Seq(Item)
          /\ <<Magic>> # <<>> /\ Head(<<Magic>>) = Magic
      BY ItemsOf
    <3>3. /\ Items(<<Magic>>) \subseteq seen[p] /\ disk[i] \subseteq seen[p] \cup frag[i]
          /\ ~failed[p] => /\ seen[p] = disk[i] \cup Items(<<Magic>>) /\ ~broken[i]
                           /\ Whole(<<Magic>>)
                           /\ head[i] = "good" \/ (<<Magic>> # <<>> /\ Head(<<Magic>>) = Magic)
      BY <2>1, <3>2
    <3>4. i \in File /\ writing[p] \in Key /\ TypeOK /\ seen[p] \cup {writing[p]} = {writing[p]}
      BY <1>0, <2>1
    <3> HIDE DEF i
    <3>5. QED
      BY <3>1, <3>2, <3>3, <3>4, PutKept
  <2>6. FilesGrow /\ Same(Base)
    BY <1>a, <2>1, <2>2, <2>3, <2>5 DEF FilesGrow, Same
  <2>7. \A q \in Proc : wfile[q] # i
    BY <2>1, <1>a DEF IInv, ProcInv, PhaseInv
  <2>8. \A q \in Proc \ {p} : Untouched(q)
    <3>1. \A q \in Proc \ {p} : wfile[q] # None => wfile[q] \in File \ {i}
      BY <1>0, <1>a, <2>7 DEF TypeOK
    <3>2. \A q \in Proc \ {p} : wfile[q] # None => Same(wfile[q])
      BY <2>2, <2>3, <2>5, <3>1 DEF Same
    <3>3. QED
      BY <2>3, <2>4, <2>5, <3>2 DEF Untouched
  <2>9. ProcInv(p)'
    <3>1. Stored' = Stored
      BY <2>2 DEF Stored
    <3>2. PhaseInv(p)'
      BY <1>a, <2>1, <2>3, <2>4 DEF PhaseInv
    <3>3. ProbeInv(p)'
      <4>1. \A j \in Index : ~(j < 0)
        BY DatabaseAssumption DEF Index
      <4>2. index'[p] = 0 /\ wfile'[p] # None
        BY <1>a, <2>1, <2>3
      <4>3. QED
        BY <4>1, <4>2 DEF ProbeInv
    <3>4. KeptInv(p)'
      <4>1. Items(buf[p])' = Items(buf'[p]) /\ Whole(buf[p])' = Whole(buf'[p])
        BY DEF Items, Whole
      <4>2. ~failed'[p] => Good(wfile[p], buf[p])'
        BY <2>1, <2>3, <2>5 DEF Good
      <4>3. primed[p] \subseteq Stored /\ primed[p] \cap seen'[p] = {}
        BY <1>0, <2>1, <2>5 DEF KeptInv
      <4>4. QED
        BY <2>2, <2>3, <2>5, <3>1, <4>1, <4>2, <4>3 DEF KeptInv
    <3>5. QED
      BY <3>2, <3>3, <3>4 DEF ProcInv
  <2>10. Apart'
    BY <1>0, <2>3, <2>7 DEF Apart
  <2>11. QED
    BY <2>3, <2>6, <2>8, <2>9, <2>10, OneProcess
<1>4. CASE TryNextIndex(p)
  <2> DEFINE i == index[p]
  <2>1. /\ i \in Index /\ i \in File /\ need[p] /\ to_prime[p] = {} /\ session[p] = "on"
        /\ wfile[p] = None /\ seen[p] = {} /\ buf[p] = <<>> /\ writing[p] \in Key
    BY <1>0, <1>4, <1>a DEF TryNextIndex, PhaseInv
  <2>2. /\ UNCHANGED <<disk, broken, frag, session, to_prime, primed, wfile, seen, buf, failed>>
        /\ UNCHANGED merger
    BY <1>4 DEF TryNextIndex
  <2>3. /\ \A g \in File \ {i} : head'[g] = head[g]
        /\ head'[i] = head[i] \/ head[i] = "missing"
        /\ head'[i] = "missing" => head[i] = "missing"
        /\ denied[p] \subseteq denied'[p]
        /\ head'[i] # "missing" \/ i \in denied'[p]
        /\ \A q \in Proc \ {p} : denied'[q] = denied[q]
    <3>1. CASE IndexTaken(p)
      BY <2>1, <3>1 DEF IndexTaken, Creates
    <3>2. CASE IndexDenied(p)
      <4>1. head[i] = "missing" /\ \A g \in File \ {i} : head'[g] = head[g]
        BY <1>0, <2>1, <3>2 DEF IndexDenied, Creates, TypeOK
      <4>2. denied'[p] = denied[p] \cup {i} /\ \A q \in Proc \ {p} : denied'[q] = denied[q]
        BY <1>0, <3>2 DEF IndexDenied, TypeOK
      <4>3. QED
        BY <4>1, <4>2
    <3>3. QED
      BY <1>4, <3>1, <3>2 DEF TryNextIndex
  <2>4. FilesGrow /\ Same(Base)
    BY <1>0, <1>a, <2>1, <2>2, <2>3 DEF FilesGrow, Same
  <2>5. \A q \in Proc \ {p} : Untouched(q)
    <3>1. ASSUME NEW q \in Proc \ {p}, wfile[q] # None PROVE Same(wfile[q])
      <4>1. wfile[q] \in File /\ head[wfile[q]] # "missing"
        BY <1>0, <1>a, <3>1 DEF IInv, ProcInv, PhaseInv, TypeOK
      <4>2. QED
        BY <2>2, <2>3, <4>1 DEF Same
    <3>2. \A q \in Proc \ {p} : need'[q] = need[q]
      BY <1>0, <1>4, Zenon DEF TryNextIndex, TypeOK
    <3>3. \A q \in Proc \ {p} : index'[q] = index[q] /\ writing'[q] = writing[q]
      BY <1>0, <1>4 DEF TryNextIndex, TypeOK
    <3>4. QED
      BY <2>2, <2>3, <3>1, <3>2, <3>3 DEF Untouched
  <2>6. ASSUME NEW j \in Index, j <= i PROVE head'[j] # "missing" \/ j \in denied'[p]
    <3>1. j < i \/ j = i
      BY <2>1, <2>6, DatabaseAssumption DEF Index
    <3>2. CASE j < i
      BY <1>0, <1>a, <2>3, <3>2 DEF ProbeInv
    <3>3. QED
      BY <2>3, <3>1, <3>2
  <2>7. Stored' = Stored
    BY <2>2 DEF Stored
  <2>8. need'[p] = (i < NoMoreIndices)
    BY <1>0, <1>4, Zenon DEF TryNextIndex, TypeOK
  <2>9. ProcInv(p)'
    <3>1. CASE i < LastIndex
      <4>1. index'[p] = i + 1 /\ writing'[p] = writing[p]
        BY <1>0, <1>4, <3>1 DEF TryNextIndex, TypeOK, NoMoreIndices
      <4>2. need'[p]
        BY <2>8, <3>1 DEF NoMoreIndices
      <4>3. \A j \in Index : j < i + 1 => j <= i
        BY <2>1, DatabaseAssumption DEF Index
      <4>4. PhaseInv(p)'
        BY <2>1, <2>2, <4>1, <4>2 DEF PhaseInv
      <4>5. ProbeInv(p)'
        BY <1>0, <1>a, <2>1, <2>2, <2>6, <4>1, <4>2, <4>3 DEF ProbeInv
      <4>6. KeptInv(p)'
        BY <1>0, <2>1, <2>2, <2>7 DEF KeptInv
      <4>7. QED
        BY <4>4, <4>5, <4>6 DEF ProcInv
    <3>2. CASE i = LastIndex
      <4>1. index'[p] = 0
        BY <1>0, <1>4, <3>2, DatabaseAssumption DEF TryNextIndex, TypeOK, NoMoreIndices
      <4>2. ~need'[p]
        <5>1. ~(i < NoMoreIndices)
          BY <3>2, DatabaseAssumption DEF NoMoreIndices
        <5>2. QED
          BY <2>8, <5>1
      <4>3. \A j \in Index : j <= i
        BY <3>2, DatabaseAssumption DEF Index
      <4>4. PhaseInv(p)'
        BY <2>1, <2>2, <4>1 DEF PhaseInv
      <4>5. ProbeInv(p)'
        <5>1. \A j \in Index : ~(j < 0)
          BY DatabaseAssumption DEF Index
        <5>2. \A j \in Index : head'[j] # "missing" \/ j \in denied'[p]
          BY <2>6, <4>3
        <5>3. QED
          BY <4>1, <5>1, <5>2 DEF ProbeInv
      <4>6. KeptInv(p)'
        BY <1>0, <2>1, <2>2, <2>7 DEF KeptInv
      <4>7. QED
        BY <4>4, <4>5, <4>6 DEF ProcInv
    <3>3. QED
      BY <2>1, <3>1, <3>2, DatabaseAssumption DEF Index
  <2>10. Apart'
    BY <1>0, <2>2 DEF Apart
  <2>11. QED
    BY <2>2, <2>4, <2>5, <2>9, <2>10, OneProcess
<1>5. CASE Drain(p)
  <2> DEFINE x == Head(buf[p])
             f == wfile[p]
  <2>1. /\ buf[p] \in Seq(Item) /\ buf[p] # <<>> /\ session[p] = "on"
        /\ f \in Index /\ f \in File /\ f # None /\ f # Base /\ head[f] # "missing"
    <3>1. buf[p] \in Seq(Item) /\ buf[p] # <<>> /\ session[p] = "on"
      BY <1>0, <1>5 DEF Drain, TypeOK, Item
    <3>2. f # None
      BY <1>0, <3>1 DEF PhaseInv
    <3>3. f \in Index /\ head[f] # "missing"
      BY <1>0, <3>2 DEF TypeOK, PhaseInv
    <3>4. QED
      BY <1>a, <3>1, <3>2, <3>3
  <2>2. /\ x \in Item /\ Items(buf[p]) = Items(Tail(buf[p])) \cup ({x} \cap Key)
        /\ Whole(buf[p]) => x # Torn /\ Whole(Tail(buf[p]))
    BY <2>1, ItemsTail
  <2>3. Written(f, x)
    BY <1>5 DEF Drain
  <2>4. /\ \A g \in File \ {f} : disk'[g] = disk[g] /\ head'[g] = head[g]
        /\ head'[f] # "missing" /\ disk[f] \subseteq disk'[f]
        /\ disk'[f] \subseteq disk[f] \cup ({x} \cap Key) \cup frag[f]
        /\ ~broken[f] /\ (head[f] = "good" \/ x = Magic)
              => head'[f] = "good" /\ disk'[f] = disk[f] \cup ({x} \cap Key)
    <3> HIDE DEF x, f
    <3>1. QED
      BY <1>0, <2>1, <2>2, <2>3, WrittenFile
  <2>5. /\ UNCHANGED <<frag, session, to_prime, primed, index, writing, need, wfile, seen, denied, failed>>
        /\ UNCHANGED merger
    BY <1>5 DEF Drain
  <2>6. buf'[p] = Tail(buf[p]) /\ \A q \in Proc \ {p} : buf'[q] = buf[q]
    BY <1>0, <1>5 DEF Drain, TypeOK
  <2>7. (\A g \in File \ {f} : broken'[g] = broken[g]) /\ (x # Torn => broken' = broken)
    <3>1. broken \in [File -> BOOLEAN]
      BY <1>0 DEF TypeOK
    <3>2. broken' = IF x = Torn THEN [broken EXCEPT ![f] = TRUE] ELSE broken
      BY <1>5 DEF Drain
    <3>3. QED
      BY <3>1, <3>2
  <2>8. FilesGrow /\ Same(Base)
    BY <1>a, <2>1, <2>4, <2>5, <2>7 DEF FilesGrow, Same
  <2>9. \A q \in Proc \ {p} : Untouched(q)
    <3>1. ASSUME NEW q \in Proc \ {p}, wfile[q] # None PROVE wfile[q] \in File \ {f}
      BY <1>0, <1>a, <2>1, <3>1 DEF Apart, TypeOK
    <3>2. \A q \in Proc \ {p} : wfile[q] # None => Same(wfile[q])
      BY <2>4, <2>5, <2>7, <3>1 DEF Same
    <3>3. QED
      BY <2>5, <2>6, <3>2 DEF Untouched
  <2>10. ProcInv(p)'
    <3>1. PhaseInv(p)'
      BY <1>0, <2>1, <2>4, <2>5 DEF PhaseInv
    <3>2. ProbeInv(p)'
      BY <1>0, <1>a, <2>5, <2>8 DEF ProbeInv, FilesGrow
    <3>3. Stored \subseteq Stored'
      BY <2>8, StoredGrows
    <3>4. /\ Items(buf'[p]) \subseteq seen[p]
          /\ disk'[f] \subseteq seen[p] \cup frag[f]
      BY <1>0, <2>1, <2>2, <2>4, <2>6 DEF KeptInv
    <3>5. ASSUME ~failed[p]
          PROVE  /\ seen[p] = disk'[f] \cup Items(buf'[p])
                 /\ ~broken'[f] /\ Whole(buf'[p]) /\ head'[f] = "good"
      <4>1. /\ seen[p] = disk[f] \cup Items(buf[p]) /\ ~broken[f] /\ Whole(buf[p])
            /\ head[f] = "good" \/ x = Magic
        BY <1>0, <2>1, <3>5 DEF KeptInv, Good
      <4>2. x # Torn /\ Whole(buf'[p]) /\ ~broken'[f]
        BY <2>2, <2>6, <2>7, <4>1
      <4>3. head'[f] = "good" /\ disk'[f] = disk[f] \cup ({x} \cap Key)
        BY <2>4, <4>1
      <4>4. QED
        BY <2>2, <2>6, <4>1, <4>2, <4>3
    <3>6. Items(buf[p])' = Items(buf'[p]) /\ Whole(buf[p])' = Whole(buf'[p])
      BY DEF Items, Whole
    <3>7. KeptInv(p)'
      BY <1>0, <2>1, <2>5, <3>3, <3>4, <3>5, <3>6 DEF KeptInv, Good
    <3>8. QED
      BY <3>1, <3>2, <3>7 DEF ProcInv
  <2>11. Apart'
    BY <1>0, <2>5 DEF Apart
  <2>12. QED
    BY <2>5, <2>8, <2>9, <2>10, <2>11, OneProcess
<1>6. CASE DrainFails(p)
  <2> DEFINE f == wfile[p]
  <2>1. f \in Index /\ f \in File /\ f # None /\ f # Base /\ session[p] = "on"
    BY <1>0, <1>6, <1>a DEF DrainFails, TypeOK, PhaseInv
  <2>2. /\ UNCHANGED <<head, disk, broken, session, to_prime, primed, index, writing, need, wfile,
                       seen, denied>>
        /\ UNCHANGED merger
    BY <1>6 DEF DrainFails
  <2>3. failed'[p] /\ \A q \in Proc \ {p} : failed'[q] = failed[q]
    BY <1>0, <1>6 DEF DrainFails, TypeOK
  <2>4. /\ buf'[p] = <<Torn>> /\ \A q \in Proc \ {p} : buf'[q] = buf[q]
        /\ frag[f] \subseteq frag'[f] /\ \A g \in File \ {f} : frag'[g] = frag[g]
    BY <1>0, <1>6, <2>1 DEF DrainFails, TypeOK
  <2>5. FilesGrow /\ Same(Base)
    BY <1>a, <2>1, <2>2, <2>4 DEF FilesGrow, Same
  <2>6. \A q \in Proc \ {p} : Untouched(q)
    <3>1. ASSUME NEW q \in Proc \ {p}, wfile[q] # None PROVE wfile[q] \in File \ {f}
      BY <1>0, <1>a, <2>1, <3>1 DEF Apart, TypeOK
    <3>2. \A q \in Proc \ {p} : wfile[q] # None => Same(wfile[q])
      BY <2>2, <2>4, <3>1 DEF Same
    <3>3. QED
      BY <2>2, <2>3, <2>4, <3>2 DEF Untouched
  <2>7. ProcInv(p)'
    <3>1. Items(buf[p])' = {}
      BY <2>4, ItemsOf DEF Items
    <3>2. PhaseInv(p)' /\ ProbeInv(p)'
      BY <1>0, <2>1, <2>2 DEF PhaseInv, ProbeInv
    <3>3. KeptInv(p)'
      BY <1>0, <2>1, <2>2, <2>3, <2>4, <3>1 DEF KeptInv, Stored
    <3>4. QED
      BY <3>2, <3>3 DEF ProcInv
  <2>8. Apart'
    BY <1>0, <2>2 DEF Apart
  <2>9. QED
    BY <2>2, <2>5, <2>6, <2>7, <2>8, OneProcess
<1>7. CASE Close(p)
  <2>1. UNCHANGED <<head, disk, broken, frag, to_prime, primed, index, writing, seen, denied, failed>>
        /\ UNCHANGED merger
    BY <1>7 DEF Close
  <2>2. \A q \in Proc \ {p} : Untouched(q)
    <3>1. \A q \in Proc \ {p} : need'[q] = need[q]
      BY <1>0, <1>7 DEF Close, TypeOK
    <3>2. QED
      BY <1>0, <1>7, <2>1, <3>1 DEF Close, Untouched, Same, TypeOK
  <2>3. ProcInv(p)'
    <3>1. need'[p]
      BY <1>0, <1>7 DEF Close, TypeOK
    <3>2. /\ session'[p] = "closed" /\ index'[p] = 0 /\ to_prime'[p] = {}
          /\ wfile'[p] = None /\ buf'[p] = <<>>
      BY <1>0, <1>7 DEF Close, Prepared, TypeOK
    <3>3. \A j \in Index : ~(j < 0)
      BY DatabaseAssumption DEF Index
    <3>4. QED
      BY <3>1, <3>2, <3>3 DEF ProcInv, PhaseInv, ProbeInv, KeptInv
  <2>4. Apart'
    BY <1>0, <1>7 DEF Close, Apart, TypeOK
  <2>5. QED
    BY <2>1, <2>2, <2>3, <2>4, NoFileGrows, OneProcess
<1>8. CASE KillProcess(p)
  <2>1. UNCHANGED <<disk, broken, frag, denied, failed>> /\ UNCHANGED merger
    BY <1>8 DEF KillProcess
  <2>2. /\ \A g \in File : g # wfile[p] => head'[g] = head[g]
        /\ \A g \in File : head'[g] = "missing" <=> head[g] = "missing"
    <3>1. CASE head' = head
      BY <3>1
    <3>2. CASE /\ head[wfile[p]] = "empty"
               /\ \E h \in {"empty", "torn"} : head' = [head EXCEPT ![wfile[p]] = h]
      BY <1>0, <3>2 DEF TypeOK
    <3>3. QED
      BY <1>8, <3>1, <3>2 DEF KillProcess, TornHead
  <2>3. wfile[p] # Base
    BY <1>0, <1>a DEF TypeOK, None, Base
  <2>4. FilesGrow /\ Same(Base)
    BY <1>a, <2>1, <2>2, <2>3 DEF FilesGrow, Same
  <2>5. \A q \in Proc \ {p} : Untouched(q)
    <3>1. ASSUME NEW q \in Proc \ {p}, wfile[q] # None PROVE wfile[q] \in File /\ wfile[q] # wfile[p]
      BY <1>0, <1>a, <3>1 DEF Apart, TypeOK
    <3>2. \A q \in Proc \ {p} : wfile[q] # None => Same(wfile[q])
      BY <2>1, <2>2, <3>1 DEF Same
    <3>3. \A q \in Proc \ {p} : need'[q] = need[q]
      BY <1>0, <1>8 DEF KillProcess, TypeOK
    <3>4. QED
      BY <1>0, <1>8, <2>1, <3>2, <3>3 DEF KillProcess, Untouched, TypeOK
  <2>6. ProcInv(p)'
    <3>1. need'[p]
      BY <1>0, <1>8 DEF KillProcess, TypeOK
    <3>2. /\ session'[p] = "killed" /\ index'[p] = 0 /\ to_prime'[p] = {}
          /\ wfile'[p] = None /\ buf'[p] = <<>>
      BY <1>0, <1>8 DEF KillProcess, TypeOK
    <3>3. \A j \in Index : ~(j < 0)
      BY DatabaseAssumption DEF Index
    <3>4. QED
      BY <3>1, <3>2, <3>3 DEF ProcInv, PhaseInv, ProbeInv, KeptInv
  <2>7. Apart'
    BY <1>0, <1>8 DEF KillProcess, Apart, TypeOK
  <2>8. QED
    BY <2>1, <2>4, <2>5, <2>6, <2>7, OneProcess
<1>9. ASSUME NEW k \in Key, WriteEntry(p, k) PROVE IInv'
  <2> DEFINE f == wfile[p]
  <2>1. /\ f # None /\ f \in Index /\ f \in File /\ f # Base /\ session[p] = "on"
        /\ buf[p] \in Seq(Item) /\ k \notin primed[p]
    BY <1>0, <1>9, <1>a DEF WriteEntry, Prepared, HasEntry, TypeOK, Item
  <2>2. /\ UNCHANGED <<head, disk, broken, session, to_prime, primed, index, writing, need, wfile, denied>>
        /\ UNCHANGED merger
    BY <1>9 DEF WriteEntry
  <2>3. /\ seen'[p] \subseteq seen[p] \cup {k}
        /\ Items(buf'[p]) \subseteq seen'[p] /\ disk[f] \subseteq seen'[p] \cup frag'[f]
        /\ ~failed'[p] => /\ seen'[p] = disk[f] \cup Items(buf'[p]) /\ ~broken[f]
                          /\ Whole(buf'[p])
                          /\ head[f] = "good" \/ (buf'[p] # <<>> /\ Head(buf'[p]) = Magic)
        /\ \A g \in File \ {f} : frag'[g] = frag[g]
        /\ \A q \in Proc \ {p} : seen'[q] = seen[q] /\ buf'[q] = buf[q] /\ failed'[q] = failed[q]
    <3>1. Put(p, f, buf[p], k) \/ PutFails(p, f, buf[p], k)
      BY <1>9 DEF WriteEntry
    <3>2. /\ Items(buf[p]) \subseteq seen[p] /\ disk[f] \subseteq seen[p] \cup frag[f]
          /\ ~failed[p] => /\ seen[p] = disk[f] \cup Items(buf[p]) /\ ~broken[f]
                           /\ Whole(buf[p])
                           /\ head[f] = "good" \/ (buf[p] # <<>> /\ Head(buf[p]) = Magic)
      BY <1>0, <2>1 DEF KeptInv, Good
    <3>3. TypeOK /\ f \in File /\ buf[p] \in Seq(Item)
      BY <1>0, <2>1
    <3> HIDE DEF f
    <3>4. QED
      BY <3>1, <3>2, <3>3, PutKept
  <2>4. FilesGrow /\ Same(Base)
    BY <1>a, <2>1, <2>2, <2>3 DEF FilesGrow, Same
  <2>5. \A q \in Proc \ {p} : Untouched(q)
    <3>1. ASSUME NEW q \in Proc \ {p}, wfile[q] # None PROVE wfile[q] \in File \ {f}
      BY <1>0, <1>a, <2>1, <3>1 DEF Apart, TypeOK
    <3>2. \A q \in Proc \ {p} : wfile[q] # None => Same(wfile[q])
      BY <2>2, <2>3, <3>1 DEF Same
    <3>3. QED
      BY <2>2, <2>3, <3>2 DEF Untouched
  <2>6. ProcInv(p)'
    <3>1. PhaseInv(p)' /\ ProbeInv(p)'
      BY <1>0, <2>1, <2>2 DEF PhaseInv, ProbeInv
    <3>2. primed[p] \subseteq Stored' /\ primed[p] \cap seen'[p] = {}
      <4>1. Stored' = Stored
        BY <2>2 DEF Stored
      <4>2. QED
        BY <1>0, <2>1, <2>3, <4>1 DEF KeptInv
    <3>3. Items(buf[p])' = Items(buf'[p]) /\ Whole(buf[p])' = Whole(buf'[p])
      BY DEF Items, Whole
    <3>4. ~failed'[p] => Good(wfile[p], buf[p])'
      BY <2>2, <2>3 DEF Good
    <3>5. KeptInv(p)'
      BY <2>2, <2>3, <3>2, <3>3, <3>4 DEF KeptInv
    <3>6. QED
      BY <3>1, <3>5 DEF ProcInv
  <2>7. Apart'
    BY <1>0, <2>2 DEF Apart
  <2>8. QED
    BY <2>2, <2>4, <2>5, <2>6, <2>7, OneProcess
<1>10. ASSUME NEW k \in Key, WriteFirstEntry(p, k) PROVE IInv'
  <2>1. /\ UNCHANGED <<head, disk, broken, frag, wfile, session, to_prime, primed, need, seen, buf,
                       denied, failed>>
        /\ UNCHANGED merger
    BY <1>10 DEF WriteFirstEntry
  <2>2. \A q \in Proc \ {p} : Untouched(q)
    BY <1>0, <1>10, <2>1 DEF WriteFirstEntry, Untouched, Same, TypeOK
  <2>3. ProcInv(p)'
    <3>1. /\ index'[p] = 1 /\ writing'[p] = k /\ k \notin primed[p]
          /\ need[p] /\ session[p] = "on" /\ to_prime[p] = {} /\ wfile[p] = None
      BY <1>0, <1>10 DEF WriteFirstEntry, HasEntry, Prepared, PhaseInv, TypeOK
    <3>2. \A i \in Index : ~(i < 1)
      BY DatabaseAssumption DEF Index
    <3>3. PhaseInv(p)' /\ ProbeInv(p)' /\ KeptInv(p)'
      BY <1>0, <2>1, <3>1, <3>2 DEF PhaseInv, ProbeInv, KeptInv, Stored
    <3>4. QED
      BY <3>3 DEF ProcInv
  <2>4. QED
    BY <1>b, <2>1, <2>2, <2>3
<1>11. QED
  BY <1>1, <1>2, <1>3, <1>4, <1>5, <1>6, <1>7, <1>8, <1>9, <1>10 DEF Record

(***************************************************************************)
(* A step of the merge: what it must show to keep the invariant.  The      *)
(* processes' files are not its target.                                    *)
(***************************************************************************)
LEMMA OneMerge ==
    ASSUME IInv, TypeOK', UNCHANGED procs, FilesGrow, MergeInv',
           \A f \in Index : Same(f)
    PROVE  IInv'
<1> USE DEF procs
<1>1. FileInv'
  BY FilesKept DEF IInv
<1>2. ASSUME NEW q \in Proc PROVE ProcInv(q)'
  <2>1. Untouched(q)
    BY DEF IInv, Untouched, TypeOK
  <2>2. QED
    BY <2>1, UntouchedKept DEF IInv
<1>3. Apart'
  BY DEF IInv, Apart
<1>4. QED
  BY <1>1, <1>2, <1>3 DEF IInv

\* A write cut short in the target of a merge that does not promise anything.
LEMMA CutKept ==
    ASSUME IInv, TypeOK', UNCHANGED procs, NEW S \in SUBSET Key, CutTarget(S), S \subseteq Stored,
           merge # "none", hashes' \subseteq hashes, merge' # "run",
           result' = "true" => dropped'
    PROVE  IInv' /\ Stored' = Stored
<1>0. TypeOK /\ MergeInv
  BY DEF IInv
<1>a. Index \subseteq File /\ Base \in File /\ Base \notin Index
  BY DatabaseAssumption DEF File, Base, Index
<1>1. /\ broken' = broken /\ mbuf' = <<>>
      /\ \A g \in File \ {Base} : disk'[g] = disk[g] /\ head'[g] = head[g] /\ frag'[g] = frag[g]
      /\ disk[Base] \subseteq disk'[Base] /\ disk'[Base] \subseteq disk[Base] \cup S
      /\ frag'[Base] = frag[Base] \cup S
      /\ head[Base] # "missing" => head'[Base] # "missing"
  BY <1>0, CutFiles
<1>2. head[Base] # "missing"
  BY <1>0 DEF MergeInv
<1>3. FilesGrow
  BY <1>1, <1>2 DEF FilesGrow
<1>4. Stored' = Stored
  <2>1. Stored \subseteq Stored'
    BY <1>3, StoredGrows
  <2>2. ASSUME NEW y \in Stored' PROVE y \in Stored
    <3>1. PICK g \in File : y \in disk'[g]
      BY DEF Stored
    <3>2. y \in disk[g] \/ y \in S
      BY <1>1, <3>1
    <3>3. QED
      BY <3>2 DEF Stored
  <2>3. QED
    BY <2>1, <2>2
<1>5. Items(mbuf)' = {}
  BY <1>1, ItemsOf DEF Items
<1>6. MergeInv'
  BY <1>0, <1>1, <1>2, <1>4, <1>5 DEF MergeInv
<1>7. \A f \in Index : Same(f)
  BY <1>1, <1>a DEF Same
<1>8. QED
  BY <1>3, <1>4, <1>6, <1>7, OneMerge

\* Every step of merge_concurrent_databases keeps the inductive invariant.
LEMMA MergeStepInv ==
    ASSUME IInv, TypeOK', Merge
    PROVE  IInv'
<1> USE DEF files, bounds
<1>0. TypeOK /\ FileInv /\ MergeInv
  BY DEF IInv
<1>a. Index \subseteq File /\ Base \in File /\ Base \notin Index
  BY DatabaseAssumption DEF File, Base, Index
<1>b. ASSUME UNCHANGED <<head, disk, tail, broken, frag>>, UNCHANGED procs, MergeInv' PROVE IInv'
  BY <1>b, NoFileGrows, OneMerge
<1>c. ASSUME disk' = disk PROVE Stored' = Stored
  BY <1>c DEF Stored
<1>d. ASSUME UNCHANGED <<head, disk, broken, frag, mbuf>>
      PROVE  Items(mbuf)' = Items(mbuf) /\ Good(Base, mbuf)' = Good(Base, mbuf)
  BY <1>d DEF Items, Good
<1>1. ASSUME NEW S \in SUBSET Index, MergeBegin(S) PROVE IInv'
  <2>1. disk' = disk /\ frag' = frag /\ UNCHANGED procs
    BY <1>1 DEF MergeBegin
  <2>2. /\ \A g \in File \ {Base} : head'[g] = head[g]
        /\ head'[Base] # "missing" /\ (head[Base] = "good" => head'[Base] = "good")
    BY <1>0, <1>1, <1>a DEF MergeBegin, Opens, TypeOK
  <2>3. \A g \in File \ {Base} : broken'[g] = broken[g]
    <3>1. broken \in [File -> BOOLEAN]
      BY <1>0 DEF TypeOK
    <3>2. broken' = IF tail = "header" THEN [broken EXCEPT ![Base] = TRUE] ELSE broken
      BY <1>1 DEF MergeBegin
    <3>3. QED
      BY <3>1, <3>2
  <2>4. /\ merge' = "run" /\ result' = "none" /\ hashes' = {} /\ listed' = {}
        /\ mseen' = disk[Base]
    BY <1>1 DEF MergeBegin, MergeOpens
  <2>5. mbuf' = IF head[Base] = "good" THEN <<>> ELSE <<Magic>>
    BY <1>1 DEF MergeBegin, Opens
  <2>6. Items(mbuf)' = {} /\ Good(Base, mbuf)'
    <3>1. CASE head[Base] = "good"
      BY <2>2, <2>5, <3>1, ItemsOf DEF Items, Good
    <3>2. CASE head[Base] # "good"
      <4>1. mbuf' = <<Magic>>
        BY <2>5, <3>2
      <4>2. <<Magic>> # <<>> /\ Head(<<Magic>>) = Magic
        OBVIOUS
      <4>3. QED
        BY <4>1, <4>2, ItemsOf DEF Items, Good
    <3>3. QED
      BY <3>1, <3>2
  <2>7. MergeInv'
    BY <1>0, <1>c, <2>1, <2>2, <2>4, <2>6 DEF MergeInv
  <2>8. FilesGrow /\ \A f \in Index : Same(f)
    BY <1>a, <2>1, <2>2, <2>3 DEF FilesGrow, Same
  <2>9. QED
    BY <2>1, <2>7, <2>8, OneMerge
<1>2. CASE MergeRefused
  <2>1. UNCHANGED <<head, disk, tail, broken, frag>> /\ UNCHANGED procs
        /\ UNCHANGED <<merge, hashes, mseen, mbuf, listed, dropped>> /\ result' = "false" /\ merge = "none"
    BY <1>2 DEF MergeRefused
  <2>2. MergeInv'
    BY <1>0, <1>c, <1>d, <2>1 DEF MergeInv
  <2>3. QED
    BY <1>b, <2>1, <2>2
<1>3. CASE MergeSource
  <2>1. NextSource \in Index
    BY <1>0, <1>a, <1>3, SmallestFile DEF MergeSource, NextSource, TypeOK
  <2>2. disk[NextSource] \subseteq Stored
    BY <1>a, <2>1 DEF Stored
  <2>3. /\ UNCHANGED <<head, disk, tail, broken, frag>> /\ UNCHANGED procs
        /\ UNCHANGED <<merge, result, mseen, mbuf, dropped>> /\ merge = "run"
        /\ hashes' = disk[NextSource] /\ listed' = listed \cup disk[NextSource] /\ hashes = {}
    BY <1>3 DEF MergeSource
  <2>4. MergeInv'
    BY <1>0, <1>c, <1>d, <2>2, <2>3 DEF MergeInv
  <2>5. QED
    BY <1>b, <2>3, <2>4
<1>4. CASE MergeStops \/ MergeEnds
  <2>1. /\ UNCHANGED <<head, disk, tail, broken, frag>> /\ UNCHANGED procs
        /\ UNCHANGED <<mseen, mbuf, listed, dropped>> /\ merge = "run" /\ merge' = "return"
        /\ hashes' = {} /\ (result' = "true" => hashes = {})
    BY <1>4 DEF MergeStops, MergeEnds, MergeReturns, MergeFails
  <2>2. MergeInv'
    BY <1>0, <1>c, <1>d, <2>1 DEF MergeInv
  <2>3. QED
    BY <1>b, <2>1, <2>2
<1>5. ASSUME NEW k \in Key, MergeEntry(k) PROVE IInv'
  <2>1. /\ UNCHANGED <<head, disk, tail, broken, frag>> /\ UNCHANGED procs
        /\ UNCHANGED <<merge, result, listed, dropped>>
        /\ merge = "run" /\ k \in hashes /\ hashes' = hashes \ {k}
        /\ mseen' = mseen \cup {k}
        /\ mbuf' = IF k \in mseen THEN mbuf ELSE Append(mbuf, k)
    BY <1>5 DEF MergeEntry
  <2>2. /\ Items(Append(mbuf, k)) = Items(mbuf) \cup {k} /\ Append(mbuf, k) # <<>>
        /\ mbuf # <<>> => Head(Append(mbuf, k)) = Head(mbuf)
    <3>1. mbuf \in Seq(Item) /\ k \in Item /\ {k} \cap Key = {k}
      BY <1>0 DEF TypeOK, Item
    <3>2. QED
      BY <3>1, ItemsAppend
  <2>3. /\ Items(mbuf') \subseteq Items(mbuf) \cup {k} /\ Items(mbuf) \subseteq Items(mbuf')
        /\ k \in mseen \/ k \in Items(mbuf')
    BY <2>1, <2>2
  <2>4. Items(mbuf)' = Items(mbuf')
    BY DEF Items
  <2>5. Good(Base, mbuf) => Good(Base, mbuf)'
    BY <2>1, <2>2 DEF Good
  <2>6. k \in Stored
    BY <1>0, <2>1 DEF MergeInv
  <2>7. MergeInv'
    BY <1>0, <1>c, <2>1, <2>3, <2>4, <2>5, <2>6 DEF MergeInv
  <2>8. QED
    BY <1>b, <2>1, <2>7
<1>6. CASE MergeDrain
  <2> DEFINE x == Head(mbuf)
  <2>1. /\ UNCHANGED procs /\ UNCHANGED <<broken, frag, merge, result, hashes, mseen, listed, dropped>>
        /\ mbuf' = Tail(mbuf) /\ mbuf # <<>> /\ merge # "none" /\ Written(Base, x)
    BY <1>6 DEF MergeDrain
  <2>2. x \in Item /\ Items(mbuf) = Items(Tail(mbuf)) \cup ({x} \cap Key)
    <3>1. mbuf \in Seq(Item)
      BY <1>0 DEF TypeOK, Item
    <3>2. QED
      BY <2>1, <3>1, ItemsTail
  <2>3. head[Base] # "missing"
    BY <1>0, <2>1 DEF MergeInv
  <2>4. /\ \A g \in File \ {Base} : disk'[g] = disk[g] /\ head'[g] = head[g]
        /\ head'[Base] # "missing" /\ disk[Base] \subseteq disk'[Base]
        /\ disk'[Base] \subseteq disk[Base] \cup ({x} \cap Key) \cup frag[Base]
        /\ ~broken[Base] /\ (head[Base] = "good" \/ x = Magic)
              => head'[Base] = "good" /\ disk'[Base] = disk[Base] \cup ({x} \cap Key)
    <3> HIDE DEF x
    <3>1. QED
      BY <1>0, <1>a, <2>1, <2>2, <2>3, WrittenFile
  <2>5. FilesGrow /\ \A f \in Index : Same(f)
    BY <1>a, <2>1, <2>3, <2>4 DEF FilesGrow, Same
  <2>6. Stored \subseteq Stored' /\ Items(mbuf)' = Items(mbuf')
    BY <2>5, StoredGrows DEF Items
  <2>7. Items(mbuf') \subseteq Items(mbuf)
    BY <2>1, <2>2
  <2>8. ASSUME ~broken[Base], Good(Base, mbuf)
        PROVE  Good(Base, mbuf)' /\ disk'[Base] \cup Items(mbuf') = disk[Base] \cup Items(mbuf)
    <3>1. head'[Base] = "good" /\ disk'[Base] = disk[Base] \cup ({x} \cap Key)
      BY <2>1, <2>4, <2>8 DEF Good
    <3>2. QED
      BY <2>1, <2>2, <3>1 DEF Good
  <2>9. MergeInv'
    <3>1. /\ hashes' \subseteq Stored' /\ Items(mbuf)' \subseteq Stored' /\ frag'[Base] \subseteq Stored'
          /\ merge' = "none" => mbuf' = <<>>
          /\ merge' # "none" => head'[Base] # "missing"
          /\ merge' = "run" => result' = "none"
      BY <1>0, <2>1, <2>4, <2>6, <2>7 DEF MergeInv
    <3>2. merge' = "run" /\ ~broken'[Base] =>
             /\ mseen' \subseteq disk'[Base] \cup Items(mbuf)'
             /\ listed' \subseteq disk'[Base] \cup Items(mbuf)' \cup hashes'
             /\ Good(Base, mbuf)'
      BY <1>0, <2>1, <2>6, <2>8 DEF MergeInv
    <3>3. result' = "true" /\ ~dropped' /\ ~broken'[Base] =>
             /\ listed' \subseteq disk'[Base] \cup Items(mbuf)'
             /\ Good(Base, mbuf)'
      BY <1>0, <2>1, <2>6, <2>8 DEF MergeInv
    <3>4. QED
      BY <3>1, <3>2, <3>3 DEF MergeInv
  <2>10. QED
    BY <2>1, <2>5, <2>9, OneMerge
<1>7. CASE MergeClose
  <2>1. /\ UNCHANGED <<head, disk, tail, broken, frag>> /\ UNCHANGED procs
        /\ UNCHANGED <<result, hashes, mbuf, listed, dropped>>
        /\ merge = "return" /\ merge' = "none" /\ mbuf = <<>>
    BY <1>7 DEF MergeClose
  <2>2. MergeInv'
    BY <1>0, <1>c, <1>d, <2>1 DEF MergeInv
  <2>3. QED
    BY <1>b, <2>1, <2>2
<1>8. Cutting \subseteq Stored /\ Cutting \in SUBSET Key
  BY <1>0, CuttingItems DEF MergeInv
<1>9. ASSUME NEW k \in Key, MergeWriteFails(k) PROVE IInv'
  <2> DEFINE S == IF mbuf = <<>> THEN {k} ELSE Cutting
  <2>1. k \in hashes /\ merge = "run" /\ UNCHANGED procs /\ CutTarget(S)
        /\ merge' = "return" /\ result' = "false" /\ hashes' = {}
    BY <1>9 DEF MergeWriteFails, MergeReturns, MergeFails
  <2>2. S \in SUBSET Key /\ S \subseteq Stored
    BY <1>0, <1>8, <2>1 DEF MergeInv
  <2> HIDE DEF S
  <2>3. QED
    BY <2>1, <2>2, CutKept
<1>10. CASE MergeCloseFails
  <2>1. merge = "return" /\ UNCHANGED <<merge, result, hashes>> /\ UNCHANGED procs
        /\ CutTarget(Cutting) /\ dropped'
    BY <1>10 DEF MergeCloseFails
  <2>2. QED
    BY <1>8, <2>1, CutKept
<1>11. CASE KillMerge
  <2>1. merge # "none" /\ merge' = "none" /\ result' = "none" /\ hashes' = {} /\ UNCHANGED procs
        /\ CutTarget(Cutting)
    BY <1>11 DEF KillMerge
  <2>2. QED
    BY <1>8, <2>1, CutKept
<1>12. QED
  BY <1>1, <1>2, <1>3, <1>4, <1>5, <1>6, <1>7, <1>9, <1>10, <1>11 DEF Merge

\* The inductive invariant holds before any session or merge has begun.
LEMMA InvInit == Init => IInv
<1> SUFFICES ASSUME Init PROVE IInv
  OBVIOUS
<1>1. FileInv /\ Apart
  BY DEF Init, FileInv, Apart
<1>2. MergeInv
  BY ItemsOf DEF Init, MergeInv, File
<1>3. ASSUME NEW p \in Proc PROVE ProcInv(p)
  BY DatabaseAssumption DEF Init, ProcInv, PhaseInv, ProbeInv, KeptInv, Index
<1>4. QED
  BY <1>1, <1>2, <1>3, TypeInit DEF IInv

\* Every step of the system, and every stutter, keeps the types.
LEMMA TypeStep == IInv /\ [Next]_vars => TypeOK'
<1> SUFFICES ASSUME IInv, [Next]_vars PROVE TypeOK'
  OBVIOUS
<1>1. ASSUME UNCHANGED vars PROVE TypeOK'
  BY <1>1 DEF vars, TypeOK, IInv
<1>2. CASE Merge
  BY <1>2, MergeType DEF IInv, MergeInv
<1>3. ASSUME NEW p \in Proc, Record(p) PROVE TypeOK'
  BY <1>3, RecordType DEF IInv, ProcInv, PhaseInv
<1>4. QED
  BY <1>1, <1>2, <1>3 DEF Next

\* Every step of the system keeps the inductive invariant.
LEMMA InvStep == IInv /\ [Next]_vars => IInv'
<1> SUFFICES ASSUME IInv, [Next]_vars PROVE IInv'
  OBVIOUS
<1>1. TypeOK'
  BY TypeStep
<1>2. CASE UNCHANGED vars
  <2>1. UNCHANGED <<head, disk, broken, frag>> /\ UNCHANGED procs /\ UNCHANGED merger
    BY <1>2 DEF vars, procs, merger
  <2>2. FilesGrow /\ Same(Base) /\ \A f \in Index : Same(f)
    BY <2>1, NoFileGrows
  <2>3. MergeInv'
    BY <2>1, <2>2, MergeKept DEF IInv
  <2>4. QED
    BY <1>1, <2>1, <2>2, <2>3, OneMerge
<1>3. QED
  BY <1>1, <1>2, RecordInv, MergeStepInv DEF Next

(***************************************************************************)
(* The invariant holds in every reachable state.                           *)
(***************************************************************************)
THEOREM InductiveInvariant == Spec => []IInv
BY InvInit, InvStep, PTL DEF Spec

-----------------------------------------------------------------------------
(***************************************************************************)
(* Every reachable state of the processes, the files and the merge is well *)
(* typed; in particular the creation loop never probes an index beyond the *)
(* last one.                                                               *)
(***************************************************************************)
THEOREM TypeCorrect == Spec => []TypeOK
<1>1. IInv => TypeOK
  BY DEF IInv
<1>2. QED
  BY <1>1, InductiveInvariant, PTL

(***************************************************************************)
(* However many processes race for however many indices, the file a        *)
(* process ends with is its own and holds what it accepted, or after a     *)
(* failed write nothing else but entries that were cut short.              *)
(***************************************************************************)
THEOREM FilesAreOwned == Spec => []OwnFile
<1>1. IInv => OwnFile
  <2> SUFFICES ASSUME IInv, NEW p \in Proc, session[p] = "on", wfile[p] # None
               PROVE  /\ IF failed[p]
                         THEN disk[wfile[p]] \cup Items(buf[p]) \subseteq seen[p] \cup frag[wfile[p]]
                         ELSE disk[wfile[p]] \cup Items(buf[p]) = seen[p]
                      /\ \A q \in Proc \ {p} : session[q] = "on" => wfile[q] # wfile[p]
    BY DEF OwnFile, Items
  <2>1. KeptInv(p) /\ Apart
    BY DEF IInv, ProcInv
  <2>2. QED
    BY <2>1 DEF KeptInv, Apart
<1>2. QED
  BY <1>1, InductiveInvariant, PTL

(***************************************************************************)
(* The list of hashes of a session has no duplicates, although the files   *)
(* it was primed from are written to meanwhile.                            *)
(***************************************************************************)
THEOREM HashesListedOnce == Spec => []ListedOnce
<1>1. IInv => ListedOnce
  BY DEF IInv, ProcInv, KeptInv, ListedOnce
<1>2. QED
  BY <1>1, InductiveInvariant, PTL

(***************************************************************************)
(* A process gives up only when it has met a file or an error at every     *)
(* index, for any last index.                                              *)
(***************************************************************************)
THEOREM GivesUpOnlyWhenFull == Spec => []GivesUpWhenFull
<1>1. IInv => GivesUpWhenFull
  BY DEF IInv, ProcInv, ProbeInv, GivesUpWhenFull
<1>2. QED
  BY <1>1, InductiveInvariant, PTL

(***************************************************************************)
(* A merge that returns true has every hash its sources listed in the      *)
(* target, after any number of merges that were killed or failed half way, *)
(* unless entries had been appended behind an orphan header or the target  *)
(* could not be closed.                                                    *)
(***************************************************************************)
THEOREM MergedAll == Spec => []MergeComplete
<1>1. IInv => MergeComplete
  BY ItemsOf DEF IInv, MergeInv, MergeComplete
<1>2. QED
  BY <1>1, InductiveInvariant, PTL

-----------------------------------------------------------------------------
(***************************************************************************)
(* The refinement.  Stored, Cut and Promised are the state of the abstract *)
(* store; every step below is one of its actions or leaves it alone.       *)
(***************************************************************************)
Cut == UNION {frag[f] : f \in File}

Promised ==
    [p \in Proc |-> IF session[p] \in {"on", "closed"} THEN primed[p] \cup seen[p] ELSE {}]

\* Steps that leave what was promised, and every session.
LEMMA SameStore ==
    ASSUME Stored' = Stored, Cut' = Cut, session' = session, primed' = primed, seen' = seen,
           failed' = failed
    PROVE  UNCHANGED Store!vars
BY DEF Store!vars, Stored, Cut

\* The empty directory is the empty abstract store.
LEMMA StoreInit == Init => Store!Init
BY DEF Init, Store!Init

\* What one file comes to list is all that is added to the store.
LEMMA StoredPlus ==
    ASSUME NEW f \in File, NEW S,
           \A g \in File \ {f} : disk'[g] = disk[g], disk'[f] = disk[f] \cup S
    PROVE  Stored' = Stored \cup S
<1>1. \A g \in File : disk'[g] = IF g = f THEN disk[g] \cup S ELSE disk[g]
  OBVIOUS
<1>2. \A y : y \in Stored' <=> \E g \in File : y \in disk'[g]
  BY DEF Stored
<1>3. \A y : y \in Stored <=> \E g \in File : y \in disk[g]
  BY DEF Stored
<1>4. QED
  BY <1>1, <1>2, <1>3

\* What is cut short in one file is all that is added to the cut entries.
LEMMA CutPlus ==
    ASSUME NEW f \in File, NEW S,
           \A g \in File \ {f} : frag'[g] = frag[g], frag'[f] = frag[f] \cup S
    PROVE  Cut' = Cut \cup S
<1>1. \A g \in File : frag'[g] = IF g = f THEN frag[g] \cup S ELSE frag[g]
  OBVIOUS
<1>2. \A y : y \in Cut' <=> \E g \in File : y \in frag'[g]
  BY DEF Cut
<1>3. \A y : y \in Cut <=> \E g \in File : y \in frag[g]
  BY DEF Cut
<1>4. QED
  BY <1>1, <1>2, <1>3

\* write_entry is an accepted entry of the abstract store, or a failed write.
LEMMA PutRefines ==
    ASSUME TypeOK, NEW p \in Proc, NEW f \in File, NEW b, NEW k \in Key, session[p] = "on",
           Put(p, f, b, k) \/ PutFails(p, f, b, k), UNCHANGED <<session, primed, disk>>
    PROVE  Store!Next
<1>0. Promised \in [Proc -> SUBSET Key] /\ Stored' = Stored
  BY DEF Promised, Stored, TypeOK
<1>1. CASE Put(p, f, b, k)
  <2>1. seen' = [seen EXCEPT ![p] = @ \cup {k}] /\ frag' = frag /\ failed' = failed
    BY <1>1 DEF Put
  <2>2. Promised' = [Promised EXCEPT ![p] = @ \cup {k}]
    BY <2>1 DEF Promised, TypeOK
  <2>3. Cut' = Cut
    BY <2>1 DEF Cut
  <2>4. Store!Accept(p)
    BY <1>0, <2>1, <2>2, <2>3 DEF Store!Accept, Stored, Cut, Promised
  <2>5. QED
    BY <2>4 DEF Store!Next
<1>2. CASE PutFails(p, f, b, k)
  <2>1. /\ seen' = seen /\ failed' = [failed EXCEPT ![p] = TRUE]
        /\ frag' = [frag EXCEPT ![f] = @ \cup {k}]
    BY <1>2 DEF PutFails
  <2>2. (\A g \in File \ {f} : frag'[g] = frag[g]) /\ frag'[f] = frag[f] \cup {k}
    BY <2>1 DEF TypeOK
  <2>3. Cut' = Cut \cup {k}
    BY <2>2, CutPlus, Zenon
  <2>4. Promised' = Promised
    BY <2>1 DEF Promised
  <2>5. Store!Fail(p)
    BY <1>0, <2>1, <2>3, <2>4 DEF Store!Fail, Stored, Cut, Promised
  <2>6. QED
    BY <2>5 DEF Store!Next
<1>3. QED
  BY <1>1, <1>2

\* A step of a recording process is a step of the abstract store, or hidden.
LEMMA RecordRefines ==
    ASSUME IInv, NEW p \in Proc, Record(p)
    PROVE  Store!Next \/ UNCHANGED Store!vars
<1> USE DEF files, merger, bounds
<1>0. /\ TypeOK /\ ProcInv(p) /\ FileInv /\ MergeInv
      /\ PhaseInv(p) /\ ProbeInv(p) /\ KeptInv(p)
  BY DEF IInv, ProcInv
<1>a. /\ Index \subseteq File /\ 0 \notin Index /\ None \notin Index
  BY DatabaseAssumption DEF File, Index, None
<1>b. (disk' = disk => Stored' = Stored) /\ (frag' = frag => Cut' = Cut)
  BY DEF Stored, Cut
<1>c. Promised \in [Proc -> SUBSET Key]
  BY <1>0 DEF Promised, TypeOK
<1>1. CASE Start(p)
  <2>1. /\ session[p] # "on" /\ session' = [session EXCEPT ![p] = "on"]
        /\ failed' = [failed EXCEPT ![p] = FALSE]
    BY <1>1 DEF Start
  <2>2. Promised' = [Promised EXCEPT ![p] = {}]
    BY <1>0, <1>1 DEF Start, Promised, TypeOK
  <2>3. Stored' = Stored /\ Cut' = Cut
    BY <1>1, <1>b DEF Start
  <2>4. Store!Begin(p)
    BY <2>1, <2>2, <2>3 DEF Store!Begin, Stored, Cut, Promised
  <2>5. QED
    BY <2>4 DEF Store!Next
<1>2. CASE Prime(p)
  <2>1. NextArchive(p) \in File
    BY <1>0, <1>2, NextArchiveIn DEF Prime
  <2>2. PICK T \in SUBSET HalfWritten(NextArchive(p)) :
           primed' = [primed EXCEPT ![p] = @ \cup disk[NextArchive(p)] \cup T]
    BY <1>2 DEF Prime
  <2>3. T \subseteq Stored /\ disk[NextArchive(p)] \subseteq Stored
    BY <1>0, <2>1, CuttingItems DEF HalfWritten, MergeInv, Stored
  <2>4. PICK S \in SUBSET Stored : primed' = [primed EXCEPT ![p] = @ \cup S]
    <3>1. disk[NextArchive(p)] \cup T \in SUBSET Stored
      BY <2>3
    <3>2. primed' = [primed EXCEPT ![p] = @ \cup (disk[NextArchive(p)] \cup T)]
      BY <1>0, <2>2 DEF TypeOK
    <3>3. QED
      BY <3>1, <3>2, Zenon
  <2>5. /\ session[p] = "on" /\ session' = session /\ seen' = seen /\ disk' = disk
        /\ frag' = frag /\ failed' = failed
    BY <1>2 DEF Prime
  <2>6. Promised' = [Promised EXCEPT ![p] = @ \cup S]
    BY <1>0, <2>4, <2>5 DEF Promised, TypeOK
  <2>7. Store!Learn(p)
    BY <1>b, <2>4, <2>5, <2>6 DEF Store!Learn, Stored, Cut, Promised
  <2>8. QED
    BY <2>7 DEF Store!Next
<1>3. CASE PrimeNothing(p)
  BY <1>3, <1>b, SameStore DEF PrimeNothing
<1>4. CASE TryIndex(p)
  <2>1. /\ index[p] \in Index /\ index[p] \in File /\ disk[index[p]] = {} /\ session[p] = "on"
        /\ writing[p] \in Key
    BY <1>0, <1>4, <1>a DEF TryIndex, Creates, FileInv, PhaseInv
  <2>2. disk' = disk
    BY <1>0, <1>4, <2>1 DEF TryIndex, TypeOK
  <2>3. UNCHANGED <<session, primed, disk>>
        /\ (Put(p, index[p], <<Magic>>, writing[p]) \/ PutFails(p, index[p], <<Magic>>, writing[p]))
    BY <1>4, <2>2 DEF TryIndex
  <2>4. QED
    BY <1>0, <2>1, <2>3, PutRefines
<1>5. ASSUME NEW k \in Key, WriteEntry(p, k) PROVE Store!Next
  <2>1. wfile[p] \in File /\ session[p] = "on" /\ UNCHANGED <<session, primed, disk>>
        /\ (Put(p, wfile[p], buf[p], k) \/ PutFails(p, wfile[p], buf[p], k))
    BY <1>0, <1>5, <1>a DEF WriteEntry, Prepared, TypeOK
  <2>2. QED
    BY <1>0, <2>1, PutRefines
<1>6. CASE TryNextIndex(p)
  BY <1>6, <1>b, SameStore DEF TryNextIndex
<1>7. ASSUME NEW k \in Key, WriteFirstEntry(p, k) PROVE UNCHANGED Store!vars
  BY <1>7, <1>b, SameStore DEF WriteFirstEntry
<1>8. CASE Drain(p)
  <2> DEFINE x == Head(buf[p])
             f == wfile[p]
  <2>1. /\ buf[p] \in Seq(Item) /\ buf[p] # <<>> /\ session[p] = "on"
        /\ f # None /\ f \in File /\ head[f] # "missing"
    <3>1. buf[p] \in Seq(Item) /\ buf[p] # <<>> /\ session[p] = "on"
      BY <1>0, <1>8 DEF Drain, TypeOK, Item
    <3>2. f # None
      BY <1>0, <3>1 DEF PhaseInv
    <3>3. f \in Index /\ head[f] # "missing"
      BY <1>0, <3>2 DEF TypeOK, PhaseInv
    <3>4. QED
      BY <1>a, <3>1, <3>2, <3>3
  <2>2. x \in Item /\ {x} \cap Key \subseteq Items(buf[p])
    BY <2>1, ItemsTail
  <2>3. UNCHANGED <<session, primed, seen, failed, frag>> /\ Written(f, x)
    BY <1>8 DEF Drain
  <2>4. /\ \A g \in File \ {f} : disk'[g] = disk[g] /\ head'[g] = head[g]
        /\ disk[f] \subseteq disk'[f]
        /\ disk'[f] \subseteq disk[f] \cup ({x} \cap Key) \cup frag[f]
    <3> HIDE DEF x, f
    <3>1. QED
      BY <1>0, <2>1, <2>2, <2>3, WrittenFile
  <2> DEFINE S == disk'[f] \ disk[f]
  <2>5. S \subseteq Promised[p] \cup Cut
    <3>1. {x} \cap Key \subseteq Promised[p]
      BY <1>0, <2>1, <2>2 DEF KeptInv, Promised
    <3>2. frag[f] \subseteq Cut
      BY <2>1 DEF Cut
    <3>3. QED
      BY <2>4, <3>1, <3>2
  <2>6. Stored' = Stored \cup S
    <3>1. disk'[f] = disk[f] \cup S
      BY <2>4
    <3> HIDE DEF S, f
    <3>2. QED
      BY <2>1, <2>4, <3>1, StoredPlus
  <2>7. Cut' = Cut /\ Promised' = Promised
    BY <1>b, <2>3 DEF Promised
  <2>8. Store!Persist(p)
    <3>1. S \in SUBSET (Promised[p] \cup Cut)
      BY <2>5
    <3> HIDE DEF S
    <3>2. QED
      BY <2>1, <2>3, <2>6, <2>7, <3>1 DEF Store!Persist, Stored, Cut, Promised
  <2>9. QED
    BY <2>8 DEF Store!Next
<1>9. CASE DrainFails(p)
  <2> DEFINE S == {Head(buf[p])} \cap Key
             f == wfile[p]
  <2>1. /\ session[p] = "on" /\ UNCHANGED <<session, primed, seen, disk>> /\ buf[p] # <<>>
        /\ failed' = [failed EXCEPT ![p] = TRUE] /\ frag' = [frag EXCEPT ![f] = @ \cup S]
    BY <1>9 DEF DrainFails
  <2>2. f \in File
    BY <1>0, <1>a, <2>1 DEF PhaseInv, TypeOK
  <2>3. (\A g \in File \ {f} : frag'[g] = frag[g]) /\ frag'[f] = frag[f] \cup S
    <3> HIDE DEF S
    <3>1. QED
      BY <1>0, <2>1, <2>2 DEF TypeOK
  <2>4. Cut' = Cut \cup S
    <3> HIDE DEF S, f
    <3>1. QED
      BY <2>2, <2>3, CutPlus
  <2>5. Cut' \in {Cut} \cup {Cut \cup {k} : k \in Key}
    <3>1. S = {} \/ \E k \in Key : S = {k}
      OBVIOUS
    <3>2. QED
      BY <2>4, <3>1
  <2>6. Promised' = Promised /\ Stored' = Stored
    BY <1>b, <2>1 DEF Promised
  <2>7. Store!Fail(p)
    BY <2>1, <2>5, <2>6 DEF Store!Fail, Stored, Cut, Promised
  <2>8. QED
    BY <2>7 DEF Store!Next
<1>10. CASE Close(p)
  <2>1. /\ session[p] = "on" /\ buf[p] = <<>> /\ disk' = disk /\ frag' = frag /\ failed' = failed
        /\ session' = [session EXCEPT ![p] = "closed"] /\ UNCHANGED <<primed, seen>>
    BY <1>10 DEF Close, Prepared, Drained
  <2>2. ~failed[p] => seen[p] \subseteq Stored
    <3>1. CASE wfile[p] = None
      BY <1>0, <2>1, <3>1 DEF PhaseInv
    <3>2. CASE wfile[p] # None /\ ~failed[p]
      <4>1. seen[p] = disk[wfile[p]] /\ wfile[p] \in File
        BY <1>0, <1>a, <2>1, <3>2, ItemsOf DEF KeptInv, TypeOK
      <4>2. QED
        BY <4>1 DEF Stored
    <3>3. QED
      BY <3>1, <3>2
  <2>3. Promised' = Promised /\ (failed[p] \/ Promised[p] \subseteq Stored)
    BY <1>0, <2>1, <2>2 DEF KeptInv, Promised, TypeOK
  <2>4. Store!Close(p)
    BY <1>b, <2>1, <2>3 DEF Store!Close, Stored, Cut, Promised
  <2>5. QED
    BY <2>4 DEF Store!Next
<1>11. CASE KillProcess(p)
  <2>1. /\ session[p] = "on" /\ disk' = disk /\ frag' = frag /\ failed' = failed
        /\ session' = [session EXCEPT ![p] = "killed"]
    BY <1>11 DEF KillProcess
  <2>2. Promised' = [Promised EXCEPT ![p] = {}]
    BY <1>0, <1>11 DEF KillProcess, Promised, TypeOK
  <2>3. Store!Kill(p)
    BY <1>b, <2>1, <2>2 DEF Store!Kill, Stored, Cut, Promised
  <2>4. QED
    BY <2>3 DEF Store!Next
<1>12. QED
  BY <1>1, <1>2, <1>3, <1>4, <1>5, <1>6, <1>7, <1>8, <1>9, <1>10, <1>11 DEF Record

\* A write cut short in the target touches only what is stored already.
LEMMA CutRefines ==
    ASSUME TypeOK, MergeInv, NEW S \in SUBSET Key, CutTarget(S), UNCHANGED procs, S \subseteq Stored,
           S = {} \/ \E k \in Key : S = {k}, Stored' = Stored
    PROVE  Store!Next \/ UNCHANGED Store!vars
<1>1. /\ \A g \in File \ {Base} : frag'[g] = frag[g]
      /\ frag'[Base] = frag[Base] \cup S
  BY CutFiles
<1>2. Cut' = Cut \cup S
  <2>1. Base \in File
    BY DEF File
  <2>2. QED
    BY <1>1, <2>1, CutPlus
<1>3. UNCHANGED <<session, primed, seen, failed>>
  BY DEF procs
<1>4. CASE S = {}
  BY <1>2, <1>3, <1>4, SameStore
<1>5. CASE S # {}
  <2>1. PICK k \in Key : S = {k}
    BY <1>5
  <2>2. k \in Stored /\ Cut' = Cut \cup {k} /\ Promised' = Promised
    BY <1>2, <1>3, <2>1 DEF Promised
  <2>3. Store!Tear
    BY <1>3, <2>2 DEF Store!Tear, Stored, Cut, Promised
  <2>4. QED
    BY <2>3 DEF Store!Next
<1>6. QED
  BY <1>4, <1>5

(***************************************************************************)
(* A merge only copies what is stored already, so the store does not see   *)
(* it, whether it ends well or stops half way; it may leave a second copy  *)
(* of a stored entry cut short.                                            *)
(***************************************************************************)
LEMMA MergeRefines ==
    ASSUME IInv, TypeOK', Merge
    PROVE  Store!Next \/ UNCHANGED Store!vars
<1> USE DEF files, bounds
<1>0. TypeOK /\ MergeInv
  BY DEF IInv
<1>1. CASE MergeDrain
  <2> DEFINE x == Head(mbuf)
  <2>1. /\ UNCHANGED procs /\ frag' = frag /\ mbuf # <<>> /\ merge # "none" /\ Written(Base, x)
    BY <1>1 DEF MergeDrain
  <2>2. x \in Item /\ {x} \cap Key \subseteq Stored
    <3>1. mbuf \in Seq(Item)
      BY <1>0 DEF TypeOK, Item
    <3>2. x \in Item /\ {x} \cap Key \subseteq Items(mbuf)
      BY <2>1, <3>1, ItemsTail
    <3>3. QED
      BY <1>0, <3>2 DEF MergeInv
  <2>3. head[Base] # "missing" /\ frag[Base] \subseteq Stored /\ Base \in File
    BY <1>0, <2>1 DEF MergeInv, File
  <2>4. /\ \A g \in File \ {Base} : disk'[g] = disk[g] /\ head'[g] = head[g]
        /\ disk[Base] \subseteq disk'[Base]
        /\ disk'[Base] \subseteq disk[Base] \cup ({x} \cap Key) \cup frag[Base]
    <3> HIDE DEF x
    <3>1. QED
      BY <1>0, <2>1, <2>2, <2>3, WrittenFile
  <2> DEFINE S == disk'[Base] \ disk[Base]
  <2>5. S \subseteq Stored /\ disk'[Base] = disk[Base] \cup S
    BY <2>2, <2>3, <2>4
  <2>6. Stored' = Stored \cup S
    <3> HIDE DEF S
    <3>1. QED
      BY <2>3, <2>4, <2>5, StoredPlus
  <2>7. Stored' = Stored /\ Cut' = Cut
    BY <2>1, <2>5, <2>6 DEF Cut
  <2>8. QED
    BY <2>1, <2>7, SameStore DEF procs
<1>2. Cutting \subseteq Stored /\ Cutting \in SUBSET Key /\ (Cutting = {} \/ \E k \in Key : Cutting = {k})
  BY <1>0, CuttingItems DEF MergeInv
<1>3. ASSUME NEW k \in Key, MergeWriteFails(k) PROVE Store!Next \/ UNCHANGED Store!vars
  <2> DEFINE S == IF mbuf = <<>> THEN {k} ELSE Cutting
  <2>1. k \in hashes /\ merge = "run" /\ UNCHANGED procs /\ CutTarget(S)
        /\ merge' = "return" /\ result' = "false" /\ hashes' = {}
    BY <1>3 DEF MergeWriteFails, MergeReturns, MergeFails
  <2>2. S \in SUBSET Key /\ S \subseteq Stored /\ (S = {} \/ \E j \in Key : S = {j})
    BY <1>0, <1>2, <2>1 DEF MergeInv
  <2> HIDE DEF S
  <2>3. Stored' = Stored
    BY <2>1, <2>2, CutKept
  <2>4. QED
    BY <1>0, <2>1, <2>2, <2>3, CutRefines
<1>4. CASE MergeCloseFails
  <2>1. merge = "return" /\ UNCHANGED <<merge, result, hashes>> /\ UNCHANGED procs
        /\ CutTarget(Cutting) /\ dropped'
    BY <1>4 DEF MergeCloseFails
  <2>2. Stored' = Stored
    BY <1>2, <2>1, CutKept
  <2>3. QED
    BY <1>0, <1>2, <2>1, <2>2, CutRefines
<1>5. CASE KillMerge
  <2>1. merge # "none" /\ merge' = "none" /\ result' = "none" /\ hashes' = {} /\ UNCHANGED procs
        /\ CutTarget(Cutting)
    BY <1>5 DEF KillMerge
  <2>2. Stored' = Stored
    BY <1>2, <2>1, CutKept
  <2>3. QED
    BY <1>0, <1>2, <2>1, <2>2, CutRefines
<1>6. ASSUME disk' = disk, frag' = frag, UNCHANGED procs PROVE UNCHANGED Store!vars
  <2>1. Stored' = Stored /\ Cut' = Cut
    BY <1>6 DEF Stored, Cut
  <2>2. QED
    BY <1>6, <2>1, SameStore DEF procs
<1>7. ASSUME NEW S, MergeBegin(S) PROVE UNCHANGED Store!vars
  BY <1>6, <1>7 DEF MergeBegin
<1>8. CASE MergeRefused \/ MergeSource \/ MergeStops \/ MergeEnds \/ MergeClose
  BY <1>6, <1>8 DEF MergeRefused, MergeSource, MergeStops, MergeEnds, MergeReturns, MergeClose
<1>9. ASSUME NEW k \in Key, MergeEntry(k) PROVE UNCHANGED Store!vars
  BY <1>6, <1>9 DEF MergeEntry
<1>10. QED
  BY <1>1, <1>3, <1>4, <1>5, <1>7, <1>8, <1>9 DEF Merge

(***************************************************************************)
(* The processes, their files and the merges together implement the        *)
(* abstract store, whatever is killed or fails half way.                   *)
(***************************************************************************)
THEOREM Refinement == Spec => ImplementsStore
<1>1. IInv /\ [Next]_vars => [Store!Next]_Store!vars
  <2>1. IInv /\ UNCHANGED vars => UNCHANGED Store!vars
    BY DEF vars, Store!vars
  <2>2. QED
    BY <2>1, TypeStep, RecordRefines, MergeRefines DEF Next
<1>2. QED
  BY <1>1, StoreInit, InductiveInvariant, PTL DEF Spec, ImplementsStore, Store!Spec

(***************************************************************************)
(* The promise of the store, carried over to the database: whatever a      *)
(* session that closed, none of whose writes failed, had been told is kept *)
(* is in some archive, and stays there while others record, merge, fail    *)
(* and get killed.                                                         *)
(***************************************************************************)
THEOREM ClosedSessionsKept == Spec => []Store!ClosedKept
<1>1. Store!Init => Store!ClosedKept
  BY DEF Store!Init, Store!ClosedKept
<1>2. TypeOK /\ Store!ClosedKept /\ [Store!Next]_Store!vars => Store!ClosedKept'
  <2> SUFFICES ASSUME TypeOK, Store!ClosedKept, [Store!Next]_Store!vars,
                      NEW q \in Proc, session'[q] = "closed", ~failed'[q]
               PROVE  Promised'[q] \subseteq Stored'
    BY DEF Store!ClosedKept, Promised, Stored
  <2>0. /\ session \in [Proc -> {"none", "on", "closed", "killed"}]
        /\ failed \in [Proc -> BOOLEAN]
        /\ session[q] = "closed" /\ ~failed[q] => Promised[q] \subseteq Stored
        /\ DOMAIN Promised = Proc
    BY DEF TypeOK, Store!ClosedKept, Promised, Stored
  <2>1. ASSUME NEW p \in Proc, Store!Begin(p) PROVE Promised'[q] \subseteq Stored'
    <3>1. /\ session' = [session EXCEPT ![p] = "on"] /\ Stored' = Stored
          /\ Promised' = [Promised EXCEPT ![p] = {}] /\ failed' = [failed EXCEPT ![p] = FALSE]
      BY <2>1 DEF Store!Begin, Promised, Stored
    <3>2. QED
      BY <2>0, <3>1
  <2>2. ASSUME NEW p \in Proc, session[p] = "on", session' = session, Stored' = Stored,
               failed' = failed, NEW S, Promised' = [Promised EXCEPT ![p] = @ \cup S]
        PROVE  Promised'[q] \subseteq Stored'
    BY <2>0, <2>2
  <2>3. ASSUME NEW p \in Proc, Store!Learn(p) PROVE Promised'[q] \subseteq Stored'
    BY <2>2, <2>3 DEF Store!Learn, Promised, Stored
  <2>4. ASSUME NEW p \in Proc, Store!Accept(p) PROVE Promised'[q] \subseteq Stored'
    BY <2>2, <2>4 DEF Store!Accept, Promised, Stored
  <2>5. ASSUME NEW p \in Proc, Store!Persist(p) PROVE Promised'[q] \subseteq Stored'
    <3>1. session' = session /\ Promised' = Promised /\ Stored \subseteq Stored' /\ failed' = failed
      BY <2>5 DEF Store!Persist, Promised, Stored
    <3>2. QED
      BY <2>0, <3>1
  <2>6. ASSUME NEW p \in Proc, Store!Fail(p) PROVE Promised'[q] \subseteq Stored'
    <3>1. /\ session[p] = "on" /\ session' = session /\ Promised' = Promised /\ Stored' = Stored
          /\ failed' = [failed EXCEPT ![p] = TRUE]
      BY <2>6 DEF Store!Fail, Promised, Stored
    <3>2. q # p /\ failed'[q] = failed[q]
      BY <2>0, <3>1
    <3>3. QED
      BY <2>0, <3>1, <3>2
  <2>7. ASSUME NEW p \in Proc, Store!Close(p) PROVE Promised'[q] \subseteq Stored'
    <3>1. /\ session' = [session EXCEPT ![p] = "closed"]
          /\ failed[p] \/ Promised[p] \subseteq Stored
          /\ Promised' = Promised /\ Stored' = Stored /\ failed' = failed
      BY <2>7 DEF Store!Close, Promised, Stored
    <3>2. QED
      BY <2>0, <3>1
  <2>8. ASSUME NEW p \in Proc, Store!Kill(p) PROVE Promised'[q] \subseteq Stored'
    <3>1. /\ session' = [session EXCEPT ![p] = "killed"] /\ Stored' = Stored
          /\ Promised' = [Promised EXCEPT ![p] = {}] /\ failed' = failed
      BY <2>8 DEF Store!Kill, Promised, Stored
    <3>2. QED
      BY <2>0, <3>1
  <2>9. CASE Store!Tear \/ UNCHANGED Store!vars
    <3>1. session' = session /\ Promised' = Promised /\ Stored' = Stored /\ failed' = failed
      BY <2>9 DEF Store!Tear, Store!vars, Promised, Stored
    <3>2. QED
      BY <2>0, <3>1
  <2>10. QED
    BY <2>1, <2>3, <2>4, <2>5, <2>6, <2>7, <2>8, <2>9 DEF Store!Next
<1>3. QED
  BY <1>1, <1>2, Refinement, TypeCorrect, PTL DEF ImplementsStore, Store!Spec

=============================================================================
