----------------------- MODULE ExternalReplayerProofs -----------------------
(***************************************************************************)
(* Proofs about ExternalReplayer, for every size of the ring, of a message *)
(* and of the counters, and however many messages are sent.                *)
(***************************************************************************)
EXTENDS ExternalReplayer, FutexLockProofs, SequenceTheorems

(***************************************************************************)
(* The inductive invariant.  Types: as TypeOK, with the shape of the ring  *)
(* and of the sequences.                                                   *)
(***************************************************************************)
Slots == 0..RingSize - 1
Counts  == 0..CountMod - 1
Blocks  == [ring : [Slots -> [msg : Nat, part : Nat]],
            write_count : Counts, read_count : Counts,
            read_offset : Slots, write_offset : Slots]

Types ==
    /\ cb \in Blocks /\ got \in Seq(Nat) /\ accepted \in Seq(Nat) /\ sent \in Nat
    /\ started \in BOOLEAN /\ complete \in BOOLEAN
    /\ master \in {"forked", "grouped", "running", "complete", "exited"}
    /\ group \in BOOLEAN /\ term \in BOOLEAN /\ put \in BOOLEAN
    /\ unread \in BOOLEAN /\ pid \in BOOLEAN /\ kill_fd \in BOOLEAN /\ saw \in BOOLEAN
    /\ call \in {"none", "poll", "is_process_complete", "wait", "wait_reaped", "kill"}
    /\ step \in {"none", "load", "check", "lock", "unlock", "waitpid", "read", "killpg"}

(***************************************************************************)
(* The ring.  Before the counters wrap they count the messages, what was   *)
(* read is the beginning of what was accepted, and unit i of the message   *)
(* after the first k lies where a ring of RingSize units has it.           *)
(***************************************************************************)
At(k, i) == (k * MsgSize + i) % RingSize

RingOK(b, gt, ac) ==
    /\ Len(gt) <= Len(ac) /\ \A k \in 1..Len(gt) : gt[k] = ac[k]
    /\ Len(ac) * MsgSize <= Len(gt) * MsgSize + RingSize
    /\ b.write_count = Len(ac) * MsgSize /\ b.read_count = Len(gt) * MsgSize
    /\ b.write_offset = At(Len(ac), 0) /\ b.read_offset = At(Len(gt), 0)
    /\ \A k \in Len(gt)..Len(ac) - 1, i \in 0..MsgSize - 1 :
           b.ring[At(k, i)] = [msg |-> ac[k + 1], part |-> i]

RingInv == CountersFresh => RingOK(cb, got, accepted)

\* The child has been reaped, and the call that did it reads the ring once more.
Reaping == call \in {"is_process_complete", "wait_reaped"}

(***************************************************************************)
(* What the client may conclude from the pipe, from progress_started and   *)
(* from the child being gone.                                              *)
(***************************************************************************)
MasterInv ==
    /\ master \in {"grouped", "running", "complete"} => group
    /\ ~started => accepted = <<>> /\ master \notin {"running", "complete"}
    /\ complete => master \in {"complete", "exited"}
    /\ ~kill_fd /\ ~unread => master # "forked"
    /\ step = "killpg" => ~kill_fd
    /\ ~pid => master = "exited"
    /\ Reaping => master = "exited" /\ pid
    /\ call = "wait" => pid
    /\ saw => complete

(***************************************************************************)
(* Whoever may report the end has read everything: the messages were all   *)
(* in the ring when progress_complete was loaded or the child was reaped.  *)
(***************************************************************************)
DrainInv == CountersFresh =>
    /\ step = "unlock" /\ (saw \/ Reaping) => got = accepted
    /\ ret = "complete" => complete /\ got = accepted
    /\ ~pid => got = accepted

IInv == LInv /\ Types /\ RingInv /\ MasterInv /\ DrainInv
-----------------------------------------------------------------------------
(***************************************************************************)
(* Arithmetic of the offsets.                                              *)
(***************************************************************************)
LEMMA ModRange == ASSUME NEW a \in Int, NEW n \in Nat \ {0} PROVE a % n \in 0..n - 1
OBVIOUS

\* What is below the modulus is its own remainder.
LEMMA ModSmall == ASSUME NEW n \in Nat \ {0}, NEW a \in 0..n - 1 PROVE a % n = a
OBVIOUS

\* The remainder is the only one there is.
LEMMA ModUnique ==
    ASSUME NEW n \in Nat \ {0}, NEW q \in Int, NEW r \in 0..n - 1, NEW a \in Int, a = n * q + r
    PROVE  a % n = r
OBVIOUS

\* Quotient and remainder.
LEMMA DivMod == ASSUME NEW n \in Nat \ {0}, NEW a \in Int PROVE a = n * (a \div n) + (a % n)
OBVIOUS

\* Whole rounds do not matter.
LEMMA ModShift ==
    ASSUME NEW n \in Nat \ {0}, NEW a \in Int, NEW q \in Int
    PROVE  (a + n * q) % n = a % n
<1>1. PICK p \in Int, r \in 0..n - 1 : p = a \div n /\ r = a % n /\ a = n * p + r
  BY ModRange, DivMod
<1>2. PICK b \in Int, s \in Int : b = a + n * q /\ s = p + q
  OBVIOUS
<1>3. b = n * s + r
  BY <1>1, <1>2
<1>4. b % n = r
  BY <1>3, ModUnique
<1>5. QED
  BY <1>1, <1>2, <1>4

\* An offset may be masked before it is advanced.
LEMMA ModSum ==
    ASSUME NEW n \in Nat \ {0}, NEW a \in Int, NEW b \in Int
    PROVE  ((a % n) + b) % n = (a + b) % n
<1>1. PICK p \in Int, r \in 0..n - 1 : p = a \div n /\ r = a % n /\ a = n * p + r
  BY ModRange, DivMod
<1>2. PICK e \in Int, d \in Int : e = r + b /\ d = a + b
  OBVIOUS
<1>3. d = e + n * p
  BY <1>1, <1>2
<1>4. (e + n * p) % n = e % n
  BY ModShift
<1>5. QED
  BY <1>1, <1>2, <1>3, <1>4

\* Two offsets may be masked before they are compared.
LEMMA ModDiff ==
    ASSUME NEW n \in Nat \ {0}, NEW a \in Int, NEW b \in Int
    PROVE  ((a % n) - (b % n)) % n = (a - b) % n
<1>1. PICK p \in Int, r \in 0..n - 1 : p = a \div n /\ r = a % n /\ a = n * p + r
  BY ModRange, DivMod
<1>2. PICK q \in Int, s \in 0..n - 1 : q = b \div n /\ s = b % n /\ b = n * q + s
  BY ModRange, DivMod
<1>3. PICK e \in Int, d \in Int, u \in Int : e = r - s /\ d = a - b /\ u = p - q
  OBVIOUS
<1>4. d = e + n * u
  BY <1>1, <1>2, <1>3
<1>5. (e + n * u) % n = e % n
  BY ModShift
<1>6. QED
  BY <1>1, <1>2, <1>3, <1>4, <1>5

\* The bytes of a whole number of messages.
LEMMA DivWhole == ASSUME NEW n \in Nat \ {0}, NEW a \in Nat PROVE (a * n) \div n = a
OBVIOUS

-----------------------------------------------------------------------------
(***************************************************************************)
(* The ring.  Before the counters wrap, a message is accepted only if it   *)
(* leaves the unread ones alone: the comparison of the wrapped sums errs   *)
(* on the safe side.                                                       *)
(***************************************************************************)
LEMMA AcceptsRoom ==
    ASSUME NEW b, NEW w \in Nat, NEW r \in Nat, r <= w, w + MsgSize < CountMod,
           b.write_count = w, b.read_count = r, Accepts(b)
    PROVE  w + MsgSize <= r + RingSize
<1> USE RingAssumption
<1>1. (w + MsgSize) % CountMod = w + MsgSize
  BY ModSmall
<1>2. CASE r + RingSize < CountMod
  <2>1. (r + RingSize) % CountMod = r + RingSize
    BY <1>2, ModSmall
  <2>2. QED
    BY <1>1, <2>1 DEF Accepts
<1>3. CASE r + RingSize >= CountMod
  <2>1. r + RingSize - CountMod \in 0..CountMod - 1
    BY <1>3
  <2>2. r + RingSize = CountMod * 1 + (r + RingSize - CountMod)
    OBVIOUS
  <2>3. (r + RingSize) % CountMod = r + RingSize - CountMod
    BY <2>1, <2>2, ModUnique
  <2>4. QED
    BY <1>1, <2>3 DEF Accepts
<1>4. QED
  BY <1>2, <1>3

\* Where a unit of a message lies.
LEMMA AtSlot ==
    ASSUME NEW k \in Nat, NEW i \in Nat
    PROVE  k * MsgSize \in Nat /\ At(k, i) \in Slots
<1>1. k * MsgSize \in Nat
  BY RingAssumption
<1>2. QED
  BY <1>1, RingAssumption, ModRange DEF At, Slots

\* Writing a message: where its units go, and that the unread ones stay.
LEMMA Written ==
    ASSUME NEW b \in Blocks, NEW w \in Nat, NEW r \in Nat, NEW m, NEW d,
           r <= w, w + MsgSize <= r + RingSize, b.write_offset = w % RingSize,
           d = WriteBlock(b, m)
    PROVE  /\ \A i \in 0..MsgSize - 1 : d.ring[(w + i) % RingSize] = [msg |-> m, part |-> i]
           /\ \A p \in r..w - 1 : d.ring[p % RingSize] = b.ring[p % RingSize]
<1> USE RingAssumption
<1> DEFINE new == d.ring
           from(o) == (o - b.write_offset) % RingSize
<1>1. new = [o \in Slots |-> IF from(o) < MsgSize THEN [msg |-> m, part |-> from(o)]
                             ELSE b.ring[o]]
  BY DEF WriteBlock, Blocks
<1>2. \A p \in Int : p % RingSize \in Slots /\ from(p % RingSize) = (p - w) % RingSize
  <2> TAKE p \in Int
  <2>1. p % RingSize \in Slots
    BY ModRange DEF Slots
  <2>2. ((p % RingSize) - (w % RingSize)) % RingSize = (p - w) % RingSize
    <3>1. RingSize \in Nat \ {0} /\ w \in Int
      OBVIOUS
    <3>2. QED
      BY <3>1, ModDiff, Zenon
  <2>3. QED
    BY <2>1, <2>2
<1> HIDE DEF new, from
<1>3. ASSUME NEW i \in 0..MsgSize - 1 PROVE new[(w + i) % RingSize] = [msg |-> m, part |-> i]
  <2>1. (w + i) - w = i /\ i \in 0..RingSize - 1 /\ w + i \in Int
    OBVIOUS
  <2>2. from((w + i) % RingSize) = i
    BY <1>2, <2>1, ModSmall
  <2>3. PICK o \in Slots : o = (w + i) % RingSize
    BY <1>2, <2>1
  <2>4. from(o) = i /\ i < MsgSize
    BY <2>2, <2>3
  <2>5. QED
    BY <1>1, <2>3, <2>4
<1>4. ASSUME NEW p \in r..w - 1 PROVE new[p % RingSize] = b.ring[p % RingSize]
  <2>1. p \in Int /\ p - w = RingSize * (-1) + (p - w + RingSize) /\ p - w + RingSize \in 0..RingSize - 1
    OBVIOUS
  <2>2. (p - w) % RingSize = p - w + RingSize
    BY <2>1, ModUnique
  <2>3. p - w + RingSize >= MsgSize
    OBVIOUS
  <2>4. from(p % RingSize) = p - w + RingSize /\ p % RingSize \in Slots
    BY <1>2, <2>1, <2>2
  <2>5. ~(from(p % RingSize) < MsgSize)
    BY <2>1, <2>3, <2>4
  <2>6. QED
    BY <1>1, <2>4, <2>5
<1>5. QED
  BY <1>3, <1>4 DEF new
\* The bytes of one message more, and of no fewer messages.
LEMMA Bytes ==
    ASSUME NEW a \in Nat, NEW b \in Nat
    PROVE  /\ a * MsgSize \in Nat /\ (a + 1) * MsgSize = a * MsgSize + MsgSize
           /\ a <= b => a * MsgSize <= b * MsgSize
           /\ a < b => a * MsgSize + MsgSize <= b * MsgSize
           /\ a <= b => b * MsgSize = a * MsgSize + (b - a) * MsgSize
<1> USE RingAssumption
<1>1. a * MsgSize \in Nat /\ (a + 1) * MsgSize = a * MsgSize + MsgSize
  OBVIOUS
<1>2. ASSUME a <= b PROVE b * MsgSize = a * MsgSize + (b - a) * MsgSize
  OBVIOUS
<1>3. ASSUME a <= b PROVE a * MsgSize <= b * MsgSize
  <2>1. (b - a) * MsgSize \in Nat
    BY <1>3
  <2>2. QED
    BY <1>1, <1>2, <1>3, <2>1
<1>4. ASSUME a < b PROVE a * MsgSize + MsgSize <= b * MsgSize
  <2>1. PICK d \in Nat : b = (a + 1) + d
    <3>1. b - (a + 1) \in Nat /\ b = (a + 1) + (b - (a + 1))
      BY <1>4
    <3>2. QED
      BY <3>1
  <2>2. d * MsgSize \in Nat /\ b * MsgSize = (a + 1) * MsgSize + d * MsgSize
    BY <2>1
  <2>3. QED
    BY <1>1, <2>2
<1>5. QED
  BY <1>1, <1>2, <1>3, <1>4

\* The ring after an accepted message.
LEMMA PutRing ==
    ASSUME NEW b \in Blocks, NEW gt \in Seq(Nat), NEW ac \in Seq(Nat), NEW m \in Nat,
           RingOK(b, gt, ac), Accepts(b), (Len(ac) + 1) * MsgSize < CountMod
    PROVE  RingOK(WriteBlock(b, m), gt, Append(ac, m))
<1> USE RingAssumption
<1>1. PICK n \in Nat, g \in Nat : n = Len(ac) /\ g = Len(gt)
  BY LenProperties
<1>2. PICK w \in Nat, r \in Nat : w = n * MsgSize /\ r = g * MsgSize
  BY Bytes
<1> DEFINE ad == Append(ac, m)
           bd == WriteBlock(b, m)
<1>3. /\ Len(ad) = n + 1 /\ ad[n + 1] = m
      /\ \A k \in 1..n : ad[k] = ac[k]
  BY <1>1, AppendProperties
<1> HIDE DEF ad
<1>4. (n + 1) * MsgSize = w + MsgSize /\ w + MsgSize < CountMod
  BY <1>1, <1>2, Bytes
<1>5. /\ g <= n /\ \A k \in 1..g : gt[k] = ac[k]
      /\ b.write_count = w /\ b.read_count = r
      /\ b.write_offset = At(n, 0) /\ b.read_offset = At(g, 0)
      /\ \A k \in g..n - 1, i \in 0..MsgSize - 1 :
             b.ring[At(k, i)] = [msg |-> ac[k + 1], part |-> i]
  BY <1>1, <1>2 DEF RingOK
<1>6. r <= w
  BY <1>2, <1>5, Bytes
<1>7. w + MsgSize <= r + RingSize
  BY <1>4, <1>5, <1>6, AcceptsRoom
<1>8. b.write_offset = w % RingSize
  BY <1>2, <1>5 DEF At
<1>9. /\ bd.write_count = (w + MsgSize) % CountMod /\ bd.read_count = r
      /\ bd.write_offset = ((w % RingSize) + MsgSize) % RingSize
      /\ bd.read_offset = At(g, 0)
  BY <1>5, <1>8 DEF WriteBlock, Blocks
<1>10. /\ \A i \in 0..MsgSize - 1 : bd.ring[(w + i) % RingSize] = [msg |-> m, part |-> i]
       /\ \A p \in r..w - 1 : bd.ring[p % RingSize] = b.ring[p % RingSize]
  <2>1. bd = WriteBlock(b, m)
    OBVIOUS
  <2> HIDE DEF bd
  <2>2. QED
    BY ONLY b \in Blocks, w \in Nat, r \in Nat, <1>6, <1>7, <1>8, <2>1, Written
<1> HIDE DEF bd
<1>11. bd.write_count = w + MsgSize
  <2>1. w + MsgSize \in 0..CountMod - 1 /\ CountMod \in Nat \ {0}
    BY <1>4
  <2>2. (w + MsgSize) % CountMod = w + MsgSize
    BY <2>1, ModSmall, Zenon
  <2>3. QED
    BY <1>9, <2>2
<1>12. bd.write_offset = At(n + 1, 0)
  <2>1. ((w % RingSize) + MsgSize) % RingSize = (w + MsgSize) % RingSize
    <3>1. RingSize \in Nat \ {0} /\ w \in Int /\ MsgSize \in Int
      OBVIOUS
    <3>2. QED
      BY <3>1, ModSum, Zenon
  <2>2. (n + 1) * MsgSize + 0 = w + MsgSize
    BY <1>4
  <2>3. QED
    BY <1>9, <2>1, <2>2 DEF At
<1>13. ASSUME NEW k \in g..n, NEW i \in 0..MsgSize - 1
       PROVE  bd.ring[At(k, i)] = [msg |-> ad[k + 1], part |-> i]
  <2>1. CASE k = n
    BY <1>2, <1>3, <1>10, <2>1 DEF At
  <2>2. CASE k < n
    <3>1. PICK x \in Nat : x = k * MsgSize
      BY Bytes
    <3>2. r <= x /\ x + MsgSize <= w
      BY <1>2, <2>2, <3>1, Bytes
    <3>3. PICK p \in r..w - 1 : p = x + i
      BY <3>2
    <3>4. bd.ring[At(k, i)] = b.ring[At(k, i)]
      BY <1>10, <3>1, <3>3 DEF At
    <3>5. k + 1 \in 1..n /\ k \in g..n - 1
      BY <2>2
    <3>6. b.ring[At(k, i)] = [msg |-> ac[k + 1], part |-> i]
      BY <1>5, <3>5, Zenon
    <3>7. QED
      BY <1>3, <3>4, <3>5, <3>6, Zenon
  <2>3. k = n \/ k < n
    OBVIOUS
  <2>4. QED
    BY <2>1, <2>2, <2>3, Zenon
<1>14. (n + 1) - 1 = n /\ g <= n + 1 /\ \A k \in 1..g : k \in 1..n
  BY <1>5
<1>15. \A k \in 1..g : gt[k] = ad[k]
  BY <1>3, <1>5, <1>14
<1>16. /\ (n + 1) * MsgSize <= g * MsgSize + RingSize
       /\ bd.write_count = (n + 1) * MsgSize /\ bd.read_count = g * MsgSize
  BY <1>2, <1>4, <1>7, <1>9, <1>11
<1>17. \A k \in g..(n + 1) - 1, i \in 0..MsgSize - 1 :
           bd.ring[At(k, i)] = [msg |-> ad[k + 1], part |-> i]
  BY <1>13, <1>14, Zenon
<1>18. RingOK(bd, gt, ad)
  BY <1>1, <1>3, <1>9, <1>12, <1>14, <1>15, <1>16, <1>17, Zenon DEF RingOK
<1>19. QED
  BY <1>18 DEF ad, bd
\* What is in the ring to be read.
LEMMA PendingCount ==
    ASSUME NEW b \in Blocks, NEW gt \in Seq(Nat), NEW ac \in Seq(Nat),
           RingOK(b, gt, ac), Len(ac) * MsgSize < CountMod
    PROVE  Pending(b) = Len(ac) - Len(gt)
<1> USE RingAssumption
<1>1. PICK n \in Nat, g \in Nat : n = Len(ac) /\ g = Len(gt)
  BY LenProperties
<1>2. PICK w \in Nat, r \in Nat, d \in Nat :
          w = n * MsgSize /\ r = g * MsgSize /\ d = n - g /\ g <= n
  <2>1. g <= n
    BY <1>1 DEF RingOK
  <2>2. n * MsgSize \in Nat /\ g * MsgSize \in Nat /\ n - g \in Nat
    BY <2>1, Bytes
  <2>3. QED
    BY <2>1, <2>2, Zenon
<1>3. w - r = d * MsgSize
  BY <1>2, Bytes
<1>4. d * MsgSize \in Nat /\ d * MsgSize < CountMod
  BY <1>1, <1>2, <1>3, Bytes
<1>5. (w - r) % CountMod = d * MsgSize
  <2>1. d * MsgSize \in 0..CountMod - 1 /\ CountMod \in Nat \ {0}
    BY <1>4
  <2>2. QED
    BY <1>3, <2>1, ModSmall, Zenon
<1>6. ReadAvail(b) = d * MsgSize
  BY <1>1, <1>2, <1>5 DEF ReadAvail, RingOK
<1>7. (d * MsgSize) \div MsgSize = d
  BY DivWhole
<1>8. QED
  BY <1>1, <1>2, <1>6, <1>7 DEF Pending

\* The offset after some reads.
LEMMA SkipOffset ==
    ASSUME NEW b \in Blocks, NEW g \in Nat, NEW j \in Nat, b.read_offset = At(g, 0)
    PROVE  Skip(b, j).read_offset = At(g + j, 0) /\ Skip(b, j).ring = b.ring
<1> USE RingAssumption
<1>1. PICK r \in Nat, x \in Nat : r = g * MsgSize /\ x = j * MsgSize
  BY Bytes
<1>2. (g + j) * MsgSize = r + x
  BY <1>1
<1>3. b.read_offset = r % RingSize
  BY <1>1 DEF At
<1>4. Skip(b, j).read_offset = ((r % RingSize) + x) % RingSize /\ Skip(b, j).ring = b.ring
  BY <1>1, <1>3 DEF Skip, Blocks
<1>5. ((r % RingSize) + x) % RingSize = (r + x) % RingSize
  <2>1. RingSize \in Nat \ {0} /\ r \in Int /\ x \in Int
    OBVIOUS
  <2>2. QED
    BY <2>1, ModSum, Zenon
<1>6. At(g + j, 0) = (r + x) % RingSize
  BY <1>2 DEF At
<1>7. QED
  BY <1>4, <1>5, <1>6

\* A read from a message's first unit finds the whole message.
LEMMA WholeMessage ==
    ASSUME NEW b, NEW k \in Nat, NEW m, b.read_offset = At(k, 0),
           \A i \in 0..MsgSize - 1 : b.ring[At(k, i)] = [msg |-> m, part |-> i]
    PROVE  Message(b) = m
<1> USE RingAssumption
<1>1. b.ring[b.read_offset].msg = m
  <2>1. 0 \in 0..MsgSize - 1
    OBVIOUS
  <2>2. b.ring[At(k, 0)] = [msg |-> m, part |-> 0]
    BY <2>1
  <2>3. QED
    BY <2>2
<1>2. ASSUME NEW i \in 0..MsgSize - 1 PROVE (b.read_offset + i) % RingSize = At(k, i)
  <2>1. PICK x \in Nat : x = k * MsgSize
    BY Bytes
  <2>2. ((x % RingSize) + i) % RingSize = (x + i) % RingSize
    <3>1. RingSize \in Nat \ {0} /\ x \in Int /\ i \in Int
      OBVIOUS
    <3>2. QED
      BY <3>1, ModSum, Zenon
  <2>3. QED
    BY <2>1, <2>2 DEF At
<1>3. QED
  BY <1>1, <1>2 DEF Message

\* The client reads, in order, exactly what it has not read yet.
LEMMA ReadRing ==
    ASSUME NEW b \in Blocks, NEW gt \in Seq(Nat), NEW ac \in Seq(Nat),
           RingOK(b, gt, ac), Len(ac) * MsgSize < CountMod
    PROVE  Messages(b) = [n \in 1..(Len(ac) - Len(gt)) |-> ac[Len(gt) + n]]
<1>1. PICK n \in Nat, g \in Nat : n = Len(ac) /\ g = Len(gt) /\ g <= n
  BY LenProperties DEF RingOK
<1>2. ASSUME NEW q \in 1..(n - g) PROVE Message(Skip(b, q - 1)) = ac[g + q]
  <2>1. PICK k \in Nat, j \in Nat : j = q - 1 /\ k = g + j /\ k \in g..n - 1 /\ k + 1 = g + q
    <3>1. q - 1 \in Nat /\ g + (q - 1) \in Nat /\ g + (q - 1) \in g..n - 1
          /\ g + (q - 1) + 1 = g + q
      BY <1>1
    <3>2. QED
      BY <3>1
  <2>2. \A i \in 0..MsgSize - 1 : b.ring[At(k, i)] = [msg |-> ac[k + 1], part |-> i]
    BY <1>1, <2>1 DEF RingOK
  <2>3. Skip(b, j).read_offset = At(k, 0) /\ Skip(b, j).ring = b.ring
    BY <1>1, <2>1, SkipOffset DEF RingOK
  <2>4. PICK d, m : d = Skip(b, j) /\ m = ac[k + 1]
    OBVIOUS
  <2>5. Message(d) = m
    <3>1. d.read_offset = At(k, 0)
      BY <2>3, <2>4
    <3>2. \A i \in 0..MsgSize - 1 : d.ring[At(k, i)] = [msg |-> m, part |-> i]
      BY <2>2, <2>3, <2>4
    <3>3. QED
      BY <3>1, <3>2, WholeMessage, Zenon
  <2>6. QED
    BY <2>1, <2>4, <2>5
<1>3. Pending(b) = n - g
  BY <1>1, PendingCount
<1>4. QED
  BY <1>1, <1>2, <1>3 DEF Messages

\* Read and unread together are what was accepted.
LEMMA FifoHolds ==
    ASSUME NEW b \in Blocks, NEW gt \in Seq(Nat), NEW ac \in Seq(Nat),
           RingOK(b, gt, ac), Len(ac) * MsgSize < CountMod
    PROVE  gt \o Messages(b) = ac
<1>1. PICK n \in Nat, g \in Nat : n = Len(ac) /\ g = Len(gt) /\ g <= n
  BY LenProperties DEF RingOK
<1>2. PICK u : u = Messages(b) /\ u = [k \in 1..(n - g) |-> ac[g + k]]
  BY <1>1, ReadRing
<1>3. \A k \in 1..n : ac[k] \in Nat
  BY <1>1, ElementOfSeq
<1>4. \A k \in 1..(n - g) : g + k \in 1..n
  BY <1>1
<1>5. u \in Seq(Nat) /\ Len(u) = n - g
  <2>1. n - g \in Nat
    BY <1>1
  <2>2. QED
    BY <1>2, <1>3, <1>4, <2>1
<1>6. PICK v : v = gt \o u
  OBVIOUS
<1>7. /\ v \in Seq(Nat) /\ Len(v) = n
      /\ \A k \in 1..n : v[k] = IF k <= g THEN gt[k] ELSE u[k - g]
  BY <1>1, <1>5, <1>6, ConcatProperties
<1>8. ASSUME NEW k \in 1..n PROVE v[k] = ac[k]
  <2>1. CASE k <= g
    BY <1>1, <1>7, <2>1 DEF RingOK
  <2>2. CASE k > g
    <3>1. k - g \in 1..(n - g) /\ g + (k - g) = k
      BY <1>1, <2>2
    <3>2. u[k - g] = ac[g + (k - g)]
      BY <1>2, <3>1
    <3>3. QED
      BY <1>1, <1>7, <2>2, <3>1, <3>2
  <2>3. QED
    BY <1>1, <2>1, <2>2
<1>9. v = ac
  BY <1>1, <1>7, <1>8, SeqEqual
<1>10. QED
  BY <1>2, <1>6, <1>9

\* The ring after a drain.
LEMMA DrainRing ==
    ASSUME NEW b \in Blocks, NEW gt \in Seq(Nat), NEW ac \in Seq(Nat),
           RingOK(b, gt, ac), Len(ac) * MsgSize < CountMod
    PROVE  RingOK(Drained(b), ac, ac)
<1> USE RingAssumption
<1>1. PICK n \in Nat, g \in Nat, j \in Nat : n = Len(ac) /\ g = Len(gt) /\ j = n - g /\ g + j = n
  <2>1. PICK n \in Nat, g \in Nat : n = Len(ac) /\ g = Len(gt) /\ g <= n
    BY LenProperties DEF RingOK
  <2>2. n - g \in Nat /\ g + (n - g) = n
    BY <2>1
  <2>3. QED
    BY <2>1, <2>2
<1>2. PICK d : d = Drained(b) /\ d = Skip(b, j)
  <2>1. Pending(b) = j
    BY <1>1, PendingCount
  <2>2. QED
    BY <2>1 DEF Drained
<1>3. d.read_offset = At(n, 0)
  <2>1. b.read_offset = At(g, 0)
    BY <1>1 DEF RingOK
  <2>2. Skip(b, j).read_offset = At(g + j, 0)
    BY <2>1, SkipOffset
  <2>3. QED
    BY <1>1, <1>2, <2>2
<1>4. /\ d.write_offset = At(n, 0) /\ d.write_count = n * MsgSize
      /\ d.read_count = (g * MsgSize + j * MsgSize) % CountMod
  BY <1>1, <1>2 DEF Skip, Blocks, RingOK
<1>5. d.read_count = n * MsgSize
  <2>1. PICK w \in Nat : w = n * MsgSize /\ g * MsgSize + j * MsgSize = w
    <3>1. g * MsgSize + j * MsgSize = (g + j) * MsgSize
      OBVIOUS
    <3>2. QED
      BY <1>1, <3>1, Bytes
  <2>2. w % CountMod = w
    <3>1. w \in 0..CountMod - 1 /\ CountMod \in Nat \ {0}
      BY <1>1, <2>1
    <3>2. QED
      BY <3>1, ModSmall, Zenon
  <2>3. QED
    BY <1>4, <2>1, <2>2
<1>6. n * MsgSize <= n * MsgSize + RingSize
  BY Bytes
<1>7. \A k \in n..n - 1 : FALSE
  OBVIOUS
<1>8. RingOK(d, ac, ac)
  BY <1>1, <1>3, <1>4, <1>5, <1>6, <1>7 DEF RingOK
<1>9. QED
  BY <1>2, <1>8
-----------------------------------------------------------------------------
\* Whatever the counters say, the ring keeps its shape and yields messages.
LEMMA BlockTypes ==
    ASSUME NEW b \in Blocks, NEW m \in Nat
    PROVE  /\ WriteBlock(b, m) \in Blocks
           /\ Drained(b) \in Blocks /\ Messages(b) \in Seq(Nat)
<1> USE RingAssumption
<1>1. \A x \in Int : x % RingSize \in Slots /\ x % CountMod \in Counts
  BY ModRange DEF Slots, Counts
<1>2. b.write_count \in Int /\ b.read_count \in Int /\ b.write_offset \in Int /\ b.read_offset \in Int
  BY DEF Blocks, Slots, Counts
<1>3. WriteBlock(b, m) \in Blocks
  <2> DEFINE from(o) == (o - b.write_offset) % RingSize
             ring == [o \in Slots |-> IF from(o) < MsgSize THEN [msg |-> m, part |-> from(o)]
                                      ELSE b.ring[o]]
  <2>1. \A o \in Slots : from(o) \in Nat
    BY <1>1, <1>2 DEF Slots
  <2>2. WriteBlock(b, m) = [b EXCEPT !.ring = ring,
                                     !.write_offset = (@ + MsgSize) % RingSize,
                                     !.write_count = (@ + MsgSize) % CountMod]
    BY DEF WriteBlock, Blocks
  <2> HIDE DEF from
  <2>3. ring \in [Slots -> [msg : Nat, part : Nat]]
    BY <2>1 DEF Blocks
  <2> HIDE DEF ring
  <2>4. /\ (b.write_offset + MsgSize) % RingSize \in Slots
        /\ (b.write_count + MsgSize) % CountMod \in Counts
    <3>1. b.write_offset + MsgSize \in Int /\ b.write_count + MsgSize \in Int
      BY <1>2
    <3>2. QED
      BY <1>1, <3>1, Zenon
  <2>5. QED
    BY <2>2, <2>3, <2>4 DEF Blocks
<1>4. ASSUME NEW n \in Nat PROVE Skip(b, n) \in Blocks
  <2>1. PICK x \in Int : x = n * MsgSize
    OBVIOUS
  <2>2. (b.read_offset + x) % RingSize \in Slots /\ (b.read_count + x) % CountMod \in Counts
    <3>1. b.read_offset + x \in Int /\ b.read_count + x \in Int
      BY <1>2
    <3>2. QED
      BY <1>1, <3>1, Zenon
  <2>3. QED
    BY <2>1, <2>2 DEF Skip, Blocks
<1>5. Pending(b) \in Nat
  <2>1. PICK x \in Nat : x = ReadAvail(b)
    <3>1. b.write_count - b.read_count \in Int
      BY <1>2
    <3>2. ReadAvail(b) \in Counts
      BY <1>1, <3>1, Zenon DEF ReadAvail
    <3>3. QED
      BY <3>2 DEF Counts
  <2>2. x \div MsgSize \in Nat
    OBVIOUS
  <2>3. QED
    BY <2>1, <2>2 DEF Pending
<1>6. ASSUME NEW n \in Nat PROVE Message(Skip(b, n)) \in Nat
  <2>1. PICK d \in Blocks : d = Skip(b, n)
    BY <1>4
  <2>2. d.ring[d.read_offset].msg \in Nat
    BY DEF Blocks
  <2>3. Message(d) \in Nat
    BY <2>2 DEF Message, Torn
  <2>4. QED
    BY <2>1, <2>3
<1>7. Messages(b) \in Seq(Nat)
  <2>1. \A n \in 1..Pending(b) : n - 1 \in Nat /\ Message(Skip(b, n - 1)) \in Nat
    BY <1>5, <1>6
  <2>2. QED
    BY <1>5, <2>1 DEF Messages
<1>8. QED
  BY <1>3, <1>4, <1>5, <1>7 DEF Drained

\* The Boolean part of the types.
Flags ==
    /\ started \in BOOLEAN /\ complete \in BOOLEAN
    /\ group \in BOOLEAN /\ term \in BOOLEAN /\ put \in BOOLEAN
    /\ unread \in BOOLEAN /\ pid \in BOOLEAN /\ kill_fd \in BOOLEAN /\ saw \in BOOLEAN

\* Every step keeps the types.
LEMMA TypesStep ==
    ASSUME Types, [Next]_vars
    PROVE  Types'
<1> USE DEF mvars, cvars, ClientOnly
<1>0. Flags
  BY Zenon DEF Types, Flags
<1>1. CASE Setpgid \/ AnnounceStart \/ AnnounceComplete \/ Exit \/ Terminated
  <2>1. Flags'
    BY <1>0, <1>1, Zenon DEF Setpgid, AnnounceStart, AnnounceComplete, Exit, Terminated, Flags
  <2>2. QED
    BY <1>1, <2>1 DEF Setpgid, AnnounceStart, AnnounceComplete, Exit, Terminated, Types, Flags
<1>2. CASE MasterTryLock \/ MasterUnlock \/ MasterLockStep
  <2>1. Flags'
    BY <1>0, <1>2, Zenon DEF MasterTryLock, MasterUnlock, MasterLockStep, Flags
  <2>2. QED
    BY <1>2, <2>1 DEF MasterTryLock, MasterUnlock, MasterLockStep, Types, Flags
<1>3. CASE MasterPut
  <2>1. Flags'
    BY <1>0, <1>3, Zenon DEF MasterPut, Flags
  <2>2. cb' \in Blocks
    BY <1>3, BlockTypes DEF MasterPut, Types
  <2>3. accepted' \in Seq(Nat)
    BY <1>3, AppendProperties DEF MasterPut, Types
  <2>4. QED
    BY <1>3, <2>1, <2>2, <2>3 DEF MasterPut, Types, Flags
<1>4. CASE PollDrain
  <2>1. Flags'
    BY <1>0, <1>4, Zenon DEF PollDrain, Flags
  <2>2. cb' \in Blocks /\ got' \in Seq(Nat)
    <3>1. Drained(cb) \in Blocks /\ Messages(cb) \in Seq(Nat)
      BY BlockTypes DEF Types
    <3>2. QED
      BY <1>4, <3>1, ConcatProperties DEF PollDrain, Types
  <2>3. QED
    BY <1>4, <2>1, <2>2 DEF PollDrain, Types, Flags
<1>5. CASE PollLoad \/ PollCheck \/ PollReturn
  <2>1. Flags'
    BY <1>0, <1>5, Zenon DEF PollLoad, PollCheck, PollReturn, PollReturns, Flags
  <2>2. QED
    BY <1>5, <2>1 DEF PollLoad, PollCheck, PollReturn, PollReturns, Types, Flags
<1>6. CASE PollTryLock \/ PollLockStep \/ PollUnlock \/ PollInterrupted
  <2>1. Flags'
    BY <1>0, <1>6, Zenon DEF PollTryLock, PollLockStep, PollUnlock, PollInterrupted, Flags
  <2>2. QED
    BY <1>6, <2>1 DEF PollTryLock, PollLockStep, PollUnlock, PollInterrupted, Types, Flags
<1>7. CASE WaitPid \/ WaitPidFails \/ CallPoll \/ CallIsProcessComplete \/ CallWait
  <2>1. Flags'
    BY <1>0, <1>7, Zenon
       DEF WaitPid, WaitPidFails, CallPoll, CallIsProcessComplete, CallWait, Flags
  <2>2. QED
    BY <1>7, <2>1
       DEF WaitPid, WaitPidFails, CallPoll, CallIsProcessComplete, CallWait, Types, Flags
<1>8. CASE CallKill \/ KillRead \/ KillReadFails \/ KillPg
  <2>1. Flags'
    BY <1>0, <1>8, Zenon DEF CallKill, KillRead, KillReadFails, KillPg, Flags
  <2>2. QED
    BY <1>8, <2>1 DEF CallKill, KillRead, KillReadFails, KillPg, Types, Flags
<1>9. CASE UNCHANGED vars
  BY <1>9 DEF vars, Types
<1>10. QED
  BY <1>1, <1>2, <1>3, <1>4, <1>5, <1>6, <1>7, <1>8, <1>9
     DEF Next, MasterStep, ClientStep, ClientCall
-----------------------------------------------------------------------------
(***************************************************************************)
(* The mutex.  Except for the death of the master every step is one of the *)
(* mutex protocol, or leaves the mutex alone.                              *)
(***************************************************************************)
LEMMA LockSteps ==
    ASSUME [Next]_vars, ~Terminated
    PROVE  [LockNext]_lockvars
<1> USE ProcAssumption DEF ClientOnly, mvars, cvars, lockvars
<1>1. CASE MasterTryLock \/ PollTryLock
  BY <1>1 DEF MasterTryLock, PollTryLock, LockNext
<1>2. CASE MasterUnlock \/ PollUnlock
  BY <1>2 DEF MasterUnlock, PollUnlock, LockNext
<1>3. CASE MasterLockStep \/ PollLockStep \/ PollInterrupted
  BY <1>3 DEF MasterLockStep, PollLockStep, PollInterrupted, LockNext
<1>4. CASE UNCHANGED <<lock, pc, c>>
  BY <1>4
<1>5. QED
  BY <1>1, <1>2, <1>3, <1>4
     DEF Next, MasterStep, ClientStep, ClientCall, Setpgid, AnnounceStart, AnnounceComplete, Exit,
         MasterPut, PollDrain, PollLoad, PollCheck, PollReturn, WaitPid, WaitPidFails, CallPoll,
         CallIsProcessComplete, CallWait, CallKill, KillRead, KillReadFails, KillPg, vars

\* A killed master leaves the word truthful: either it was not inside, or its
\* corpse stays there for ever.
LEMMA LockKept ==
    ASSUME LInv, [Next]_vars
    PROVE  LInv'
<1>1. CASE Terminated
  <2>1. /\ lock' = lock /\ c' = c
        /\ pc' = pc \/ (~Inside("master") /\ pc' = [pc EXCEPT !["master"] = "idle"])
    BY <1>1 DEF Terminated, DiesInside, Inside
  <2>2. pc' \in [Proc -> Places]
    BY <2>1 DEF LInv, LockTypeOK, Places
  <2>3. \A p \in Proc : Inside(p)' <=> Inside(p)
    BY <2>1 DEF Inside, LInv, LockTypeOK
  <2>4. QED
    BY <2>1, <2>2, <2>3 DEF LInv, LockTypeOK, WordTells, MutualExclusion
<1>2. CASE ~Terminated
  BY <1>2, LockSteps, LInvStep
<1>3. QED
  BY <1>1, <1>2

-----------------------------------------------------------------------------
\* Who moves what.
LEMMA AcceptedKept ==
    ASSUME [Next]_vars, ~MasterPut
    PROVE  accepted' = accepted /\ (~PollDrain => UNCHANGED <<cb, got>>)
BY DEF Next, MasterStep, ClientStep, ClientCall, Setpgid, AnnounceStart, AnnounceComplete, Exit,
       Terminated, MasterTryLock, MasterUnlock, MasterLockStep, MasterPut, PollDrain, PollLoad,
       PollCheck, PollReturn, PollTryLock, PollLockStep, PollUnlock, PollInterrupted, WaitPid,
       WaitPidFails, CallPoll, CallIsProcessComplete, CallWait, CallKill, KillRead, KillReadFails,
       KillPg, vars, ClientOnly, mvars, cvars

\* Once the counters have wrapped they stay wrapped.
LEMMA FreshBack ==
    ASSUME Types, [Next]_vars, CountersFresh'
    PROVE  CountersFresh
<1>1. CASE accepted' = accepted
  BY <1>1 DEF CountersFresh
<1>2. CASE accepted' = Append(accepted, sent)
  <2>1. PICK n \in Nat : n = Len(accepted) /\ Len(accepted') = n + 1
    BY <1>2, AppendProperties, LenProperties DEF Types
  <2>2. n * MsgSize \in Nat /\ (n + 1) * MsgSize = n * MsgSize + MsgSize
    BY Bytes
  <2>3. QED
    BY <2>1, <2>2, RingAssumption DEF CountersFresh
<1>3. QED
  BY <1>1, <1>2, AcceptedKept DEF MasterPut

\* Both sides keep the ring in order.
LEMMA RingStep ==
    ASSUME Types, RingInv, [Next]_vars
    PROVE  RingInv'
<1> SUFFICES ASSUME CountersFresh' PROVE RingOK(cb, got, accepted)'
  BY DEF RingInv
<1>1. RingOK(cb, got, accepted) /\ Len(accepted) * MsgSize < CountMod
  BY FreshBack DEF RingInv, CountersFresh
<1>2. cb \in Blocks /\ got \in Seq(Nat) /\ accepted \in Seq(Nat) /\ sent \in Nat
  BY DEF Types
<1>3. CASE UNCHANGED <<cb, got, accepted>>
  BY <1>1, <1>3
<1>4. CASE MasterPut
  <2>1. CASE ~Accepts(cb)
    BY <1>3, <1>4, <2>1 DEF MasterPut, cvars
  <2>2. CASE Accepts(cb)
    <3>1. cb' = WriteBlock(cb, sent) /\ accepted' = Append(accepted, sent) /\ got' = got
      BY <1>4, <2>2 DEF MasterPut, cvars
    <3>2. (Len(accepted) + 1) * MsgSize < CountMod
      BY <1>2, <3>1, AppendProperties DEF CountersFresh
    <3>3. RingOK(WriteBlock(cb, sent), got, Append(accepted, sent))
      BY <1>1, <1>2, <2>2, <3>2, PutRing
    <3>4. QED
      BY <3>1, <3>3
  <2>3. QED
    BY <2>1, <2>2
<1>5. CASE PollDrain
  <2>1. cb' = Drained(cb) /\ accepted' = accepted /\ got' = got \o Messages(cb)
    BY <1>5 DEF PollDrain
  <2>2. got \o Messages(cb) = accepted /\ RingOK(Drained(cb), accepted, accepted)
    BY <1>1, <1>2, FifoHolds, DrainRing
  <2>3. QED
    BY <2>1, <2>2
<1>6. QED
  BY <1>3, <1>4, <1>5, AcceptedKept
\* What the pipe, progress_started and the child's end tell stays true.
LEMMA MasterStepInv ==
    ASSUME Types, MasterInv, [Next]_vars
    PROVE  MasterInv'
<1> USE DEF mvars, cvars, ClientOnly, Reaping
<1>1. CASE Setpgid \/ AnnounceStart \/ AnnounceComplete \/ Exit \/ Terminated
  BY <1>1 DEF Setpgid, AnnounceStart, AnnounceComplete, Exit, Terminated, MasterInv
<1>2. CASE MasterPut
  BY <1>2 DEF MasterPut, MasterInv
<1>3. CASE PollDrain
  BY <1>3 DEF PollDrain, MasterInv
<1>4. CASE PollLoad
  BY <1>4 DEF PollLoad, PollReturns, MasterInv, Types
<1>5. CASE PollCheck \/ PollReturn
  BY <1>5 DEF PollCheck, PollReturn, PollReturns, MasterInv
<1>6. CASE WaitPid \/ WaitPidFails \/ CallPoll \/ CallIsProcessComplete \/ CallWait
  BY <1>6 DEF WaitPid, WaitPidFails, CallPoll, CallIsProcessComplete, CallWait, MasterInv
<1>7. CASE CallKill \/ KillRead \/ KillReadFails \/ KillPg
  BY <1>7 DEF CallKill, KillRead, KillReadFails, KillPg, MasterInv
<1>8. CASE UNCHANGED <<accepted, started, complete, master, group, kill_fd, unread, step, pid, call, saw>>
  BY <1>8 DEF MasterInv
<1>9. QED
  BY <1>1, <1>2, <1>3, <1>4, <1>5, <1>6, <1>7, <1>8
     DEF Next, MasterStep, ClientStep, ClientCall, MasterTryLock, MasterUnlock, MasterLockStep,
         PollTryLock, PollLockStep, PollUnlock, PollInterrupted, vars

\* Whoever reports the end has read everything.
LEMMA DrainStep ==
    ASSUME Types, RingInv, MasterInv, DrainInv, [Next]_vars
    PROVE  DrainInv'
<1> USE DEF mvars, cvars, ClientOnly, Reaping
<1> SUFFICES ASSUME CountersFresh'
             PROVE  /\ step' = "unlock" /\ (saw' \/ Reaping') => got' = accepted'
                    /\ ret' = "complete" => complete' /\ got' = accepted'
                    /\ ~pid' => got' = accepted'
  BY DEF DrainInv
<1>0. /\ step = "unlock" /\ (saw \/ Reaping) => got = accepted
      /\ ret = "complete" => complete /\ got = accepted
      /\ ~pid => got = accepted
  BY FreshBack DEF DrainInv
<1>1. CASE MasterPut
  BY <1>0, <1>1 DEF MasterPut, MasterInv
<1>2. CASE PollDrain
  <2>1. got' = accepted'
    <3>1. RingOK(cb, got, accepted) /\ Len(accepted) * MsgSize < CountMod
      BY FreshBack DEF RingInv, CountersFresh
    <3>2. got \o Messages(cb) = accepted
      BY <3>1, FifoHolds DEF Types
    <3>3. QED
      BY <1>2, <3>2 DEF PollDrain
  <2>2. ret' = ret /\ complete' = complete
    BY <1>2 DEF PollDrain
  <2>3. QED
    BY <1>0, <2>1, <2>2
<1>3. CASE PollLoad
  BY <1>0, <1>3 DEF PollLoad, PollReturns, MasterInv
<1>4. CASE PollCheck
  <2>1. ~started => got = accepted
    <3>1. RingOK(cb, got, accepted)
      BY FreshBack DEF RingInv
    <3>2. ASSUME ~started PROVE Len(accepted) = 0 /\ Len(got) = 0 /\ accepted = <<>>
      <4>1. accepted = <<>>
        BY <3>2 DEF MasterInv
      <4>2. Len(accepted) = 0 /\ Len(got) \in Nat
        BY <4>1, LenProperties DEF Types
      <4>3. QED
        BY <3>1, <4>1, <4>2 DEF RingOK
    <3>3. QED
      BY <3>2, EmptySeq DEF Types
  <2>2. QED
    BY <1>0, <1>4, <2>1 DEF PollCheck, PollReturns
<1>5. CASE PollReturn
  BY <1>0, <1>5 DEF PollReturn, PollReturns, MasterInv
<1>6. CASE WaitPid \/ WaitPidFails \/ CallPoll \/ CallIsProcessComplete \/ CallWait
  BY <1>0, <1>6 DEF WaitPid, WaitPidFails, CallPoll, CallIsProcessComplete, CallWait
<1>7. CASE CallKill \/ KillRead \/ KillReadFails \/ KillPg
  BY <1>0, <1>7 DEF CallKill, KillRead, KillReadFails, KillPg
<1>8. CASE AnnounceComplete
  BY <1>0, <1>8 DEF AnnounceComplete
<1>9. CASE UNCHANGED <<accepted, got, complete, step, pid, call, saw, ret>>
  BY <1>0, <1>9
<1>10. QED
  BY <1>1, <1>2, <1>3, <1>4, <1>5, <1>6, <1>7, <1>8, <1>9
     DEF Next, MasterStep, ClientStep, ClientCall, MasterTryLock, MasterUnlock, MasterLockStep,
         Setpgid, AnnounceStart, Exit, Terminated, PollTryLock, PollLockStep, PollUnlock,
         PollInterrupted, vars

-----------------------------------------------------------------------------
\* The parent and the child just after the fork.
LEMMA InvInit == Init => IInv
<1> USE RingAssumption
<1> SUFFICES ASSUME Init PROVE IInv
  OBVIOUS
<1>1. LInv
  BY LInvInit DEF Init
<1>2. got = <<>> /\ accepted = <<>> /\ Len(got) = 0 /\ Len(accepted) = 0
  <2>1. got = <<>> /\ accepted = <<>>
    BY DEF Init
  <2>2. QED
    BY <2>1
<1>3. Types
  <2>1. Flags
    BY Zenon DEF Init, Flags
  <2>2. NewBlock \in Blocks
    <3>1. 0 \in Slots /\ 0 \in Counts
      BY DEF Slots, Counts
    <3>2. QED
      BY <3>1 DEF NewBlock, Blocks, Slots, Torn
  <2>3. got \in Seq(Nat) /\ accepted \in Seq(Nat)
    BY <1>2
  <2>4. QED
    BY <2>1, <2>2, <2>3 DEF Init, Types, Flags
<1>4. RingInv
  <2>1. At(0, 0) = 0
    <3>1. 0 * MsgSize + 0 = 0 /\ 0 \in 0..RingSize - 1
      OBVIOUS
    <3>2. QED
      BY <3>1, ModSmall DEF At
  <2>2. cb = NewBlock /\ 0 * MsgSize = 0 /\ 0 <= RingSize
    BY DEF Init
  <2>3. QED
    BY <1>2, <2>1, <2>2 DEF RingInv, RingOK, NewBlock
<1>5. MasterInv
  BY <1>2 DEF Init, MasterInv, Reaping
<1>6. DrainInv
  BY <1>2 DEF Init, DrainInv
<1>7. QED
  BY <1>1, <1>3, <1>4, <1>5, <1>6 DEF IInv

\* Every step of either process keeps the invariant.
LEMMA InvStep == IInv /\ [Next]_vars => IInv'
<1> SUFFICES ASSUME IInv, [Next]_vars PROVE IInv'
  OBVIOUS
<1>1. LInv' /\ Types' /\ RingInv'
  BY LockKept, TypesStep, RingStep DEF IInv
<1>2. MasterInv' /\ DrainInv'
  BY MasterStepInv, DrainStep DEF IInv
<1>3. QED
  BY <1>1, <1>2 DEF IInv

(***************************************************************************)
(* The invariant holds in every behaviour.                                 *)
(***************************************************************************)
THEOREM InductiveInvariant == Spec => []IInv
BY InvInit, InvStep, PTL DEF Spec

(***************************************************************************)
(* The types: in particular the offsets stay inside the ring and the lock  *)
(* word in 0..2, also after the master was killed.                         *)
(***************************************************************************)
THEOREM TypeCorrect == Spec => []TypeOK
<1>1. IInv => TypeOK
  BY DEF IInv, LInv, Types, Blocks, Slots, Counts, TypeOK
<1>2. QED
  BY <1>1, InductiveInvariant, PTL

(***************************************************************************)
(* Client and master are never inside the lock at once, wherever the       *)
(* master is killed.                                                       *)
(***************************************************************************)
THEOREM RingGuarded == Spec => []MutualExclusion
<1>1. IInv => MutualExclusion
  BY DEF IInv, LInv
<1>2. QED
  BY <1>1, InductiveInvariant, PTL

(***************************************************************************)
(* The ring is a FIFO until the counters wrap, whatever the sizes of the   *)
(* ring and of a message: a message may straddle the ring's end.           *)
(***************************************************************************)
THEOREM RingIsFifo == Spec => []RingFifo
<1>1. IInv => RingFifo
  <2> SUFFICES ASSUME IInv, CountersFresh PROVE got \o Messages(cb) = accepted
    BY DEF RingFifo, FifoExact
  <2>1. RingOK(cb, got, accepted) /\ Len(accepted) * MsgSize < CountMod
    BY DEF IInv, RingInv, CountersFresh
  <2>2. QED
    BY <2>1, FifoHolds DEF IInv, Types
<1>2. QED
  BY <1>1, InductiveInvariant, PTL

(***************************************************************************)
(* A client that is told Complete has been given every message.            *)
(***************************************************************************)
THEOREM CompleteMeansDrained == Spec => []CompleteDrained
<1>1. IInv => CompleteDrained
  BY DEF IInv, DrainInv, CompleteDrained
<1>2. QED
  BY <1>1, InductiveInvariant, PTL

(***************************************************************************)
(* When wait() or is_process_complete() has reaped the child, every        *)
(* message has been parsed.                                                *)
(***************************************************************************)
THEOREM ReapedMeansDrained == Spec => []ReapedDrained
<1>1. IInv => ReapedDrained
  BY DEF IInv, DrainInv, ReapedDrained
<1>2. QED
  BY <1>1, InductiveInvariant, PTL

(***************************************************************************)
(* kill() signals a group that exists, or a child that is gone.            *)
(***************************************************************************)
THEOREM GroupFound == Spec => []KillFindsGroup
<1>1. IInv => KillFindsGroup
  BY DEF IInv, MasterInv, Types, KillFindsGroup
<1>2. QED
  BY <1>1, InductiveInvariant, PTL

=============================================================================
