----------------------- MODULE ThreadedReplayerProofs -----------------------
(***************************************************************************)
(* Proofs about ThreadedReplayer.  What the main thread and the workers    *)
(* may rely on depends on how far the main thread is in a batch of two     *)
(* chunks; the inductive invariant says it by Pos, the number of the step  *)
(* that is next.                                                           *)
(***************************************************************************)
EXTENDS ThreadedReplayer, SequenceTheorems, FiniteSetTheorems, TLAPS

(***************************************************************************)
(* The steps of a batch, ten numbers for each function of the workload:    *)
(*     0 sync 0     1 parse 0        10 sync 1    11 parse 1    20 prune   *)
(*    40 sync 0    41 modules 0      50 sync 1    51 modules 1             *)
(*    60 sync 3    61 primary 0      70 sync 3    71 primary 1             *)
(*    80 outside 0                   90 outside 1                          *)
(*   100 sync 2   101 parent modules 102 sync 3  103 parents               *)
(*   104 sync 0   105 sync 1                                               *)
(*   120 sync 2   121 reclaim        122 derived 0             130 derived 1*)
(* and 140 outside a batch.                                                *)
(***************************************************************************)
Size == [r \in 0..13 |-> IF r \in {2, 8, 9, 13} THEN 1 ELSE IF r = 10 THEN 6
                         ELSE IF r = 12 THEN 3 ELSE 2]
Phase == order % 14
Batch == order \div 14
Within == tag \in Tag /\ order >= 0
Pos   == IF Within THEN 10 * Phase + Size[Phase] - Len(todo) ELSE 140
Second == 2 * Batch + 1 < Chunks(tag)

\* What can be left of the long scripts.
Parents3 == <<Step("parents", 0), Sync(0), Sync(1)>>
Parents4 == <<Sync(SHADER)>> \o Parents3
Parents5 == <<Step("parent_modules", 0), Sync(SHADER)>> \o Parents3
Parents6 == <<Sync(PARENT), Step("parent_modules", 0), Sync(SHADER)>> \o Parents3
End2 == <<Sync(3), Step("tear_down", 0)>>
End3 == <<Sync(2)>> \o End2
End4 == <<Sync(1), Sync(2)>> \o End2
End5 == <<Sync(0), Sync(1), Sync(2)>> \o End2

\* What can be left of a function of the workload.
Left ==
    /\ Phase \in {0, 1} => todo \in {<<Sync(Phase), Step("parse", Phase)>>,
                                     <<Step("parse", Phase)>>, <<>>}
    /\ Phase = 2 => todo \in {<<Step("prune", 0)>>, <<>>}
    /\ Phase \in {4, 5} => todo \in {<<Sync(Phase - 4), Step("modules", Phase - 4)>>,
                                     <<Step("modules", Phase - 4)>>, <<>>}
    /\ Phase \in {6, 7} => todo \in {<<Sync(SHADER), Step("primary", Phase - 6)>>,
                                     <<Step("primary", Phase - 6)>>, <<>>}
    /\ Phase \in {8, 9} => todo \in {<<Step("outside", Phase - 8)>>, <<>>}
    /\ Phase = 10 => todo \in {Parents6, Parents5, Parents4, Parents3, <<Sync(0), Sync(1)>>,
                                <<Sync(1)>>, <<>>}
    /\ Phase = 12 => todo \in {<<Sync(PARENT), Step("reclaim", 0), Step("derived", 0)>>,
                               <<Step("reclaim", 0), Step("derived", 0)>>,
                               <<Step("derived", 0)>>, <<>>}
    /\ Phase = 13 => todo \in {<<Step("derived", 1)>>, <<>>}

Ending == {End5, End4, End3, End2, <<Step("tear_down", 0)>>, <<Step("join", 0)>>}

Ctl ==
    /\ Within => Has(tag, order) /\ Left
    /\ tag \in Tag /\ order = -1 => todo = <<>> \/ (tag = "graphics" /\ todo = <<Step("boot", 0)>>)
    /\ tag = "end" => todo \in Ending
    /\ tag = "done" => todo = <<>>
    /\ waiting # NoCtx => todo # <<>> /\ Head(todo) = Sync(waiting)

(***************************************************************************)
(* Types.                                                                  *)
(***************************************************************************)
Real == {"parse", "module", "create"}
ItemSet ==
    [kind : {"idle", "boot", "gone"} \cup Real, h : Hash \cup {NoHash}, m : Module \cup {NoMod},
     tag : Tag, index : Nat, ctx : Ctx, outside : BOOLEAN, ep : Nat, from : Hash \cup {NoHash},
     base : {"none", "raw", "null", "live"}, mods : SUBSET (Module \X Nat),
     missing : SUBSET Module, valid : BOOLEAN]
Typed(i) ==
    /\ i \in ItemSet
    /\ i.kind = "parse" => i.h \in Hash
    /\ i.kind = "module" => i.m \in Module
    /\ i.kind = "create" => i.h \in Hash
Jobs == {i \in ItemSet : Typed(i) /\ i.kind \in Real}
Pipes == {d \in InfoSet : d.h \in Hash}
DerivedPipes == {d \in Pipes : Derived(d.h)}

Ops == {"boot", "sync", "parse", "prune", "modules", "primary", "outside", "parent_modules",
        "parents", "reclaim", "derived", "tear_down", "join"}
Steps == [op : Ops, ctx : Ctx]

MainTypes ==
    /\ threads \in 1..Threads /\ robust \in BOOLEAN /\ (robust => threads = 1)
    /\ start \in [Tag -> Nat] /\ (\A t \in Tag : start[t] <= Len(List[t])) /\ masked \subseteq Module
    /\ tag \in Tag \cup {"end", "done"}
    /\ order \in -1..(PASS_COUNT * (Len(List["graphics"]) + Len(List["compute"]) + 1))
    /\ todo \in Seq(Steps) /\ waiting \in Ctx \cup {NoCtx}
    /\ deferred \in [Tag -> [{0, 1} -> Seq(InfoSet)]] /\ derived \in [{0, 1} -> Seq(DerivedPipes)]
    /\ parents \subseteq Pipes /\ IsFiniteSet(parents)
    /\ outside \subseteq Hash /\ enqueued \subseteq Module
SharedTypes ==
    /\ queued \in [Ctx -> Nat] /\ completed \in [Ctx -> Nat]
    /\ pipelines \in [Hash -> {"absent", "null", "live"}]
    /\ cache \in Seq(Module) /\ handle \in [Module -> {"null", "live"}]
    /\ epoch \in [Ctx -> Nat] /\ gen \in [Module -> Nat]
    /\ seen \in [Thread -> SUBSET Module] /\ blame \in [Thread -> SUBSET Module]
    /\ at \in [Thread -> [Tag -> Nat]]
    /\ compiled \in [Hash -> Nat] /\ ever \subseteq Hash /\ crashes \in 0..MaxCrashes
WorkTypes ==
    /\ queue \in Seq(Jobs) /\ work \in [Thread -> Jobs \cup {Idle, Boot, Gone}]
Shape == Ctl /\ MainTypes /\ SharedTypes /\ WorkTypes

-----------------------------------------------------------------------------
(***************************************************************************)
(* Listings of finite sets: what SetToSeqs, Picks and Sortings give.       *)
(***************************************************************************)
LEMMA Listing ==
    ASSUME NEW S, IsFiniteSet(S), NEW f \in SetToSeqs(S)
    PROVE  /\ f \in Seq(S) /\ Len(f) = Cardinality(S) /\ DOMAIN f = 1..Len(f) /\ ToSet(f) = S
           /\ \A i, j \in DOMAIN f : f[i] = f[j] => i = j
<1>1. f \in Injection(1..Cardinality(S), S)
  BY DEF SetToSeqs, Injection, IsInjective
<1>2. Cardinality(S) \in Nat
  BY FS_CardinalityType
<1>3. f \in Surjection(1..Cardinality(S), S)
  <2>1. Cardinality(1..Cardinality(S)) = Cardinality(S)
    BY <1>2, FS_Interval
  <2>2. QED
    BY <1>1, <2>1, FS_Injection
<1>4. f \in [1..Cardinality(S) -> S]
  BY <1>1 DEF Injection
<1>5. f \in Seq(S) /\ Len(f) = Cardinality(S) /\ DOMAIN f = 1..Len(f)
  BY <1>2, <1>4
<1>6. ToSet(f) = S
  BY <1>3, <1>4 DEF Surjection, ToSet
<1>7. \A i, j \in DOMAIN f : f[i] = f[j] => i = j
  BY <1>4 DEF SetToSeqs
<1>8. QED
  BY <1>5, <1>6, <1>7

\* The indices of a sequence that a loop picks.
LEMMA Picking ==
    ASSUME NEW T, NEW s \in Seq(T), NEW S \in SUBSET (DOMAIN s), NEW f \in SetToSeqs(S)
    PROVE  /\ f \in Seq(S) /\ DOMAIN f = 1..Len(f) /\ ToSet(f) = S
           /\ \A i \in DOMAIN f : f[i] \in S
           /\ \A i, j \in DOMAIN f : f[i] = f[j] => i = j
<1>1. IsFiniteSet(DOMAIN s)
  BY FS_Interval
<1>2. IsFiniteSet(S)
  BY <1>1, FS_Subset
<1>3. QED
  BY <1>2, Listing

LEMMA PickSubset == ASSUME NEW S, NEW f \in Picks(S) PROVE f \in SetToSeqs(S)
BY DEF Picks

\* A function on the indices of a sequence is a sequence.
LEMMA Tabulate ==
    ASSUME NEW n \in Nat, NEW T, NEW g, g = [k \in 1..n |-> g[k]], \A k \in 1..n : g[k] \in T
    PROVE  g \in Seq(T) /\ Len(g) = n /\ DOMAIN g = 1..n
<1>1. g \in [1..n -> T]
  OBVIOUS
<1>2. QED
  BY <1>1

\* Sorting permutes.
LEMMA Sorting ==
    ASSUME NEW T, NEW s \in Seq(T), NEW r \in Sortings(s)
    PROVE  /\ r \in Seq(T) /\ Len(r) = Len(s) /\ ToSet(r) = ToSet(s)
           /\ \A i, j \in DOMAIN r : i < j => ~Before(r[j], r[i])
           /\ \E p \in SetToSeqs(DOMAIN s) : r = [i \in DOMAIN s |-> s[p[i]]]
<1>1. PICK p \in SetToSeqs(DOMAIN s) :
          /\ r = [i \in DOMAIN s |-> s[p[i]]]
          /\ \A i, j \in DOMAIN s : i < j => ~Before(s[p[j]], s[p[i]])
  BY DEF Sortings
<1>2. /\ IsFiniteSet(DOMAIN s) /\ Cardinality(DOMAIN s) = Len(s) /\ Len(s) \in Nat
      /\ DOMAIN s = 1..Len(s)
  <2>1. DOMAIN s = 1..Len(s) /\ Len(s) \in Nat
    OBVIOUS
  <2>2. IsFiniteSet(1..Len(s)) /\ Cardinality(1..Len(s)) = Len(s)
    BY <2>1, FS_Interval
  <2>3. QED
    BY <2>1, <2>2
<1>3. /\ p \in Seq(DOMAIN s) /\ Len(p) = Len(s) /\ DOMAIN p = DOMAIN s /\ ToSet(p) = DOMAIN s
  BY <1>2, Listing
<1>4. r \in Seq(T) /\ Len(r) = Len(s) /\ DOMAIN r = DOMAIN s
  <2>1. r \in [1..Len(s) -> T]
    BY <1>1, <1>2, <1>3
  <2>2. QED
    BY <1>2, <2>1
<1>5. ToSet(r) = ToSet(s)
  <2>1. \A i \in DOMAIN s : p[i] \in DOMAIN s
    BY <1>3
  <2>2. \A j \in DOMAIN s : \E i \in DOMAIN s : p[i] = j
    BY <1>3 DEF ToSet
  <2>3. QED
    BY <1>1, <1>4, <2>1, <2>2 DEF ToSet
<1>6. QED
  BY <1>1, <1>4, <1>5
-----------------------------------------------------------------------------
(***************************************************************************)
(* Chunks: how many there are, where one begins and ends.                  *)
(***************************************************************************)
LEMMA Quotient == ASSUME NEW n \in Nat \ {0}, NEW a \in Nat
                  PROVE  a \div n \in Nat /\ n * (a \div n) <= a /\ a < n * (a \div n) + n
OBVIOUS

LEMMA Times == ASSUME NEW a \in Int, NEW b \in Int PROVE a * b \in Int
OBVIOUS

LEMMA ChunkCount ==
    ASSUME MainTypes, NEW t \in Tag
    PROVE  /\ Len(List[t]) \in Nat /\ start[t] \in Nat /\ Count(t) \in Nat /\ Chunks(t) \in Nat
           /\ Chunks(t) <= Len(List[t])
           /\ \A c \in Nat : c < Chunks(t) => c * PerContext < Count(t)
<1>1. /\ Len(List[t]) \in Nat /\ start[t] \in Nat /\ Count(t) \in Nat /\ Count(t) <= Len(List[t])
  BY ReplayerAssumption DEF MainTypes, Count
<1>2. PICK P \in Nat \ {0}, n \in Nat : P = PerContext /\ n = Count(t)
  BY <1>1, ReplayerAssumption
<1>3. PICK a \in Nat : a = n + P - 1
  BY <1>2
<1>4. PICK K \in Nat : K = a \div P /\ P * K <= a /\ a < P * K + P
  BY <1>2, Quotient
<1>5. Chunks(t) = K
  BY <1>2, <1>3, <1>4 DEF Chunks
<1>6. K <= n
  <2>1. SUFFICES ASSUME K >= n + 1 PROVE FALSE
    BY <1>4
  <2>2. P * K >= P * (n + 1)
    BY <2>1
  <2>3. P * (n + 1) = P * n + P
    OBVIOUS
  <2>4. P * n >= n
    OBVIOUS
  <2>5. QED
    BY <2>2, <2>3, <2>4, <1>3, <1>4
<1>7. ASSUME NEW c \in Nat, c < K PROVE c * P < n
  <2>1. P * (c + 1) <= P * K
    BY <1>7
  <2>2. P * (c + 1) = c * P + P
    OBVIOUS
  <2>3. QED
    BY <2>1, <2>2, <1>3, <1>4
<1>8. QED
  BY <1>1, <1>2, <1>5, <1>6, <1>7

\* The slots of a chunk and their places in the list.
Spot(c, k) == start[tag] + (2 * Batch + c) * PerContext + k

LEMMA ChunkPlace ==
    ASSUME MainTypes, Within, Has(tag, order), NEW c \in {0, 1}, Place(order) = c
    PROVE  /\ Batch \in Nat /\ Spot(c, 0) \in Nat
           /\ Offset(order) = (2 * Batch + c) * PerContext /\ Offset(order) \in Nat
           /\ Submit(tag, order) \in 1..PerContext
           /\ \A i \in 1..PerContext : i <= Submit(tag, order) <=> Spot(c, i) \in DOMAIN List[tag]
           /\ \A i : HashAt(tag, order, i) = List[tag][Spot(c, i)]
           /\ \A i \in 1..Submit(tag, order) :
                 Spot(c, i) \in DOMAIN List[tag] /\ HashAt(tag, order, i) \in Hash
<1>1. tag \in Tag /\ order \in Nat /\ Batch \in Nat
  BY DEF Within, MainTypes, Batch
<1>2. Chunk(order) = 2 * Batch + c /\ 2 * Batch + c \in Nat
  BY <1>1 DEF Chunk, Batch, PASS_COUNT
<1>3. PICK x \in Nat : x = (2 * Batch + c) * PerContext /\ x < Count(tag)
  BY <1>1, <1>2, ChunkCount, ReplayerAssumption, Times DEF Has
<1>4. Offset(order) = x
  BY <1>2, <1>3 DEF Offset
<1>5. /\ Len(List[tag]) \in Nat /\ start[tag] \in Nat /\ Count(tag) = Len(List[tag]) - start[tag]
      /\ DOMAIN List[tag] = 1..Len(List[tag]) /\ PerContext \in Nat \ {0}
      /\ \A p \in DOMAIN List[tag] : List[tag][p] \in Hash
  BY <1>1, ReplayerAssumption DEF MainTypes, Count
<1>6. \A i : Spot(c, i) = start[tag] + x + i
  BY <1>3 DEF Spot
<1>7. Submit(tag, order) \in 1..PerContext
  BY <1>3, <1>4, <1>5 DEF Submit
<1>8. \A i \in 1..PerContext : i <= Submit(tag, order) <=> start[tag] + x + i \in DOMAIN List[tag]
  BY <1>3, <1>4, <1>5 DEF Submit
<1>9. \A i : HashAt(tag, order, i) = List[tag][start[tag] + x + i]
  BY <1>4 DEF HashAt
<1>10. Spot(c, 0) \in Nat
  BY <1>3, <1>5, <1>6
<1>11. \A i \in 1..PerContext : i <= Submit(tag, order) <=> Spot(c, i) \in DOMAIN List[tag]
  BY <1>6, <1>8
<1>12. \A i : HashAt(tag, order, i) = List[tag][Spot(c, i)]
  BY <1>6, <1>9
<1>13. ASSUME NEW i \in 1..Submit(tag, order)
       PROVE  Spot(c, i) \in DOMAIN List[tag] /\ HashAt(tag, order, i) \in Hash
  <2>1. i \in 1..PerContext /\ i <= Submit(tag, order)
    BY <1>5, <1>7
  <2>2. Spot(c, i) \in DOMAIN List[tag]
    BY <1>11, <2>1
  <2>3. QED
    BY <1>5, <1>12, <2>2
<1>14. QED
  BY <1>1, <1>3, <1>4, <1>7, <1>10, <1>11, <1>12, <1>13
-----------------------------------------------------------------------------
(***************************************************************************)
(* Where the main thread is.                                               *)
(***************************************************************************)
\* Scripts of more than four steps.
LEMMA LongScripts ==
    /\ Parents6 # <<>> /\ Len(Parents6) = 6 /\ Head(Parents6) = Sync(PARENT) /\ Tail(Parents6) = Parents5
    /\ Parents5 # <<>> /\ Len(Parents5) = 5 /\ Head(Parents5) = Step("parent_modules", 0)
    /\ Tail(Parents5) = Parents4
    /\ Parents4 # <<>> /\ Len(Parents4) = 4 /\ Head(Parents4) = Sync(SHADER) /\ Tail(Parents4) = Parents3
    /\ Parents3 # <<>> /\ Len(Parents3) = 3 /\ Head(Parents3) = Step("parents", 0)
    /\ Tail(Parents3) = <<Sync(0), Sync(1)>>
    /\ End5 # <<>> /\ Len(End5) = 5 /\ Head(End5) = Sync(0) /\ Tail(End5) = End4
    /\ End4 # <<>> /\ Len(End4) = 4 /\ Head(End4) = Sync(1) /\ Tail(End4) = End3
    /\ End3 # <<>> /\ Len(End3) = 3 /\ Head(End3) = Sync(2) /\ Tail(End3) = End2
    /\ End2 # <<>> /\ Len(End2) = 2 /\ Head(End2) = Sync(3) /\ Tail(End2) = <<Step("tear_down", 0)>>
<1>1. PICK a, b, c, d, e, f : /\ a = Sync(PARENT) /\ b = Step("parent_modules", 0) /\ c = Sync(SHADER)
                              /\ d = Step("parents", 0) /\ e = Sync(0) /\ f = Sync(1)
  OBVIOUS
<1>2. PICK p, q, r, t : p = Sync(2) /\ q = Sync(3) /\ r = Step("tear_down", 0) /\ t = Sync(1)
  OBVIOUS
<1>3. /\ Parents6 = <<a, b, c>> \o <<d, e, f>> /\ Parents5 = <<b, c>> \o <<d, e, f>>
      /\ Parents4 = <<c>> \o <<d, e, f>> /\ Parents3 = <<d, e, f>>
  BY <1>1 DEF Parents6, Parents5, Parents4, Parents3
<1>4. /\ End5 = <<e, t, p>> \o <<q, r>> /\ End4 = <<t, p>> \o <<q, r>>
      /\ End3 = <<p>> \o <<q, r>> /\ End2 = <<q, r>>
  BY <1>1, <1>2 DEF End5, End4, End3, End2
<1>5. /\ <<a, b, c>> \o <<d, e, f>> # <<>> /\ Len(<<a, b, c>> \o <<d, e, f>>) = 6
      /\ Head(<<a, b, c>> \o <<d, e, f>>) = a
      /\ Tail(<<a, b, c>> \o <<d, e, f>>) = <<b, c>> \o <<d, e, f>>
  OBVIOUS
<1>6. /\ <<b, c>> \o <<d, e, f>> # <<>> /\ Len(<<b, c>> \o <<d, e, f>>) = 5
      /\ Head(<<b, c>> \o <<d, e, f>>) = b
      /\ Tail(<<b, c>> \o <<d, e, f>>) = <<c>> \o <<d, e, f>>
  OBVIOUS
<1>7. /\ <<c>> \o <<d, e, f>> # <<>> /\ Len(<<c>> \o <<d, e, f>>) = 4
      /\ Head(<<c>> \o <<d, e, f>>) = c /\ Tail(<<c>> \o <<d, e, f>>) = <<d, e, f>>
  <2>1. <<d, e, f>> \in Seq({c, d, e, f})
    OBVIOUS
  <2>2. ASSUME NEW u \in Seq({c, d, e, f}) PROVE Tail(<<c>> \o u) = u
    OBVIOUS
  <2>3. <<c>> \o <<d, e, f>> # <<>> /\ Len(<<c>> \o <<d, e, f>>) = 4 /\ Head(<<c>> \o <<d, e, f>>) = c
    OBVIOUS
  <2>4. QED
    BY <2>1, <2>2, <2>3
<1>8. <<d, e, f>> # <<>> /\ Len(<<d, e, f>>) = 3 /\ Head(<<d, e, f>>) = d /\ Tail(<<d, e, f>>) = <<e, f>>
  OBVIOUS
<1>9. /\ <<e, t, p>> \o <<q, r>> # <<>> /\ Len(<<e, t, p>> \o <<q, r>>) = 5
      /\ Head(<<e, t, p>> \o <<q, r>>) = e
      /\ Tail(<<e, t, p>> \o <<q, r>>) = <<t, p>> \o <<q, r>>
  OBVIOUS
<1>10. /\ <<t, p>> \o <<q, r>> # <<>> /\ Len(<<t, p>> \o <<q, r>>) = 4
       /\ Head(<<t, p>> \o <<q, r>>) = t
       /\ Tail(<<t, p>> \o <<q, r>>) = <<p>> \o <<q, r>>
  OBVIOUS
<1>11. /\ <<p>> \o <<q, r>> # <<>> /\ Len(<<p>> \o <<q, r>>) = 3
       /\ Head(<<p>> \o <<q, r>>) = p /\ Tail(<<p>> \o <<q, r>>) = <<q, r>>
  <2>1. <<q, r>> \in Seq({q, r})
    OBVIOUS
  <2>2. ASSUME NEW u \in Seq({q, r}) PROVE Tail(<<p>> \o u) = u
    OBVIOUS
  <2>3. <<p>> \o <<q, r>> # <<>> /\ Len(<<p>> \o <<q, r>>) = 3 /\ Head(<<p>> \o <<q, r>>) = p
    OBVIOUS
  <2>4. QED
    BY <2>1, <2>2, <2>3
<1>12. <<q, r>> # <<>> /\ Len(<<q, r>>) = 2 /\ Head(<<q, r>>) = q /\ Tail(<<q, r>>) = <<r>>
  OBVIOUS
<1>13. /\ Parents6 # <<>> /\ Len(Parents6) = 6 /\ Head(Parents6) = a /\ Tail(Parents6) = Parents5
       /\ Parents5 # <<>> /\ Len(Parents5) = 5 /\ Head(Parents5) = b /\ Tail(Parents5) = Parents4
       /\ Parents4 # <<>> /\ Len(Parents4) = 4 /\ Head(Parents4) = c /\ Tail(Parents4) = Parents3
       /\ Parents3 # <<>> /\ Len(Parents3) = 3 /\ Head(Parents3) = d /\ Tail(Parents3) = <<e, f>>
  BY <1>3, <1>5, <1>6, <1>7, <1>8, Zenon
<1>14. /\ End5 # <<>> /\ Len(End5) = 5 /\ Head(End5) = e /\ Tail(End5) = End4
       /\ End4 # <<>> /\ Len(End4) = 4 /\ Head(End4) = t /\ Tail(End4) = End3
       /\ End3 # <<>> /\ Len(End3) = 3 /\ Head(End3) = p /\ Tail(End3) = End2
       /\ End2 # <<>> /\ Len(End2) = 2 /\ Head(End2) = q /\ Tail(End2) = <<r>>
  BY <1>4, <1>9, <1>10, <1>11, <1>12, Zenon
<1>15. QED
  BY <1>1, <1>2, <1>13, <1>14, Zenon

Row(p, op, c) == Pos = p /\ Doing(op) /\ Here = c
Phases == {0, 1, 2, 4, 5, 6, 7, 8, 9, 10, 12, 13}

LEMMA PhaseFacts ==
    ASSUME MainTypes, Ctl, Within
    PROVE  /\ order \in Nat /\ Phase \in Phases /\ Batch \in Nat /\ order = 14 * Batch + Phase
           /\ Place(order) = Phase % 2 /\ Chunk(order) = 2 * Batch + (Phase % 2)
           /\ (Phase % 2 = 1 => Second) /\ 2 * Batch < Chunks(tag)
<1>1. order \in Nat /\ tag \in Tag /\ Has(tag, order) /\ Chunks(tag) \in Nat
  <2>1. order \in Nat /\ tag \in Tag /\ Has(tag, order)
    BY DEF Ctl, Within, MainTypes
  <2>2. QED
    BY <2>1, ChunkCount
<1>2. Batch \in Nat /\ Phase \in 0..13 /\ order = 14 * Batch + Phase
  BY <1>1 DEF Batch, Phase
<1>3. Place(order) = Phase % 2 /\ Pass(order) = Phase \div 2 /\ Chunk(order) = 2 * Batch + (Phase % 2)
  <2>1. Place(order) = Phase % 2
    BY <1>1 DEF Place, Phase
  <2>2. Pass(order) = Phase \div 2
    BY <1>1 DEF Pass, Phase, PASS_COUNT
  <2>3. Chunk(order) = 2 * Batch + Place(order)
    BY <1>1 DEF Chunk, Batch, PASS_COUNT
  <2>4. QED
    BY <1>2, <2>1, <2>2, <2>3
<1>4. 2 * Batch + (Phase % 2) < Chunks(tag) /\ (Phase \div 2 \in {1, 5} => Phase % 2 = 0)
  BY <1>1, <1>3 DEF Has
<1>5. Phase \in Phases
  BY <1>2, <1>4 DEF Phases
<1>6. (Phase % 2 = 1 => Second) /\ 2 * Batch < Chunks(tag)
  BY <1>1, <1>2, <1>4 DEF Second
<1>7. QED
  BY <1>1, <1>2, <1>3, <1>5, <1>6

\* What there is to do at which number.
Idles == {2, 12, 21, 42, 52, 62, 72, 81, 91, 106, 123, 131}
Table ==
    \/ todo = <<>> /\ Pos \in Idles
    \/ Row(0, "sync", 0) \/ Row(1, "parse", 0) \/ Row(10, "sync", 1) \/ Row(11, "parse", 1)
    \/ Row(20, "prune", 0)
    \/ Row(40, "sync", 0) \/ Row(41, "modules", 0) \/ Row(50, "sync", 1) \/ Row(51, "modules", 1)
    \/ Row(60, "sync", 3) \/ Row(61, "primary", 0) \/ Row(70, "sync", 3) \/ Row(71, "primary", 1)
    \/ Row(80, "outside", 0) \/ Row(90, "outside", 1)
    \/ Row(100, "sync", 2) \/ Row(101, "parent_modules", 0) \/ Row(102, "sync", 3)
    \/ Row(103, "parents", 0) \/ Row(104, "sync", 0) \/ Row(105, "sync", 1)
    \/ Row(120, "sync", 2) \/ Row(121, "reclaim", 0) \/ Row(122, "derived", 0)
    \/ Row(130, "derived", 1)

LEMMA TableHolds ==
    ASSUME MainTypes, Ctl, Within
    PROVE  Table /\ 10 * Phase <= Pos /\ Pos < 10 * Phase + 10 /\ Pos \in Nat
<1>1. Left /\ Phase \in Phases
  BY PhaseFacts DEF Ctl
<1>2. Pos = 10 * Phase + Size[Phase] - Len(todo)
  BY DEF Pos
<1>3. CASE Phase = 0
  <2>1. Pos = 2 - Len(todo)
    BY <1>2, <1>3 DEF Size
  <2>2. \/ todo = <<Sync(0), Step("parse", 0)>>
        \/ todo = <<Step("parse", 0)>>
        \/ todo = <<>>
    BY <1>1, <1>3 DEF Left
  <2>3. CASE todo = <<Sync(0), Step("parse", 0)>>
    <3>1. Row(0, "sync", 0)
      BY <2>1, <2>3 DEF Row, Doing, Here, Sync, Step
    <3>2. QED
      BY <1>3, <2>3, <3>1 DEF Table, Row
  <2>4. CASE todo = <<Step("parse", 0)>>
    <3>1. Row(1, "parse", 0)
      BY <2>1, <2>4 DEF Row, Doing, Here, Sync, Step
    <3>2. QED
      BY <1>3, <2>4, <3>1 DEF Table, Row
  <2>5. CASE todo = <<>>
    <3>1. Pos = 2
      BY <2>1, <2>5
    <3>2. QED
      BY <1>3, <2>5, <3>1 DEF Table, Idles
  <2>6. QED
    BY <2>2, <2>3, <2>4, <2>5
<1>4. CASE Phase = 1
  <2>1. Pos = 12 - Len(todo)
    BY <1>2, <1>4 DEF Size
  <2>2. \/ todo = <<Sync(1), Step("parse", 1)>>
        \/ todo = <<Step("parse", 1)>>
        \/ todo = <<>>
    BY <1>1, <1>4 DEF Left
  <2>3. CASE todo = <<Sync(1), Step("parse", 1)>>
    <3>1. Row(10, "sync", 1)
      BY <2>1, <2>3 DEF Row, Doing, Here, Sync, Step
    <3>2. QED
      BY <1>4, <2>3, <3>1 DEF Table, Row
  <2>4. CASE todo = <<Step("parse", 1)>>
    <3>1. Row(11, "parse", 1)
      BY <2>1, <2>4 DEF Row, Doing, Here, Sync, Step
    <3>2. QED
      BY <1>4, <2>4, <3>1 DEF Table, Row
  <2>5. CASE todo = <<>>
    <3>1. Pos = 12
      BY <2>1, <2>5
    <3>2. QED
      BY <1>4, <2>5, <3>1 DEF Table, Idles
  <2>6. QED
    BY <2>2, <2>3, <2>4, <2>5
<1>5. CASE Phase = 2
  <2>1. Pos = 21 - Len(todo)
    BY <1>2, <1>5 DEF Size
  <2>2. \/ todo = <<Step("prune", 0)>>
        \/ todo = <<>>
    BY <1>1, <1>5 DEF Left
  <2>3. CASE todo = <<Step("prune", 0)>>
    <3>1. Row(20, "prune", 0)
      BY <2>1, <2>3 DEF Row, Doing, Here, Sync, Step
    <3>2. QED
      BY <1>5, <2>3, <3>1 DEF Table, Row
  <2>4. CASE todo = <<>>
    <3>1. Pos = 21
      BY <2>1, <2>4
    <3>2. QED
      BY <1>5, <2>4, <3>1 DEF Table, Idles
  <2>5. QED
    BY <2>2, <2>3, <2>4
<1>6. CASE Phase = 4
  <2>1. Pos = 42 - Len(todo)
    BY <1>2, <1>6 DEF Size
  <2>2. \/ todo = <<Sync(0), Step("modules", 0)>>
        \/ todo = <<Step("modules", 0)>>
        \/ todo = <<>>
    BY <1>1, <1>6 DEF Left
  <2>3. CASE todo = <<Sync(0), Step("modules", 0)>>
    <3>1. Row(40, "sync", 0)
      BY <2>1, <2>3 DEF Row, Doing, Here, Sync, Step
    <3>2. QED
      BY <1>6, <2>3, <3>1 DEF Table, Row
  <2>4. CASE todo = <<Step("modules", 0)>>
    <3>1. Row(41, "modules", 0)
      BY <2>1, <2>4 DEF Row, Doing, Here, Sync, Step
    <3>2. QED
      BY <1>6, <2>4, <3>1 DEF Table, Row
  <2>5. CASE todo = <<>>
    <3>1. Pos = 42
      BY <2>1, <2>5
    <3>2. QED
      BY <1>6, <2>5, <3>1 DEF Table, Idles
  <2>6. QED
    BY <2>2, <2>3, <2>4, <2>5
<1>7. CASE Phase = 5
  <2>1. Pos = 52 - Len(todo)
    BY <1>2, <1>7 DEF Size
  <2>2. \/ todo = <<Sync(1), Step("modules", 1)>>
        \/ todo = <<Step("modules", 1)>>
        \/ todo = <<>>
    BY <1>1, <1>7 DEF Left
  <2>3. CASE todo = <<Sync(1), Step("modules", 1)>>
    <3>1. Row(50, "sync", 1)
      BY <2>1, <2>3 DEF Row, Doing, Here, Sync, Step
    <3>2. QED
      BY <1>7, <2>3, <3>1 DEF Table, Row
  <2>4. CASE todo = <<Step("modules", 1)>>
    <3>1. Row(51, "modules", 1)
      BY <2>1, <2>4 DEF Row, Doing, Here, Sync, Step
    <3>2. QED
      BY <1>7, <2>4, <3>1 DEF Table, Row
  <2>5. CASE todo = <<>>
    <3>1. Pos = 52
      BY <2>1, <2>5
    <3>2. QED
      BY <1>7, <2>5, <3>1 DEF Table, Idles
  <2>6. QED
    BY <2>2, <2>3, <2>4, <2>5
<1>8. CASE Phase = 6
  <2>1. Pos = 62 - Len(todo)
    BY <1>2, <1>8 DEF Size
  <2>2. \/ todo = <<Sync(SHADER), Step("primary", 0)>>
        \/ todo = <<Step("primary", 0)>>
        \/ todo = <<>>
    BY <1>1, <1>8 DEF Left
  <2>3. CASE todo = <<Sync(SHADER), Step("primary", 0)>>
    <3>1. Row(60, "sync", 3)
      BY <2>1, <2>3 DEF Row, Doing, Here, Sync, Step, SHADER, PARENT
    <3>2. QED
      BY <1>8, <2>3, <3>1 DEF Table, Row
  <2>4. CASE todo = <<Step("primary", 0)>>
    <3>1. Row(61, "primary", 0)
      BY <2>1, <2>4 DEF Row, Doing, Here, Sync, Step, SHADER, PARENT
    <3>2. QED
      BY <1>8, <2>4, <3>1 DEF Table, Row
  <2>5. CASE todo = <<>>
    <3>1. Pos = 62
      BY <2>1, <2>5
    <3>2. QED
      BY <1>8, <2>5, <3>1 DEF Table, Idles
  <2>6. QED
    BY <2>2, <2>3, <2>4, <2>5
<1>9. CASE Phase = 7
  <2>1. Pos = 72 - Len(todo)
    BY <1>2, <1>9 DEF Size
  <2>2. \/ todo = <<Sync(SHADER), Step("primary", 1)>>
        \/ todo = <<Step("primary", 1)>>
        \/ todo = <<>>
    BY <1>1, <1>9 DEF Left
  <2>3. CASE todo = <<Sync(SHADER), Step("primary", 1)>>
    <3>1. Row(70, "sync", 3)
      BY <2>1, <2>3 DEF Row, Doing, Here, Sync, Step, SHADER, PARENT
    <3>2. QED
      BY <1>9, <2>3, <3>1 DEF Table, Row
  <2>4. CASE todo = <<Step("primary", 1)>>
    <3>1. Row(71, "primary", 1)
      BY <2>1, <2>4 DEF Row, Doing, Here, Sync, Step, SHADER, PARENT
    <3>2. QED
      BY <1>9, <2>4, <3>1 DEF Table, Row
  <2>5. CASE todo = <<>>
    <3>1. Pos = 72
      BY <2>1, <2>5
    <3>2. QED
      BY <1>9, <2>5, <3>1 DEF Table, Idles
  <2>6. QED
    BY <2>2, <2>3, <2>4, <2>5
<1>10. CASE Phase = 8
  <2>1. Pos = 81 - Len(todo)
    BY <1>2, <1>10 DEF Size
  <2>2. \/ todo = <<Step("outside", 0)>>
        \/ todo = <<>>
    BY <1>1, <1>10 DEF Left
  <2>3. CASE todo = <<Step("outside", 0)>>
    <3>1. Row(80, "outside", 0)
      BY <2>1, <2>3 DEF Row, Doing, Here, Sync, Step
    <3>2. QED
      BY <1>10, <2>3, <3>1 DEF Table, Row
  <2>4. CASE todo = <<>>
    <3>1. Pos = 81
      BY <2>1, <2>4
    <3>2. QED
      BY <1>10, <2>4, <3>1 DEF Table, Idles
  <2>5. QED
    BY <2>2, <2>3, <2>4
<1>11. CASE Phase = 9
  <2>1. Pos = 91 - Len(todo)
    BY <1>2, <1>11 DEF Size
  <2>2. \/ todo = <<Step("outside", 1)>>
        \/ todo = <<>>
    BY <1>1, <1>11 DEF Left
  <2>3. CASE todo = <<Step("outside", 1)>>
    <3>1. Row(90, "outside", 1)
      BY <2>1, <2>3 DEF Row, Doing, Here, Sync, Step
    <3>2. QED
      BY <1>11, <2>3, <3>1 DEF Table, Row
  <2>4. CASE todo = <<>>
    <3>1. Pos = 91
      BY <2>1, <2>4
    <3>2. QED
      BY <1>11, <2>4, <3>1 DEF Table, Idles
  <2>5. QED
    BY <2>2, <2>3, <2>4
<1>12. CASE Phase = 10
  <2>1. Pos = 106 - Len(todo)
    BY <1>2, <1>12 DEF Size
  <2>2. \/ todo = Parents6 \/ todo = Parents5 \/ todo = Parents4 \/ todo = Parents3
        \/ todo = <<Sync(0), Sync(1)>> \/ todo = <<Sync(1)>> \/ todo = <<>>
    BY <1>1, <1>12 DEF Left
  <2>3. CASE todo = Parents6
    <3>1. todo # <<>> /\ Len(todo) = 6 /\ Head(todo) = Sync(PARENT)
      BY <2>3, LongScripts, Zenon
    <3>2. Row(100, "sync", 2)
      BY <2>1, <3>1 DEF Row, Doing, Here, Sync, Step, SHADER, PARENT
    <3>3. QED
      BY <1>12, <3>2 DEF Table, Row
  <2>4. CASE todo = Parents5
    <3>1. todo # <<>> /\ Len(todo) = 5 /\ Head(todo) = Step("parent_modules", 0)
      BY <2>4, LongScripts, Zenon
    <3>2. Row(101, "parent_modules", 0)
      BY <2>1, <3>1 DEF Row, Doing, Here, Sync, Step, SHADER, PARENT
    <3>3. QED
      BY <1>12, <3>2 DEF Table, Row
  <2>5. CASE todo = Parents4
    <3>1. todo # <<>> /\ Len(todo) = 4 /\ Head(todo) = Sync(SHADER)
      BY <2>5, LongScripts, Zenon
    <3>2. Row(102, "sync", 3)
      BY <2>1, <3>1 DEF Row, Doing, Here, Sync, Step, SHADER, PARENT
    <3>3. QED
      BY <1>12, <3>2 DEF Table, Row
  <2>6. CASE todo = Parents3
    <3>1. todo # <<>> /\ Len(todo) = 3 /\ Head(todo) = Step("parents", 0)
      BY <2>6, LongScripts, Zenon
    <3>2. Row(103, "parents", 0)
      BY <2>1, <3>1 DEF Row, Doing, Here, Sync, Step, SHADER, PARENT
    <3>3. QED
      BY <1>12, <3>2 DEF Table, Row
  <2>7. CASE todo = <<Sync(0), Sync(1)>>
    <3>1. Row(104, "sync", 0)
      BY <2>1, <2>7 DEF Row, Doing, Here, Sync, Step
    <3>2. QED
      BY <1>12, <3>1 DEF Table, Row
  <2>8. CASE todo = <<Sync(1)>>
    <3>1. Row(105, "sync", 1)
      BY <2>1, <2>8 DEF Row, Doing, Here, Sync, Step
    <3>2. QED
      BY <1>12, <3>1 DEF Table, Row
  <2>9. CASE todo = <<>>
    <3>1. Pos = 106
      BY <2>1, <2>9
    <3>2. QED
      BY <1>12, <2>9, <3>1 DEF Table, Idles
  <2>10. QED
    BY <2>2, <2>3, <2>4, <2>5, <2>6, <2>7, <2>8, <2>9
<1>13. CASE Phase = 12
  <2>1. Pos = 123 - Len(todo)
    BY <1>2, <1>13 DEF Size
  <2>2. \/ todo = <<Sync(PARENT), Step("reclaim", 0), Step("derived", 0)>>
        \/ todo = <<Step("reclaim", 0), Step("derived", 0)>>
        \/ todo = <<Step("derived", 0)>>
        \/ todo = <<>>
    BY <1>1, <1>13 DEF Left
  <2>3. CASE todo = <<Sync(PARENT), Step("reclaim", 0), Step("derived", 0)>>
    <3>1. Row(120, "sync", 2)
      BY <2>1, <2>3 DEF Row, Doing, Here, Sync, Step, SHADER, PARENT
    <3>2. QED
      BY <1>13, <2>3, <3>1 DEF Table, Row
  <2>4. CASE todo = <<Step("reclaim", 0), Step("derived", 0)>>
    <3>1. Row(121, "reclaim", 0)
      BY <2>1, <2>4 DEF Row, Doing, Here, Sync, Step, SHADER, PARENT
    <3>2. QED
      BY <1>13, <2>4, <3>1 DEF Table, Row
  <2>5. CASE todo = <<Step("derived", 0)>>
    <3>1. Row(122, "derived", 0)
      BY <2>1, <2>5 DEF Row, Doing, Here, Sync, Step, SHADER, PARENT
    <3>2. QED
      BY <1>13, <2>5, <3>1 DEF Table, Row
  <2>6. CASE todo = <<>>
    <3>1. Pos = 123
      BY <2>1, <2>6
    <3>2. QED
      BY <1>13, <2>6, <3>1 DEF Table, Idles
  <2>7. QED
    BY <2>2, <2>3, <2>4, <2>5, <2>6
<1>14. CASE Phase = 13
  <2>1. Pos = 131 - Len(todo)
    BY <1>2, <1>14 DEF Size
  <2>2. \/ todo = <<Step("derived", 1)>>
        \/ todo = <<>>
    BY <1>1, <1>14 DEF Left
  <2>3. CASE todo = <<Step("derived", 1)>>
    <3>1. Row(130, "derived", 1)
      BY <2>1, <2>3 DEF Row, Doing, Here, Sync, Step
    <3>2. QED
      BY <1>14, <2>3, <3>1 DEF Table, Row
  <2>4. CASE todo = <<>>
    <3>1. Pos = 131
      BY <2>1, <2>4
    <3>2. QED
      BY <1>14, <2>4, <3>1 DEF Table, Idles
  <2>5. QED
    BY <2>2, <2>3, <2>4
<1>15. QED
  BY <1>1, <1>3, <1>4, <1>5, <1>6, <1>7, <1>8, <1>9, <1>10, <1>11, <1>12, <1>13, <1>14 DEF Phases

\* Outside a batch.
Outer ==
    \/ tag \in Tag /\ order = -1 /\ todo = <<>>
    \/ tag = "graphics" /\ order = -1 /\ todo = <<Step("boot", 0)>> /\ Doing("boot")
    \/ tag = "end" /\ Len(todo) \in 2..5 /\ Doing("sync") /\ Here = 5 - Len(todo)
    \/ tag = "end" /\ todo = <<Step("tear_down", 0)>> /\ Doing("tear_down")
    \/ tag = "end" /\ todo = <<Step("join", 0)>> /\ Doing("join")
    \/ tag = "done" /\ todo = <<>>

LEMMA OuterHolds ==
    ASSUME MainTypes, Ctl, ~Within
    PROVE  Outer /\ Pos = 140
<1>1. Pos = 140
  BY DEF Pos
<1>2. CASE tag \in Tag
  <2>1. order = -1
    BY <1>2 DEF Within, MainTypes
  <2>2. todo = <<>> \/ (tag = "graphics" /\ todo = <<Step("boot", 0)>>)
    BY <1>2, <2>1 DEF Ctl
  <2>3. CASE todo = <<>>
    BY <1>1, <1>2, <2>1, <2>3 DEF Outer
  <2>4. CASE tag = "graphics" /\ todo = <<Step("boot", 0)>>
    <3>1. Doing("boot")
      BY <2>4 DEF Doing, Step
    <3>2. QED
      BY <1>1, <2>1, <2>4, <3>1 DEF Outer
  <2>5. QED
    BY <2>2, <2>3, <2>4
<1>3. CASE tag = "end"
  <2>1. \/ todo = End5 \/ todo = End4 \/ todo = End3 \/ todo = End2
        \/ todo = <<Step("tear_down", 0)>> \/ todo = <<Step("join", 0)>>
    BY <1>3 DEF Ctl, Ending
  <2>2. CASE todo = End5 \/ todo = End4 \/ todo = End3 \/ todo = End2
    <3>1. todo # <<>> /\ Len(todo) \in 2..5 /\ Head(todo) = Sync(5 - Len(todo))
      <4>1. CASE todo = End5
        <5>1. todo # <<>> /\ Len(todo) = 5 /\ Head(todo) = Sync(0)
          BY <4>1, LongScripts, Zenon
        <5>2. QED
          BY <5>1
      <4>2. CASE todo = End4
        <5>1. todo # <<>> /\ Len(todo) = 4 /\ Head(todo) = Sync(1)
          BY <4>2, LongScripts, Zenon
        <5>2. QED
          BY <5>1
      <4>3. CASE todo = End3
        <5>1. todo # <<>> /\ Len(todo) = 3 /\ Head(todo) = Sync(2)
          BY <4>3, LongScripts, Zenon
        <5>2. QED
          BY <5>1
      <4>4. CASE todo = End2
        <5>1. todo # <<>> /\ Len(todo) = 2 /\ Head(todo) = Sync(3)
          BY <4>4, LongScripts, Zenon
        <5>2. QED
          BY <5>1
      <4>5. QED
        BY <2>2, <4>1, <4>2, <4>3, <4>4
    <3>2. Doing("sync") /\ Here = 5 - Len(todo)
      BY <3>1 DEF Doing, Here, Sync, Step
    <3>3. QED
      BY <1>1, <1>3, <3>1, <3>2 DEF Outer
  <2>3. CASE todo = <<Step("tear_down", 0)>>
    <3>1. Doing("tear_down")
      BY <2>3 DEF Doing, Step
    <3>2. QED
      BY <1>1, <1>3, <2>3, <3>1 DEF Outer
  <2>4. CASE todo = <<Step("join", 0)>>
    <3>1. Doing("join")
      BY <2>4 DEF Doing, Step
    <3>2. QED
      BY <1>1, <1>3, <2>4, <3>1 DEF Outer
  <2>5. QED
    BY <2>1, <2>2, <2>3, <2>4
<1>4. CASE tag = "done"
  BY <1>1, <1>4 DEF Ctl, Outer
<1>5. QED
  BY <1>2, <1>3, <1>4 DEF MainTypes

\* Where each operation of the main thread is done.
LEMMA Where ==
    ASSUME MainTypes, Ctl
    PROVE  /\ Doing("boot") => /\ tag = "graphics" /\ order = -1 /\ todo = <<Step("boot", 0)>>
                               /\ ~Within
           /\ Doing("sync") =>
                \/ ~Within /\ tag = "end" /\ Len(todo) \in 2..5 /\ Here = 5 - Len(todo)
                \/ /\ Within
                   /\ <<Pos, Here>> \in {<<0, 0>>, <<10, 1>>, <<40, 0>>, <<50, 1>>, <<60, 3>>, <<70, 3>>,
                                         <<100, 2>>, <<102, 3>>, <<104, 0>>, <<105, 1>>, <<120, 2>>}
           /\ Doing("parse") => Within /\ Here \in {0, 1} /\ Pos = 10 * Here + 1
           /\ Doing("prune") => Within /\ Pos = 20
           /\ Doing("modules") => Within /\ Here \in {0, 1} /\ Pos = 10 * Here + 41
           /\ Doing("primary") => Within /\ Here \in {0, 1} /\ Pos = 10 * Here + 61
           /\ Doing("outside") => Within /\ Here \in {0, 1} /\ Pos = 10 * Here + 80
           /\ Doing("parent_modules") => Within /\ Pos = 101
           /\ Doing("parents") => Within /\ Pos = 103
           /\ Doing("reclaim") => Within /\ Pos = 121
           /\ Doing("derived") => Within /\ Here \in {0, 1} /\ Pos = 8 * Here + 122
           /\ Doing("tear_down") => tag = "end" /\ ~Within /\ todo = <<Step("tear_down", 0)>>
           /\ Doing("join") => tag = "end" /\ ~Within /\ todo = <<Step("join", 0)>>
<1>1. CASE Within
  <2>1. Table
    BY <1>1, TableHolds
  <2>2. QED
    BY <1>1, <2>1 DEF Table, Row, Doing
<1>2. CASE ~Within
  <2>1. Outer
    BY <1>2, OuterHolds
  <2>2. QED
    BY <1>2, <2>1 DEF Outer, Doing
<1>3. QED
  BY <1>1, <1>2

InContext == \E op \in {"parse", "modules", "primary", "outside", "derived"} : Doing(op)

LEMMA HereFacts ==
    ASSUME MainTypes, Ctl, InContext
    PROVE  /\ Within /\ Here \in {0, 1} /\ Place(order) = Here /\ (Here = 1 => Second)
           /\ Has(tag, order) /\ tag \in Tag
<1>1. /\ Within /\ Here \in {0, 1}
      /\ Pos \in {10 * Here + 1, 10 * Here + 41, 10 * Here + 61, 10 * Here + 80, 8 * Here + 122}
  BY Where DEF InContext
<1>2. Phase \in Phases /\ 10 * Phase <= Pos /\ Pos < 10 * Phase + 10 /\ Pos \in Nat
  BY <1>1, PhaseFacts, TableHolds
<1>3. Phase % 2 = Here
  BY <1>1, <1>2 DEF Phases
<1>4. Has(tag, order) /\ tag \in Tag
  BY <1>1 DEF Ctl, Within
<1>5. QED
  BY <1>1, <1>3, <1>4, PhaseFacts

-----------------------------------------------------------------------------
(***************************************************************************)
(* How the position changes.                                               *)
(***************************************************************************)
LEMMA Stay ==
    ASSUME UNCHANGED <<tag, order, todo, start>>
    PROVE  /\ (Within' <=> Within) /\ Pos' = Pos /\ Batch' = Batch /\ (Second' <=> Second)
           /\ \A c, k : Spot(c, k)' = Spot(c, k)
BY DEF Within, Pos, Phase, Batch, Second, Spot, Chunks, Count

LEMMA Move ==
    ASSUME MainTypes, Within, todo # <<>>, Done, UNCHANGED <<tag, order, start>>
    PROVE  /\ Within' /\ Pos' = Pos + 1 /\ Batch' = Batch /\ (Second' <=> Second) /\ Phase' = Phase
           /\ \A c, k : Spot(c, k)' = Spot(c, k)
<1>1. Within' /\ Batch' = Batch /\ (Second' <=> Second) /\ Phase' = Phase
  BY DEF Within, Batch, Phase, Second, Chunks, Count
<1>2. \A c, k : Spot(c, k)' = Spot(c, k)
  BY DEF Spot, Batch
<1>3. Len(todo') = Len(todo) - 1 /\ Len(todo) \in Nat
  BY DEF Done, MainTypes
<1>4. Pos = 10 * Phase + Size[Phase] - Len(todo) /\ Pos' = 10 * Phase + Size[Phase] - Len(todo')
  BY <1>1 DEF Pos
<1>5. order \in Nat /\ Phase \in 0..13
  BY DEF Within, MainTypes, Phase
<1>6. Size[Phase] \in Nat
  BY <1>5 DEF Size
<1>7. QED
  BY <1>1, <1>2, <1>3, <1>4, <1>5, <1>6

\* Which orders there are.
LEMMA HasAt ==
    ASSUME MainTypes, NEW t \in Tag, NEW b \in Nat, NEW r \in 0..13
    PROVE  /\ Has(t, 14 * b + r) <=> 2 * b + (r % 2) < Chunks(t) /\ r \notin {3, 11}
           /\ 14 * b + r \in Orders(t) <=> 2 * b + (r % 2) < Chunks(t) /\ r \notin {3, 11}
<1>1. PICK K \in Nat : K = Chunks(t)
  BY ChunkCount
<1>2. PICK o \in Nat : o = 14 * b + r
  OBVIOUS
<1>3. o \div 14 = b /\ o % 14 = r /\ o % 2 = r % 2
  BY <1>2
<1>4. Place(o) = r % 2 /\ Pass(o) = r \div 2 /\ Chunk(o) = 2 * b + (r % 2)
  BY <1>3 DEF Place, Pass, Chunk, PASS_COUNT
<1>5. (r \div 2 \in {1, 5} => r % 2 = 0) <=> r \notin {3, 11}
  OBVIOUS
<1>6. Has(t, o) <=> 2 * b + (r % 2) < K /\ r \notin {3, 11}
  BY <1>1, <1>4, <1>5 DEF Has
<1>7. 2 * b + (r % 2) < K => o \in 0..(7 * (K + 1))
  BY <1>2
<1>8. o \in Orders(t) <=> o \in 0..(7 * (K + 1)) /\ Has(t, o)
  BY <1>1 DEF Orders, PASS_COUNT
<1>9. QED
  BY <1>1, <1>2, <1>6, <1>7, <1>8

\* The function behind phase r of batch b.
LEMMA Successor ==
    ASSUME MainTypes, NEW t \in Tag, NEW b \in Nat, NEW r \in Phases, 2 * b + (r % 2) < Chunks(t),
           NEW o \in Orders(t), o > 14 * b + r,
           \A p \in Orders(t) : p > 14 * b + r => o <= p
    PROVE  \E c \in Nat, s \in Phases :
              /\ o = 14 * c + s /\ 2 * c + (s % 2) < Chunks(t)
              /\ \/ c = b /\ 2 * b + 1 < Chunks(t)
                    /\ <<r, s>> \in {<<0, 1>>, <<4, 5>>, <<6, 7>>, <<8, 9>>, <<12, 13>>}
                 \/ c = b /\ ~(2 * b + 1 < Chunks(t))
                    /\ <<r, s>> \in {<<0, 2>>, <<4, 6>>, <<6, 8>>, <<8, 10>>}
                 \/ c = b /\ <<r, s>> \in {<<1, 2>>, <<2, 4>>, <<5, 6>>, <<7, 8>>, <<9, 10>>, <<10, 12>>}
                 \/ c = b + 1 /\ r = 13 /\ s = 0
<1>1. PICK K \in Nat : K = Chunks(t)
  BY ChunkCount
<1>2. o \in Nat
  BY DEF Orders
<1>3. PICK c \in Nat, s \in 0..13 : o = 14 * c + s
  <2>1. o \div 14 \in Nat /\ o % 14 \in 0..13 /\ o = 14 * (o \div 14) + (o % 14)
    BY <1>2
  <2>2. QED
    BY <2>1
<1>4. 2 * c + (s % 2) < K /\ s \notin {3, 11}
  BY <1>1, <1>3, HasAt
<1>5. ASSUME NEW d \in Nat, NEW q \in 0..13, 2 * d + (q % 2) < K, q \notin {3, 11},
             14 * d + q > 14 * b + r
      PROVE  o <= 14 * d + q
  BY <1>1, <1>5, HasAt
<1>6. r \in 0..13 /\ r \notin {3, 11} /\ 2 * b + (r % 2) < K
  BY <1>1 DEF Phases
<1>7. CASE r = 13
  <2>1. c >= b + 1
    BY <1>3, <1>7
  <2>2. o <= 14 * (b + 1)
    BY <1>4, <1>5, <1>7, <2>1
  <2>3. QED
    BY <1>1, <1>3, <1>4, <1>7, <2>1, <2>2 DEF Phases
<1>8. CASE r \in {1, 2, 5, 7, 9, 10}
  <2>1. PICK q \in {2, 4, 6, 8, 10, 12} : <<r, q>> \in {<<1, 2>>, <<2, 4>>, <<5, 6>>, <<7, 8>>, <<9, 10>>, <<10, 12>>}
    BY <1>8
  <2>2. o <= 14 * b + q
    BY <1>5, <1>6, <1>8, <2>1
  <2>3. c = b /\ s = q
    BY <1>3, <1>4, <1>8, <2>1, <2>2
  <2>4. QED
    BY <1>1, <1>3, <1>4, <2>1, <2>3 DEF Phases
<1>9. CASE r \in {0, 4, 6, 8, 12} /\ 2 * b + 1 < K
  <2>1. o <= 14 * b + r + 1
    BY <1>5, <1>9
  <2>2. c = b /\ s = r + 1
    BY <1>3, <1>9, <2>1
  <2>3. QED
    BY <1>1, <1>3, <1>4, <1>9, <2>2 DEF Phases
<1>10. CASE r \in {0, 4, 6, 8} /\ ~(2 * b + 1 < K)
  <2>1. o <= 14 * b + r + 2
    BY <1>5, <1>6, <1>10
  <2>2. c = b /\ s = r + 2
    BY <1>3, <1>4, <1>10, <2>1
  <2>3. QED
    BY <1>1, <1>3, <1>4, <1>10, <2>2 DEF Phases
<1>11. CASE r = 12 /\ ~(2 * b + 1 < K)
  <2>1. (c = b /\ s = 13) \/ c >= b + 1
    BY <1>3, <1>11
  <2>2. QED
    BY <1>4, <1>11, <2>1
<1>12. QED
  BY <1>7, <1>8, <1>9, <1>10, <1>11 DEF Phases

\* The last function of a workload.
LEMMA LastOrder ==
    ASSUME MainTypes, NEW t \in Tag, NEW b \in Nat, NEW r \in Phases, 2 * b + (r % 2) < Chunks(t),
           \A p \in Orders(t) : ~(p > 14 * b + r)
    PROVE  (r = 12 /\ ~(2 * b + 1 < Chunks(t))) \/ r = 13
<1>1. PICK K \in Nat : K = Chunks(t)
  BY ChunkCount
<1>2. ASSUME NEW q \in 0..13, 2 * b + (q % 2) < K, q \notin {3, 11} PROVE q <= r
  <2>1. 14 * b + q \in Orders(t)
    BY <1>1, <1>2, HasAt
  <2>2. ~(14 * b + q > 14 * b + r)
    BY <2>1
  <2>3. r \in Nat
    BY DEF Phases
  <2>4. QED
    BY <2>2, <2>3
<1>3. 2 * b < K
  BY <1>1 DEF Phases
<1>4. 12 <= r
  BY <1>2, <1>3
<1>5. QED
  BY <1>1, <1>2, <1>4 DEF Phases

\* What the functions of a workload are made of.
LEMMA Scripts ==
    ASSUME NEW o \in Nat
    PROVE  /\ o % 14 = 0 => Script(o) = <<Sync(0), Step("parse", 0)>>
           /\ o % 14 = 1 => Script(o) = <<Sync(1), Step("parse", 1)>>
           /\ o % 14 = 2 => Script(o) = <<Step("prune", 0)>>
           /\ o % 14 = 4 => Script(o) = <<Sync(0), Step("modules", 0)>>
           /\ o % 14 = 5 => Script(o) = <<Sync(1), Step("modules", 1)>>
           /\ o % 14 = 6 => Script(o) = <<Sync(SHADER), Step("primary", 0)>>
           /\ o % 14 = 7 => Script(o) = <<Sync(SHADER), Step("primary", 1)>>
           /\ o % 14 = 8 => Script(o) = <<Step("outside", 0)>>
           /\ o % 14 = 9 => Script(o) = <<Step("outside", 1)>>
           /\ o % 14 = 10 => Script(o) = Parents6
           /\ o % 14 = 12 => Script(o) = <<Sync(PARENT), Step("reclaim", 0), Step("derived", 0)>>
           /\ o % 14 = 13 => Script(o) = <<Step("derived", 1)>>
<1>1. ASSUME o % 14 = 0 PROVE Script(o) = <<Sync(0), Step("parse", 0)>>
  <2>1. Pass(o) = 0 /\ Place(o) = 0
    BY <1>1 DEF Pass, Place, PASS_COUNT
  <2>2. QED
    BY <2>1 DEF Script
<1>2. ASSUME o % 14 = 1 PROVE Script(o) = <<Sync(1), Step("parse", 1)>>
  <2>1. Pass(o) = 0 /\ Place(o) = 1
    BY <1>2 DEF Pass, Place, PASS_COUNT
  <2>2. QED
    BY <2>1 DEF Script
<1>3. ASSUME o % 14 = 2 PROVE Script(o) = <<Step("prune", 0)>>
  <2>1. Pass(o) = 1 /\ Place(o) = 0
    BY <1>3 DEF Pass, Place, PASS_COUNT
  <2>2. QED
    BY <2>1 DEF Script
<1>4. ASSUME o % 14 = 4 PROVE Script(o) = <<Sync(0), Step("modules", 0)>>
  <2>1. Pass(o) = 2 /\ Place(o) = 0
    BY <1>4 DEF Pass, Place, PASS_COUNT
  <2>2. QED
    BY <2>1 DEF Script
<1>5. ASSUME o % 14 = 5 PROVE Script(o) = <<Sync(1), Step("modules", 1)>>
  <2>1. Pass(o) = 2 /\ Place(o) = 1
    BY <1>5 DEF Pass, Place, PASS_COUNT
  <2>2. QED
    BY <2>1 DEF Script
<1>6. ASSUME o % 14 = 6 PROVE Script(o) = <<Sync(SHADER), Step("primary", 0)>>
  <2>1. Pass(o) = 3 /\ Place(o) = 0
    BY <1>6 DEF Pass, Place, PASS_COUNT
  <2>2. QED
    BY <2>1 DEF Script
<1>7. ASSUME o % 14 = 7 PROVE Script(o) = <<Sync(SHADER), Step("primary", 1)>>
  <2>1. Pass(o) = 3 /\ Place(o) = 1
    BY <1>7 DEF Pass, Place, PASS_COUNT
  <2>2. QED
    BY <2>1 DEF Script
<1>8. ASSUME o % 14 = 8 PROVE Script(o) = <<Step("outside", 0)>>
  <2>1. Pass(o) = 4 /\ Place(o) = 0
    BY <1>8 DEF Pass, Place, PASS_COUNT
  <2>2. QED
    BY <2>1 DEF Script
<1>9. ASSUME o % 14 = 9 PROVE Script(o) = <<Step("outside", 1)>>
  <2>1. Pass(o) = 4 /\ Place(o) = 1
    BY <1>9 DEF Pass, Place, PASS_COUNT
  <2>2. QED
    BY <2>1 DEF Script
<1>10. ASSUME o % 14 = 10 PROVE Script(o) = Parents6
  <2>1. Pass(o) = 5 /\ Place(o) = 0
    BY <1>10 DEF Pass, Place, PASS_COUNT
  <2>2. QED
    BY <2>1 DEF Script, Parents6, Parents3
<1>11. ASSUME o % 14 = 12 PROVE Script(o) = <<Sync(PARENT), Step("reclaim", 0), Step("derived", 0)>>
  <2>1. Pass(o) = 6 /\ Place(o) = 0
    BY <1>11 DEF Pass, Place, PASS_COUNT
  <2>2. QED
    BY <2>1 DEF Script
<1>12. ASSUME o % 14 = 13 PROVE Script(o) = <<Step("derived", 1)>>
  <2>1. Pass(o) = 6 /\ Place(o) = 1
    BY <1>12 DEF Pass, Place, PASS_COUNT
  <2>2. QED
    BY <2>1 DEF Script
<1>13. QED
  BY <1>1, <1>2, <1>3, <1>4, <1>5, <1>6, <1>7, <1>8, <1>9, <1>10, <1>11, <1>12

LEMMA LeftNew ==
    ASSUME order' \in Nat, todo' = Script(order'), Phase' \in Phases
    PROVE  Left' /\ Len(todo') = Size[Phase'] /\ Size[Phase'] \in 1..6
<1>1. CASE Phase' = 0
  <2>1. todo' = <<Sync(0), Step("parse", 0)>>
    BY <1>1, Scripts DEF Phase
  <2>2. Len(todo') = 2
    BY <2>1
  <2>3. QED
    BY <1>1, <2>1, <2>2 DEF Left, Size
<1>2. CASE Phase' = 1
  <2>1. todo' = <<Sync(1), Step("parse", 1)>>
    BY <1>2, Scripts DEF Phase
  <2>2. Len(todo') = 2
    BY <2>1
  <2>3. QED
    BY <1>2, <2>1, <2>2 DEF Left, Size
<1>3. CASE Phase' = 2
  <2>1. todo' = <<Step("prune", 0)>>
    BY <1>3, Scripts DEF Phase
  <2>2. Len(todo') = 1
    BY <2>1
  <2>3. QED
    BY <1>3, <2>1, <2>2 DEF Left, Size
<1>4. CASE Phase' = 4
  <2>1. todo' = <<Sync(0), Step("modules", 0)>>
    BY <1>4, Scripts DEF Phase
  <2>2. Len(todo') = 2
    BY <2>1
  <2>3. QED
    BY <1>4, <2>1, <2>2 DEF Left, Size
<1>5. CASE Phase' = 5
  <2>1. todo' = <<Sync(1), Step("modules", 1)>>
    BY <1>5, Scripts DEF Phase
  <2>2. Len(todo') = 2
    BY <2>1
  <2>3. QED
    BY <1>5, <2>1, <2>2 DEF Left, Size
<1>6. CASE Phase' = 6
  <2>1. todo' = <<Sync(SHADER), Step("primary", 0)>>
    BY <1>6, Scripts DEF Phase
  <2>2. Len(todo') = 2
    BY <2>1
  <2>3. QED
    BY <1>6, <2>1, <2>2 DEF Left, Size
<1>7. CASE Phase' = 7
  <2>1. todo' = <<Sync(SHADER), Step("primary", 1)>>
    BY <1>7, Scripts DEF Phase
  <2>2. Len(todo') = 2
    BY <2>1
  <2>3. QED
    BY <1>7, <2>1, <2>2 DEF Left, Size
<1>8. CASE Phase' = 8
  <2>1. todo' = <<Step("outside", 0)>>
    BY <1>8, Scripts DEF Phase
  <2>2. Len(todo') = 1
    BY <2>1
  <2>3. QED
    BY <1>8, <2>1, <2>2 DEF Left, Size
<1>9. CASE Phase' = 9
  <2>1. todo' = <<Step("outside", 1)>>
    BY <1>9, Scripts DEF Phase
  <2>2. Len(todo') = 1
    BY <2>1
  <2>3. QED
    BY <1>9, <2>1, <2>2 DEF Left, Size
<1>10. CASE Phase' = 10
  <2>1. todo' = Parents6
    BY <1>10, Scripts DEF Phase
  <2>2. Len(todo') = 6
    BY <2>1, LongScripts, Zenon
  <2>3. QED
    BY <1>10, <2>1, <2>2 DEF Left, Size
<1>11. CASE Phase' = 12
  <2>1. todo' = <<Sync(PARENT), Step("reclaim", 0), Step("derived", 0)>>
    BY <1>11, Scripts DEF Phase
  <2>2. Len(todo') = 3
    BY <2>1
  <2>3. QED
    BY <1>11, <2>1, <2>2 DEF Left, Size
<1>12. CASE Phase' = 13
  <2>1. todo' = <<Step("derived", 1)>>
    BY <1>12, Scripts DEF Phase
  <2>2. Len(todo') = 1
    BY <2>1
  <2>3. QED
    BY <1>12, <2>1, <2>2 DEF Left, Size
<1>13. QED
  BY <1>1, <1>2, <1>3, <1>4, <1>5, <1>6, <1>7, <1>8, <1>9, <1>10, <1>11, <1>12 DEF Phases

LEMMA TailOne == ASSUME NEW x PROVE Tail(<<x>>) = <<>>
OBVIOUS

LEMMA LeftDone ==
    ASSUME MainTypes, Ctl, Within, todo # <<>>, Done, order' = order
    PROVE  Left'
<1>1. Left /\ Phase \in Phases /\ Phase' = Phase /\ todo' = Tail(todo)
  BY PhaseFacts DEF Ctl, Done, Phase
<1>2. CASE Phase = 0
  <2>1. todo \in {<<Sync(0), Step("parse", 0)>>, <<Step("parse", 0)>>}
    BY <1>1, <1>2 DEF Left
  <2>2. ASSUME todo = <<Sync(0), Step("parse", 0)>> PROVE todo' = <<Step("parse", 0)>>
    BY <1>1, <2>2
  <2>3. ASSUME todo = <<Step("parse", 0)>> PROVE todo' = <<>>
    BY <1>1, <2>3
  <2>4. todo' \in {<<Step("parse", 0)>>, <<>>}
    BY <2>1, <2>2, <2>3
  <2>5. QED
    BY <1>1, <1>2, <2>4 DEF Left
<1>3. CASE Phase = 1
  <2>1. todo \in {<<Sync(1), Step("parse", 1)>>, <<Step("parse", 1)>>}
    BY <1>1, <1>3 DEF Left
  <2>2. ASSUME todo = <<Sync(1), Step("parse", 1)>> PROVE todo' = <<Step("parse", 1)>>
    BY <1>1, <2>2
  <2>3. ASSUME todo = <<Step("parse", 1)>> PROVE todo' = <<>>
    BY <1>1, <2>3
  <2>4. todo' \in {<<Step("parse", 1)>>, <<>>}
    BY <2>1, <2>2, <2>3
  <2>5. QED
    BY <1>1, <1>3, <2>4 DEF Left
<1>4. CASE Phase = 2
  <2>1. todo \in {<<Step("prune", 0)>>}
    BY <1>1, <1>4 DEF Left
  <2>2. todo' = <<>>
    BY <1>1, <2>1, TailOne, Zenon
  <2>3. QED
    BY <1>1, <1>4, <2>2 DEF Left
<1>5. CASE Phase = 4
  <2>1. todo \in {<<Sync(0), Step("modules", 0)>>, <<Step("modules", 0)>>}
    BY <1>1, <1>5 DEF Left
  <2>2. ASSUME todo = <<Sync(0), Step("modules", 0)>> PROVE todo' = <<Step("modules", 0)>>
    BY <1>1, <2>2
  <2>3. ASSUME todo = <<Step("modules", 0)>> PROVE todo' = <<>>
    BY <1>1, <2>3
  <2>4. todo' \in {<<Step("modules", 0)>>, <<>>}
    BY <2>1, <2>2, <2>3
  <2>5. QED
    BY <1>1, <1>5, <2>4 DEF Left
<1>6. CASE Phase = 5
  <2>1. todo \in {<<Sync(1), Step("modules", 1)>>, <<Step("modules", 1)>>}
    BY <1>1, <1>6 DEF Left
  <2>2. ASSUME todo = <<Sync(1), Step("modules", 1)>> PROVE todo' = <<Step("modules", 1)>>
    BY <1>1, <2>2
  <2>3. ASSUME todo = <<Step("modules", 1)>> PROVE todo' = <<>>
    BY <1>1, <2>3
  <2>4. todo' \in {<<Step("modules", 1)>>, <<>>}
    BY <2>1, <2>2, <2>3
  <2>5. QED
    BY <1>1, <1>6, <2>4 DEF Left
<1>7. CASE Phase = 6
  <2>1. todo \in {<<Sync(SHADER), Step("primary", 0)>>, <<Step("primary", 0)>>}
    BY <1>1, <1>7 DEF Left
  <2>2. ASSUME todo = <<Sync(SHADER), Step("primary", 0)>> PROVE todo' = <<Step("primary", 0)>>
    BY <1>1, <2>2
  <2>3. ASSUME todo = <<Step("primary", 0)>> PROVE todo' = <<>>
    BY <1>1, <2>3
  <2>4. todo' \in {<<Step("primary", 0)>>, <<>>}
    BY <2>1, <2>2, <2>3
  <2>5. QED
    BY <1>1, <1>7, <2>4 DEF Left
<1>8. CASE Phase = 7
  <2>1. todo \in {<<Sync(SHADER), Step("primary", 1)>>, <<Step("primary", 1)>>}
    BY <1>1, <1>8 DEF Left
  <2>2. ASSUME todo = <<Sync(SHADER), Step("primary", 1)>> PROVE todo' = <<Step("primary", 1)>>
    BY <1>1, <2>2
  <2>3. ASSUME todo = <<Step("primary", 1)>> PROVE todo' = <<>>
    BY <1>1, <2>3
  <2>4. todo' \in {<<Step("primary", 1)>>, <<>>}
    BY <2>1, <2>2, <2>3
  <2>5. QED
    BY <1>1, <1>8, <2>4 DEF Left
<1>9. CASE Phase = 8
  <2>1. todo \in {<<Step("outside", 0)>>}
    BY <1>1, <1>9 DEF Left
  <2>2. todo' = <<>>
    BY <1>1, <2>1, TailOne, Zenon
  <2>3. QED
    BY <1>1, <1>9, <2>2 DEF Left
<1>10. CASE Phase = 9
  <2>1. todo \in {<<Step("outside", 1)>>}
    BY <1>1, <1>10 DEF Left
  <2>2. todo' = <<>>
    BY <1>1, <2>1, TailOne, Zenon
  <2>3. QED
    BY <1>1, <1>10, <2>2 DEF Left
<1>11. CASE Phase = 10
  <2>1. todo \in {Parents6, Parents5, Parents4, Parents3, <<Sync(0), Sync(1)>>, <<Sync(1)>>}
    BY <1>1, <1>11 DEF Left
  <2>2. ASSUME todo = Parents6 PROVE todo' = Parents5
    BY <1>1, <2>2, LongScripts, Zenon
  <2>3. ASSUME todo = Parents5 PROVE todo' = Parents4
    BY <1>1, <2>3, LongScripts, Zenon
  <2>4. ASSUME todo = Parents4 PROVE todo' = Parents3
    BY <1>1, <2>4, LongScripts, Zenon
  <2>5. ASSUME todo = Parents3 PROVE todo' = <<Sync(0), Sync(1)>>
    BY <1>1, <2>5, LongScripts, Zenon
  <2>6. ASSUME todo = <<Sync(0), Sync(1)>> PROVE todo' = <<Sync(1)>>
    BY <1>1, <2>6
  <2>7. ASSUME todo = <<Sync(1)>> PROVE todo' = <<>>
    BY <1>1, <2>7
  <2>8. todo' \in {Parents5, Parents4, Parents3, <<Sync(0), Sync(1)>>, <<Sync(1)>>, <<>>}
    BY <2>1, <2>2, <2>3, <2>4, <2>5, <2>6, <2>7
  <2>9. QED
    BY <1>1, <1>11, <2>8 DEF Left
<1>12. CASE Phase = 12
  <2>1. todo \in {<<Sync(PARENT), Step("reclaim", 0), Step("derived", 0)>>, <<Step("reclaim", 0), Step("derived", 0)>>, <<Step("derived", 0)>>}
    BY <1>1, <1>12 DEF Left
  <2>2. ASSUME todo = <<Sync(PARENT), Step("reclaim", 0), Step("derived", 0)>> PROVE todo' = <<Step("reclaim", 0), Step("derived", 0)>>
    BY <1>1, <2>2
  <2>3. ASSUME todo = <<Step("reclaim", 0), Step("derived", 0)>> PROVE todo' = <<Step("derived", 0)>>
    BY <1>1, <2>3
  <2>4. ASSUME todo = <<Step("derived", 0)>> PROVE todo' = <<>>
    BY <1>1, <2>4
  <2>5. todo' \in {<<Step("reclaim", 0), Step("derived", 0)>>, <<Step("derived", 0)>>, <<>>}
    BY <2>1, <2>2, <2>3, <2>4
  <2>6. QED
    BY <1>1, <1>12, <2>5 DEF Left
<1>13. CASE Phase = 13
  <2>1. todo \in {<<Step("derived", 1)>>}
    BY <1>1, <1>13 DEF Left
  <2>2. todo' = <<>>
    BY <1>1, <2>1, TailOne, Zenon
  <2>3. QED
    BY <1>1, <1>13, <2>2 DEF Left
<1>14. QED
  BY <1>1, <1>2, <1>3, <1>4, <1>5, <1>6, <1>7, <1>8, <1>9, <1>10, <1>11, <1>12, <1>13 DEF Phases

\* Advance goes on in the batch, to the next batch, or behind the workload.
OnIn == /\ Within /\ Within' /\ tag' = tag /\ Batch' = Batch /\ (Second' <=> Second)
        /\ \/ Second /\ <<Pos, Pos'>> \in {<<2, 10>>, <<42, 50>>, <<62, 70>>, <<81, 90>>, <<123, 130>>}
           \/ ~Second /\ <<Pos, Pos'>> \in {<<2, 20>>, <<42, 60>>, <<62, 80>>, <<81, 100>>}
           \/ <<Pos, Pos'>> \in {<<12, 20>>, <<21, 40>>, <<52, 60>>, <<72, 80>>, <<91, 100>>, <<106, 120>>}
OnTo == Within /\ Within' /\ tag' = tag /\ Pos = 131 /\ Pos' = 0 /\ Second /\ Batch' = Batch + 1
Into == ~Within /\ Within' /\ tag' = tag /\ order = -1 /\ Pos = 140 /\ Pos' = 0 /\ Batch' = 0
Past == /\ ~Within' /\ Pos' = 140 /\ tag \in Tag
        /\ Within => Pos = 131 \/ (Pos = 123 /\ ~Second)
        /\ \/ tag = "graphics" /\ tag' = "compute" /\ order' = -1 /\ todo' = <<>>
           \/ tag = "compute" /\ tag' = "end" /\ todo' = End5 /\ order' = order

LEMMA Turn ==
    ASSUME MainTypes, Ctl, Advance
    PROVE  /\ OnIn \/ OnTo \/ Into \/ Past
           /\ tag' \in {"graphics", "compute", "end"}
           /\ Within' => /\ order' \in Nat /\ order' <= PASS_COUNT * (Chunks(tag) + 1)
                         /\ (Has(tag, order) /\ Left)'
<1>1. todo = <<>> /\ tag \in Tag /\ start' = start
  BY DEF Advance, options
<1>2. \A t : Chunks(t)' = Chunks(t)
  BY <1>1 DEF Chunks, Count
<1>3. ASSUME NEW o \in Orders(tag), o > order, \A p \in Orders(tag) : p > order => o <= p,
             order' = o, todo' = Script(o), tag' = tag
      PROVE  /\ Within' /\ order' \in Nat /\ order' <= PASS_COUNT * (Chunks(tag) + 1)
             /\ (Has(tag, order) /\ Left)' /\ (OnIn \/ OnTo \/ Into)
  <2>1. o \in Nat /\ Has(tag, o) /\ o <= PASS_COUNT * (Chunks(tag) + 1)
    BY DEF Orders
  <2>2. Has(tag, order)' <=> Has(tag, o)
    BY <1>2, <1>3 DEF Has
  <2>3. Within'
    BY <1>1, <1>3, <2>1 DEF Within
  <2>4. ASSUME NEW c \in Nat, NEW s \in Phases, o = 14 * c + s
        PROVE  Batch' = c /\ Phase' = s /\ Left' /\ Pos' = 10 * s
    <3>1. s \in 0..13
      BY DEF Phases
    <3>2. Batch' = c /\ Phase' = s
      BY <1>3, <2>4, <3>1 DEF Batch, Phase
    <3>3. Left' /\ Len(todo') = Size[Phase'] /\ Size[Phase'] \in 1..6
      BY <1>3, <2>1, <3>2, LeftNew
    <3>4. Pos' = 10 * Phase' + Size[Phase'] - Len(todo')
      BY <2>3 DEF Pos
    <3>5. QED
      BY <3>1, <3>2, <3>3, <3>4
  <2>5. CASE Within
    <3>1. /\ Phase \in Phases /\ Batch \in Nat /\ order = 14 * Batch + Phase
          /\ 2 * Batch + (Phase % 2) < Chunks(tag)
      <4>1. /\ Phase \in Phases /\ Batch \in Nat /\ order = 14 * Batch + Phase
            /\ Chunk(order) = 2 * Batch + (Phase % 2) /\ Has(tag, order)
        BY <2>5, PhaseFacts DEF Ctl
      <4>2. QED
        BY <4>1 DEF Has
    <3>2. Pos \in Idles /\ 10 * Phase <= Pos /\ Pos < 10 * Phase + 10
      <4>1. Table /\ 10 * Phase <= Pos /\ Pos < 10 * Phase + 10
        BY <2>5, TableHolds
      <4>2. QED
        BY <1>1, <4>1 DEF Table, Row, Doing
    <3>3. PICK c \in Nat, s \in Phases :
              /\ o = 14 * c + s
              /\ \/ c = Batch /\ 2 * Batch + 1 < Chunks(tag)
                    /\ <<Phase, s>> \in {<<0, 1>>, <<4, 5>>, <<6, 7>>, <<8, 9>>, <<12, 13>>}
                 \/ c = Batch /\ ~(2 * Batch + 1 < Chunks(tag))
                    /\ <<Phase, s>> \in {<<0, 2>>, <<4, 6>>, <<6, 8>>, <<8, 10>>}
                 \/ c = Batch /\ <<Phase, s>> \in {<<1, 2>>, <<2, 4>>, <<5, 6>>, <<7, 8>>, <<9, 10>>, <<10, 12>>}
                 \/ c = Batch + 1 /\ Phase = 13 /\ s = 0
      <4>1. PICK b \in Nat, r \in Phases : b = Batch /\ r = Phase
        BY <3>1
      <4>2. /\ 2 * b + (r % 2) < Chunks(tag) /\ o > 14 * b + r
            /\ \A p \in Orders(tag) : p > 14 * b + r => o <= p
        BY <1>3, <3>1, <4>1
      <4>3. \E c \in Nat, s \in Phases :
              /\ o = 14 * c + s
              /\ \/ c = b /\ 2 * b + 1 < Chunks(tag)
                    /\ <<r, s>> \in {<<0, 1>>, <<4, 5>>, <<6, 7>>, <<8, 9>>, <<12, 13>>}
                 \/ c = b /\ ~(2 * b + 1 < Chunks(tag))
                    /\ <<r, s>> \in {<<0, 2>>, <<4, 6>>, <<6, 8>>, <<8, 10>>}
                 \/ c = b /\ <<r, s>> \in {<<1, 2>>, <<2, 4>>, <<5, 6>>, <<7, 8>>, <<9, 10>>, <<10, 12>>}
                 \/ c = b + 1 /\ r = 13 /\ s = 0
        BY <1>1, <4>2, Successor
      <4>4. QED
        BY <4>1, <4>3
    <3>4. Batch' = c /\ Phase' = s /\ Left' /\ Pos' = 10 * s
      BY <2>4, <3>3
    <3>5. c = Batch => (Second' <=> Second)
      BY <1>2, <1>3, <3>4 DEF Second
    <3>6. Phase = 13 => Second
      BY <2>5, PhaseFacts
    <3>7. OnIn \/ OnTo
      <4>1. CASE c = Batch /\ 2 * Batch + 1 < Chunks(tag)
                    /\ <<Phase, s>> \in {<<0, 1>>, <<4, 5>>, <<6, 7>>, <<8, 9>>, <<12, 13>>}
        BY <1>3, <2>3, <2>5, <3>2, <3>4, <3>5, <4>1 DEF OnIn, Second, Idles
      <4>2. CASE c = Batch /\ ~(2 * Batch + 1 < Chunks(tag))
                    /\ <<Phase, s>> \in {<<0, 2>>, <<4, 6>>, <<6, 8>>, <<8, 10>>}
        BY <1>3, <2>3, <2>5, <3>2, <3>4, <3>5, <4>2 DEF OnIn, Second, Idles
      <4>3. CASE c = Batch /\ <<Phase, s>> \in {<<1, 2>>, <<2, 4>>, <<5, 6>>, <<7, 8>>, <<9, 10>>, <<10, 12>>}
        BY <1>3, <2>3, <2>5, <3>2, <3>4, <3>5, <4>3 DEF OnIn, Idles
      <4>4. CASE c = Batch + 1 /\ Phase = 13 /\ s = 0
        BY <1>3, <2>3, <2>5, <3>2, <3>4, <3>6, <4>4 DEF OnTo, Idles
      <4>5. QED
        BY <3>3, <4>1, <4>2, <4>3, <4>4
    <3>8. QED
      BY <1>3, <2>1, <2>2, <2>3, <3>4, <3>7
  <2>6. CASE ~Within
    <3>1. order = -1 /\ Pos = 140
      <4>1. Outer /\ Pos = 140
        BY <2>6, OuterHolds
      <4>2. QED
        BY <1>1, <2>6, <4>1 DEF Within, MainTypes
    <3>2. o = 0
      <4>1. PICK K \in Nat : K = Chunks(tag)
        BY <1>1, ChunkCount
      <4>2. o \div 14 \in Nat /\ Chunk(o) \in Nat /\ Chunk(o) < K
        BY <2>1, <4>1 DEF Has, Chunk, Place, PASS_COUNT
      <4>3. 0 \in Orders(tag)
        <5>1. 14 * 0 + 0 = 0 /\ 2 * 0 + (0 % 2) = 0 /\ 0 < K
          BY <4>1, <4>2
        <5>2. QED
          BY <1>1, <4>1, <5>1, HasAt
      <4>4. QED
        BY <1>3, <2>1, <3>1, <4>3
    <3>3. Batch' = 0 /\ Phase' = 0 /\ Left' /\ Pos' = 0
      BY <2>4, <3>2 DEF Phases
    <3>4. QED
      BY <1>3, <2>1, <2>2, <2>3, <2>6, <3>1, <3>3 DEF Into
  <2>7. QED
    BY <2>5, <2>6
<1>4. ASSUME \A p \in Orders(tag) : ~(p > order),
             \/ tag = "graphics" /\ tag' = "compute" /\ order' = -1 /\ todo' = todo
             \/ tag = "compute" /\ tag' = "end" /\ todo' = EndScript /\ order' = order
      PROVE  Past /\ tag' \in {"graphics", "compute", "end"}
  <2>1. ~Within' /\ Pos' = 140
    BY <1>4 DEF Within, Pos, Tag
  <2>2. ASSUME Within PROVE Pos = 131 \/ (Pos = 123 /\ ~Second)
    <3>1. /\ Phase \in Phases /\ Batch \in Nat /\ order = 14 * Batch + Phase
          /\ 2 * Batch + (Phase % 2) < Chunks(tag)
      <4>1. /\ Phase \in Phases /\ Batch \in Nat /\ order = 14 * Batch + Phase
            /\ Chunk(order) = 2 * Batch + (Phase % 2) /\ Has(tag, order)
        BY <2>2, PhaseFacts DEF Ctl
      <4>2. QED
        BY <4>1 DEF Has
    <3>2. Pos \in Idles /\ 10 * Phase <= Pos /\ Pos < 10 * Phase + 10
      <4>1. Table /\ 10 * Phase <= Pos /\ Pos < 10 * Phase + 10
        BY <2>2, TableHolds
      <4>2. QED
        BY <1>1, <4>1 DEF Table, Row, Doing
    <3>3. (Phase = 12 /\ ~Second) \/ Phase = 13
      BY <1>1, <1>4, <3>1, LastOrder DEF Second
    <3>4. QED
      BY <3>2, <3>3 DEF Idles
  <2>3. EndScript = End5
    BY DEF EndScript, End5, End2
  <2>4. QED
    BY <1>1, <1>4, <2>1, <2>2, <2>3 DEF Past
<1>5. \/ \E o \in Orders(tag) : /\ o > order /\ (\A p \in Orders(tag) : p > order => o <= p)
                                /\ order' = o /\ todo' = Script(o) /\ tag' = tag
      \/ /\ \A p \in Orders(tag) : ~(p > order)
         /\ \/ tag = "graphics" /\ tag' = "compute" /\ order' = -1 /\ todo' = todo
            \/ tag = "compute" /\ tag' = "end" /\ todo' = EndScript /\ order' = order
  BY DEF Advance
<1>6. QED
  BY <1>1, <1>3, <1>4, <1>5 DEF Past, Tag

LEMMA StepTypes ==
    /\ Sync(0) \in Steps /\ Sync(1) \in Steps /\ Sync(2) \in Steps /\ Sync(3) \in Steps
    /\ Sync(SHADER) \in Steps /\ Sync(PARENT) \in Steps
    /\ \A op \in Ops : Step(op, 0) \in Steps /\ Step(op, 1) \in Steps
BY DEF Steps, Step, Sync, Ctx, SHADER, PARENT, Ops

LEMMA ScriptTypes ==
    /\ \A o \in Nat : o % 14 \in Phases => Script(o) \in Seq(Steps)
    /\ End5 \in Seq(Steps) /\ <<Step("join", 0)>> \in Seq(Steps) /\ <<Step("boot", 0)>> \in Seq(Steps)
<1>1. ASSUME NEW o \in Nat, o % 14 \in Phases PROVE Script(o) \in Seq(Steps)
  <2>1. CASE o % 14 = 0
    <3>1. <<Sync(0), Step("parse", 0)>> \in Seq(Steps)
      BY StepTypes DEF Ops
    <3>2. QED
      BY <2>1, <3>1, Scripts
  <2>2. CASE o % 14 = 1
    <3>1. <<Sync(1), Step("parse", 1)>> \in Seq(Steps)
      BY StepTypes DEF Ops
    <3>2. QED
      BY <2>2, <3>1, Scripts
  <2>3. CASE o % 14 = 2
    <3>1. <<Step("prune", 0)>> \in Seq(Steps)
      BY StepTypes DEF Ops
    <3>2. QED
      BY <2>3, <3>1, Scripts
  <2>4. CASE o % 14 = 4
    <3>1. <<Sync(0), Step("modules", 0)>> \in Seq(Steps)
      BY StepTypes DEF Ops
    <3>2. QED
      BY <2>4, <3>1, Scripts
  <2>5. CASE o % 14 = 5
    <3>1. <<Sync(1), Step("modules", 1)>> \in Seq(Steps)
      BY StepTypes DEF Ops
    <3>2. QED
      BY <2>5, <3>1, Scripts
  <2>6. CASE o % 14 = 6
    <3>1. <<Sync(SHADER), Step("primary", 0)>> \in Seq(Steps)
      BY StepTypes DEF Ops
    <3>2. QED
      BY <2>6, <3>1, Scripts
  <2>7. CASE o % 14 = 7
    <3>1. <<Sync(SHADER), Step("primary", 1)>> \in Seq(Steps)
      BY StepTypes DEF Ops
    <3>2. QED
      BY <2>7, <3>1, Scripts
  <2>8. CASE o % 14 = 8
    <3>1. <<Step("outside", 0)>> \in Seq(Steps)
      BY StepTypes DEF Ops
    <3>2. QED
      BY <2>8, <3>1, Scripts
  <2>9. CASE o % 14 = 9
    <3>1. <<Step("outside", 1)>> \in Seq(Steps)
      BY StepTypes DEF Ops
    <3>2. QED
      BY <2>9, <3>1, Scripts
  <2>10. CASE o % 14 = 10
    <3>1. <<Sync(PARENT), Step("parent_modules", 0), Sync(SHADER)>> \in Seq(Steps)
      BY StepTypes DEF Ops
    <3>2. <<Step("parents", 0), Sync(0), Sync(1)>> \in Seq(Steps)
      BY StepTypes DEF Ops
    <3>3. Parents6 \in Seq(Steps)
      BY <3>1, <3>2 DEF Parents6, Parents3
    <3>4. QED
      BY <2>10, <3>3, Scripts
  <2>11. CASE o % 14 = 12
    <3>1. <<Sync(PARENT), Step("reclaim", 0), Step("derived", 0)>> \in Seq(Steps)
      BY StepTypes DEF Ops
    <3>2. QED
      BY <2>11, <3>1, Scripts
  <2>12. CASE o % 14 = 13
    <3>1. <<Step("derived", 1)>> \in Seq(Steps)
      BY StepTypes DEF Ops
    <3>2. QED
      BY <2>12, <3>1, Scripts
  <2>13. QED
    BY <1>1, <2>1, <2>2, <2>3, <2>4, <2>5, <2>6, <2>7, <2>8, <2>9, <2>10, <2>11, <2>12 DEF Phases
<1>2. End5 \in Seq(Steps)
  <2>1. <<Sync(0), Sync(1), Sync(2)>> \in Seq(Steps)
    BY StepTypes DEF Ops
  <2>2. <<Sync(3), Step("tear_down", 0)>> \in Seq(Steps)
    BY StepTypes DEF Ops
  <2>3. QED
    BY <2>1, <2>2 DEF End5, End2
<1>3. <<Step("join", 0)>> \in Seq(Steps) /\ <<Step("boot", 0)>> \in Seq(Steps)
  BY StepTypes DEF Ops
<1>4. QED
  BY <1>1, <1>2, <1>3
-----------------------------------------------------------------------------
(***************************************************************************)
(* Work items: their types and their fields.                               *)
(***************************************************************************)
LEMMA NoItem ==
    /\ Idle.kind = "idle" /\ Boot.kind = "boot" /\ Gone.kind = "gone"
    /\ Idle # Boot /\ Idle # Gone /\ Boot # Gone
    /\ {Idle, Boot, Gone} \cap Jobs = {}
<1>1. Idle.kind = "idle" /\ Boot.kind = "boot" /\ Gone.kind = "gone"
  BY DEF Idle, Boot, Gone, BlankItem
<1>2. QED
  BY <1>1 DEF Jobs, Real

\* The two kinds of parse items.
InItem(t, h, i, c) == ParseItem(t, h, i, c, FALSE)
OutItem(t, h, i, c) == ParseItem(t, h, i, c, TRUE)

LEMMA InFields ==
    ASSUME NEW t, NEW h, NEW i, NEW c
    PROVE  /\ InItem(t, h, i, c).kind = "parse" /\ InItem(t, h, i, c).tag = t
           /\ InItem(t, h, i, c).h = h /\ InItem(t, h, i, c).index = i
           /\ InItem(t, h, i, c).ctx = c
BY DEF InItem, ParseItem, BlankItem

LEMMA InInside == ASSUME NEW t, NEW h, NEW i, NEW c PROVE ~InItem(t, h, i, c).outside
BY DEF InItem, ParseItem, BlankItem

LEMMA OutFields ==
    ASSUME NEW t, NEW h, NEW i, NEW c
    PROVE  /\ OutItem(t, h, i, c).kind = "parse" /\ OutItem(t, h, i, c).tag = t
           /\ OutItem(t, h, i, c).h = h /\ OutItem(t, h, i, c).index = i
           /\ OutItem(t, h, i, c).ctx = c
BY DEF OutItem, ParseItem, BlankItem

LEMMA OutOutside == ASSUME NEW t, NEW h, NEW i, NEW c PROVE OutItem(t, h, i, c).outside
BY DEF OutItem, ParseItem, BlankItem

LEMMA ParseType ==
    ASSUME NEW t \in Tag, NEW h \in Hash, NEW i \in Nat, NEW c \in Ctx
    PROVE  InItem(t, h, i, c) \in Jobs /\ OutItem(t, h, i, c) \in Jobs
<1> DEFINE x == InItem(t, h, i, c)
           y == OutItem(t, h, i, c)
<1>1. x \in ItemSet /\ x.kind = "parse" /\ x.h = h
  BY DEF InItem, ParseItem, BlankItem, ItemSet, Real, NoHash, NoMod, Tag, Ctx
<1>2. y \in ItemSet /\ y.kind = "parse" /\ y.h = h
  BY DEF OutItem, ParseItem, BlankItem, ItemSet, Real, NoHash, NoMod, Tag, Ctx
<1>3. x \in Jobs /\ y \in Jobs
  BY <1>1, <1>2 DEF Jobs, Typed, Real
<1>4. QED
  BY <1>3

LEMMA ModuleFields ==
    ASSUME NEW m \in Module
    PROVE  /\ ModuleItem(m) \in Jobs /\ ModuleItem(m).kind = "module" /\ ModuleItem(m).m = m
           /\ ModuleItem(m).ctx = SHADER
<1> DEFINE x == ModuleItem(m)
<1>1. SHADER \in Ctx
  BY DEF SHADER, Ctx
<1>2. x.kind = "module" /\ x.m = m /\ x.ctx = SHADER
  BY DEF ModuleItem, BlankItem
<1>3. x \in ItemSet
  BY <1>1 DEF ModuleItem, BlankItem, ItemSet, Real, Tag
<1>4. x \in Jobs
  BY <1>2, <1>3 DEF Jobs, Typed, Real
<1>5. QED
  BY <1>2, <1>4

Handles == {"none", "raw", "null", "live"}

LEMMA CreateFields ==
    ASSUME NEW d, NEW c, NEW off, NEW base, NEW ub
    PROVE  /\ CreateItem(d, c, off, base, ub).kind = "create"
           /\ CreateItem(d, c, off, base, ub).tag = tag
           /\ CreateItem(d, c, off, base, ub).h = d.h
           /\ CreateItem(d, c, off, base, ub).ctx = c
           /\ CreateItem(d, c, off, base, ub).ep = d.ep
           /\ CreateItem(d, c, off, base, ub).from = d.from
           /\ CreateItem(d, c, off, base, ub).base = base
BY DEF CreateItem, BlankItem

LEMMA CreateIndexed ==
    ASSUME NEW d, NEW c, NEW off, NEW base, NEW ub
    PROVE  CreateItem(d, c, off, base, ub).index = d.index + off + start[tag]
BY DEF CreateItem, BlankItem

LEMMA CreateStale ==
    ASSUME NEW d, NEW c, NEW off, NEW base, NEW ub, Stale(d, c)
    PROVE  /\ CreateItem(d, c, off, base, ub).missing = {}
           /\ CreateItem(d, c, off, base, ub).mods = {}
BY DEF CreateItem, BlankItem

LEMMA CreateModules ==
    ASSUME NEW d, NEW c, NEW off, NEW base, NEW ub, ~Stale(d, c)
    PROVE  /\ CreateItem(d, c, off, base, ub).missing = ToSet(Stages[d.h]) \ ToSet(cache)
           /\ CreateItem(d, c, off, base, ub).mods =
                 {<<m, gen[m]>> : m \in {n \in ToSet(Stages[d.h]) :
                                            n \in ToSet(cache) /\ handle[n] = "live"}}
BY DEF CreateItem, BlankItem

LEMMA CreateType ==
    ASSUME MainTypes, SharedTypes, tag \in Tag, NEW d \in Pipes, NEW c \in Ctx, NEW off \in Nat,
           NEW base \in Handles, NEW ub \in BOOLEAN
    PROVE  CreateItem(d, c, off, base, ub) \in Jobs
<1> DEFINE ms == IF Stale(d, c) THEN {} ELSE ToSet(Stages[d.h])
           live == {m \in ms : m \in ToSet(cache) /\ handle[m] = "live"}
           i == d.index + off + start[tag]
           md == {<<m, gen[m]>> : m \in live}
           mi == ms \ ToSet(cache)
           va == IF Stale(d, c) THEN ub ELSE live = ms
           x == CreateItem(d, c, off, base, ub)
<1>1. x = [BlankItem EXCEPT !.kind = "create", !.tag = tag, !.h = d.h, !.ctx = c,
                  !.index = i, !.ep = d.ep, !.from = d.from, !.base = base,
                  !.mods = md, !.missing = mi, !.valid = va]
  BY DEF CreateItem
<1>2. ToSet(Stages[d.h]) \subseteq Module /\ \A m \in Module : gen[m] \in Nat
  BY ReplayerAssumption DEF Pipes, InfoSet, ToSet, SharedTypes
<1>3. mi \subseteq Module /\ va \in BOOLEAN /\ ms \subseteq Module
  BY <1>2
<1>4. ASSUME NEW y \in md PROVE y \in Module \X Nat
  BY <1>2, <1>3
<1>5. md \in SUBSET (Module \X Nat) /\ mi \in SUBSET Module
  BY <1>3, <1>4
<1>6. d.h \in Hash /\ d.index \in Nat /\ d.ep \in Nat /\ d.from \in Hash \cup {NoHash} /\ start[tag] \in Nat
  BY DEF Pipes, InfoSet, MainTypes
<1>7. i \in Nat
  BY <1>6
<1> HIDE DEF i, md, mi, va, ms, live
<1>8. x = [kind |-> "create", h |-> d.h, m |-> NoMod, tag |-> tag, index |-> i, ctx |-> c,
           outside |-> FALSE, ep |-> d.ep, from |-> d.from, base |-> base, mods |-> md,
           missing |-> mi, valid |-> va]
  BY <1>1, ZenonT(30) DEF BlankItem
<1> HIDE DEF x
<1>9. x \in ItemSet
  BY <1>3, <1>5, <1>6, <1>7, <1>8 DEF ItemSet, Real, Handles
<1>10. x.kind = "create" /\ x.h = d.h
  BY <1>8
<1>11. x \in Jobs
  BY <1>6, <1>9, <1>10 DEF Jobs, Typed, Real
<1>12. QED
  BY <1>11 DEF x

\* What enqueue_pipeline does for a sequence of parsed pipelines.
Entered(items) == {items[k].h : k \in {j \in DOMAIN items : items[j].valid}}

LEMMA PipelinesEnqueued ==
    ASSUME MainTypes, SharedTypes, tag \in Tag, NEW infos \in Seq(Pipes), NEW c \in Ctx, NEW off \in Nat,
           NEW bases, \A k \in DOMAIN infos : bases[infos[k].h] \in Handles,
           EnqueuePipelines(infos, c, off, bases)
    PROVE  \E ub \in BOOLEAN, items \in Seq(Jobs) :
              /\ Len(items) = Len(infos) /\ DOMAIN items = DOMAIN infos
              /\ \A k \in DOMAIN items : items[k] = CreateItem(infos[k], c, off, bases[infos[k].h], ub)
              /\ Enqueue(items, c)
              /\ cache' \in Seq(Module) /\ ToSet(cache') = ToSet(cache)
              /\ \A i, j \in DOMAIN cache' : cache'[i] = cache'[j] => i = j
              /\ pipelines' = [h \in Hash |-> IF h \in Entered(items) /\ pipelines[h] = "absent"
                                             THEN "null" ELSE pipelines[h]]
<1>0. PICK ub \in IF \E i \in DOMAIN infos : Stale(infos[i], c) THEN BOOLEAN ELSE {TRUE} :
        LET its == [i \in DOMAIN infos |-> CreateItem(infos[i], c, off, bases[infos[i].h], ub)]
            ent == {its[i].h : i \in {j \in DOMAIN its : its[j].valid}}
        IN  /\ Enqueue(its, c) /\ cache' \in Touched(infos, c)
            /\ pipelines' = [h \in Hash |-> IF h \in ent /\ pipelines[h] = "absent"
                                            THEN "null" ELSE pipelines[h]]
  BY Zenon DEF EnqueuePipelines
<1>1. ub \in BOOLEAN
  OBVIOUS
<1> DEFINE items == [i \in DOMAIN infos |-> CreateItem(infos[i], c, off, bases[infos[i].h], ub)]
<1>2. items \in Seq(Jobs) /\ Len(items) = Len(infos) /\ DOMAIN items = DOMAIN infos
  <2>1. DOMAIN infos = 1..Len(infos) /\ Len(infos) \in Nat
    OBVIOUS
  <2>2. \A i \in 1..Len(infos) : CreateItem(infos[i], c, off, bases[infos[i].h], ub) \in Jobs
    <3>1. ASSUME NEW i \in 1..Len(infos)
          PROVE  CreateItem(infos[i], c, off, bases[infos[i].h], ub) \in Jobs
      <4>1. infos[i] \in Pipes /\ bases[infos[i].h] \in Handles
        BY <2>1
      <4>2. QED
        BY <1>1, <4>1, CreateType
    <3>2. QED
      BY <3>1
  <2>3. items \in [1..Len(infos) -> Jobs]
    BY <2>1, <2>2
  <2>4. QED
    BY <2>1, <2>3
<1>3. cache' \in SetToSeqs(ToSet(cache))
  BY <1>0 DEF Touched
<1>4. ToSet(cache) \subseteq Module /\ IsFiniteSet(ToSet(cache))
  <2>1. ToSet(cache) \subseteq Module
    BY DEF SharedTypes, ToSet
  <2>2. QED
    BY <2>1, ReplayerAssumption, FS_Subset
<1>5. /\ cache' \in Seq(ToSet(cache)) /\ ToSet(cache') = ToSet(cache)
      /\ \A i, j \in DOMAIN cache' : cache'[i] = cache'[j] => i = j
  BY <1>3, <1>4, Listing
<1>6. cache' \in Seq(Module)
  BY <1>4, <1>5
<1>7. /\ \A k \in DOMAIN items : items[k] = CreateItem(infos[k], c, off, bases[infos[k].h], ub)
      /\ Enqueue(items, c)
      /\ pipelines' = [h \in Hash |-> IF h \in Entered(items) /\ pipelines[h] = "absent"
                                     THEN "null" ELSE pipelines[h]]
  BY <1>0 DEF Entered
<1> HIDE DEF items
<1>8. QED
  BY <1>1, <1>2, <1>5, <1>6, <1>7

-----------------------------------------------------------------------------
(***************************************************************************)
(* What the main thread enqueues.                                          *)
(***************************************************************************)
LEMMA ParseEnqueued ==
    ASSUME MainTypes, Ctl, Parse
    PROVE  /\ \A k \in DOMAIN deferred'[tag][Here] : deferred'[tag][Here][k] \in InfoSet
           /\ \E items \in Seq(Jobs) :
                /\ Enqueue(items, Here)
                /\ \A k \in DOMAIN items : \E n \in 1..Submit(tag, order) :
                      /\ ~Known(n)
                      /\ items[k] = InItem(tag, HashAt(tag, order, n), n - 1, Here)
                /\ \A n \in 1..Submit(tag, order) : ~Known(n) =>
                      \E k \in DOMAIN items :
                         items[k] = InItem(tag, HashAt(tag, order, n), n - 1, Here)
<1>1. /\ Within /\ Here \in {0, 1} /\ Place(order) = Here /\ Has(tag, order) /\ tag \in Tag
  BY HereFacts DEF InContext, Parse
<1>2. /\ Submit(tag, order) \in Nat
      /\ \A i \in 1..Submit(tag, order) : HashAt(tag, order, i) \in Hash
  BY <1>1, ChunkPlace
<1> DEFINE S == {i \in 1..Submit(tag, order) : ~Known(i)}
<1>3. PICK f \in Picks(S) :
         Enqueue([k \in DOMAIN f |->
                     InItem(tag, HashAt(tag, order, f[k]), f[k] - 1, Here)], Here)
  BY DEF Parse, InItem
<1>4. IsFiniteSet(S)
  <2>1. PICK n \in Nat : n = Submit(tag, order)
    BY <1>2
  <2>2. IsFiniteSet(1..n)
    BY FS_Interval
  <2>3. S \subseteq 1..n
    BY <2>1
  <2>4. QED
    BY <2>2, <2>3, FS_Subset
<1>5. f \in Seq(S) /\ DOMAIN f = 1..Len(f) /\ ToSet(f) = S
  BY <1>4, Listing, PickSubset
<1> DEFINE items == [k \in DOMAIN f |->
                        InItem(tag, HashAt(tag, order, f[k]), f[k] - 1, Here)]
<1>6. ASSUME NEW k \in DOMAIN f
      PROVE  f[k] \in 1..Submit(tag, order) /\ ~Known(f[k]) /\ items[k] \in Jobs
  <2>1. f[k] \in S
    BY <1>5
  <2>2. f[k] \in 1..Submit(tag, order) /\ f[k] - 1 \in Nat /\ HashAt(tag, order, f[k]) \in Hash
    BY <1>2, <2>1
  <2>3. Here \in Ctx
    BY <1>1 DEF Ctx
  <2>4. InItem(tag, HashAt(tag, order, f[k]), f[k] - 1, Here) \in Jobs
    BY <1>1, <2>2, <2>3, ParseType
  <2>5. QED
    BY <2>1, <2>2, <2>4
<1>7. items \in Seq(Jobs)
  <2>1. Len(f) \in Nat
    BY <1>5
  <2>2. items = [k \in 1..Len(f) |-> items[k]] /\ \A k \in 1..Len(f) : items[k] \in Jobs
    BY <1>5, <1>6
  <2>3. QED
    BY <2>1, <2>2, Tabulate
<1>8. \A n \in S : \E k \in DOMAIN f : f[k] = n
  BY <1>5 DEF ToSet
<1>9. \A k \in DOMAIN deferred'[tag][Here] : deferred'[tag][Here][k] \in InfoSet
  <2>1. deferred'[tag][Here] = [i \in 1..Submit(tag, order) |-> Resized(deferred[tag][Here], i)]
    BY <1>1 DEF Parse, MainTypes
  <2>2. deferred[tag][Here] \in Seq(InfoSet)
    BY <1>1 DEF MainTypes
  <2>3. ASSUME NEW i \in 1..Submit(tag, order) PROVE Resized(deferred[tag][Here], i) \in InfoSet
    <3>1. NoInfo \in InfoSet
      BY DEF NoInfo, InfoSet
    <3>2. i > Len(deferred[tag][Here]) \/ deferred[tag][Here][i] \in InfoSet
      BY <1>2, <2>2
    <3>3. \A d \in InfoSet, h \in Hash : [d EXCEPT !.from = h] \in InfoSet
      BY DEF InfoSet
    <3>4. QED
      BY <1>2, <3>1, <3>2, <3>3 DEF Resized
  <2>4. QED
    BY <2>1, <2>3
<1>10. /\ Enqueue(items, Here)
       /\ \A k \in DOMAIN items : \E n \in 1..Submit(tag, order) :
             ~Known(n) /\ items[k] = InItem(tag, HashAt(tag, order, n), n - 1, Here)
       /\ \A n \in 1..Submit(tag, order) : ~Known(n) =>
             \E k \in DOMAIN items :
                items[k] = InItem(tag, HashAt(tag, order, n), n - 1, Here)
  BY <1>3, <1>6, <1>8
<1> HIDE DEF items
<1>11. QED
  BY <1>7, <1>9, <1>10

\* The modules of a chunk or of the parents.
LEMMA ModulesEnqueued ==
    ASSUME NEW infos, NEW c, NEW ms \in NewModules(infos, c)
    PROVE  /\ ms \in Seq(Module) /\ DOMAIN ms = 1..Len(ms)
           /\ ToSet(ms) = {m \in Module \ enqueued : Uses(infos, c, m) # {}}
           /\ \A i, j \in DOMAIN ms : ms[i] = ms[j] => i = j
           /\ [k \in DOMAIN ms |-> ModuleItem(ms[k])] \in Seq(Jobs)
           /\ \A k \in DOMAIN ms : ms[k] \in Module \ enqueued
<1> DEFINE S == {m \in Module \ enqueued : Uses(infos, c, m) # {}}
<1>1. ms \in SetToSeqs(S)
  BY DEF NewModules, AsNamed
<1>2. IsFiniteSet(S)
  BY ReplayerAssumption, FS_Subset
<1>3. /\ ms \in Seq(S) /\ DOMAIN ms = 1..Len(ms) /\ ToSet(ms) = S
      /\ \A i, j \in DOMAIN ms : ms[i] = ms[j] => i = j
  BY <1>1, <1>2, Listing
<1>4. \A k \in DOMAIN ms : ms[k] \in Module \ enqueued
  BY <1>3
<1>5. \A k \in DOMAIN ms : ModuleItem(ms[k]) \in Jobs
  BY <1>4, ModuleFields
<1>6. [k \in DOMAIN ms |-> ModuleItem(ms[k])] \in Seq(Jobs)
  <2>1. Len(ms) \in Nat
    BY <1>3
  <2>2. QED
    BY <1>3, <1>5, <2>1
<1>7. QED
  BY <1>3, <1>4, <1>6

\* How the slots of a chunk are split.
LEMMA Split ==
    ASSUME MainTypes, Ctl, EnqueueModules
    PROVE  \E sorted \in Seq(InfoSet), cut \in Nat, ds \in Seq(DerivedPipes) :
              /\ ToSet(sorted) = ToSet(deferred[tag][Here]) /\ cut \in 0..Len(sorted)
              /\ CutAt(sorted, cut)
              /\ deferred' = [deferred EXCEPT ![tag][Here] = SubSeq(sorted, 1, cut)]
              /\ derived' = [derived EXCEPT ![Here] = ds]
              /\ \A k \in DOMAIN ds : \E i \in cut + 1..Len(sorted) : ds[k] = sorted[i]
              /\ \A i \in cut + 1..Len(sorted) : sorted[i].h # NoHash =>
                    \E k \in DOMAIN ds : ds[k] = sorted[i]
              /\ \A i \in cut + 1..Len(sorted) : Late(sorted[i])
<1>1. Within /\ Here \in {0, 1} /\ tag \in Tag
  BY HereFacts DEF InContext, EnqueueModules
<1>2. deferred[tag][Here] \in Seq(InfoSet)
  BY <1>1 DEF MainTypes
<1>0. PICK sorted \in Sortings(deferred[tag][Here]) : \E cut \in 0..Len(sorted) :
         /\ CutAt(sorted, cut)
         /\ deferred' = [deferred EXCEPT ![tag][Here] = SubSeq(sorted, 1, cut)]
         /\ \E f \in Picks({i \in cut + 1..Len(sorted) : sorted[i].h # NoHash}) :
               derived' = [derived EXCEPT ![Here] = [k \in DOMAIN f |-> sorted[f[k]]]]
  BY DEF EnqueueModules
<1>3. PICK cut \in 0..Len(sorted) :
         /\ CutAt(sorted, cut)
         /\ deferred' = [deferred EXCEPT ![tag][Here] = SubSeq(sorted, 1, cut)]
         /\ \E f \in Picks({i \in cut + 1..Len(sorted) : sorted[i].h # NoHash}) :
               derived' = [derived EXCEPT ![Here] = [k \in DOMAIN f |-> sorted[f[k]]]]
  BY <1>0
<1>4. sorted \in Seq(InfoSet) /\ ToSet(sorted) = ToSet(deferred[tag][Here])
  BY <1>2, <1>3, Sorting
<1>5. cut \in Nat /\ Len(sorted) \in Nat /\ DOMAIN sorted = 1..Len(sorted)
  BY <1>3, <1>4
<1>6. ASSUME NEW i \in cut + 1..Len(sorted) PROVE Late(sorted[i]) /\ i \in DOMAIN sorted
  <2>1. i \in DOMAIN sorted /\ i > cut
    BY <1>5
  <2>2. QED
    BY <1>3, <1>5, <2>1 DEF CutAt
<1> DEFINE S == {i \in cut + 1..Len(sorted) : sorted[i].h # NoHash}
<1>7. PICK f \in Picks(S) : derived' = [derived EXCEPT ![Here] = [k \in DOMAIN f |-> sorted[f[k]]]]
  BY <1>3
<1>8. S \subseteq DOMAIN sorted
  BY <1>6
<1>9. f \in SetToSeqs(S)
  BY <1>7, PickSubset
<1>10. f \in Seq(S) /\ DOMAIN f = 1..Len(f) /\ ToSet(f) = S /\ \A k \in DOMAIN f : f[k] \in S
  BY <1>4, <1>8, <1>9, Picking
<1> DEFINE ds == [k \in DOMAIN f |-> sorted[f[k]]]
<1>11. ASSUME NEW k \in DOMAIN f PROVE ds[k] \in DerivedPipes
  <2>1. f[k] \in S
    BY <1>10
  <2>2. sorted[f[k]] \in InfoSet /\ sorted[f[k]].h # NoHash /\ Late(sorted[f[k]])
    BY <1>4, <1>6, <2>1
  <2>3. sorted[f[k]].h \in Hash
    BY <2>2 DEF InfoSet
  <2>4. QED
    BY <2>2, <2>3 DEF DerivedPipes, Pipes, Late
<1>12. ds \in Seq(DerivedPipes)
  <2>1. Len(f) \in Nat
    BY <1>10
  <2>2. QED
    BY <1>10, <1>11, <2>1
<1>13. \A k \in DOMAIN ds : \E i \in cut + 1..Len(sorted) : ds[k] = sorted[i]
  BY <1>10
<1>14. \A i \in cut + 1..Len(sorted) : sorted[i].h # NoHash => \E k \in DOMAIN ds : ds[k] = sorted[i]
  <2>1. \A i \in S : \E k \in DOMAIN f : f[k] = i
    BY <1>10 DEF ToSet
  <2>2. QED
    BY <2>1
<1>15. derived' = [derived EXCEPT ![Here] = ds]
  BY <1>7
<1> HIDE DEF ds
<1>16. QED
  BY <1>3, <1>4, <1>5, <1>6, <1>12, <1>13, <1>14, <1>15

LEMMA OutsideEnqueued ==
    ASSUME MainTypes, Ctl, EnqueueOutside
    PROVE  /\ \A k \in DOMAIN derived[Here] : Base[derived[Here][k].h] \in Hash \cap Parent
           /\ outside' = outside \cup {Base[derived[Here][k].h] : k \in Wanted(derived[Here])}
           /\ \E items \in Seq(Jobs) :
                /\ Enqueue(items, PARENT)
                /\ \A k \in DOMAIN items : \E n \in Wanted(derived[Here]) :
                      items[k] = OutItem(tag, Base[derived[Here][n].h], derived[Here][n].index, PARENT)
                /\ \A n \in Wanted(derived[Here]) : \E k \in DOMAIN items :
                      items[k] = OutItem(tag, Base[derived[Here][n].h], derived[Here][n].index, PARENT)
<1>1. Within /\ Here \in {0, 1} /\ tag \in Tag
  BY HereFacts DEF InContext, EnqueueOutside
<1>2. PICK ds : ds = derived[Here]
  OBVIOUS
<1>3. ds \in Seq(DerivedPipes)
  BY <1>1, <1>2 DEF MainTypes
<1>4. ASSUME NEW k \in DOMAIN ds PROVE Base[ds[k].h] \in Hash \cap Parent /\ ds[k].index \in Nat
  <2>1. ds[k] \in DerivedPipes
    BY <1>3
  <2>2. ds[k].h \in Hash /\ Base[ds[k].h] # NoHash /\ ds[k].index \in Nat
    BY <2>1 DEF DerivedPipes, Pipes, Derived, InfoSet
  <2>3. QED
    BY <2>2, ReplayerAssumption
<1>5. PICK f \in Picks(Wanted(ds)) :
         Enqueue([k \in DOMAIN f |->
                     OutItem(tag, Base[ds[f[k]].h], ds[f[k]].index, PARENT)], PARENT)
  BY <1>2 DEF EnqueueOutside, OutItem
<1>6. f \in SetToSeqs(Wanted(ds)) /\ Wanted(ds) \in SUBSET DOMAIN ds
  BY <1>5, PickSubset DEF Wanted
<1>7. f \in Seq(Wanted(ds)) /\ DOMAIN f = 1..Len(f) /\ ToSet(f) = Wanted(ds) /\ \A k \in DOMAIN f : f[k] \in Wanted(ds)
  BY <1>3, <1>6, Picking
<1> DEFINE items == [k \in DOMAIN f |->
                        OutItem(tag, Base[ds[f[k]].h], ds[f[k]].index, PARENT)]
<1>8. ASSUME NEW k \in DOMAIN f PROVE items[k] \in Jobs
  <2>1. f[k] \in DOMAIN ds
    BY <1>6, <1>7
  <2>2. PARENT \in Ctx
    BY DEF PARENT, Ctx
  <2>3. OutItem(tag, Base[ds[f[k]].h], ds[f[k]].index, PARENT) \in Jobs
    BY <1>1, <1>4, <2>1, <2>2, ParseType
  <2>4. QED
    BY <2>3
<1>9. items \in Seq(Jobs)
  <2>1. Len(f) \in Nat
    BY <1>7
  <2>2. items = [k \in 1..Len(f) |-> items[k]] /\ \A k \in 1..Len(f) : items[k] \in Jobs
    BY <1>7, <1>8
  <2>3. QED
    BY <2>1, <2>2, Tabulate
<1>10. \A n \in Wanted(ds) : \E k \in DOMAIN f : f[k] = n
  BY <1>7 DEF ToSet
<1>11. /\ Enqueue(items, PARENT)
       /\ \A k \in DOMAIN items : \E n \in Wanted(ds) :
             items[k] = OutItem(tag, Base[ds[n].h], ds[n].index, PARENT)
       /\ \A n \in Wanted(ds) : \E k \in DOMAIN items :
             items[k] = OutItem(tag, Base[ds[n].h], ds[n].index, PARENT)
  BY <1>5, <1>7, <1>10
<1>12. outside' = outside \cup {Base[ds[k].h] : k \in Wanted(ds)}
  BY <1>2 DEF EnqueueOutside
<1> HIDE DEF items
<1>13. QED
  BY <1>2, <1>4, <1>9, <1>11, <1>12

\* Which pipelines the three passes that compile enqueue.
LEMMA PrimaryEnqueued ==
    ASSUME MainTypes, Ctl, EnqueuePrimary
    PROVE  \E infos \in Seq(Pipes) : \E bases :
              /\ \A k \in DOMAIN infos : \E n \in DOMAIN deferred[tag][Here] : infos[k] = deferred[tag][Here][n]
              /\ \A k \in DOMAIN infos : bases[infos[k].h] = (IF Derived(infos[k].h) THEN "raw" ELSE "none")
              /\ \A k \in DOMAIN infos : bases[infos[k].h] \in Handles
              /\ EnqueuePipelines(infos, Here, Offset(order), bases)
<1>1. Within /\ Here \in {0, 1} /\ tag \in Tag
  BY HereFacts DEF InContext, EnqueuePrimary
<1>2. PICK ds : ds = deferred[tag][Here]
  OBVIOUS
<1>3. ds \in Seq(InfoSet)
  BY <1>1, <1>2 DEF MainTypes
<1> DEFINE S == {i \in DOMAIN ds : ds[i].h # NoHash}
           bases == [h \in Hash |-> IF Derived(h) THEN "raw" ELSE "none"]
<1>4. PICK f \in Picks(S) : EnqueuePipelines([k \in DOMAIN f |-> ds[f[k]]], Here, Offset(order), bases)
  BY <1>2 DEF EnqueuePrimary
<1>5. f \in SetToSeqs(S) /\ S \in SUBSET DOMAIN ds
  BY <1>4, PickSubset
<1>6. f \in Seq(S) /\ DOMAIN f = 1..Len(f) /\ \A k \in DOMAIN f : f[k] \in S
  BY <1>3, <1>5, Picking
<1> DEFINE infos == [k \in DOMAIN f |-> ds[f[k]]]
<1>7. \A k \in DOMAIN f : infos[k] \in Pipes
  <2>1. ASSUME NEW k \in DOMAIN f PROVE infos[k] \in Pipes
    <3>1. f[k] \in S
      BY <1>6
    <3>2. ds[f[k]] \in InfoSet /\ ds[f[k]].h # NoHash
      BY <1>3, <3>1
    <3>3. ds[f[k]].h \in Hash
      BY <3>2 DEF InfoSet
    <3>4. QED
      BY <3>2, <3>3 DEF Pipes
  <2>2. QED
    BY <2>1
<1>8. infos \in Seq(Pipes)
  <2>1. Len(f) \in Nat
    BY <1>6
  <2>2. infos = [k \in 1..Len(f) |-> infos[k]] /\ \A k \in 1..Len(f) : infos[k] \in Pipes
    BY <1>6, <1>7
  <2>3. QED
    BY <2>1, <2>2, Tabulate
<1>9. \A k \in DOMAIN infos : bases[infos[k].h] = (IF Derived(infos[k].h) THEN "raw" ELSE "none")
  BY <1>7 DEF Pipes
<1>10. \A k \in DOMAIN infos : \E n \in DOMAIN ds : infos[k] = ds[n]
  BY <1>6
<1>11. \A k \in DOMAIN infos : bases[infos[k].h] \in Handles
  BY <1>9 DEF Handles
<1> HIDE DEF infos, bases
<1>12. EnqueuePipelines(infos, Here, Offset(order), bases)
  BY <1>4 DEF infos, bases
<1>13. QED
  BY <1>2, <1>8, <1>9, <1>10, <1>11, <1>12

LEMMA ParentsEnqueued ==
    ASSUME MainTypes, Ctl, EnqueueParents
    PROVE  \E infos \in Seq(Pipes) : \E bases :
              /\ \A k \in DOMAIN infos : infos[k] \in parents
              /\ \A k \in DOMAIN infos : bases[infos[k].h] = "none"
              /\ \A k \in DOMAIN infos : bases[infos[k].h] \in Handles
              /\ EnqueuePipelines(infos, PARENT, Offset(order), bases)
<1> DEFINE bases == [h \in Hash |-> "none"]
<1>1. PICK infos \in SetToSeqs(parents) : EnqueuePipelines(infos, PARENT, Offset(order), bases)
  BY DEF EnqueueParents
<1>2. IsFiniteSet(parents) /\ parents \subseteq Pipes
  BY DEF MainTypes
<1>3. infos \in Seq(parents)
  BY <1>1, <1>2, Listing
<1>4. infos \in Seq(Pipes) /\ \A k \in DOMAIN infos : infos[k] \in parents
  BY <1>2, <1>3
<1>5. \A k \in DOMAIN infos : infos[k].h \in Hash
  BY <1>4 DEF Pipes
<1>6. \A k \in DOMAIN infos : bases[infos[k].h] = "none"
  BY <1>5
<1>7. \A k \in DOMAIN infos : bases[infos[k].h] \in Handles
  BY <1>6 DEF Handles
<1> HIDE DEF bases
<1>8. QED
  BY <1>1, <1>4, <1>6, <1>7

LEMMA DerivedEnqueued ==
    ASSUME MainTypes, Ctl, SharedTypes, EnqueueDerived
    PROVE  \E infos \in Seq(Pipes) : \E bases :
              /\ \A k \in DOMAIN infos : \E n \in Ready(derived[Here]) : infos[k] = derived[Here][n]
              /\ \A k \in DOMAIN infos : bases[infos[k].h] = BaseHandle(infos[k].h)
              /\ \A k \in DOMAIN infos : bases[infos[k].h] \in {"null", "live"}
              /\ \A k \in DOMAIN infos : bases[infos[k].h] \in Handles
              /\ EnqueuePipelines(infos, Here, Offset(order), bases)
<1>1. Within /\ Here \in {0, 1} /\ tag \in Tag
  BY HereFacts DEF InContext, EnqueueDerived
<1>2. PICK ds : ds = derived[Here]
  OBVIOUS
<1>3. ds \in Seq(DerivedPipes)
  BY <1>1, <1>2 DEF MainTypes
<1> DEFINE bases == [h \in {ds[i].h : i \in DOMAIN ds} |-> BaseHandle(h)]
<1>4. PICK f \in SetToSeqs(Ready(ds)) : EnqueuePipelines([k \in DOMAIN f |-> ds[f[k]]], Here, Offset(order), bases)
  BY <1>2 DEF EnqueueDerived
<1>5. Ready(ds) \in SUBSET DOMAIN ds
  BY DEF Ready
<1>6. f \in Seq(Ready(ds)) /\ DOMAIN f = 1..Len(f) /\ \A k \in DOMAIN f : f[k] \in Ready(ds)
  BY <1>3, <1>4, <1>5, Picking
<1> DEFINE infos == [k \in DOMAIN f |-> ds[f[k]]]
<1>7. \A k \in DOMAIN f : infos[k] \in Pipes /\ Base[infos[k].h] \in Hash
  <2>1. ASSUME NEW k \in DOMAIN f PROVE infos[k] \in Pipes /\ Base[infos[k].h] \in Hash
    <3>1. ds[f[k]] \in DerivedPipes
      BY <1>3, <1>5, <1>6
    <3>2. infos[k] \in Pipes /\ infos[k].h \in Hash /\ Base[infos[k].h] # NoHash
      BY <3>1 DEF DerivedPipes, Pipes, Derived
    <3>3. QED
      BY <3>2, ReplayerAssumption
  <2>2. QED
    BY <2>1
<1>8. infos \in Seq(Pipes)
  <2>1. Len(f) \in Nat
    BY <1>6
  <2>2. infos = [k \in 1..Len(f) |-> infos[k]] /\ \A k \in 1..Len(f) : infos[k] \in Pipes
    BY <1>6, <1>7
  <2>3. QED
    BY <2>1, <2>2, Tabulate
<1>9. \A k \in DOMAIN infos : \E n \in Ready(ds) : infos[k] = ds[n]
  BY <1>6
<1>10. \A k \in DOMAIN infos : bases[infos[k].h] = BaseHandle(infos[k].h)
  BY <1>5, <1>6
<1>11. \A k \in DOMAIN infos : bases[infos[k].h] \in {"null", "live"}
  BY <1>7, <1>10 DEF BaseHandle, SharedTypes
<1>12. \A k \in DOMAIN infos : bases[infos[k].h] \in Handles
  BY <1>11 DEF Handles
<1> HIDE DEF infos, bases
<1>13. EnqueuePipelines(infos, Here, Offset(order), bases)
  BY <1>4 DEF infos, bases
<1>14. QED
  BY <1>2, <1>8, <1>9, <1>10, <1>11, <1>12, <1>13

-----------------------------------------------------------------------------
(***************************************************************************)
(* The shape of the state is kept.                                         *)
(***************************************************************************)
\* The steps of the main thread that are a pass or a part of one.
Batched == \/ Parse \/ Prune \/ EnqueueModules \/ EnqueuePrimary \/ EnqueueOutside
           \/ EnqueueParentModules \/ EnqueueParents \/ Reclaim \/ EnqueueDerived

LEMMA BatchedFacts ==
    ASSUME MainTypes, Ctl, Batched
    PROVE  /\ Within /\ todo # <<>> /\ Head(todo).op # "sync" /\ waiting = NoCtx /\ Done
           /\ UNCHANGED <<threads, robust, start, masked, tag, order, waiting>>
           /\ UNCHANGED <<completed, handle, work, at, blame, compiled, ever, crashes>>
<1>1. \E op \in Ops \ {"boot", "sync", "tear_down", "join"} : Doing(op)
  BY DEF Batched, Parse, Prune, EnqueueModules, EnqueuePrimary, EnqueueOutside,
         EnqueueParentModules, EnqueueParents, Reclaim, EnqueueDerived, Ops
<1>2. todo # <<>> /\ Head(todo).op # "sync" /\ Within
  BY <1>1, Where DEF Doing, Ops
<1>3. waiting = NoCtx
  BY <1>2 DEF Ctl, Sync, Step
<1>4. /\ Done /\ UNCHANGED <<threads, robust, start, masked, tag, order, waiting>>
      /\ UNCHANGED <<completed, handle, work, at, blame, compiled, ever, crashes>>
  BY DEF Batched, Parse, Prune, EnqueueModules, EnqueuePrimary, EnqueueOutside,
         EnqueueParentModules, EnqueueParents, Reclaim, EnqueueDerived, options, workers, history
<1>5. QED
  BY <1>2, <1>3, <1>4

LEMMA WorkerFacts ==
    ASSUME NEW w \in Thread, Worker(w)
    PROVE  /\ UNCHANGED <<threads, robust, start, masked, tag, order, todo, derived>>
           /\ UNCHANGED <<outside, enqueued, queued, epoch, gen, crashes>>
           /\ waiting' \in {waiting, NoCtx}
BY DEF Worker, BootWorker, Take, ParsePipeline, MakeModule, CreatePipeline, Quit, Complete,
       options, main, shared, history

LEMMA CtlMain ==
    ASSUME MainTypes, Ctl, Main
    PROVE  /\ Ctl' /\ todo' \in Seq(Steps) /\ waiting' \in Ctx \cup {NoCtx}
           /\ tag' \in Tag \cup {"end", "done"}
           /\ order' \in -1..(PASS_COUNT * (Len(List["graphics"]) + Len(List["compute"]) + 1))
<1>0. ASSUME todo # <<>> PROVE Tail(todo) \in Seq(Steps)
  BY <1>0 DEF MainTypes
<1>1. ASSUME Within, todo # <<>>, Done, UNCHANGED <<tag, order, start>>, waiting' = NoCtx
      PROVE  Ctl'
  <2>1. Left'
    BY <1>1, LeftDone
  <2>2. Within' /\ Has(tag, order)'
    BY <1>1 DEF Within, Ctl, Has, Chunks, Count
  <2>3. tag \in Tag /\ order >= 0
    BY <1>1 DEF Within
  <2>4. tag' # "end" /\ tag' # "done" /\ order' # -1
    BY <1>1, <2>3 DEF Tag, MainTypes
  <2>5. QED
    BY <1>1, <2>1, <2>2, <2>4 DEF Ctl
<1>2. CASE Batched
  BY <1>0, <1>1, <1>2, BatchedFacts DEF MainTypes, Done
<1>3. CASE AwaitBoot
  <2>1. /\ tag = "graphics" /\ order = -1 /\ todo = <<Step("boot", 0)>> /\ Done
        /\ UNCHANGED <<tag, order, waiting>>
    BY <1>3, Where DEF AwaitBoot
  <2>2. todo' = <<>>
    BY <2>1, TailOne DEF Done
  <2>3. waiting = NoCtx
    BY <2>1 DEF Ctl, Sync, Step
  <2>4. ~Within' /\ tag' \in Tag /\ tag' # "end" /\ tag' # "done" /\ waiting' = NoCtx
    BY <2>1, <2>3 DEF Within, Tag
  <2>5. Ctl'
    BY <2>2, <2>4 DEF Ctl
  <2>6. todo' \in Seq(Steps)
    BY <2>2
  <2>7. QED
    BY <2>1, <2>4, <2>5, <2>6 DEF MainTypes
<1>4. CASE Advance
  <2>1. /\ OnIn \/ OnTo \/ Into \/ Past
        /\ tag' \in {"graphics", "compute", "end"}
        /\ Within' => /\ order' \in Nat /\ order' <= PASS_COUNT * (Chunks(tag) + 1)
                      /\ (Has(tag, order) /\ Left)'
    BY <1>4, Turn
  <2>2. todo = <<>> /\ tag \in Tag /\ waiting' = waiting
    BY <1>4 DEF Advance
  <2>3. waiting = NoCtx
    BY <2>2 DEF Ctl
  <2>4. CASE Within'
    <3>1. tag' = tag
      BY <2>1, <2>4 DEF OnIn, OnTo, Into, Past
    <3>2. todo' \in Seq(Steps)
      <4>1. \E o \in Orders(tag) : order' = o /\ todo' = Script(o)
        BY <1>4, <3>1, <2>4 DEF Advance, Within, Tag
      <4>2. Phase' \in Phases
        <5>1. Has(tag, order)' /\ order' \in Nat
          BY <2>1, <2>4
        <5>2. (Pass(order) \in {1, 5} => Place(order) = 0)'
          BY <5>1 DEF Has
        <5>3. PICK o \in Nat : o = order' /\ (Pass(o) \in {1, 5} => Place(o) = 0)
          BY <5>1, <5>2 DEF Pass, Place
        <5>9. PICK b \in Nat, r \in 0..13 : r = o % 14 /\ o = 14 * b + r
          <6>1. o \div 14 \in Nat /\ o % 14 \in 0..13 /\ o = 14 * (o \div 14) + (o % 14)
            OBVIOUS
          <6>2. QED
            BY <6>1
        <5>4. r = o % 14 /\ o % 2 = r % 2
          BY <5>9
        <5>5. Pass(o) = r \div 2 /\ Place(o) = r % 2
          BY <5>3, <5>4 DEF Pass, Place, PASS_COUNT
        <5>6. r \notin {3, 11}
          BY <5>3, <5>5
        <5>7. Phase' = r
          BY <5>3, <5>4 DEF Phase
        <5>8. QED
          BY <5>6, <5>7 DEF Phases
      <4>3. QED
        BY <2>1, <2>4, <4>1, <4>2, ScriptTypes DEF Phase
    <3>3. order' \in -1..(PASS_COUNT * (Len(List["graphics"]) + Len(List["compute"]) + 1))
      <4>1. PICK K \in Nat, n \in Nat : K = Chunks(tag) /\ n = Len(List[tag]) /\ K <= n
        BY <2>2, ChunkCount
      <4>2. Len(List["graphics"]) \in Nat /\ Len(List["compute"]) \in Nat
        BY ReplayerAssumption DEF Tag
      <4>3. PICK g \in Nat, q \in Nat : g = Len(List["graphics"]) /\ q = Len(List["compute"])
        BY <4>2, Zenon
      <4>4. n = g \/ n = q
        BY <2>2, <4>1, <4>3, Zenon DEF Tag
      <4>5. order' \in Nat /\ order' <= 7 * (K + 1)
        BY <2>1, <2>4, <4>1 DEF PASS_COUNT
      <4>6. order' \in -1..(PASS_COUNT * (g + q + 1))
        BY <4>1, <4>4, <4>5 DEF PASS_COUNT
      <4>7. QED
        BY <4>3, <4>6, Zenon
    <3>4. tag' \in Tag /\ tag' # "end" /\ tag' # "done"
      BY <2>2, <3>1 DEF Tag
    <3>5. QED
      <4>1. Ctl'
        BY <2>1, <2>2, <2>3, <2>4, <3>4 DEF Ctl, Within, MainTypes
      <4>2. QED
        BY <2>2, <2>3, <3>2, <3>3, <3>4, <4>1
  <2>5. CASE ~Within'
    <3>1. Past
      BY <2>1, <2>5 DEF OnIn, OnTo, Into
    <3>2. CASE tag = "graphics" /\ tag' = "compute" /\ order' = -1 /\ todo' = <<>>
      <4>1. order' \in -1..(PASS_COUNT * (Len(List["graphics"]) + Len(List["compute"]) + 1))
        BY <3>2, ReplayerAssumption DEF PASS_COUNT, Tag
      <4>2. todo' \in Seq(Steps)
        BY <3>2
      <4>3. QED
        BY <2>2, <2>3, <2>5, <3>2, <4>1, <4>2 DEF Ctl, NoCtx, Tag
    <3>3. CASE tag = "compute" /\ tag' = "end" /\ todo' = End5 /\ order' = order
      BY <2>2, <2>3, <2>5, <3>3, ScriptTypes DEF Ctl, NoCtx, Tag, Ending, MainTypes
    <3>4. QED
      BY <3>1, <3>2, <3>3 DEF Past
  <2>6. QED
    BY <2>4, <2>5
<1>5. CASE SyncContext
  <2>1. /\ Doing("sync") /\ waiting = NoCtx /\ UNCHANGED <<tag, order, start>> /\ todo # <<>>
        /\ \/ Done /\ waiting' = NoCtx
           \/ todo' = todo /\ waiting' = Here
    BY <1>5 DEF SyncContext, Doing, options
  <2>2. Head(todo) \in Steps
    BY <2>1 DEF MainTypes
  <2>3. Here \in Ctx /\ Head(todo) = Sync(Here)
    BY <2>1, <2>2 DEF Steps, Here, Doing, Sync, Step
  <2>4. CASE todo' = todo /\ waiting' = Here
    <3>1. (Left' <=> Left) /\ (Within' <=> Within) /\ (Has(tag, order)' <=> Has(tag, order))
      BY <2>1, <2>4 DEF Left, Phase, Within, Has, Chunks, Count
    <3>2. Ctl'
      BY <2>1, <2>3, <2>4, <3>1 DEF Ctl
    <3>3. QED
      BY <2>1, <2>3, <2>4, <3>2 DEF MainTypes
  <2>5. CASE Done /\ waiting' = NoCtx /\ Within
    BY <1>0, <1>1, <2>1, <2>5 DEF MainTypes, Done
  <2>6. CASE Done /\ waiting' = NoCtx /\ ~Within
    <3>1. tag = "end" /\ ~Within'
      BY <2>1, <2>6, Where DEF Within
    <3>2. \/ todo = End5 \/ todo = End4 \/ todo = End3 \/ todo = End2
          \/ todo = <<Step("tear_down", 0)>> \/ todo = <<Step("join", 0)>>
      BY <3>1 DEF Ctl, Ending
    <3>3. ~(todo = <<Step("tear_down", 0)>>) /\ ~(todo = <<Step("join", 0)>>)
      BY <2>3 DEF Sync, Step
    <3>4. todo' = End4 \/ todo' = End3 \/ todo' = End2 \/ todo' = <<Step("tear_down", 0)>>
      BY <2>6, <3>2, <3>3, LongScripts, Zenon DEF Done
    <3>5. todo' \in Ending
      BY <3>4 DEF Ending
    <3>6. tag' = "end" /\ tag' \notin Tag /\ tag' # "done"
      BY <2>1, <3>1 DEF Tag
    <3>7. QED
      BY <1>0, <2>1, <2>6, <3>1, <3>5, <3>6 DEF Ctl, MainTypes, Done
  <2>7. QED
    BY <2>1, <2>4, <2>5, <2>6
<1>6. CASE TearDown
  <2>1. /\ tag = "end" /\ todo = <<Step("tear_down", 0)>> /\ todo' = <<Step("join", 0)>>
        /\ UNCHANGED <<tag, order, waiting>>
    BY <1>6, Where DEF TearDown
  <2>2. waiting = NoCtx
    BY <2>1 DEF Ctl, Sync, Step
  <2>3. todo' \in Seq(Steps) /\ todo' \in Ending
    BY <2>1, ScriptTypes DEF Ending
  <2>4. QED
    BY <2>1, <2>2, <2>3 DEF Ctl, Within, MainTypes, Tag
<1>7. CASE Join
  <2>1. /\ tag = "end" /\ todo = <<Step("join", 0)>> /\ Done /\ tag' = "done"
        /\ UNCHANGED <<order, waiting>>
    BY <1>7, Where DEF Join
  <2>2. waiting = NoCtx
    BY <2>1 DEF Ctl, Sync, Step
  <2>3. todo' = <<>>
    BY <2>1, TailOne DEF Done
  <2>4. QED
    <3>1. ~Within' /\ tag' # "end" /\ tag' \notin Tag
      BY <2>1 DEF Within, Tag
    <3>2. Ctl'
      BY <2>1, <2>2, <2>3, <3>1 DEF Ctl
    <3>3. todo' \in Seq(Steps)
      BY <2>3
    <3>4. QED
      BY <2>1, <2>2, <3>2, <3>3 DEF MainTypes
<1>8. QED
  BY <1>2, <1>3, <1>4, <1>5, <1>6, <1>7 DEF Main, Batched

LEMMA CtlWorker ==
    ASSUME MainTypes, Ctl, NEW w \in Thread, Worker(w)
    PROVE  Ctl' /\ (waiting' # NoCtx => waiting' = waiting)
<1>1. UNCHANGED <<start, tag, order, todo>> /\ waiting' \in {waiting, NoCtx}
  BY WorkerFacts
<1>2. (Left' <=> Left) /\ (Within' <=> Within) /\ (Has(tag, order)' <=> Has(tag, order))
  BY <1>1 DEF Left, Phase, Within, Has, Chunks, Count
<1>3. QED
  BY <1>1, <1>2 DEF Ctl

\* Items added to the queue, taken from it, put into the hands of a worker.
LEMMA AddItems ==
    ASSUME WorkTypes, NEW items \in Seq(Jobs), NEW c \in Ctx, Enqueue(items, c),
           queued \in [Ctx -> Nat]
    PROVE  /\ queue' \in Seq(Jobs) /\ queue' = queue \o items /\ Len(items) \in Nat
           /\ queued' \in [Ctx -> Nat] /\ queued'[c] = queued[c] + Len(items)
           /\ \A b \in Ctx : b # c => queued'[b] = queued[b]
<1>1. queue \in Seq(Jobs) /\ Len(items) \in Nat
  BY DEF WorkTypes
<1>2. QED
  BY <1>1 DEF Enqueue

LEMMA MainItems ==
    ASSUME Shape, Main
    PROVE  \/ UNCHANGED <<queue, queued>>
           \/ \E items \in Seq(Jobs), c \in Ctx :
                 /\ Enqueue(items, c) /\ Within
                 /\ \A k \in DOMAIN items : items[k].ctx = c
<1> USE DEF Shape
<1>1. CASE Parse
  <2>1. Within /\ Here \in Ctx /\ Here \in {0, 1} /\ tag \in Tag /\ Place(order) = Here /\ Has(tag, order)
    BY <1>1, HereFacts DEF InContext, Parse, Ctx
  <2>2. PICK items \in Seq(Jobs) :
           /\ Enqueue(items, Here)
           /\ \A k \in DOMAIN items : \E n \in 1..Submit(tag, order) :
                 items[k] = InItem(tag, HashAt(tag, order, n), n - 1, Here)
    BY <1>1, ParseEnqueued
  <2>3. ASSUME NEW k \in DOMAIN items PROVE items[k].ctx = Here
    <3>1. PICK n \in 1..Submit(tag, order) :
             items[k] = InItem(tag, HashAt(tag, order, n), n - 1, Here)
      BY <2>2
    <3>2. QED
      BY <3>1, InFields
  <2>4. QED
    BY <2>1, <2>2, <2>3
<1>2. CASE EnqueueModules \/ EnqueueParentModules
  <2>0. PICK infos, c : \E ms \in NewModules(infos, c) : Enqueue([k \in DOMAIN ms |-> ModuleItem(ms[k])], SHADER)
    <3>1. CASE EnqueueModules
      <4>1. PICK infos, c : infos = deferred[tag][Here] /\ c = Here
        OBVIOUS
      <4>2. \E ms \in NewModules(infos, c) : Enqueue([k \in DOMAIN ms |-> ModuleItem(ms[k])], SHADER)
        BY <3>1, <4>1 DEF EnqueueModules
      <4>3. QED
        BY <4>2
    <3>2. CASE EnqueueParentModules
      <4>1. PICK infos \in SetToSeqs(parents) : \E ms \in NewModules(infos, PARENT) :
               Enqueue([k \in DOMAIN ms |-> ModuleItem(ms[k])], SHADER)
        BY <3>2 DEF EnqueueParentModules
      <4>2. QED
        BY <4>1
    <3>3. QED
      BY <1>2, <3>1, <3>2
  <2>1. PICK ms \in NewModules(infos, c) : Enqueue([k \in DOMAIN ms |-> ModuleItem(ms[k])], SHADER)
    BY <2>0
  <2>2. [k \in DOMAIN ms |-> ModuleItem(ms[k])] \in Seq(Jobs) /\ \A k \in DOMAIN ms : ms[k] \in Module
    BY <2>1, ModulesEnqueued
  <2>3. \A k \in DOMAIN ms : ModuleItem(ms[k]).ctx = SHADER
    BY <2>2, ModuleFields
  <2>4. SHADER \in Ctx
    BY DEF SHADER, Ctx
  <2>5. Within
    BY <1>2, BatchedFacts DEF Batched
  <2>6. QED
    BY <2>1, <2>2, <2>3, <2>4, <2>5
<1>3. CASE EnqueueOutside
  <2>1. PICK items \in Seq(Jobs) :
           /\ Enqueue(items, PARENT)
           /\ \A k \in DOMAIN items : \E n \in Wanted(derived[Here]) :
                 items[k] = OutItem(tag, Base[derived[Here][n].h], derived[Here][n].index, PARENT)
    BY <1>3, OutsideEnqueued
  <2>2. PARENT \in Ctx
    BY DEF PARENT, Ctx
  <2>4. ASSUME NEW k \in DOMAIN items PROVE items[k].ctx = PARENT
    <3>1. PICK n \in Wanted(derived[Here]) :
             items[k] = OutItem(tag, Base[derived[Here][n].h], derived[Here][n].index, PARENT)
      BY <2>1
    <3>2. QED
      BY <3>1, OutFields
  <2>5. Within
    BY <1>3, BatchedFacts DEF Batched
  <2>6. QED
    BY <2>1, <2>2, <2>4, <2>5
<1>4. ASSUME NEW infos \in Seq(Pipes), NEW bases, NEW c \in Ctx, NEW off \in Nat, Within,
             \A k \in DOMAIN infos : bases[infos[k].h] \in Handles,
             EnqueuePipelines(infos, c, off, bases)
      PROVE  \E items \in Seq(Jobs), b \in Ctx :
                 /\ Enqueue(items, b) /\ Within
                 /\ \A k \in DOMAIN items : items[k].ctx = b
  <2>1. tag \in Tag
    BY <1>4 DEF Within
  <2>2. PICK ub \in BOOLEAN, items \in Seq(Jobs) :
           /\ DOMAIN items = DOMAIN infos
           /\ \A k \in DOMAIN items : items[k] = CreateItem(infos[k], c, off, bases[infos[k].h], ub)
           /\ Enqueue(items, c)
    BY <1>4, <2>1, PipelinesEnqueued
  <2>3. \A k \in DOMAIN items : items[k].ctx = c
    BY <2>2, CreateFields
  <2>4. QED
    BY <1>4, <2>2, <2>3
<1>5. ASSUME Within PROVE Offset(order) \in Nat
  <2>1. order \in Nat /\ Place(order) \in {0, 1} /\ Has(tag, order)
    BY <1>5 DEF Within, MainTypes, Place, Ctl
  <2>2. QED
    BY <1>5, <2>1, ChunkPlace
<1>6. CASE EnqueuePrimary
  <2>1. Within /\ Here \in Ctx
    BY <1>6, HereFacts DEF InContext, EnqueuePrimary, Ctx
  <2>2. QED
    BY <1>4, <1>5, <1>6, <2>1, PrimaryEnqueued
<1>7. CASE EnqueueParents
  <2>1. Within /\ PARENT \in Ctx
    BY <1>7, BatchedFacts DEF Batched, PARENT, Ctx
  <2>2. QED
    BY <1>4, <1>5, <1>7, <2>1, ParentsEnqueued
<1>8. CASE EnqueueDerived
  <2>1. Within /\ Here \in Ctx
    BY <1>8, HereFacts DEF InContext, EnqueueDerived, Ctx
  <2>2. QED
    BY <1>4, <1>5, <1>8, <2>1, DerivedEnqueued
<1>9. CASE AwaitBoot \/ Advance \/ SyncContext \/ Prune \/ Reclaim \/ TearDown \/ Join
  BY <1>9 DEF AwaitBoot, Advance, SyncContext, Prune, Reclaim, TearDown, Join, shared
<1>10. QED
  BY <1>1, <1>2, <1>3, <1>6, <1>7, <1>8, <1>9 DEF Main

\* enqueue_pipeline for a pass, whichever it is.
Creating == EnqueuePrimary \/ EnqueueParents \/ EnqueueDerived

LEMMA OffsetType ==
    ASSUME MainTypes, Ctl, Within
    PROVE  Offset(order) \in Nat /\ PARENT \in Ctx /\ SHADER \in Ctx /\ tag \in Tag
<1>1. order \in Nat /\ Place(order) \in {0, 1} /\ Has(tag, order)
  BY DEF Within, MainTypes, Place, Ctl
<1>2. QED
  BY <1>1, ChunkPlace DEF PARENT, SHADER, Ctx, Within

LEMMA CreatingFrame ==
    ASSUME Shape, Creating
    PROVE  /\ cache' \in Seq(Module) /\ ToSet(cache') = ToSet(cache)
           /\ \A i, j \in DOMAIN cache' : cache'[i] = cache'[j] => i = j
           /\ pipelines' \in [Hash -> {"absent", "null", "live"}]
           /\ UNCHANGED <<deferred, outside, enqueued, epoch, gen, seen>>
<1> USE DEF Shape
<1>1. Within
  BY BatchedFacts DEF Batched, Creating
<1>2. PICK infos \in Seq(Pipes), c \in Ctx : \E bases :
         /\ \A k \in DOMAIN infos : bases[infos[k].h] \in Handles
         /\ EnqueuePipelines(infos, c, Offset(order), bases)
  <2>1. CASE EnqueuePrimary
    <3>1. Here \in Ctx
      BY <2>1, HereFacts DEF InContext, EnqueuePrimary, Ctx
    <3>2. PICK infos \in Seq(Pipes) : \E bases :
             /\ \A k \in DOMAIN infos : bases[infos[k].h] \in Handles
             /\ EnqueuePipelines(infos, Here, Offset(order), bases)
      BY <2>1, PrimaryEnqueued
    <3>3. QED
      BY <3>1, <3>2
  <2>2. CASE EnqueueParents
    <3>1. PARENT \in Ctx
      BY <1>1, OffsetType
    <3>2. PICK infos \in Seq(Pipes) : \E bases :
             /\ \A k \in DOMAIN infos : bases[infos[k].h] \in Handles
             /\ EnqueuePipelines(infos, PARENT, Offset(order), bases)
      BY <2>2, ParentsEnqueued
    <3>3. QED
      BY <3>1, <3>2
  <2>3. CASE EnqueueDerived
    <3>1. Here \in Ctx
      BY <2>3, HereFacts DEF InContext, EnqueueDerived, Ctx
    <3>2. PICK infos \in Seq(Pipes) : \E bases :
             /\ \A k \in DOMAIN infos : bases[infos[k].h] \in Handles
             /\ EnqueuePipelines(infos, Here, Offset(order), bases)
      BY <2>3, DerivedEnqueued
    <3>3. QED
      BY <3>1, <3>2
  <2>4. QED
    BY <2>1, <2>2, <2>3 DEF Creating
<1>3. Offset(order) \in Nat /\ tag \in Tag
  BY <1>1, OffsetType
<1>8. PICK bases : /\ \A k \in DOMAIN infos : bases[infos[k].h] \in Handles
                   /\ EnqueuePipelines(infos, c, Offset(order), bases)
  BY <1>2
<1>4. PICK items :
         /\ cache' \in Seq(Module) /\ ToSet(cache') = ToSet(cache)
         /\ \A i, j \in DOMAIN cache' : cache'[i] = cache'[j] => i = j
         /\ pipelines' = [h \in Hash |-> IF h \in Entered(items) /\ pipelines[h] = "absent"
                                        THEN "null" ELSE pipelines[h]]
  BY <1>3, <1>8, PipelinesEnqueued
<1>5. pipelines' \in [Hash -> {"absent", "null", "live"}]
  BY <1>4 DEF SharedTypes
<1>6. UNCHANGED <<deferred, outside, enqueued, epoch, gen, seen>>
  BY DEF Creating, EnqueuePrimary, EnqueueParents, EnqueueDerived, workers
<1>7. QED
  BY <1>4, <1>5, <1>6

\* The main thread's own data.
LEMMA DataMain ==
    ASSUME Shape, Main
    PROVE  /\ deferred' \in [Tag -> [{0, 1} -> Seq(InfoSet)]]
           /\ derived' \in [{0, 1} -> Seq(DerivedPipes)]
           /\ parents' \subseteq Pipes /\ IsFiniteSet(parents')
           /\ outside' \subseteq Hash /\ enqueued' \subseteq Module
<1> USE DEF Shape
<1>0. /\ deferred \in [Tag -> [{0, 1} -> Seq(InfoSet)]] /\ derived \in [{0, 1} -> Seq(DerivedPipes)]
      /\ parents \subseteq Pipes /\ IsFiniteSet(parents)
      /\ outside \subseteq Hash /\ enqueued \subseteq Module
  BY DEF MainTypes
<1>1. CASE AwaitBoot \/ SyncContext \/ Reclaim \/ TearDown \/ Join
  BY <1>0, <1>1 DEF AwaitBoot, SyncContext, Reclaim, TearDown, Join
<1>2. CASE Advance
  <2>1. UNCHANGED <<deferred, derived, parents, enqueued>> /\ outside' \in {outside, {}}
    BY <1>2 DEF Advance
  <2>2. QED
    BY <1>0, <2>1
<1>3. CASE Parse
  <2>1. Within /\ Here \in {0, 1} /\ tag \in Tag /\ Place(order) = Here /\ Has(tag, order)
    BY <1>3, HereFacts DEF InContext, Parse
  <2>2. PICK n \in Nat : n = Submit(tag, order)
    BY <2>1, ChunkPlace
  <2>3. PICK s : s = [i \in 1..n |-> Resized(deferred[tag][Here], i)]
    OBVIOUS
  <2>4. deferred' = [deferred EXCEPT ![tag][Here] = s]
    BY <1>3, <2>2, <2>3 DEF Parse
  <2>5. deferred'[tag][Here] = s
    BY <1>0, <2>1, <2>4
  <2>6. \A k \in DOMAIN s : s[k] \in InfoSet
    BY <1>3, <2>5, ParseEnqueued
  <2>7. s \in Seq(InfoSet)
    BY <2>3, <2>6
  <2>8. deferred' \in [Tag -> [{0, 1} -> Seq(InfoSet)]]
    BY <1>0, <2>1, <2>4, <2>7
  <2>9. QED
    BY <1>0, <1>3, <2>8 DEF Parse
<1>4. CASE Prune
  <2>1. UNCHANGED <<deferred, derived, parents, outside>> /\ enqueued' \subseteq enqueued
    BY <1>4 DEF Prune
  <2>2. QED
    BY <1>0, <2>1
<1>5. CASE EnqueueModules
  <2>1. Within /\ Here \in {0, 1} /\ tag \in Tag
    BY <1>5, HereFacts DEF InContext, EnqueueModules
  <2>2. PICK sorted \in Seq(InfoSet), cut \in Nat, ds \in Seq(DerivedPipes) :
              /\ cut \in 0..Len(sorted)
              /\ deferred' = [deferred EXCEPT ![tag][Here] = SubSeq(sorted, 1, cut)]
              /\ derived' = [derived EXCEPT ![Here] = ds]
    BY <1>5, Split
  <2>3. SubSeq(sorted, 1, cut) \in Seq(InfoSet)
    BY <2>2
  <2>4. PICK ms \in NewModules(deferred[tag][Here], Here) : enqueued' = enqueued \cup ToSet(ms)
    BY <1>5 DEF EnqueueModules
  <2>5. ToSet(ms) \subseteq Module
    <3>1. ToSet(ms) = {m \in Module \ enqueued : Uses(deferred[tag][Here], Here, m) # {}}
      BY <2>4, ModulesEnqueued
    <3>2. QED
      BY <3>1
  <2>6. UNCHANGED <<parents, outside>>
    BY <1>5 DEF EnqueueModules
  <2>7. deferred' \in [Tag -> [{0, 1} -> Seq(InfoSet)]]
    BY <1>0, <2>1, <2>2, <2>3
  <2>8. derived' \in [{0, 1} -> Seq(DerivedPipes)]
    BY <1>0, <2>1, <2>2
  <2>9. QED
    BY <1>0, <2>4, <2>5, <2>6, <2>7, <2>8
<1>6. CASE EnqueueOutside
  <2>1. /\ \A k \in DOMAIN derived[Here] : Base[derived[Here][k].h] \in Hash \cap Parent
        /\ outside' = outside \cup {Base[derived[Here][k].h] : k \in Wanted(derived[Here])}
    BY <1>6, OutsideEnqueued
  <2>2. outside' \subseteq Hash
    BY <1>0, <2>1 DEF Wanted
  <2>3. UNCHANGED <<deferred, derived, parents, enqueued>>
    BY <1>6 DEF EnqueueOutside
  <2>4. QED
    BY <1>0, <2>2, <2>3
<1>7. CASE EnqueueParentModules
  <2>1. PICK infos \in SetToSeqs(parents) : \E ms \in NewModules(infos, PARENT) :
            enqueued' = enqueued \cup ToSet(ms)
    BY <1>7 DEF EnqueueParentModules
  <2>2. PICK ms \in NewModules(infos, PARENT) : enqueued' = enqueued \cup ToSet(ms)
    BY <2>1
  <2>3. ToSet(ms) \subseteq Module
    <3>1. ToSet(ms) = {m \in Module \ enqueued : Uses(infos, PARENT, m) # {}}
      BY <2>2, ModulesEnqueued
    <3>2. QED
      BY <3>1
  <2>4. UNCHANGED <<deferred, derived, parents, outside>>
    BY <1>7 DEF EnqueueParentModules
  <2>5. QED
    BY <1>0, <2>2, <2>3, <2>4
<1>8. CASE Creating
  <2>1. UNCHANGED <<deferred, outside, enqueued>>
    BY <1>8, CreatingFrame
  <2>2. parents' \in {parents, {}}
    BY <1>8 DEF Creating, EnqueuePrimary, EnqueueParents, EnqueueDerived
  <2>3. derived' \in [{0, 1} -> Seq(DerivedPipes)]
    <3>1. CASE EnqueueDerived
      <4>1. Here \in {0, 1} /\ derived' = [derived EXCEPT ![Here] = <<>>]
        BY <3>1, HereFacts DEF InContext, EnqueueDerived
      <4>2. <<>> \in Seq(DerivedPipes)
        OBVIOUS
      <4>3. QED
        BY <1>0, <4>1, <4>2
    <3>2. CASE EnqueuePrimary \/ EnqueueParents
      BY <1>0, <3>2 DEF EnqueuePrimary, EnqueueParents
    <3>3. QED
      BY <1>8, <3>1, <3>2 DEF Creating
  <2>4. IsFiniteSet({})
    BY FS_EmptySet
  <2>5. QED
    BY <1>0, <2>1, <2>2, <2>3, <2>4
<1>9. QED
  BY <1>1, <1>2, <1>3, <1>4, <1>5, <1>6, <1>7, <1>8 DEF Main, Creating

LEMMA MainFrame ==
    ASSUME Main
    PROVE  /\ UNCHANGED <<threads, robust, start, masked, completed, handle>>
           /\ UNCHANGED <<work, at, blame, compiled, ever, crashes>>
BY DEF Main, AwaitBoot, Advance, SyncContext, Parse, Prune, EnqueueModules, EnqueuePrimary,
       EnqueueOutside, EnqueueParentModules, EnqueueParents, Reclaim, EnqueueDerived, TearDown,
       Join, options, shared, workers, history

LEMMA SharedMain ==
    ASSUME Shape, Main
    PROVE  /\ queued' \in [Ctx -> Nat] /\ queue' \in Seq(Jobs)
           /\ pipelines' \in [Hash -> {"absent", "null", "live"}]
           /\ cache' \in Seq(Module) /\ epoch' \in [Ctx -> Nat] /\ gen' \in [Module -> Nat]
           /\ seen' \in [Thread -> SUBSET Module]
<1> USE DEF Shape
<1>0. /\ pipelines \in [Hash -> {"absent", "null", "live"}] /\ cache \in Seq(Module)
      /\ epoch \in [Ctx -> Nat] /\ gen \in [Module -> Nat] /\ seen \in [Thread -> SUBSET Module]
      /\ queued \in [Ctx -> Nat] /\ queue \in Seq(Jobs)
  BY DEF SharedTypes, WorkTypes
<1>1. queued' \in [Ctx -> Nat] /\ queue' \in Seq(Jobs)
  <2>1. CASE UNCHANGED <<queue, queued>>
    BY <1>0, <2>1
  <2>2. ASSUME NEW items \in Seq(Jobs), NEW c \in Ctx, Enqueue(items, c)
        PROVE  queued' \in [Ctx -> Nat] /\ queue' \in Seq(Jobs)
    BY <1>0, <2>2, AddItems
  <2>3. QED
    BY <2>1, <2>2, MainItems
<1>2. CASE Creating
  BY <1>0, <1>1, <1>2, CreatingFrame
<1>3. CASE Prune
  <2>1. UNCHANGED <<pipelines, epoch>> /\ seen' = [w \in Thread |-> {}]
    BY <1>3 DEF Prune, Forgotten
  <2>2. PICK n \in Nat : n <= Len(cache) /\ cache' = SubSeq(cache, 1, n)
    <3>1. Len(cache) \in Nat /\ CacheSize \in Nat
      BY <1>0, ReplayerAssumption
    <3>2. QED
      BY <1>3, <3>1 DEF Prune
  <2>3. cache' \in Seq(Module)
    BY <1>0, <2>2
  <2>4. PICK evicted : gen' = [m \in Module |-> IF m \in evicted THEN gen[m] + 1 ELSE gen[m]]
    BY <1>3 DEF Prune
  <2>5. gen' \in [Module -> Nat]
    BY <1>0, <2>4
  <2>6. seen' \in [Thread -> SUBSET Module]
    BY <2>1
  <2>7. QED
    BY <1>0, <1>1, <2>1, <2>3, <2>5, <2>6
<1>4. CASE Parse \/ Reclaim
  <2>1. UNCHANGED <<pipelines, cache, gen, seen>>
    BY <1>4 DEF Parse, Reclaim, workers
  <2>2. PICK c : epoch' = [epoch EXCEPT ![c] = @ + 1]
    BY <1>4 DEF Parse, Reclaim
  <2>3. epoch' \in [Ctx -> Nat]
    <3>1. CASE c \in Ctx
      BY <1>0, <2>2, <3>1
    <3>2. CASE c \notin Ctx
      <4>1. epoch' = epoch
        BY <1>0, <2>2, <3>2
      <4>2. QED
        BY <1>0, <4>1
    <3>3. QED
      BY <3>1, <3>2
  <2>4. QED
    BY <1>0, <1>1, <2>1, <2>3
<1>5. CASE AwaitBoot \/ Advance \/ SyncContext \/ EnqueueModules \/ EnqueueOutside
           \/ EnqueueParentModules \/ TearDown \/ Join
  <2>1. UNCHANGED <<pipelines, cache, epoch, gen, seen>>
    BY <1>5 DEF AwaitBoot, Advance, SyncContext, EnqueueModules, EnqueueOutside,
                EnqueueParentModules, TearDown, Join, shared, workers
  <2>2. QED
    BY <1>0, <1>1, <2>1
<1>6. QED
  BY <1>2, <1>3, <1>4, <1>5 DEF Main, Creating

LEMMA ShapeMain ==
    ASSUME Shape, Main
    PROVE  Shape'
<1> USE DEF Shape
<1>1. /\ UNCHANGED <<threads, robust, start, masked, completed, handle>>
      /\ UNCHANGED <<work, at, blame, compiled, ever, crashes>>
  BY MainFrame
<1>2. Thread' = Thread
  BY <1>1 DEF Thread
<1>3. MainTypes'
  BY <1>1, CtlMain, DataMain DEF MainTypes
<1>4. SharedTypes'
  <2>1. /\ queued' \in [Ctx -> Nat] /\ pipelines' \in [Hash -> {"absent", "null", "live"}]
        /\ cache' \in Seq(Module) /\ epoch' \in [Ctx -> Nat] /\ gen' \in [Module -> Nat]
        /\ seen' \in [Thread -> SUBSET Module]
    BY SharedMain
  <2>2. QED
    BY <1>1, <1>2, <2>1 DEF SharedTypes
<1>5. WorkTypes'
  <2>1. queue' \in Seq(Jobs)
    BY SharedMain
  <2>2. QED
    BY <1>1, <1>2, <2>1 DEF WorkTypes
<1>6. QED
  BY <1>3, <1>4, <1>5, CtlMain

\* The worker's items.
LEMMA WorkOf ==
    ASSUME MainTypes, WorkTypes, NEW w \in Thread
    PROVE  /\ work[w] \in Jobs \cup {Idle, Boot, Gone} /\ work[w].ctx \in Ctx
           /\ work[w].kind \in Real => work[w] \in Jobs
           /\ work[w].kind = "parse" => work[w] \in Jobs /\ work[w].h \in Hash
           /\ work[w].kind = "module" => work[w] \in Jobs /\ work[w].m \in Module
           /\ work[w].kind = "create" => work[w] \in Jobs /\ work[w].h \in Hash
<1>1. work[w] \in Jobs \cup {Idle, Boot, Gone}
  BY DEF WorkTypes
<1>2. CASE work[w] \in Jobs
  BY <1>2 DEF Jobs, Typed, ItemSet
<1>3. CASE work[w] \in {Idle, Boot, Gone}
  <2>1. work[w].kind \notin Real
    BY <1>3, NoItem DEF Real
  <2>2. work[w].ctx = 0
    BY <1>3 DEF Idle, Boot, Gone, BlankItem
  <2>3. QED
    BY <1>1, <2>1, <2>2 DEF Real, Ctx
<1>4. QED
  BY <1>1, <1>2, <1>3

LEMMA ShapeWorker ==
    ASSUME Shape, NEW w \in Thread, Worker(w)
    PROVE  Shape'
<1> USE DEF Shape
<1>1. /\ UNCHANGED <<threads, robust, start, masked, tag, order, todo, derived>>
      /\ UNCHANGED <<outside, enqueued, queued, epoch, gen, crashes>>
      /\ waiting' \in {waiting, NoCtx}
  BY WorkerFacts
<1>2. Thread' = Thread /\ Ctl'
  BY <1>1, CtlWorker DEF Thread
<1>3. ASSUME deferred' \in [Tag -> [{0, 1} -> Seq(InfoSet)]], parents' \subseteq Pipes, IsFiniteSet(parents')
      PROVE  MainTypes'
  BY <1>1, <1>3 DEF MainTypes
<1>4. ASSUME Complete(w)
      PROVE  completed' \in [Ctx -> Nat] /\ work' \in [Thread -> Jobs \cup {Idle, Boot, Gone}]
  BY <1>4, WorkOf DEF Complete, SharedTypes, WorkTypes
<1>5. CASE BootWorker(w) \/ Quit(w)
  <2>1. /\ UNCHANGED <<deferred, parents, queue, completed, pipelines, cache, handle>>
        /\ UNCHANGED <<seen, at, blame, compiled, ever>>
        /\ work' = [work EXCEPT ![w] = Idle] \/ work' = [work EXCEPT ![w] = Gone]
    BY <1>5 DEF BootWorker, Quit, main, shared, history
  <2>2. MainTypes'
    BY <1>3, <2>1 DEF MainTypes
  <2>3. SharedTypes' /\ WorkTypes'
    BY <1>1, <1>2, <2>1 DEF SharedTypes, WorkTypes
  <2>4. QED
    BY <1>2, <2>2, <2>3
<1>6. CASE Take(w)
  <2>1. PICK i : i = Head(queue)
    OBVIOUS
  <2>2. queue # <<>> /\ queue \in Seq(Jobs) /\ i \in Jobs /\ queue' = Tail(queue) /\ queue' \in Seq(Jobs)
    BY <1>6, <2>1 DEF WorkTypes, Take
  <2>3. /\ work' = [work EXCEPT ![w] = i]
        /\ at' = IF i.kind = "create" THEN [at EXCEPT ![w][i.tag] = i.index + 1] ELSE at
        /\ blame' = IF i.kind = "create" /\ i.valid /\ robust
                    THEN [blame EXCEPT ![w] = {x[1] : x \in i.mods}] ELSE blame
        /\ ever' = IF i.kind = "create" THEN ever \cup {i.h} ELSE ever
        /\ compiled' = IF i.kind = "create" /\ Calls(i) THEN [compiled EXCEPT ![i.h] = @ + 1]
                       ELSE compiled
        /\ UNCHANGED <<completed, pipelines, cache, handle, seen, deferred, parents>>
    BY <1>6, <2>1 DEF Take, main
  <2>4. i.tag \in Tag /\ i.index \in Nat /\ i.mods \subseteq Module \X Nat /\ (i.kind = "create" => i.h \in Hash)
    BY <2>2 DEF Jobs, Typed, ItemSet
  <2>5. at' \in [Thread -> [Tag -> Nat]]
    BY <2>3, <2>4 DEF SharedTypes
  <2>6. blame' \in [Thread -> SUBSET Module]
    <3>1. {x[1] : x \in i.mods} \subseteq Module
      BY <2>4
    <3>2. QED
      BY <2>3, <3>1 DEF SharedTypes
  <2>7. compiled' \in [Hash -> Nat] /\ ever' \subseteq Hash
    BY <2>3, <2>4 DEF SharedTypes
  <2>8. MainTypes'
    BY <1>3, <2>3 DEF MainTypes
  <2>9. SharedTypes'
    BY <1>1, <1>2, <2>3, <2>5, <2>6, <2>7 DEF SharedTypes
  <2>10. WorkTypes'
    BY <1>2, <2>2, <2>3 DEF WorkTypes
  <2>11. QED
    BY <1>2, <2>8, <2>9, <2>10
<1>7. CASE ParsePipeline(w)
  <2>1. PICK i : i = work[w]
    OBVIOUS
  <2>2. PICK info : info = Info(i.h, i.index, epoch[i.ctx])
    OBVIOUS
  <2>3. PICK slot : slot = IF i.h \in Malformed THEN [NoInfo EXCEPT !.from = i.h] ELSE info
    OBVIOUS
  <2>4. /\ i.kind = "parse"
        /\ parents' \in {parents, parents \cup {info}}
        /\ deferred' \in {deferred, [deferred EXCEPT ![i.tag][i.ctx][i.index + 1] = slot]}
        /\ i.h \in Unreadable \/ i.outside => deferred' = deferred
        /\ Complete(w)
        /\ UNCHANGED <<queue, pipelines, cache, handle, seen, at, blame, compiled, ever>>
    BY <1>7, <2>1, <2>2, <2>3 DEF ParsePipeline, history
  <2>5. i \in Jobs /\ i.h \in Hash /\ i.index \in Nat /\ i.ctx \in Ctx /\ i.tag \in Tag /\ epoch[i.ctx] \in Nat
    BY <2>1, <2>4, WorkOf DEF Jobs, ItemSet, SharedTypes
  <2>6. info \in Pipes /\ slot \in InfoSet
    BY <2>2, <2>3, <2>5 DEF Info, NoInfo, Pipes, InfoSet
  <2>7. parents' \subseteq Pipes /\ IsFiniteSet(parents')
    <3>1. parents \subseteq Pipes /\ IsFiniteSet(parents)
      BY DEF MainTypes
    <3>2. IsFiniteSet(parents \cup {info})
      BY <3>1, FS_AddElement
    <3>3. QED
      BY <2>4, <2>6, <3>1, <3>2
  <2>8. deferred' \in [Tag -> [{0, 1} -> Seq(InfoSet)]]
    <3>1. deferred \in [Tag -> [{0, 1} -> Seq(InfoSet)]]
      BY DEF MainTypes
    <3>2. CASE i.ctx \in {0, 1}
      <4>1. ASSUME NEW s \in Seq(InfoSet), NEW k PROVE [s EXCEPT ![k] = slot] \in Seq(InfoSet)
        <5>1. PICK n \in Nat : n = Len(s)
          OBVIOUS
        <5>2. s \in [1..n -> InfoSet]
          BY <5>1
        <5>3. [s EXCEPT ![k] = slot] \in [1..n -> InfoSet]
          BY <2>6, <5>2
        <5>4. QED
          BY <5>3
      <4>2. [deferred EXCEPT ![i.tag][i.ctx][i.index + 1] = slot] \in [Tag -> [{0, 1} -> Seq(InfoSet)]]
        BY <2>5, <3>1, <3>2, <4>1
      <4>3. QED
        BY <2>4, <3>1, <4>2
    <3>3. CASE i.ctx \notin {0, 1}
      <4>1. [deferred EXCEPT ![i.tag][i.ctx][i.index + 1] = slot] = deferred
        BY <2>5, <3>1, <3>3
      <4>2. QED
        BY <2>4, <3>1, <4>1
    <3>4. QED
      BY <3>2, <3>3
  <2>9. MainTypes'
    BY <1>3, <2>7, <2>8
  <2>10. completed' \in [Ctx -> Nat] /\ work' \in [Thread -> Jobs \cup {Idle, Boot, Gone}]
    BY <1>4, <2>4
  <2>11. SharedTypes' /\ WorkTypes'
    BY <1>1, <1>2, <2>4, <2>10 DEF SharedTypes, WorkTypes
  <2>12. QED
    BY <1>2, <2>9, <2>11
<1>8. CASE MakeModule(w)
  <2>1. PICK m : m = work[w].m
    OBVIOUS
  <2>2. /\ work[w].kind = "module" /\ Complete(w)
        /\ \/ UNCHANGED <<seen, cache, handle>>
           \/ /\ seen' = [seen EXCEPT ![w] = @ \cup {m}] /\ cache' = <<m>> \o cache
              /\ \/ handle' = [handle EXCEPT ![m] = "null"]
                 \/ handle' = [handle EXCEPT ![m] = "live"]
        /\ UNCHANGED <<deferred, parents, queue, pipelines, at, blame, compiled, ever>>
    BY <1>8, <2>1 DEF MakeModule, history
  <2>3. m \in Module
    BY <2>1, <2>2, WorkOf
  <2>4. cache' \in Seq(Module)
    <3>1. cache \in Seq(Module)
      BY DEF SharedTypes
    <3>2. <<m>> \o cache \in Seq(Module)
      BY <2>3, <3>1
    <3>3. QED
      BY <2>2, <3>1, <3>2
  <2>5. seen' \in [Thread -> SUBSET Module] /\ handle' \in [Module -> {"null", "live"}]
    <3>1. seen \in [Thread -> SUBSET Module] /\ handle \in [Module -> {"null", "live"}]
      BY DEF SharedTypes
    <3>2. seen' \in [Thread -> SUBSET Module]
      <4>1. seen[w] \cup {m} \in SUBSET Module
        BY <2>3, <3>1
      <4>2. QED
        BY <2>2, <3>1, <4>1
    <3>3. handle' \in [Module -> {"null", "live"}]
      BY <2>2, <2>3, <3>1
    <3>4. QED
      BY <3>2, <3>3
  <2>6. MainTypes'
    BY <1>3, <2>2 DEF MainTypes
  <2>7. completed' \in [Ctx -> Nat] /\ work' \in [Thread -> Jobs \cup {Idle, Boot, Gone}]
    BY <1>4, <2>2
  <2>8. SharedTypes' /\ WorkTypes'
    BY <1>1, <1>2, <2>2, <2>4, <2>5, <2>7 DEF SharedTypes, WorkTypes
  <2>9. QED
    BY <1>2, <2>6, <2>8
<1>9. CASE CreatePipeline(w)
  <2>1. /\ work[w].kind = "create" /\ Complete(w)
        /\ \E r \in {"null", "live"} \cup {pipelines[work[w].h]} : pipelines' = [pipelines EXCEPT ![work[w].h] = r]
        /\ UNCHANGED <<deferred, parents, queue, cache, handle, seen, at, blame, compiled, ever>>
    BY <1>9 DEF CreatePipeline, history
  <2>2. work[w].h \in Hash
    BY <2>1, WorkOf
  <2>3. pipelines' \in [Hash -> {"absent", "null", "live"}]
    BY <2>1, <2>2 DEF SharedTypes
  <2>4. MainTypes'
    BY <1>3, <2>1 DEF MainTypes
  <2>5. completed' \in [Ctx -> Nat] /\ work' \in [Thread -> Jobs \cup {Idle, Boot, Gone}]
    BY <1>4, <2>1
  <2>6. SharedTypes' /\ WorkTypes'
    BY <1>1, <1>2, <2>1, <2>3, <2>5 DEF SharedTypes, WorkTypes
  <2>7. QED
    BY <1>2, <2>4, <2>6
<1>10. QED
  BY <1>5, <1>6, <1>7, <1>8, <1>9 DEF Worker

\* The death of the process: nothing is left, or the next one starts.
Over == /\ tag' = "done" /\ todo' = <<>> /\ waiting' = NoCtx /\ work' = <<Gone>>
        /\ UNCHANGED <<threads, start, masked, order, deferred, derived, parents, outside>>
        /\ UNCHANGED <<enqueued, queue, queued, completed, pipelines, cache, handle, epoch, gen>>
        /\ UNCHANGED <<seen, at, blame, compiled>>

LEMMA DieFacts ==
    ASSUME MainTypes, NEW w \in Thread, Crash(w) \/ Timeout(w)
    PROVE  /\ robust /\ threads = 1 /\ w = 1 /\ Thread = 1..1
           /\ crashes' = crashes + 1 /\ crashes < MaxCrashes /\ UNCHANGED <<robust, ever>>
           /\ \/ Over /\ \A t \in Tag : at[w][t] >= Len(List[t])
              \/ Restart(at[w], masked \cup blame[w])
<1>1. Die(w)
  BY DEF Crash, Timeout
<1>2. /\ robust /\ crashes' = crashes + 1 /\ crashes < MaxCrashes /\ UNCHANGED <<robust, ever>>
  BY <1>1 DEF Die
<1>3. threads = 1 /\ w = 1 /\ Thread = 1..1
  BY <1>2 DEF MainTypes, Thread
<1>4. \/ Over /\ \A t \in Tag : at[w][t] >= Len(List[t])
      \/ Restart(at[w], masked \cup blame[w])
  BY <1>1 DEF Die, Over, shared
<1>5. QED
  BY <1>2, <1>3, <1>4

LEMMA ShapeFresh ==
    /\ <<>> \in Seq(InfoSet) /\ <<>> \in Seq(DerivedPipes) /\ <<>> \in Seq(Jobs)
    /\ <<>> \in Seq(Module) /\ IsFiniteSet({})
BY FS_EmptySet

LEMMA ShapeDie ==
    ASSUME Shape, NEW w \in Thread, Crash(w) \/ Timeout(w)
    PROVE  Shape'
<1> USE DEF Shape
<1>1. /\ robust /\ threads = 1 /\ w = 1 /\ Thread = 1..1
      /\ crashes' = crashes + 1 /\ crashes < MaxCrashes /\ UNCHANGED <<robust, ever>>
      /\ Over \/ Restart(at[w], masked \cup blame[w])
  BY DieFacts
<1>2. crashes' \in 0..MaxCrashes
  BY <1>1, ReplayerAssumption DEF SharedTypes
<1>3. CASE Over
  <2>1. Thread' = 1..1
    BY <1>1, <1>3 DEF Over, Thread
  <2>2. ~Within' /\ tag' \notin Tag
    BY <1>3 DEF Over, Within, Tag
  <2>3. Ctl'
    BY <1>3, <2>2 DEF Ctl, Over
  <2>4. todo' \in Seq(Steps) /\ waiting' \in Ctx \cup {NoCtx} /\ tag' \in Tag \cup {"end", "done"}
    BY <1>3 DEF Over
  <2>5. MainTypes'
    BY <1>1, <1>3, <2>4 DEF MainTypes, Over
  <2>6. SharedTypes'
    BY <1>1, <1>2, <1>3, <2>1 DEF SharedTypes, Over
  <2>7. work' \in [1..1 -> Jobs \cup {Idle, Boot, Gone}]
    BY <1>3 DEF Over
  <2>8. WorkTypes'
    BY <1>3, <2>1, <2>7 DEF WorkTypes, Over
  <2>9. QED
    BY <2>3, <2>5, <2>6, <2>8
<1>4. CASE Restart(at[w], masked \cup blame[w])
  <2>1. PICK s : s = at[w] /\ s \in [Tag -> Nat]
    BY DEF SharedTypes
  <2>2. blame[w] \subseteq Module
    BY DEF SharedTypes
  <2>3. /\ threads' = 1 /\ masked' = masked \cup blame[w]
        /\ start' = [t \in Tag |-> IF s[t] < Len(List[t]) THEN s[t] ELSE Len(List[t])]
        /\ tag' = "graphics" /\ order' = -1 /\ todo' = <<Step("boot", 0)>> /\ waiting' = NoCtx
        /\ deferred' = [t \in Tag |-> [c \in {0, 1} |-> <<>>]]
        /\ derived' = [c \in {0, 1} |-> <<>>]
        /\ parents' = {} /\ outside' = {} /\ enqueued' = {}
    BY <1>4, <2>1 DEF Restart
  <2>4. /\ queue' = <<>> /\ queued' = [c \in Ctx |-> 0] /\ completed' = [c \in Ctx |-> 0]
        /\ pipelines' = [h \in Hash |-> "absent"]
        /\ cache' = <<>> /\ handle' = [m \in Module |-> "null"]
        /\ epoch' = [c \in Ctx |-> 0] /\ gen' = [m \in Module |-> 0]
        /\ work' = <<Boot>> /\ seen' = <<{}>> /\ at' = <<s>> /\ blame' = <<{}>>
        /\ compiled' = [h \in Hash |-> 0]
    BY <1>4, <2>1 DEF Restart
  <2>5. Thread' = 1..1
    BY <2>3 DEF Thread
  <2>6. \A t \in Tag : Len(List[t]) \in Nat
    BY ReplayerAssumption
  <2>7. start' \in [Tag -> Nat] /\ \A t \in Tag : start'[t] <= Len(List[t])
    BY <2>1, <2>3, <2>6
  <2>8. Ctl'
    BY <2>3 DEF Ctl, Within, Tag
  <2>9. todo' \in Seq(Steps) /\ waiting' \in Ctx \cup {NoCtx} /\ tag' \in Tag \cup {"end", "done"}
    BY <2>3, ScriptTypes DEF Tag
  <2>10. order' \in -1..(PASS_COUNT * (Len(List["graphics"]) + Len(List["compute"]) + 1))
    <3>1. PICK g \in Nat, q \in Nat : g = Len(List["graphics"]) /\ q = Len(List["compute"])
      BY <2>6, Zenon DEF Tag
    <3>2. order' \in -1..(PASS_COUNT * (g + q + 1))
      BY <2>3 DEF PASS_COUNT
    <3>3. QED
      BY <3>1, <3>2, Zenon
  <2>11. /\ deferred' \in [Tag -> [{0, 1} -> Seq(InfoSet)]] /\ derived' \in [{0, 1} -> Seq(DerivedPipes)]
         /\ parents' \subseteq Pipes /\ IsFiniteSet(parents')
         /\ outside' \subseteq Hash /\ enqueued' \subseteq Module
    BY <2>3, ShapeFresh
  <2>12. threads' \in 1..Threads /\ robust' \in BOOLEAN /\ (robust' => threads' = 1) /\ masked' \subseteq Module
    BY <1>1, <2>2, <2>3, ReplayerAssumption DEF MainTypes
  <2>13. MainTypes'
    BY <2>7, <2>9, <2>10, <2>11, <2>12 DEF MainTypes
  <2>14. SharedTypes'
    <3>1. /\ queued' \in [Ctx -> Nat] /\ completed' \in [Ctx -> Nat]
          /\ pipelines' \in [Hash -> {"absent", "null", "live"}]
          /\ handle' \in [Module -> {"null", "live"}]
          /\ epoch' \in [Ctx -> Nat] /\ gen' \in [Module -> Nat] /\ compiled' \in [Hash -> Nat]
      BY <2>4
    <3>2. /\ seen' \in [Thread' -> SUBSET Module] /\ blame' \in [Thread' -> SUBSET Module]
          /\ at' \in [Thread' -> [Tag -> Nat]]
      BY <2>1, <2>4, <2>5
    <3>3. cache' \in Seq(Module)
      BY <2>4
    <3>4. ever' \subseteq Hash
      BY <1>1 DEF SharedTypes
    <3>5. QED
      BY <1>2, <3>1, <3>2, <3>3, <3>4 DEF SharedTypes
  <2>15. WorkTypes'
    <3>1. work' \in [1..1 -> Jobs \cup {Idle, Boot, Gone}]
      BY <2>4
    <3>2. queue' \in Seq(Jobs)
      BY <2>4
    <3>3. QED
      BY <2>5, <3>1, <3>2 DEF WorkTypes
  <2>16. QED
    BY <2>8, <2>13, <2>14, <2>15
<1>5. QED
  BY <1>1, <1>3, <1>4

LEMMA ShapeInit ==
    ASSUME Init
    PROVE  Shape
<1>1. /\ robust \in {FALSE, Robust} /\ (threads = IF robust THEN 1 ELSE Threads)
      /\ start = [t \in Tag |-> 0] /\ masked = {}
      /\ tag = "graphics" /\ order = -1 /\ todo = <<Step("boot", 0)>> /\ waiting = NoCtx
      /\ deferred = [t \in Tag |-> [c \in {0, 1} |-> <<>>]]
      /\ derived = [c \in {0, 1} |-> <<>>]
      /\ parents = {} /\ outside = {} /\ enqueued = {}
  BY DEF Init
<1>2. /\ queue = <<>> /\ queued = [c \in Ctx |-> 0] /\ completed = [c \in Ctx |-> 0]
      /\ pipelines = [h \in Hash |-> "absent"]
      /\ cache = <<>> /\ handle = [m \in Module |-> "null"]
      /\ epoch = [c \in Ctx |-> 0] /\ gen = [m \in Module |-> 0]
      /\ work = [w \in Thread |-> Boot] /\ seen = [w \in Thread |-> {}]
      /\ at = [w \in Thread |-> start] /\ blame = [w \in Thread |-> {}]
      /\ compiled = [h \in Hash |-> 0] /\ ever = {} /\ crashes = 0
  BY DEF Init
<1>3. \A t \in Tag : Len(List[t]) \in Nat
  BY ReplayerAssumption
<1>4. start \in [Tag -> Nat] /\ \A t \in Tag : start[t] <= Len(List[t])
  BY <1>1, <1>3
<1>5. Ctl
  BY <1>1 DEF Ctl, Within, Tag
<1>6. todo \in Seq(Steps) /\ waiting \in Ctx \cup {NoCtx} /\ tag \in Tag \cup {"end", "done"}
  BY <1>1, ScriptTypes DEF Tag
<1>7. order \in -1..(PASS_COUNT * (Len(List["graphics"]) + Len(List["compute"]) + 1))
  <2>1. PICK g \in Nat, q \in Nat : g = Len(List["graphics"]) /\ q = Len(List["compute"])
    BY <1>3, Zenon DEF Tag
  <2>2. order \in -1..(PASS_COUNT * (g + q + 1))
    BY <1>1 DEF PASS_COUNT
  <2>3. QED
    BY <2>1, <2>2, Zenon
<1>8. /\ deferred \in [Tag -> [{0, 1} -> Seq(InfoSet)]] /\ derived \in [{0, 1} -> Seq(DerivedPipes)]
      /\ parents \subseteq Pipes /\ IsFiniteSet(parents)
      /\ outside \subseteq Hash /\ enqueued \subseteq Module
  BY <1>1, ShapeFresh
<1>9. threads \in 1..Threads /\ robust \in BOOLEAN /\ (robust => threads = 1) /\ masked \subseteq Module
  <2>1. Robust \in BOOLEAN /\ Threads \in Nat \ {0}
    BY ReplayerAssumption
  <2>2. robust \in BOOLEAN
    BY <1>1, <2>1, Zenon
  <2>3. (robust => threads = 1) /\ (~robust => threads = Threads)
    BY <1>1, Zenon
  <2>4. CASE threads = 1
    BY <1>1, <2>1, <2>2, <2>4
  <2>5. CASE threads = Threads
    BY <1>1, <2>1, <2>2, <2>3, <2>5
  <2>6. QED
    BY <2>3, <2>4, <2>5
<1>10. MainTypes
  BY <1>4, <1>6, <1>7, <1>8, <1>9 DEF MainTypes
<1>11. SharedTypes
  <2>1. /\ queued \in [Ctx -> Nat] /\ completed \in [Ctx -> Nat]
        /\ pipelines \in [Hash -> {"absent", "null", "live"}]
        /\ handle \in [Module -> {"null", "live"}]
        /\ epoch \in [Ctx -> Nat] /\ gen \in [Module -> Nat] /\ compiled \in [Hash -> Nat]
    BY <1>2
  <2>2. /\ seen \in [Thread -> SUBSET Module] /\ blame \in [Thread -> SUBSET Module]
        /\ at \in [Thread -> [Tag -> Nat]]
    BY <1>2, <1>4
  <2>3. cache \in Seq(Module) /\ ever \subseteq Hash
    BY <1>2
  <2>4. crashes \in 0..MaxCrashes
    BY <1>2, ReplayerAssumption
  <2>5. QED
    BY <2>1, <2>2, <2>3, <2>4 DEF SharedTypes
<1>12. WorkTypes
  <2>1. queue \in Seq(Jobs)
    BY <1>2
  <2>2. QED
    BY <1>2, <2>1 DEF WorkTypes
<1>13. QED
  BY <1>5, <1>10, <1>11, <1>12 DEF Shape

LEMMA ShapeHolds == Spec => []Shape
<1>1. Init => Shape
  BY ShapeInit
<1>2. Shape /\ [Next]_vars => Shape'
  <2>1. SUFFICES ASSUME Shape, [Next]_vars PROVE Shape'
    OBVIOUS
  <2>2. CASE Main
    BY <2>1, <2>2, ShapeMain
  <2>3. ASSUME NEW w \in Thread, Worker(w) PROVE Shape'
    BY <2>1, <2>3, ShapeWorker
  <2>4. ASSUME NEW w \in Thread, Crash(w) \/ Timeout(w) PROVE Shape'
    BY <2>1, <2>4, ShapeDie
  <2>5. CASE UNCHANGED vars
    <3>0. UNCHANGED <<threads, robust, start, masked, tag, order, todo, waiting, deferred, derived>>
          /\ UNCHANGED <<parents, outside, enqueued>>
      BY <2>5 DEF vars
    <3>4. (Left' <=> Left) /\ (Within' <=> Within) /\ (Has(tag, order)' <=> Has(tag, order))
      BY <3>0 DEF Left, Phase, Within, Has, Chunks, Count
    <3>1. Ctl' /\ MainTypes'
      BY <2>1, <3>0, <3>4 DEF Shape, Ctl, MainTypes
    <3>2. SharedTypes' /\ WorkTypes'
      BY <2>1, <2>5 DEF Shape, vars, SharedTypes, WorkTypes, Thread
    <3>3. QED
      BY <3>1, <3>2 DEF Shape
  <2>6. QED
    BY <2>1, <2>2, <2>3, <2>4, <2>5 DEF Next
<1>3. QED
  BY <1>1, <1>2, PTL DEF Spec
-----------------------------------------------------------------------------
(***************************************************************************)
(* The items that are queued or with a worker, and the counters: a memory  *)
(* context's queued items less its completed ones are its items.           *)
(***************************************************************************)
Items == {i \in Pending : i.kind \in Real}
Of(s, c) == {k \in DOMAIN s : s[k].ctx = c}
Busy(c)  == {w \in Thread : work[w].kind \in Real /\ work[w].ctx = c}
Held(w, c) == IF work[w].kind \in Real /\ work[w].ctx = c THEN 1 ELSE 0

LEMMA OfFinite ==
    ASSUME NEW s \in Seq(Jobs), NEW c
    PROVE  IsFiniteSet(Of(s, c)) /\ Cardinality(Of(s, c)) \in Nat
<1>1. IsFiniteSet(DOMAIN s)
  BY FS_Interval
<1>2. Of(s, c) \subseteq DOMAIN s
  BY DEF Of
<1>3. IsFiniteSet(Of(s, c))
  BY <1>1, <1>2, FS_Subset
<1>4. QED
  BY <1>3, FS_CardinalityType

LEMMA OfAppend ==
    ASSUME NEW s \in Seq(Jobs), NEW t \in Seq(Jobs), NEW c, \A k \in DOMAIN t : t[k].ctx = c
    PROVE  /\ Cardinality(Of(s \o t, c)) = Cardinality(Of(s, c)) + Len(t)
           /\ \A b : b # c => Of(s \o t, b) = Of(s, b)
<1>1. PICK m \in Nat, n \in Nat : m = Len(s) /\ n = Len(t)
  OBVIOUS
<1>2. /\ DOMAIN s = 1..m /\ DOMAIN t = 1..n /\ DOMAIN (s \o t) = 1..m + n
      /\ \A k \in 1..m : (s \o t)[k] = s[k]
      /\ \A k \in m + 1..m + n : (s \o t)[k] = t[k - m] /\ k - m \in 1..n
  BY <1>1
<1>3. \A k \in m + 1..m + n : (s \o t)[k].ctx = c
  BY <1>2
<1>4. Of(s \o t, c) = Of(s, c) \cup (m + 1..m + n)
  <2>1. \A k \in 1..m + n : k \in 1..m \/ k \in m + 1..m + n
    OBVIOUS
  <2>2. \A k \in 1..m : k \in 1..m + n
    OBVIOUS
  <2>3. \A k \in m + 1..m + n : k \in 1..m + n
    OBVIOUS
  <2>4. QED
    BY <1>2, <1>3, <2>1, <2>2, <2>3 DEF Of
<1>5. /\ IsFiniteSet(m + 1..m + n) /\ Cardinality(m + 1..m + n) = n
  BY FS_Interval
<1>6. Of(s, c) \cap (m + 1..m + n) = {}
  BY <1>2 DEF Of
<1>7. Cardinality(Of(s \o t, c)) = Cardinality(Of(s, c)) + n
  <2>1. PICK A, B : A = Of(s, c) /\ B = m + 1..m + n
    OBVIOUS
  <2>2. IsFiniteSet(A) /\ IsFiniteSet(B) /\ A \cap B = {} /\ Cardinality(A) \in Nat
    BY <1>5, <1>6, <2>1, OfFinite
  <2>3. Cardinality(A \cup B) = Cardinality(A) + Cardinality(B) - Cardinality(A \cap B)
    BY <2>2, FS_Union
  <2>4. Cardinality(A \cap B) = 0 /\ Cardinality(B) = n
    BY <1>5, <2>1, <2>2, FS_EmptySet
  <2>5. Cardinality(A \cup B) = Cardinality(A) + n
    BY <2>2, <2>3, <2>4
  <2>6. QED
    BY <1>4, <2>1, <2>5
<1>8. ASSUME NEW b, b # c PROVE Of(s \o t, b) = Of(s, b)
  <2>1. \A k \in 1..m + n : k \in 1..m \/ k \in m + 1..m + n
    OBVIOUS
  <2>2. \A k \in 1..m : k \in 1..m + n
    OBVIOUS
  <2>3. QED
    BY <1>2, <1>3, <1>8, <2>1, <2>2 DEF Of
<1>9. QED
  BY <1>1, <1>7, <1>8

LEMMA OfTail ==
    ASSUME NEW s \in Seq(Jobs), s # <<>>, NEW c
    PROVE  Cardinality(Of(s, c)) = Cardinality(Of(Tail(s), c)) + IF Head(s).ctx = c THEN 1 ELSE 0
<1>1. PICK n \in Nat : n = Len(s) /\ n >= 1
  OBVIOUS
<1>2. /\ DOMAIN s = 1..n /\ DOMAIN Tail(s) = 1..n - 1 /\ Tail(s) \in Seq(Jobs) /\ Head(s) = s[1]
      /\ \A k \in 1..n - 1 : Tail(s)[k] = s[k + 1]
  BY <1>1
<1>3. DEFINE f == [k \in Of(Tail(s), c) |-> k + 1]
<1>4. f \in [Of(Tail(s), c) -> Of(s, c) \ {1}]
  <2>1. \A k \in 1..n - 1 : k + 1 \in 1..n /\ k + 1 # 1
    OBVIOUS
  <2>2. QED
    BY <1>2, <2>1 DEF Of
<1>5. \A k, l \in Of(Tail(s), c) : f[k] = f[l] => k = l
  BY <1>2 DEF Of
<1>6. \A l \in Of(s, c) \ {1} : \E k \in Of(Tail(s), c) : f[k] = l
  <2>1. SUFFICES ASSUME NEW l \in Of(s, c) \ {1} PROVE l - 1 \in Of(Tail(s), c) /\ f[l - 1] = l
    BY <1>4
  <2>2. l \in 1..n /\ l # 1 /\ s[l].ctx = c
    BY <1>2, <2>1 DEF Of
  <2>3. l - 1 \in 1..n - 1 /\ (l - 1) + 1 = l
    BY <2>2
  <2>4. Tail(s)[l - 1] = s[l]
    BY <1>2, <2>3
  <2>5. QED
    BY <1>2, <2>2, <2>3, <2>4 DEF Of
<1>7. f \in Bijection(Of(Tail(s), c), Of(s, c) \ {1})
  <2>1. PICK A, B, g : A = Of(Tail(s), c) /\ B = Of(s, c) \ {1} /\ g = f
    OBVIOUS
  <2>2. /\ g \in [A -> B] /\ (\A k, l \in A : g[k] = g[l] => k = l)
        /\ \A l \in B : \E k \in A : g[k] = l
    BY <1>4, <1>5, <1>6, <2>1
  <2>3. g \in Bijection(A, B)
    BY <2>2 DEF Bijection, Injection, Surjection, IsInjective
  <2>4. QED
    BY <2>1, <2>3
<1>8. ExistsBijection(Of(Tail(s), c), Of(s, c) \ {1})
  BY <1>7 DEF ExistsBijection
<1>9. Cardinality(Of(s, c) \ {1}) = Cardinality(Of(Tail(s), c))
  BY <1>2, <1>8, OfFinite, FS_Bijection
<1>10. 1 \in Of(s, c) <=> Head(s).ctx = c
  BY <1>1, <1>2 DEF Of
<1>11. Cardinality(Of(s, c) \ {1}) =
          IF 1 \in Of(s, c) THEN Cardinality(Of(s, c)) - 1 ELSE Cardinality(Of(s, c))
  BY OfFinite, FS_RemoveElement
<1>12. QED
  BY <1>9, <1>10, <1>11, OfFinite

LEMMA BusyFinite ==
    ASSUME MainTypes, NEW c
    PROVE  IsFiniteSet(Busy(c)) /\ Cardinality(Busy(c)) \in Nat
<1>1. IsFiniteSet(Thread)
  BY FS_Interval DEF Thread, MainTypes
<1>2. Busy(c) \subseteq Thread
  BY DEF Busy
<1>3. IsFiniteSet(Busy(c))
  BY <1>1, <1>2, FS_Subset
<1>4. QED
  BY <1>3, FS_CardinalityType

\* A worker that takes an item, or ends one.
LEMMA BusyChange ==
    ASSUME MainTypes, WorkTypes, threads' = threads, NEW w \in Thread, NEW x,
           work' = [work EXCEPT ![w] = x], NEW c
    PROVE  Cardinality(Busy(c))' = Cardinality(Busy(c)) - Held(w, c) + Held(w, c)'
<1>1. Thread' = Thread /\ work'[w] = x /\ \A v \in Thread : v # w => work'[v] = work[v]
  BY DEF Thread, WorkTypes
<1>2. PICK A, B : A = Busy(c) \ {w} /\ B = Busy(c)
  OBVIOUS
<1>3. IsFiniteSet(B) /\ Cardinality(B) \in Nat
  BY <1>2, BusyFinite
<1>4. /\ IsFiniteSet(A)
      /\ Cardinality(A) = IF w \in B THEN Cardinality(B) - 1 ELSE Cardinality(B)
  BY <1>2, <1>3, FS_RemoveElement
<1>5. /\ Cardinality(A \cup {w}) = IF w \in A THEN Cardinality(A) ELSE Cardinality(A) + 1
  BY <1>4, FS_AddElement
<1>6. w \notin A /\ (w \in B <=> Held(w, c) = 1) /\ Held(w, c) \in {0, 1}
  BY <1>2 DEF Busy, Held
<1>7. Busy(c)' = (IF Held(w, c)' = 1 THEN A \cup {w} ELSE A) /\ Held(w, c)' \in {0, 1}
  BY <1>1, <1>2 DEF Busy, Held
<1>8. QED
  BY <1>2, <1>3, <1>4, <1>5, <1>6, <1>7

\* What becomes of the items in a step of a worker.
LEMMA WorkItems ==
    ASSUME Shape, NEW w \in Thread, Worker(w)
    PROVE  \/ UNCHANGED <<queue, completed>> /\ \E x \in {Idle, Gone} :
                 work' = [work EXCEPT ![w] = x] /\ work[w].kind \notin Real
           \/ /\ Take(w) /\ queue # <<>> /\ queue' = Tail(queue) /\ work' = [work EXCEPT ![w] = Head(queue)]
              /\ work[w].kind \notin Real /\ UNCHANGED completed
           \/ /\ work[w].kind \in Real /\ work[w] \in Jobs /\ UNCHANGED queue /\ Complete(w)
<1>1. CASE BootWorker(w)
  BY <1>1, NoItem DEF BootWorker, shared, Real
<1>2. CASE Quit(w)
  BY <1>2, NoItem DEF Quit, shared, Real
<1>3. CASE Take(w)
  BY <1>3, NoItem DEF Take, Real
<1>4. CASE ParsePipeline(w) \/ MakeModule(w) \/ CreatePipeline(w)
  <2>1. work[w].kind \in Real /\ UNCHANGED queue /\ Complete(w)
    BY <1>4 DEF ParsePipeline, MakeModule, CreatePipeline, Real
  <2>2. QED
    BY <2>1, WorkOf DEF Shape
<1>5. QED
  BY <1>1, <1>2, <1>3, <1>4 DEF Worker

CountInv == \A c \in Ctx : /\ completed[c] <= queued[c]
                           /\ tag # "done" => queued[c] = completed[c] + Cardinality(Of(queue, c))
                                                                       + Cardinality(Busy(c))
GoneInv == tag = "done" => \A w \in Thread : work[w] = Gone

\* No context has an item when its counters are equal.
LEMMA Drained ==
    ASSUME Shape, CountInv, tag # "done", NEW c \in Ctx, queued[c] = completed[c]
    PROVE  \A i \in Items : i.ctx # c
<1>0. MainTypes /\ SharedTypes /\ WorkTypes /\ queue \in Seq(Jobs)
  BY DEF Shape, WorkTypes
<1>1. /\ queued[c] \in Nat /\ completed[c] \in Nat /\ Cardinality(Of(queue, c)) \in Nat
      /\ Cardinality(Busy(c)) \in Nat /\ IsFiniteSet(Busy(c)) /\ IsFiniteSet(Of(queue, c))
  BY <1>0, OfFinite, BusyFinite DEF SharedTypes
<1>2. Cardinality(Of(queue, c)) = 0 /\ Cardinality(Busy(c)) = 0
  BY <1>1 DEF CountInv
<1>3. Of(queue, c) = {} /\ Busy(c) = {}
  BY <1>1, <1>2, FS_EmptySet
<1>4. QED
  BY <1>3 DEF Items, Pending, ToSet, Of, Busy

\* Nothing happens behind the end.
LEMMA Ended ==
    ASSUME Shape, GoneInv, tag = "done"
    PROVE  ~Next
<1>1. SUFFICES ASSUME Next PROVE FALSE
  OBVIOUS
<1>2. todo = <<>> /\ waiting = NoCtx /\ tag \notin Tag /\ tag # "end"
  BY DEF Shape, Ctl, Tag
<1>3. ~Main
  BY <1>2 DEF Main, Doing, AwaitBoot, Advance, SyncContext, Parse, Prune, EnqueueModules,
              EnqueuePrimary, EnqueueOutside, EnqueueParentModules, EnqueueParents, Reclaim,
              EnqueueDerived, TearDown, Join
<1>4. PICK w \in Thread : Worker(w) \/ Crash(w) \/ Timeout(w)
  BY <1>1, <1>3 DEF Next
<1>5. work[w] = Gone /\ work[w] # Idle /\ work[w] # Boot /\ work[w].kind = "gone"
  BY <1>4, NoItem DEF GoneInv
<1>6. QED
  BY <1>2, <1>4, <1>5 DEF Worker, Crash, Timeout, BootWorker, Take, ParsePipeline, MakeModule,
                          CreatePipeline, Quit

LEMMA GoneStep ==
    ASSUME Shape, GoneInv, Next
    PROVE  GoneInv'
<1>1. SUFFICES ASSUME tag' = "done" PROVE \A w \in Thread' : work'[w] = Gone
  BY DEF GoneInv
<1>2. tag # "done"
  BY Ended
<1>3. CASE Main
  <2>1. UNCHANGED <<threads, work>>
    BY <1>3, MainFrame
  <2>2. Join
    <3>1. ~Advance
      BY <1>1, Turn DEF Shape
    <3>2. QED
      BY <1>1, <1>2, <1>3, <3>1 DEF Main, AwaitBoot, SyncContext, Parse, Prune, EnqueueModules,
              EnqueuePrimary, EnqueueOutside, EnqueueParentModules, EnqueueParents, Reclaim,
              EnqueueDerived, TearDown
  <2>3. QED
    BY <2>1, <2>2 DEF Join, Thread
<1>4. ASSUME NEW w \in Thread, Worker(w) PROVE FALSE
  BY <1>1, <1>2, <1>4, WorkerFacts
<1>5. ASSUME NEW w \in Thread, Crash(w) \/ Timeout(w) PROVE \A v \in Thread' : work'[v] = Gone
  <2>1. threads = 1 /\ Over
    BY <1>1, <1>5, DieFacts DEF Shape, Restart
  <2>2. QED
    BY <2>1 DEF Over, Thread
<1>6. QED
  BY <1>3, <1>4, <1>5 DEF Next

LEMMA CountMain ==
    ASSUME Shape, CountInv, Main, tag # "done"
    PROVE  CountInv'
<1>1. /\ completed' = completed /\ work' = work /\ threads' = threads
  BY MainFrame
<1>2. \A c \in Ctx : Busy(c)' = Busy(c)
  BY <1>1 DEF Busy, Thread
<1>3. /\ queue \in Seq(Jobs) /\ queued \in [Ctx -> Nat] /\ completed \in [Ctx -> Nat] /\ WorkTypes
      /\ \A c \in Ctx : Cardinality(Of(queue, c)) \in Nat /\ Cardinality(Busy(c)) \in Nat
  BY OfFinite, BusyFinite DEF Shape, WorkTypes, SharedTypes
<1>4. CASE UNCHANGED <<queue, queued>>
  BY <1>1, <1>2, <1>4 DEF CountInv
<1>5. CASE \E items \in Seq(Jobs), c \in Ctx :
              Enqueue(items, c) /\ \A k \in DOMAIN items : items[k].ctx = c
  <2>1. PICK items \in Seq(Jobs), c \in Ctx :
              Enqueue(items, c) /\ \A k \in DOMAIN items : items[k].ctx = c
    BY <1>5
  <2>2. /\ queue' = queue \o items /\ Len(items) \in Nat
        /\ queued'[c] = queued[c] + Len(items) /\ \A b \in Ctx : b # c => queued'[b] = queued[b]
    BY <1>3, <2>1, AddItems
  <2>3. /\ Cardinality(Of(queue', c)) = Cardinality(Of(queue, c)) + Len(items)
        /\ \A b \in Ctx : b # c => Of(queue', b) = Of(queue, b)
    BY <1>3, <2>1, <2>2, OfAppend
  <2>4. SUFFICES ASSUME NEW b \in Ctx
                 PROVE  /\ completed[b] <= queued'[b]
                        /\ queued'[b] = completed[b] + Cardinality(Of(queue', b)) + Cardinality(Busy(b))
    BY <1>1, <1>2 DEF CountInv
  <2>5. /\ completed[b] <= queued[b]
        /\ queued[b] = completed[b] + Cardinality(Of(queue, b)) + Cardinality(Busy(b))
    BY DEF CountInv
  <2>6. CASE b = c
    BY <1>3, <2>2, <2>3, <2>5, <2>6
  <2>7. CASE b # c
    BY <1>3, <2>2, <2>3, <2>5, <2>7
  <2>8. QED
    BY <2>6, <2>7
<1>6. QED
  BY <1>4, <1>5, MainItems

LEMMA CountWorker ==
    ASSUME Shape, CountInv, NEW w \in Thread, Worker(w), tag # "done"
    PROVE  CountInv'
<1>1. /\ UNCHANGED <<threads, queued, tag>>
  BY WorkerFacts
<1>3. /\ queue \in Seq(Jobs) /\ queued \in [Ctx -> Nat] /\ completed \in [Ctx -> Nat]
      /\ MainTypes /\ WorkTypes
      /\ \A c \in Ctx : Cardinality(Of(queue, c)) \in Nat /\ Cardinality(Busy(c)) \in Nat
  BY OfFinite, BusyFinite DEF Shape, WorkTypes, SharedTypes
<1>4. SUFFICES ASSUME NEW c \in Ctx
               PROVE  /\ completed'[c] <= queued[c]
                      /\ queued[c] = completed'[c] + Cardinality(Of(queue', c)) + Cardinality(Busy(c)')
  BY <1>1 DEF CountInv
<1>5. /\ completed[c] <= queued[c]
      /\ queued[c] = completed[c] + Cardinality(Of(queue, c)) + Cardinality(Busy(c))
  BY DEF CountInv
<1>6. Held(w, c) \in {0, 1} /\ Held(w, c)' \in {0, 1}
  BY DEF Held
<1>12. PICK q \in Nat, b \in Nat, n \in Nat :
          q = Cardinality(Of(queue, c)) /\ b = Cardinality(Busy(c)) /\ n = completed[c]
  BY <1>3
<1>7. w \in DOMAIN work
  BY <1>3 DEF WorkTypes
<1>8. CASE UNCHANGED <<queue, completed>> /\ \E x \in {Idle, Gone} :
                 work' = [work EXCEPT ![w] = x] /\ work[w].kind \notin Real
  <2>1. PICK x \in {Idle, Gone} : work' = [work EXCEPT ![w] = x] /\ work[w].kind \notin Real
    BY <1>8
  <2>2. work'[w] = x /\ x.kind \notin Real
    BY <1>7, <2>1, NoItem DEF Real
  <2>3. Held(w, c) = 0 /\ Held(w, c)' = 0
    BY <2>1, <2>2 DEF Held
  <2>4. Cardinality(Busy(c)') = b - Held(w, c) + Held(w, c)'
    BY <1>1, <1>3, <1>12, <2>1, BusyChange
  <2>5. Cardinality(Busy(c)') = b
    BY <2>3, <2>4
  <2>6. QED
    BY <1>5, <1>8, <1>12, <2>5
<1>9. CASE /\ queue # <<>> /\ queue' = Tail(queue) /\ work' = [work EXCEPT ![w] = Head(queue)]
           /\ work[w].kind \notin Real /\ UNCHANGED completed
  <2>1. work'[w] = Head(queue) /\ Head(queue) \in Jobs /\ Head(queue).kind \in Real
    BY <1>3, <1>7, <1>9 DEF Jobs
  <2>2. Held(w, c) = 0 /\ Held(w, c)' = IF Head(queue).ctx = c THEN 1 ELSE 0
    BY <1>9, <2>1 DEF Held
  <2>3. Cardinality(Busy(c)') = b - Held(w, c) + Held(w, c)'
    BY <1>1, <1>3, <1>12, <1>9, BusyChange
  <2>4. Cardinality(Of(queue, c)) = Cardinality(Of(queue', c)) + Held(w, c)'
    BY <1>3, <1>9, <2>2, OfTail
  <2>5. queue' \in Seq(Jobs)
    BY <1>3, <1>9
  <2>6. Cardinality(Of(queue', c)) \in Nat
    BY <2>5, OfFinite
  <2>7. PICK x \in {0, 1}, y \in Nat : x = Held(w, c)' /\ y = Cardinality(Of(queue', c))
    BY <1>6, <2>6
  <2>8. q = y + x /\ Cardinality(Busy(c)') = b + x
    BY <1>12, <2>2, <2>3, <2>4, <2>7
  <2>9. QED
    BY <1>5, <1>9, <1>12, <2>7, <2>8
<1>10. CASE work[w].kind \in Real /\ work[w] \in Jobs /\ UNCHANGED queue /\ Complete(w)
  <2>1. /\ work[w].ctx \in Ctx /\ work' = [work EXCEPT ![w] = Idle]
        /\ completed' = [completed EXCEPT ![work[w].ctx] = @ + 1]
    BY <1>3, <1>10, WorkOf DEF Complete
  <2>2. work'[w] = Idle /\ Idle.kind \notin Real
    BY <1>7, <2>1, NoItem DEF Real
  <2>3. Held(w, c)' = 0 /\ Held(w, c) = IF work[w].ctx = c THEN 1 ELSE 0
    BY <1>10, <2>2 DEF Held
  <2>4. completed'[c] = completed[c] + Held(w, c)
    BY <1>3, <2>1, <2>3
  <2>5. Cardinality(Busy(c)') = b - Held(w, c) + Held(w, c)'
    BY <1>1, <1>3, <1>12, <2>1, BusyChange
  <2>6. Held(w, c) = 1 => b >= 1
    <3>1. Held(w, c) = 1 => w \in Busy(c)
      BY DEF Held, Busy
    <3>2. IsFiniteSet(Busy(c))
      BY <1>3, BusyFinite
    <3>3. Busy(c) # {} => b # 0
      BY <1>12, <3>2, FS_EmptySet
    <3>4. QED
      BY <1>12, <3>1, <3>3
  <2>7. QED
    BY <1>5, <1>6, <1>12, <1>10, <2>3, <2>4, <2>5, <2>6
<1>11. QED
  BY <1>8, <1>9, <1>10, WorkItems

LEMMA CountDie ==
    ASSUME Shape, CountInv, NEW w \in Thread, Crash(w) \/ Timeout(w)
    PROVE  CountInv'
<1>1. CASE Over
  BY <1>1 DEF Over, CountInv
<1>2. CASE Restart(at[w], masked \cup blame[w])
  <2>1. /\ threads' = 1 /\ queue' = <<>> /\ work' = <<Boot>>
        /\ queued' = [c \in Ctx |-> 0] /\ completed' = [c \in Ctx |-> 0]
    BY <1>2 DEF Restart
  <2>2. \A c \in Ctx : Of(queue', c) = {} /\ Busy(c)' = {}
    BY <2>1, NoItem DEF Of, Busy, Thread, Real
  <2>3. \A c \in Ctx : /\ queued'[c] = 0 /\ completed'[c] = 0 /\ Cardinality(Of(queue', c)) = 0
                       /\ Cardinality(Busy(c)') = 0
    BY <2>1, <2>2, FS_EmptySet
  <2>4. QED
    BY <2>3 DEF CountInv
<1>3. QED
  BY <1>1, <1>2, DieFacts DEF Shape

Counts == CountInv /\ GoneInv

LEMMA CountsHold == Spec => []Counts
<1>1. Init => Counts
  <2>1. SUFFICES ASSUME Init PROVE Counts
    OBVIOUS
  <2>2. \A c \in Ctx : Of(queue, c) = {} /\ Busy(c) = {}
    BY <2>1, NoItem DEF Init, Of, Busy, Real
  <2>3. \A c \in Ctx : /\ queued[c] = 0 /\ completed[c] = 0 /\ Cardinality(Of(queue, c)) = 0
                       /\ Cardinality(Busy(c)) = 0
    BY <2>1, <2>2, FS_EmptySet DEF Init
  <2>4. tag # "done"
    BY <2>1 DEF Init
  <2>5. QED
    BY <2>3, <2>4 DEF Counts, CountInv, GoneInv
<1>2. Shape /\ Counts /\ [Next]_vars => Counts'
  <2>1. SUFFICES ASSUME Shape, Counts, [Next]_vars PROVE Counts'
    OBVIOUS
  <2>2. CASE UNCHANGED vars
    BY <2>1, <2>2 DEF vars, Counts, CountInv, GoneInv, Busy, Thread
  <2>3. CASE Next
    <3>1. tag # "done"
      BY <2>1, <2>3, Ended DEF Counts
    <3>2. CountInv'
      BY <2>1, <2>3, <3>1, CountMain, CountWorker, CountDie DEF Next, Counts
    <3>3. QED
      BY <2>1, <2>3, <3>2, GoneStep DEF Counts
  <2>4. QED
    BY <2>1, <2>2, <2>3
<1>3. QED
  BY <1>1, <1>2, ShapeHolds, PTL DEF Spec
-----------------------------------------------------------------------------
(***************************************************************************)
(* What a step does to the items.                                          *)
(***************************************************************************)
LEMMA ItemsTyped ==
    ASSUME Shape
    PROVE  /\ \A i \in Items : i \in Jobs /\ i.ctx \in Ctx /\ i.tag \in Tag /\ i.index \in Nat
           /\ \A i \in Pending : i \in Items \/ i \in {Idle, Boot, Gone}
<1>1. MainTypes /\ WorkTypes
  BY DEF Shape
<1>2. \A i \in Pending : i \in Jobs \/ i \in {Idle, Boot, Gone}
  BY <1>1 DEF Pending, WorkTypes, ToSet
<1>3. \A i \in Jobs : i.kind \in Real /\ i.ctx \in Ctx /\ i.tag \in Tag /\ i.index \in Nat
  BY DEF Jobs, ItemSet
<1>4. \A i \in {Idle, Boot, Gone} : i.kind \notin Real
  BY NoItem DEF Real
<1>5. QED
  BY <1>2, <1>3, <1>4 DEF Items

LEMMA ItemsKept == ASSUME UNCHANGED <<queue, work, threads>> PROVE Items' = Items
BY DEF Items, Pending, Thread

LEMMA ItemsAdded ==
    ASSUME Shape, NEW items \in Seq(Jobs), NEW c, Enqueue(items, c), UNCHANGED <<work, threads>>
    PROVE  Items' = Items \cup ToSet(items)
<1>1. queue \in Seq(Jobs) /\ queue' = queue \o items
  BY DEF Shape, WorkTypes, Enqueue
<1>2. PICK m \in Nat, n \in Nat : m = Len(queue) /\ n = Len(items)
  BY <1>1
<1>3. /\ DOMAIN queue = 1..m /\ DOMAIN items = 1..n /\ DOMAIN queue' = 1..m + n
      /\ \A k \in 1..m : queue'[k] = queue[k]
      /\ \A k \in m + 1..m + n : queue'[k] = items[k - m]
  BY <1>1, <1>2
<1>4. ToSet(queue') = ToSet(queue) \cup ToSet(items)
  <2>1. \A k \in 1..m + n : k \in 1..m \/ (k \in m + 1..m + n /\ k - m \in 1..n)
    OBVIOUS
  <2>2. \A k \in 1..m : k \in 1..m + n
    OBVIOUS
  <2>3. \A k \in 1..n : m + k \in m + 1..m + n /\ m + k \in 1..m + n /\ (m + k) - m = k
    OBVIOUS
  <2>4. ASSUME NEW x \in ToSet(queue') PROVE x \in ToSet(queue) \cup ToSet(items)
    <3>1. PICK k \in 1..m + n : x = queue'[k]
      BY <1>3, <2>4 DEF ToSet
    <3>2. QED
      BY <1>3, <2>1, <3>1 DEF ToSet
  <2>5. ASSUME NEW x \in ToSet(queue) PROVE x \in ToSet(queue')
    BY <1>3, <2>2, <2>5 DEF ToSet
  <2>6. ASSUME NEW x \in ToSet(items) PROVE x \in ToSet(queue')
    <3>1. PICK k \in 1..n : x = items[k]
      BY <1>3, <2>6 DEF ToSet
    <3>2. queue'[m + k] = x /\ m + k \in DOMAIN queue'
      BY <1>3, <2>3, <3>1
    <3>3. QED
      BY <3>2 DEF ToSet
  <2>7. QED
    BY <2>4, <2>5, <2>6
<1>5. \A i \in ToSet(items) : i.kind \in Real
  BY DEF ToSet, Jobs
<1>6. Thread' = Thread
  BY DEF Thread
<1>7. QED
  BY <1>4, <1>5, <1>6 DEF Items, Pending

LEMMA ItemsWorker ==
    ASSUME Shape, NEW w \in Thread, Worker(w)
    PROVE  /\ Items' \subseteq Items
           /\ \/ Items \subseteq Items' /\ (BootWorker(w) \/ Quit(w) \/ Take(w))
              \/ /\ ParsePipeline(w) \/ MakeModule(w) \/ CreatePipeline(w)
                 /\ work[w] \in Items /\ work[w] \in Jobs /\ Items \subseteq Items' \cup {work[w]}
<1>1. Thread' = Thread /\ w \in DOMAIN work /\ DOMAIN work = Thread
  BY WorkerFacts DEF Thread, Shape, WorkTypes
<1>2. CASE BootWorker(w) \/ Quit(w)
  <2>1. PICK x \in {Idle, Gone} : work' = [work EXCEPT ![w] = x] /\ queue' = queue
    BY <1>2 DEF BootWorker, Quit, shared
  <2>2. x.kind \notin Real /\ work[w].kind \notin Real
    BY <1>2, NoItem DEF BootWorker, Quit, Real
  <2>3. work'[w] = x /\ \A v \in Thread : v # w => work'[v] = work[v]
    BY <1>1, <2>1
  <2>4. Items' \subseteq Items
    BY <1>1, <2>1, <2>2, <2>3 DEF Items, Pending
  <2>5. Items \subseteq Items'
    BY <1>1, <2>1, <2>2, <2>3 DEF Items, Pending
  <2>6. QED
    BY <1>2, <2>4, <2>5
<1>3. CASE Take(w)
  <2>1. /\ queue # <<>> /\ queue' = Tail(queue) /\ work' = [work EXCEPT ![w] = Head(queue)]
        /\ work[w].kind \notin Real /\ queue \in Seq(Jobs)
    BY <1>3, NoItem DEF Take, Shape, WorkTypes, Real
  <2>2. work'[w] = Head(queue) /\ \A v \in Thread : v # w => work'[v] = work[v]
    BY <1>1, <2>1
  <2>3. ToSet(queue) = ToSet(Tail(queue)) \cup {Head(queue)}
    <3>1. PICK n \in Nat : n = Len(queue) /\ n >= 1
      BY <2>1
    <3>2. /\ DOMAIN queue = 1..n /\ DOMAIN Tail(queue) = 1..n - 1 /\ Head(queue) = queue[1]
          /\ \A k \in 1..n - 1 : Tail(queue)[k] = queue[k + 1]
      BY <2>1, <3>1
    <3>3. \A k \in 1..n : k = 1 \/ (k - 1 \in 1..n - 1 /\ (k - 1) + 1 = k)
      BY <3>1
    <3>4. \A k \in 1..n - 1 : k + 1 \in 1..n
      BY <3>1
    <3>5. 1 \in 1..n
      BY <3>1
    <3>6. QED
      BY <3>2, <3>3, <3>4, <3>5 DEF ToSet
  <2>4. Items' \subseteq Items
    BY <1>1, <2>1, <2>2, <2>3 DEF Items, Pending
  <2>5. Items \subseteq Items'
    BY <1>1, <2>1, <2>2, <2>3 DEF Items, Pending
  <2>6. QED
    BY <1>3, <2>4, <2>5
<1>4. CASE ParsePipeline(w) \/ MakeModule(w) \/ CreatePipeline(w)
  <2>1. /\ queue' = queue /\ work' = [work EXCEPT ![w] = Idle] /\ work[w].kind \in Real
    BY <1>4 DEF ParsePipeline, MakeModule, CreatePipeline, Complete, Real
  <2>2. work'[w] = Idle /\ Idle.kind \notin Real /\ \A v \in Thread : v # w => work'[v] = work[v]
    BY <1>1, <2>1, NoItem DEF Real
  <2>3. work[w] \in Jobs /\ work[w] \in Items
    BY <2>1, WorkOf DEF Shape, Items, Pending
  <2>4. Items' \subseteq Items
    BY <1>1, <2>1, <2>2 DEF Items, Pending
  <2>5. Items \subseteq Items' \cup {work[w]}
    BY <1>1, <2>1, <2>2 DEF Items, Pending
  <2>6. QED
    BY <1>4, <2>3, <2>4, <2>5
<1>5. QED
  BY <1>2, <1>3, <1>4 DEF Worker

LEMMA ItemsDie ==
    ASSUME Shape, NEW w \in Thread, Crash(w) \/ Timeout(w)
    PROVE  \/ Over /\ Items' \subseteq Items
           \/ /\ Restart(at[w], masked \cup blame[w]) /\ Items' = {}
<1>1. CASE Over
  <2>1. queue' = queue /\ work' = <<Gone>> /\ threads' = 1
    BY <1>1, DieFacts DEF Over, Shape
  <2>2. \A v \in Thread' : work'[v] = Gone
    BY <2>1 DEF Thread
  <2>3. Gone.kind \notin Real
    BY NoItem DEF Real
  <2>4. Items' \subseteq Items
    BY <2>1, <2>2, <2>3 DEF Items, Pending
  <2>5. QED
    BY <1>1, <2>4
<1>2. CASE Restart(at[w], masked \cup blame[w])
  BY <1>2, NoItem DEF Restart, Items, Pending, Thread, Real, ToSet
<1>3. QED
  BY <1>1, <1>2, DieFacts DEF Shape
-----------------------------------------------------------------------------
(***************************************************************************)
(* When there can be an item of a kind and a context.                      *)
(***************************************************************************)
InParse(i)  == i.kind = "parse" /\ ~i.outside
OutParse(i) == i.kind = "parse" /\ i.outside
Create(i)   == i.kind = "create"

ParseWindow(c)  == Within /\ IF c = 0 THEN Pos \in 2..40 ELSE Second /\ Pos \in 12..50
FirstWindow(c)  == Within /\ IF c = 0 THEN Pos \in 62..104 ELSE Second /\ Pos \in 72..105
SecondWindow(c) == IF c = 0 THEN Pos = 0 \/ Pos >= 123
                   ELSE Pos >= 131 \/ Pos <= 10 \/ (~Second /\ Pos <= 105)

WindowOK(i) ==
    /\ InParse(i) => i.ctx \in {0, 1} /\ i.tag = tag /\ ParseWindow(i.ctx)
    /\ OutParse(i) => i.ctx = PARENT /\ i.tag = tag /\ Within /\ Pos \in 81..100
    /\ i.kind = "module" => i.ctx = SHADER /\ Within /\ (Pos \in 42..60 \/ Pos = 102)
    /\ Create(i) /\ i.ctx = PARENT => Within /\ Pos \in 104..120
    /\ Create(i) /\ i.ctx # PARENT =>
          i.ctx \in {0, 1} /\ (FirstWindow(i.ctx) \/ (SecondWindow(i.ctx) /\ Derived(i.h)))
WindowInv == tag # "done" => \A i \in Items : WindowOK(i)

\* A sync that does not wait.
Synced(i) == Doing("sync") => i.ctx # Here

LEMMA WindowMove ==
    ASSUME MainTypes, Ctl, Within, todo # <<>>, Done, UNCHANGED <<tag, order, start>>,
           NEW i, WindowOK(i), Synced(i)
    PROVE  WindowOK(i)'
<1>1. /\ Within' /\ Pos' = Pos + 1 /\ (Second' <=> Second) /\ tag' = tag
  BY Move
<1>2. /\ Table /\ Pos \in Nat
  BY TableHolds
<1>3. PICK p \in Nat : p = Pos /\ Pos' = p + 1
  BY <1>1, <1>2
<1>4. \/ p \in {1, 11, 20, 41, 51, 61, 71, 80, 90, 101, 103, 121, 122, 130}
      \/ p \in {0, 40, 104} /\ i.ctx # 0
      \/ p \in {10, 50, 105} /\ i.ctx # 1
      \/ p \in {60, 70, 102} /\ i.ctx # 3
      \/ p \in {100, 120} /\ i.ctx # 2
  <2>1. CASE Doing("sync")
    <3>1. \/ Pos \in {0, 40, 104} /\ Here = 0
          \/ Pos \in {10, 50, 105} /\ Here = 1
          \/ Pos \in {60, 70, 102} /\ Here = 3
          \/ Pos \in {100, 120} /\ Here = 2
      BY <1>2, <2>1 DEF Table, Row, Doing
    <3>2. i.ctx # Here
      BY <2>1 DEF Synced
    <3>3. QED
      BY <1>3, <3>1, <3>2
  <2>2. CASE ~Doing("sync")
    <3>1. Pos \in {1, 11, 20, 41, 51, 61, 71, 80, 90, 101, 103, 121, 122, 130}
      BY <1>2, <2>2 DEF Table, Row
    <3>2. QED
      BY <1>3, <3>1
  <2>3. QED
    BY <2>1, <2>2
<1>5. /\ (InParse(i) => i.ctx \in {0, 1} /\ i.tag = tag /\ ParseWindow(i.ctx))'
  BY <1>1, <1>3, <1>4 DEF WindowOK, ParseWindow, InParse
<1>6. /\ (OutParse(i) => i.ctx = PARENT /\ i.tag = tag /\ Within /\ Pos \in 81..100)'
      /\ (i.kind = "module" => i.ctx = SHADER /\ Within /\ (Pos \in 42..60 \/ Pos = 102))'
      /\ (Create(i) /\ i.ctx = PARENT => Within /\ Pos \in 104..120)'
  BY <1>1, <1>3, <1>4 DEF WindowOK, OutParse, Create, PARENT, SHADER
<1>7. (Create(i) /\ i.ctx # PARENT =>
          i.ctx \in {0, 1} /\ (FirstWindow(i.ctx) \/ (SecondWindow(i.ctx) /\ Derived(i.h))))'
  BY <1>1, <1>3, <1>4 DEF WindowOK, Create, FirstWindow, SecondWindow, Derived
<1>8. QED
  BY <1>5, <1>6, <1>7 DEF WindowOK

LEMMA WindowTurn ==
    ASSUME MainTypes, Ctl, Advance, NEW i, WindowOK(i)
    PROVE  WindowOK(i)'
<1>1. OnIn \/ OnTo \/ Into \/ Past
  BY Turn
<1>2. CASE OnIn
  <2>1. PICK p, q : p = Pos /\ q = Pos' /\ Within /\ Within' /\ tag' = tag /\ (Second' <=> Second)
    BY <1>2 DEF OnIn
  <2>2. \/ Second /\ <<p, q>> \in {<<2, 10>>, <<42, 50>>, <<62, 70>>, <<81, 90>>, <<123, 130>>}
        \/ ~Second /\ <<p, q>> \in {<<2, 20>>, <<42, 60>>, <<62, 80>>, <<81, 100>>}
        \/ <<p, q>> \in {<<12, 20>>, <<21, 40>>, <<52, 60>>, <<72, 80>>, <<91, 100>>, <<106, 120>>}
    BY <1>2, <2>1 DEF OnIn
  <2>5. /\ (InParse(i) => i.ctx \in {0, 1} /\ i.tag = tag /\ ParseWindow(i.ctx))'
    BY <2>1, <2>2 DEF WindowOK, ParseWindow, InParse
  <2>6. /\ (OutParse(i) => i.ctx = PARENT /\ i.tag = tag /\ Within /\ Pos \in 81..100)'
        /\ (i.kind = "module" => i.ctx = SHADER /\ Within /\ (Pos \in 42..60 \/ Pos = 102))'
        /\ (Create(i) /\ i.ctx = PARENT => Within /\ Pos \in 104..120)'
    BY <2>1, <2>2 DEF WindowOK, OutParse, Create, PARENT, SHADER
  <2>7. (Create(i) /\ i.ctx # PARENT =>
            i.ctx \in {0, 1} /\ (FirstWindow(i.ctx) \/ (SecondWindow(i.ctx) /\ Derived(i.h))))'
    BY <2>1, <2>2 DEF WindowOK, Create, FirstWindow, SecondWindow, Derived
  <2>8. QED
    BY <2>5, <2>6, <2>7 DEF WindowOK
<1>3. CASE OnTo \/ Into \/ Past
  <2>1. /\ Pos \in {123, 131, 140} /\ Pos' \in {0, 140} /\ (Pos = 123 => ~Second /\ Within)
    <3>1. CASE OnTo \/ Into
      BY <3>1 DEF OnTo, Into
    <3>2. CASE Past
      BY <3>2, OuterHolds DEF Past
    <3>3. QED
      BY <1>3, <3>1, <3>2
  <2>2. PICK p, q : p = Pos /\ q = Pos' /\ p \in {123, 131, 140} /\ q \in {0, 140} /\ (p = 123 => ~Second)
    BY <2>1
  <2>3. ~InParse(i) /\ ~OutParse(i) /\ i.kind # "module" /\ ~(Create(i) /\ i.ctx = PARENT)
    BY <2>2 DEF WindowOK, ParseWindow
  <2>4. Create(i) => i.ctx \in {0, 1} /\ Derived(i.h)
    BY <2>2, <2>3 DEF WindowOK, FirstWindow
  <2>5. i.ctx \in {0, 1} => SecondWindow(i.ctx)'
    BY <2>2 DEF SecondWindow
  <2>6. QED
    BY <2>3, <2>4, <2>5 DEF WindowOK, InParse, OutParse, Create, Derived
<1>4. QED
  BY <1>1, <1>2, <1>3
-----------------------------------------------------------------------------
(***************************************************************************)
(* What the main thread adds to the items.                                 *)
(***************************************************************************)
Made(i, d, c) == \E base \in Handles, ub \in BOOLEAN : i = CreateItem(d, c, Offset(order), base, ub)

LEMMA MadeItems ==
    ASSUME Shape, Within, NEW infos \in Seq(Pipes), NEW bases, NEW c \in Ctx, Main,
           \A k \in DOMAIN infos : bases[infos[k].h] \in Handles,
           EnqueuePipelines(infos, c, Offset(order), bases)
    PROVE  /\ Items \subseteq Items'
           /\ \A i \in Items' : i \in Items \/ \E k \in DOMAIN infos : Made(i, infos[k], c)
<1>1. PICK off \in Nat : off = Offset(order) /\ tag \in Tag
  BY OffsetType DEF Shape
<1>2. PICK ub \in BOOLEAN, items \in Seq(Jobs) :
           /\ DOMAIN items = DOMAIN infos
           /\ \A k \in DOMAIN items : items[k] = CreateItem(infos[k], c, off, bases[infos[k].h], ub)
           /\ Enqueue(items, c)
  BY <1>1, PipelinesEnqueued DEF Shape
<1>3. Items' = Items \cup ToSet(items)
  BY <1>2, ItemsAdded, MainFrame
<1>4. \A i \in ToSet(items) : \E k \in DOMAIN infos : Made(i, infos[k], c)
  <2>1. SUFFICES ASSUME NEW k \in DOMAIN items PROVE \E l \in DOMAIN infos : Made(items[k], infos[l], c)
    BY DEF ToSet
  <2>2. bases[infos[k].h] \in Handles /\ items[k] = CreateItem(infos[k], c, off, bases[infos[k].h], ub)
    BY <1>2, <2>1
  <2>3. Made(items[k], infos[k], c)
    BY <1>1, <2>2 DEF Made
  <2>4. QED
    BY <1>2, <2>1, <2>3
<1>5. QED
  BY <1>3, <1>4

LEMMA ItemsParse ==
    ASSUME Shape, Parse
    PROVE  /\ Items \subseteq Items'
           /\ \A i \in Items' : i \in Items \/ \E n \in 1..Submit(tag, order) :
                 ~Known(n) /\ i = InItem(tag, HashAt(tag, order, n), n - 1, Here)
           /\ \A n \in 1..Submit(tag, order) : ~Known(n) =>
                 InItem(tag, HashAt(tag, order, n), n - 1, Here) \in Items'
<1>1. PICK items \in Seq(Jobs) :
                /\ Enqueue(items, Here)
                /\ \A k \in DOMAIN items : \E n \in 1..Submit(tag, order) :
                      /\ ~Known(n)
                      /\ items[k] = InItem(tag, HashAt(tag, order, n), n - 1, Here)
                /\ \A n \in 1..Submit(tag, order) : ~Known(n) =>
                      \E k \in DOMAIN items :
                         items[k] = InItem(tag, HashAt(tag, order, n), n - 1, Here)
  BY ParseEnqueued DEF Shape
<1>2. Items' = Items \cup ToSet(items)
  BY <1>1, ItemsAdded, MainFrame DEF Main
<1>3. QED
  BY <1>1, <1>2 DEF ToSet

LEMMA ItemsOutside ==
    ASSUME Shape, EnqueueOutside
    PROVE  /\ Items \subseteq Items'
           /\ \A i \in Items' : i \in Items \/ \E n \in DOMAIN derived[Here] :
                 i = OutItem(tag, Base[derived[Here][n].h], derived[Here][n].index, PARENT)
<1>1. PICK items \in Seq(Jobs) :
                /\ Enqueue(items, PARENT)
                /\ \A k \in DOMAIN items : \E n \in Wanted(derived[Here]) :
                      items[k] = OutItem(tag, Base[derived[Here][n].h], derived[Here][n].index, PARENT)
  BY OutsideEnqueued DEF Shape
<1>2. Items' = Items \cup ToSet(items)
  BY <1>1, ItemsAdded, MainFrame DEF Main
<1>3. QED
  BY <1>1, <1>2 DEF ToSet, Wanted

LEMMA ItemsModules ==
    ASSUME Shape, EnqueueModules \/ EnqueueParentModules
    PROVE  /\ Items \subseteq Items'
           /\ \A i \in Items' : i \in Items \/ \E m \in Module \ enqueued : i = ModuleItem(m) /\ m \in enqueued'
           /\ enqueued \subseteq enqueued'
           /\ \A m \in enqueued' : m \in enqueued \/ ModuleItem(m) \in Items'
<1>1. PICK infos, c : \E ms \in NewModules(infos, c) :
          Enqueue([k \in DOMAIN ms |-> ModuleItem(ms[k])], SHADER) /\ enqueued' = enqueued \cup ToSet(ms)
  <2>1. CASE EnqueueModules
    <3>1. PICK infos, c : infos = deferred[tag][Here] /\ c = Here
      OBVIOUS
    <3>2. \E ms \in NewModules(infos, c) :
             Enqueue([k \in DOMAIN ms |-> ModuleItem(ms[k])], SHADER) /\ enqueued' = enqueued \cup ToSet(ms)
      BY <2>1, <3>1 DEF EnqueueModules
    <3>3. QED
      BY <3>2
  <2>2. CASE EnqueueParentModules
    <3>1. PICK infos \in SetToSeqs(parents) : \E ms \in NewModules(infos, PARENT) :
             Enqueue([k \in DOMAIN ms |-> ModuleItem(ms[k])], SHADER) /\ enqueued' = enqueued \cup ToSet(ms)
      BY <2>2 DEF EnqueueParentModules
    <3>2. QED
      BY <3>1
  <2>3. QED
    BY <2>1, <2>2
<1>2. PICK ms \in NewModules(infos, c) :
          Enqueue([k \in DOMAIN ms |-> ModuleItem(ms[k])], SHADER) /\ enqueued' = enqueued \cup ToSet(ms)
  BY <1>1
<1>3. /\ [k \in DOMAIN ms |-> ModuleItem(ms[k])] \in Seq(Jobs)
      /\ \A k \in DOMAIN ms : ms[k] \in Module \ enqueued
  BY <1>2, ModulesEnqueued
<1>4. Items' = Items \cup ToSet([k \in DOMAIN ms |-> ModuleItem(ms[k])])
  BY <1>2, <1>3, ItemsAdded, MainFrame DEF Main
<1>5. ToSet([k \in DOMAIN ms |-> ModuleItem(ms[k])]) = {ModuleItem(m) : m \in ToSet(ms)}
  BY DEF ToSet
<1>6. \A m \in ToSet(ms) : m \in Module \ enqueued
  BY <1>3 DEF ToSet
<1>7. QED
  BY <1>2, <1>4, <1>5, <1>6

LEMMA ItemsPrimary ==
    ASSUME Shape, EnqueuePrimary
    PROVE  /\ Items \subseteq Items'
           /\ \A i \in Items' : i \in Items \/ \E n \in DOMAIN deferred[tag][Here] :
                 deferred[tag][Here][n] \in Pipes /\ Made(i, deferred[tag][Here][n], Here)
<1>1. PICK infos \in Seq(Pipes) : \E bases :
              /\ \A k \in DOMAIN infos : \E n \in DOMAIN deferred[tag][Here] : infos[k] = deferred[tag][Here][n]
              /\ \A k \in DOMAIN infos : bases[infos[k].h] \in Handles
              /\ EnqueuePipelines(infos, Here, Offset(order), bases)
  BY PrimaryEnqueued DEF Shape
<1>2. Within /\ Here \in Ctx /\ Main
  <2>1. Within /\ Here \in {0, 1}
    BY HereFacts DEF InContext, EnqueuePrimary, Shape
  <2>2. QED
    BY <2>1 DEF Ctx, Main
<1>3. /\ Items \subseteq Items'
      /\ \A i \in Items' : i \in Items \/ \E k \in DOMAIN infos : Made(i, infos[k], Here)
  BY <1>1, <1>2, MadeItems
<1>4. \A k \in DOMAIN infos : infos[k] \in Pipes
  BY <1>1
<1>5. QED
  BY <1>1, <1>3, <1>4

LEMMA ItemsParents ==
    ASSUME Shape, EnqueueParents
    PROVE  /\ Items \subseteq Items'
           /\ \A i \in Items' : i \in Items \/ \E p \in parents : Made(i, p, PARENT)
<1>1. PICK infos \in Seq(Pipes) : \E bases :
              /\ \A k \in DOMAIN infos : infos[k] \in parents
              /\ \A k \in DOMAIN infos : bases[infos[k].h] \in Handles
              /\ EnqueuePipelines(infos, PARENT, Offset(order), bases)
  BY ParentsEnqueued DEF Shape
<1>2. Within /\ PARENT \in Ctx /\ Main
  BY BatchedFacts DEF Batched, PARENT, Ctx, Main, Shape
<1>3. /\ Items \subseteq Items'
      /\ \A i \in Items' : i \in Items \/ \E k \in DOMAIN infos : Made(i, infos[k], PARENT)
  BY <1>1, <1>2, MadeItems
<1>4. QED
  BY <1>1, <1>3

LEMMA ItemsDerived ==
    ASSUME Shape, EnqueueDerived
    PROVE  /\ Items \subseteq Items'
           /\ \A i \in Items' : i \in Items \/ \E n \in DOMAIN derived[Here] :
                 derived[Here][n] \in DerivedPipes /\ Made(i, derived[Here][n], Here)
<1>1. PICK infos \in Seq(Pipes) : \E bases :
              /\ \A k \in DOMAIN infos : \E n \in Ready(derived[Here]) : infos[k] = derived[Here][n]
              /\ \A k \in DOMAIN infos : bases[infos[k].h] \in Handles
              /\ EnqueuePipelines(infos, Here, Offset(order), bases)
  BY DerivedEnqueued DEF Shape
<1>2. Within /\ Here \in Ctx /\ Here \in {0, 1} /\ Main
  <2>1. Within /\ Here \in {0, 1}
    BY HereFacts DEF InContext, EnqueueDerived, Shape
  <2>2. QED
    BY <2>1 DEF Ctx, Main
<1>3. /\ Items \subseteq Items'
      /\ \A i \in Items' : i \in Items \/ \E k \in DOMAIN infos : Made(i, infos[k], Here)
  BY <1>1, <1>2, MadeItems
<1>4. \A n \in Ready(derived[Here]) : n \in DOMAIN derived[Here] /\ derived[Here][n] \in DerivedPipes
  BY <1>2 DEF Ready, Shape, MainTypes
<1>5. QED
  BY <1>1, <1>3, <1>4

\* Windows as long as the main thread is outside of a batch.
LEMMA WindowStay ==
    ASSUME MainTypes, Ctl, NEW i, WindowOK(i),
           UNCHANGED <<tag, order, todo, start>> \/ (~Within /\ ~Within')
    PROVE  WindowOK(i)'
<1>1. CASE UNCHANGED <<tag, order, todo, start>>
  <2>1. (Within' <=> Within) /\ Pos' = Pos /\ (Second' <=> Second) /\ tag' = tag
    BY <1>1, Stay
  <2>2. QED
    BY <2>1 DEF WindowOK, InParse, OutParse, Create, ParseWindow, FirstWindow, SecondWindow, Derived
<1>2. CASE ~Within /\ ~Within'
  <2>1. Pos = 140 /\ Pos' = 140
    BY <1>2 DEF Pos
  <2>2. QED
    BY <1>2, <2>1 DEF WindowOK, InParse, OutParse, Create, ParseWindow, FirstWindow, SecondWindow, Derived
<1>3. QED
  BY <1>1, <1>2

\* The windows in which the passes enqueue.
LEMMA WindowNew ==
    ASSUME Shape, Batched, NEW i \in Items', i \notin Items
    PROVE  WindowOK(i)'
<1>0. MainTypes /\ Ctl
  BY DEF Shape
<1>1. /\ Within' /\ Pos' = Pos + 1 /\ (Second' <=> Second) /\ tag' = tag
  BY <1>0, BatchedFacts, Move
<1>2. CASE Parse
  <2>1. PICK n \in 1..Submit(tag, order) : i = InItem(tag, HashAt(tag, order, n), n - 1, Here)
    BY <1>2, ItemsParse
  <2>2. /\ i.kind = "parse" /\ i.tag = tag /\ i.ctx = Here
    BY <2>1, InFields
  <2>3. ~i.outside
    BY <2>1, InInside
  <2>4. Here \in {0, 1} /\ Pos = 10 * Here + 1 /\ (Here = 1 => Second)
    BY <1>0, <1>2, Where, HereFacts DEF Parse, InContext
  <2>5. ParseWindow(i.ctx)'
    BY <1>1, <2>2, <2>4 DEF ParseWindow
  <2>6. QED
    BY <1>1, <2>2, <2>3, <2>4, <2>5 DEF WindowOK, InParse, OutParse, Create
<1>3. CASE EnqueueModules \/ EnqueueParentModules
  <2>1. PICK m \in Module : i = ModuleItem(m)
    BY <1>3, ItemsModules
  <2>2. /\ i.kind = "module" /\ i.ctx = SHADER
    BY <2>1, ModuleFields
  <2>3. Pos = 41 \/ Pos = 51 \/ Pos = 101
    BY <1>0, <1>3, Where DEF EnqueueModules, EnqueueParentModules
  <2>4. QED
    BY <1>1, <2>2, <2>3 DEF WindowOK, InParse, OutParse, Create
<1>4. CASE EnqueueOutside
  <2>1. PICK n \in DOMAIN derived[Here] :
           i = OutItem(tag, Base[derived[Here][n].h], derived[Here][n].index, PARENT)
    BY <1>4, ItemsOutside
  <2>2. /\ i.kind = "parse" /\ i.tag = tag /\ i.ctx = PARENT
    BY <2>1, OutFields
  <2>3. i.outside
    BY <2>1, OutOutside
  <2>4. Pos = 80 \/ Pos = 90
    BY <1>0, <1>4, Where DEF EnqueueOutside
  <2>5. QED
    BY <1>1, <2>2, <2>3, <2>4 DEF WindowOK, InParse, OutParse, Create
<1>5. CASE EnqueuePrimary
  <2>1. PICK n \in DOMAIN deferred[tag][Here] : Made(i, deferred[tag][Here][n], Here)
    BY <1>5, ItemsPrimary
  <2>2. i.kind = "create" /\ i.ctx = Here
    BY <2>1, CreateFields DEF Made
  <2>4. Here \in {0, 1} /\ Pos = 10 * Here + 61 /\ (Here = 1 => Second)
    BY <1>0, <1>5, Where, HereFacts DEF EnqueuePrimary, InContext
  <2>5. FirstWindow(i.ctx)'
    BY <1>1, <2>2, <2>4 DEF FirstWindow
  <2>6. QED
    BY <1>1, <2>2, <2>4, <2>5 DEF WindowOK, InParse, OutParse, Create, PARENT
<1>6. CASE EnqueueParents
  <2>1. PICK p \in parents : Made(i, p, PARENT)
    BY <1>6, ItemsParents
  <2>2. i.kind = "create" /\ i.ctx = PARENT
    BY <2>1, CreateFields DEF Made
  <2>3. Pos = 103
    BY <1>0, <1>6, Where DEF EnqueueParents
  <2>4. QED
    BY <1>1, <2>2, <2>3 DEF WindowOK, InParse, OutParse, Create
<1>7. CASE EnqueueDerived
  <2>1. PICK n \in DOMAIN derived[Here] :
           derived[Here][n] \in DerivedPipes /\ Made(i, derived[Here][n], Here)
    BY <1>7, ItemsDerived
  <2>2. i.kind = "create" /\ i.ctx = Here /\ i.h = derived[Here][n].h
    BY <2>1, CreateFields DEF Made
  <2>3. Derived(i.h)
    BY <2>1, <2>2 DEF DerivedPipes
  <2>4. Here \in {0, 1} /\ Pos = 8 * Here + 122
    BY <1>0, <1>7, Where DEF EnqueueDerived
  <2>5. SecondWindow(i.ctx)'
    BY <1>1, <2>2, <2>4 DEF SecondWindow
  <2>6. QED
    BY <1>1, <2>2, <2>3, <2>4, <2>5 DEF WindowOK, InParse, OutParse, Create, Derived, PARENT
<1>8. CASE Prune \/ Reclaim
  <2>1. UNCHANGED <<queue, work, threads>>
    BY <1>8 DEF Prune, Reclaim, workers, options
  <2>2. QED
    BY <2>1, ItemsKept
<1>9. QED
  BY <1>2, <1>3, <1>4, <1>5, <1>6, <1>7, <1>8 DEF Batched

\* A main thread's step that is not one of a batch leaves the items alone.
Control == AwaitBoot \/ Advance \/ SyncContext \/ TearDown \/ Join

LEMMA ControlFacts ==
    ASSUME Control
    PROVE  /\ UNCHANGED <<threads, start, deferred, derived, parents, enqueued, queue, queued>>
           /\ UNCHANGED <<completed, pipelines, cache, handle, epoch, gen, work, seen>> /\ Items' = Items
<1>1. /\ UNCHANGED <<threads, start, deferred, derived, parents, enqueued, queue, queued>>
      /\ UNCHANGED <<completed, pipelines, cache, handle, epoch, gen, work, seen>>
  BY DEF Control, AwaitBoot, Advance, SyncContext, TearDown, Join, options, shared, workers
<1>2. QED
  BY <1>1, ItemsKept

LEMMA MainSplit == Main <=> Control \/ Batched
BY DEF Main, Control, Batched

LEMMA ControlPlace ==
    ASSUME Shape, Control, NEW i, WindowOK(i), CountInv, i \in Items, tag # "done", tag' # "done"
    PROVE  WindowOK(i)'
<1>0. MainTypes /\ Ctl
  BY DEF Shape
<1>1. CASE Advance
  BY <1>0, <1>1, WindowTurn
<1>2. CASE AwaitBoot \/ TearDown
  <2>1. UNCHANGED <<tag, order>> /\ ~Within
    BY <1>0, <1>2, Where DEF AwaitBoot, TearDown
  <2>2. ~Within'
    BY <2>1 DEF Within
  <2>3. QED
    BY <1>0, <2>1, <2>2, WindowStay
<1>3. CASE Join
  BY <1>3 DEF Join
<1>4. CASE SyncContext /\ queued[Here] = completed[Here]
  <2>1. /\ Doing("sync") /\ Done /\ UNCHANGED <<tag, order, start>>
    BY <1>4 DEF SyncContext, options
  <2>2. Here \in Ctx
    <3>1. todo \in Seq(Steps) /\ todo # <<>>
      BY <1>0, <2>1 DEF Doing, MainTypes
    <3>2. Head(todo) \in Steps
      BY <3>1
    <3>3. QED
      BY <3>2 DEF Here, Steps
  <2>3. Synced(i)
    BY <1>4, <2>1, <2>2, Drained DEF Synced
  <2>4. CASE Within
    BY <1>0, <2>1, <2>3, <2>4, WindowMove DEF Doing
  <2>5. CASE ~Within
    <3>1. ~Within'
      BY <2>1, <2>5 DEF Within
    <3>2. QED
      BY <1>0, <2>5, <3>1, WindowStay
  <2>6. QED
    BY <2>4, <2>5
<1>5. CASE SyncContext /\ queued[Here] # completed[Here]
  <2>1. UNCHANGED <<tag, order, todo, start>>
    BY <1>5 DEF SyncContext, options
  <2>2. QED
    BY <1>0, <2>1, WindowStay
<1>6. QED
  BY <1>1, <1>2, <1>3, <1>4, <1>5 DEF Control

LEMMA WindowStep ==
    ASSUME Shape, Counts, WindowInv, Next
    PROVE  WindowInv'
<1>0. MainTypes /\ Ctl /\ tag # "done" /\ CountInv
  BY Ended DEF Shape, Counts
<1>1. SUFFICES ASSUME tag' # "done", NEW i \in Items' PROVE WindowOK(i)'
  BY DEF WindowInv
<1>2. i \in Items => WindowOK(i)
  BY <1>0 DEF WindowInv
<1>3. CASE Control
  BY <1>0, <1>1, <1>2, <1>3, ControlFacts, ControlPlace
<1>4. CASE Batched
  <2>1. CASE i \in Items
    <3>1. Synced(i) /\ Within /\ todo # <<>> /\ Done /\ UNCHANGED <<tag, order, start>>
      BY <1>0, <1>4, BatchedFacts DEF Synced, Doing
    <3>2. QED
      BY <1>0, <1>2, <2>1, <3>1, WindowMove
  <2>2. CASE i \notin Items
    BY <1>1, <1>4, <2>2, WindowNew
  <2>3. QED
    BY <2>1, <2>2
<1>5. ASSUME NEW w \in Thread, Worker(w) PROVE WindowOK(i)'
  <2>1. i \in Items
    BY <1>1, <1>5, ItemsWorker
  <2>2. UNCHANGED <<tag, order, todo, start>>
    BY <1>5, WorkerFacts
  <2>3. QED
    BY <1>0, <1>2, <2>1, <2>2, WindowStay
<1>6. ASSUME NEW w \in Thread, Crash(w) \/ Timeout(w) PROVE FALSE
  BY <1>1, <1>6, ItemsDie DEF Over
<1>7. QED
  BY <1>3, <1>4, <1>5, <1>6, MainSplit DEF Next

LEMMA WindowHolds == Spec => []WindowInv
<1>1. Init => WindowInv
  <2>1. SUFFICES ASSUME Init PROVE Items = {}
    BY DEF WindowInv
  <2>2. QED
    BY <2>1, NoItem DEF Init, Items, Pending, ToSet, Real
<1>2. Shape /\ Counts /\ WindowInv /\ [Next]_vars => WindowInv'
  <2>1. SUFFICES ASSUME Shape, Counts, WindowInv, UNCHANGED vars PROVE WindowInv'
    BY WindowStep
  <2>2. Items' = Items /\ UNCHANGED <<tag, order, todo, start>>
    BY <2>1, ItemsKept DEF vars
  <2>3. QED
    BY <2>1, <2>2, WindowStay DEF WindowInv, Shape
<1>3. QED
  BY <1>1, <1>2, ShapeHolds, CountsHold, PTL DEF Spec
-----------------------------------------------------------------------------
(***************************************************************************)
(* What the slots hold: a create info of this chunk, unless the entry of   *)
(* the slot cannot be read or is still to be parsed.                       *)
(***************************************************************************)
Fits(d, c) == d.ep = epoch[c] /\ Spot(c, d.index + 1) <= Len(List[tag])
Near(x)    == Spot(0, x + 1) <= Len(List[tag]) \/ Unreadable # {}
Parsing(c, k, h) == \E i \in Items : InParse(i) /\ i.ctx = c /\ i.index = k - 1 /\ i.h = h

SlotWindow(c) == Within /\ IF c = 0 THEN Pos \in 2..61 ELSE Second /\ Pos \in 12..71
SlotOK(d, c, k) == d.h = NoHash \/ Fits(d, c) \/ d.from \in Unreadable \/ Parsing(c, k, d.from)
SlotInv == \A c \in {0, 1} : SlotWindow(c) =>
    \A k \in DOMAIN deferred[tag][c] : SlotOK(deferred[tag][c][k], c, k)

DerivedWindow(c) == Within /\ IF c = 0 THEN Pos \in 42..122 ELSE Second /\ Pos \in 52..130
DerivedInv == tag # "done" => \A c \in {0, 1} : \A k \in DOMAIN derived[c] :
    /\ DerivedWindow(c)
    /\ Fits(derived[c][k], c) \/ derived[c][k].from \in Unreadable

ParentInv == tag # "done" => \A p \in parents :
    Within /\ Pos \in 81..103 /\ p.ep = epoch[PARENT] /\ Near(p.index)

ParseOK(i) ==
    /\ InParse(i) => /\ i.index < Len(deferred[i.tag][i.ctx])
                     /\ tag # "done" => Spot(i.ctx, i.index + 1) <= Len(List[tag])
    /\ OutParse(i) /\ tag # "done" => Near(i.index)
ParseInv == \A i \in Items : ParseOK(i)

CreateOK(i) == Create(i) => /\ i.index < Len(List[i.tag]) \/ Unreadable # {}
                            /\ i.ep # epoch[i.ctx] => i.from \in Unreadable
CreateInv == \A i \in Items : CreateOK(i)

Contents == SlotInv /\ DerivedInv /\ ParentInv /\ ParseInv /\ CreateInv

\* The place in the batch, by which the windows are defined, in a step of the
\* main thread.
Same == /\ Within /\ Within' /\ tag' = tag /\ (Second' <=> Second)
        /\ \A c, k : Spot(c, k)' = Spot(c, k)
On == \/ Pos' = Pos
      \/ Pos' = Pos + 1 /\ Pos \in {0, 10, 40, 50, 60, 70, 100, 102, 104, 105, 120}
      \/ Second /\ Pos \in {2, 42, 62} /\ Pos' = Pos + 8
      \/ Second /\ Pos = 81 /\ Pos' = 90
      \/ Second /\ Pos = 123 /\ Pos' = 130
      \/ ~Second /\ Pos \in {2, 42, 62} /\ Pos' = Pos + 18
      \/ ~Second /\ Pos = 81 /\ Pos' = 100
      \/ Pos \in {12, 52, 72} /\ Pos' = Pos + 8
      \/ Pos = 21 /\ Pos' = 40
      \/ Pos = 91 /\ Pos' = 100
      \/ Pos = 106 /\ Pos' = 120
Out == /\ Within => Pos = 131 \/ (Pos = 123 /\ ~Second)
       /\ ~Within' \/ Pos' = 0

LEMMA SameSpots ==
    ASSUME tag' = tag, start' = start, Batch' = Batch
    PROVE  \A c, k : Spot(c, k)' = Spot(c, k)
BY DEF Spot

LEMMA ControlMoves ==
    ASSUME Shape, Control
    PROVE  (Same /\ On) \/ Out
<1>0. MainTypes /\ Ctl
  BY DEF Shape
<1>1. CASE Advance
  <2>1. OnIn \/ OnTo \/ Into \/ Past
    BY <1>0, <1>1, Turn
  <2>2. CASE OnIn
    <3>1. Same
      BY <2>2, <1>1, SameSpots DEF OnIn, Same, Advance, options
    <3>2. PICK p, q : p = Pos /\ q = Pos'
      OBVIOUS
    <3>3. \/ Second /\ <<p, q>> \in {<<2, 10>>, <<42, 50>>, <<62, 70>>, <<81, 90>>, <<123, 130>>}
          \/ ~Second /\ <<p, q>> \in {<<2, 20>>, <<42, 60>>, <<62, 80>>, <<81, 100>>}
          \/ <<p, q>> \in {<<12, 20>>, <<21, 40>>, <<52, 60>>, <<72, 80>>, <<91, 100>>, <<106, 120>>}
      BY <2>2, <3>2 DEF OnIn
    <3>4. On
      BY <3>2, <3>3 DEF On
    <3>5. QED
      BY <3>1, <3>4
  <2>3. CASE OnTo \/ Into \/ Past
    BY <2>3 DEF OnTo, Into, Past, Out
  <2>4. QED
    BY <2>1, <2>2, <2>3
<1>2. CASE AwaitBoot \/ TearDown \/ Join
  <2>1. ~Within /\ ~Within'
    <3>1. CASE AwaitBoot \/ TearDown
      <4>1. UNCHANGED <<tag, order>> /\ ~Within
        BY <1>0, <3>1, Where DEF AwaitBoot, TearDown
      <4>2. QED
        BY <4>1 DEF Within
    <3>2. CASE Join
      <4>1. ~Within /\ tag' = "done"
        BY <1>0, <3>2, Where DEF Join
      <4>2. QED
        BY <4>1 DEF Within, Tag
    <3>3. QED
      BY <1>2, <3>1, <3>2
  <2>2. QED
    BY <2>1 DEF Out
<1>3. CASE SyncContext
  <2>1. Doing("sync") /\ UNCHANGED <<tag, order, start>> /\ (Done \/ UNCHANGED todo) /\ todo # <<>>
    BY <1>3 DEF SyncContext, options, Doing
  <2>2. CASE ~Within
    <3>1. ~Within'
      BY <2>1, <2>2 DEF Within
    <3>2. QED
      BY <2>2, <3>1 DEF Out
  <2>3. CASE Within /\ Done
    <3>1. /\ Within' /\ Pos' = Pos + 1 /\ (Second' <=> Second) /\ Batch' = Batch
      BY <1>0, <2>1, <2>3, Move
    <3>2. Table
      BY <1>0, <2>3, TableHolds
    <3>3. Pos \in {0, 10, 40, 50, 60, 70, 100, 102, 104, 105, 120}
      BY <2>1, <3>2 DEF Table, Row, Doing
    <3>4. QED
      BY <2>1, <2>3, <3>1, <3>3, SameSpots DEF Same, On
  <2>4. CASE Within /\ UNCHANGED todo
    <3>1. Within' /\ Pos' = Pos /\ (Second' <=> Second) /\ Batch' = Batch
      BY <2>1, <2>4, Stay
    <3>2. QED
      BY <2>1, <2>4, <3>1, SameSpots DEF Same, On
  <2>5. QED
    BY <2>1, <2>2, <2>3, <2>4
<1>4. QED
  BY <1>1, <1>2, <1>3 DEF Control

LEMMA BatchedMoves ==
    ASSUME Shape, Batched
    PROVE  Same /\ Pos' = Pos + 1 /\ Pos \in Nat
BY BatchedFacts, Move, TableHolds DEF Same, Shape

\* What is kept if nothing but the place changes.
LEMMA ContentsControl ==
    ASSUME Shape, Counts, WindowInv, Contents, Control, tag # "done"
    PROVE  Contents'
<1>0. /\ UNCHANGED <<start, deferred, derived, parents, epoch>> /\ Items' = Items
      /\ \A i \in Items : WindowOK(i)
  BY ControlFacts DEF WindowInv
<1>1. CreateInv'
  BY <1>0 DEF Contents, CreateInv, CreateOK, Create
<1>2. CASE Same /\ On
  <2>0. PICK p, q : p = Pos /\ q = Pos'
    OBVIOUS
  <2>1. \A c \in {0, 1} : SlotWindow(c)' => SlotWindow(c)
    BY <1>2, <2>0 DEF Same, On, SlotWindow
  <2>2. \A c \in {0, 1} : DerivedWindow(c) => DerivedWindow(c)'
    BY <1>2, <2>0 DEF Same, On, DerivedWindow
  <2>3. Pos \in 81..103 => Pos' \in 81..103
    BY <1>2, <2>0 DEF On
  <2>4. /\ \A c, k, h : Parsing(c, k, h)' <=> Parsing(c, k, h)
    BY <1>0 DEF Parsing, InParse
  <2>5. \A d, c : Fits(d, c)' <=> Fits(d, c)
    BY <1>0, <1>2 DEF Fits, Same
  <2>6. \A x : Near(x)' <=> Near(x)
    BY <1>0, <1>2 DEF Near, Same
  <2>7. SlotInv'
    BY <1>0, <1>2, <2>1, <2>4, <2>5 DEF SlotInv, SlotOK, Contents, Same
  <2>8. DerivedInv'
    BY <1>0, <1>2, <2>2, <2>5 DEF DerivedInv, Contents, Same
  <2>9. ParentInv'
    BY <1>0, <1>2, <2>3, <2>6 DEF ParentInv, Contents, Same
  <2>10. ParseInv'
    BY <1>0, <1>2, <2>6 DEF ParseInv, ParseOK, InParse, OutParse, Contents, Same
  <2>11. QED
    BY <1>1, <2>7, <2>8, <2>9, <2>10 DEF Contents
<1>3. CASE Out
  <2>1. PICK p, q : /\ p = Pos /\ q = Pos' /\ (Within => p = 131 \/ (p = 123 /\ ~Second))
                    /\ (Within' => q = 0)
    BY <1>3 DEF Out
  <2>2. \A c \in {0, 1} : ~SlotWindow(c)' /\ ~DerivedWindow(c)
    BY <2>1 DEF SlotWindow, DerivedWindow
  <2>3. \A i \in Items : ~InParse(i) /\ ~OutParse(i)
    BY <1>0, <2>1 DEF WindowOK, ParseWindow
  <2>4. \A c \in {0, 1} : derived[c] = <<>>
    <3>1. SUFFICES ASSUME NEW c \in {0, 1}, derived[c] # <<>> PROVE FALSE
      OBVIOUS
    <3>2. derived[c] \in Seq(DerivedPipes)
      BY DEF Shape, MainTypes
    <3>3. 1 \in DOMAIN derived[c]
      BY <3>1, <3>2
    <3>4. QED
      BY <2>2, <3>3 DEF Contents, DerivedInv
  <2>5. parents = {}
    BY <2>1 DEF Contents, ParentInv
  <2>6. SlotInv' /\ ParentInv' /\ DerivedInv'
    BY <1>0, <2>2, <2>4, <2>5 DEF SlotInv, ParentInv, DerivedInv
  <2>7. ParseInv'
    BY <1>0, <2>3 DEF ParseInv, ParseOK, InParse, OutParse
  <2>8. QED
    BY <1>1, <2>6, <2>7 DEF Contents
<1>4. QED
  BY <1>2, <1>3, ControlMoves

\* The indices that are reported.
LEMMA ItemIndex ==
    ASSUME Shape, Within, NEW c \in {0, 1}, Place(order) = c, NEW d \in InfoSet, NEW b, NEW i, Made(i, d, b)
    PROVE  /\ i.index + 1 = Spot(c, d.index + 1) /\ i.index \in Nat /\ Create(i) /\ i.tag = tag /\ i.ctx = b
           /\ i.ep = d.ep /\ i.from = d.from /\ i.h = d.h
<1>1. /\ Offset(order) = (2 * Batch + c) * PerContext /\ Offset(order) \in Nat
  BY ChunkPlace DEF Shape, Ctl
<1>2. PICK off \in Nat, s \in Nat, x \in Nat : off = Offset(order) /\ s = start[tag] /\ x = d.index
  BY <1>1 DEF Shape, MainTypes, Within, InfoSet
<1>3. PICK base \in Handles, ub \in BOOLEAN : i = CreateItem(d, b, off, base, ub)
  BY <1>2 DEF Made
<1>4. i.index = x + off + s
  BY <1>2, <1>3, CreateIndexed
<1>5. Spot(c, d.index + 1) = s + off + (x + 1)
  BY <1>1, <1>2 DEF Spot
<1>6. /\ i.kind = "create" /\ i.tag = tag /\ i.ctx = b /\ i.ep = d.ep /\ i.from = d.from /\ i.h = d.h
  BY <1>3, CreateFields
<1>7. QED
  BY <1>4, <1>5, <1>6 DEF Create

LEMMA SpotOrder ==
    ASSUME Shape, Within, NEW c \in {0, 1}, NEW k \in Nat
    PROVE  Spot(c, k) \in Nat /\ Spot(0, k) <= Spot(c, k)
<1>1. PICK B \in Nat, P \in Nat, s \in Nat : B = Batch /\ P = PerContext /\ s = start[tag]
  BY PhaseFacts, ReplayerAssumption DEF Shape, MainTypes, Within
<1>2. /\ B * P \in Nat /\ (2 * B + 1) * P = 2 * (B * P) + P /\ (2 * B + 0) * P = 2 * (B * P)
  BY <1>1
<1>3. PICK x \in Nat : x = B * P /\ (2 * B + 1) * P = 2 * x + P /\ (2 * B + 0) * P = 2 * x
  BY <1>2
<1>4. Spot(0, k) = s + 2 * x + k /\ Spot(1, k) = s + (2 * x + P) + k
  BY <1>1, <1>3 DEF Spot
<1>5. QED
  BY <1>1, <1>3, <1>4

LEMMA ContentsNew ==
    ASSUME Shape, WindowInv, Contents, Batched, ~Parse, NEW i \in Items', i \notin Items
    PROVE  ParseOK(i)' /\ CreateOK(i)'
<1>0. /\ Same /\ MainTypes /\ Ctl /\ Within /\ tag \in Tag /\ tag # "done" /\ tag' = tag
      /\ \A j \in Items : WindowOK(j)
  BY BatchedMoves DEF Shape, Same, Within, Tag, WindowInv
<1>1. CASE EnqueueModules \/ EnqueueParentModules
  <2>1. PICK m \in Module : i = ModuleItem(m)
    BY <1>1, ItemsModules
  <2>2. /\ i.kind = "module"
    BY <2>1, ModuleFields
  <2>3. QED
    BY <2>2 DEF ParseOK, CreateOK, InParse, OutParse, Create
<1>2. CASE EnqueueOutside
  <2>1. PICK n \in DOMAIN derived[Here] :
           i = OutItem(tag, Base[derived[Here][n].h], derived[Here][n].index, PARENT)
    BY <1>2, ItemsOutside
  <2>2. /\ i.kind = "parse" /\ i.index = derived[Here][n].index
    BY <2>1, OutFields
  <2>3. i.outside
    BY <2>1, OutOutside
  <2>4. Here \in {0, 1}
    BY <1>0, <1>2, Where DEF EnqueueOutside
  <2>5. derived[Here][n].index \in Nat
    BY <1>0, <2>1, <2>4 DEF MainTypes, DerivedPipes, Pipes, InfoSet
  <2>6. Spot(Here, i.index + 1) <= Len(List[tag]) \/ Unreadable # {}
    BY <1>0, <2>1, <2>2, <2>4 DEF Contents, DerivedInv, Fits
  <2>7. Spot(0, i.index + 1) \in Nat /\ Spot(Here, i.index + 1) \in Nat
        /\ Spot(0, i.index + 1) <= Spot(Here, i.index + 1)
    BY <1>0, <2>2, <2>4, <2>5, SpotOrder
  <2>8. Len(List[tag]) \in Nat
    BY <1>0, ReplayerAssumption
  <2>9. Near(i.index)
    BY <2>6, <2>7, <2>8 DEF Near
  <2>10. Near(i.index)'
    BY <1>0, <2>9 DEF Near, Same
  <2>11. QED
    BY <2>2, <2>3, <2>10 DEF ParseOK, CreateOK, InParse, OutParse, Create
<1>3. ASSUME NEW c \in {0, 1}, Place(order) = c, NEW d \in Pipes, NEW b, Made(i, d, b), epoch' = epoch,
             Spot(c, d.index + 1) <= Len(List[tag]) \/ Unreadable # {},
             d.ep # epoch[b] => d.from \in Unreadable
      PROVE  ParseOK(i)' /\ CreateOK(i)'
  <2>0. d \in InfoSet
    BY DEF Pipes
  <2>1. /\ i.index + 1 = Spot(c, d.index + 1) /\ i.index \in Nat /\ Create(i) /\ i.tag = tag /\ i.ctx = b
        /\ i.ep = d.ep /\ i.from = d.from
    BY <1>0, <1>3, <2>0, ItemIndex
  <2>2. Len(List[tag]) \in Nat
    BY <1>0, ReplayerAssumption
  <2>3. i.index < Len(List[i.tag]) \/ Unreadable # {}
    BY <1>3, <2>1, <2>2
  <2>4. QED
    BY <1>3, <2>1, <2>3 DEF ParseOK, CreateOK, InParse, OutParse, Create
<1>4. CASE EnqueuePrimary
  <2>1. PICK n \in DOMAIN deferred[tag][Here] :
           deferred[tag][Here][n] \in Pipes /\ Made(i, deferred[tag][Here][n], Here)
    BY <1>4, ItemsPrimary
  <2>2. PICK d \in Pipes : d = deferred[tag][Here][n]
    BY <2>1
  <2>3. Here \in {0, 1} /\ Pos = 10 * Here + 61 /\ (Here = 1 => Second) /\ Place(order) = Here
    BY <1>0, <1>4, Where, HereFacts DEF EnqueuePrimary, InContext
  <2>4. SlotWindow(Here)
    BY <1>0, <2>3 DEF SlotWindow
  <2>5. ~Parsing(Here, n, d.from)
    <3>1. \A j \in Items : InParse(j) => j.ctx # Here
      BY <1>0, <2>3 DEF WindowOK, ParseWindow
    <3>2. QED
      BY <3>1 DEF Parsing
  <2>6. d.h # NoHash
    BY <2>2, ReplayerAssumption DEF Pipes
  <2>7. Fits(d, Here) \/ d.from \in Unreadable
    BY <2>1, <2>2, <2>3, <2>4, <2>5, <2>6 DEF Contents, SlotInv, SlotOK
  <2>8. epoch' = epoch
    BY <1>4 DEF EnqueuePrimary
  <2>9. /\ Spot(Here, d.index + 1) <= Len(List[tag]) \/ Unreadable # {}
        /\ d.ep # epoch[Here] => d.from \in Unreadable
    BY <2>7 DEF Fits
  <2>10. QED
    BY <1>3, <2>1, <2>2, <2>3, <2>8, <2>9
<1>5. CASE EnqueueParents
  <2>1. PICK p \in parents : Made(i, p, PARENT)
    BY <1>5, ItemsParents
  <2>2. p \in Pipes /\ p.ep = epoch[PARENT] /\ Near(p.index)
    BY <1>0, <2>1 DEF MainTypes, Contents, ParentInv
  <2>3. Pos = 103
    BY <1>0, <1>5, Where DEF EnqueueParents
  <2>4. Place(order) = 0
    <3>1. Phase \in Phases /\ Place(order) = Phase % 2 /\ 10 * Phase <= Pos /\ Pos < 10 * Phase + 10
      BY <1>0, PhaseFacts, TableHolds
    <3>2. Phase = 10
      BY <2>3, <3>1 DEF Phases
    <3>3. QED
      BY <3>1, <3>2
  <2>5. epoch' = epoch
    BY <1>5 DEF EnqueueParents
  <2>6. Spot(0, p.index + 1) <= Len(List[tag]) \/ Unreadable # {}
    BY <2>2 DEF Near
  <2>7. QED
    BY <1>3, <2>1, <2>2, <2>4, <2>5, <2>6
<1>6. CASE EnqueueDerived
  <2>1. PICK n \in DOMAIN derived[Here] :
           derived[Here][n] \in DerivedPipes /\ Made(i, derived[Here][n], Here)
    BY <1>6, ItemsDerived
  <2>2. PICK d \in Pipes : d = derived[Here][n]
    BY <2>1 DEF DerivedPipes
  <2>3. Here \in {0, 1} /\ Place(order) = Here
    BY <1>0, <1>6, HereFacts DEF EnqueueDerived, InContext
  <2>4. Fits(d, Here) \/ d.from \in Unreadable
    BY <1>0, <2>1, <2>2, <2>3 DEF Contents, DerivedInv
  <2>5. epoch' = epoch
    BY <1>6 DEF EnqueueDerived
  <2>6. /\ Spot(Here, d.index + 1) <= Len(List[tag]) \/ Unreadable # {}
        /\ d.ep # epoch[Here] => d.from \in Unreadable
    BY <2>4 DEF Fits
  <2>7. QED
    BY <1>3, <2>1, <2>2, <2>3, <2>5, <2>6
<1>7. CASE Prune \/ Reclaim
  <2>1. UNCHANGED <<queue, work, threads>>
    BY <1>7 DEF Prune, Reclaim, workers, options
  <2>2. QED
    BY <2>1, ItemsKept
<1>8. QED
  BY <1>1, <1>2, <1>4, <1>5, <1>6, <1>7 DEF Batched

\* Where the passes are in the batch.
LEMMA BatchedPos ==
    ASSUME Shape
    PROVE  /\ Parse => Here \in {0, 1} /\ Pos = 10 * Here + 1
           /\ Prune => Pos = 20
           /\ EnqueueModules => Here \in {0, 1} /\ Pos = 10 * Here + 41
           /\ EnqueuePrimary => Pos \in {61, 71}
           /\ EnqueueOutside => Pos \in {80, 90}
           /\ EnqueueParentModules => Pos = 101
           /\ EnqueueParents => Pos = 103
           /\ Reclaim => Pos = 121
           /\ EnqueueDerived => Here \in {0, 1} /\ Pos = 8 * Here + 122
<1>1. MainTypes /\ Ctl
  BY DEF Shape
<1>2. CASE EnqueuePrimary
  <2>1. Here \in {0, 1} /\ Pos = 10 * Here + 61
    BY <1>1, <1>2, Where DEF EnqueuePrimary
  <2>2. Pos \in {61, 71}
    BY <2>1
  <2>3. Head(todo).op = "primary"
    BY <1>2 DEF EnqueuePrimary, Doing
  <2>4. QED
    BY <2>2, <2>3 DEF Parse, Prune, EnqueueModules, EnqueueOutside, EnqueueParentModules,
                      EnqueueParents, Reclaim, EnqueueDerived, Doing
<1>3. CASE EnqueueOutside
  <2>1. Here \in {0, 1} /\ Pos = 10 * Here + 80
    BY <1>1, <1>3, Where DEF EnqueueOutside
  <2>2. Pos \in {80, 90}
    BY <2>1
  <2>3. Head(todo).op = "outside"
    BY <1>3 DEF EnqueueOutside, Doing
  <2>4. QED
    BY <2>2, <2>3 DEF Parse, Prune, EnqueueModules, EnqueuePrimary, EnqueueParentModules,
                      EnqueueParents, Reclaim, EnqueueDerived, Doing
<1>4. /\ Parse => Here \in {0, 1} /\ Pos = 10 * Here + 1
      /\ Prune => Pos = 20
      /\ EnqueueModules => Here \in {0, 1} /\ Pos = 10 * Here + 41
  BY <1>1, Where DEF Parse, Prune, EnqueueModules
<1>5. /\ EnqueueParentModules => Pos = 101
      /\ EnqueueParents => Pos = 103
      /\ Reclaim => Pos = 121
      /\ EnqueueDerived => Here \in {0, 1} /\ Pos = 8 * Here + 122
  BY <1>1, Where DEF EnqueueParentModules, EnqueueParents, Reclaim, EnqueueDerived
<1>6. QED
  BY <1>2, <1>3, <1>4, <1>5

\* The passes that leave deferred alone.
LEMMA ContentsRest ==
    ASSUME Shape, WindowInv, Contents, Batched, ~Parse, ~EnqueueModules
    PROVE  Contents'
<1>0. /\ Same /\ MainTypes /\ Ctl /\ Within /\ tag # "done" /\ tag' = tag /\ tag \in Tag
      /\ \A j \in Items : WindowOK(j)
  BY BatchedMoves DEF Shape, Same, Within, Tag, WindowInv
<1>1. PICK p \in Nat : p = Pos /\ Pos' = p + 1
  BY BatchedMoves
<1>2. p \in {20, 61, 71, 80, 90, 101, 103, 121, 122, 130}
  BY <1>1, BatchedPos DEF Batched
<1>3. deferred' = deferred /\ start' = start
  BY BatchedFacts DEF Batched, Prune, EnqueuePrimary, EnqueueOutside, EnqueueParentModules,
         EnqueueParents, Reclaim, EnqueueDerived, Shape
<1>4. /\ \A c \in {0, 1} : epoch'[c] = epoch[c]
      /\ epoch' = epoch \/ (p = 121 /\ \A c \in Ctx : c # PARENT => epoch'[c] = epoch[c])
  <2>1. CASE Reclaim
    <3>1. epoch' = [epoch EXCEPT ![PARENT] = @ + 1] /\ p = 121
      BY <1>1, <2>1, BatchedPos DEF Reclaim
    <3>2. epoch \in [Ctx -> Nat] /\ 0 \in Ctx /\ 1 \in Ctx /\ PARENT # 0 /\ PARENT # 1
      BY DEF Shape, SharedTypes, Ctx, PARENT
    <3>3. QED
      BY <3>1, <3>2
  <2>2. CASE ~Reclaim
    BY <2>2 DEF Batched, Prune, EnqueuePrimary, EnqueueOutside, EnqueueParentModules,
         EnqueueParents, EnqueueDerived
  <2>3. QED
    BY <2>1, <2>2
<1>5. Items \subseteq Items'
  <2>1. CASE Prune \/ Reclaim
    <3>1. UNCHANGED <<queue, work, threads>>
      BY <2>1 DEF Prune, Reclaim, workers, options
    <3>2. QED
      BY <3>1, ItemsKept
  <2>2. QED
    BY <2>1, ItemsPrimary, ItemsOutside, ItemsModules, ItemsParents, ItemsDerived DEF Batched
<1>6. /\ \A c, k, h : Parsing(c, k, h) => Parsing(c, k, h)'
  BY <1>5 DEF Parsing, InParse
<1>7. \A d : \A c \in {0, 1} : Fits(d, c)' <=> Fits(d, c)
  BY <1>0, <1>4 DEF Fits, Same
<1>8. \A x : Near(x)' <=> Near(x)
  BY <1>0 DEF Near, Same
<1>9. SlotInv'
  <2>1. \A c \in {0, 1} : SlotWindow(c)' => SlotWindow(c)
    BY <1>0, <1>1, <1>2 DEF Same, SlotWindow
  <2>2. QED
    BY <1>0, <1>3, <1>6, <1>7, <2>1 DEF SlotInv, SlotOK, Contents
<1>10. DerivedInv'
  <2>1. SUFFICES ASSUME NEW c \in {0, 1}, NEW k \in DOMAIN derived'[c]
                 PROVE  /\ DerivedWindow(c)'
                        /\ Fits(derived[c][k], c)' \/ derived'[c][k].from \in Unreadable
    BY DEF DerivedInv
  <2>2. derived'[c] = derived[c] /\ (EnqueueDerived => Here \in {0, 1} /\ c # Here /\ p = 8 * Here + 122)
    <3>1. CASE EnqueueDerived
      <4>1. Here \in {0, 1} /\ p = 8 * Here + 122
        BY <1>1, <3>1, BatchedPos
      <4>2. derived' = [derived EXCEPT ![Here] = <<>>] /\ derived \in [{0, 1} -> Seq(DerivedPipes)]
        BY <1>0, <3>1 DEF EnqueueDerived, MainTypes
      <4>3. c # Here
        BY <2>1, <4>1, <4>2
      <4>4. QED
        BY <4>1, <4>2, <4>3
    <3>2. CASE ~EnqueueDerived
      BY <3>2 DEF Batched, Prune, EnqueuePrimary, EnqueueOutside, EnqueueParentModules,
         EnqueueParents, Reclaim
    <3>3. QED
      BY <3>1, <3>2
  <2>3. DerivedWindow(c) /\ (Fits(derived[c][k], c) \/ derived[c][k].from \in Unreadable)
    BY <1>0, <2>1, <2>2 DEF Contents, DerivedInv
  <2>4. p # 130 /\ (p = 122 => c = 1)
    <3>1. p \in {122, 130} => EnqueueDerived
      BY <1>1, BatchedPos DEF Batched
    <3>2. QED
      BY <1>1, <2>1, <2>2, <2>3, <3>1 DEF DerivedWindow
  <2>5. DerivedWindow(c)'
    BY <1>0, <1>1, <1>2, <2>3, <2>4 DEF DerivedWindow, Same
  <2>6. QED
    BY <1>7, <2>2, <2>3, <2>5
<1>11. ParentInv'
  <2>1. SUFFICES ASSUME NEW x \in parents'
                 PROVE  Within' /\ Pos' \in 81..103 /\ x.ep = epoch'[PARENT] /\ Near(x.index)'
    BY DEF ParentInv
  <2>2. parents' = parents /\ ~EnqueueParents
    BY <2>1 DEF Batched, Prune, EnqueuePrimary, EnqueueOutside, EnqueueParentModules,
         EnqueueParents, Reclaim, EnqueueDerived
  <2>3. p \in 81..103 /\ x.ep = epoch[PARENT] /\ Near(x.index)
    BY <1>0, <1>1, <2>1, <2>2 DEF Contents, ParentInv
  <2>4. p # 103
    BY <1>1, <2>2, BatchedPos DEF Batched
  <2>5. epoch' = epoch
    BY <1>4, <2>3
  <2>6. QED
    BY <1>0, <1>1, <1>8, <2>3, <2>4, <2>5 DEF Same
<1>12. ASSUME NEW i \in Items PROVE ParseOK(i)' /\ CreateOK(i)'
  <2>1. ParseOK(i) /\ CreateOK(i) /\ WindowOK(i)
    BY <1>0, <1>12 DEF Contents, ParseInv, CreateInv
  <2>2. ParseOK(i)'
    BY <1>0, <1>3, <1>8, <2>1 DEF ParseOK, Same, InParse, OutParse
  <2>3. i.ctx \in Ctx
    BY <1>12, ItemsTyped
  <2>4. Create(i) => epoch'[i.ctx] = epoch[i.ctx]
    BY <1>1, <1>4, <2>1, <2>3 DEF WindowOK
  <2>5. CreateOK(i)'
    BY <2>1, <2>4 DEF CreateOK, Create
  <2>6. QED
    BY <2>2, <2>5
<1>13. ParseInv' /\ CreateInv'
  BY <1>12, ContentsNew DEF ParseInv, CreateInv
<1>14. QED
  BY <1>9, <1>10, <1>11, <1>13 DEF Contents

\* Pass 0.
LEMMA ContentsParse ==
    ASSUME Shape, WindowInv, Contents, Parse
    PROVE  Contents'
<1>0. /\ Same /\ MainTypes /\ Ctl /\ Within /\ tag # "done" /\ tag' = tag /\ tag \in Tag
      /\ \A j \in Items : WindowOK(j)
  BY BatchedMoves DEF Shape, Same, Within, Tag, WindowInv, Batched
<1>1. PICK c \in {0, 1} : c = Here /\ Place(order) = c /\ Pos = 10 * c + 1 /\ (c = 1 => Second)
  BY <1>0, BatchedPos, HereFacts DEF InContext, Parse
<1>2. Pos' = 10 * c + 2
  BY <1>1, BatchedMoves DEF Batched
<1>3. /\ Submit(tag, order) \in Nat /\ Has(tag, order)
      /\ \A n \in 1..Submit(tag, order) : Spot(c, n) \in DOMAIN List[tag]
  BY <1>0, <1>1, ChunkPlace DEF Ctl
<1>4. /\ deferred' = [deferred EXCEPT ![tag][c] = [i \in 1..Submit(tag, order) |-> Resized(deferred[tag][c], i)]]
      /\ epoch' = [epoch EXCEPT ![c] = @ + 1] /\ UNCHANGED <<derived, parents, start>>
  BY <1>1 DEF Parse, options
<1>5. deferred \in [Tag -> [{0, 1} -> Seq(InfoSet)]] /\ epoch \in [Ctx -> Nat] /\ 0 \in Ctx /\ 1 \in Ctx
  BY DEF Shape, MainTypes, SharedTypes, Ctx
<1>6. PICK s : s = [i \in 1..Submit(tag, order) |-> Resized(deferred[tag][c], i)] /\ deferred'[tag][c] = s
  BY <1>0, <1>4, <1>5
<1>7. /\ \A b \in {0, 1} : b # c => deferred'[tag][b] = deferred[tag][b] /\ epoch'[b] = epoch[b]
      /\ DOMAIN s = 1..Submit(tag, order)
      /\ \A b \in Ctx : b # c => epoch'[b] = epoch[b]
  BY <1>0, <1>4, <1>5, <1>6
<1>8. /\ Items \subseteq Items'
      /\ \A i \in Items' : i \in Items \/ \E n \in 1..Submit(tag, order) :
                 i = InItem(tag, HashAt(tag, order, n), n - 1, c)
      /\ \A n \in 1..Submit(tag, order) : ~Known(n) =>
                 InItem(tag, HashAt(tag, order, n), n - 1, c) \in Items'
  BY <1>1, ItemsParse
<1>9. SlotInv'
  <2>1. SUFFICES ASSUME NEW b \in {0, 1}, SlotWindow(b)', NEW k \in DOMAIN deferred'[tag][b]
                 PROVE  SlotOK(deferred[tag][b][k], b, k)'
    BY <1>0 DEF SlotInv
  <2>2. CASE b # c
    <3>1. SlotWindow(b) /\ c = 1
      BY <1>0, <1>1, <1>2, <2>1, <2>2 DEF SlotWindow, Same
    <3>2. deferred'[tag][b] = deferred[tag][b] /\ epoch'[b] = epoch[b]
      BY <1>7, <2>2
    <3>3. SlotOK(deferred[tag][b][k], b, k)
      BY <2>1, <3>1, <3>2 DEF Contents, SlotInv
    <3>4. PICK d : d = deferred[tag][b][k] /\ d = deferred'[tag'][b][k]
      BY <1>0, <3>2
    <3>5. Fits(d, b) => Fits(d, b)'
      BY <1>0, <3>2 DEF Fits, Same
    <3>6. Parsing(b, k, d.from) => Parsing(b, k, d.from)'
      BY <1>8 DEF Parsing, InParse
    <3>7. d.h = NoHash \/ Fits(d, b) \/ d.from \in Unreadable \/ Parsing(b, k, d.from)
      BY <3>3, <3>4 DEF SlotOK
    <3>8. d.h = NoHash \/ Fits(d, b)' \/ d.from \in Unreadable \/ Parsing(b, k, d.from)'
      BY <3>5, <3>6, <3>7
    <3>9. QED
      BY <3>4, <3>8 DEF SlotOK
  <2>3. CASE b = c
    <3>1. PICK d : d = s[k] /\ d = deferred'[tag'][b][k] /\ k \in 1..Submit(tag, order)
      BY <1>0, <1>6, <1>7, <2>1, <2>3
    <3>2. d = Resized(deferred[tag][c], k)
      BY <1>6, <3>1
    <3>3. CASE Known(k) \/ k > Len(deferred[tag][c])
      <4>1. d.h = NoHash
        BY <3>2, <3>3 DEF Resized, NoInfo
      <4>2. QED
        BY <3>1, <4>1 DEF SlotOK
    <3>4. CASE ~(Known(k) \/ k > Len(deferred[tag][c]))
      <4>0. k \in Nat /\ k \in DOMAIN deferred[tag][c]
        <5>1. deferred[tag][c] \in Seq(InfoSet)
          BY <1>0, <1>5
        <5>2. k \in Nat /\ k >= 1 /\ ~(k > Len(deferred[tag][c]))
          BY <1>3, <3>1, <3>4
        <5>3. QED
          BY <5>1, <5>2
      <4>1. d.from = HashAt(tag, order, k)
        <5>1. deferred[tag][c][k] \in InfoSet
          BY <1>0, <1>5, <4>0
        <5>2. d = [deferred[tag][c][k] EXCEPT !.from = HashAt(tag, order, k)]
          BY <3>2, <3>4 DEF Resized
        <5>3. QED
          BY <5>1, <5>2 DEF InfoSet
      <4>2. PICK i \in Items' : i = InItem(tag, HashAt(tag, order, k), k - 1, c)
        BY <1>8, <3>1, <3>4
      <4>3. i.kind = "parse" /\ i.ctx = b /\ i.index = k - 1 /\ i.h = d.from
        BY <2>3, <4>1, <4>2, InFields
      <4>4. ~i.outside
        BY <4>2, InInside
      <4>5. Parsing(b, k, d.from)'
        BY <4>2, <4>3, <4>4 DEF Parsing, InParse
      <4>6. QED
        BY <3>1, <4>5 DEF SlotOK
    <3>5. QED
      BY <3>3, <3>4
  <2>4. QED
    BY <2>2, <2>3
<1>10. DerivedInv'
  <2>1. \A b \in {0, 1} : ~DerivedWindow(b)
    BY <1>1 DEF DerivedWindow
  <2>2. QED
    BY <1>0, <1>4, <2>1 DEF Contents, DerivedInv
<1>11. ParentInv'
  <2>1. parents = {}
    BY <1>0, <1>1 DEF Contents, ParentInv
  <2>2. QED
    BY <1>4, <2>1 DEF ParentInv
<1>12. ASSUME NEW i \in Items PROVE ParseOK(i)' /\ CreateOK(i)'
  <2>1. ParseOK(i) /\ CreateOK(i) /\ WindowOK(i)
    BY <1>0, <1>12 DEF Contents, ParseInv, CreateInv
  <2>2. ~OutParse(i)
    BY <1>1, <2>1 DEF WindowOK
  <2>3. InParse(i) => i.ctx \in {0, 1} /\ i.ctx # c /\ i.tag = tag
    BY <1>1, <2>1 DEF WindowOK, ParseWindow
  <2>4. ParseOK(i)'
    BY <1>0, <1>7, <2>1, <2>2, <2>3 DEF ParseOK, Same, InParse, OutParse
  <2>5. i.ctx \in Ctx
    BY <1>12, ItemsTyped
  <2>6. Create(i) => i.ctx # c
    <3>1. ~FirstWindow(c) /\ ~SecondWindow(c) /\ c # PARENT
      BY <1>1 DEF FirstWindow, SecondWindow, PARENT
    <3>2. QED
      BY <2>1, <3>1 DEF WindowOK
  <2>7. CreateOK(i)'
    BY <1>7, <2>1, <2>5, <2>6 DEF CreateOK, Create
  <2>8. QED
    BY <2>4, <2>7
<1>13. ASSUME NEW i \in Items', i \notin Items PROVE ParseOK(i)' /\ CreateOK(i)'
  <2>1. PICK n \in 1..Submit(tag, order) : i = InItem(tag, HashAt(tag, order, n), n - 1, c)
    BY <1>8, <1>13
  <2>2. i.kind = "parse" /\ i.ctx = c /\ i.index = n - 1 /\ i.tag = tag
    BY <2>1, InFields
  <2>3. ~i.outside
    BY <2>1, InInside
  <2>4. Len(deferred'[tag][c]) = Submit(tag, order)
    BY <1>3, <1>6, <1>7
  <2>5. n \in Nat /\ n >= 1 /\ n <= Submit(tag, order) /\ (n - 1) + 1 = n
    BY <1>3
  <2>6. Spot(c, n) \in 1..Len(List[tag]) /\ Len(List[tag]) \in Nat
    BY <1>0, <1>3, ReplayerAssumption
  <2>7. Spot(c, n)' = Spot(c, n)
    BY <1>0 DEF Same
  <2>8. i.index < Len(deferred'[tag][c]) /\ Spot(c, i.index + 1)' <= Len(List[tag])
    BY <1>3, <2>2, <2>4, <2>5, <2>6, <2>7
  <2>9. QED
    BY <1>0, <2>2, <2>3, <2>8 DEF ParseOK, CreateOK, InParse, OutParse, Create
<1>14. ParseInv' /\ CreateInv'
  BY <1>12, <1>13 DEF ParseInv, CreateInv
<1>15. QED
  BY <1>9, <1>10, <1>11, <1>14 DEF Contents

\* Pass 2.
LEMMA ContentsModules ==
    ASSUME Shape, WindowInv, Contents, EnqueueModules
    PROVE  Contents'
<1>0. /\ Same /\ MainTypes /\ Ctl /\ Within /\ tag # "done" /\ tag' = tag /\ tag \in Tag
      /\ \A j \in Items : WindowOK(j)
  BY BatchedMoves DEF Shape, Same, Within, Tag, WindowInv, Batched
<1>1. PICK c \in {0, 1} : c = Here /\ Pos = 10 * c + 41 /\ (c = 1 => Second)
  BY <1>0, BatchedPos, HereFacts DEF InContext, EnqueueModules
<1>2. Pos' = 10 * c + 42
  BY <1>1, BatchedMoves DEF Batched
<1>3. PICK sorted \in Seq(InfoSet), cut \in Nat, ds \in Seq(DerivedPipes) :
              /\ ToSet(sorted) = ToSet(deferred[tag][c]) /\ cut \in 0..Len(sorted)
              /\ deferred' = [deferred EXCEPT ![tag][c] = SubSeq(sorted, 1, cut)]
              /\ derived' = [derived EXCEPT ![c] = ds]
              /\ \A k \in DOMAIN ds : \E i \in cut + 1..Len(sorted) : ds[k] = sorted[i]
  BY <1>0, <1>1, Split, SMTT(30)
<1>4. epoch' = epoch /\ parents' = parents /\ start' = start
  BY DEF EnqueueModules, options
<1>5. /\ deferred \in [Tag -> [{0, 1} -> Seq(InfoSet)]] /\ derived \in [{0, 1} -> Seq(DerivedPipes)]
  BY DEF Shape, MainTypes
<1>6. /\ deferred'[tag][c] = SubSeq(sorted, 1, cut) /\ derived'[c] = ds
      /\ \A b \in {0, 1} : b # c => deferred'[tag][b] = deferred[tag][b] /\ derived'[b] = derived[b]
  BY <1>0, <1>3, <1>5
<1>7. Items \subseteq Items'
  BY ItemsModules
<1>8. \A d, b : Fits(d, b)' <=> Fits(d, b)
  BY <1>0, <1>4 DEF Fits, Same
<1>9. \A d \in ToSet(sorted) : d.h = NoHash \/ Fits(d, c) \/ d.from \in Unreadable
  <2>1. SUFFICES ASSUME NEW k \in DOMAIN deferred[tag][c]
                 PROVE  \/ deferred[tag][c][k].h = NoHash \/ Fits(deferred[tag][c][k], c)
                        \/ deferred[tag][c][k].from \in Unreadable
    BY <1>3 DEF ToSet
  <2>2. SlotWindow(c)
    BY <1>0, <1>1 DEF SlotWindow
  <2>3. \A j \in Items : InParse(j) => j.ctx # c
    BY <1>0, <1>1 DEF WindowOK, ParseWindow
  <2>4. ~Parsing(c, k, deferred[tag][c][k].from)
    BY <2>3 DEF Parsing
  <2>5. QED
    BY <2>1, <2>2, <2>4 DEF Contents, SlotInv, SlotOK
<1>10. SlotInv'
  <2>1. SUFFICES ASSUME NEW b \in {0, 1}, SlotWindow(b)', NEW k \in DOMAIN deferred'[tag][b]
                 PROVE  SlotOK(deferred[tag][b][k], b, k)'
    BY <1>0 DEF SlotInv
  <2>2. CASE b # c
    <3>1. SlotWindow(b)
      BY <1>0, <1>1, <1>2, <2>1, <2>2 DEF SlotWindow, Same
    <3>2. deferred'[tag][b] = deferred[tag][b]
      BY <1>6, <2>2
    <3>3. SlotOK(deferred[tag][b][k], b, k)
      BY <2>1, <3>1, <3>2 DEF Contents, SlotInv
    <3>4. PICK d : d = deferred[tag][b][k] /\ d = deferred'[tag'][b][k]
      BY <1>0, <3>2
    <3>6. Parsing(b, k, d.from) => Parsing(b, k, d.from)'
      BY <1>7 DEF Parsing, InParse
    <3>7. d.h = NoHash \/ Fits(d, b) \/ d.from \in Unreadable \/ Parsing(b, k, d.from)
      BY <3>3, <3>4 DEF SlotOK
    <3>8. d.h = NoHash \/ Fits(d, b)' \/ d.from \in Unreadable \/ Parsing(b, k, d.from)'
      BY <1>8, <3>6, <3>7
    <3>9. QED
      BY <3>4, <3>8 DEF SlotOK
  <2>3. CASE b = c
    <3>1. PICK d : d = deferred'[tag'][b][k] /\ d \in ToSet(sorted)
      <4>1. /\ DOMAIN SubSeq(sorted, 1, cut) = 1..cut /\ Len(sorted) \in Nat /\ DOMAIN sorted = 1..Len(sorted)
            /\ \A n \in 1..cut : SubSeq(sorted, 1, cut)[n] = sorted[n]
        BY <1>3
      <4>2. k \in 1..cut /\ deferred'[tag'][b][k] = sorted[k]
        BY <1>0, <1>6, <2>1, <2>3, <4>1
      <4>3. k \in DOMAIN sorted
        BY <1>3, <4>1, <4>2
      <4>4. QED
        BY <4>2, <4>3 DEF ToSet
    <3>2. d.h = NoHash \/ Fits(d, b)' \/ d.from \in Unreadable
      BY <1>8, <1>9, <2>3, <3>1
    <3>3. QED
      BY <3>1, <3>2 DEF SlotOK
  <2>4. QED
    BY <2>2, <2>3
<1>11. DerivedInv'
  <2>1. SUFFICES ASSUME NEW b \in {0, 1}, NEW k \in DOMAIN derived'[b]
                 PROVE  /\ DerivedWindow(b)'
                        /\ Fits(derived[b][k], b)' \/ derived'[b][k].from \in Unreadable
    BY DEF DerivedInv
  <2>2. CASE b # c
    <3>1. DerivedWindow(b) /\ (Fits(derived[b][k], b) \/ derived[b][k].from \in Unreadable)
          /\ derived'[b] = derived[b]
      BY <1>0, <1>6, <2>1, <2>2 DEF Contents, DerivedInv
    <3>2. DerivedWindow(b)'
      BY <1>0, <1>1, <1>2, <3>1, <2>2 DEF DerivedWindow, Same
    <3>3. QED
      BY <1>8, <3>1, <3>2
  <2>3. CASE b = c
    <3>1. k \in DOMAIN ds /\ derived'[b][k] = ds[k]
      BY <1>6, <2>1, <2>3
    <3>2. PICK i \in cut + 1..Len(sorted) : ds[k] = sorted[i]
      BY <1>3, <3>1
    <3>3. i \in DOMAIN sorted
      BY <1>3, <3>2
    <3>4. ds[k] \in ToSet(sorted) /\ ds[k] \in DerivedPipes
      BY <1>3, <3>1, <3>2, <3>3 DEF ToSet
    <3>5. ds[k].h # NoHash
      BY <3>4, ReplayerAssumption DEF DerivedPipes, Pipes
    <3>6. PICK d : d = ds[k] /\ d = derived'[b][k] /\ (Fits(d, c) \/ d.from \in Unreadable)
      BY <1>9, <3>1, <3>4, <3>5
    <3>7. Fits(d, b)' \/ d.from \in Unreadable
      BY <1>8, <2>3, <3>6
    <3>8. DerivedWindow(b)'
      BY <1>0, <1>1, <1>2, <2>3 DEF DerivedWindow, Same
    <3>9. QED
      BY <3>6, <3>7, <3>8
  <2>4. QED
    BY <2>2, <2>3
<1>12. ParentInv'
  <2>1. parents = {}
    <3>1. Pos \notin 81..103
      BY <1>1
    <3>2. QED
      BY <1>0, <3>1 DEF Contents, ParentInv
  <2>2. QED
    BY <1>4, <2>1 DEF ParentInv
<1>13. ASSUME NEW i \in Items PROVE ParseOK(i)' /\ CreateOK(i)'
  <2>1. ParseOK(i) /\ CreateOK(i) /\ WindowOK(i)
    BY <1>0, <1>13 DEF Contents, ParseInv, CreateInv
  <2>2. ~OutParse(i)
    BY <1>1, <2>1 DEF WindowOK
  <2>3. InParse(i) => i.ctx \in {0, 1} /\ i.ctx # c /\ i.tag = tag
    BY <1>1, <2>1 DEF WindowOK, ParseWindow
  <2>4. ParseOK(i)'
    BY <1>0, <1>6, <2>1, <2>2, <2>3 DEF ParseOK, Same, InParse, OutParse
  <2>5. CreateOK(i)'
    BY <1>4, <2>1 DEF CreateOK, Create
  <2>6. QED
    BY <2>4, <2>5
<1>14. ParseInv' /\ CreateInv'
  <2>1. Batched /\ ~Parse
    BY <1>1, BatchedPos DEF Batched
  <2>2. QED
    BY <1>13, <2>1, ContentsNew DEF ParseInv, CreateInv
<1>15. QED
  BY <1>10, <1>11, <1>12, <1>14 DEF Contents


LEMMA ContentsWorker ==
    ASSUME Shape, WindowInv, Contents, NEW w \in Thread, Worker(w), tag # "done"
    PROVE  Contents'
<1>0. /\ UNCHANGED <<tag, order, todo, start, derived, epoch>> /\ Items' \subseteq Items
      /\ \A j \in Items : WindowOK(j)
  BY WorkerFacts, ItemsWorker DEF WindowInv
<1>1. /\ (Within' <=> Within) /\ Pos' = Pos /\ (Second' <=> Second) /\ \A c, k : Spot(c, k)' = Spot(c, k)
  BY <1>0, Stay
<1>2. /\ \A d, c : Fits(d, c)' <=> Fits(d, c)
      /\ \A x : Near(x)' <=> Near(x)
      /\ \A c : SlotWindow(c)' <=> SlotWindow(c)
      /\ \A c : DerivedWindow(c)' <=> DerivedWindow(c)
  BY <1>0, <1>1 DEF Fits, Near, SlotWindow, DerivedWindow
<1>3. DerivedInv' /\ CreateInv'
  BY <1>0, <1>2 DEF Contents, DerivedInv, CreateInv, CreateOK, Create
<1>4. ASSUME \A i \in Items : InParse(i) => Len(deferred'[i.tag][i.ctx]) = Len(deferred[i.tag][i.ctx])
      PROVE  ParseInv'
  BY <1>0, <1>1, <1>2, <1>4 DEF Contents, ParseInv, ParseOK, InParse, OutParse
<1>5. CASE ~ParsePipeline(w)
  <2>1. deferred' = deferred /\ parents' = parents
    BY <1>5 DEF Worker, BootWorker, Take, MakeModule, CreatePipeline, Quit, main
  <2>2. \A i \in Items : InParse(i) => i \in Items'
    BY <1>5, ItemsWorker DEF InParse, MakeModule, CreatePipeline
  <2>3. \A c, k, h : Parsing(c, k, h) => Parsing(c, k, h)'
    BY <2>2 DEF Parsing, InParse
  <2>4. SlotInv'
    BY <1>0, <1>2, <2>1, <2>3 DEF Contents, SlotInv, SlotOK
  <2>5. ParentInv'
    BY <1>0, <1>1, <1>2, <2>1 DEF Contents, ParentInv
  <2>6. QED
    BY <1>3, <1>4, <2>1, <2>4, <2>5 DEF Contents
<1>6. CASE ParsePipeline(w)
  <2>1. PICK i \in Items : /\ i = work[w] /\ i.kind = "parse" /\ i.h \in Hash
                           /\ Items \subseteq Items' \cup {i}
    BY <1>6, ItemsWorker, WorkOf DEF ParsePipeline, BootWorker, Quit, Take, Shape, Idle, Boot, BlankItem
  <2>2. WindowOK(i) /\ ParseOK(i) /\ i.tag \in Tag /\ i.ctx \in Ctx /\ i.index \in Nat
    BY <1>0, <2>1, ItemsTyped DEF Contents, ParseInv
  <2>3. CASE i.h \in Unreadable
    <3>1. deferred' = deferred /\ parents' = parents
      BY <1>6, <2>1, <2>3 DEF ParsePipeline
    <3>2. \A c, k, h : Parsing(c, k, h) => Parsing(c, k, h)' \/ h \in Unreadable
      BY <2>1, <2>3 DEF Parsing, InParse
    <3>3. SlotInv'
      BY <1>0, <1>2, <3>1, <3>2 DEF Contents, SlotInv, SlotOK
    <3>4. ParentInv'
      BY <1>0, <1>1, <1>2, <3>1 DEF Contents, ParentInv
    <3>5. QED
      BY <1>3, <1>4, <3>1, <3>3, <3>4 DEF Contents
  <2>4. CASE i.h \notin Unreadable /\ i.outside
    <3>1. OutParse(i) /\ ~InParse(i)
      BY <2>1, <2>4 DEF OutParse, InParse
    <3>2. PICK info : info = Info(i.h, i.index, epoch[i.ctx])
      OBVIOUS
    <3>3. deferred' = deferred /\ parents' \subseteq parents \cup {info}
      BY <1>6, <2>1, <2>4, <3>2 DEF ParsePipeline
    <3>4. \A c, k, h : Parsing(c, k, h) => Parsing(c, k, h)'
      BY <2>1, <3>1 DEF Parsing, InParse
    <3>5. SlotInv'
      BY <1>0, <1>2, <3>3, <3>4 DEF Contents, SlotInv, SlotOK
    <3>6. Within /\ Pos \in 81..103 /\ info.ep = epoch[PARENT] /\ Near(info.index)
      BY <2>2, <3>1, <3>2 DEF WindowOK, ParseOK, Info
    <3>7. ParentInv'
      BY <1>0, <1>1, <1>2, <3>3, <3>6 DEF Contents, ParentInv
    <3>8. QED
      BY <1>3, <1>4, <3>3, <3>5, <3>7 DEF Contents
  <2>5. CASE i.h \notin Unreadable /\ ~i.outside
    <3>1. InParse(i) /\ i.ctx \in {0, 1} /\ i.tag = tag /\ Spot(i.ctx, i.index + 1) <= Len(List[tag])
      BY <2>1, <2>2, <2>5 DEF InParse, WindowOK, ParseOK
    <3>2. PICK slot : slot = IF i.h \in Malformed THEN [NoInfo EXCEPT !.from = i.h]
                             ELSE Info(i.h, i.index, epoch[i.ctx])
      OBVIOUS
    <3>3. deferred' = [deferred EXCEPT ![i.tag][i.ctx][i.index + 1] = slot] /\ parents' = parents
      BY <1>6, <2>1, <2>5, <3>2 DEF ParsePipeline
    <3>4. /\ \A u \in Tag, b \in {0, 1} : DOMAIN deferred'[u][b] = DOMAIN deferred[u][b]
          /\ \A u \in Tag, b \in {0, 1} : \A j \in DOMAIN deferred[u][b] :
                deferred'[u][b][j] = IF u = i.tag /\ b = i.ctx /\ j = i.index + 1 THEN slot
                                     ELSE deferred[u][b][j]
      <4>1. PICK t \in Tag, c \in {0, 1}, k \in Nat : t = i.tag /\ c = i.ctx /\ k = i.index + 1
        BY <2>2, <3>1
      <4>2. deferred' = [deferred EXCEPT ![t][c][k] = slot]
        BY <3>3, <4>1
      <4>3. /\ \A u \in Tag, b \in {0, 1} : DOMAIN deferred'[u][b] = DOMAIN deferred[u][b]
            /\ \A u \in Tag, b \in {0, 1} : \A j \in DOMAIN deferred[u][b] :
                  deferred'[u][b][j] = IF u = t /\ b = c /\ j = k THEN slot ELSE deferred[u][b][j]
        BY <4>2 DEF Shape, MainTypes
      <4>4. QED
        BY <4>1, <4>3
    <3>5. slot.h = NoHash \/ Fits(slot, i.ctx)
      BY <3>1, <3>2 DEF NoInfo, Info, Fits
    <3>6. SlotInv'
      <4>1. SUFFICES ASSUME NEW b \in {0, 1}, SlotWindow(b)', NEW k \in DOMAIN deferred'[tag][b]
                     PROVE  SlotOK(deferred[tag][b][k], b, k)'
        BY <1>0 DEF SlotInv
      <4>2. SlotWindow(b) /\ tag \in Tag /\ k \in DOMAIN deferred[tag][b]
        BY <1>2, <3>1, <3>4, <2>2, <4>1
      <4>3. CASE b = i.ctx /\ k = i.index + 1
        <5>1. PICK d : d = deferred'[tag'][b][k] /\ d = slot
          BY <1>0, <3>1, <3>4, <4>2, <4>3
        <5>2. QED
          BY <1>2, <3>5, <4>3, <5>1 DEF SlotOK
      <4>4. CASE ~(b = i.ctx /\ k = i.index + 1)
        <5>1. PICK d : d = deferred'[tag'][b][k] /\ d = deferred[tag][b][k]
          BY <1>0, <3>4, <4>2, <4>4
        <5>2. d.h = NoHash \/ Fits(d, b) \/ d.from \in Unreadable \/ Parsing(b, k, d.from)
          BY <4>2, <5>1 DEF Contents, SlotInv, SlotOK
        <5>3. ASSUME Parsing(b, k, d.from) PROVE Parsing(b, k, d.from)'
          <6>1. PICK j \in Items : InParse(j) /\ j.ctx = b /\ j.index = k - 1 /\ j.h = d.from
            BY <5>3 DEF Parsing
          <6>2. k \in Nat
            <7>1. deferred[tag][b] \in Seq(InfoSet)
              BY <4>2 DEF Shape, MainTypes
            <7>2. QED
              BY <4>2, <7>1
          <6>3. j # i
            BY <2>2, <4>4, <6>1, <6>2
          <6>4. j \in Items'
            BY <2>1, <6>3
          <6>5. QED
            BY <6>1, <6>4 DEF Parsing, InParse
        <5>4. QED
          BY <1>2, <5>1, <5>2, <5>3 DEF SlotOK
      <4>5. QED
        BY <4>3, <4>4
    <3>7. ParentInv'
      BY <1>0, <1>1, <1>2, <3>3 DEF Contents, ParentInv
    <3>8. ParseInv'
      <4>1. ASSUME NEW j \in Items, InParse(j)
            PROVE  Len(deferred'[j.tag][j.ctx]) = Len(deferred[j.tag][j.ctx])
        <5>1. j.tag \in Tag /\ j.ctx \in {0, 1}
          BY <1>0, <4>1, ItemsTyped DEF WindowOK
        <5>2. /\ deferred[j.tag][j.ctx] \in Seq(InfoSet) /\ deferred'[j.tag][j.ctx] \in Seq(InfoSet)
          <6>1. MainTypes /\ MainTypes'
            BY ShapeWorker DEF Shape
          <6>2. /\ deferred \in [Tag -> [{0, 1} -> Seq(InfoSet)]]
                /\ deferred' \in [Tag -> [{0, 1} -> Seq(InfoSet)]]
            BY <6>1 DEF MainTypes
          <6>3. QED
            BY <5>1, <6>2
        <5>3. DOMAIN deferred'[j.tag][j.ctx] = DOMAIN deferred[j.tag][j.ctx]
          BY <3>4, <5>1
        <5>4. QED
          BY <5>2, <5>3
      <4>2. QED
        BY <1>4, <4>1
    <3>9. QED
      BY <1>3, <3>6, <3>7, <3>8 DEF Contents
  <2>6. QED
    BY <2>3, <2>4, <2>5
<1>7. QED
  BY <1>5, <1>6

LEMMA ContentsDie ==
    ASSUME Shape, Contents, NEW w \in Thread, Crash(w) \/ Timeout(w)
    PROVE  Contents'
<1>1. CASE Over /\ Items' \subseteq Items
  <2>1. tag' = "done" /\ ~Within' /\ UNCHANGED <<deferred, epoch>>
    BY <1>1 DEF Over, Within, Tag
  <2>2. QED
    BY <1>1, <2>1 DEF Contents, SlotInv, SlotWindow, DerivedInv, ParentInv, ParseInv, ParseOK, InParse,
                      OutParse, CreateInv, CreateOK, Create
<1>2. CASE Restart(at[w], masked \cup blame[w]) /\ Items' = {}
  <2>1. /\ order' = -1 /\ derived' = [c \in {0, 1} |-> <<>>] /\ parents' = {}
    BY <1>2 DEF Restart
  <2>2. ~Within' /\ \A c \in {0, 1} : DOMAIN derived'[c] = {}
    BY <2>1 DEF Within
  <2>3. QED
    BY <1>2, <2>1, <2>2 DEF Contents, SlotInv, SlotWindow, DerivedInv, ParentInv, ParseInv, CreateInv
<1>3. QED
  BY <1>1, <1>2, ItemsDie

LEMMA ContentsHold == Spec => []Contents
<1>1. Init => Contents
  <2>1. SUFFICES ASSUME Init PROVE Contents
    OBVIOUS
  <2>2. Items = {}
    BY <2>1, NoItem DEF Init, Items, Pending, ToSet, Real
  <2>3. ~Within /\ parents = {} /\ \A c \in {0, 1} : DOMAIN derived[c] = {}
    BY <2>1 DEF Init, Within
  <2>4. QED
    BY <2>2, <2>3 DEF Contents, SlotInv, SlotWindow, DerivedInv, ParentInv, ParseInv, CreateInv
<1>2. Shape /\ Counts /\ WindowInv /\ Contents /\ [Next]_vars => Contents'
  <2>1. SUFFICES ASSUME Shape, Counts, WindowInv, Contents, [Next]_vars PROVE Contents'
    OBVIOUS
  <2>2. CASE UNCHANGED vars
    <3>1. Items' = Items /\ UNCHANGED <<tag, order, todo, start, deferred, derived, parents, epoch>>
      BY <2>2, ItemsKept DEF vars
    <3>2. /\ (Within' <=> Within) /\ Pos' = Pos /\ (Second' <=> Second) /\ \A c, k : Spot(c, k)' = Spot(c, k)
      BY <3>1, Stay
    <3>3. /\ \A d, c : Fits(d, c)' <=> Fits(d, c)
          /\ \A x : Near(x)' <=> Near(x)
          /\ \A c : SlotWindow(c)' <=> SlotWindow(c)
          /\ \A c : DerivedWindow(c)' <=> DerivedWindow(c)
      BY <3>1, <3>2 DEF Fits, Near, SlotWindow, DerivedWindow
    <3>4. \A c, k, h : Parsing(c, k, h) => Parsing(c, k, h)'
      BY <3>1 DEF Parsing, InParse
    <3>5. SlotInv'
      BY <2>1, <3>1, <3>3, <3>4 DEF Contents, SlotInv, SlotOK
    <3>6. DerivedInv' /\ CreateInv'
      BY <2>1, <3>1, <3>3 DEF Contents, DerivedInv, CreateInv, CreateOK, Create
    <3>7. ParentInv'
      BY <2>1, <3>1, <3>2, <3>3 DEF Contents, ParentInv
    <3>8. ParseInv'
      BY <2>1, <3>1, <3>2, <3>3 DEF Contents, ParseInv, ParseOK, InParse, OutParse
    <3>9. QED
      BY <3>5, <3>6, <3>7, <3>8 DEF Contents
  <2>3. CASE Next
    <3>1. tag # "done"
      BY <2>1, <2>3, Ended DEF Counts
    <3>2. CASE Main
      BY <2>1, <3>1, <3>2, MainSplit, ContentsControl, ContentsParse, ContentsModules, ContentsRest
    <3>3. QED
      BY <2>1, <2>3, <3>1, <3>2, ContentsWorker, ContentsDie DEF Next
  <2>4. QED
    BY <2>1, <2>2, <2>3
<1>3. QED
  BY <1>1, <1>2, ShapeHolds, CountsHold, WindowHolds, PTL DEF Spec
-----------------------------------------------------------------------------
(***************************************************************************)
(* Shader modules: what has been enqueued is in the cache, lost or with an *)
(* item, and one item at most; what the infos of a chunk name has been     *)
(* enqueued; a module of a pipeline is destroyed only under a derived      *)
(* pipeline of context 1, in a batch that has no chunk for it.             *)
(***************************************************************************)
Making(i) == i.kind = "module"
Named(d, c) == d.ep = epoch[c] => ToSet(Stages[d.h]) \subseteq enqueued

OneEach ==
    /\ \A k, l \in DOMAIN queue : Making(queue[k]) /\ Making(queue[l]) /\ queue[k].m = queue[l].m => k = l
    /\ \A k \in DOMAIN queue, w \in Thread : Making(queue[k]) /\ Making(work[w]) => queue[k].m # work[w].m
    /\ \A v, w \in Thread : Making(work[v]) /\ Making(work[w]) /\ work[v].m = work[w].m => v = w
CacheInv ==
    /\ IsInjective(cache) /\ ToSet(cache) \subseteq enqueued
    /\ \A w \in Thread : seen[w] \subseteq ToSet(cache)
    /\ \A i \in Items : Making(i) => i.m \in enqueued \ ToSet(cache)
    /\ tag # "done" => \A m \in enqueued : m \in ToSet(cache) \cup Lost \/ \E i \in Items : Making(i) /\ i.m = m

NamedWindow(c) == Within /\ IF c = 0 THEN Pos \in 42..61 ELSE Second /\ Pos \in 52..71
NamedInv == tag # "done" =>
    /\ \A c \in {0, 1} : NamedWindow(c) => \A k \in DOMAIN deferred[tag][c] :
          deferred[tag][c][k].h # NoHash => Named(deferred[tag][c][k], c)
    /\ \A c \in {0, 1} : \A k \in DOMAIN derived[c] : Named(derived[c][k], c)
    /\ Pos \in 102..103 => \A p \in parents : Named(p, PARENT)

Hit(i) == \E x \in i.mods : gen[x[1]] # x[2]
FoundOK(i) ==
    Create(i) => /\ i.missing \subseteq Lost
                 /\ Hit(i) => /\ i.ctx = 1 /\ Derived(i.h)
                              /\ tag # "done" => Within /\ ~Second /\ Pos \in 21..105
FoundInv == \A i \in Items : FoundOK(i)

Modules == OneEach /\ CacheInv /\ NamedInv /\ FoundInv

\* There is no item for a module outside of its window.
Unmade == OneEach /\ \A i \in Items : ~Making(i)

LEMMA NoMaking == WindowInv /\ Within /\ Pos \notin 42..60 /\ Pos # 102 => Unmade
<1>1. SUFFICES ASSUME WindowInv, Within, Pos \notin 42..60, Pos # 102 PROVE Unmade
  OBVIOUS
<1>2. \A i \in Items : ~Making(i)
  BY <1>1 DEF WindowInv, WindowOK, Making, Within, Tag
<1>3. /\ \A k \in DOMAIN queue : ~Making(queue[k])
      /\ \A w \in Thread : ~Making(work[w])
  BY <1>2 DEF Items, Pending, ToSet, Making, Real
<1>4. QED
  BY <1>2, <1>3 DEF OneEach, Unmade

LEMMA NoMakingNext == WindowInv' /\ Within' /\ Pos' \notin 42..60 /\ Pos' # 102 => Unmade'
<1>1. (WindowInv /\ Within /\ Pos \notin 42..60 /\ Pos # 102 => Unmade)'
  BY NoMaking, PTL
<1>2. QED
  BY <1>1

\* The pipelines that are enqueued stay what they were unless modules are destroyed.
LEMMA FoundKept ==
    ASSUME Shape, Shape', WindowInv', Main, tag # "done", gen' = gen, NEW i \in Items', FoundOK(i)
    PROVE  FoundOK(i)'
<1>1. SUFFICES ASSUME Create(i), Hit(i), tag' # "done" PROVE Within' /\ ~Second' /\ Pos' \in 21..105
  BY DEF FoundOK, Create, Hit, Derived
<1>2. i.ctx = 1 /\ Derived(i.h) /\ Within /\ ~Second /\ Pos \in 21..105
  BY <1>1 DEF FoundOK
<1>3. Create(i)' /\ i.ctx # PARENT /\ WindowOK(i)'
  BY <1>1, <1>2 DEF WindowInv, Create, PARENT
<1>4. FirstWindow(1)' \/ SecondWindow(1)'
  BY <1>2, <1>3 DEF WindowOK
<1>5. Same /\ (On \/ Pos' = Pos + 1)
  <2>1. CASE Control
    BY <1>2, <2>1, ControlMoves DEF Out
  <2>2. CASE Batched
    BY <2>2, BatchedMoves
  <2>3. QED
    BY <2>1, <2>2, MainSplit
<1>6. PICK p \in 21..105 : p = Pos
  BY <1>2
<1>7. Pos' \in 21..130 /\ (p = 105 => Pos' \in {105, 106}) /\ (p < 105 => Pos' \in 21..105)
  BY <1>2, <1>5, <1>6 DEF On
<1>8. ~Second' /\ Within'
  BY <1>2, <1>5 DEF Same
<1>9. QED
  BY <1>4, <1>6, <1>7, <1>8 DEF FirstWindow, SecondWindow

LEMMA ModulesControl ==
    ASSUME Shape, Shape', WindowInv', Modules, Control, tag # "done"
    PROVE  Modules'
<1>1. /\ UNCHANGED <<threads, start, deferred, derived, parents, enqueued, queue, cache>>
      /\ UNCHANGED <<epoch, gen, work, seen>> /\ Items' = Items
  BY ControlFacts
<1>2. OneEach'
  BY <1>1 DEF Modules, OneEach, Making, Thread
<1>3. CacheInv'
  BY <1>1 DEF Modules, CacheInv, Making, Thread
<1>4. FoundInv'
  BY <1>1, FoundKept, MainSplit DEF Modules, FoundInv
<1>5. \A d, c : Named(d, c)' <=> Named(d, c)
  BY <1>1 DEF Named
<1>6. NamedInv'
  <2>1. CASE Same /\ On
    <3>1. PICK p, q : p = Pos /\ q = Pos'
      OBVIOUS
    <3>2. \A c \in {0, 1} : NamedWindow(c)' => NamedWindow(c)
      BY <2>1, <3>1 DEF Same, On, NamedWindow
    <3>3. Pos' \in 102..103 => Pos \in 102..103
      BY <2>1, <3>1 DEF On
    <3>4. QED
      BY <1>1, <1>5, <2>1, <3>2, <3>3 DEF Modules, NamedInv, Same
  <2>2. CASE Out
    <3>1. Pos' \in {0, 140}
      BY <2>2 DEF Out, Pos
    <3>2. \A c \in {0, 1} : ~NamedWindow(c)'
      BY <3>1 DEF NamedWindow
    <3>3. Pos' \notin 102..103
      BY <3>1
    <3>4. QED
      BY <1>1, <1>5, <3>2, <3>3 DEF Modules, NamedInv
  <2>3. QED
    BY <2>1, <2>2, ControlMoves
<1>7. QED
  BY <1>2, <1>3, <1>4, <1>6 DEF Modules

LEMMA OneEachWorker ==
    ASSUME Shape, OneEach, NEW w \in Thread, Worker(w)
    PROVE  OneEach'
<1>0. Thread' = Thread /\ w \in DOMAIN work /\ DOMAIN work = Thread /\ queue \in Seq(Jobs)
  BY WorkerFacts DEF Thread, Shape, WorkTypes
<1>1. ASSUME queue' = queue, NEW x, work' = [work EXCEPT ![w] = x], x.kind # "module"
      PROVE  OneEach'
  <2>1. work'[w] = x /\ \A v \in Thread : v # w => work'[v] = work[v]
    BY <1>0, <1>1
  <2>2. \A v \in Thread : Making(work'[v]) => v # w /\ work'[v] = work[v]
    BY <1>1, <2>1 DEF Making
  <2>3. QED
    BY <1>0, <1>1, <2>2 DEF OneEach, Making
<1>2. CASE UNCHANGED queue /\ \E x \in {Idle, Gone} : work' = [work EXCEPT ![w] = x]
  BY <1>1, <1>2, NoItem
<1>3. CASE queue # <<>> /\ queue' = Tail(queue) /\ work' = [work EXCEPT ![w] = Head(queue)]
  <2>1. work'[w] = Head(queue) /\ \A v \in Thread : v # w => work'[v] = work[v]
    BY <1>0, <1>3
  <2>2. PICK n \in Nat : n = Len(queue) /\ n >= 1
    BY <1>0, <1>3
  <2>3. /\ DOMAIN queue = 1..n /\ DOMAIN queue' = 1..n - 1 /\ work'[w] = queue[1]
        /\ \A k \in 1..n - 1 : queue'[k] = queue[k + 1]
    BY <1>0, <1>3, <2>1, <2>2
  <2>4. 1 \in 1..n /\ \A k \in 1..n - 1 : k + 1 \in 1..n /\ k + 1 # 1
    BY <2>2
  <2>5. ASSUME NEW k \in DOMAIN queue', NEW l \in DOMAIN queue', Making(queue'[k]), Making(queue'[l]),
               queue'[k].m = queue'[l].m
        PROVE  k = l
    <3>1. k + 1 = l + 1
      BY <2>3, <2>4, <2>5 DEF OneEach
    <3>2. QED
      BY <2>3, <2>5, <3>1
  <2>6. ASSUME NEW k \in DOMAIN queue', NEW v \in Thread, Making(queue'[k]), Making(work'[v])
        PROVE  queue'[k].m # work'[v].m
    <3>1. CASE v = w
      BY <2>3, <2>4, <2>6, <3>1 DEF OneEach
    <3>2. CASE v # w
      BY <2>1, <2>3, <2>4, <2>6, <3>2 DEF OneEach
    <3>3. QED
      BY <3>1, <3>2
  <2>7. ASSUME NEW u \in Thread, NEW v \in Thread, Making(work'[u]), Making(work'[v]), work'[u].m = work'[v].m
        PROVE  u = v
    <3>1. CASE u # w /\ v # w
      BY <2>1, <2>7, <3>1 DEF OneEach
    <3>2. CASE u = w \/ v = w
      BY <2>1, <2>3, <2>4, <2>7, <3>2 DEF OneEach
    <3>3. QED
      BY <3>1, <3>2
  <2>8. QED
    BY <1>0, <2>5, <2>6, <2>7 DEF OneEach, Making
<1>4. CASE UNCHANGED queue /\ Complete(w)
  BY <1>1, <1>4, NoItem DEF Complete
<1>5. QED
  BY <1>2, <1>3, <1>4, WorkItems

LEMMA CacheWorker ==
    ASSUME Shape, OneEach, CacheInv, NEW w \in Thread, Worker(w), tag # "done"
    PROVE  CacheInv'
<1>0. /\ Thread' = Thread /\ UNCHANGED <<enqueued, tag>> /\ Items' \subseteq Items
      /\ cache \in Seq(Module) /\ seen \in [Thread -> SUBSET Module]
  BY WorkerFacts, ItemsWorker DEF Thread, Shape, SharedTypes
<1>1. ASSUME UNCHANGED <<cache, seen>>, \A i \in Items : Making(i) => i \in Items' \/ i.m \in Lost
      PROVE  CacheInv'
  <2>1. \A m \in enqueued : m \in ToSet(cache) \cup Lost \/ \E i \in Items' : Making(i) /\ i.m = m
    BY <1>0, <1>1 DEF CacheInv
  <2>2. QED
    BY <1>0, <1>1, <2>1 DEF CacheInv, Making
<1>2. CASE ~MakeModule(w)
  <2>1. UNCHANGED <<cache, seen>>
    BY <1>2 DEF Worker, BootWorker, Take, ParsePipeline, CreatePipeline, Quit, shared
  <2>2. \A i \in Items : Making(i) => i \in Items'
    BY <1>2, ItemsWorker DEF Making, ParsePipeline, CreatePipeline
  <2>3. QED
    BY <1>1, <2>1, <2>2
<1>3. CASE MakeModule(w)
  <2>1. PICK i \in Items : i = work[w] /\ Making(i) /\ i.m \in Module /\ Items \subseteq Items' \cup {i}
    BY <1>3, ItemsWorker, WorkOf DEF MakeModule, BootWorker, Quit, Take, Shape, Idle, Boot, BlankItem, Making
  <2>2. i.m \in enqueued /\ i.m \notin ToSet(cache) /\ i.m \notin seen[w]
    BY <2>1 DEF CacheInv
  <2>3. CASE i.m \in Lost
    <3>1. UNCHANGED <<cache, seen>>
      BY <1>3, <2>1, <2>3 DEF MakeModule
    <3>2. QED
      BY <1>1, <2>1, <2>3, <3>1
  <2>4. CASE i.m \notin Lost
    <3>1. seen' = [seen EXCEPT ![w] = @ \cup {i.m}] /\ cache' = <<i.m>> \o cache
      BY <1>3, <2>1, <2>2, <2>4 DEF MakeModule
    <3>2. PICK n \in Nat : n = Len(cache) /\ DOMAIN cache = 1..n
      BY <1>0
    <3>3. /\ DOMAIN cache' = 1..n + 1 /\ cache'[1] = i.m
          /\ \A k \in 2..n + 1 : cache'[k] = cache[k - 1]
      BY <1>0, <2>1, <3>1, <3>2
    <3>4. \A k \in 1..n + 1 : k = 1 \/ (k \in 2..n + 1 /\ k - 1 \in 1..n)
      OBVIOUS
    <3>5. \A k \in 1..n : k + 1 \in 2..n + 1 /\ k + 1 \in 1..n + 1 /\ (k + 1) - 1 = k
      OBVIOUS
    <3>6. ToSet(cache') = ToSet(cache) \cup {i.m}
      <4>1. ASSUME NEW x \in ToSet(cache') PROVE x \in ToSet(cache) \cup {i.m}
        <5>1. PICK k \in 1..n + 1 : x = cache'[k]
          BY <3>3, <4>1 DEF ToSet
        <5>2. QED
          BY <3>2, <3>3, <3>4, <5>1 DEF ToSet
      <4>2. ASSUME NEW x \in ToSet(cache) PROVE x \in ToSet(cache')
        <5>1. PICK k \in 1..n : x = cache[k]
          BY <3>2, <4>2 DEF ToSet
        <5>2. x = cache'[k + 1] /\ k + 1 \in DOMAIN cache'
          BY <3>3, <3>5, <5>1
        <5>3. QED
          BY <5>2 DEF ToSet
      <4>3. i.m \in ToSet(cache')
        <5>1. 1 \in DOMAIN cache'
          BY <3>3
        <5>2. QED
          BY <3>3, <5>1 DEF ToSet
      <4>4. QED
        BY <4>1, <4>2, <4>3
    <3>7. IsInjective(cache')
      <4>1. SUFFICES ASSUME NEW k \in 1..n + 1, NEW l \in 1..n + 1, cache'[k] = cache'[l] PROVE k = l
        BY <3>3 DEF IsInjective
      <4>2. \A j \in 1..n : cache[j] # i.m
        BY <2>2, <3>2 DEF ToSet
      <4>3. k = 1 <=> l = 1
        BY <3>3, <3>4, <4>1, <4>2
      <4>4. CASE k # 1 /\ l # 1
        <5>1. cache[k - 1] = cache[l - 1] /\ k - 1 \in 1..n /\ l - 1 \in 1..n
          BY <3>3, <3>4, <4>1, <4>4
        <5>2. k - 1 = l - 1
          BY <3>2, <5>1 DEF CacheInv, IsInjective
        <5>3. QED
          BY <5>2
      <4>5. QED
        BY <4>3, <4>4
    <3>8. \A v \in Thread : seen'[v] \subseteq ToSet(cache')
      BY <1>0, <3>1, <3>6 DEF CacheInv
    <3>9. ASSUME NEW j \in Items', Making(j) PROVE j.m \in enqueued \ ToSet(cache')
      <4>1. j \in Items /\ j.m \in enqueued \ ToSet(cache)
        BY <1>0, <3>9 DEF CacheInv
      <4>2. j.m # i.m
        <5>1. work' = [work EXCEPT ![w] = Idle] /\ queue' = queue
          BY <1>3 DEF MakeModule, Complete
        <5>2. work'[w] = Idle /\ ~Making(Idle) /\ \A v \in Thread : v # w => work'[v] = work[v]
          BY <5>1, NoItem DEF Shape, WorkTypes, Making
        <5>3. \/ \E k \in DOMAIN queue : j = queue[k]
              \/ \E v \in Thread : v # w /\ j = work[v]
          BY <1>0, <3>9, <5>1, <5>2 DEF Items, Pending, ToSet
        <5>4. QED
          BY <2>1, <3>9, <5>3 DEF OneEach
      <4>3. QED
        BY <3>6, <4>1, <4>2
    <3>10. ASSUME NEW m \in enqueued
           PROVE  m \in ToSet(cache') \cup Lost \/ \E j \in Items' : Making(j) /\ j.m = m
      <4>1. m \in ToSet(cache) \cup Lost \/ \E j \in Items : Making(j) /\ j.m = m
        BY DEF CacheInv
      <4>2. QED
        BY <2>1, <3>6, <4>1
    <3>11. ToSet(cache') \subseteq enqueued
      BY <2>2, <3>6 DEF CacheInv
    <3>12. QED
      BY <1>0, <3>7, <3>8, <3>9, <3>10, <3>11 DEF CacheInv, Making
  <2>5. QED
    BY <2>3, <2>4
<1>4. QED
  BY <1>2, <1>3

LEMMA ModulesWorker ==
    ASSUME Shape, WindowInv, Modules, NEW w \in Thread, Worker(w), tag # "done"
    PROVE  Modules'
<1>0. /\ UNCHANGED <<tag, order, todo, start, derived, epoch, enqueued, gen>> /\ Items' \subseteq Items
      /\ \A j \in Items : WindowOK(j)
  BY WorkerFacts, ItemsWorker DEF WindowInv
<1>1. /\ (Within' <=> Within) /\ Pos' = Pos /\ (Second' <=> Second)
  BY <1>0, Stay
<1>2. /\ \A c : NamedWindow(c)' <=> NamedWindow(c)
      /\ \A d, c : Named(d, c)' <=> Named(d, c)
      /\ \A i : FoundOK(i)' <=> FoundOK(i)
  <2>1. \A c : NamedWindow(c)' <=> NamedWindow(c)
    BY <1>1 DEF NamedWindow
  <2>2. \A d, c : Named(d, c)' <=> Named(d, c)
    BY <1>0 DEF Named
  <2>3. \A i : FoundOK(i)' <=> FoundOK(i)
    BY <1>0, <1>1 DEF FoundOK, Hit, Create, Derived
  <2>4. QED
    BY <2>1, <2>2, <2>3
<1>3. FoundInv'
  BY <1>0, <1>2 DEF Modules, FoundInv
<1>4. NamedInv'
  <2>1. CASE ~ParsePipeline(w)
    <3>1. deferred' = deferred /\ parents' = parents
      BY <2>1 DEF Worker, BootWorker, Take, MakeModule, CreatePipeline, Quit, main
    <3>2. QED
      BY <1>0, <1>1, <1>2, <3>1 DEF Modules, NamedInv
  <2>2. CASE ParsePipeline(w)
    <3>1. PICK i \in Items : i = work[w] /\ i.kind = "parse" /\ WindowOK(i)
      BY <1>0, <2>2, ItemsWorker, WorkOf DEF ParsePipeline, BootWorker, Quit, Take, Idle, Boot, BlankItem
    <3>2. CASE i.outside
      <4>1. OutParse(i) /\ Within /\ Pos \in 81..100
        BY <3>1, <3>2 DEF OutParse, WindowOK
      <4>2. deferred' = deferred
        BY <2>2, <3>1, <3>2 DEF ParsePipeline
      <4>3. Pos' \notin 102..103
        BY <1>1, <4>1
      <4>4. QED
        BY <1>0, <1>1, <1>2, <4>2, <4>3 DEF Modules, NamedInv
    <3>3. CASE ~i.outside
      <4>1. InParse(i) /\ i.ctx \in {0, 1} /\ i.tag = tag /\ ParseWindow(i.ctx)
        BY <3>1, <3>3 DEF InParse, WindowOK
      <4>2. parents' = parents
        BY <2>2, <3>1, <3>3 DEF ParsePipeline
      <4>3. \A c \in {0, 1} : NamedWindow(c) => c # i.ctx
        BY <4>1 DEF NamedWindow, ParseWindow
      <4>4. PICK t \in Tag, c \in {0, 1}, k \in Nat : t = tag /\ c = i.ctx /\ k = i.index + 1
        BY <4>1, ItemsTyped
      <4>5. deferred' = deferred \/ \E x : deferred' = [deferred EXCEPT ![t][c][k] = x]
        BY <2>2, <3>1, <3>3, <4>1, <4>4 DEF ParsePipeline
      <4>6. \A b \in {0, 1} : b # c => deferred'[t][b] = deferred[t][b]
        <5>1. deferred \in [Tag -> [{0, 1} -> Seq(InfoSet)]]
          BY DEF Shape, MainTypes
        <5>2. ASSUME NEW x, deferred' = [deferred EXCEPT ![t][c][k] = x]
              PROVE  \A b \in {0, 1} : b # c => deferred'[t][b] = deferred[t][b]
          BY <5>1, <5>2
        <5>3. QED
          BY <4>5, <5>2
      <4>7. QED
        BY <1>0, <1>1, <1>2, <4>2, <4>3, <4>4, <4>6 DEF Modules, NamedInv
    <3>4. QED
      BY <3>2, <3>3
  <2>3. QED
    BY <2>1, <2>2
<1>5. QED
  BY <1>3, <1>4, OneEachWorker, CacheWorker DEF Modules

LEMMA ModulesDie ==
    ASSUME Shape, Modules, NEW w \in Thread, Crash(w) \/ Timeout(w)
    PROVE  Modules'
<1>0. Thread = 1..1
  BY DieFacts DEF Shape
<1>1. CASE Over /\ Items' \subseteq Items
  <2>1. /\ tag' = "done" /\ UNCHANGED <<threads, queue, cache, enqueued, seen, gen>> /\ work' = <<Gone>>
    BY <1>1 DEF Over
  <2>2. Thread' = Thread
    BY <2>1 DEF Thread
  <2>3. \A v \in Thread : ~Making(work'[v])
    BY <1>0, <2>1, NoItem DEF Making
  <2>4. OneEach'
    BY <2>1, <2>2, <2>3 DEF Modules, OneEach, Making
  <2>5. CacheInv'
    BY <1>1, <2>1, <2>2 DEF Modules, CacheInv, Making
  <2>6. FoundInv'
    BY <1>1, <2>1 DEF Modules, FoundInv, FoundOK, Create, Hit, Derived
  <2>7. QED
    BY <2>1, <2>4, <2>5, <2>6 DEF Modules, NamedInv
<1>2. CASE Restart(at[w], masked \cup blame[w]) /\ Items' = {}
  <2>1. /\ threads' = 1 /\ queue' = <<>> /\ work' = <<Boot>> /\ cache' = <<>> /\ enqueued' = {}
        /\ seen' = <<{}>> /\ order' = -1 /\ derived' = [c \in {0, 1} |-> <<>>] /\ parents' = {}
    BY <1>2 DEF Restart
  <2>2. Thread' = 1..1 /\ ~Within'
    BY <2>1 DEF Thread, Within
  <2>3. OneEach'
    BY <2>1, <2>2, NoItem DEF OneEach, Making
  <2>4. CacheInv'
    <3>1. IsInjective(<<>>) /\ ToSet(<<>>) = {}
      BY DEF IsInjective, ToSet
    <3>2. seen'[1] = {}
      BY <2>1
    <3>3. QED
      BY <1>2, <2>1, <2>2, <3>1, <3>2 DEF CacheInv
  <2>5. NamedInv'
    BY <2>1, <2>2 DEF NamedInv, NamedWindow
  <2>6. FoundInv'
    BY <1>2 DEF FoundInv
  <2>7. QED
    BY <2>3, <2>4, <2>5, <2>6 DEF Modules
<1>3. QED
  BY <1>1, <1>2, ItemsDie

\* Pass 1.
LEMMA ModulesPrune ==
    ASSUME Shape, WindowInv, WindowInv', Contents, Modules, Prune
    PROVE  Modules'
<1>0. /\ Batched /\ Within /\ Within' /\ tag # "done" /\ tag' = tag /\ (Second' <=> Second)
      /\ Pos = 20 /\ Pos' = 21 /\ \A j \in Items : WindowOK(j)
  <2>1. Batched /\ Pos = 20
    BY BatchedPos DEF Batched
  <2>2. Same /\ Pos' = 21
    BY <2>1, BatchedMoves
  <2>3. QED
    BY <2>1, <2>2 DEF Same, WindowInv, Within, Tag
<1>1. PICK n \in Nat : n <= Len(cache) /\ cache' = SubSeq(cache, 1, n)
  <2>1. PICK l \in Nat, s \in Nat : l = Len(cache) /\ s = CacheSize
    BY ReplayerAssumption DEF Shape, SharedTypes
  <2>2. PICK n \in Nat : n = (IF l < s THEN l ELSE s) /\ n <= l
    BY <2>1
  <2>3. cache' = SubSeq(cache, 1, n)
    BY <2>1, <2>2 DEF Prune
  <2>4. QED
    BY <2>1, <2>2, <2>3
<1>2. PICK E : /\ E = ToSet(cache) \ ToSet(cache') /\ enqueued' = enqueued \ E
               /\ gen' = [m \in Module |-> IF m \in E THEN gen[m] + 1 ELSE gen[m]]
  BY <1>1 DEF Prune
<1>3. /\ seen' = [w \in Thread |-> {}] /\ UNCHANGED <<threads, queue, work, derived, parents, epoch>>
  BY DEF Prune, Forgotten, options
<1>4. Items' = Items /\ Thread' = Thread
  BY <1>3, ItemsKept DEF Thread
<1>5. /\ OneEach' /\ \A i \in Items : ~Making(i)
  BY <1>0, NoMaking, NoMakingNext DEF Unmade
<1>6. /\ DOMAIN cache = 1..Len(cache) /\ Len(cache) \in Nat /\ DOMAIN cache' = 1..n
      /\ \A k \in 1..n : cache'[k] = cache[k] /\ k \in 1..Len(cache)
  BY <1>1 DEF Shape, SharedTypes
<1>7. ToSet(cache') \subseteq ToSet(cache)
  BY <1>6 DEF ToSet
<1>8. CacheInv'
  <2>1. IsInjective(cache')
    BY <1>6 DEF Modules, CacheInv, IsInjective
  <2>2. ToSet(cache') \subseteq enqueued'
    BY <1>2, <1>7 DEF Modules, CacheInv
  <2>3. \A m \in enqueued' : m \in ToSet(cache') \cup Lost
    BY <1>0, <1>2, <1>5 DEF Modules, CacheInv
  <2>4. QED
    BY <1>3, <1>4, <1>5, <2>1, <2>2, <2>3 DEF CacheInv, Making
<1>9. NamedInv'
  <2>1. \A c \in {0, 1} : ~NamedWindow(c)' /\ ~DerivedWindow(c)
    BY <1>0 DEF NamedWindow, DerivedWindow
  <2>2. \A c \in {0, 1} : \A k \in DOMAIN derived[c] : FALSE
    BY <1>0, <2>1 DEF Contents, DerivedInv
  <2>3. QED
    BY <1>0, <1>3, <2>1, <2>2 DEF NamedInv
<1>10. FoundInv'
  <2>1. SUFFICES ASSUME NEW i \in Items, Create(i)
                 PROVE  i.missing \subseteq Lost /\ i.ctx = 1 /\ Derived(i.h) /\ ~Second
    BY <1>0, <1>4 DEF FoundInv, FoundOK, Create, Derived
  <2>2. i.missing \subseteq Lost
    BY <2>1 DEF Modules, FoundInv, FoundOK
  <2>3. i.ctx # PARENT /\ i.ctx \in {0, 1} /\ (FirstWindow(i.ctx) \/ (SecondWindow(i.ctx) /\ Derived(i.h)))
    BY <1>0, <2>1 DEF WindowOK
  <2>4. \A c \in {0, 1} : ~FirstWindow(c) /\ (SecondWindow(c) => c = 1 /\ ~Second)
    BY <1>0 DEF FirstWindow, SecondWindow
  <2>5. QED
    BY <2>2, <2>3, <2>4
<1>11. QED
  BY <1>5, <1>8, <1>9, <1>10 DEF Modules

\* Passes 0 and 4, and the parents' memory given back.
LEMMA ModulesRest ==
    ASSUME Shape, Shape', WindowInv, WindowInv', Contents, Modules, Parse \/ EnqueueOutside \/ Reclaim
    PROVE  Modules'
<1>0. Batched /\ Within /\ tag # "done" /\ Within' /\ tag' = tag
  BY BatchedMoves DEF Batched, Same, Within, Tag
<1>1. PICK p \in Nat : p = Pos /\ Pos' = p + 1 /\ p \in {1, 11, 80, 90, 121}
  <2>1. Pos' = Pos + 1 /\ Pos \in Nat
    BY <1>0, BatchedMoves
  <2>2. Pos \in {1, 11, 80, 90, 121}
    BY BatchedPos
  <2>3. QED
    BY <2>1, <2>2
<1>2. /\ UNCHANGED <<threads, enqueued, cache, seen, gen, derived>>
      /\ Parse \/ (deferred' = deferred /\ \A c \in {0, 1} : epoch'[c] = epoch[c])
  <2>1. UNCHANGED <<threads, enqueued, cache, seen, gen, derived>>
    BY DEF Parse, EnqueueOutside, Reclaim, options, workers
  <2>2. CASE EnqueueOutside
    BY <2>1, <2>2 DEF EnqueueOutside
  <2>3. CASE Reclaim
    <3>1. epoch' = [epoch EXCEPT ![PARENT] = @ + 1] /\ deferred' = deferred
      BY <2>3 DEF Reclaim
    <3>2. epoch \in [Ctx -> Nat] /\ 0 \in Ctx /\ 1 \in Ctx /\ PARENT # 0 /\ PARENT # 1
      BY DEF Shape, SharedTypes, Ctx, PARENT
    <3>3. QED
      BY <2>1, <3>1, <3>2
  <2>4. QED
    BY <2>1, <2>2, <2>3
<1>3. /\ OneEach' /\ (\A i \in Items' : ~Making(i)') /\ \A i \in Items : ~Making(i)
  <2>1. Pos \notin 42..60 /\ Pos # 102 /\ Pos' \notin 42..60 /\ Pos' # 102
    BY <1>1
  <2>2. QED
    BY <1>0, <2>1, NoMaking, NoMakingNext DEF Unmade
<1>4. CacheInv'
  BY <1>0, <1>2, <1>3 DEF Modules, CacheInv, Thread, Making
<1>5. NamedInv'
  <2>1. /\ \A c \in {0, 1} : ~NamedWindow(c)'
        /\ Pos' \notin 102..103
    BY <1>0, <1>1 DEF NamedWindow
  <2>2. ASSUME NEW c \in {0, 1}, NEW k \in DOMAIN derived[c] PROVE Named(derived[c][k], c)'
    <3>1. DerivedWindow(c)
      BY <1>0, <2>2 DEF Contents, DerivedInv
    <3>2. ~Parse
      BY <1>1, <3>1, BatchedPos DEF DerivedWindow
    <3>3. QED
      BY <1>0, <1>2, <2>2, <3>2 DEF Modules, NamedInv, Named
  <2>3. QED
    BY <1>0, <1>2, <2>1, <2>2 DEF NamedInv
<1>6. ASSUME NEW i \in Items' PROVE FoundOK(i)'
  <2>1. CASE i \in Items
    <3>1. FoundOK(i) /\ Main
      BY <1>0, <2>1, MainSplit DEF Modules, FoundInv
    <3>2. QED
      BY <1>0, <1>2, <1>6, <3>1, FoundKept
  <2>2. CASE i \notin Items
    <3>1. CASE Parse
      <4>1. PICK n \in 1..Submit(tag, order) : i = InItem(tag, HashAt(tag, order, n), n - 1, Here)
        BY <1>6, <2>2, <3>1, ItemsParse
      <4>2. QED
        BY <4>1, InFields DEF FoundOK, Create
    <3>2. CASE EnqueueOutside
      <4>1. PICK n \in DOMAIN derived[Here] :
               i = OutItem(tag, Base[derived[Here][n].h], derived[Here][n].index, PARENT)
        BY <1>6, <2>2, <3>2, ItemsOutside
      <4>2. QED
        BY <4>1, OutFields DEF FoundOK, Create
    <3>3. CASE Reclaim
      <4>1. UNCHANGED <<queue, work, threads>>
        BY <3>3 DEF Reclaim, workers, options
      <4>2. QED
        BY <1>6, <2>2, <4>1, ItemsKept
    <3>4. QED
      BY <3>1, <3>2, <3>3
  <2>3. QED
    BY <2>1, <2>2
<1>7. QED
  BY <1>3, <1>4, <1>5, <1>6 DEF Modules, FoundInv

\* A pipeline finds the modules that were enqueued for it.
LEMMA FoundMade ==
    ASSUME Shape, CacheInv, Unmade, tag # "done", gen' = gen, NEW d \in Pipes, NEW c, Named(d, c),
           NEW i, Made(i, d, c)
    PROVE  FoundOK(i)'
<1>1. SUFFICES i.missing \subseteq Lost /\ \A x \in i.mods : gen[x[1]] = x[2]
  BY DEF FoundOK, Hit
<1>2. PICK off : off = Offset(order)
  OBVIOUS
<1>3. PICK base \in Handles, ub \in BOOLEAN : i = CreateItem(d, c, off, base, ub)
  BY <1>2 DEF Made
<1>4. CASE Stale(d, c)
  BY <1>3, <1>4, CreateStale
<1>5. CASE ~Stale(d, c)
  <2>1. /\ i.missing = ToSet(Stages[d.h]) \ ToSet(cache)
        /\ i.mods = {<<m, gen[m]>> : m \in {n \in ToSet(Stages[d.h]) :
                                              n \in ToSet(cache) /\ handle[n] = "live"}}
    BY <1>3, <1>5, CreateModules
  <2>2. ToSet(Stages[d.h]) \subseteq enqueued
    BY <1>5 DEF Named, Stale
  <2>3. enqueued \subseteq ToSet(cache) \cup Lost
    BY DEF CacheInv, Unmade
  <2>4. i.missing \subseteq Lost
    BY <2>1, <2>2, <2>3
  <2>5. \A x \in i.mods : gen[x[1]] = x[2]
    BY <2>1
  <2>6. QED
    BY <2>4, <2>5
<1>6. QED
  BY <1>4, <1>5

\* Passes 3, 5 and 6.
LEMMA ModulesCreating ==
    ASSUME Shape, Shape', WindowInv, WindowInv', Modules, Creating
    PROVE  Modules'
<1>0. /\ Batched /\ Within /\ tag # "done" /\ Within' /\ tag' = tag /\ (Second' <=> Second) /\ tag \in Tag
  BY BatchedMoves DEF Batched, Creating, Same, Within, Tag
<1>1. PICK p \in Nat : p = Pos /\ Pos' = p + 1 /\ p \in {61, 71, 103, 122, 130}
  <2>1. Pos' = Pos + 1 /\ Pos \in Nat
    BY <1>0, BatchedMoves
  <2>2. Pos \in {61, 71, 103, 122, 130}
    BY BatchedPos DEF Creating
  <2>3. QED
    BY <2>1, <2>2
<1>2. /\ ToSet(cache') = ToSet(cache) /\ (\A i, j \in DOMAIN cache' : cache'[i] = cache'[j] => i = j)
      /\ UNCHANGED <<threads, deferred, enqueued, epoch, gen, seen>>
  BY <1>0, CreatingFrame, BatchedFacts DEF Shape
<1>3. Unmade /\ Unmade'
  <2>1. Pos \notin 42..60 /\ Pos # 102 /\ Pos' \notin 42..60 /\ Pos' # 102
    BY <1>1
  <2>2. QED
    BY <1>0, <2>1, NoMaking, NoMakingNext
<1>4. CacheInv'
  <2>1. IsInjective(cache')
    BY <1>2 DEF IsInjective
  <2>2. QED
    BY <1>0, <1>2, <1>3, <2>1 DEF Modules, CacheInv, Unmade, Thread
<1>5. \A d, c : Named(d, c)' <=> Named(d, c)
  BY <1>2 DEF Named
<1>6. NamedInv'
  <2>1. /\ \A c \in {0, 1} : NamedWindow(c)' => NamedWindow(c)
        /\ Pos' \notin 102..103
    BY <1>0, <1>1 DEF NamedWindow
  <2>2. ASSUME NEW c \in {0, 1}, NEW k \in DOMAIN derived'[c] PROVE derived'[c] = derived[c]
    <3>1. CASE EnqueueDerived
      <4>1. derived' = [derived EXCEPT ![Here] = <<>>] /\ derived \in [{0, 1} -> Seq(DerivedPipes)]
        BY <3>1 DEF EnqueueDerived, Shape, MainTypes
      <4>2. QED
        BY <2>2, <4>1
    <3>2. CASE EnqueuePrimary \/ EnqueueParents
      BY <3>2 DEF EnqueuePrimary, EnqueueParents
    <3>3. QED
      BY <3>1, <3>2 DEF Creating
  <2>3. QED
    BY <1>0, <1>2, <1>5, <2>1, <2>2 DEF Modules, NamedInv
<1>7. ASSUME NEW i \in Items' PROVE FoundOK(i)'
  <2>1. CASE i \in Items
    <3>1. FoundOK(i) /\ Main
      BY <1>0, <2>1, MainSplit DEF Modules, FoundInv
    <3>2. QED
      BY <1>0, <1>2, <1>7, <3>1, FoundKept
  <2>2. ASSUME NEW d \in Pipes, NEW c, Named(d, c), Made(i, d, c) PROVE FoundOK(i)'
    BY <1>0, <1>2, <1>3, <2>2, FoundMade DEF Modules
  <2>3. CASE i \notin Items /\ EnqueuePrimary
    <3>1. PICK n \in DOMAIN deferred[tag][Here] :
             deferred[tag][Here][n] \in Pipes /\ Made(i, deferred[tag][Here][n], Here)
      BY <1>7, <2>3, ItemsPrimary
    <3>2. Here \in {0, 1} /\ Pos = 10 * Here + 61 /\ (Here = 1 => Second)
      BY <2>3, Where, HereFacts DEF EnqueuePrimary, InContext, Shape
    <3>3. NamedWindow(Here)
      BY <1>0, <3>2 DEF NamedWindow
    <3>4. deferred[tag][Here][n].h # NoHash
      BY <3>1, ReplayerAssumption DEF Pipes
    <3>5. Named(deferred[tag][Here][n], Here)
      BY <1>0, <3>1, <3>2, <3>3, <3>4 DEF Modules, NamedInv
    <3>6. QED
      BY <2>2, <3>1, <3>5
  <2>4. CASE i \notin Items /\ EnqueueParents
    <3>1. PICK x \in parents : Made(i, x, PARENT)
      BY <1>7, <2>4, ItemsParents
    <3>2. Pos = 103 /\ x \in Pipes
      BY <2>4, BatchedPos DEF Shape, MainTypes
    <3>3. Pos \in 102..103
      BY <3>2
    <3>4. Named(x, PARENT)
      BY <1>0, <3>3 DEF Modules, NamedInv
    <3>5. QED
      BY <2>2, <3>1, <3>2, <3>4
  <2>5. CASE i \notin Items /\ EnqueueDerived
    <3>1. PICK n \in DOMAIN derived[Here] :
             derived[Here][n] \in DerivedPipes /\ Made(i, derived[Here][n], Here)
      BY <1>7, <2>5, ItemsDerived
    <3>2. Here \in {0, 1} /\ derived[Here][n] \in Pipes
      BY <2>5, <3>1, BatchedPos DEF DerivedPipes
    <3>3. Named(derived[Here][n], Here)
      BY <1>0, <3>1, <3>2 DEF Modules, NamedInv
    <3>4. QED
      BY <2>2, <3>1, <3>2, <3>3
  <2>6. QED
    BY <2>1, <2>3, <2>4, <2>5 DEF Creating
<1>8. QED
  BY <1>3, <1>4, <1>6, <1>7 DEF Modules, FoundInv, Unmade

\* Each module that a create info names is enqueued, and once only.
LEMMA StageUsed ==
    ASSUME NEW infos, NEW c, NEW k \in DOMAIN infos, infos[k].h # NoHash, ~Stale(infos[k], c),
           NEW m \in ToSet(Stages[infos[k].h])
    PROVE  Uses(infos, c, m) # {}
<1>1. PICK n \in DOMAIN Stages[infos[k].h] : Stages[infos[k].h][n] = m
  BY DEF ToSet
<1>2. <<k, n>> \in Uses(infos, c, m)
  BY <1>1 DEF Uses
<1>3. QED
  BY <1>2

LEMMA StagesEnqueued ==
    ASSUME NEW infos, NEW c, NEW ms \in NewModules(infos, c), enqueued' = enqueued \cup ToSet(ms),
           epoch' = epoch
    PROVE  \A k \in DOMAIN infos : infos[k].h \in Hash => Named(infos[k], c)'
<1>1. SUFFICES ASSUME NEW k \in DOMAIN infos, infos[k].h \in Hash, infos[k].ep = epoch[c],
                      NEW m \in ToSet(Stages[infos[k].h])
               PROVE  m \in enqueued'
  BY DEF Named
<1>2. m \in Module
  BY <1>1, ReplayerAssumption DEF ToSet
<1>3. infos[k].h # NoHash /\ ~Stale(infos[k], c)
  BY <1>1, ReplayerAssumption DEF Stale
<1>4. Uses(infos, c, m) # {}
  BY <1>1, <1>3, StageUsed
<1>5. ToSet(ms) = {n \in Module \ enqueued : Uses(infos, c, n) # {}}
  BY ModulesEnqueued
<1>6. QED
  BY <1>2, <1>4, <1>5

LEMMA OneEachAdded ==
    ASSUME Shape, OneEach, CacheInv, NEW infos, NEW c, NEW ms \in NewModules(infos, c),
           Enqueue([k \in DOMAIN ms |-> ModuleItem(ms[k])], SHADER), UNCHANGED <<work, threads>>
    PROVE  OneEach'
<1>1. PICK items \in Seq(Jobs) :
             /\ queue' = queue \o items /\ DOMAIN items = DOMAIN ms
             /\ \A k \in DOMAIN items : items[k] = ModuleItem(ms[k])
  <2>1. PICK items : items = [k \in DOMAIN ms |-> ModuleItem(ms[k])]
    OBVIOUS
  <2>2. items \in Seq(Jobs) /\ queue' = queue \o items
    BY <2>1, ModulesEnqueued DEF Enqueue
  <2>3. DOMAIN items = DOMAIN ms /\ \A k \in DOMAIN items : items[k] = ModuleItem(ms[k])
    BY <2>1
  <2>4. QED
    BY <2>2, <2>3
<1>2. \A k \in DOMAIN items : items[k].m = ms[k] /\ ms[k] \in Module \ enqueued
  BY <1>1, ModulesEnqueued, ModuleFields
<1>3. \A k, l \in DOMAIN items : items[k].m = items[l].m => k = l
  BY <1>1, <1>2, ModulesEnqueued
<1>4. \A i \in Items : Making(i) => i.m \in enqueued
  BY DEF CacheInv
<1>5. /\ \A k \in DOMAIN queue : Making(queue[k]) => queue[k].m \in enqueued
      /\ \A w \in Thread : Making(work[w]) => work[w].m \in enqueued
  BY <1>4 DEF Items, Pending, ToSet, Making, Real
<1>6. PICK a \in Nat, b \in Nat : a = Len(queue) /\ b = Len(items)
  BY DEF Shape, WorkTypes
<1>7. /\ DOMAIN queue = 1..a /\ DOMAIN items = 1..b /\ DOMAIN queue' = 1..a + b
      /\ \A k \in 1..a : queue'[k] = queue[k]
      /\ \A k \in a + 1..a + b : queue'[k] = items[k - a]
  BY <1>1, <1>6 DEF Shape, WorkTypes
<1>8. \A k \in 1..a + b : k \in 1..a \/ (k \in a + 1..a + b /\ k - a \in 1..b)
  OBVIOUS
<1>9. ASSUME NEW k \in DOMAIN queue', NEW l \in DOMAIN queue', Making(queue'[k]), Making(queue'[l]),
             queue'[k].m = queue'[l].m
      PROVE  k = l
  <2>1. CASE k \in 1..a /\ l \in 1..a
    BY <1>7, <1>9, <2>1 DEF OneEach
  <2>2. CASE k \in 1..a /\ l \notin 1..a
    BY <1>2, <1>5, <1>7, <1>8, <1>9, <2>2
  <2>3. CASE k \notin 1..a /\ l \in 1..a
    BY <1>2, <1>5, <1>7, <1>8, <1>9, <2>3
  <2>4. CASE k \notin 1..a /\ l \notin 1..a
    <3>1. k - a \in 1..b /\ l - a \in 1..b /\ queue'[k] = items[k - a] /\ queue'[l] = items[l - a]
      BY <1>7, <1>8, <1>9, <2>4
    <3>2. k - a = l - a
      BY <1>3, <1>7, <1>9, <3>1
    <3>3. QED
      BY <1>7, <1>9, <3>2
  <2>5. QED
    BY <2>1, <2>2, <2>3, <2>4
<1>10. ASSUME NEW k \in DOMAIN queue', NEW w \in Thread, Making(queue'[k]), Making(work[w])
       PROVE  queue'[k].m # work[w].m
  <2>1. CASE k \in 1..a
    BY <1>7, <1>10, <2>1 DEF OneEach
  <2>2. CASE k \notin 1..a
    BY <1>2, <1>5, <1>7, <1>8, <1>10, <2>2
  <2>3. QED
    BY <2>1, <2>2
<1>11. QED
  BY <1>9, <1>10 DEF OneEach, Making, Thread

LEMMA ModulesNew ==
    ASSUME Shape, Shape', WindowInv', Modules, EnqueueModules \/ EnqueueParentModules
    PROVE  Modules'
<1>0. /\ Batched /\ Main /\ Within /\ tag # "done" /\ Within' /\ tag' = tag /\ (Second' <=> Second) /\ tag \in Tag
      /\ UNCHANGED <<threads, work, cache, seen, epoch, gen, parents>>
  <2>1. Batched /\ Main
    BY DEF Batched, Main
  <2>2. /\ Within /\ tag # "done" /\ Within' /\ tag' = tag /\ (Second' <=> Second) /\ tag \in Tag
    BY <2>1, BatchedMoves DEF Same, Within, Tag
  <2>3. UNCHANGED <<threads, work, cache, seen, epoch, gen, parents>>
    BY DEF EnqueueModules, EnqueueParentModules, options, workers
  <2>4. QED
    BY <2>1, <2>2, <2>3
<1>1. OneEach'
  <2>1. CASE EnqueueModules
    <3>1. PICK infos, c : infos = deferred[tag][Here] /\ c = Here
      OBVIOUS
    <3>2. PICK ms \in NewModules(infos, c) : Enqueue([k \in DOMAIN ms |-> ModuleItem(ms[k])], SHADER)
      BY <2>1, <3>1 DEF EnqueueModules
    <3>3. QED
      BY <1>0, <3>2, OneEachAdded DEF Modules
  <2>2. CASE EnqueueParentModules
    <3>1. PICK infos \in SetToSeqs(parents) : \E ms \in NewModules(infos, PARENT) :
             Enqueue([k \in DOMAIN ms |-> ModuleItem(ms[k])], SHADER)
      BY <2>2 DEF EnqueueParentModules
    <3>2. PICK ms \in NewModules(infos, PARENT) : Enqueue([k \in DOMAIN ms |-> ModuleItem(ms[k])], SHADER)
      BY <3>1
    <3>3. QED
      BY <1>0, <3>2, OneEachAdded DEF Modules
  <2>3. QED
    BY <2>1, <2>2
<1>2. /\ Items \subseteq Items' /\ enqueued \subseteq enqueued'
      /\ \A i \in Items' : i \in Items \/ \E m \in Module \ enqueued : i = ModuleItem(m) /\ m \in enqueued'
      /\ \A m \in enqueued' : m \in enqueued \/ (m \in Module /\ ModuleItem(m) \in Items')
  <2>1. enqueued' \subseteq Module
    BY DEF Shape, MainTypes
  <2>2. QED
    BY <2>1, ItemsModules
<1>3. CacheInv'
  <2>1. \A i \in Items' : Making(i) => i.m \in enqueued' \ ToSet(cache)
    BY <1>2, ModuleFields DEF Modules, CacheInv
  <2>2. \A m \in enqueued' : m \in ToSet(cache) \cup Lost \/ \E i \in Items' : Making(i) /\ i.m = m
    <3>1. \A m \in enqueued : m \in ToSet(cache) \cup Lost \/ \E i \in Items : Making(i) /\ i.m = m
      BY <1>0 DEF Modules, CacheInv
    <3>2. \A m \in Module : ModuleItem(m) \in Items' => \E i \in Items' : Making(i) /\ i.m = m
      BY ModuleFields DEF Making
    <3>3. QED
      BY <1>2, <3>1, <3>2
  <2>3. ToSet(cache) \subseteq enqueued'
    BY <1>2 DEF Modules, CacheInv
  <2>4. QED
    BY <1>0, <2>1, <2>2, <2>3 DEF Modules, CacheInv, Thread, Making
<1>4. FoundInv'
  <2>1. ASSUME NEW i \in Items', i \in Items PROVE FoundOK(i)'
    <3>1. FoundOK(i)
      BY <2>1 DEF Modules, FoundInv
    <3>2. QED
      BY <1>0, <2>1, <3>1, FoundKept
  <2>2. ASSUME NEW i \in Items', i \notin Items PROVE FoundOK(i)'
    BY <1>2, <2>2, ModuleFields DEF FoundOK, Create
  <2>3. QED
    BY <2>1, <2>2 DEF FoundInv
<1>5. \A d, c : Named(d, c) => Named(d, c)'
  BY <1>0, <1>2 DEF Named
<1>6. NamedInv'
  <2>1. CASE EnqueueModules
    <3>1. PICK c \in {0, 1} : c = Here /\ Pos = 10 * c + 41 /\ Pos' = 10 * c + 42
      BY <1>0, <2>1, BatchedPos, BatchedMoves
    <3>2. PICK sorted \in Seq(InfoSet), cut \in Nat, ds \in Seq(DerivedPipes) :
              /\ ToSet(sorted) = ToSet(deferred[tag][c]) /\ cut \in 0..Len(sorted)
              /\ deferred' = [deferred EXCEPT ![tag][c] = SubSeq(sorted, 1, cut)]
              /\ derived' = [derived EXCEPT ![c] = ds]
              /\ \A k \in DOMAIN ds : \E i \in cut + 1..Len(sorted) : ds[k] = sorted[i]
      BY <2>1, <3>1, Split, SMTT(30) DEF Shape
    <3>3. /\ deferred \in [Tag -> [{0, 1} -> Seq(InfoSet)]] /\ derived \in [{0, 1} -> Seq(DerivedPipes)]
      BY DEF Shape, MainTypes
    <3>4. /\ deferred'[tag][c] = SubSeq(sorted, 1, cut) /\ derived'[c] = ds
          /\ \A b \in {0, 1} : b # c => deferred'[tag][b] = deferred[tag][b] /\ derived'[b] = derived[b]
      BY <1>0, <3>2, <3>3
    <3>5. \A d \in ToSet(sorted) : d.h # NoHash => Named(d, c)'
      <4>1. PICK infos : infos = deferred[tag][c] /\ infos \in Seq(InfoSet)
        BY <1>0, <3>3
      <4>2. PICK ms \in NewModules(infos, c) : enqueued' = enqueued \cup ToSet(ms)
        BY <2>1, <3>1, <4>1 DEF EnqueueModules
      <4>3. \A k \in DOMAIN infos : infos[k].h \in Hash => Named(infos[k], c)'
        BY <1>0, <4>2, StagesEnqueued
      <4>4. \A k \in DOMAIN infos : infos[k].h \in Hash \cup {NoHash}
        <5>1. \A k \in DOMAIN infos : infos[k] \in InfoSet
          BY <4>1
        <5>2. QED
          BY <5>1 DEF InfoSet
      <4>5. QED
        BY <3>2, <4>1, <4>3, <4>4 DEF ToSet
    <3>6. /\ DOMAIN SubSeq(sorted, 1, cut) = 1..cut /\ Len(sorted) \in Nat /\ DOMAIN sorted = 1..Len(sorted)
          /\ \A n \in 1..cut : SubSeq(sorted, 1, cut)[n] = sorted[n] /\ n \in DOMAIN sorted
          /\ \A n \in cut + 1..Len(sorted) : n \in DOMAIN sorted
      BY <3>2
    <3>7. ASSUME NEW b \in {0, 1}, NamedWindow(b)', NEW k \in DOMAIN deferred'[tag][b],
                 deferred'[tag][b][k].h # NoHash
          PROVE  Named(deferred[tag][b][k], b)'
      <4>1. CASE b = c
        <5>1. PICK d : d = deferred'[tag'][b][k] /\ d \in ToSet(sorted) /\ d.h # NoHash
          BY <1>0, <3>4, <3>6, <3>7, <4>1 DEF ToSet
        <5>2. QED
          BY <3>5, <4>1, <5>1
      <4>2. CASE b # c
        <5>1. NamedWindow(b)
          BY <1>0, <3>1, <3>7, <4>2 DEF NamedWindow
        <5>2. PICK d : d = deferred'[tag'][b][k] /\ d = deferred[tag][b][k]
          BY <1>0, <3>4, <4>2
        <5>3. Named(d, b)
          BY <1>0, <3>4, <3>7, <4>2, <5>1, <5>2 DEF Modules, NamedInv
        <5>4. QED
          BY <1>5, <5>2, <5>3
      <4>3. QED
        BY <4>1, <4>2
    <3>8. ASSUME NEW b \in {0, 1}, NEW k \in DOMAIN derived'[b] PROVE Named(derived[b][k], b)'
      <4>1. CASE b = c
        <5>1. PICK n \in cut + 1..Len(sorted) : ds[k] = sorted[n]
          BY <3>2, <3>4, <3>8, <4>1
        <5>2. ds[k] \in ToSet(sorted) /\ ds[k].h # NoHash
          BY <3>2, <3>4, <3>6, <3>8, <4>1, <5>1, ReplayerAssumption DEF ToSet, DerivedPipes, Pipes
        <5>3. PICK d : d = derived'[b][k] /\ d = ds[k]
          BY <3>4, <4>1
        <5>4. QED
          BY <3>5, <4>1, <5>2, <5>3
      <4>2. CASE b # c
        <5>1. PICK d : d = derived'[b][k] /\ d = derived[b][k]
          BY <3>4, <4>2
        <5>2. Named(d, b)
          BY <1>0, <3>4, <3>8, <4>2, <5>1 DEF Modules, NamedInv
        <5>3. QED
          BY <1>5, <5>1, <5>2
      <4>3. QED
        BY <4>1, <4>2
    <3>9. Pos' \notin 102..103
      BY <3>1
    <3>10. QED
      BY <1>0, <3>7, <3>8, <3>9 DEF NamedInv
  <2>2. CASE EnqueueParentModules
    <3>1. Pos' = 102 /\ derived' = derived
      <4>1. Pos = 101 /\ derived' = derived
        BY <2>2, BatchedPos DEF EnqueueParentModules
      <4>2. Pos' = Pos + 1
        BY <1>0, BatchedMoves
      <4>3. QED
        BY <4>1, <4>2
    <3>2. PICK infos \in SetToSeqs(parents) : \E ms \in NewModules(infos, PARENT) :
             enqueued' = enqueued \cup ToSet(ms)
      BY <2>2 DEF EnqueueParentModules
    <3>3. PICK ms \in NewModules(infos, PARENT) : enqueued' = enqueued \cup ToSet(ms)
      BY <3>2
    <3>4. \A k \in DOMAIN infos : infos[k].h \in Hash => Named(infos[k], PARENT)'
      BY <1>0, <3>3, StagesEnqueued
    <3>5. ToSet(infos) = parents /\ parents \subseteq Pipes
      BY <3>2, Listing DEF Shape, MainTypes
    <3>6. \A x \in parents : Named(x, PARENT)'
      BY <3>4, <3>5 DEF ToSet, Pipes
    <3>7. \A c \in {0, 1} : ~NamedWindow(c)'
      BY <3>1 DEF NamedWindow
    <3>8. QED
      BY <1>0, <1>5, <3>1, <3>6, <3>7 DEF Modules, NamedInv
  <2>3. QED
    BY <2>1, <2>2
<1>7. QED
  BY <1>1, <1>3, <1>4, <1>6 DEF Modules

LEMMA ModulesHold == Spec => []Modules
<1>1. Init => Modules
  <2>1. SUFFICES ASSUME Init PROVE Modules
    OBVIOUS
  <2>2. Items = {}
    BY <2>1, NoItem DEF Init, Items, Pending, ToSet, Real
  <2>3. ~Within /\ parents = {} /\ enqueued = {} /\ \A c \in {0, 1} : DOMAIN derived[c] = {}
    BY <2>1 DEF Init, Within
  <2>4. OneEach
    BY <2>1, NoItem DEF Init, OneEach, Making
  <2>5. CacheInv
    <3>1. IsInjective(<<>>) /\ ToSet(<<>>) = {}
      BY DEF IsInjective, ToSet
    <3>2. QED
      BY <2>1, <2>2, <2>3, <3>1 DEF Init, CacheInv
  <2>6. QED
    BY <2>2, <2>3, <2>4, <2>5 DEF Modules, NamedInv, NamedWindow, FoundInv
<1>2. /\ Shape /\ Counts /\ WindowInv /\ Contents /\ Modules /\ Shape' /\ WindowInv' /\ [Next]_vars
      => Modules'
  <2>1. SUFFICES ASSUME Shape, Counts, WindowInv, Contents, Modules, Shape', WindowInv', [Next]_vars
                 PROVE  Modules'
    OBVIOUS
  <2>2. CASE UNCHANGED vars
    <3>1. /\ Items' = Items /\ UNCHANGED <<tag, order, todo, start>>
          /\ UNCHANGED <<deferred, derived, parents, epoch, enqueued, gen>>
          /\ UNCHANGED <<threads, queue, work, cache, seen>>
      BY <2>2, ItemsKept DEF vars
    <3>2. /\ (Within' <=> Within) /\ Pos' = Pos /\ (Second' <=> Second)
      BY <3>1, Stay
    <3>3. OneEach' /\ CacheInv'
      BY <2>1, <3>1 DEF Modules, OneEach, CacheInv, Making, Thread
    <3>4. /\ \A c : NamedWindow(c)' <=> NamedWindow(c)
          /\ \A d, c : Named(d, c)' <=> Named(d, c)
      BY <3>1, <3>2 DEF NamedWindow, Named
    <3>5. NamedInv'
      BY <2>1, <3>1, <3>2, <3>4 DEF Modules, NamedInv
    <3>6. FoundInv'
      BY <2>1, <3>1, <3>2 DEF Modules, FoundInv, FoundOK, Hit, Create, Derived
    <3>7. QED
      BY <3>3, <3>5, <3>6 DEF Modules
  <2>3. CASE Next
    <3>1. tag # "done"
      BY <2>1, <2>3, Ended DEF Counts
    <3>2. CASE Control
      BY <2>1, <3>1, <3>2, ModulesControl
    <3>3. CASE Batched
      BY <2>1, <3>3, ModulesPrune, ModulesRest, ModulesCreating, ModulesNew DEF Batched, Creating
    <3>4. QED
      BY <2>1, <2>3, <3>1, <3>2, <3>3, MainSplit, ModulesWorker, ModulesDie DEF Next
  <2>4. QED
    BY <2>1, <2>2, <2>3
<1>3. QED
  BY <1>1, <1>2, ShapeHolds, CountsHold, WindowHolds, ContentsHold, PTL DEF Spec
-----------------------------------------------------------------------------
(***************************************************************************)
(* What the runs check, for every list of pipelines, every number of       *)
(* workers, every size of a chunk and of the cache.                        *)
(***************************************************************************)
InCtx == \A i \in Items : InParse(i) => i.ctx \in {0, 1}

LEMMA InCtxHolds == Spec => []InCtx
<1>1. Init => InCtx
  <2>1. SUFFICES ASSUME Init PROVE Items = {}
    BY DEF InCtx
  <2>2. QED
    BY <2>1, NoItem DEF Init, Items, Pending, ToSet, Real
<1>2. Shape /\ Counts /\ WindowInv /\ WindowInv' /\ InCtx /\ [Next]_vars => InCtx'
  <2>1. SUFFICES ASSUME Shape, Counts, WindowInv, WindowInv', InCtx, [Next]_vars PROVE InCtx'
    OBVIOUS
  <2>2. CASE tag' # "done"
    BY <2>1, <2>2 DEF WindowInv, WindowOK, InCtx
  <2>3. CASE tag' = "done" /\ Next
    <3>1. tag # "done"
      BY <2>1, <2>3, Ended DEF Counts
    <3>2. Items' \subseteq Items
      <4>1. CASE Control
        BY <4>1, ControlFacts
      <4>2. CASE Batched
        BY <2>1, <2>3, <3>1, <4>2, BatchedFacts DEF Shape
      <4>3. QED
        BY <2>1, <2>3, <4>1, <4>2, MainSplit, ItemsWorker, ItemsDie DEF Next
    <3>3. QED
      BY <2>1, <3>2 DEF InCtx, InParse
  <2>4. CASE UNCHANGED vars
    <3>1. Items' = Items
      BY <2>4, ItemsKept DEF vars
    <3>2. QED
      BY <2>1, <3>1 DEF InCtx, InParse
  <2>5. QED
    BY <2>1, <2>2, <2>3, <2>4
<1>3. QED
  BY <1>1, <1>2, ShapeHolds, CountsHold, WindowHolds, PTL DEF Spec

LEMMA ItemsOK ==
    ASSUME Shape, Contents, InCtx, NEW i \in Pending
    PROVE  ItemOK(i)
<1>1. CASE i \in Items
  <2>1. /\ i \in Jobs /\ i.ctx \in Ctx /\ i.tag \in Tag /\ i.index \in Nat
    BY <1>1, ItemsTyped
  <2>2. /\ i.kind \in Real /\ i.h \in Hash \cup {NoHash} /\ i.m \in Module \cup {NoMod} /\ i.base \in Handles
    BY <2>1 DEF Jobs, ItemSet, Handles
  <2>3. i.kind = "parse" /\ ~i.outside => i.ctx \in {0, 1} /\ i.index < Len(deferred[i.tag][i.ctx])
    BY <1>1 DEF InCtx, InParse, Contents, ParseInv, ParseOK
  <2>4. i.kind = "create" => i.index < Len(List[i.tag]) \/ Unreadable # {}
    BY <1>1 DEF Contents, CreateInv, CreateOK, Create
  <2>5. QED
    BY <2>1, <2>2, <2>3, <2>4 DEF ItemOK, Real, Handles
<1>2. CASE i \in {Idle, Boot, Gone}
  <2>1. /\ i.kind \in {"idle", "boot", "gone"} /\ i.h = NoHash /\ i.m = NoMod /\ i.tag = "graphics"
        /\ i.ctx = 0 /\ i.base = "none"
    BY <1>2 DEF Idle, Boot, Gone, BlankItem
  <2>2. QED
    BY <2>1 DEF ItemOK, Tag, Ctx
<1>3. QED
  BY <1>1, <1>2, ItemsTyped

(***************************************************************************)
(* The types hold, the slot of every parse item is in deferred_graphics    *)
(* or deferred_compute when the worker writes it, completed_count never    *)
(* passes queued_count, no module is twice in the cache, and an index that *)
(* is reported lies in the list unless an entry cannot be read.            *)
(***************************************************************************)
THEOREM TypeCorrect == Spec => []TypeOK
<1>1. Shape /\ Counts /\ Contents /\ Modules /\ InCtx => TypeOK
  <2>1. SUFFICES ASSUME Shape, Counts, Contents, Modules, InCtx PROVE TypeOK
    OBVIOUS
  <2>2. /\ threads \in 1..Threads /\ robust \in BOOLEAN
        /\ start \in [Tag -> Nat] /\ masked \subseteq Module
        /\ tag \in Tag \cup {"end", "done"} /\ order \in -1..(PASS_COUNT * (Len(List["graphics"]) +
                                                             Len(List["compute"]) + 1))
        /\ waiting \in Ctx \cup {NoCtx}
        /\ parents \subseteq InfoSet /\ outside \subseteq Hash /\ enqueued \subseteq Module
    BY <2>1 DEF Shape, MainTypes, Pipes
  <2>3. /\ \A t \in Tag, c \in {0, 1} : deferred[t][c] \in Seq(InfoSet)
        /\ \A c \in {0, 1} : derived[c] \in Seq(InfoSet)
    <3>1. DerivedPipes \subseteq InfoSet
      BY DEF DerivedPipes, Pipes
    <3>2. \A s \in Seq(DerivedPipes) : s \in Seq(InfoSet)
      BY <3>1
    <3>3. QED
      BY <2>1, <3>2 DEF Shape, MainTypes
  <2>4. \A i \in ToSet(queue) \cup {work[w] : w \in Thread} : ItemOK(i)
    BY <2>1, ItemsOK DEF Pending
  <2>5. \A c \in Ctx : completed[c] \in 0..queued[c]
    BY <2>1 DEF Counts, CountInv, Shape, SharedTypes
  <2>6. /\ pipelines \in [Hash -> {"absent", "null", "live"}]
        /\ cache \in Seq(Module) /\ IsInjective(cache) /\ handle \in [Module -> {"null", "live"}]
        /\ seen \in [Thread -> SUBSET Module] /\ blame \in [Thread -> SUBSET Module]
        /\ at \in [Thread -> [Tag -> Nat]]
        /\ compiled \in [Hash -> Nat] /\ ever \subseteq Hash /\ crashes \in 0..MaxCrashes
    BY <2>1 DEF Shape, SharedTypes, Modules, CacheInv
  <2>7. QED
    BY <2>2, <2>3, <2>4, <2>5, <2>6 DEF TypeOK
<1>2. QED
  BY <1>1, ShapeHolds, CountsHold, ContentsHold, ModulesHold, InCtxHolds, PTL

(***************************************************************************)
(* The create info of a pipeline that is queued or being compiled has not  *)
(* been overwritten by a reset of the allocators of its context, whatever  *)
(* the workers' order: the only exception is a slot whose own entry could  *)
(* not be read.                                                            *)
(***************************************************************************)
THEOREM InfosAlive == Spec => []InfoAlive
<1>1. Contents => InfoAlive
  BY DEF Contents, CreateInv, CreateOK, Create, InfoAlive, Items, Real
<1>2. QED
  BY <1>1, ContentsHold, PTL

(***************************************************************************)
(* A pipeline is compiled with modules that prune_cache has not destroyed, *)
(* and lacks one only if the database does; but for a derived pipeline of  *)
(* the second context that is pending in a batch which has no chunk for    *)
(* that context.                                                           *)
(***************************************************************************)
THEOREM ModulesKept == Spec => []ModulesFound
<1>1. Shape /\ Modules => ModulesFound
  <2>1. SUFFICES ASSUME Shape, Modules, NEW i \in Pending, i.kind = "create"
                 PROVE  /\ i.missing \subseteq Lost
                        /\ (\E x \in i.mods : gen[x[1]] # x[2]) =>
                              /\ i.ctx = 1 /\ Derived(i.h)
                              /\ tag # "done" =>
                                    tag \in Tag /\ ~Has(tag, 2 * PASS_COUNT * (order \div (2 * PASS_COUNT)) + 1)
    BY DEF ModulesFound
  <2>2. FoundOK(i)
    BY <2>1 DEF Modules, FoundInv, Items, Real
  <2>3. ASSUME Within, ~Second
        PROVE  tag \in Tag /\ ~Has(tag, 2 * PASS_COUNT * (order \div (2 * PASS_COUNT)) + 1)
    <3>1. tag \in Tag /\ Batch \in Nat
      BY <2>1, <2>3, PhaseFacts DEF Shape, Within
    <3>2. ~Has(tag, 14 * Batch + 1)
      BY <2>1, <2>3, <3>1, HasAt DEF Shape, Second
    <3>3. 2 * PASS_COUNT * (order \div (2 * PASS_COUNT)) + 1 = 14 * Batch + 1
      BY DEF PASS_COUNT, Batch
    <3>4. QED
      BY <3>1, <3>2, <3>3
  <2>4. QED
    BY <2>1, <2>2, <2>3 DEF FoundOK, Create, Hit
<1>2. QED
  BY <1>1, ShapeHolds, ModulesHold, PTL
-----------------------------------------------------------------------------
(***************************************************************************)
(* Places in the list.  What has an entry in pipelines is behind the edge  *)
(* that the passes have reached, or was pulled in as the base of another;  *)
(* what a slot holds has the place of its chunk and no entry, unless the   *)
(* slot was not rewritten: then it comes from an earlier chunk.            *)
(***************************************************************************)
Upto(n) == {List[tag][p] : p \in {q \in DOMAIN List[tag] : q <= n}}
Absent(h) == pipelines[h] = "absent"

Fresh(t) == /\ \A c \in {0, 1} : deferred[t][c] = <<>>
            /\ \A p \in DOMAIN List[t] : Absent(List[t][p])
FreshInv == /\ tag = "graphics" => Fresh("compute")
            /\ tag \in Tag /\ order = -1 => Fresh(tag)
OutsideInv == tag \in Tag => \A h \in outside : \A u \in Tag : u # tag => h \notin ToSet(List[u])

Edge == IF Pos <= 61 THEN Spot(0, 0) ELSE IF Pos <= 71 THEN Spot(1, 0) ELSE Spot(2, 0)
AheadInv == Within => \A p \in DOMAIN List[tag] :
    p > Edge => Absent(List[tag][p]) \/ List[tag][p] \in outside

Placed(d, c) == /\ d.index < PerContext /\ Spot(c, d.index + 1) \in DOMAIN List[tag]
                /\ d.h = List[tag][Spot(c, d.index + 1)]
Old(d, c) == d.h \in Upto(Spot(c, 0)) /\ d.ep < epoch[c]
Bound(c) == IF Pos <= 10 * c + 1 THEN Spot(c, 0) ELSE Spot(2, 0)
PlaceOK(d, c) ==
    /\ d.ep <= epoch[c] /\ d.h \in Upto(Bound(c))
    /\ SlotWindow(c) => (Placed(d, c) /\ Absent(d.h)) \/ Old(d, c)
PlaceInv == Within => \A c \in {0, 1} : \A k \in DOMAIN deferred[tag][c] :
    deferred[tag][c][k].h # NoHash => PlaceOK(deferred[tag][c][k], c)
LaterInv == tag # "done" => \A c \in {0, 1} : \A k \in DOMAIN derived[c] :
    derived[c][k].h \in Upto(Spot(2, 0))
KinInv == tag # "done" => \A p \in parents : p.h \in outside /\ Absent(p.h)
TurnOK(i) ==
    /\ InParse(i) => /\ i.index < PerContext /\ i.h = List[tag][Spot(i.ctx, i.index + 1)]
                     /\ Absent(i.h)
    /\ OutParse(i) => i.h \in outside /\ Absent(i.h)
TurnInv == tag # "done" => \A i \in Items : TurnOK(i)
ValidInv == \A i \in Items : Create(i) /\ i.valid => ~Absent(i.h)

Places == /\ FreshInv /\ OutsideInv /\ AheadInv /\ PlaceInv /\ LaterInv /\ KinInv /\ TurnInv
          /\ ValidInv

LEMMA Spots ==
    ASSUME Shape, Within
    PROVE  /\ tag \in Tag /\ PerContext \in Nat \ {0} /\ Spot(0, 0) \in Nat
           /\ Spot(1, 0) = Spot(0, 0) + PerContext /\ Spot(2, 0) = Spot(0, 0) + 2 * PerContext
           /\ \A c \in {0, 1, 2} : \A k \in Nat : Spot(c, k) = Spot(c, 0) + k
           /\ Len(List[tag]) \in Nat /\ DOMAIN List[tag] = 1..Len(List[tag])
           /\ \A p \in DOMAIN List[tag] : List[tag][p] \in Hash
           /\ \A p, q \in DOMAIN List[tag] : List[tag][p] = List[tag][q] => p = q
<1>1. PICK B \in Nat, P \in Nat \ {0}, s \in Nat : B = Batch /\ P = PerContext /\ s = start[tag]
  BY PhaseFacts, ReplayerAssumption DEF Shape, MainTypes, Within
<1>2. B * P \in Nat /\ (2 * B + 0) * P = 2 * (B * P) /\ (2 * B + 1) * P = 2 * (B * P) + P
      /\ (2 * B + 2) * P = 2 * (B * P) + 2 * P
  BY <1>1
<1>3. PICK x \in Nat : /\ x = B * P /\ (2 * B + 0) * P = 2 * x /\ (2 * B + 1) * P = 2 * x + P
                       /\ (2 * B + 2) * P = 2 * x + 2 * P
  BY <1>2
<1>4. \A k \in Nat : /\ Spot(0, k) = s + 2 * x + k /\ Spot(1, k) = s + (2 * x + P) + k
                     /\ Spot(2, k) = s + (2 * x + 2 * P) + k
  BY <1>1, <1>3 DEF Spot
<1>5. /\ Spot(0, 0) = s + 2 * x /\ Spot(1, 0) = s + 2 * x + P /\ Spot(2, 0) = s + 2 * x + 2 * P
  BY <1>4
<1>6. /\ Spot(0, 0) \in Nat /\ Spot(1, 0) = Spot(0, 0) + P /\ Spot(2, 0) = Spot(0, 0) + 2 * P
      /\ \A c \in {0, 1, 2} : \A k \in Nat : Spot(c, k) = Spot(c, 0) + k
  BY <1>4, <1>5
<1>7. /\ tag \in Tag /\ Len(List[tag]) \in Nat /\ DOMAIN List[tag] = 1..Len(List[tag])
      /\ \A p \in DOMAIN List[tag] : List[tag][p] \in Hash
  BY ReplayerAssumption DEF Within
<1>8. \A p, q \in DOMAIN List[tag] : List[tag][p] = List[tag][q] => p = q
  BY <1>7, ReplayerAssumption DEF IsInjective
<1>9. QED
  BY <1>1, <1>6, <1>7, <1>8

LEMMA UptoMore ==
    ASSUME Shape, Within, NEW m \in Nat, NEW n \in Nat, m <= n
    PROVE  Upto(m) \subseteq Upto(n)
<1>1. \A p \in DOMAIN List[tag] : p <= m => p <= n
  <2>1. DOMAIN List[tag] = 1..Len(List[tag]) /\ Len(List[tag]) \in Nat
    BY Spots
  <2>2. QED
    BY <2>1
<1>2. QED
  BY <1>1 DEF Upto

\* The hashes of a list are in no other.
LEMMA OwnHash ==
    ASSUME tag \in Tag, NEW n, NEW h \in Upto(n)
    PROVE  /\ h \in Hash
           /\ \A u \in Tag : u # tag => h \notin ToSet(List[u]) /\ Base[h] \notin ToSet(List[u])
<1>1. h \in ToSet(List[tag])
  BY DEF Upto, ToSet
<1>2. List[tag] \in Seq(Hash)
  BY ReplayerAssumption
<1>3. h \in Hash
  BY <1>1, <1>2 DEF ToSet
<1>4. QED
  BY <1>1, <1>3, ReplayerAssumption

\* Steps that leave the lists alone.
LEMMA UptoSame == ASSUME tag' = tag PROVE \A n : Upto(n)' = Upto(n)
BY DEF Upto

\* The pipelines that a pass enqueues, and their bases.
Source(d, c, base) ==
    \/ /\ EnqueuePrimary /\ c = Here /\ base = (IF Derived(d.h) THEN "raw" ELSE "none")
       /\ \E n \in DOMAIN deferred[tag][Here] : d = deferred[tag][Here][n]
    \/ /\ EnqueueParents /\ c = PARENT /\ base = "none" /\ d \in parents
    \/ /\ EnqueueDerived /\ c = Here /\ base = BaseHandle(d.h)
       /\ \E n \in Ready(derived[Here]) : d = derived[Here][n]

LEMMA CreatingItems ==
    ASSUME Shape, Creating
    PROVE  \E items \in Seq(Jobs), c \in Ctx :
              /\ Enqueue(items, c)
              /\ \A k \in DOMAIN items : \E d \in Pipes, base \in Handles, ub \in BOOLEAN :
                    items[k] = CreateItem(d, c, Offset(order), base, ub) /\ Source(d, c, base)
              /\ pipelines' = [h \in Hash |-> IF h \in Entered(items) /\ pipelines[h] = "absent"
                                             THEN "null" ELSE pipelines[h]]
<1>1. Within /\ MainTypes /\ Ctl /\ SharedTypes
  BY BatchedFacts DEF Batched, Creating, Shape
<1>2. PICK off \in Nat : off = Offset(order) /\ tag \in Tag
  BY <1>1, OffsetType
<1>3. PICK infos \in Seq(Pipes), c \in Ctx : \E bases :
         /\ \A k \in DOMAIN infos : bases[infos[k].h] \in Handles
         /\ \A k \in DOMAIN infos : Source(infos[k], c, bases[infos[k].h])
         /\ EnqueuePipelines(infos, c, Offset(order), bases)
  <2>1. CASE EnqueuePrimary
    <3>1. PICK b \in Ctx : b = Here
      BY <1>1, <2>1, HereFacts DEF InContext, EnqueuePrimary, Ctx
    <3>2. PICK infos \in Seq(Pipes) : \E bases :
              /\ \A k \in DOMAIN infos : \E n \in DOMAIN deferred[tag][Here] : infos[k] = deferred[tag][Here][n]
              /\ \A k \in DOMAIN infos : bases[infos[k].h] = (IF Derived(infos[k].h) THEN "raw" ELSE "none")
              /\ \A k \in DOMAIN infos : bases[infos[k].h] \in Handles
              /\ EnqueuePipelines(infos, Here, Offset(order), bases)
      BY <1>1, <2>1, PrimaryEnqueued
    <3>3. PICK bases :
              /\ \A k \in DOMAIN infos : \E n \in DOMAIN deferred[tag][Here] : infos[k] = deferred[tag][Here][n]
              /\ \A k \in DOMAIN infos : bases[infos[k].h] = (IF Derived(infos[k].h) THEN "raw" ELSE "none")
              /\ \A k \in DOMAIN infos : bases[infos[k].h] \in Handles
              /\ EnqueuePipelines(infos, b, Offset(order), bases)
      BY <3>1, <3>2
    <3>4. \A k \in DOMAIN infos : Source(infos[k], b, bases[infos[k].h])
      BY <2>1, <3>1, <3>3 DEF Source
    <3>5. QED
      BY <3>3, <3>4
  <2>2. CASE EnqueueParents
    <3>1. PICK b \in Ctx : b = PARENT
      BY <1>1, OffsetType
    <3>2. PICK infos \in Seq(Pipes) : \E bases :
              /\ \A k \in DOMAIN infos : infos[k] \in parents
              /\ \A k \in DOMAIN infos : bases[infos[k].h] = "none"
              /\ \A k \in DOMAIN infos : bases[infos[k].h] \in Handles
              /\ EnqueuePipelines(infos, PARENT, Offset(order), bases)
      BY <1>1, <2>2, ParentsEnqueued
    <3>3. PICK bases :
              /\ \A k \in DOMAIN infos : infos[k] \in parents
              /\ \A k \in DOMAIN infos : bases[infos[k].h] = "none"
              /\ \A k \in DOMAIN infos : bases[infos[k].h] \in Handles
              /\ EnqueuePipelines(infos, b, Offset(order), bases)
      BY <3>1, <3>2
    <3>4. \A k \in DOMAIN infos : Source(infos[k], b, bases[infos[k].h])
      BY <2>2, <3>1, <3>3 DEF Source
    <3>5. QED
      BY <3>3, <3>4
  <2>3. CASE EnqueueDerived
    <3>1. PICK b \in Ctx : b = Here
      BY <1>1, <2>3, HereFacts DEF InContext, EnqueueDerived, Ctx
    <3>2. PICK infos \in Seq(Pipes) : \E bases :
              /\ \A k \in DOMAIN infos : \E n \in Ready(derived[Here]) : infos[k] = derived[Here][n]
              /\ \A k \in DOMAIN infos : bases[infos[k].h] = BaseHandle(infos[k].h)
              /\ \A k \in DOMAIN infos : bases[infos[k].h] \in Handles
              /\ EnqueuePipelines(infos, Here, Offset(order), bases)
      BY <1>1, <2>3, DerivedEnqueued
    <3>3. PICK bases :
              /\ \A k \in DOMAIN infos : \E n \in Ready(derived[Here]) : infos[k] = derived[Here][n]
              /\ \A k \in DOMAIN infos : bases[infos[k].h] = BaseHandle(infos[k].h)
              /\ \A k \in DOMAIN infos : bases[infos[k].h] \in Handles
              /\ EnqueuePipelines(infos, b, Offset(order), bases)
      BY <3>1, <3>2
    <3>4. \A k \in DOMAIN infos : Source(infos[k], b, bases[infos[k].h])
      BY <2>3, <3>1, <3>3 DEF Source
    <3>5. QED
      BY <3>3, <3>4
  <2>4. QED
    BY <2>1, <2>2, <2>3 DEF Creating
<1>4. PICK bases : /\ \A k \in DOMAIN infos : bases[infos[k].h] \in Handles
                   /\ \A k \in DOMAIN infos : Source(infos[k], c, bases[infos[k].h])
                   /\ EnqueuePipelines(infos, c, off, bases)
  BY <1>2, <1>3
<1>5. PICK ub \in BOOLEAN, items \in Seq(Jobs) :
           /\ DOMAIN items = DOMAIN infos
           /\ \A k \in DOMAIN items : items[k] = CreateItem(infos[k], c, off, bases[infos[k].h], ub)
           /\ Enqueue(items, c)
           /\ pipelines' = [h \in Hash |-> IF h \in Entered(items) /\ pipelines[h] = "absent"
                                             THEN "null" ELSE pipelines[h]]
  BY <1>1, <1>2, <1>4, PipelinesEnqueued
<1>6. ASSUME NEW k \in DOMAIN items
      PROVE  \E d \in Pipes, base \in Handles, u \in BOOLEAN :
                items[k] = CreateItem(d, c, off, base, u) /\ Source(d, c, base)
  <2>1. infos[k] \in Pipes /\ bases[infos[k].h] \in Handles /\ Source(infos[k], c, bases[infos[k].h])
    BY <1>4, <1>5, <1>6
  <2>2. items[k] = CreateItem(infos[k], c, off, bases[infos[k].h], ub)
    BY <1>5, <1>6
  <2>3. QED
    BY <2>1, <2>2
<1>7. QED
  BY <1>2, <1>5, <1>6

\* What a pass enters into pipelines.
LEMMA EnteredBy ==
    ASSUME Shape, Creating
    PROVE  /\ \A h \in Hash : ~Absent(h) => pipelines'[h] = pipelines[h]
           /\ \A h \in Hash : Absent(h) /\ ~Absent(h)' =>
                 \E d \in Pipes, c \in Ctx, base \in Handles : Source(d, c, base) /\ d.h = h
<1>1. PICK items \in Seq(Jobs), c \in Ctx :
              /\ \A k \in DOMAIN items : \E d \in Pipes, base \in Handles, ub \in BOOLEAN :
                    items[k] = CreateItem(d, c, Offset(order), base, ub) /\ Source(d, c, base)
              /\ pipelines' = [h \in Hash |-> IF h \in Entered(items) /\ pipelines[h] = "absent"
                                             THEN "null" ELSE pipelines[h]]
  BY CreatingItems
<1>2. \A k \in DOMAIN items : \E d \in Pipes, base \in Handles : items[k].h = d.h /\ Source(d, c, base)
  BY <1>1, CreateFields
<1>3. \A h \in Entered(items) : \E k \in DOMAIN items : items[k].h = h
  BY DEF Entered
<1>4. \A h \in Hash : pipelines'[h] = IF h \in Entered(items) /\ pipelines[h] = "absent"
                                             THEN "null" ELSE pipelines[h]
  BY <1>1
<1>5. QED
  BY <1>2, <1>3, <1>4 DEF Absent

LEMMA EdgeType ==
    ASSUME Shape, Within
    PROVE  /\ Edge \in Nat /\ Spot(0, 0) <= Edge /\ Edge <= Spot(2, 0)
           /\ Spot(1, 0) \in Nat /\ Spot(2, 0) \in Nat /\ Spot(0, 0) <= Spot(1, 0) /\ Spot(1, 0) <= Spot(2, 0)
           /\ \A c \in {0, 1} : Bound(c) \in Nat /\ Spot(c, 0) <= Bound(c) /\ Bound(c) <= Spot(2, 0)
<1>1. PICK x \in Nat, P \in Nat : /\ x = Spot(0, 0) /\ P = PerContext
                                  /\ Spot(1, 0) = x + P /\ Spot(2, 0) = x + 2 * P
  BY Spots
<1>2. Edge \in {x, x + P, x + 2 * P}
  BY <1>1 DEF Edge
<1>3. \A c \in {0, 1} : Bound(c) = Spot(c, 0) \/ Bound(c) = Spot(2, 0)
  BY DEF Bound
<1>4. QED
  BY <1>1, <1>2, <1>3

LEMMA SlotReach ==
    ASSUME Shape, Within, NEW c \in {0, 1}, NEW d \in Pipes, SlotWindow(c), PlaceOK(d, c)
    PROVE  d.h \in Upto(Spot(c + 1, 0))
<1>1. PICK x \in Nat, P \in Nat : /\ x = Spot(0, 0) /\ P = PerContext
                                  /\ Spot(1, 0) = x + P /\ Spot(2, 0) = x + 2 * P
                                  /\ \A b \in {0, 1, 2} : \A k \in Nat : Spot(b, k) = Spot(b, 0) + k
  BY Spots
<1>2. PICK m \in Nat, n \in Nat : m = Spot(c, 0) /\ n = Spot(c + 1, 0) /\ n = m + P
  BY <1>1
<1>3. CASE Placed(d, c)
  <2>1. d.index \in Nat /\ d.index + 1 \in Nat
    BY DEF Pipes, InfoSet
  <2>2. Spot(c, d.index + 1) = m + (d.index + 1)
    BY <1>1, <1>2, <2>1
  <2>3. Spot(c, d.index + 1) <= n
    BY <1>1, <1>2, <1>3, <2>1, <2>2 DEF Placed
  <2>4. QED
    BY <1>2, <1>3, <2>3 DEF Placed, Upto
<1>4. CASE Old(d, c)
  <2>1. Upto(m) \subseteq Upto(n)
    BY <1>2, UptoMore
  <2>2. QED
    BY <1>2, <1>4, <2>1 DEF Old
<1>5. QED
  BY <1>3, <1>4 DEF PlaceOK

LEMMA PrimaryPlace ==
    ASSUME Shape, EnqueuePrimary
    PROVE  Within /\ Here \in {0, 1} /\ Pos = 10 * Here + 61 /\ SlotWindow(Here)
<1>1. /\ Within /\ Here \in {0, 1} /\ (Here = 1 => Second) /\ Pos = 10 * Here + 61
  BY HereFacts, Where DEF InContext, EnqueuePrimary, Shape
<1>2. QED
  BY <1>1 DEF SlotWindow

LEMMA EnteredBehind ==
    ASSUME Shape, Places, Creating, NEW h \in Hash, Absent(h), ~Absent(h)'
    PROVE  (EnqueueParents /\ h \in outside) \/ (~EnqueueParents /\ h \in Upto(Edge)')
<1>0. Batched /\ Same /\ Within /\ tag' = tag /\ tag # "done"
  <2>1. Batched
    BY DEF Batched, Creating
  <2>2. QED
    BY <2>1, BatchedMoves DEF Same, Within, Tag
<1>1. PICK p \in Nat : p = Pos /\ Pos' = p + 1
  BY <1>0, BatchedMoves
<1>2. PICK d \in Pipes, c \in Ctx, base \in Handles : Source(d, c, base) /\ d.h = h
  BY EnteredBy
<1>3. Edge' = IF p + 1 <= 61 THEN Spot(0, 0) ELSE IF p + 1 <= 71 THEN Spot(1, 0) ELSE Spot(2, 0)
  BY <1>0, <1>1 DEF Edge, Same
<1>4. \A n : Upto(n)' = Upto(n)
  BY <1>0, UptoSame
<1>5. CASE EnqueuePrimary
  <2>1. /\ Here \in {0, 1} /\ p = 10 * Here + 61 /\ SlotWindow(Here) /\ ~EnqueueParents
    BY <1>1, <1>5, PrimaryPlace, BatchedPos
  <2>2. PICK b \in {0, 1} : b = Here
    BY <2>1
  <2>3. ~EnqueueParents /\ ~EnqueueDerived
    BY <1>5 DEF EnqueuePrimary, EnqueueParents, EnqueueDerived, Doing
  <2>4. PICK n \in DOMAIN deferred[tag][b] : d = deferred[tag][b][n]
    BY <1>2, <2>2, <2>3 DEF Source
  <2>5. d.h # NoHash
    BY ReplayerAssumption DEF Pipes
  <2>6. PlaceOK(d, b)
    BY <1>0, <2>4, <2>5 DEF Places, PlaceInv
  <2>7. d.h \in Upto(Spot(b + 1, 0))
    BY <1>0, <2>1, <2>2, <2>6, SlotReach
  <2>8. Edge' = Spot(b + 1, 0)
    BY <1>3, <2>1, <2>2
  <2>9. h \in Upto(Edge')
    BY <1>2, <2>7, <2>8
  <2>10. QED
    BY <1>0, <2>1, <2>9 DEF Upto
<1>6. CASE EnqueueParents
  <2>1. ~EnqueuePrimary /\ ~EnqueueDerived
    BY <1>6 DEF EnqueuePrimary, EnqueueParents, EnqueueDerived, Doing
  <2>2. d \in parents
    BY <1>2, <2>1 DEF Source
  <2>3. QED
    BY <1>0, <1>2, <1>6, <2>2 DEF Places, KinInv
<1>7. CASE EnqueueDerived
  <2>1. ~EnqueuePrimary /\ ~EnqueueParents
    BY <1>7 DEF EnqueuePrimary, EnqueueParents, EnqueueDerived, Doing
  <2>2. PICK n \in Ready(derived[Here]) : d = derived[Here][n]
    BY <1>2, <2>1 DEF Source
  <2>3. Here \in {0, 1} /\ p = 8 * Here + 122
    BY <1>1, <1>7, BatchedPos
  <2>4. d.h \in Upto(Spot(2, 0))
    BY <1>0, <2>2, <2>3 DEF Places, LaterInv, Ready
  <2>5. Edge' = Spot(2, 0)
    BY <1>3, <2>3
  <2>6. h \in Upto(Edge')
    BY <1>2, <2>4, <2>5
  <2>7. QED
    BY <1>0, <2>1, <2>6 DEF Upto
<1>8. QED
  BY <1>5, <1>6, <1>7 DEF Creating

\* Between two batches nothing is left over.
LEMMA BetweenEmpty == WindowInv /\ Contents /\ (Pos = 0 \/ ~Within) => LaterInv /\ KinInv /\ TurnInv
<1>1. SUFFICES ASSUME WindowInv, Contents, Pos = 0 \/ ~Within
               PROVE  LaterInv /\ KinInv /\ TurnInv
  OBVIOUS
<1>2. \A c \in {0, 1} : ~DerivedWindow(c) /\ ~ParseWindow(c)
  BY <1>1 DEF DerivedWindow, ParseWindow
<1>3. LaterInv
  BY <1>1, <1>2 DEF LaterInv, Contents, DerivedInv
<1>4. KinInv
  BY <1>1 DEF KinInv, Contents, ParentInv
<1>5. ASSUME tag # "done", NEW i \in Items PROVE ~InParse(i) /\ ~OutParse(i)
  <2>1. WindowOK(i)
    BY <1>1, <1>5 DEF WindowInv
  <2>2. QED
    BY <1>1, <1>2, <2>1 DEF WindowOK
<1>6. TurnInv
  BY <1>5 DEF TurnInv, TurnOK
<1>7. QED
  BY <1>3, <1>4, <1>6

LEMMA BetweenEmptyNext == (WindowInv /\ Contents /\ (Pos = 0 \/ ~Within) => LaterInv /\ KinInv /\ TurnInv)'
BY BetweenEmpty, PTL

LEMMA OutsideControl ==
    ASSUME Shape, Control
    PROVE  /\ tag' = tag \/ tag' = "done" => outside' = outside
           /\ tag' # tag => (tag' \in {"end", "done"} \/ (tag = "graphics" /\ tag' = "compute" /\ outside' = {}))
BY DEF Control, AwaitBoot, Advance, SyncContext, TearDown, Join, Shape, MainTypes, Tag

LEMMA PlacesControl ==
    ASSUME Shape, WindowInv', Contents', Places, Control, tag # "done"
    PROVE  Places'
<1>0. /\ UNCHANGED <<start, deferred, derived, parents, pipelines, epoch>> /\ Items' = Items
  BY ControlFacts
<1>1. ValidInv' /\ \A h : Absent(h)' <=> Absent(h)
  BY <1>0 DEF Places, ValidInv, Create, Absent
<1>2. \A t : Fresh(t)' <=> Fresh(t)
  BY <1>0 DEF Fresh, Absent
<1>3. CASE Same /\ On
  <2>a. Within /\ Within'
    BY <1>3 DEF Same
  <2>b. PICK p \in Nat : p = Pos
    BY <2>a, TableHolds DEF Shape
  <2>0. PICK q \in Nat : q = Pos'
    BY <1>3, <2>b DEF On
  <2>1. outside' = outside /\ tag' = tag /\ tag \in Tag
    BY <1>3, OutsideControl DEF Same, Within
  <2>2. FreshInv' /\ OutsideInv'
    <3>2. order' # -1
      BY <2>a DEF Within
    <3>3. QED
      BY <1>2, <2>1, <3>2 DEF Places, FreshInv, OutsideInv
  <2>3. PICK x \in Nat, y \in Nat, z \in Nat :
            x = Spot(0, 0) /\ y = Spot(1, 0) /\ z = Spot(2, 0) /\ x <= y /\ y <= z
    BY <2>a, EdgeType, Spots
  <2>4. Spot(0, 0)' = x /\ Spot(1, 0)' = y /\ Spot(2, 0)' = z
    BY <1>3, <2>3 DEF Same
  <2>5. (p <= 61 \/ q > 61) /\ (p <= 71 \/ q > 71) /\ \A c \in {0, 1} : p <= 10 * c + 1 \/ q > 10 * c + 1
    BY <1>3, <2>b, <2>0 DEF On
  <2>6. PICK e \in Nat, f \in Nat : e = Edge /\ f = Edge' /\ e <= f
    BY <2>b, <2>0, <2>3, <2>4, <2>5 DEF Edge
  <2>7. AheadInv'
    <3>1. DOMAIN List[tag] = 1..Len(List[tag]) /\ Len(List[tag]) \in Nat
      BY <1>3, Spots DEF Same
    <3>2. \A k \in DOMAIN List[tag] : k > f => k > e
      BY <2>6, <3>1
    <3>3. QED
      BY <1>1, <1>3, <2>1, <2>6, <3>2 DEF Places, AheadInv, Same
  <2>8. \A n : Upto(n)' = Upto(n)
    BY <2>1, UptoSame
  <2>9. PlaceInv'
    <3>1. \A c \in {0, 1} : SlotWindow(c)' => SlotWindow(c)
      BY <1>3, <2>b, <2>0 DEF Same, On, SlotWindow
    <3>2. SUFFICES ASSUME NEW c \in {0, 1}, NEW k \in DOMAIN deferred[tag][c],
                          deferred[tag][c][k].h # NoHash
                   PROVE  PlaceOK(deferred[tag][c][k], c)'
      BY <1>0, <2>1 DEF PlaceInv
    <3>3. PICK d : d = deferred[tag][c][k]
      OBVIOUS
    <3>4. PlaceOK(d, c)
      BY <1>3, <3>2, <3>3 DEF Places, PlaceInv, Same
    <3>5. PICK m \in Nat, n \in Nat : m = Bound(c) /\ n = Bound(c)' /\ m <= n
      BY <2>b, <2>0, <2>3, <2>4, <2>5 DEF Bound
    <3>6. Upto(m) \subseteq Upto(n)
      BY <1>3, <3>5, UptoMore DEF Same
    <3>7. d.h \in Upto(n)
      BY <3>4, <3>5, <3>6 DEF PlaceOK
    <3>8. Placed(d, c)' <=> Placed(d, c)
      BY <1>3, <2>1 DEF Placed, Same
    <3>9. Old(d, c)' <=> Old(d, c)
      BY <1>0, <1>3, <2>8 DEF Old, Same
    <3>10. (d.h \in Upto(Bound(c)))'
      BY <2>1, <3>5, <3>7 DEF Upto
    <3>11. QED
      BY <1>0, <1>1, <2>1, <3>1, <3>3, <3>4, <3>8, <3>9, <3>10 DEF PlaceOK
  <2>10. LaterInv'
    <3>1. Upto(Spot(2, 0))' = Upto(Spot(2, 0))
      BY <2>1, <2>3, <2>4 DEF Upto
    <3>2. QED
      BY <1>0, <2>1, <3>1 DEF Places, LaterInv
  <2>11. KinInv' /\ TurnInv'
    BY <1>0, <1>1, <1>3, <2>1 DEF Places, KinInv, TurnInv, TurnOK, InParse, OutParse, Same
  <2>12. QED
    BY <1>1, <2>2, <2>7, <2>9, <2>10, <2>11 DEF Places
<1>4. CASE Advance /\ OnTo
  <2>1. outside' = outside /\ tag' = tag /\ tag \in Tag /\ Within /\ Within' /\ Pos = 131 /\ Pos' = 0
    BY <1>4, OutsideControl DEF OnTo, Within
  <2>2. LaterInv' /\ KinInv' /\ TurnInv'
    BY <2>1, BetweenEmptyNext
  <2>3. FreshInv' /\ OutsideInv'
    <3>1. order' # -1
      BY <2>1 DEF Within
    <3>2. QED
      BY <1>2, <2>1, <3>1 DEF Places, FreshInv, OutsideInv
  <2>4. PICK z \in Nat : z = Spot(2, 0) /\ Spot(0, 0)' = z /\ Spot(1, 0)' = z + PerContext
    <3>1. PICK B \in Nat, P \in Nat \ {0}, s \in Nat : B = Batch /\ P = PerContext /\ s = start[tag]
      BY <2>1, PhaseFacts, ReplayerAssumption DEF Shape, MainTypes
    <3>2. Spot(0, 0)' = s + (2 * (B + 1) + 0) * P + 0 /\ Spot(2, 0) = s + (2 * B + 2) * P + 0
          /\ Spot(1, 0)' = s + (2 * (B + 1) + 1) * P + 0
      BY <1>0, <1>4, <2>1, <3>1 DEF OnTo, Spot
    <3>3. s + (2 * (B + 1) + 0) * P + 0 = s + (2 * B + 2) * P + 0 /\ s + (2 * B + 2) * P + 0 \in Nat
          /\ s + (2 * (B + 1) + 1) * P + 0 = s + (2 * B + 2) * P + 0 + P
      BY <3>1
    <3>4. QED
      BY <3>1, <3>2, <3>3
  <2>5. Edge = z /\ Edge' = z /\ \A c \in {0, 1} : Bound(c) = z
    BY <2>1, <2>4 DEF Edge, Bound
  <2>6. AheadInv'
    BY <1>1, <2>1, <2>5 DEF Places, AheadInv
  <2>7. PlaceInv'
    <3>1. \A c \in {0, 1} : ~SlotWindow(c)'
      BY <2>1 DEF SlotWindow
    <3>2. SUFFICES ASSUME NEW c \in {0, 1}, NEW k \in DOMAIN deferred[tag][c],
                          deferred[tag][c][k].h # NoHash
                   PROVE  PlaceOK(deferred[tag][c][k], c)'
      BY <1>0, <2>1 DEF PlaceInv
    <3>3. PICK d : d = deferred[tag][c][k]
      OBVIOUS
    <3>4. PlaceOK(d, c)
      BY <2>1, <3>2, <3>3 DEF Places, PlaceInv
    <3>5. PICK n \in Nat : n = Bound(c)' /\ z <= n
      <4>1. PerContext \in Nat
        BY ReplayerAssumption
      <4>2. Bound(c)' = Spot(c, 0)'
        BY <2>1 DEF Bound
      <4>3. QED
        BY <2>4, <4>1, <4>2
    <3>6. d.h \in Upto(n)
      BY <2>1, <2>5, <3>4, <3>5, UptoMore DEF PlaceOK
    <3>7. (d.h \in Upto(Bound(c)))'
      BY <2>1, <3>5, <3>6 DEF Upto
    <3>8. QED
      BY <1>0, <2>1, <3>1, <3>3, <3>4, <3>7 DEF PlaceOK
  <2>8. QED
    BY <1>1, <2>2, <2>3, <2>6, <2>7 DEF Places
<1>5. CASE Advance /\ Into
  <2>1. outside' = outside /\ tag' = tag /\ tag \in Tag /\ Within' /\ order = -1 /\ Pos' = 0
    BY <1>5, OutsideControl DEF Into, Within
  <2>2. LaterInv' /\ KinInv' /\ TurnInv'
    BY <2>1, BetweenEmptyNext
  <2>3. FreshInv' /\ OutsideInv'
    <3>1. order' # -1
      BY <2>1 DEF Within
    <3>2. QED
      BY <1>2, <2>1, <3>1 DEF Places, FreshInv, OutsideInv
  <2>4. Fresh(tag)
    BY <2>1 DEF Places, FreshInv
  <2>5. AheadInv' /\ PlaceInv'
    BY <1>0, <1>1, <2>1, <2>4 DEF Fresh, AheadInv, PlaceInv
  <2>6. QED
    BY <1>1, <2>2, <2>3, <2>5 DEF Places
<1>6. CASE ~Within'
  <2>1. LaterInv' /\ KinInv' /\ TurnInv'
    BY <1>6, BetweenEmptyNext
  <2>2. AheadInv' /\ PlaceInv'
    BY <1>6 DEF AheadInv, PlaceInv
  <2>3. CASE tag' = tag
    <3>1. tag \in Tag => order = -1
      <4>1. CASE Within
        BY <1>6, <4>1, <2>3, ControlMoves, Turn
           DEF Same, Shape, Control, OnIn, OnTo, Past, Into, Tag, AwaitBoot, SyncContext, TearDown, Join, Within
      <4>2. CASE ~Within
        BY <4>2 DEF Within, Shape, MainTypes
      <4>3. QED
        BY <4>1, <4>2
    <3>2. outside' = outside
      BY <2>3, OutsideControl
    <3>3. QED
      BY <1>1, <1>2, <2>1, <2>2, <2>3, <3>1, <3>2 DEF Places, FreshInv, OutsideInv
  <2>4. CASE tag' # tag
    <3>1. tag' \in {"end", "done"} \/ (tag = "graphics" /\ tag' = "compute" /\ outside' = {})
      BY <2>4, OutsideControl
    <3>2. QED
      BY <1>1, <1>2, <2>1, <2>2, <3>1 DEF Places, FreshInv, OutsideInv, Tag
  <2>5. QED
    BY <2>3, <2>4
<1>7. QED
  <2>1. CASE Advance
    <3>1. OnIn => Same /\ On
      BY <1>0, SameSpots DEF OnIn, Same, On
    <3>2. QED
      BY <1>3, <1>4, <1>5, <1>6, <2>1, <3>1, Turn DEF Shape, Past
  <2>2. CASE ~Advance
    <3>1. CASE Within
      <4>1. Doing("sync")
        BY <2>2, <3>1, Where DEF Control, AwaitBoot, SyncContext, TearDown, Join, Shape
      <4>2. Pos # 131 /\ Pos # 123
        BY <3>1, <4>1, Where DEF Shape
      <4>3. QED
        BY <1>3, <3>1, <4>2, ControlMoves DEF Out
    <3>3. CASE ~Within
      BY <1>6, <2>2, <3>3 DEF Control, AwaitBoot, SyncContext, TearDown, Join, Within, Tag
    <3>4. QED
      BY <3>1, <3>3
  <2>3. QED
    BY <2>1, <2>2

\* A pass takes no entry away, and only those that compile make one.
LEMMA EntriesKept ==
    ASSUME Shape, Batched
    PROVE  /\ ~Creating => pipelines' = pipelines
           /\ \A h \in Hash : Absent(h)' => Absent(h)
           /\ ~EnqueueOutside => outside' = outside
           /\ ~EnqueueOutside /\ ~EnqueueModules /\ ~EnqueueDerived => derived' = derived
           /\ ~EnqueueParents => parents' = parents
           /\ EnqueueParents => parents' = {}
           /\ ~Parse /\ ~EnqueueModules => deferred' = deferred
<1>1. ~Creating => pipelines' = pipelines
  BY DEF Batched, Creating, Parse, Prune, EnqueueModules, EnqueueOutside, EnqueueParentModules, Reclaim
<1>2. \A h \in Hash : Absent(h)' => Absent(h)
  <2>1. CASE Creating
    BY <2>1, EnteredBy DEF Absent
  <2>2. CASE ~Creating
    BY <1>1, <2>2 DEF Absent
  <2>3. QED
    BY <2>1, <2>2
<1>3. ~EnqueueOutside => outside' = outside
  BY DEF Batched, Parse, Prune, EnqueueModules, EnqueueParentModules, Reclaim, EnqueuePrimary,
         EnqueueParents, EnqueueDerived
<1>4. ~EnqueueModules /\ ~EnqueueDerived => derived' = derived
  BY DEF Batched, Parse, Prune, EnqueueOutside, EnqueueParentModules, Reclaim, EnqueuePrimary, EnqueueParents
<1>5. ~EnqueueParents => parents' = parents
  BY DEF Batched, Parse, Prune, EnqueueModules, EnqueueOutside, EnqueueParentModules, Reclaim,
         EnqueuePrimary, EnqueueDerived
<1>6. EnqueueParents => parents' = {}
  BY DEF EnqueueParents
<1>7. ~Parse /\ ~EnqueueModules => deferred' = deferred
  BY DEF Batched, Prune, EnqueueOutside, EnqueueParentModules, Reclaim, EnqueuePrimary, EnqueueParents,
         EnqueueDerived
<1>8. QED
  BY <1>1, <1>2, <1>3, <1>4, <1>5, <1>6, <1>7

\* The workload that is not being run.
LEMMA FreshBatched ==
    ASSUME Shape, Places, Batched
    PROVE  FreshInv'
<1>0. Same /\ tag' = tag /\ tag \in Tag /\ Within'
  BY BatchedMoves DEF Same, Within
<1>1. order' # -1
  BY <1>0 DEF Within
<1>2. SUFFICES ASSUME tag = "graphics" PROVE Fresh("compute")'
  BY <1>0, <1>1 DEF FreshInv
<1>3. Fresh("compute") /\ "compute" \in Tag
  BY <1>2 DEF Places, FreshInv, Tag
<1>4. deferred'["compute"] = deferred["compute"]
  <2>1. deferred \in [Tag -> [{0, 1} -> Seq(InfoSet)]]
    BY DEF Shape, MainTypes
  <2>2. CASE Parse
    BY <1>2, <1>3, <2>1, <2>2 DEF Parse
  <2>3. CASE EnqueueModules
    BY <1>2, <1>3, <2>1, <2>3 DEF EnqueueModules
  <2>4. CASE ~Parse /\ ~EnqueueModules
    BY <2>4, EntriesKept
  <2>5. QED
    BY <2>2, <2>3, <2>4
<1>5. ASSUME NEW p \in DOMAIN List["compute"] PROVE Absent(List["compute"][p])'
  <2>1. PICK h \in Hash : h = List["compute"][p]
    BY <1>3, <1>5, ReplayerAssumption
  <2>2. h \in ToSet(List["compute"]) /\ Absent(h)
    BY <1>3, <1>5, <2>1 DEF ToSet, Fresh
  <2>3. CASE Creating
    <3>1. SUFFICES ASSUME ~Absent(h)' PROVE FALSE
      BY <2>1
    <3>2. h \in outside \/ h \in Upto(Edge)'
      BY <2>2, <2>3, <3>1, EnteredBehind
    <3>3. PICK n : n = Edge'
      OBVIOUS
    <3>4. h \in outside \/ h \in Upto(n)
      BY <1>0, <3>2, <3>3 DEF Upto
    <3>5. CASE h \in outside
      BY <1>0, <1>2, <1>3, <2>2, <3>5 DEF Places, OutsideInv
    <3>6. CASE h \in Upto(n)
      BY <1>0, <1>2, <1>3, <2>2, <3>6, OwnHash
    <3>7. QED
      BY <3>4, <3>5, <3>6
  <2>4. CASE ~Creating
    BY <2>1, <2>2, <2>4, EntriesKept DEF Absent
  <2>5. QED
    BY <2>3, <2>4
<1>6. QED
  BY <1>3, <1>4, <1>5 DEF Fresh

LEMMA OutsideBatched ==
    ASSUME Shape, Places, Batched
    PROVE  OutsideInv' /\ outside \subseteq outside'
<1>0. Same /\ tag' = tag /\ tag \in Tag /\ tag # "done"
  BY BatchedMoves DEF Same, Within, Tag
<1>1. CASE EnqueueOutside
  <2>1. outside' = outside \cup {Base[derived[Here][k].h] : k \in Wanted(derived[Here])}
    BY <1>1, OutsideEnqueued DEF Shape
  <2>2. Here \in {0, 1}
    BY <1>1, Where DEF Shape, EnqueueOutside
  <2>3. ASSUME NEW k \in Wanted(derived[Here]), NEW u \in Tag, u # tag
        PROVE  Base[derived[Here][k].h] \notin ToSet(List[u])
    <3>1. k \in DOMAIN derived[Here]
      BY <2>3 DEF Wanted
    <3>2. derived[Here][k].h \in Upto(Spot(2, 0))
      BY <1>0, <2>2, <3>1 DEF Places, LaterInv
    <3>3. PICK n, h : n = Spot(2, 0) /\ h = derived[Here][k].h /\ h \in Upto(n)
      BY <3>2
    <3>4. QED
      BY <1>0, <2>3, <3>3, OwnHash
  <2>4. QED
    BY <1>0, <2>1, <2>3 DEF Places, OutsideInv
<1>2. CASE ~EnqueueOutside
  BY <1>0, <1>2, EntriesKept DEF Places, OutsideInv
<1>3. QED
  BY <1>1, <1>2

LEMMA EdgeGrows ==
    ASSUME Shape, Batched
    PROVE  /\ Edge \in Nat /\ Edge' \in Nat /\ Edge <= Edge'
           /\ \A c \in {0, 1} : Bound(c) \in Nat /\ Bound(c)' \in Nat /\ Bound(c) <= Bound(c)'
<1>1. Same /\ Within
  BY BatchedMoves DEF Same
<1>2. PICK p \in Nat : p = Pos /\ Pos' = p + 1
  BY BatchedMoves
<1>3. PICK x \in Nat, y \in Nat, z \in Nat :
            x = Spot(0, 0) /\ y = Spot(1, 0) /\ z = Spot(2, 0) /\ x <= y /\ y <= z
  BY <1>1, EdgeType, Spots
<1>4. Spot(0, 0)' = x /\ Spot(1, 0)' = y /\ Spot(2, 0)' = z
  BY <1>1, <1>3 DEF Same
<1>5. Edge \in Nat /\ Edge' \in Nat /\ Edge <= Edge'
  BY <1>2, <1>3, <1>4 DEF Edge
<1>6. \A c \in {0, 1} : Bound(c) \in Nat /\ Bound(c)' \in Nat /\ Bound(c) <= Bound(c)'
  BY <1>2, <1>3, <1>4 DEF Bound
<1>7. QED
  BY <1>5, <1>6

LEMMA AheadBatched ==
    ASSUME Shape, Places, Batched
    PROVE  AheadInv'
<1>0. Same /\ tag' = tag /\ tag \in Tag /\ Within
  BY BatchedMoves DEF Same, Within
<1>1. PICK e \in Nat, f \in Nat : e = Edge /\ f = Edge' /\ e <= f
  BY EdgeGrows
<1>2. /\ DOMAIN List[tag] = 1..Len(List[tag]) /\ Len(List[tag]) \in Nat
      /\ \A p \in DOMAIN List[tag] : List[tag][p] \in Hash
      /\ \A p, q \in DOMAIN List[tag] : List[tag][p] = List[tag][q] => p = q
  BY <1>0, Spots
<1>3. SUFFICES ASSUME NEW p \in DOMAIN List[tag], p > f, ~Absent(List[tag][p])', List[tag][p] \notin outside'
               PROVE  FALSE
  BY <1>0, <1>1 DEF AheadInv
<1>4. p > e
  BY <1>1, <1>2, <1>3
<1>5. PICK h \in Hash : h = List[tag][p]
  BY <1>2
<1>6. h \notin outside
  BY <1>3, <1>5, OutsideBatched
<1>7. Absent(h) /\ ~Absent(h)'
  BY <1>0, <1>1, <1>3, <1>4, <1>5, <1>6 DEF Places, AheadInv
<1>8. Creating
  BY <1>7, EntriesKept DEF Absent
<1>9. h \in Upto(Edge)'
  BY <1>6, <1>7, <1>8, EnteredBehind
<1>10. h \in Upto(f)
  BY <1>0, <1>1, <1>9 DEF Upto
<1>11. PICK q \in DOMAIN List[tag] : q <= f /\ h = List[tag][q]
  BY <1>10 DEF Upto
<1>a. p = q
  BY <1>2, <1>5, <1>11
<1>12. p = q /\ p \in Nat
  BY <1>2, <1>a
<1>13. QED
  BY <1>1, <1>3, <1>11, <1>12

\* The windows of the slots open with pass 0.
LEMMA SlotsOpen ==
    ASSUME Shape, Batched, NEW c \in {0, 1}, SlotWindow(c)'
    PROVE  SlotWindow(c) \/ (Parse /\ Here = c)
<1>1. Same
  BY BatchedMoves
<1>2. PICK p \in Nat : p = Pos /\ Pos' = p + 1
  BY BatchedMoves
<1>3. IF c = 0 THEN p + 1 \in 2..61 ELSE Second /\ p + 1 \in 12..71
  BY <1>1, <1>2 DEF SlotWindow, Same
<1>4. SlotWindow(c) \/ p = 10 * c + 1
  BY <1>1, <1>2, <1>3 DEF SlotWindow, Same
<1>5. SUFFICES ASSUME p = 10 * c + 1 PROVE Parse /\ Here = c
  BY <1>4
<1>6. PICK b : b = Here
  OBVIOUS
<1>7. Parse
  BY <1>2, <1>5, BatchedPos DEF Batched
<1>8. b \in {0, 1} /\ p = 10 * b + 1
  BY <1>2, <1>6, <1>7, BatchedPos
<1>9. QED
  BY <1>5, <1>6, <1>7, <1>8

\* A slot keeps its place in the other passes, and has no entry before its own.
LEMMA PlaceKept ==
    ASSUME Shape, Places, Batched, NEW c \in {0, 1}, NEW d \in Pipes, PlaceOK(d, c), epoch'[c] = epoch[c],
           SlotWindow(c)' => SlotWindow(c)
    PROVE  PlaceOK(d, c)'
<1>0. Same /\ tag' = tag /\ tag \in Tag /\ Within
  BY BatchedMoves DEF Same, Within
<1>1. PICK m \in Nat, n \in Nat : m = Bound(c) /\ n = Bound(c)' /\ m <= n
  BY EdgeGrows
<1>2. d.h \in Upto(n)
  BY <1>0, <1>1, UptoMore DEF PlaceOK
<1>3. (d.h \in Upto(Bound(c)))'
  BY <1>0, <1>1, <1>2 DEF Upto
<1>4. Old(d, c)' <=> Old(d, c)
  BY <1>0 DEF Old, Same, Upto
<1>5. Placed(d, c)' <=> Placed(d, c)
  BY <1>0 DEF Placed, Same
<1>6. ASSUME SlotWindow(c)', Placed(d, c), Absent(d.h) PROVE Absent(d.h)'
  <2>1. SUFFICES ASSUME ~Absent(d.h)' PROVE FALSE
    OBVIOUS
  <2>2. PICK h \in Hash : h = d.h
    BY DEF Pipes
  <2>3. Creating
    BY <1>6, <2>1, EntriesKept DEF Absent
  <2>4. PICK p \in Nat : p = Pos /\ Pos' = p + 1
    BY BatchedMoves
  <2>5. Pos \in {61, 71, 103, 122, 130}
    BY <2>3, BatchedPos DEF Creating
  <2>6. IF c = 0 THEN p + 1 \in 2..61 ELSE p + 1 \in 12..71
    BY <1>6, <2>4 DEF SlotWindow
  <2>7. c = 1 /\ p = 61 /\ ~EnqueueParents
    BY <2>4, <2>5, <2>6, BatchedPos
  <2>8. h \in Upto(Edge)'
    BY <1>6, <2>1, <2>2, <2>3, <2>7, EnteredBehind
  <2>9. PICK y \in Nat : y = Spot(1, 0) /\ Edge' = y
    BY <1>0, <2>4, <2>7, EdgeType DEF Edge, Same
  <2>10. h \in Upto(y)
    BY <1>0, <2>8, <2>9 DEF Upto
  <2>11. PICK q \in DOMAIN List[tag] : q <= y /\ h = List[tag][q]
    BY <2>10 DEF Upto
  <2>12. PICK r \in DOMAIN List[tag] : r = Spot(1, d.index + 1) /\ h = List[tag][r]
    BY <1>6, <2>2, <2>7 DEF Placed
  <2>13. q = r
    BY <1>0, <2>11, <2>12, Spots
  <2>14. d.index \in Nat /\ d.index + 1 \in Nat
    BY DEF Pipes, InfoSet
  <2>15. r = y + (d.index + 1)
    BY <1>0, <2>9, <2>12, <2>14, Spots
  <2>16. QED
    BY <2>9, <2>11, <2>13, <2>14, <2>15
<1>7. QED
  BY <1>3, <1>4, <1>5, <1>6 DEF PlaceOK

LEMMA PlaceBatched ==
    ASSUME Shape, Places, Batched
    PROVE  PlaceInv'
<1>0. Same /\ tag' = tag /\ tag \in Tag /\ Within
  BY BatchedMoves DEF Same, Within
<1>a. deferred \in [Tag -> [{0, 1} -> Seq(InfoSet)]] /\ epoch \in [Ctx -> Nat]
  BY DEF Shape, MainTypes, SharedTypes
<1>1. SUFFICES ASSUME NEW c \in {0, 1}, NEW k \in DOMAIN deferred'[tag][c], deferred'[tag][c][k].h # NoHash
               PROVE  PlaceOK(deferred[tag][c][k], c)'
  BY <1>0 DEF PlaceInv
<1>2. PICK d : d = deferred'[tag][c][k] /\ d = deferred'[tag'][c][k]
  BY <1>0
<1>b. SUFFICES PlaceOK(d, c)'
  BY <1>0, <1>2 DEF PlaceOK, Placed, Old, Absent
<1>3. CASE Parse /\ Here = c
  <2>1. PICK old \in Seq(InfoSet) : old = deferred[tag][c]
    BY <1>0, <1>a
  <2>2. deferred'[tag][c] = [i \in 1..Submit(tag, order) |-> Resized(old, i)]
    BY <1>0, <1>3, <1>a, <2>1 DEF Parse
  <2>3. d = Resized(old, k) /\ d.h # NoHash
    BY <1>1, <1>2, <2>2
  <2>4. NoInfo.h = NoHash
    BY DEF NoInfo
  <2>5. k \in DOMAIN old /\ d.h = old[k].h /\ d.ep = old[k].ep /\ old[k].h # NoHash
    <3>1. k \in 1..Submit(tag, order)
      BY <1>1, <2>2
    <3>2. k \in Nat /\ k >= 1
      <4>1. Submit(tag, order) \in Nat
        BY <1>0, <1>3, HereFacts, ChunkPlace DEF Parse, InContext, Shape
      <4>2. QED
        BY <3>1, <4>1
    <3>3. CASE Known(k) \/ k > Len(old)
      <4>1. d = [NoInfo EXCEPT !.from = HashAt(tag, order, k)]
        BY <2>3, <3>3 DEF Resized
      <4>2. QED
        BY <2>3, <4>1 DEF NoInfo
    <3>4. CASE ~(Known(k) \/ k > Len(old))
      <4>1. d = [old[k] EXCEPT !.from = HashAt(tag, order, k)]
        BY <2>3, <3>4 DEF Resized
      <4>2. k \in DOMAIN old
        BY <2>1, <3>2, <3>4
      <4>3. old[k] \in InfoSet
        BY <2>1, <4>2
      <4>4. d.h = old[k].h /\ d.ep = old[k].ep
        BY <4>1, <4>3 DEF InfoSet
      <4>5. QED
        BY <2>3, <4>2, <4>4
    <3>5. QED
      BY <3>3, <3>4
  <2>6. PlaceOK(old[k], c)
    BY <1>0, <2>1, <2>5 DEF Places, PlaceInv
  <2>7. Pos = 10 * c + 1 /\ Pos' = 10 * c + 2
    <3>1. Pos = 10 * c + 1
      BY <1>3, BatchedPos
    <3>2. QED
      BY <3>1, BatchedMoves
  <2>8. PICK m \in Nat, n \in Nat : m = Spot(c, 0) /\ n = Spot(2, 0) /\ Bound(c) = m /\ Bound(c)' = n /\ m <= n
    <3>1. Bound(c) = Spot(c, 0)
      BY <2>7 DEF Bound
    <3>2. Bound(c)' = Spot(2, 0)
      BY <1>0, <2>7 DEF Bound, Same
    <3>3. Spot(c, 0) \in Nat /\ Spot(2, 0) \in Nat /\ Spot(c, 0) <= Spot(2, 0)
      BY <1>0, <3>1, EdgeType
    <3>4. QED
      BY <3>1, <3>2, <3>3
  <2>9. d.h \in Upto(m) /\ d.ep <= epoch[c]
    BY <2>5, <2>6, <2>8 DEF PlaceOK
  <2>10. d.h \in Upto(n)
    BY <1>0, <2>8, <2>9, UptoMore
  <2>11. epoch'[c] = epoch[c] + 1 /\ epoch[c] \in Nat /\ d.ep \in Nat
    <3>1. c \in Ctx /\ epoch[c] \in Nat
      BY <1>a DEF Ctx
    <3>2. old[k] \in InfoSet
      BY <2>1, <2>5
    <3>3. QED
      BY <1>3, <1>a, <2>5, <3>1, <3>2 DEF Parse, InfoSet
  <2>12. d.ep <= epoch'[c] /\ d.ep < epoch'[c]
    BY <2>9, <2>11
  <2>13. Old(d, c)'
    BY <1>0, <2>8, <2>9, <2>12 DEF Old, Same, Upto
  <2>14. (d.h \in Upto(Bound(c)))'
    BY <1>0, <2>8, <2>10 DEF Upto
  <2>15. QED
    BY <2>12, <2>13, <2>14 DEF PlaceOK
<1>4. CASE ~(Parse /\ Here = c)
  <2>1. SlotWindow(c)' => SlotWindow(c)
    BY <1>4, SlotsOpen
  <2>2. epoch'[c] = epoch[c]
    <3>1. CASE Parse
      <4>1. Here # c
        BY <1>4, <3>1
      <4>2. epoch' = [epoch EXCEPT ![Here] = @ + 1]
        BY <3>1 DEF Parse
      <4>3. QED
        BY <1>a, <4>1, <4>2 DEF Ctx
    <3>2. CASE Reclaim
      BY <1>a, <3>2 DEF Reclaim, Ctx, PARENT
    <3>3. CASE ~Parse /\ ~Reclaim
      BY <3>3 DEF Batched, Prune, EnqueueModules, EnqueuePrimary, EnqueueOutside, EnqueueParentModules,
                  EnqueueParents, EnqueueDerived
    <3>4. QED
      BY <3>1, <3>2, <3>3
  <2>3. \E j \in DOMAIN deferred[tag][c] : d = deferred[tag][c][j]
    <3>1. CASE Parse
      <4>1. deferred'[tag][c] = deferred[tag][c]
        BY <1>0, <1>4, <1>a, <3>1 DEF Parse
      <4>2. QED
        BY <1>1, <1>2, <4>1
    <3>2. CASE EnqueueModules /\ Here = c
      <4>1. PICK sorted \in Seq(InfoSet), cut \in Nat :
              /\ ToSet(sorted) = ToSet(deferred[tag][c]) /\ cut \in 0..Len(sorted)
              /\ deferred' = [deferred EXCEPT ![tag][c] = SubSeq(sorted, 1, cut)]
        BY <3>2, Split DEF Shape
      <4>2. deferred'[tag][c] = SubSeq(sorted, 1, cut)
        BY <1>0, <1>a, <4>1
      <4>3. d \in ToSet(sorted)
        <5>0. /\ DOMAIN SubSeq(sorted, 1, cut) = 1..cut /\ Len(sorted) \in Nat /\ DOMAIN sorted = 1..Len(sorted)
              /\ \A n \in 1..cut : SubSeq(sorted, 1, cut)[n] = sorted[n]
          BY <4>1
        <5>a. k \in 1..cut /\ d = sorted[k]
          BY <1>1, <1>2, <4>2, <5>0
        <5>1. d = sorted[k] /\ k \in DOMAIN sorted
          BY <4>1, <5>0, <5>a
        <5>2. QED
          BY <5>1 DEF ToSet
      <4>4. QED
        BY <4>1, <4>3 DEF ToSet
    <3>3. CASE EnqueueModules /\ Here # c
      <4>1. deferred'[tag][c] = deferred[tag][c]
        BY <1>0, <1>a, <3>3 DEF EnqueueModules
      <4>2. QED
        BY <1>1, <1>2, <4>1
    <3>4. CASE ~Parse /\ ~EnqueueModules
      BY <1>1, <1>2, <3>4, EntriesKept
    <3>5. QED
      BY <3>1, <3>2, <3>3, <3>4
  <2>4. PICK j \in DOMAIN deferred[tag][c] : d = deferred[tag][c][j]
    BY <2>3
  <2>5. PlaceOK(d, c)
    BY <1>0, <1>1, <1>2, <2>4 DEF Places, PlaceInv
  <2>6. d \in Pipes
    <3>1. deferred[tag][c] \in Seq(InfoSet)
      BY <1>0, <1>a
    <3>2. d \in InfoSet
      BY <2>4, <3>1
    <3>3. QED
      BY <1>1, <1>2, <3>2 DEF Pipes, InfoSet
  <2>7. QED
    BY <2>1, <2>2, <2>5, <2>6, PlaceKept
<1>5. QED
  BY <1>3, <1>4

LEMMA LaterBatched ==
    ASSUME Shape, Places, Batched
    PROVE  LaterInv'
<1>0. Same /\ tag' = tag /\ tag \in Tag /\ Within /\ tag # "done"
  BY BatchedMoves DEF Same, Within, Tag
<1>a. /\ deferred \in [Tag -> [{0, 1} -> Seq(InfoSet)]] /\ derived \in [{0, 1} -> Seq(DerivedPipes)]
  BY DEF Shape, MainTypes
<1>1. PICK z \in Nat : z = Spot(2, 0) /\ Spot(2, 0)' = z
  BY <1>0, EdgeType DEF Same
<1>2. SUFFICES ASSUME NEW c \in {0, 1}, NEW k \in DOMAIN derived'[c] PROVE derived'[c][k].h \in Upto(z)
  BY <1>0, <1>1 DEF LaterInv, Upto
<1>3. \A b \in {0, 1} : \A j \in DOMAIN derived[b] : derived[b][j].h \in Upto(z)
  BY <1>0, <1>1 DEF Places, LaterInv
<1>4. CASE EnqueueModules
  <2>1. PICK b \in {0, 1} : b = Here
    BY <1>4, BatchedPos
  <2>2. PICK sorted \in Seq(InfoSet), cut \in Nat, ds \in Seq(DerivedPipes) :
              /\ ToSet(sorted) = ToSet(deferred[tag][b])
              /\ derived' = [derived EXCEPT ![b] = ds]
              /\ \A j \in DOMAIN ds : \E i \in cut + 1..Len(sorted) : ds[j] = sorted[i]
    BY <1>4, <2>1, Split, SMTT(30) DEF Shape
  <2>3. CASE c = b
    <3>1. derived'[c] = ds
      BY <1>a, <2>2, <2>3
    <3>2. PICK i \in cut + 1..Len(sorted) : ds[k] = sorted[i]
      BY <1>2, <2>2, <3>1
    <3>3. i \in DOMAIN sorted
      BY <2>2, <3>2
    <3>4. ds[k] \in ToSet(deferred[tag][b])
      BY <2>2, <3>2, <3>3 DEF ToSet
    <3>5. PICK j \in DOMAIN deferred[tag][b] : ds[k] = deferred[tag][b][j]
      BY <3>4 DEF ToSet
    <3>6. ds[k].h # NoHash
      BY <1>2, <2>2, <3>1, ReplayerAssumption DEF DerivedPipes, Pipes
    <3>7. PlaceOK(ds[k], b)
      BY <1>0, <3>5, <3>6 DEF Places, PlaceInv
    <3>8. PICK m \in Nat : m = Bound(b) /\ m <= z
      BY <1>0, <1>1, EdgeType
    <3>9. QED
      BY <1>0, <3>1, <3>7, <3>8, UptoMore DEF PlaceOK
  <2>4. CASE c # b
    <3>1. derived'[c] = derived[c]
      BY <1>a, <2>2, <2>4
    <3>2. QED
      BY <1>2, <1>3, <3>1
  <2>5. QED
    BY <2>3, <2>4
<1>5. CASE EnqueueDerived
  <2>1. derived' = [derived EXCEPT ![Here] = <<>>]
    BY <1>5 DEF EnqueueDerived
  <2>2. derived'[c] = <<>> \/ derived'[c] = derived[c]
    BY <1>a, <2>1
  <2>3. QED
    BY <1>2, <1>3, <2>2
<1>6. CASE ~EnqueueModules /\ ~EnqueueDerived
  <2>1. derived' = derived
    BY <1>6, EntriesKept DEF EnqueueOutside
  <2>2. QED
    BY <1>2, <1>3, <2>1
<1>7. QED
  BY <1>4, <1>5, <1>6

\* The passes that compile find no base or pipeline still being parsed.
LEMMA KinBatched ==
    ASSUME Shape, Contents, Places, Batched
    PROVE  KinInv'
<1>0. Same /\ tag' = tag /\ tag \in Tag /\ Within /\ tag # "done"
  BY BatchedMoves DEF Same, Within, Tag
<1>1. SUFFICES ASSUME NEW p \in parents' PROVE p.h \in outside' /\ Absent(p.h)'
  BY <1>0 DEF KinInv
<1>2. ~EnqueueParents /\ p \in parents
  BY <1>1, EntriesKept
<1>3. Pos \in 81..103
  BY <1>0, <1>2 DEF Contents, ParentInv
<1>4. ~Creating
  BY <1>2, <1>3, BatchedPos DEF Creating
<1>5. pipelines' = pipelines
  BY <1>4, EntriesKept
<1>6. QED
  BY <1>0, <1>2, <1>5, OutsideBatched DEF Places, KinInv, Absent

LEMMA TurnBatched ==
    ASSUME Shape, WindowInv, Places, Batched
    PROVE  TurnInv'
<1>0. Same /\ tag' = tag /\ tag \in Tag /\ Within /\ tag # "done"
  BY BatchedMoves DEF Same, Within, Tag
<1>1. SUFFICES ASSUME NEW i \in Items' PROVE TurnOK(i)'
  BY <1>0 DEF TurnInv
<1>2. CASE i \in Items
  <2>1. SUFFICES ASSUME InParse(i) \/ OutParse(i) PROVE TurnOK(i)'
    BY DEF TurnOK, InParse, OutParse
  <2>2. WindowOK(i) /\ TurnOK(i)
    BY <1>0, <1>2 DEF WindowInv, Places, TurnInv
  <2>3. Pos \in 2..50 \/ Pos \in 81..100
    BY <2>1, <2>2 DEF WindowOK, ParseWindow
  <2>4. ~Creating
    BY <2>3, BatchedPos DEF Creating
  <2>5. pipelines' = pipelines
    BY <2>4, EntriesKept
  <2>6. \A c, k : Spot(c, k)' = Spot(c, k)
    BY <1>0 DEF Same
  <2>7. QED
    BY <1>0, <2>2, <2>5, <2>6, OutsideBatched DEF TurnOK, Absent, InParse, OutParse
<1>3. CASE i \notin Items /\ Parse
  <2>1. PICK n \in 1..Submit(tag, order) : ~Known(n) /\ i = InItem(tag, HashAt(tag, order, n), n - 1, Here)
    BY <1>1, <1>3, ItemsParse
  <2>2. PICK c \in {0, 1} : c = Here /\ Place(order) = c
    BY <1>3, HereFacts DEF Parse, InContext, Shape
  <2>3. /\ Submit(tag, order) \in 1..PerContext /\ HashAt(tag, order, n) = List[tag][Spot(c, n)]
        /\ PerContext \in Nat
    BY <1>0, <2>2, ChunkPlace, ReplayerAssumption DEF Shape, Ctl
  <2>4. n \in Nat /\ n - 1 < PerContext /\ (n - 1) + 1 = n
    BY <2>1, <2>3
  <2>5. i.index = n - 1 /\ i.h = HashAt(tag, order, n) /\ i.ctx = c
    BY <2>1, <2>2, InFields
  <2>6. ~OutParse(i)
    BY <2>1, InInside DEF OutParse
  <2>7. Absent(i.h)
    BY <2>1, <2>5 DEF Known, Absent
  <2>8. Absent(i.h)'
    <3>1. pipelines' = pipelines
      BY <1>3 DEF Parse
    <3>2. QED
      BY <2>7, <3>1 DEF Absent
  <2>9. i.h = List'[tag'][Spot(i.ctx, i.index + 1)']
    <3>1. i.h = List[tag][Spot(c, n)]
      BY <2>3, <2>5
    <3>2. i.index + 1 = n
      BY <2>4, <2>5
    <3>3. Spot(i.ctx, i.index + 1)' = Spot(c, n)
      BY <1>0, <2>5, <3>2 DEF Same
    <3>4. QED
      BY <1>0, <3>1, <3>3
  <2>10. ~OutParse(i)' /\ i.index < PerContext
    BY <2>4, <2>5, <2>6 DEF OutParse
  <2>11. QED
    BY <1>0, <2>8, <2>9, <2>10 DEF TurnOK
<1>4. CASE i \notin Items /\ EnqueueOutside
  <2>1. PICK items \in Seq(Jobs) :
                 /\ Enqueue(items, PARENT)
                 /\ \A k \in DOMAIN items : \E n \in Wanted(derived[Here]) :
                       items[k] = OutItem(tag, Base[derived[Here][n].h], derived[Here][n].index, PARENT)
    BY <1>4, OutsideEnqueued DEF Shape
  <2>2. UNCHANGED <<work, threads>>
    BY BatchedFacts DEF Shape
  <2>3. i \in ToSet(items)
    BY <1>1, <1>4, <2>1, <2>2, ItemsAdded
  <2>4. PICK k \in DOMAIN items : i = items[k]
    BY <2>3 DEF ToSet
  <2>5. PICK n \in Wanted(derived[Here]) :
            i = OutItem(tag, Base[derived[Here][n].h], derived[Here][n].index, PARENT)
    BY <2>1, <2>4
  <2>6. i.h = Base[derived[Here][n].h]
    BY <2>5, OutFields
  <2>7. ~InParse(i)'
    BY <2>5, OutOutside DEF InParse
  <2>8. Absent(i.h) /\ i.h \in outside'
    BY <1>4, <2>5, <2>6, OutsideEnqueued DEF Wanted, Absent, Shape
  <2>9. pipelines' = pipelines
    BY <1>4 DEF EnqueueOutside
  <2>10. QED
    BY <2>7, <2>8, <2>9 DEF TurnOK, Absent
<1>5. CASE i \notin Items /\ ~Parse /\ ~EnqueueOutside
  <2>1. i.kind # "parse"
    <3>1. CASE EnqueueModules \/ EnqueueParentModules
      BY <1>1, <1>5, <3>1, ItemsModules, ModuleFields
    <3>2. CASE EnqueuePrimary
      BY <1>1, <1>5, <3>2, ItemsPrimary, CreateFields DEF Made
    <3>3. CASE EnqueueParents
      BY <1>1, <1>5, <3>3, ItemsParents, CreateFields DEF Made
    <3>4. CASE EnqueueDerived
      BY <1>1, <1>5, <3>4, ItemsDerived, CreateFields DEF Made
    <3>5. CASE Prune \/ Reclaim
      <4>1. UNCHANGED <<queue, work, threads>>
        BY <3>5 DEF Prune, Reclaim, options, workers
      <4>2. QED
        BY <1>1, <1>5, <4>1, ItemsKept
    <3>6. QED
      BY <1>5, <3>1, <3>2, <3>3, <3>4, <3>5 DEF Batched
  <2>2. QED
    BY <2>1 DEF TurnOK, InParse, OutParse
<1>6. QED
  BY <1>2, <1>3, <1>4, <1>5

LEMMA ValidBatched ==
    ASSUME Shape, Places, Batched
    PROVE  ValidInv'
<1>1. SUFFICES ASSUME NEW i \in Items', Create(i), i.valid PROVE ~Absent(i.h)'
  BY DEF ValidInv, Create
<1>2. CASE i \in Items
  <2>1. i.h \in Hash
    BY <1>1, <1>2, ItemsTyped DEF Jobs, Typed, Create
  <2>2. QED
    BY <1>1, <1>2, <2>1, EntriesKept DEF Places, ValidInv
<1>3. CASE i \notin Items /\ Creating
  <2>1. PICK items \in Seq(Jobs), c \in Ctx :
              /\ Enqueue(items, c)
              /\ pipelines' = [h \in Hash |-> IF h \in Entered(items) /\ pipelines[h] = "absent"
                                             THEN "null" ELSE pipelines[h]]
    BY <1>3, CreatingItems
  <2>2. UNCHANGED <<work, threads>>
    BY BatchedFacts DEF Shape
  <2>3. i \in ToSet(items)
    BY <1>1, <1>3, <2>1, <2>2, ItemsAdded
  <2>4. i.h \in Entered(items)
    BY <1>1, <2>3 DEF Entered, ToSet
  <2>5. i \in Jobs /\ i.h \in Hash
    BY <1>1, <2>1, <2>3 DEF ToSet, Jobs, Typed, Create
  <2>6. QED
    BY <2>1, <2>4, <2>5 DEF Absent
<1>4. CASE i \notin Items /\ ~Creating
  <2>1. CASE EnqueueModules \/ EnqueueParentModules
    BY <1>1, <1>4, <2>1, ItemsModules, ModuleFields DEF Create
  <2>2. CASE Parse
    BY <1>1, <1>4, <2>2, ItemsParse, InFields DEF Create
  <2>3. CASE EnqueueOutside
    BY <1>1, <1>4, <2>3, ItemsOutside, OutFields DEF Create
  <2>4. CASE Prune \/ Reclaim
    <3>1. UNCHANGED <<queue, work, threads>>
      BY <2>4 DEF Prune, Reclaim, options, workers
    <3>2. QED
      BY <1>1, <1>4, <3>1, ItemsKept
  <2>5. QED
    BY <1>4, <2>1, <2>2, <2>3, <2>4 DEF Batched, Creating
<1>5. QED
  BY <1>2, <1>3, <1>4

LEMMA PlacesBatched ==
    ASSUME Shape, WindowInv, Contents, Places, Batched
    PROVE  Places'
BY FreshBatched, OutsideBatched, AheadBatched, PlaceBatched, LaterBatched, KinBatched, TurnBatched,
   ValidBatched DEF Places

\* A worker makes no entry and takes none away: it writes the entry of an item
\* that has a create info.
LEMMA EntriesWorker ==
    ASSUME Shape, ValidInv, NEW w \in Thread, Worker(w)
    PROVE  \A h \in Hash : Absent(h)' <=> Absent(h)
<1>1. CASE CreatePipeline(w)
  <2>1. PICK i : i = work[w] /\ i \in Items /\ i.h \in Hash /\ Create(i)
    <3>1. work[w].kind = "create" /\ work[w].h \in Hash
      BY <1>1, WorkOf DEF CreatePipeline, Shape
    <3>2. work[w] \in Items
      BY <3>1 DEF Items, Pending, Real
    <3>3. QED
      BY <3>1, <3>2 DEF Create
  <2>2. PICK r : /\ pipelines' = [pipelines EXCEPT ![i.h] = r]
                 /\ (r \in {"null", "live"} /\ Calls(i)) \/ r = pipelines[i.h]
    BY <1>1, <2>1 DEF CreatePipeline
  <2>3. pipelines \in [Hash -> {"absent", "null", "live"}]
    BY DEF Shape, SharedTypes
  <2>4. Calls(i) => ~Absent(i.h)
    BY <2>1 DEF ValidInv, Calls
  <2>5. QED
    BY <2>1, <2>2, <2>3, <2>4 DEF Absent
<1>2. CASE ~CreatePipeline(w)
  BY <1>2 DEF Worker, BootWorker, Take, ParsePipeline, MakeModule, Quit, shared, Absent
<1>3. QED
  BY <1>1, <1>2

LEMMA PlacesWorker ==
    ASSUME Shape, WindowInv, Contents, Places, NEW w \in Thread, Worker(w), tag # "done"
    PROVE  Places'
<1>0. /\ UNCHANGED <<tag, order, todo, start, derived, outside, epoch>> /\ Items' \subseteq Items
  BY WorkerFacts, ItemsWorker
<1>1. /\ (Within' <=> Within) /\ Pos' = Pos /\ (Second' <=> Second) /\ \A c, k : Spot(c, k)' = Spot(c, k)
  BY <1>0, Stay
<1>2. \A h \in Hash : Absent(h)' <=> Absent(h)
  BY EntriesWorker DEF Places
<1>3. /\ \A n : Upto(n)' = Upto(n) /\ Edge' = Edge /\ \A c : Bound(c)' = Bound(c) /\ (SlotWindow(c)' <=> SlotWindow(c))
  BY <1>0, <1>1, UptoSame DEF Edge, Bound, SlotWindow
<1>4. OutsideInv' /\ LaterInv'
  <2>1. Upto(Spot(2, 0))' = Upto(Spot(2, 0))
    BY <1>0, <1>1 DEF Upto
  <2>2. QED
    BY <1>0, <2>1 DEF Places, OutsideInv, LaterInv
<1>5. AheadInv'
  <2>1. Within => \A p \in DOMAIN List[tag] : List[tag][p] \in Hash
    BY Spots
  <2>2. QED
    BY <1>0, <1>1, <1>2, <1>3, <2>1 DEF Places, AheadInv
<1>6. TurnInv' /\ ValidInv'
  <2>1. \A i \in Items : (Create(i) \/ InParse(i) \/ OutParse(i)) => i.h \in Hash
    BY ItemsTyped DEF Jobs, Typed, Create, InParse, OutParse
  <2>2. ValidInv'
    BY <1>0, <1>2, <2>1 DEF Places, ValidInv, Create
  <2>3. ASSUME NEW i \in Items PROVE TurnOK(i)'
    <3>1. TurnOK(i)
      BY <2>3 DEF Places, TurnInv
    <3>2. QED
      BY <1>0, <1>1, <1>2, <2>1, <2>3, <3>1 DEF TurnOK, InParse, OutParse
  <2>4. QED
    BY <1>0, <2>2, <2>3 DEF TurnInv
<1>7. KinInv'
  <2>1. SUFFICES ASSUME NEW p \in parents' PROVE p.h \in outside /\ Absent(p.h)'
    BY <1>0 DEF KinInv
  <2>2. CASE p \in parents
    <3>1. p.h \in Hash
      BY <2>2 DEF Shape, MainTypes, Pipes
    <3>2. QED
      BY <1>2, <2>2, <3>1 DEF Places, KinInv
  <2>3. CASE p \notin parents
    <3>1. ParsePipeline(w)
      BY <2>1, <2>3 DEF Worker, BootWorker, Take, MakeModule, CreatePipeline, Quit, main
    <3>2. work[w].kind = "parse" /\ work[w].h \in Hash /\ work[w] \in Items
      BY <3>1, WorkOf DEF ParsePipeline, Shape, Items, Pending, Real
    <3>3. work[w].outside /\ p = Info(work[w].h, work[w].index, epoch[work[w].ctx])
      BY <2>1, <2>3, <3>1 DEF ParsePipeline
    <3>4. TurnOK(work[w]) /\ OutParse(work[w])
      BY <3>2, <3>3 DEF Places, TurnInv, OutParse
    <3>5. p.h = work[w].h
      BY <3>3 DEF Info
    <3>6. QED
      BY <1>2, <3>2, <3>4, <3>5 DEF TurnOK
  <2>4. QED
    BY <2>2, <2>3
<1>8. CASE deferred' = deferred
  <2>1. FreshInv'
    <3>1. \A t \in Tag : \A p \in DOMAIN List[t] : List[t][p] \in Hash
      BY ReplayerAssumption
    <3>2. \A t \in Tag : Fresh(t) => Fresh(t)'
      BY <1>2, <1>8, <3>1 DEF Fresh
    <3>3. QED
      BY <1>0, <3>2 DEF Places, FreshInv, Tag
  <2>2. PlaceInv'
    <3>1. SUFFICES ASSUME Within, NEW c \in {0, 1}, NEW k \in DOMAIN deferred[tag][c],
                          deferred[tag][c][k].h # NoHash
                   PROVE  PlaceOK(deferred[tag][c][k], c)'
      BY <1>0, <1>1, <1>8 DEF PlaceInv
    <3>2. PICK d : d = deferred[tag][c][k] /\ d = deferred'[tag'][c][k]
      BY <1>0, <1>8
    <3>3. PlaceOK(d, c)
      BY <3>1, <3>2 DEF Places, PlaceInv
    <3>4. d.h \in Hash
      <4>1. deferred[tag][c] \in Seq(InfoSet)
        BY <3>1 DEF Shape, MainTypes, Within
      <4>2. PICK s \in Seq(InfoSet) : k \in DOMAIN s /\ d = s[k] /\ d.h # NoHash
        BY <3>1, <3>2, <4>1
      <4>3. d \in InfoSet
        BY <4>2
      <4>4. QED
        BY <4>2, <4>3 DEF InfoSet
    <3>5. (Placed(d, c)' <=> Placed(d, c)) /\ (Old(d, c)' <=> Old(d, c))
      BY <1>0, <1>1, <1>3 DEF Placed, Old
    <3>6. Upto(Bound(c))' = Upto(Bound(c))
      BY <1>0, <1>3 DEF Upto
    <3>7. PlaceOK(d, c)'
      BY <1>0, <1>2, <1>3, <3>3, <3>4, <3>5, <3>6 DEF PlaceOK
    <3>8. QED
      BY <3>2, <3>7 DEF PlaceOK, Placed, Old, Absent
  <2>3. QED
    BY <1>4, <1>5, <1>6, <1>7, <2>1, <2>2 DEF Places
<1>9. CASE deferred' # deferred
  <2>1. ParsePipeline(w)
    BY <1>9 DEF Worker, BootWorker, Take, MakeModule, CreatePipeline, Quit, main
  <2>2. PICK i : i = work[w] /\ i.kind = "parse" /\ i.h \in Hash /\ i \in Items /\ i \in Jobs
    BY <2>1, WorkOf DEF ParsePipeline, Shape, Items, Pending, Real
  <2>3. PICK slot : /\ InParse(i) /\ slot \in {[NoInfo EXCEPT !.from = i.h], Info(i.h, i.index, epoch[i.ctx])}
                    /\ deferred' = [deferred EXCEPT ![i.tag][i.ctx][i.index + 1] = slot]
    BY <1>9, <2>1, <2>2 DEF ParsePipeline, InParse
  <2>4. /\ i.ctx \in {0, 1} /\ i.tag = tag /\ ParseWindow(i.ctx) /\ i.index \in Nat
        /\ i.index < PerContext /\ i.h = List[tag][Spot(i.ctx, i.index + 1)] /\ Absent(i.h)
        /\ i.index < Len(deferred[tag][i.ctx]) /\ Spot(i.ctx, i.index + 1) <= Len(List[tag])
    <3>1. WindowOK(i) /\ TurnOK(i) /\ ParseOK(i)
      BY <2>2 DEF WindowInv, Places, TurnInv, Contents, ParseInv
    <3>2. QED
      BY <2>2, <2>3, <3>1 DEF WindowOK, TurnOK, ParseOK, Jobs, ItemSet
  <2>5. Within /\ tag \in Tag
    BY <2>4 DEF ParseWindow, Within
  <2>6. PICK b \in {0, 1}, n \in Nat \ {0} : b = i.ctx /\ n = i.index + 1
    BY <2>4
  <2>7. deferred \in [Tag -> [{0, 1} -> Seq(InfoSet)]]
    BY DEF Shape, MainTypes
  <2>8. /\ \A t \in Tag : t # tag => deferred'[t] = deferred[t]
        /\ \A c \in {0, 1} : c # b => deferred'[tag][c] = deferred[tag][c]
        /\ deferred'[tag][b] = [deferred[tag][b] EXCEPT ![n] = slot]
    BY <2>3, <2>4, <2>5, <2>6, <2>7
  <2>9. FreshInv'
    <3>1. order # -1
      BY <2>5 DEF Within
    <3>2. "compute" \in Tag /\ \A p \in DOMAIN List["compute"] : List["compute"][p] \in Hash
      BY ReplayerAssumption DEF Tag
    <3>3. tag = "graphics" => Fresh("compute")'
      BY <1>2, <2>8, <3>2 DEF Places, FreshInv, Fresh
    <3>4. QED
      BY <1>0, <3>1, <3>3 DEF FreshInv
  <2>10. ASSUME NEW c \in {0, 1}, NEW d \in Pipes, PlaceOK(d, c) PROVE PlaceOK(d, c)'
    <3>1. (Placed(d, c)' <=> Placed(d, c)) /\ (Old(d, c)' <=> Old(d, c))
      BY <1>0, <1>1, <1>3 DEF Placed, Old
    <3>2. Upto(Bound(c))' = Upto(Bound(c))
      BY <1>0, <1>3 DEF Upto
    <3>3. d.h \in Hash
      BY DEF Pipes
    <3>4. QED
      BY <1>0, <1>2, <1>3, <2>10, <3>1, <3>2, <3>3 DEF PlaceOK
  <2>11. slot.h # NoHash => slot \in Pipes /\ PlaceOK(slot, b)
    <3>1. SUFFICES ASSUME slot.h # NoHash PROVE slot \in Pipes /\ PlaceOK(slot, b)
      OBVIOUS
    <3>2. slot = Info(i.h, i.index, epoch[i.ctx])
      BY <2>3, <3>1 DEF NoInfo
    <3>3. slot.h = i.h /\ slot.index = i.index /\ slot.ep = epoch[b]
      BY <2>6, <3>2 DEF Info
    <3>4. b \in Ctx /\ epoch[b] \in Nat
      BY DEF Ctx, Shape, SharedTypes
    <3>5. slot \in Pipes
      BY <2>2, <2>4, <2>6, <3>2, <3>4 DEF Info, Pipes, InfoSet
    <3>6. PICK s \in Nat, z \in Nat : s = Spot(b, n) /\ z = Spot(2, 0) /\ s <= z /\ s >= 1
      <4>1. PICK x \in Nat, P \in Nat : /\ x = Spot(0, 0) /\ P = PerContext
                                  /\ Spot(1, 0) = x + P /\ Spot(2, 0) = x + 2 * P
                                  /\ \A c \in {0, 1, 2} : \A k \in Nat : Spot(c, k) = Spot(c, 0) + k
        BY <2>5, Spots
      <4>a. n <= P
        <5>1. PICK j \in Nat : j = i.index /\ j < PerContext
          BY <2>4
        <5>2. QED
          BY <2>6, <4>1, <5>1
      <4>2. Spot(b, n) = Spot(b, 0) + n /\ n <= P
        BY <4>1, <4>a
      <4>3. QED
        BY <4>1, <4>2
    <3>7. s \in DOMAIN List[tag] /\ slot.h = List[tag][s] /\ s = Spot(b, slot.index + 1)
      <4>1. DOMAIN List[tag] = 1..Len(List[tag]) /\ Len(List[tag]) \in Nat
        BY <2>5, Spots
      <4>2. s <= Len(List[tag])
        BY <2>4, <2>6, <3>6
      <4>3. s \in DOMAIN List[tag]
        BY <3>6, <4>1, <4>2
      <4>4. QED
        BY <2>4, <2>6, <3>3, <3>6, <4>3
    <3>8. Placed(slot, b) /\ Absent(slot.h)
      BY <2>4, <3>3, <3>7 DEF Placed
    <3>9. slot.h \in Upto(z)
      BY <3>6, <3>7 DEF Upto
    <3>10. Bound(b) = z
      <4>1. PICK p \in Nat : p = Pos
        BY <2>5, TableHolds DEF Shape
      <4>0. ParseWindow(b)
        BY <2>4, <2>6
      <4>2. p > 10 * b + 1
        BY <4>0, <4>1 DEF ParseWindow
      <4>3. QED
        BY <3>6, <4>1, <4>2 DEF Bound
    <3>11. slot.ep <= epoch[b]
      BY <3>3, <3>4
    <3>12. QED
      BY <3>5, <3>8, <3>9, <3>10, <3>11 DEF PlaceOK
  <2>12. PlaceInv'
    <3>1. SUFFICES ASSUME NEW c \in {0, 1}, NEW k \in DOMAIN deferred'[tag][c],
                          deferred'[tag][c][k].h # NoHash
                   PROVE  PlaceOK(deferred[tag][c][k], c)'
      BY <1>0 DEF PlaceInv
    <3>2. PICK d : d = deferred'[tag][c][k] /\ d = deferred'[tag'][c][k]
      BY <1>0
    <3>3. CASE c = b /\ k = n
      <4>1. deferred[tag][b] \in Seq(InfoSet)
        BY <2>5, <2>7
      <4>2. k \in DOMAIN deferred[tag][b]
        BY <2>8, <3>1, <3>3, <4>1
      <4>3. d = slot
        BY <2>8, <3>2, <3>3, <4>1, <4>2
      <4>4. PlaceOK(d, c)'
        BY <2>10, <2>11, <3>1, <3>2, <3>3, <4>3
      <4>5. QED
        BY <3>2, <4>4 DEF PlaceOK, Placed, Old, Absent
    <3>4. CASE ~(c = b /\ k = n)
      <4>1. deferred[tag][c] \in Seq(InfoSet)
        BY <2>5, <2>7
      <4>2. k \in DOMAIN deferred[tag][c] /\ d = deferred[tag][c][k]
        BY <2>8, <3>1, <3>2, <3>4, <4>1
      <4>3. PlaceOK(d, c) /\ d \in Pipes
        <5>1. d \in InfoSet
          BY <4>1, <4>2
        <5>2. QED
          BY <2>5, <3>1, <3>2, <4>2, <5>1 DEF Places, PlaceInv, Pipes, InfoSet
      <4>4. PlaceOK(d, c)'
        BY <2>10, <4>3
      <4>5. QED
        BY <3>2, <4>4 DEF PlaceOK, Placed, Old, Absent
    <3>5. QED
      BY <3>3, <3>4
  <2>13. QED
    BY <1>4, <1>5, <1>6, <1>7, <2>9, <2>12 DEF Places
<1>10. QED
  BY <1>8, <1>9

LEMMA PlacesDie ==
    ASSUME Shape, Places, NEW w \in Thread, Crash(w) \/ Timeout(w)
    PROVE  Places'
<1>1. CASE Over /\ Items' \subseteq Items
  <2>1. tag' = "done" /\ pipelines' = pipelines /\ ~Within'
    BY <1>1 DEF Over, Within, Tag
  <2>2. ValidInv'
    BY <1>1, <2>1 DEF Places, ValidInv, Create, Absent
  <2>3. QED
    BY <2>1, <2>2 DEF Places, FreshInv, OutsideInv, AheadInv, PlaceInv, LaterInv, KinInv, TurnInv, Tag
<1>2. CASE Restart(at[w], masked \cup blame[w]) /\ Items' = {}
  <2>1. /\ tag' = "graphics" /\ order' = -1 /\ deferred' = [t \in Tag |-> [c \in {0, 1} |-> <<>>]]
        /\ derived' = [c \in {0, 1} |-> <<>>] /\ parents' = {} /\ outside' = {}
        /\ pipelines' = [h \in Hash |-> "absent"]
    BY <1>2 DEF Restart
  <2>2. \A t \in Tag : \A p \in DOMAIN List[t] : List[t][p] \in Hash
    BY ReplayerAssumption
  <2>3. \A t \in Tag : Fresh(t)'
    BY <2>1, <2>2 DEF Fresh, Absent
  <2>4. FreshInv' /\ OutsideInv' /\ LaterInv' /\ KinInv'
    BY <2>1, <2>3 DEF FreshInv, OutsideInv, LaterInv, KinInv, Tag
  <2>5. ~Within'
    BY <2>1 DEF Within
  <2>6. QED
    BY <1>2, <2>4, <2>5 DEF Places, AheadInv, PlaceInv, TurnInv, ValidInv
<1>3. QED
  BY <1>1, <1>2, ItemsDie

LEMMA PlacesHold == Spec => []Places
<1>1. Init => Places
  <2>1. SUFFICES ASSUME Init PROVE Places
    OBVIOUS
  <2>2. Items = {}
    BY <2>1, NoItem DEF Init, Items, Pending, ToSet, Real
  <2>3. /\ tag = "graphics" /\ order = -1 /\ deferred = [t \in Tag |-> [c \in {0, 1} |-> <<>>]]
        /\ derived = [c \in {0, 1} |-> <<>>] /\ parents = {} /\ outside = {}
        /\ pipelines = [h \in Hash |-> "absent"]
    BY <2>1 DEF Init
  <2>4. \A t \in Tag : \A p \in DOMAIN List[t] : List[t][p] \in Hash
    BY ReplayerAssumption
  <2>5. \A t \in Tag : Fresh(t)
    BY <2>3, <2>4 DEF Fresh, Absent
  <2>6. FreshInv /\ OutsideInv /\ LaterInv /\ KinInv
    BY <2>3, <2>5 DEF FreshInv, OutsideInv, LaterInv, KinInv, Tag
  <2>7. ~Within
    BY <2>3 DEF Within
  <2>8. QED
    BY <2>2, <2>6, <2>7 DEF Places, AheadInv, PlaceInv, TurnInv, ValidInv
<1>2. Shape /\ Counts /\ WindowInv /\ Contents /\ WindowInv' /\ Contents' /\ Places /\ [Next]_vars => Places'
  <2>1. SUFFICES ASSUME Shape, Counts, WindowInv, Contents, WindowInv', Contents', Places, [Next]_vars
                 PROVE  Places'
    OBVIOUS
  <2>2. CASE UNCHANGED vars
    <3>1. /\ Items' = Items
          /\ UNCHANGED <<tag, order, todo, start, deferred, derived, parents, epoch, outside, pipelines>>
      BY <2>2, ItemsKept DEF vars
    <3>2. /\ (Within' <=> Within) /\ Pos' = Pos /\ (Second' <=> Second) /\ \A c, k : Spot(c, k)' = Spot(c, k)
      BY <3>1, Stay
    <3>3. /\ Edge' = Edge /\ \A c : (SlotWindow(c)' <=> SlotWindow(c)) /\ Bound(c)' = Bound(c)
          /\ \A h : Absent(h)' <=> Absent(h)
          /\ \A t : Fresh(t)' <=> Fresh(t)
      BY <3>1, <3>2 DEF Edge, SlotWindow, Absent, Fresh, Bound
    <3>4. \A c : Upto(Bound(c))' = Upto(Bound(c)) /\ Upto(Spot(c, 0))' = Upto(Spot(c, 0))
      BY <3>1, <3>2, <3>3 DEF Upto
    <3>5. \A d, c : PlaceOK(d, c)' <=> PlaceOK(d, c)
      BY <3>1, <3>2, <3>3, <3>4 DEF PlaceOK, Placed, Old
    <3>6. PlaceInv'
      BY <2>1, <3>1, <3>2, <3>5 DEF Places, PlaceInv
    <3>7. FreshInv' /\ OutsideInv' /\ AheadInv'
      BY <2>1, <3>1, <3>2, <3>3 DEF Places, FreshInv, OutsideInv, AheadInv
    <3>8. LaterInv' /\ KinInv' /\ ValidInv'
      BY <2>1, <3>1, <3>2, <3>3, <3>4 DEF Places, LaterInv, KinInv, ValidInv, Create
    <3>9. TurnInv'
      BY <2>1, <3>1, <3>2, <3>3 DEF Places, TurnInv, TurnOK, InParse, OutParse
    <3>10. QED
      BY <3>6, <3>7, <3>8, <3>9 DEF Places
  <2>3. CASE Next
    <3>1. tag # "done"
      BY <2>1, <2>3, Ended DEF Counts
    <3>2. CASE Main
      BY <2>1, <3>1, <3>2, MainSplit, PlacesControl, PlacesBatched
    <3>3. QED
      BY <2>1, <2>3, <3>1, <3>2, PlacesWorker, PlacesDie DEF Next
  <2>4. QED
    BY <2>1, <2>2, <2>3
<1>3. QED
  BY <1>1, <1>2, ShapeHolds, CountsHold, WindowHolds, ContentsHold, PTL DEF Spec
-----------------------------------------------------------------------------
(***************************************************************************)
(* Chunks without a plain pipeline.  Until the slots are sorted each one   *)
(* of a chunk is being parsed, or its slot holds it, unless it is excused; *)
(* so when the slots that are compiled first hold a derived pipeline, the  *)
(* chunk has no other to offer.                                            *)
(***************************************************************************)
Excused(h) == h \in Unreadable \cup Malformed \cup outside
CoverWindow(c) == Within /\ IF c = 0 THEN Pos \in 2..41 ELSE Second /\ Pos \in 12..51
CoverOK(c, n) ==
    \/ Excused(List[tag][Spot(c, n)])
    \/ Parsing(c, n, List[tag][Spot(c, n)])
    \/ n \in DOMAIN deferred[tag][c] /\ deferred[tag][c][n].h = List[tag][Spot(c, n)]
CoverInv == \A c \in {0, 1} : CoverWindow(c) =>
    \A n \in 1..PerContext : Spot(c, n) <= Len(List[tag]) => CoverOK(c, n)

RawChunk(c) == \A n \in 1..PerContext : Spot(c, n) <= Len(List[tag]) =>
    Derived(List[tag][Spot(c, n)]) \/ Excused(List[tag][Spot(c, n)])
RawInv == \A c \in {0, 1} : NamedWindow(c) => \A k \in DOMAIN deferred[tag][c] :
    deferred[tag][c][k].h # NoHash /\ Derived(deferred[tag][c][k].h) => RawChunk(c)

Raw(i) == Create(i) /\ i.base = "raw"
RawOK(i) ==
    Raw(i) => /\ i.ctx \in {0, 1} /\ FirstWindow(i.ctx) /\ i.tag = tag
              /\ i.ep = epoch[i.ctx] => /\ RawChunk(i.ctx)
                                        /\ Spot(i.ctx, 0) <= i.index /\ i.index < Spot(i.ctx, PerContext)
RawItems == tag # "done" => \A i \in Items : RawOK(i)

Raws == CoverInv /\ RawInv /\ RawItems

LEMMA RawChunkKept ==
    ASSUME Same, outside \subseteq outside', NEW c, RawChunk(c)
    PROVE  RawChunk(c)'
BY DEF RawChunk, Same, Excused

LEMMA CoverKept ==
    ASSUME Same, outside \subseteq outside', Items \subseteq Items', NEW c, NEW n, CoverOK(c, n),
           deferred'[tag][c] = deferred[tag][c]
    PROVE  CoverOK(c, n)'
<1>1. PICK h : /\ h = List[tag][Spot(c, n)]
               /\ \/ Excused(h) \/ Parsing(c, n, h)
                  \/ n \in DOMAIN deferred[tag][c] /\ deferred[tag][c][n].h = h
  BY DEF CoverOK
<1>2. h = List[tag'][Spot(c, n)']
  BY <1>1 DEF Same
<1>3. Excused(h) => Excused(h)'
  BY DEF Excused
<1>4. Parsing(c, n, h) => Parsing(c, n, h)'
  BY DEF Parsing, InParse
<1>5. Excused(h)' \/ Parsing(c, n, h)' \/ (n \in DOMAIN deferred'[tag'][c] /\ deferred'[tag'][c][n].h = h)
  BY <1>1, <1>3, <1>4 DEF Same
<1>6. QED
  BY <1>2, <1>5 DEF CoverOK, Excused, Parsing

\* Raw items are gone before the window in which their context compiles again.
LEMMA RawStay ==
    ASSUME Shape, tag' # "done", WindowInv', NEW i \in Items', RawOK(i), Same, outside \subseteq outside',
           On \/ (Pos \in Nat /\ Pos' = Pos + 1), \A c \in {0, 1} : FirstWindow(c) => epoch'[c] = epoch[c]
    PROVE  RawOK(i)'
<1>1. SUFFICES ASSUME Raw(i) PROVE RawOK(i)'
  BY DEF RawOK, Raw, Create
<1>2. PICK c \in {0, 1} : c = i.ctx /\ FirstWindow(c)
  BY <1>1 DEF RawOK
<1>3. WindowOK(i)'
  BY DEF WindowInv
<1>4. PICK p \in Nat : p = Pos
  BY TableHolds DEF Shape, Same
<1>5. PICK q \in Nat : q = Pos'
  BY <1>4 DEF On
<1>6. IF c = 0 THEN p \in 62..104 ELSE Second /\ p \in 72..105
  BY <1>2, <1>4 DEF FirstWindow
<1>7. q <= 106
  BY <1>4, <1>5, <1>6 DEF On
<1>8. p <= q
  BY <1>4, <1>5, <1>6 DEF On
<1>9. ~SecondWindow(c)'
  BY <1>2, <1>4, <1>5, <1>6, <1>7, <1>8 DEF SecondWindow, Same
<1>10. Create(i)' /\ i.ctx # PARENT
  BY <1>1, <1>2 DEF Raw, Create, PARENT
<1>11. FirstWindow(c)'
  BY <1>2, <1>3, <1>9, <1>10 DEF WindowOK
<1>12. epoch'[c] = epoch[c]
  BY <1>2
<1>13. RawChunk(c) => RawChunk(c)'
  BY RawChunkKept
<1>14. QED
  BY <1>1, <1>2, <1>11, <1>12, <1>13 DEF RawOK, Same

LEMMA RawsControl ==
    ASSUME Shape, WindowInv', Raws, Control, tag # "done"
    PROVE  Raws'
<1>0. /\ UNCHANGED <<start, deferred, epoch>> /\ Items' = Items
  BY ControlFacts
<1>1. CASE Same /\ On
  <2>1. outside' = outside /\ tag' = tag /\ tag' # "done" /\ Within
    BY <1>1, OutsideControl DEF Same
  <2>2. PICK p \in Nat : p = Pos
    BY <2>1, TableHolds DEF Shape
  <2>3. PICK q \in Nat : q = Pos'
    BY <1>1, <2>2 DEF On
  <2>4. \A c \in {0, 1} : CoverWindow(c)' => CoverWindow(c)
    BY <1>1, <2>2, <2>3 DEF Same, On, CoverWindow
  <2>5. \A c \in {0, 1} : NamedWindow(c)' => NamedWindow(c)
    BY <1>1, <2>2, <2>3 DEF Same, On, NamedWindow
  <2>6. CoverInv'
    <3>1. SUFFICES ASSUME NEW c \in {0, 1}, CoverWindow(c), NEW n \in 1..PerContext,
                          Spot(c, n) <= Len(List[tag])
                   PROVE  CoverOK(c, n)'
      BY <1>1, <2>1, <2>4 DEF CoverInv, Same
    <3>2. CoverOK(c, n)
      BY <3>1 DEF Raws, CoverInv
    <3>3. QED
      BY <1>0, <1>1, <2>1, <3>2, CoverKept
  <2>7. RawInv'
    <3>1. \A c : RawChunk(c) => RawChunk(c)'
      BY <1>1, <2>1, RawChunkKept
    <3>2. QED
      BY <1>0, <2>1, <2>5, <3>1 DEF Raws, RawInv
  <2>8. RawItems'
    BY <1>0, <1>1, <2>1, RawStay DEF Raws, RawItems
  <2>9. QED
    BY <2>6, <2>7, <2>8 DEF Raws
<1>2. CASE Out
  <2>1. PICK p, q : /\ p = Pos /\ q = Pos' /\ (Within => p = 131 \/ (p = 123 /\ ~Second))
                    /\ (Within' => q = 0)
    BY <1>2 DEF Out
  <2>2. \A c \in {0, 1} : ~CoverWindow(c)' /\ ~NamedWindow(c)' /\ ~FirstWindow(c)
    BY <2>1 DEF CoverWindow, NamedWindow, FirstWindow
  <2>3. \A i \in Items : ~Raw(i)
    BY <2>2 DEF Raws, RawItems, RawOK
  <2>4. QED
    BY <1>0, <2>2, <2>3 DEF Raws, CoverInv, RawInv, RawItems, RawOK, Raw, Create
<1>3. QED
  BY <1>1, <1>2, ControlMoves

\* Sorted behind the plain ones, a derived pipeline stays in front of the cut
\* only if there is none.
LEMMA SplitPlain ==
    ASSUME MainTypes, Ctl, EnqueueModules
    PROVE  \/ \A k \in DOMAIN deferred'[tag][Here] : ~Late(deferred'[tag][Here][k])
           \/ \A k \in DOMAIN deferred[tag][Here] : Late(deferred[tag][Here][k])
<1>1. tag \in Tag /\ Here \in {0, 1}
  BY HereFacts DEF InContext, EnqueueModules
<1>2. deferred \in [Tag -> [{0, 1} -> Seq(InfoSet)]]
  BY DEF MainTypes
<1>3. PICK s \in Seq(InfoSet) : s = deferred[tag][Here]
  BY <1>1, <1>2
<1>a. PICK r \in Sortings(s) : \E cut \in 0..Len(r) :
          CutAt(r, cut) /\ deferred' = [deferred EXCEPT ![tag][Here] = SubSeq(r, 1, cut)]
  BY <1>3 DEF EnqueueModules
<1>4. PICK cut \in 0..Len(r) :
          CutAt(r, cut) /\ deferred' = [deferred EXCEPT ![tag][Here] = SubSeq(r, 1, cut)]
  BY <1>a
<1>5. /\ r \in Seq(InfoSet) /\ ToSet(r) = ToSet(s)
      /\ \A i, j \in DOMAIN r : i < j => ~Before(r[j], r[i])
  BY Sorting
<1>6. deferred'[tag][Here] = SubSeq(r, 1, cut)
  BY <1>1, <1>2, <1>4
<1>7. /\ Len(r) \in Nat /\ DOMAIN r = 1..Len(r) /\ DOMAIN SubSeq(r, 1, cut) = 1..cut
      /\ \A n \in 1..cut : SubSeq(r, 1, cut)[n] = r[n] /\ n \in DOMAIN r
  BY <1>4, <1>5
<1>8. CASE \A i \in DOMAIN r : Late(r[i])
  <2>1. \A d \in ToSet(s) : Late(d)
    BY <1>5, <1>8 DEF ToSet
  <2>2. QED
    BY <1>3, <2>1 DEF ToSet
<1>9. CASE ~\A i \in DOMAIN r : Late(r[i])
  <2>1. cut \in DOMAIN r /\ ~Late(r[cut])
    BY <1>4, <1>9 DEF CutAt
  <2>2. ASSUME NEW k \in 1..cut PROVE ~Late(r[k])
    <3>1. CASE k = cut
      BY <2>1, <3>1
    <3>2. CASE k # cut
      <4>1. k < cut /\ k \in DOMAIN r
        BY <1>4, <1>7, <2>2, <3>2
      <4>2. ~Before(r[cut], r[k])
        BY <1>5, <2>1, <4>1
      <4>3. QED
        BY <2>1, <4>2 DEF Before
    <3>3. QED
      BY <3>1, <3>2
  <2>3. QED
    BY <1>6, <1>7, <2>2
<1>10. QED
  BY <1>8, <1>9

LEMMA SpotIn ==
    ASSUME Shape, Within, NEW c \in {0, 1}, NEW n \in 1..PerContext
    PROVE  /\ n \in Nat /\ Spot(c, n) \in Nat /\ Spot(c, n) > Spot(0, 0) /\ Spot(0, 0) \in Nat
           /\ Spot(c, n) <= Len(List[tag]) =>
                 Spot(c, n) \in DOMAIN List[tag] /\ List[tag][Spot(c, n)] \in Hash
<1>1. PICK x \in Nat, P \in Nat \ {0}, l \in Nat :
          /\ x = Spot(0, 0) /\ P = PerContext /\ Spot(1, 0) = x + P
          /\ l = Len(List[tag]) /\ DOMAIN List[tag] = 1..l
  BY Spots
<1>a. PerContext \in Nat
  BY ReplayerAssumption
<1>2. n \in Nat /\ n >= 1
  BY <1>a
<1>3. PICK m \in Nat : m = Spot(c, 0) /\ x <= m
  <2>1. CASE c = 0
    BY <1>1, <2>1
  <2>2. CASE c = 1
    BY <1>1, <2>2
  <2>3. QED
    BY <2>1, <2>2
<1>4. Spot(c, n) = m + n
  BY <1>2, <1>3, Spots
<1>5. PICK s \in Nat : s = Spot(c, n) /\ s > x /\ s >= 1
  BY <1>2, <1>3, <1>4
<1>6. s <= l => s \in DOMAIN List[tag]
  BY <1>1, <1>5
<1>7. QED
  BY <1>1, <1>2, <1>5, <1>6, Spots

LEMMA CoverBatched ==
    ASSUME Shape, Places, Raws, Batched
    PROVE  CoverInv'
<1>0. Same /\ tag' = tag /\ tag \in Tag /\ Within /\ outside \subseteq outside'
  BY BatchedMoves, OutsideBatched DEF Same, Within
<1>1. SUFFICES ASSUME NEW c \in {0, 1}, CoverWindow(c)', NEW n \in 1..PerContext, Spot(c, n) <= Len(List[tag])
               PROVE  CoverOK(c, n)'
  BY <1>0 DEF CoverInv, Same
<1>2. PICK p \in Nat : p = Pos /\ Pos' = p + 1
  BY BatchedMoves
<1>3. IF c = 0 THEN p + 1 \in 2..41 ELSE Second /\ p + 1 \in 12..51
  BY <1>0, <1>1, <1>2 DEF CoverWindow, Same
<1>4. CASE Parse /\ Here = c
  <2>1. p = 10 * c + 1
    BY <1>2, <1>4, BatchedPos
  <2>2. Place(order) = c /\ Has(tag, order)
    BY <1>4, HereFacts DEF Parse, InContext, Shape
  <2>3. PICK s \in Nat, x \in Nat : s = Spot(c, n) /\ x = Spot(0, 0) /\ s > x /\ s \in DOMAIN List[tag]
    BY <1>0, <1>1, SpotIn
  <2>4. n \in 1..Submit(tag, order) /\ HashAt(tag, order, n) = List[tag][s]
    <3>1. /\ Submit(tag, order) \in 1..PerContext /\ HashAt(tag, order, n) = List[tag][Spot(c, n)]
          /\ n <= Submit(tag, order) /\ PerContext \in Nat
      BY <1>0, <1>1, <2>2, <2>3, ChunkPlace, ReplayerAssumption DEF Shape
    <3>2. QED
      BY <1>1, <2>3, <3>1
  <2>5. PICK h \in Hash : h = List[tag][s]
    BY <1>0, <2>3, Spots
  <2>6. CASE Known(n)
    <3>1. ~Absent(h)
      BY <2>4, <2>5, <2>6 DEF Known, Absent
    <3>2. Edge = x
      BY <1>2, <2>1, <2>3 DEF Edge
    <3>3. h \in outside
      BY <1>0, <2>3, <2>5, <3>1, <3>2 DEF Places, AheadInv
    <3>4. Excused(h)'
      BY <1>0, <3>3 DEF Excused
    <3>5. h = List[tag'][Spot(c, n)']
      BY <1>0, <2>3, <2>5 DEF Same
    <3>6. QED
      BY <3>4, <3>5 DEF CoverOK, Excused
  <2>7. CASE ~Known(n)
    <3>1. PICK i \in Items' : i = InItem(tag, h, n - 1, c)
      BY <1>4, <2>4, <2>5, <2>7, ItemsParse
    <3>2. i.kind = "parse" /\ i.h = h /\ i.index = n - 1 /\ i.ctx = c
      BY <3>1, InFields
    <3>3. ~i.outside
      BY <3>1, InInside
    <3>4. Parsing(c, n, h)'
      BY <3>1, <3>2, <3>3 DEF Parsing, InParse
    <3>5. h = List[tag'][Spot(c, n)']
      BY <1>0, <2>3, <2>5 DEF Same
    <3>6. QED
      BY <3>4, <3>5 DEF CoverOK, Parsing
  <2>8. QED
    BY <2>6, <2>7
<1>5. CASE ~(Parse /\ Here = c)
  <2>1. p # 10 * c + 1
    <3>1. SUFFICES ASSUME p = 10 * c + 1 PROVE Parse /\ Here = c
      BY <1>5
    <3>2. Parse
      BY <1>2, <3>1, BatchedPos DEF Batched
    <3>3. Here \in {0, 1} /\ p = 10 * Here + 1
      BY <1>2, <3>2, BatchedPos
    <3>4. QED
      BY <3>1, <3>2, <3>3
  <2>2. CoverWindow(c) /\ p <= 10 * c + 40
    BY <1>0, <1>2, <1>3, <2>1 DEF CoverWindow, Same
  <2>3. deferred'[tag][c] = deferred[tag][c]
    <3>0. deferred \in [Tag -> [{0, 1} -> Seq(InfoSet)]]
      BY DEF Shape, MainTypes
    <3>1. CASE Parse
      <4>1. Here # c
        BY <1>5, <3>1
      <4>2. QED
        BY <1>0, <3>0, <3>1, <4>1 DEF Parse
    <3>2. CASE EnqueueModules
      <4>1. Here # c
        BY <1>2, <2>2, <3>2, BatchedPos
      <4>2. QED
        BY <1>0, <3>0, <3>2, <4>1 DEF EnqueueModules
    <3>3. CASE ~Parse /\ ~EnqueueModules
      BY <3>3, EntriesKept
    <3>4. QED
      BY <3>1, <3>2, <3>3
  <2>4. Items \subseteq Items'
    <3>1. CASE Prune
      <4>1. UNCHANGED <<queue, work, threads>>
        BY <3>1 DEF Prune, options
      <4>2. QED
        BY <4>1, ItemsKept
    <3>2. CASE Parse
      BY <3>2, ItemsParse
    <3>3. CASE EnqueueModules
      BY <3>3, ItemsModules
    <3>4. CASE ~Prune /\ ~Parse /\ ~EnqueueModules
      <4>1. p > 51
        BY <1>2, <3>4, BatchedPos DEF Batched
      <4>2. QED
        BY <1>3, <4>1
    <3>5. QED
      BY <3>1, <3>2, <3>3, <3>4
  <2>5. CoverOK(c, n)
    BY <1>1, <2>2 DEF Raws, CoverInv
  <2>6. QED
    BY <1>0, <2>3, <2>4, <2>5, CoverKept
<1>6. QED
  BY <1>4, <1>5

LEMMA RawBatched ==
    ASSUME Shape, WindowInv, Places, Raws, Batched
    PROVE  RawInv'
<1>0. Same /\ tag' = tag /\ tag \in Tag /\ Within /\ outside \subseteq outside' /\ tag # "done"
  BY BatchedMoves, OutsideBatched DEF Same, Within, Tag
<1>1. SUFFICES ASSUME NEW c \in {0, 1}, NamedWindow(c)', NEW k \in DOMAIN deferred'[tag][c],
                      deferred'[tag][c][k].h # NoHash, Derived(deferred'[tag][c][k].h)
               PROVE  RawChunk(c)'
  BY <1>0 DEF RawInv
<1>2. SUFFICES RawChunk(c)
  BY <1>0, RawChunkKept
<1>3. PICK p \in Nat : p = Pos /\ Pos' = p + 1
  BY BatchedMoves
<1>4. IF c = 0 THEN p + 1 \in 42..61 ELSE Second /\ p + 1 \in 52..71
  BY <1>0, <1>1, <1>3 DEF NamedWindow, Same
<1>5. CASE EnqueueModules /\ Here = c
  <2>1. p = 10 * c + 41
    BY <1>3, <1>5, BatchedPos
  <2>2. Late(deferred'[tag][c][k])
    BY <1>1 DEF Late
  <2>3. \A n \in DOMAIN deferred[tag][c] : Late(deferred[tag][c][n])
    BY <1>1, <1>5, <2>2, SplitPlain DEF Shape
  <2>4. CoverWindow(c)
    BY <1>0, <1>3, <1>4, <2>1 DEF CoverWindow
  <2>5. SUFFICES ASSUME NEW n \in 1..PerContext, Spot(c, n) <= Len(List[tag])
                 PROVE  Derived(List[tag][Spot(c, n)]) \/ Excused(List[tag][Spot(c, n)])
    BY DEF RawChunk
  <2>6. CoverOK(c, n)
    BY <2>4, <2>5 DEF Raws, CoverInv
  <2>7. PICK h : h = List[tag][Spot(c, n)]
    OBVIOUS
  <2>8. ~Parsing(c, n, h)
    <3>1. \A i \in Items : WindowOK(i)
      BY <1>0 DEF WindowInv
    <3>2. ~ParseWindow(c)
      BY <1>3, <2>1 DEF ParseWindow
    <3>3. QED
      BY <3>1, <3>2 DEF Parsing, WindowOK
  <2>9. Excused(h) \/ (n \in DOMAIN deferred[tag][c] /\ deferred[tag][c][n].h = h)
    BY <2>6, <2>7, <2>8 DEF CoverOK
  <2>10. h # NoHash
    <3>5. h \in Hash
      BY <1>0, <2>5, <2>7, SpotIn
    <3>6. QED
      BY <3>5, ReplayerAssumption
  <2>11. QED
    BY <2>3, <2>7, <2>9, <2>10 DEF Late
<1>6. CASE ~(EnqueueModules /\ Here = c)
  <2>1. ~Parse
    BY <1>3, <1>4, BatchedPos
  <2>2. deferred'[tag][c] = deferred[tag][c]
    <3>0. deferred \in [Tag -> [{0, 1} -> Seq(InfoSet)]]
      BY DEF Shape, MainTypes
    <3>1. CASE EnqueueModules
      <4>1. Here # c
        BY <1>6, <3>1
      <4>2. QED
        BY <1>0, <3>0, <3>1, <4>1 DEF EnqueueModules
    <3>2. CASE ~EnqueueModules
      BY <2>1, <3>2, EntriesKept
    <3>3. QED
      BY <3>1, <3>2
  <2>3. p # 10 * c + 41
    <3>1. SUFFICES ASSUME p = 10 * c + 41 PROVE EnqueueModules /\ Here = c
      BY <1>6
    <3>2. EnqueueModules
      BY <1>3, <3>1, BatchedPos DEF Batched
    <3>3. Here \in {0, 1} /\ p = 10 * Here + 41
      BY <1>3, <3>2, BatchedPos
    <3>4. QED
      BY <3>1, <3>2, <3>3
  <2>4. NamedWindow(c)
    BY <1>0, <1>3, <1>4, <2>3 DEF NamedWindow
  <2>5. QED
    BY <1>1, <2>2, <2>4 DEF Raws, RawInv
<1>7. QED
  BY <1>5, <1>6

LEMMA RawItemsBatched ==
    ASSUME Shape, WindowInv, WindowInv', Places, Raws, Batched
    PROVE  RawItems'
<1>0. Same /\ tag' = tag /\ tag \in Tag /\ Within /\ outside \subseteq outside' /\ tag # "done"
  BY BatchedMoves, OutsideBatched DEF Same, Within, Tag
<1>1. SUFFICES ASSUME NEW i \in Items' PROVE RawOK(i)'
  BY DEF RawItems
<1>2. CASE i \in Items
  <2>1. RawOK(i)
    BY <1>0, <1>2 DEF Raws, RawItems
  <2>2. \A c \in {0, 1} : FirstWindow(c) => epoch'[c] = epoch[c]
    <3>1. SUFFICES ASSUME NEW c \in {0, 1}, FirstWindow(c) PROVE epoch'[c] = epoch[c]
      OBVIOUS
    <3>2. Pos \in 62..105
      BY <3>1 DEF FirstWindow
    <3>3. ~Parse /\ ~Reclaim
      BY <3>2, BatchedPos
    <3>4. QED
      BY <3>3 DEF Batched, Prune, EnqueueModules, EnqueuePrimary, EnqueueOutside, EnqueueParentModules,
                  EnqueueParents, EnqueueDerived
  <2>3. QED
    BY <1>0, <1>1, <2>1, <2>2, RawStay, BatchedMoves
<1>3. CASE i \notin Items /\ Creating
  <2>1. PICK items \in Seq(Jobs), c \in Ctx :
              /\ Enqueue(items, c)
              /\ \A k \in DOMAIN items : \E d \in Pipes, base \in Handles, ub \in BOOLEAN :
                    items[k] = CreateItem(d, c, Offset(order), base, ub) /\ Source(d, c, base)
    BY <1>3, CreatingItems
  <2>2. UNCHANGED <<work, threads>>
    BY BatchedFacts DEF Shape
  <2>3. i \in ToSet(items)
    BY <1>1, <1>3, <2>1, <2>2, ItemsAdded
  <2>4. PICK d \in Pipes, base \in Handles, ub \in BOOLEAN :
            i = CreateItem(d, c, Offset(order), base, ub) /\ Source(d, c, base)
    BY <2>1, <2>3 DEF ToSet
  <2>5. i.base = base /\ i.ctx = c /\ i.tag = tag /\ i.ep = d.ep
    BY <2>4, CreateFields
  <2>6. SUFFICES ASSUME base = "raw" PROVE RawOK(i)'
    BY <2>5 DEF RawOK, Raw
  <2>7. EnqueuePrimary /\ c = Here /\ Derived(d.h)
        /\ \E n \in DOMAIN deferred[tag][Here] : d = deferred[tag][Here][n]
    <3>1. BaseHandle(d.h) # "raw"
      <4>1. SUFFICES ASSUME BaseHandle(d.h) = "raw" PROVE FALSE
        OBVIOUS
      <4>2. CASE Base[d.h] \in Hash
        <5>1. pipelines[Base[d.h]] \in {"absent", "null", "live"}
          BY <4>2 DEF Shape, SharedTypes
        <5>2. QED
          BY <4>1, <5>1 DEF BaseHandle
      <4>3. CASE Base[d.h] \notin Hash
        <5>1. EnqueueDerived /\ \E n \in Ready(derived[Here]) : d = derived[Here][n]
          BY <2>4, <2>6, <4>1, <4>3, ReplayerAssumption DEF Source, Pipes, Derived
        <5>2. Here \in {0, 1}
          BY <5>1, BatchedPos
        <5>3. derived[Here] \in Seq(DerivedPipes)
          BY <5>2 DEF Shape, MainTypes
        <5>4. d \in DerivedPipes
          BY <5>1, <5>3 DEF Ready
        <5>5. QED
          BY <4>3, <5>4, ReplayerAssumption DEF DerivedPipes, Pipes, Derived
      <4>4. QED
        BY <4>2, <4>3
    <3>2. QED
      BY <2>4, <2>6, <3>1 DEF Source
  <2>8. PICK n \in DOMAIN deferred[tag][c] : d = deferred[tag][c][n]
    BY <2>7
  <2>9. c \in {0, 1} /\ Pos = 10 * c + 61 /\ SlotWindow(c) /\ Place(order) = c /\ (c = 1 => Second)
    BY <2>7, PrimaryPlace, HereFacts DEF InContext, EnqueuePrimary, Shape
  <2>10. d.h # NoHash
    BY ReplayerAssumption DEF Pipes
  <2>11. RawChunk(c)
    <3>1. NamedWindow(c)
      BY <1>0, <2>9 DEF NamedWindow
    <3>2. QED
      BY <2>7, <2>8, <2>9, <2>10, <3>1 DEF Raws, RawInv
  <2>12. RawChunk(c)'
    BY <1>0, <2>11, RawChunkKept
  <2>13. FirstWindow(c)'
    <3>1. Pos' = 10 * c + 62
      BY <2>9, BatchedMoves
    <3>2. CASE c = 0
      BY <1>0, <3>1, <3>2 DEF FirstWindow, Same
    <3>3. CASE c = 1
      BY <1>0, <2>9, <3>1, <3>3 DEF FirstWindow, Same
    <3>4. QED
      BY <2>9, <3>2, <3>3
  <2>14. ASSUME d.ep = epoch'[c] PROVE Spot(c, 0) <= i.index /\ i.index < Spot(c, PerContext)
    <3>1. epoch' = epoch
      BY <2>7 DEF EnqueuePrimary
    <3>2. PlaceOK(d, c)
      BY <1>0, <2>8, <2>9, <2>10 DEF Places, PlaceInv
    <3>3. epoch[c] \in Nat
      BY DEF Shape, SharedTypes
    <3>4. Placed(d, c)
      BY <2>9, <2>14, <3>1, <3>2, <3>3 DEF PlaceOK, Old
    <3>5. i.index + 1 = Spot(c, d.index + 1) /\ i.index \in Nat
      <4>1. d \in InfoSet /\ Made(i, d, c)
        BY <2>4 DEF Made, Pipes
      <4>2. PICK b \in {0, 1} : b = c
        BY <2>9
      <4>3. QED
        BY <1>0, <2>9, <4>1, <4>2, ItemIndex
    <3>6. PICK j \in Nat : j = d.index /\ j < PerContext
      BY <3>4 DEF Placed, Pipes, InfoSet
    <3>7. PICK P \in Nat, m \in Nat : P = PerContext /\ m = Spot(c, 0)
      BY <1>0, <2>9, Spots, EdgeType
    <3>a. \A k \in Nat : Spot(c, k) = m + k
      BY <1>0, <2>9, <3>7, Spots
    <3>d. j + 1 \in Nat
      BY <3>6
    <3>8. Spot(c, j + 1) = m + (j + 1) /\ Spot(c, P) = m + P
      BY <3>7, <3>a, <3>d
    <3>b. PICK x \in Nat : x = i.index /\ x + 1 = m + (j + 1)
      BY <3>5, <3>6, <3>8
    <3>c. m <= x /\ x < m + P
      BY <3>6, <3>7, <3>b
    <3>9. QED
      BY <3>7, <3>8, <3>b, <3>c
  <2>15. QED
    BY <1>0, <2>5, <2>9, <2>12, <2>13, <2>14 DEF RawOK, Same
<1>4. CASE i \notin Items /\ ~Creating
  <2>0. i.kind # "create"
    <3>1. CASE EnqueueModules \/ EnqueueParentModules
      BY <1>1, <1>4, <3>1, ItemsModules, ModuleFields
    <3>2. CASE Parse
      BY <1>1, <1>4, <3>2, ItemsParse, InFields
    <3>3. CASE EnqueueOutside
      BY <1>1, <1>4, <3>3, ItemsOutside, OutFields
    <3>4. CASE Prune \/ Reclaim
      <4>1. UNCHANGED <<queue, work, threads>>
        BY <3>4 DEF Prune, Reclaim, options, workers
      <4>2. QED
        BY <1>1, <1>4, <4>1, ItemsKept
    <3>5. QED
      BY <1>4, <3>1, <3>2, <3>3, <3>4 DEF Batched, Creating
  <2>1. QED
    BY <2>0 DEF RawOK, Raw, Create
<1>5. QED
  BY <1>2, <1>3, <1>4

LEMMA RawsBatched ==
    ASSUME Shape, WindowInv, WindowInv', Places, Raws, Batched
    PROVE  Raws'
BY CoverBatched, RawBatched, RawItemsBatched DEF Raws

LEMMA RawsWorker ==
    ASSUME Shape, WindowInv, Contents, Places, Raws, NEW w \in Thread, Worker(w), tag # "done"
    PROVE  Raws'
<1>0. /\ UNCHANGED <<tag, order, todo, start, derived, outside, epoch>> /\ Items' \subseteq Items
  BY WorkerFacts, ItemsWorker
<1>1. /\ (Within' <=> Within) /\ Pos' = Pos /\ (Second' <=> Second) /\ \A c, k : Spot(c, k)' = Spot(c, k)
  BY <1>0, Stay
<1>2. /\ \A c : (CoverWindow(c)' <=> CoverWindow(c)) /\ (NamedWindow(c)' <=> NamedWindow(c))
      /\ \A c : (FirstWindow(c)' <=> FirstWindow(c)) /\ (RawChunk(c)' <=> RawChunk(c))
      /\ \A h : Excused(h)' <=> Excused(h)
  BY <1>0, <1>1 DEF CoverWindow, NamedWindow, FirstWindow, RawChunk, Excused
<1>3. RawItems'
  <2>1. ASSUME NEW i \in Items PROVE RawOK(i)'
    <3>1. RawOK(i)
      BY <2>1 DEF Raws, RawItems
    <3>2. QED
      BY <1>0, <1>1, <1>2, <3>1 DEF RawOK, Raw, Create
  <2>2. QED
    BY <1>0, <2>1 DEF RawItems
<1>4. CASE ~ParsePipeline(w)
  <2>1. deferred' = deferred
    BY <1>4 DEF Worker, BootWorker, Take, MakeModule, CreatePipeline, Quit, main
  <2>2. \A j \in Items : InParse(j) => j \in Items'
    <3>1. CASE BootWorker(w) \/ Quit(w) \/ Take(w)
      <4>1. work[w].kind \notin Real
        BY <3>1, NoItem DEF BootWorker, Quit, Take, Real
      <4>2. ~ParsePipeline(w) /\ ~MakeModule(w) /\ ~CreatePipeline(w)
        BY <4>1 DEF ParsePipeline, MakeModule, CreatePipeline, Real
      <4>3. QED
        BY <4>2, ItemsWorker
    <3>2. CASE MakeModule(w) \/ CreatePipeline(w)
      <4>1. work[w].kind # "parse"
        BY <3>2 DEF MakeModule, CreatePipeline
      <4>2. QED
        BY <4>1, ItemsWorker DEF InParse
    <3>3. QED
      BY <1>4, <3>1, <3>2 DEF Worker
  <2>3. \A c, k, h : Parsing(c, k, h) => Parsing(c, k, h)'
    BY <2>2 DEF Parsing, InParse
  <2>4. \A c, n : CoverOK(c, n) => CoverOK(c, n)'
    <3>1. SUFFICES ASSUME NEW c, NEW n, CoverOK(c, n) PROVE CoverOK(c, n)'
      OBVIOUS
    <3>2. PICK h : h = List[tag][Spot(c, n)] /\ h = List[tag'][Spot(c, n)']
      BY <1>0, <1>1
    <3>3. Excused(h)' \/ Parsing(c, n, h)' \/ (n \in DOMAIN deferred'[tag'][c] /\ deferred'[tag'][c][n].h = h)
      BY <1>0, <1>2, <2>1, <2>3, <3>1, <3>2 DEF CoverOK
    <3>4. QED
      BY <3>2, <3>3 DEF CoverOK, Excused, Parsing
  <2>5. CoverInv'
    BY <1>0, <1>1, <1>2, <2>4 DEF Raws, CoverInv
  <2>6. RawInv'
    BY <1>0, <1>2, <2>1 DEF Raws, RawInv
  <2>7. QED
    BY <1>3, <2>5, <2>6 DEF Raws
<1>5. CASE ParsePipeline(w)
  <2>1. PICK i : i = work[w] /\ i.kind = "parse" /\ i.h \in Hash /\ i \in Items /\ i \in Jobs
    BY <1>5, WorkOf DEF ParsePipeline, Shape, Items, Pending, Real
  <2>2. \A j \in Items : j \in Items' \/ j = i
    BY <1>5, <2>1, ItemsWorker DEF ParsePipeline, BootWorker, Quit, Take, Idle, Boot, BlankItem
  <2>3. CASE ~InParse(i) \/ i.h \in Unreadable
    <3>1. deferred' = deferred
      BY <1>5, <2>1, <2>3 DEF ParsePipeline, InParse
    <3>2. ASSUME NEW c, NEW n, CoverOK(c, n) PROVE CoverOK(c, n)'
      <4>1. PICK h : h = List[tag][Spot(c, n)] /\ h = List[tag'][Spot(c, n)']
        BY <1>0, <1>1
      <4>2. Parsing(c, n, h) => Parsing(c, n, h)' \/ Excused(h)
        BY <2>2, <2>3 DEF Parsing, InParse, Excused
      <4>3. Excused(h)' \/ Parsing(c, n, h)' \/ (n \in DOMAIN deferred'[tag'][c] /\ deferred'[tag'][c][n].h = h)
        BY <1>0, <1>2, <3>1, <3>2, <4>1, <4>2 DEF CoverOK
      <4>4. QED
        BY <4>1, <4>3 DEF CoverOK, Excused, Parsing
    <3>3. CoverInv'
      BY <1>0, <1>1, <1>2, <3>2 DEF Raws, CoverInv
    <3>4. RawInv'
      BY <1>0, <1>2, <3>1 DEF Raws, RawInv
    <3>5. QED
      BY <1>3, <3>3, <3>4 DEF Raws
  <2>4. CASE InParse(i) /\ i.h \notin Unreadable
    <3>1. PICK slot : /\ slot.h = i.h \/ i.h \in Malformed
                      /\ deferred' = [deferred EXCEPT ![i.tag][i.ctx][i.index + 1] = slot]
      BY <1>5, <2>1, <2>4 DEF ParsePipeline, InParse, Info
    <3>2. /\ i.ctx \in {0, 1} /\ i.tag = tag /\ ParseWindow(i.ctx) /\ i.index \in Nat
          /\ i.h = List[tag][Spot(i.ctx, i.index + 1)]
          /\ i.index < Len(deferred[tag][i.ctx])
      <4>1. WindowOK(i) /\ TurnOK(i) /\ ParseOK(i)
        BY <2>1 DEF WindowInv, Places, TurnInv, Contents, ParseInv
      <4>2. QED
        BY <2>1, <2>4, <4>1 DEF WindowOK, TurnOK, ParseOK, Jobs, ItemSet
    <3>3. Within /\ tag \in Tag
      BY <3>2 DEF ParseWindow, Within
    <3>4. PICK b \in {0, 1}, m \in Nat \ {0} : b = i.ctx /\ m = i.index + 1
      BY <3>2
    <3>5. deferred \in [Tag -> [{0, 1} -> Seq(InfoSet)]]
      BY DEF Shape, MainTypes
    <3>6. /\ \A c \in {0, 1} : c # b => deferred'[tag][c] = deferred[tag][c]
          /\ deferred'[tag][b] = [deferred[tag][b] EXCEPT ![m] = slot]
      BY <3>1, <3>2, <3>3, <3>4, <3>5
    <3>7. m \in DOMAIN deferred[tag][b]
      <4>1. PICK s \in Seq(InfoSet) : s = deferred[tag][b] /\ i.index < Len(s)
        BY <3>2, <3>3, <3>4, <3>5
      <4>2. PICK j \in Nat : j = i.index /\ m = j + 1
        BY <3>2, <3>4
      <4>3. m \in 1..Len(s)
        BY <4>1, <4>2
      <4>4. QED
        BY <4>1, <4>3
    <3>8. RawInv'
      <4>1. \A c \in {0, 1} : NamedWindow(c) => c # b
        <5>1. ParseWindow(b)
          BY <3>2, <3>4
        <5>2. QED
          BY <5>1 DEF NamedWindow, ParseWindow
      <4>2. QED
        BY <1>0, <1>2, <3>6, <4>1 DEF Raws, RawInv
    <3>9. ASSUME NEW c \in {0, 1}, NEW n \in Nat, CoverOK(c, n) PROVE CoverOK(c, n)'
      <4>1. PICK h : h = List[tag][Spot(c, n)] /\ h = List[tag'][Spot(c, n)']
        BY <1>0, <1>1
      <4>2. Parsing(c, n, h) => Parsing(c, n, h)' \/ (c = b /\ n = m /\ h = i.h)
        <5>1. SUFFICES ASSUME NEW j \in Items, InParse(j), j.ctx = c, j.index = n - 1, j.h = h, j \notin Items'
                       PROVE  c = b /\ n = m /\ h = i.h
          BY DEF Parsing, InParse
        <5>2. j = i
          BY <2>2, <5>1
        <5>3. QED
          BY <3>2, <3>4, <5>1, <5>2
      <4>3. CASE c = b /\ n = m
        <5>1. h = i.h
          BY <3>2, <3>4, <4>1, <4>3
        <5>2. n \in DOMAIN deferred'[tag'][c] /\ deferred'[tag'][c][n] = slot
          <6>1. deferred[tag][b] \in Seq(InfoSet)
            BY <3>3, <3>5
          <6>2. QED
            BY <1>0, <3>6, <3>7, <4>3, <6>1
        <5>3. slot.h = h \/ Excused(h)'
          BY <3>1, <5>1 DEF Excused
        <5>4. QED
          BY <4>1, <5>2, <5>3 DEF CoverOK, Excused
      <4>4. CASE ~(c = b /\ n = m)
        <5>1. n \in DOMAIN deferred[tag][c] /\ deferred[tag][c][n].h = h =>
                 n \in DOMAIN deferred'[tag'][c] /\ deferred'[tag'][c][n].h = h
          <6>1. deferred[tag][b] \in Seq(InfoSet)
            BY <3>3, <3>5
          <6>2. QED
            BY <1>0, <3>6, <4>4, <6>1
        <5>2. Excused(h)' \/ Parsing(c, n, h)' \/ (n \in DOMAIN deferred'[tag'][c] /\ deferred'[tag'][c][n].h = h)
          BY <1>2, <3>9, <4>1, <4>2, <4>4, <5>1 DEF CoverOK
        <5>3. QED
          BY <4>1, <5>2 DEF CoverOK, Excused, Parsing
      <4>5. QED
        BY <4>3, <4>4
    <3>10. CoverInv'
      <4>1. \A n \in 1..PerContext : n \in Nat
        BY ReplayerAssumption
      <4>2. QED
        BY <1>0, <1>1, <1>2, <3>9, <4>1 DEF Raws, CoverInv
    <3>11. QED
      BY <1>3, <3>8, <3>10 DEF Raws
  <2>5. QED
    BY <2>3, <2>4
<1>6. QED
  BY <1>4, <1>5

LEMMA RawsDie ==
    ASSUME Shape, NEW w \in Thread, Crash(w) \/ Timeout(w)
    PROVE  Raws'
<1>1. ~Within' /\ (tag' # "done" => Items' = {})
  BY ItemsDie DEF Over, Restart, Within, Tag
<1>2. QED
  BY <1>1 DEF Raws, CoverInv, CoverWindow, RawInv, NamedWindow, RawItems

LEMMA RawsHold == Spec => []Raws
<1>1. Init => Raws
  <2>1. SUFFICES ASSUME Init PROVE Raws
    OBVIOUS
  <2>2. Items = {} /\ ~Within
    BY <2>1, NoItem DEF Init, Items, Pending, ToSet, Real, Within
  <2>3. QED
    BY <2>2 DEF Raws, CoverInv, CoverWindow, RawInv, NamedWindow, RawItems
<1>2. Shape /\ Counts /\ WindowInv /\ Contents /\ Places /\ WindowInv' /\ Raws /\ [Next]_vars => Raws'
  <2>1. SUFFICES ASSUME Shape, Counts, WindowInv, Contents, Places, WindowInv', Raws, [Next]_vars
                 PROVE  Raws'
    OBVIOUS
  <2>2. CASE UNCHANGED vars
    <3>1. /\ Items' = Items
          /\ UNCHANGED <<tag, order, todo, start, deferred, epoch, outside>>
      BY <2>2, ItemsKept DEF vars
    <3>2. /\ (Within' <=> Within) /\ Pos' = Pos /\ (Second' <=> Second) /\ \A c, k : Spot(c, k)' = Spot(c, k)
      BY <3>1, Stay
    <3>3. /\ \A c : (CoverWindow(c)' <=> CoverWindow(c)) /\ (NamedWindow(c)' <=> NamedWindow(c))
          /\ \A c : (FirstWindow(c)' <=> FirstWindow(c)) /\ (RawChunk(c)' <=> RawChunk(c))
      BY <3>1, <3>2 DEF CoverWindow, NamedWindow, FirstWindow, RawChunk, Excused
    <3>4. \A c, n : CoverOK(c, n)' <=> CoverOK(c, n)
      BY <3>1, <3>2 DEF CoverOK, Excused, Parsing, InParse
    <3>5. CoverInv' /\ RawInv'
      BY <2>1, <3>1, <3>2, <3>3, <3>4 DEF Raws, CoverInv, RawInv
    <3>6. RawItems'
      BY <2>1, <3>1, <3>2, <3>3 DEF Raws, RawItems, RawOK, Raw, Create
    <3>7. QED
      BY <3>5, <3>6 DEF Raws
  <2>3. CASE Next
    <3>1. tag # "done"
      BY <2>1, <2>3, Ended DEF Counts
    <3>2. CASE Main
      BY <2>1, <3>1, <3>2, MainSplit, RawsControl, RawsBatched
    <3>3. QED
      BY <2>1, <2>3, <3>1, <3>2, RawsWorker, RawsDie DEF Next
  <2>4. QED
    BY <2>1, <2>2, <2>3
<1>3. QED
  BY <1>1, <1>2, ShapeHolds, CountsHold, WindowHolds, ContentsHold, PlacesHold, PTL DEF Spec
-----------------------------------------------------------------------------
(***************************************************************************)
(* Bases.  A plain pipeline with an entry has been compiled or is queued   *)
(* with its create info; so when the derived ones are enqueued, which is   *)
(* after everything plain was waited for, the base of each one that has an *)
(* entry has been compiled.  From then on only a slot that was not         *)
(* rewritten can bring it back.                                            *)
(***************************************************************************)
PlainOK(i) == Create(i) => i.base \in IF Derived(i.h) THEN {"raw", "null", "live"} ELSE {"none"}
PlainInv == \A i \in Items : PlainOK(i)

Valid(i) == Create(i) /\ i.valid
Entry(h) == compiled[h] >= 1 \/ \E k \in DOMAIN queue : Valid(queue[k]) /\ queue[k].h = h
EntryInv == tag # "done" => \A h \in Hash : ~Absent(h) /\ ~Derived(h) => Entry(h)

Again(i, b) == Create(i) /\ i.h = b
Settled(b) == /\ ~Absent(b) /\ compiled[b] >= 1
              /\ \A j \in Items : Again(j, b) => j.from \in Unreadable
              /\ \A w \in Thread : Again(work[w], b) /\ Calls(work[w]) => compiled[b] > 1
Based(i) == Create(i) /\ Derived(i.h) /\ i.base # "raw"
BaseOK(i) == Based(i) => /\ Settled(Base[i.h])
                         /\ i.base = pipelines[Base[i.h]] \/ compiled[Base[i.h]] > 1
BaseInv == tag # "done" => \A i \in Items : BaseOK(i)

Bases == outside \subseteq Parent /\ PlainInv /\ EntryInv /\ BaseInv

LEMMA BaseType ==
    ASSUME NEW h \in Hash, Derived(h)
    PROVE  Base[h] \in Hash /\ ~Derived(Base[h])
BY ReplayerAssumption DEF Derived

\* What a pass compiles although it has an entry comes from an entry that
\* could not be read.
LEMMA SourceAgain ==
    ASSUME Shape, WindowInv, Contents, Places, Creating, NEW d \in Pipes, NEW c, NEW base,
           Source(d, c, base), ~Derived(d.h), ~Absent(d.h)
    PROVE  d.from \in Unreadable
<1>0. Within /\ tag # "done" /\ d.h # NoHash
  <2>1. Batched
    BY DEF Batched, Creating
  <2>2. Within
    BY <2>1, BatchedMoves DEF Same
  <2>3. QED
    BY <2>2, ReplayerAssumption DEF Within, Tag, Pipes
<1>1. CASE EnqueuePrimary
  <2>1. ~EnqueueParents /\ ~EnqueueDerived
    BY <1>1 DEF EnqueuePrimary, EnqueueParents, EnqueueDerived, Doing
  <2>2. PICK b \in {0, 1} : b = Here /\ Pos = 10 * b + 61 /\ SlotWindow(b)
    BY <1>1, PrimaryPlace
  <2>3. PICK n \in DOMAIN deferred[tag][b] : d = deferred[tag][b][n]
    BY <2>1, <2>2 DEF Source
  <2>4. PlaceOK(d, b)
    BY <1>0, <2>3 DEF Places, PlaceInv
  <2>5. d.ep < epoch[b]
    BY <2>2, <2>4 DEF PlaceOK, Old
  <2>6. d.ep # epoch[b]
    <3>1. epoch[b] \in Nat /\ d.ep \in Nat
      <4>1. epoch \in [Ctx -> Nat] /\ b \in Ctx
        BY DEF Shape, SharedTypes, Ctx
      <4>2. d.ep \in Nat
        BY DEF Pipes, InfoSet
      <4>3. QED
        BY <4>1, <4>2
    <3>2. QED
      BY <2>5, <3>1
  <2>7. SlotOK(d, b, n)
    BY <2>2, <2>3 DEF Contents, SlotInv
  <2>8. ~Parsing(b, n, d.from)
    <3>1. \A i \in Items : WindowOK(i)
      BY <1>0 DEF WindowInv
    <3>2. ~ParseWindow(b)
      BY <2>2 DEF ParseWindow
    <3>3. QED
      BY <3>1, <3>2 DEF Parsing, WindowOK
  <2>9. QED
    BY <1>0, <2>6, <2>7, <2>8 DEF SlotOK, Fits
<1>2. CASE EnqueueParents
  <2>1. ~EnqueuePrimary /\ ~EnqueueDerived
    BY <1>2 DEF EnqueuePrimary, EnqueueParents, EnqueueDerived, Doing
  <2>2. d \in parents
    BY <2>1 DEF Source
  <2>3. QED
    BY <1>0, <2>2 DEF Places, KinInv
<1>3. CASE EnqueueDerived
  <2>1. ~EnqueuePrimary /\ ~EnqueueParents
    BY <1>3 DEF EnqueuePrimary, EnqueueParents, EnqueueDerived, Doing
  <2>2. PICK b \in {0, 1} : b = Here
    BY <1>3, BatchedPos
  <2>3. PICK n \in DOMAIN derived[b] : d = derived[b][n]
    BY <2>1, <2>2 DEF Source, Ready
  <2>4. derived[b] \in Seq(DerivedPipes)
    BY DEF Shape, MainTypes
  <2>5. d \in DerivedPipes
    BY <2>3, <2>4
  <2>6. QED
    BY <2>5 DEF DerivedPipes
<1>4. QED
  BY <1>1, <1>2, <1>3 DEF Creating

\* The items that a pass adds.
LEMMA AddedItem ==
    ASSUME Shape, Batched, NEW i \in Items', i \notin Items, Create(i)
    PROVE  /\ Creating
           /\ \E d \in Pipes, c \in Ctx, base \in Handles :
                 Source(d, c, base) /\ i.h = d.h /\ i.from = d.from /\ i.base = base
<1>1. Creating
  <2>1. SUFFICES ASSUME ~Creating PROVE i.kind # "create"
    BY DEF Create
  <2>2. CASE EnqueueModules \/ EnqueueParentModules
    BY <2>2, ItemsModules, ModuleFields
  <2>3. CASE Parse
    BY <2>3, ItemsParse, InFields
  <2>4. CASE EnqueueOutside
    BY <2>4, ItemsOutside, OutFields
  <2>5. CASE Prune \/ Reclaim
    <3>1. UNCHANGED <<queue, work, threads>>
      BY <2>5 DEF Prune, Reclaim, options, workers
    <3>2. QED
      BY <3>1, ItemsKept
  <2>6. QED
    BY <2>1, <2>2, <2>3, <2>4, <2>5 DEF Batched, Creating
<1>2. PICK items \in Seq(Jobs), c \in Ctx :
              /\ Enqueue(items, c)
              /\ \A k \in DOMAIN items : \E d \in Pipes, base \in Handles, ub \in BOOLEAN :
                    items[k] = CreateItem(d, c, Offset(order), base, ub) /\ Source(d, c, base)
  BY <1>1, CreatingItems
<1>3. UNCHANGED <<work, threads>>
  BY BatchedFacts DEF Shape
<1>4. i \in ToSet(items)
  BY <1>2, <1>3, ItemsAdded
<1>5. PICK d \in Pipes, base \in Handles, ub \in BOOLEAN :
            i = CreateItem(d, c, Offset(order), base, ub) /\ Source(d, c, base)
  BY <1>2, <1>4 DEF ToSet
<1>6. QED
  BY <1>1, <1>5, CreateFields

LEMMA SettledBatched ==
    ASSUME Shape, WindowInv, Contents, Places, Batched, NEW b \in Hash, ~Derived(b), Settled(b)
    PROVE  Settled(b)' /\ pipelines'[b] = pipelines[b] /\ compiled' = compiled
<1>1. UNCHANGED <<work, threads, compiled>>
  BY BatchedFacts DEF Shape
<1>2. pipelines'[b] = pipelines[b]
  <2>1. CASE Creating
    BY <2>1, EnteredBy DEF Settled
  <2>2. CASE ~Creating
    BY <2>2, EntriesKept
  <2>3. QED
    BY <2>1, <2>2
<1>3. ASSUME NEW j \in Items', Again(j, b) PROVE j.from \in Unreadable
  <2>1. CASE j \in Items
    BY <1>3, <2>1 DEF Settled
  <2>2. CASE j \notin Items
    <3>1. PICK d \in Pipes, c \in Ctx, base \in Handles :
                 Creating /\ Source(d, c, base) /\ j.h = d.h /\ j.from = d.from /\ j.base = base
      BY <1>3, <2>2, AddedItem DEF Again
    <3>2. d.h = b /\ ~Absent(d.h) /\ ~Derived(d.h)
      BY <1>3, <3>1 DEF Again, Settled
    <3>3. QED
      BY <3>1, <3>2, SourceAgain
  <2>3. QED
    BY <2>1, <2>2
<1>4. \A w \in Thread' : Again(work[w], b)' /\ Calls(work[w])' => compiled'[b] > 1
  BY <1>1 DEF Settled, Again, Calls, Create, Thread
<1>5. QED
  BY <1>1, <1>2, <1>3, <1>4 DEF Settled, Absent, Again, Create

\* When the derived pipelines are enqueued nothing plain is left.
LEMMA AllPlainDone ==
    ASSUME Shape, WindowInv, EnqueueDerived, NEW i \in Items, Create(i)
    PROVE  Derived(i.h)
<1>1. Within /\ tag # "done" /\ Pos \in {122, 130}
  <2>1. Within
    BY BatchedFacts DEF Shape, Batched
  <2>2. QED
    BY <2>1, BatchedPos DEF Within, Tag
<1>2. WindowOK(i)
  BY <1>1 DEF WindowInv
<1>3. QED
  BY <1>1, <1>2 DEF WindowOK, FirstWindow

LEMMA BaseNew ==
    ASSUME Shape, WindowInv, Contents, Places, Bases, Batched, NEW i \in Items', i \notin Items
    PROVE  PlainOK(i) /\ BaseOK(i)'
<1>0. Within /\ tag # "done"
  <2>1. Within
    BY BatchedMoves DEF Same
  <2>2. QED
    BY <2>1 DEF Within, Tag
<1>1. SUFFICES ASSUME Create(i) PROVE PlainOK(i) /\ BaseOK(i)'
  BY DEF PlainOK, BaseOK, Based, Create
<1>2. PICK d \in Pipes, c \in Ctx, base \in Handles :
                 Creating /\ Source(d, c, base) /\ i.h = d.h /\ i.from = d.from /\ i.base = base
  BY <1>1, AddedItem
<1>3. CASE EnqueuePrimary
  <2>1. ~EnqueueParents /\ ~EnqueueDerived
    BY <1>3 DEF EnqueuePrimary, EnqueueParents, EnqueueDerived, Doing
  <2>2. base = IF Derived(d.h) THEN "raw" ELSE "none"
    BY <1>2, <2>1 DEF Source
  <2>3. QED
    BY <1>2, <2>2 DEF PlainOK, BaseOK, Based
<1>4. CASE EnqueueParents
  <2>1. ~EnqueuePrimary /\ ~EnqueueDerived
    BY <1>4 DEF EnqueuePrimary, EnqueueParents, EnqueueDerived, Doing
  <2>2. d \in parents /\ base = "none"
    BY <1>2, <2>1 DEF Source
  <2>3. d.h \in Parent
    BY <1>0, <2>2 DEF Places, KinInv, Bases
  <2>4. ~Derived(d.h)
    BY <2>3 DEF Derived
  <2>5. QED
    BY <1>2, <2>2, <2>4 DEF PlainOK, BaseOK, Based
<1>5. CASE EnqueueDerived
  <2>1. ~EnqueuePrimary /\ ~EnqueueParents
    BY <1>5 DEF EnqueuePrimary, EnqueueParents, EnqueueDerived, Doing
  <2>2. PICK a \in {0, 1} : a = Here
    BY <1>5, BatchedPos
  <2>3. PICK n \in Ready(derived[a]) : d = derived[a][n] /\ base = BaseHandle(d.h)
    BY <1>2, <2>1, <2>2 DEF Source
  <2>4. derived[a] \in Seq(DerivedPipes)
    BY DEF Shape, MainTypes
  <2>5. d \in DerivedPipes
    BY <2>3, <2>4 DEF Ready
  <2>6. PICK b \in Hash : b = Base[d.h] /\ ~Derived(b)
    BY <2>5, BaseType DEF DerivedPipes, Pipes
  <2>7. ~Absent(b)
    BY <2>3, <2>6 DEF Ready, Absent
  <2>8. base = pipelines[b] /\ base \in {"null", "live"}
    <3>1. pipelines[b] \in {"absent", "null", "live"}
      BY DEF Shape, SharedTypes
    <3>2. QED
      BY <2>3, <2>6, <2>7, <3>1 DEF BaseHandle, Absent
  <2>9. \A j \in Items : ~Again(j, b)
    BY <1>5, <2>6, AllPlainDone DEF Again
  <2>10. compiled[b] >= 1
    <3>1. \A k \in DOMAIN queue : Valid(queue[k]) => queue[k] \in Items
      BY DEF Valid, Create, Items, Pending, ToSet, Real
    <3>2. Entry(b)
      BY <1>0, <2>6, <2>7 DEF Bases, EntryInv
    <3>3. QED
      BY <2>9, <3>1, <3>2 DEF Entry, Valid, Again
  <2>11. \A w \in Thread : ~Again(work[w], b)
    <3>1. \A w \in Thread : Create(work[w]) => work[w] \in Items
      BY DEF Create, Items, Pending, Real
    <3>2. QED
      BY <2>9, <3>1 DEF Again
  <2>12. Settled(b)
    BY <2>7, <2>9, <2>10, <2>11 DEF Settled
  <2>13. Settled(b)' /\ pipelines'[b] = pipelines[b]
    BY <2>6, <2>12, SettledBatched
  <2>14. PlainOK(i)
    BY <1>2, <2>5, <2>8 DEF PlainOK, DerivedPipes
  <2>15. BaseOK(i)'
    BY <1>2, <2>6, <2>8, <2>13 DEF BaseOK, Settled, Absent, Again
  <2>16. QED
    BY <2>14, <2>15
<1>6. QED
  BY <1>2, <1>3, <1>4, <1>5 DEF Creating

LEMMA BasesStay ==
    ASSUME Bases, UNCHANGED <<queue, work, threads, pipelines, compiled>>, Items' = Items,
           outside' \subseteq Parent, tag' # "done" => tag # "done"
    PROVE  Bases'
<1>1. \A h : (Absent(h)' <=> Absent(h)) /\ (Entry(h)' <=> Entry(h))
  BY DEF Absent, Entry, Valid, Create
<1>2. \A b : Settled(b)' <=> Settled(b)
  BY <1>1 DEF Settled, Again, Create, Calls, Thread
<1>3. \A i : (PlainOK(i)' <=> PlainOK(i)) /\ (BaseOK(i)' <=> BaseOK(i))
  BY <1>2 DEF PlainOK, BaseOK, Based, Create
<1>4. PlainInv' /\ EntryInv' /\ BaseInv'
  BY <1>1, <1>3 DEF Bases, PlainInv, EntryInv, BaseInv
<1>5. QED
  BY <1>4 DEF Bases

LEMMA BasesControl ==
    ASSUME Shape, Bases, Control, tag # "done"
    PROVE  Bases'
<1>1. UNCHANGED <<queue, work, threads, pipelines>> /\ Items' = Items
  BY ControlFacts
<1>2. compiled' = compiled
  BY MainSplit, MainFrame
<1>3. outside' = outside \/ outside' = {}
  BY DEF Control, AwaitBoot, Advance, SyncContext, TearDown, Join
<1>4. outside' \subseteq Parent
  BY <1>3 DEF Bases
<1>5. QED
  BY <1>1, <1>2, <1>4, BasesStay

\* A pass that enters a pipeline queues it with its create info.
LEMMA EntryBatched ==
    ASSUME Shape, Bases, Batched
    PROVE  EntryInv'
<1>0. tag # "done" /\ tag' = tag /\ UNCHANGED <<work, threads, compiled>>
  BY BatchedFacts DEF Shape, Within, Tag
<1>1. SUFFICES ASSUME NEW h \in Hash, ~Absent(h)', ~Derived(h) PROVE Entry(h)'
  BY DEF EntryInv
<1>2. ASSUME Entry(h) PROVE Entry(h)'
  <2>1. CASE compiled[h] >= 1
    BY <1>0, <2>1 DEF Entry
  <2>2. CASE ~(compiled[h] >= 1)
    <3>1. PICK k \in DOMAIN queue : Valid(queue[k]) /\ queue[k].h = h
      BY <1>2, <2>2 DEF Entry
    <3>2. CASE queue' = queue
      BY <3>1, <3>2 DEF Entry, Valid, Create
    <3>3. CASE queue' # queue
      <4>1. PICK items \in Seq(Jobs), c \in Ctx : Enqueue(items, c)
        BY <3>3, MainItems, MainSplit
      <4>2. queue' = queue \o items /\ queue \in Seq(Jobs)
        BY <4>1 DEF Enqueue, Shape, WorkTypes
      <4>3. k \in DOMAIN queue' /\ queue'[k] = queue[k]
        BY <3>1, <4>1, <4>2
      <4>4. QED
        BY <3>1, <4>3 DEF Entry, Valid, Create
    <3>4. QED
      BY <3>2, <3>3
  <2>3. QED
    BY <2>1, <2>2
<1>3. CASE ~Absent(h)
  BY <1>0, <1>1, <1>2, <1>3 DEF Bases, EntryInv
<1>4. CASE Absent(h)
  <2>1. Creating
    BY <1>1, <1>4, EntriesKept DEF Absent
  <2>2. PICK items \in Seq(Jobs), c \in Ctx :
              /\ Enqueue(items, c)
              /\ \A k \in DOMAIN items : \E d \in Pipes, base \in Handles, ub \in BOOLEAN :
                    items[k] = CreateItem(d, c, Offset(order), base, ub) /\ Source(d, c, base)
              /\ pipelines' = [g \in Hash |-> IF g \in Entered(items) /\ pipelines[g] = "absent"
                                             THEN "null" ELSE pipelines[g]]
    BY <2>1, CreatingItems
  <2>3. h \in Entered(items)
    BY <1>1, <1>4, <2>2 DEF Absent
  <2>4. PICK k \in DOMAIN items : items[k].valid /\ items[k].h = h
    BY <2>3 DEF Entered
  <2>5. items[k].kind = "create"
    BY <2>2, CreateFields
  <2>6. queue' = queue \o items /\ queue \in Seq(Jobs)
    BY <2>2 DEF Enqueue, Shape, WorkTypes
  <2>7. PICK n : n = Len(queue) + k
    OBVIOUS
  <2>8. n \in DOMAIN queue' /\ queue'[n] = items[k]
    BY <2>2, <2>6, <2>7
  <2>9. QED
    BY <2>4, <2>5, <2>8 DEF Entry, Valid, Create
<1>5. QED
  BY <1>3, <1>4

LEMMA BasesBatched ==
    ASSUME Shape, WindowInv, Contents, Places, Bases, Batched
    PROVE  Bases'
<1>0. tag # "done" /\ UNCHANGED <<compiled>>
  BY BatchedFacts DEF Shape, Within, Tag
<1>1. outside' \subseteq Parent
  <2>1. CASE EnqueueOutside
    <3>1. \A k \in Wanted(derived[Here]) : k \in DOMAIN derived[Here]
      BY DEF Wanted
    <3>2. QED
      BY <2>1, <3>1, OutsideEnqueued DEF Shape, Bases
  <2>2. CASE ~EnqueueOutside
    BY <2>2, EntriesKept DEF Bases
  <2>3. QED
    BY <2>1, <2>2
<1>2. ASSUME NEW i \in Items', i \in Items PROVE PlainOK(i) /\ BaseOK(i)'
  <2>1. PlainOK(i)
    BY <1>2 DEF Bases, PlainInv
  <2>2. SUFFICES ASSUME Based(i) PROVE BaseOK(i)'
    BY <2>1 DEF BaseOK, Based, Create
  <2>3. PICK b \in Hash : b = Base[i.h] /\ ~Derived(b)
    <3>1. i.h \in Hash
      BY <1>2, <2>2, ItemsTyped DEF Jobs, Typed, Based, Create
    <3>2. QED
      BY <2>2, <3>1, BaseType DEF Based
  <2>4. Settled(b) /\ (i.base = pipelines[b] \/ compiled[b] > 1)
    BY <1>0, <1>2, <2>2, <2>3 DEF Bases, BaseInv, BaseOK
  <2>5. Settled(b)' /\ pipelines'[b] = pipelines[b] /\ compiled' = compiled
    BY <2>3, <2>4, SettledBatched
  <2>6. Settled(Base[i.h])'
    BY <2>3, <2>5 DEF Settled, Absent, Again, Create
  <2>7. QED
    BY <2>3, <2>4, <2>5, <2>6 DEF BaseOK
<1>3. \A i \in Items' : PlainOK(i) /\ BaseOK(i)'
  BY <1>2, BaseNew
<1>4. PlainInv' /\ BaseInv'
  BY <1>3 DEF PlainInv, BaseInv, PlainOK, Create
<1>5. QED
  BY <1>1, <1>4, EntryBatched DEF Bases

\* What a worker does to the item it holds.
LEMMA WorkerKeeps ==
    ASSUME Shape, NEW w \in Thread, Worker(w)
    PROVE  /\ \A x \in Thread : x # w => work'[x] = work[x]
           /\ Take(w) => work'[w] = Head(queue)
           /\ ~Take(w) => ~Create(work'[w]) /\ UNCHANGED <<queue, compiled>>
           /\ ~CreatePipeline(w) => UNCHANGED pipelines
<1>1. work \in [Thread -> Jobs \cup {Idle, Boot, Gone}]
  BY DEF Shape, WorkTypes
<1>2. /\ Take(w) => work' = [work EXCEPT ![w] = Head(queue)]
      /\ ~Take(w) => work' = [work EXCEPT ![w] = Idle] \/ work' = [work EXCEPT ![w] = Gone]
  BY DEF Worker, BootWorker, Take, ParsePipeline, MakeModule, CreatePipeline, Quit, Complete
<1>3. ~Take(w) => UNCHANGED <<queue, compiled>>
  BY DEF Worker, BootWorker, ParsePipeline, MakeModule, CreatePipeline, Quit, shared, history
<1>4. ~CreatePipeline(w) => UNCHANGED pipelines
  BY DEF Worker, BootWorker, ParsePipeline, MakeModule, Take, Quit, shared
<1>5. QED
  BY <1>1, <1>2, <1>3, <1>4, NoItem DEF Create

LEMMA TakeCounts ==
    ASSUME Shape, NEW w \in Thread, Take(w)
    PROVE  /\ Head(queue) = queue[1] /\ 1 \in DOMAIN queue /\ queue' = Tail(queue)
           /\ Create(queue[1]) /\ Calls(queue[1]) =>
                 queue[1].h \in Hash /\ compiled' = [compiled EXCEPT ![queue[1].h] = @ + 1]
           /\ \A h \in Hash : compiled[h] \in Nat /\ compiled'[h] \in Nat /\ compiled'[h] >= compiled[h]
<1>1. queue \in Seq(Jobs) /\ compiled \in [Hash -> Nat] /\ queue # <<>>
  BY DEF Shape, WorkTypes, SharedTypes, Take
<1>2. Head(queue) = queue[1] /\ 1 \in DOMAIN queue /\ queue' = Tail(queue)
  BY <1>1 DEF Take
<1>3. PICK i \in Jobs : i = queue[1]
  BY <1>1, <1>2
<1>4. compiled' = IF i.kind = "create" /\ Calls(i) THEN [compiled EXCEPT ![i.h] = @ + 1] ELSE compiled
  BY <1>2, <1>3 DEF Take
<1>5. i.kind = "create" => i.h \in Hash
  BY <1>3 DEF Jobs, Typed
<1>6. \A h \in Hash : compiled[h] \in Nat /\ compiled'[h] \in Nat /\ compiled'[h] >= compiled[h]
  <2>1. CASE i.kind = "create" /\ Calls(i)
    BY <1>1, <1>4, <1>5, <2>1
  <2>2. CASE ~(i.kind = "create" /\ Calls(i))
    BY <1>1, <1>4, <2>2
  <2>3. QED
    BY <2>1, <2>2
<1>7. QED
  BY <1>2, <1>3, <1>4, <1>5, <1>6 DEF Create

LEMMA CountsGrow ==
    ASSUME Shape, NEW w \in Thread, Worker(w), NEW h \in Hash
    PROVE  compiled[h] \in Nat /\ compiled'[h] \in Nat /\ compiled'[h] >= compiled[h]
<1>1. compiled \in [Hash -> Nat]
  BY DEF Shape, SharedTypes
<1>2. CASE Take(w)
  BY <1>2, TakeCounts
<1>3. CASE ~Take(w)
  BY <1>1, <1>3, WorkerKeeps
<1>4. QED
  BY <1>2, <1>3

LEMMA SettledWorker ==
    ASSUME Shape, ValidInv, NEW w \in Thread, Worker(w), NEW b \in Hash, Settled(b)
    PROVE  Settled(b)' /\ (pipelines'[b] = pipelines[b] \/ compiled'[b] > 1)
<1>1. PICK n \in Nat, m \in Nat : n = compiled[b] /\ m = compiled'[b] /\ m >= n /\ n >= 1
  BY CountsGrow DEF Settled
<1>2. ~Absent(b)'
  BY EntriesWorker DEF Settled
<1>3. \A j \in Items' : Again(j, b) => j.from \in Unreadable
  BY ItemsWorker DEF Settled
<1>4. ASSUME NEW x \in Thread, Again(work'[x], b), Calls(work'[x]) PROVE m > 1
  <2>1. CASE work'[x] = work[x]
    <3>1. n > 1
      BY <1>1, <1>4, <2>1 DEF Settled
    <3>2. QED
      BY <1>1, <3>1
  <2>2. CASE work'[x] # work[x]
    <3>1. x = w
      BY <2>2, WorkerKeeps
    <3>2. Take(w) /\ work'[w] = queue[1]
      BY <1>4, <3>1, WorkerKeeps, TakeCounts DEF Again
    <3>3. queue[1].h = b /\ Create(queue[1]) /\ Calls(queue[1])
      BY <1>4, <3>1, <3>2 DEF Again
    <3>4. compiled' = [compiled EXCEPT ![b] = @ + 1]
      BY <3>2, <3>3, TakeCounts
    <3>5. m = n + 1
      <4>1. compiled \in [Hash -> Nat]
        BY DEF Shape, SharedTypes
      <4>2. QED
        BY <1>1, <3>4, <4>1
    <3>6. QED
      BY <1>1, <3>5
  <2>3. QED
    BY <2>1, <2>2
<1>5. Settled(b)'
  <2>1. Thread' = Thread
    BY WorkerFacts DEF Thread
  <2>2. compiled'[b] >= 1
    BY <1>1
  <2>3. \A x \in Thread : Again(work'[x], b) /\ Calls(work'[x]) => compiled'[b] > 1
    BY <1>1, <1>4
  <2>4. QED
    BY <1>2, <1>3, <2>1, <2>2, <2>3 DEF Settled, Again, Create, Calls
<1>6. pipelines'[b] = pipelines[b] \/ compiled'[b] > 1
  <2>1. CASE ~CreatePipeline(w)
    BY <2>1, WorkerKeeps
  <2>2. CASE CreatePipeline(w)
    <3>1. PICK i : i = work[w] /\ i.h \in Hash /\ Create(i)
      BY <2>2, WorkOf DEF CreatePipeline, Shape, Create
    <3>2. PICK r : /\ pipelines' = [pipelines EXCEPT ![i.h] = r]
                   /\ Calls(i) \/ r = pipelines[i.h]
      BY <2>2, <3>1 DEF CreatePipeline
    <3>3. pipelines \in [Hash -> {"absent", "null", "live"}]
      BY DEF Shape, SharedTypes
    <3>4. CASE i.h = b /\ Calls(i)
      <4>1. n > 1
        BY <1>1, <3>1, <3>4 DEF Settled, Again
      <4>2. QED
        BY <1>1, <4>1
    <3>5. CASE ~(i.h = b /\ Calls(i))
      BY <3>1, <3>2, <3>3, <3>5
    <3>6. QED
      BY <3>4, <3>5
  <2>3. QED
    BY <2>1, <2>2
<1>7. QED
  BY <1>5, <1>6

\* A plain item with a create info calls the driver.
LEMMA EntryWorker ==
    ASSUME Shape, PlainInv, NEW w \in Thread, Worker(w), NEW h \in Hash, ~Derived(h), Entry(h)
    PROVE  Entry(h)'
<1>1. PICK n \in Nat, m \in Nat : n = compiled[h] /\ m = compiled'[h] /\ m >= n
  BY CountsGrow
<1>2. CASE n >= 1
  <2>1. m >= 1
    BY <1>1, <1>2
  <2>2. QED
    BY <1>1, <2>1 DEF Entry
<1>3. CASE ~(n >= 1)
  <2>1. PICK k \in DOMAIN queue : Valid(queue[k]) /\ queue[k].h = h
    BY <1>1, <1>3 DEF Entry
  <2>2. queue \in Seq(Jobs)
    BY DEF Shape, WorkTypes
  <2>3. CASE ~Take(w)
    BY <2>1, <2>3, WorkerKeeps DEF Entry, Valid, Create
  <2>4. CASE Take(w) /\ k = 1
    <3>1. queue[1] \in Items
      BY <2>1, <2>4 DEF Items, Pending, ToSet, Real, Valid, Create
    <3>2. queue[1].base = "none"
      BY <2>1, <2>4, <3>1 DEF PlainInv, PlainOK, Valid
    <3>3. Create(queue[1]) /\ Calls(queue[1])
      BY <2>1, <2>4, <3>2 DEF Valid, Calls
    <3>4. compiled' = [compiled EXCEPT ![h] = @ + 1]
      BY <2>1, <2>4, <3>3, TakeCounts
    <3>5. m = n + 1
      <4>1. compiled \in [Hash -> Nat]
        BY DEF Shape, SharedTypes
      <4>2. QED
        BY <1>1, <3>4, <4>1
    <3>6. m >= 1
      BY <1>1, <3>5
    <3>7. QED
      BY <1>1, <3>6 DEF Entry
  <2>5. CASE Take(w) /\ k # 1
    <3>1. queue' = Tail(queue) /\ queue # <<>>
      BY <2>5, TakeCounts DEF Take
    <3>2. PICK j : j = k - 1
      OBVIOUS
    <3>3. j \in DOMAIN queue' /\ queue'[j] = queue[k]
      BY <2>1, <2>2, <2>5, <3>1, <3>2
    <3>4. QED
      BY <2>1, <3>3 DEF Entry, Valid, Create
  <2>6. QED
    BY <2>3, <2>4, <2>5
<1>4. QED
  BY <1>2, <1>3

LEMMA BasesWorker ==
    ASSUME Shape, Places, Bases, NEW w \in Thread, Worker(w), tag # "done"
    PROVE  Bases'
<1>0. UNCHANGED <<tag, outside>> /\ Items' \subseteq Items /\ ValidInv
  BY WorkerFacts, ItemsWorker DEF Places
<1>1. PlainInv'
  BY <1>0 DEF Bases, PlainInv, PlainOK, Create
<1>2. ASSUME NEW h \in Hash, ~Absent(h)', ~Derived(h) PROVE Entry(h)'
  BY <1>0, <1>2, EntriesWorker, EntryWorker DEF Bases, EntryInv
<1>3. EntryInv'
  BY <1>2 DEF EntryInv
<1>4. ASSUME NEW i \in Items' PROVE BaseOK(i)'
  <2>1. SUFFICES ASSUME Based(i) PROVE BaseOK(i)'
    BY DEF BaseOK, Based, Create
  <2>2. i \in Items /\ BaseOK(i)
    BY <1>0, <1>4 DEF Bases, BaseInv
  <2>3. PICK b \in Hash : b = Base[i.h]
    <3>1. i.h \in Hash
      BY <2>1, <2>2, ItemsTyped DEF Jobs, Typed, Based, Create
    <3>2. QED
      BY <2>1, <3>1, BaseType DEF Based
  <2>4. Settled(b) /\ (i.base = pipelines[b] \/ compiled[b] > 1)
    BY <2>1, <2>2, <2>3 DEF BaseOK
  <2>5. Settled(b)' /\ (pipelines'[b] = pipelines[b] \/ compiled'[b] > 1)
    BY <1>0, <2>4, SettledWorker
  <2>6. compiled[b] > 1 => compiled'[b] > 1
    BY CountsGrow
  <2>7. Settled(Base[i.h])'
    BY <2>3, <2>5 DEF Settled, Absent, Again, Create
  <2>8. QED
    BY <2>3, <2>4, <2>5, <2>6, <2>7 DEF BaseOK
<1>5. QED
  BY <1>0, <1>1, <1>3, <1>4 DEF Bases, BaseInv

LEMMA BasesDie ==
    ASSUME Shape, Bases, NEW w \in Thread, Crash(w) \/ Timeout(w)
    PROVE  Bases'
<1>1. CASE Over /\ Items' \subseteq Items
  BY <1>1 DEF Over, Bases, PlainInv, PlainOK, Create, EntryInv, BaseInv
<1>2. CASE Restart(at[w], masked \cup blame[w]) /\ Items' = {}
  <2>1. outside' = {} /\ \A h \in Hash : Absent(h)'
    BY <1>2 DEF Restart, Absent
  <2>2. QED
    BY <1>2, <2>1 DEF Bases, PlainInv, EntryInv, BaseInv
<1>3. QED
  BY <1>1, <1>2, ItemsDie

LEMMA BasesHold == Spec => []Bases
<1>1. Init => Bases
  <2>1. SUFFICES ASSUME Init PROVE Bases
    OBVIOUS
  <2>2. Items = {} /\ outside = {} /\ \A h \in Hash : Absent(h)
    BY <2>1, NoItem DEF Init, Items, Pending, ToSet, Real, Absent
  <2>3. QED
    BY <2>2 DEF Bases, PlainInv, EntryInv, BaseInv
<1>2. Shape /\ Counts /\ WindowInv /\ Contents /\ Places /\ Bases /\ [Next]_vars => Bases'
  <2>1. SUFFICES ASSUME Shape, Counts, WindowInv, Contents, Places, Bases, [Next]_vars
                 PROVE  Bases'
    OBVIOUS
  <2>2. CASE UNCHANGED vars
    <3>1. UNCHANGED <<queue, work, threads, pipelines, compiled>> /\ tag' = tag /\ outside' = outside
      BY <2>2 DEF vars
    <3>2. QED
      BY <2>1, <3>1, ItemsKept, BasesStay DEF Bases
  <2>3. CASE Next
    <3>1. tag # "done"
      BY <2>1, <2>3, Ended DEF Counts
    <3>2. CASE Main
      BY <2>1, <3>1, <3>2, MainSplit, BasesControl, BasesBatched
    <3>3. QED
      BY <2>1, <2>3, <3>1, <3>2, BasesWorker, BasesDie DEF Next
  <2>4. QED
    BY <2>1, <2>2, <2>3
<1>3. QED
  BY <1>1, <1>2, ShapeHolds, CountsHold, WindowHolds, ContentsHold, PlacesHold, PTL DEF Spec

LEMMA QuotientIs ==
    ASSUME NEW P \in Nat \ {0}, NEW a \in Nat, NEW Q \in Nat, Q * P <= a, a < Q * P + P
    PROVE  a \div P = Q
<1>1. PICK q \in Nat : q = a \div P /\ P * q <= a /\ a < P * q + P
  BY Quotient
<1>2. CASE q >= Q + 1
  <2>1. P * q >= P * (Q + 1)
    BY <1>1, <1>2
  <2>2. P * (Q + 1) = Q * P + P
    OBVIOUS
  <2>3. PICK x \in Int, y \in Int : x = P * q /\ y = Q * P
    BY <1>1, Times
  <2>4. QED
    BY <1>1, <2>1, <2>2, <2>3
<1>3. CASE Q >= q + 1
  <2>1. Q * P >= (q + 1) * P
    BY <1>1, <1>3
  <2>2. (q + 1) * P = P * q + P
    BY <1>1
  <2>3. PICK x \in Int, y \in Int : x = P * q /\ y = Q * P
    BY <1>1, Times
  <2>4. QED
    BY <1>1, <2>1, <2>2, <2>3
<1>4. QED
  BY <1>1, <1>2, <1>3

\* The hashes around an index of the chunk are the chunk.
LEMMA ChunkOfSpot ==
    ASSUME Shape, Within, NEW c \in {0, 1}, NEW i \in Nat, Spot(c, 0) <= i, i < Spot(c, PerContext),
           NEW h \in ChunkOf(tag, i)
    PROVE  \E n \in 1..PerContext : Spot(c, n) <= Len(List[tag]) /\ h = List[tag][Spot(c, n)]
<1>1. PICK B \in Nat, P \in Nat \ {0}, s \in Nat, L \in Nat :
         B = Batch /\ P = PerContext /\ s = start[tag] /\ L = Len(List[tag])
  BY Spots, PhaseFacts, ReplayerAssumption DEF Shape, MainTypes, Within
<1>2. PICK Q \in Nat : Q = 2 * B + c
  BY <1>1
<1>3. PICK x \in Nat : x = Q * P
  BY <1>1, <1>2
<1>4. \A k \in Nat : Spot(c, k) = s + x + k
  BY <1>1, <1>2, <1>3 DEF Spot
<1>5. Spot(c, 0) = s + x /\ Spot(c, PerContext) = s + x + P
  BY <1>1, <1>4
<1>6. PICK a \in Nat : a = i - s /\ x <= a /\ a < x + P
  BY <1>1, <1>3, <1>5
<1>7. a \div P = Q
  BY <1>1, <1>2, <1>3, <1>6, QuotientIs
<1>8. PICK k \in (s + x)..(s + x + P - 1) : k < L /\ h = List[tag][k + 1]
  BY <1>1, <1>3, <1>6, <1>7 DEF ChunkOf
<1>9. PICK n \in 1..P : n = k + 1 - (s + x)
  BY <1>1, <1>3, <1>8
<1>10. Spot(c, n) = k + 1 /\ k + 1 <= L
  <2>1. n \in Nat /\ k \in Nat /\ n = k + 1 - (s + x) /\ k + 1 <= L
    <3>1. k \in Int /\ s + x <= k /\ k < L
      BY <1>1, <1>3, <1>8
    <3>2. n \in Nat /\ n = k + 1 - (s + x)
      BY <1>1, <1>9
    <3>3. k \in Nat /\ k + 1 <= L
      BY <1>1, <1>3, <3>1
    <3>4. QED
      BY <3>2, <3>3
  <2>2. Spot(c, n) = s + x + n
    BY <1>4, <2>1
  <2>3. s + x + n = k + 1
    BY <1>1, <1>3, <2>1
  <2>4. QED
    BY <2>1, <2>2, <2>3
<1>11. QED
  BY <1>1, <1>8, <1>9, <1>10

(***************************************************************************)
(* When a worker compiles a derived pipeline no compilation of its base is *)
(* pending, in whichever chunk, context or pass run_creation_work_item had *)
(* it, and the handle the pipeline was given is the one of the base.  The  *)
(* exceptions are a base that a slot still held which was not rewritten,   *)
(* and a chunk with no other pipeline to parse, which is compiled before   *)
(* its bases with their hashes for handles.                                *)
(***************************************************************************)
THEOREM BasesReady == Spec => []BaseReady
<1>1. Shape /\ Counts /\ Raws /\ Bases => BaseReady
  <2>1. SUFFICES ASSUME Shape, Counts, Raws, Bases, NEW w \in Running,
                        work[w].ep = epoch[work[w].ctx], Derived(work[w].h)
                 PROVE  \/ /\ work[w].base = pipelines[Base[work[w].h]] \/ compiled[Base[work[w].h]] > 1
                           /\ \A j \in Creates(Base[work[w].h]) : j.from \in Unreadable
                        \/ /\ work[w].base = "raw"
                           /\ \A k \in ChunkOf(work[w].tag, work[w].index) :
                                  Derived(k) \/ k \in Unreadable \cup Malformed \cup outside
    BY DEF BaseReady
  <2>2. w \in Thread /\ Create(work[w])
    BY <2>1 DEF Running, Create
  <2>3. PICK i \in Items : i = work[w]
    BY <2>2 DEF Items, Pending, Real, Create
  <2>4. tag # "done"
    BY <2>1, <2>2, NoItem DEF Counts, GoneInv, Create
  <2>5. CASE i.base = "raw"
    <3>1. PICK c \in {0, 1} : /\ c = i.ctx /\ FirstWindow(c) /\ i.tag = tag
                              /\ RawChunk(c) /\ Spot(c, 0) <= i.index /\ i.index < Spot(c, PerContext)
      BY <2>1, <2>2, <2>3, <2>4, <2>5 DEF Raws, RawItems, RawOK, Raw
    <3>2. Within /\ i.index \in Nat
      BY <2>1, <2>3, <3>1, ItemsTyped DEF FirstWindow
    <3>3. ASSUME NEW k \in ChunkOf(tag, i.index)
          PROVE  Derived(k) \/ k \in Unreadable \cup Malformed \cup outside
      <4>1. PICK n \in 1..PerContext : Spot(c, n) <= Len(List[tag]) /\ k = List[tag][Spot(c, n)]
        BY <2>1, <3>1, <3>2, <3>3, ChunkOfSpot
      <4>2. QED
        BY <3>1, <4>1 DEF RawChunk, Excused
    <3>4. QED
      BY <2>3, <2>5, <3>1, <3>3
  <2>6. CASE i.base # "raw"
    <3>1. /\ Settled(Base[i.h])
          /\ i.base = pipelines[Base[i.h]] \/ compiled[Base[i.h]] > 1
      BY <2>1, <2>2, <2>3, <2>4, <2>6 DEF Bases, BaseInv, BaseOK, Based
    <3>2. \A j \in Creates(Base[i.h]) : j.from \in Unreadable
      BY <3>1 DEF Settled, Again, Create, Creates, Items, Real
    <3>3. QED
      BY <2>3, <3>1, <3>2
  <2>7. QED
    BY <2>5, <2>6
<1>2. QED
  BY <1>1, ShapeHolds, CountsHold, RawsHold, BasesHold, PTL
=============================================================================
