------------------------- MODULE ReplayMasterProofs -------------------------
(***************************************************************************)
(* Proofs about ReplayMaster, for any number of slots, pipelines, modules, *)
(* crashes and validation errors.                                          *)
(***************************************************************************)
EXTENDS ReplayMaster, SequenceTheorems, FiniteSetTheorems, TLAPS

(***************************************************************************)
(* What a line of a child of the slot p may say when the slot has begun at *)
(* s: the indices lie between s and the end of the slot, or are the -1 of  *)
(* the main thread.                                                        *)
(***************************************************************************)
Reach(s, p) == [g : {-1} \cup s.g..End(p).g, c : {-1} \cup s.c..End(p).c]

LineFrom(s, p) ==
    [tag : {"CRASH", "VERR"}, val : {0}]
      \cup [tag : {"MODULE"}, val : Module]
      \cup [tag : {"GRAPHICS"}, val : {-1} \cup s.g..End(p).g]
      \cup [tag : {"COMPUTE"}, val : {-1} \cup s.c..End(p).c]

\* What the lines of a kind say.
Vals(lines, t) == {lines[i].val : i \in Tagged(lines, t)}

(***************************************************************************)
(* The inductive invariant.  The types, and what ends the loop.            *)
(***************************************************************************)
Types ==
    /\ master \in {"loop", "complete", "failed"}
    /\ timer \in [Slot -> {"off", "armed", "fired"}]
    /\ child \in [Slot -> {"none", "run", "handler", "hung", "zombie"}]
    /\ faulty \subseteq Module /\ file \in [Slot -> BOOLEAN]
    /\ start \in [Slot -> [g : Nat, c : Nat]]
    /\ at \in [Slot -> [g : Int, c : Int]]
    /\ DOMAIN pipe = Slot /\ DOMAIN sbuf = Slot /\ DOMAIN todo = Slot
    /\ DOMAIN progress = Slot /\ DOMAIN status = Slot
    /\ mask \in [Slot -> SUBSET Module] /\ blamed \in [Slot -> SUBSET Module]

Counted ==
    /\ pid \in [Slot -> BOOLEAN]
    /\ active = Cardinality({p \in Slot : pid[p]})

(***************************************************************************)
(* The slot stays within its share, and so does everything that a child of *)
(* it has said, is about to say, or has been understood to say.            *)
(***************************************************************************)
InShare(p) ==
    /\ start[p].g <= End(p).g /\ start[p].c <= End(p).c
    /\ child[p] = "run" => /\ at[p].g \in start[p].g..End(p).g
                           /\ at[p].c \in start[p].c..End(p).c
    /\ progress[p] \in Reach(start[p], p)
    /\ pipe[p] \in Seq(LineFrom(start[p], p))
    /\ sbuf[p] \in Seq(LineFrom(start[p], p))
    /\ todo[p] \in Seq(LineFrom(start[p], p))

(***************************************************************************)
(* A slot with a pid has a child, reaped or not, and one that still writes *)
(* has a reader.  A CRASH line, and the timer it starts, are of a child    *)
(* that is past its work.                                                  *)
(***************************************************************************)
Alive(p) ==
    /\ pid[p] <=> child[p] # "none"
    /\ child[p] \in {"run", "handler", "hung"} => file[p]
    /\ child[p] = "none" => ~file[p] /\ timer[p] = "off"
    /\ child[p] = "run" => /\ Vals(pipe[p], "CRASH") = {} /\ Vals(sbuf[p], "CRASH") = {}
                           /\ timer[p] = "off"

(***************************************************************************)
(* A module that was blamed is known to the master or on its way to it.    *)
(***************************************************************************)
Unread(p) ==
    IF file[p] THEN Vals(sbuf[p], "MODULE") \cup Vals(pipe[p], "MODULE") ELSE {}

Blame(p) ==
    /\ blamed[p] \subseteq faulty \cup Unread(p)
    /\ child[p] = "run" => blamed[p] \subseteq mask[p]

SlotInv(p) == InShare(p) /\ Alive(p) /\ Blame(p)

IInv == Types /\ Counted /\ ZombieNoticed /\ \A p \in Slot : SlotInv(p)

-----------------------------------------------------------------------------
(***************************************************************************)
(* Integer division is monotone.                                           *)
(***************************************************************************)
LEMMA Quotient ==
    ASSUME NEW a \in Nat, NEW b \in Nat, a <= b, NEW d \in Nat \ {0}
    PROVE  a \div d \in Nat /\ a \div d <= b \div d
<1>1. /\ a \div d \in Int /\ b \div d \in Int /\ a % d \in 0..d - 1 /\ b % d \in 0..d - 1
      /\ a = d * (a \div d) + (a % d) /\ b = d * (b \div d) + (b % d)
  OBVIOUS
<1> DEFINE x == a \div d
           y == b \div d
<1>2. x \in Int /\ y \in Int
  BY <1>1
<1>3. x >= 0
  <2> SUFFICES ASSUME x <= -1 PROVE FALSE
    BY <1>2
  <2>1. d * x <= -d
    BY <1>2
  <2>2. QED
    BY <1>1, <2>1
<1>4. x <= y
  <2> SUFFICES ASSUME y + 1 <= x PROVE FALSE
    BY <1>2
  <2>1. d * (y + 1) <= d * x
    BY <1>2
  <2>2. d * (y + 1) = d * y + d
    BY <1>2
  <2>3. QED
    BY <1>1, <2>1, <2>2
<1>5. QED
  BY <1>2, <1>3, <1>4

\* The shares of the slots: each begins before it ends, and none reaches
\* beyond the pipelines there are.
LEMMA Shares ==
    ASSUME NEW p \in Slot
    PROVE  /\ First(p) \in [g : Nat, c : Nat] /\ End(p) \in [g : Nat, c : Nat]
           /\ First(p).g <= End(p).g /\ First(p).c <= End(p).c
           /\ End(p).g <= num_graphics /\ End(p).c <= num_compute
<1>0. processes \in Nat \ {0} /\ num_graphics \in Nat /\ num_compute \in Nat /\ p \in Nat
      /\ p + 1 \in Nat /\ p + 1 <= processes
  BY MasterAssumption DEF Slot
<1>1. ASSUME NEW n \in Nat
      PROVE  /\ Split(n, p) \in Nat /\ Split(n, p + 1) \in Nat
             /\ Split(n, p) <= Split(n, p + 1) /\ Split(n, p + 1) <= n
  <2>1. p * n \in Nat /\ (p + 1) * n \in Nat /\ processes * n \in Nat
    BY <1>0
  <2>2. p * n <= (p + 1) * n
    BY <1>0
  <2>3. (p + 1) * n <= processes * n
    BY <1>0
  <2>4. (processes * n) \div processes = n
    BY <1>0
  <2>5. QED
    BY <1>0, <2>1, <2>2, <2>3, <2>4, Quotient DEF Split
<1>2. QED
  BY <1>0, <1>1 DEF First, End

-----------------------------------------------------------------------------
(***************************************************************************)
(* The lines of a pipe.  A non-empty set of positions has a last one, so   *)
(* the choice in Latest is of a line that is there.                        *)
(***************************************************************************)
LEMMA LastPosition ==
    ASSUME NEW n \in Nat, NEW S, S \subseteq 1..n, S # {}
    PROVE  (CHOOSE i \in S : \A j \in S : j <= i) \in S
<1> DEFINE From(i) == i..n
           T == {From(i) : i \in S}
<1>1. S \subseteq Nat
  OBVIOUS
<1>2. T \subseteq FiniteSubsetsOf(Nat)
  <2>1. \A i \in S : From(i) \subseteq Nat
    BY <1>1
  <2>2. \A i \in S : IsFiniteSet(From(i))
    BY <1>1, FS_Interval
  <2>3. QED
    BY <2>1, <2>2 DEF FiniteSubsetsOf
<1>3. PICK U \in T : \A V \in T : ~(<<V, U>> \in StrictSubsetOrdering(Nat))
  <2>1. IsWellFoundedOn(StrictSubsetOrdering(Nat), FiniteSubsetsOf(Nat))
    BY FS_StrictSubsetOrderingWellFounded
  <2>2. T # {}
    OBVIOUS
  <2>3. QED
    BY <1>2, <2>1, <2>2, WFMin, Zenon
<1>4. PICK x \in S : U = From(x)
  OBVIOUS
<1>5. ASSUME NEW y \in S PROVE y <= x
  <2>1. ~(<<From(y), From(x)>> \in StrictSubsetOrdering(Nat))
    BY <1>3, <1>4
  <2>2. From(y) \subseteq Nat /\ From(x) \subseteq Nat
    BY <1>1
  <2>3. ~(From(y) \subseteq From(x) /\ From(y) # From(x))
    BY <2>1, <2>2 DEF StrictSubsetOrdering
  <2>4. ASSUME x < y PROVE FALSE
    <3>1. From(y) \subseteq From(x)
      BY <1>1, <2>4
    <3>2. x \in From(x) /\ x \notin From(y)
      BY <1>1, <2>4
    <3>3. QED
      BY <2>3, <3>1, <3>2
  <2>5. QED
    BY <1>1, <2>4
<1>6. QED
  BY <1>5, Zenon

\* What parse() keeps of a kind of line is one of the values sent, or what it
\* knew before when none was.
LEMMA LatestIs ==
    ASSUME NEW L, NEW lines \in Seq(L), NEW t, NEW default
    PROVE  \/ Latest(lines, t, default) \in Vals(lines, t)
           \/ Vals(lines, t) = {} /\ Latest(lines, t, default) = default
<1> DEFINE S == Tagged(lines, t)
           m == CHOOSE i \in S : \A j \in S : j <= i
<1>1. CASE S = {}
  BY <1>1 DEF Latest, Vals
<1>2. CASE S # {}
  <2>1. Len(lines) \in Nat /\ S \subseteq 1..Len(lines)
    BY LenProperties DEF Tagged
  <2>2. m \in S
    BY <1>2, <2>1, LastPosition, Zenon
  <2>3. Latest(lines, t, default) = lines[m].val
    BY <1>2, Zenon DEF Latest
  <2>4. QED
    BY <2>2, <2>3 DEF Vals
<1>3. QED
  BY <1>1, <1>2

\* Values of short lists of lines.
LEMMA ValsShort ==
    /\ \A t : Vals(<<>>, t) = {}
    /\ \A t, l : Vals(<<l>>, t) = IF l.tag = t THEN {l.val} ELSE {}
BY DEF Vals, Tagged

\* A line that is sent adds its value.
LEMMA ValsAppend ==
    ASSUME NEW L, NEW s \in Seq(L), NEW l \in L, NEW t
    PROVE  Vals(Append(s, l), t) = Vals(s, t) \cup (IF l.tag = t THEN {l.val} ELSE {})
<1>1. /\ Len(Append(s, l)) = Len(s) + 1 /\ Len(s) \in Nat
      /\ \A i \in 1..Len(s) : Append(s, l)[i] = s[i]
      /\ Append(s, l)[Len(s) + 1] = l
  BY AppendProperties, LenProperties
<1>2. QED
  BY <1>1 DEF Vals, Tagged

\* fgets takes one line and leaves the values of the others.
LEMMA ValsTail ==
    ASSUME NEW L, NEW s \in Seq(L), s # <<>>, NEW t
    PROVE  /\ Head(s) \in L /\ Tail(s) \in Seq(L)
           /\ Vals(s, t) = Vals(Tail(s), t) \cup (IF Head(s).tag = t THEN {Head(s).val} ELSE {})
<1>1. /\ Len(Tail(s)) = Len(s) - 1 /\ Len(s) \in Nat \ {0}
      /\ \A i \in 1..Len(Tail(s)) : Tail(s)[i] = s[i + 1]
      /\ Head(s) \in L /\ Tail(s) \in Seq(L)
  BY HeadTailProperties, EmptySeq
<1>2. Head(s) = s[1]
  BY <1>1
<1>3. \A i \in 1..Len(s) : i = 1 \/ (i - 1 \in 1..Len(Tail(s)) /\ Tail(s)[i - 1] = s[i])
  BY <1>1
<1>4. \A i \in 1..Len(Tail(s)) : i + 1 \in 1..Len(s)
  BY <1>1
<1>5. 1 \in 1..Len(s)
  BY <1>1
<1>6. ASSUME NEW v \in Vals(s, t)
      PROVE  v \in Vals(Tail(s), t) \/ (Head(s).tag = t /\ v = Head(s).val)
  <2>1. PICK i \in 1..Len(s) : s[i].tag = t /\ v = s[i].val
    BY DEF Vals, Tagged
  <2>2. CASE i = 1
    BY <1>2, <2>1, <2>2
  <2>3. CASE i # 1
    <3>1. i - 1 \in 1..Len(Tail(s)) /\ Tail(s)[i - 1] = s[i]
      BY <1>3, <2>3
    <3>2. i - 1 \in Tagged(Tail(s), t)
      BY <2>1, <3>1 DEF Tagged
    <3>3. QED
      BY <2>1, <3>1, <3>2 DEF Vals
  <2>4. QED
    BY <2>2, <2>3
<1>7. Vals(Tail(s), t) \subseteq Vals(s, t)
  BY <1>1, <1>4 DEF Vals, Tagged
<1>8. Head(s).tag = t => Head(s).val \in Vals(s, t)
  BY <1>2, <1>5 DEF Vals, Tagged
<1>9. QED
  BY <1>1, <1>6, <1>7, <1>8

\* The flush at the end reads what the buffer and the pipe hold.
LEMMA ValsConcat ==
    ASSUME NEW L, NEW s \in Seq(L), NEW r \in Seq(L), NEW t
    PROVE  /\ s \o r \in Seq(L)
           /\ Vals(s \o r, t) = Vals(s, t) \cup Vals(r, t)
<1>1. PICK c : c = s \o r
  OBVIOUS
<1>2. c \in Seq(L) /\ Len(s) \in Nat /\ Len(r) \in Nat
  BY <1>1, ConcatProperties, LenProperties
<1>3. /\ Len(c) = Len(s) + Len(r)
      /\ \A i \in 1..Len(s) + Len(r) : c[i] = IF i <= Len(s) THEN s[i] ELSE r[i - Len(s)]
  BY <1>1, ConcatProperties
<1>4. /\ \A i \in 1..Len(s) : i \in 1..Len(c) /\ c[i] = s[i]
      /\ \A i \in 1..Len(r) : i + Len(s) \in 1..Len(c) /\ c[i + Len(s)] = r[i]
  <2>1. ASSUME NEW i \in 1..Len(s) PROVE i \in 1..Len(c) /\ c[i] = s[i]
    <3>1. i \in 1..Len(s) + Len(r) /\ i <= Len(s)
      BY <1>2
    <3>2. QED
      BY <1>3, <3>1
  <2>2. ASSUME NEW i \in 1..Len(r) PROVE i + Len(s) \in 1..Len(c) /\ c[i + Len(s)] = r[i]
    <3>1. i + Len(s) \in 1..Len(s) + Len(r) /\ ~(i + Len(s) <= Len(s)) /\ (i + Len(s)) - Len(s) = i
      BY <1>2
    <3>2. QED
      BY <1>3, <3>1
  <2>3. QED
    BY <2>1, <2>2
<1>5. ASSUME NEW i \in 1..Len(c)
      PROVE  i \in 1..Len(s) \/ (i - Len(s) \in 1..Len(r) /\ c[i] = r[i - Len(s)])
  <2>1. i \in 1..Len(s) + Len(r)
    BY <1>3
  <2>2. i \in 1..Len(s) \/ (~(i <= Len(s)) /\ i - Len(s) \in 1..Len(r))
    BY <1>2, <2>1
  <2>3. QED
    BY <1>3, <2>1, <2>2
<1>6. ASSUME NEW x \in Vals(s, t) PROVE x \in Vals(c, t)
  <2>1. PICK i \in 1..Len(s) : s[i].tag = t /\ x = s[i].val
    BY DEF Vals, Tagged
  <2>2. i \in 1..Len(c) /\ c[i].tag = t /\ x = c[i].val
    BY <1>4, <2>1
  <2>3. QED
    BY <2>2 DEF Vals, Tagged
<1>7. ASSUME NEW x \in Vals(r, t) PROVE x \in Vals(c, t)
  <2>1. PICK i \in 1..Len(r) : r[i].tag = t /\ x = r[i].val
    BY DEF Vals, Tagged
  <2>2. i + Len(s) \in 1..Len(c) /\ c[i + Len(s)].tag = t /\ x = c[i + Len(s)].val
    BY <1>4, <2>1
  <2>3. QED
    BY <2>2 DEF Vals, Tagged
<1>8. ASSUME NEW x \in Vals(c, t) PROVE x \in Vals(s, t) \cup Vals(r, t)
  <2>1. PICK i \in 1..Len(c) : c[i].tag = t /\ x = c[i].val
    BY DEF Vals, Tagged
  <2>2. CASE i \in 1..Len(s)
    BY <1>4, <2>1, <2>2 DEF Vals, Tagged
  <2>3. CASE i - Len(s) \in 1..Len(r) /\ c[i] = r[i - Len(s)]
    BY <2>1, <2>3 DEF Vals, Tagged
  <2>4. QED
    BY <1>5, <2>2, <2>3
<1>9. Vals(c, t) = Vals(s, t) \cup Vals(r, t)
  BY <1>6, <1>7, <1>8
<1>10. QED
  BY <1>1, <1>2, <1>9

\* What parse() makes of the lines of a child lies in the share of its slot.
LEMMA ProgressReach ==
    ASSUME NEW s, NEW p, NEW lines \in Seq(LineFrom(s, p)), NEW old \in Reach(s, p)
    PROVE  /\ Progress(lines, old) \in Reach(s, p)
           /\ Vals(lines, "MODULE") \subseteq Module
<1>1. Len(lines) \in Nat /\ \A i \in 1..Len(lines) : lines[i] \in LineFrom(s, p)
  BY LenProperties, ElementOfSeq
<1>2. /\ Vals(lines, "MODULE") \subseteq Module
      /\ Vals(lines, "GRAPHICS") \subseteq {-1} \cup s.g..End(p).g
      /\ Vals(lines, "COMPUTE") \subseteq {-1} \cup s.c..End(p).c
  BY <1>1 DEF Vals, Tagged, LineFrom
<1>3. Latest(lines, "GRAPHICS", old.g) \in {-1} \cup s.g..End(p).g
  BY <1>2, LatestIs DEF Reach
<1>4. Latest(lines, "COMPUTE", old.c) \in {-1} \cup s.c..End(p).c
  BY <1>2, LatestIs DEF Reach
<1>5. QED
  BY <1>2, <1>3, <1>4 DEF Progress, Reach

-----------------------------------------------------------------------------
(***************************************************************************)
(* The steps.  A step of one slot leaves the others alone, and the modules *)
(* known to be faulty only grow.                                           *)
(***************************************************************************)
Same(q) ==
    /\ start'[q] = start[q] /\ pid'[q] = pid[q] /\ file'[q] = file[q]
    /\ pipe'[q] = pipe[q] /\ sbuf'[q] = sbuf[q] /\ todo'[q] = todo[q]
    /\ timer'[q] = timer[q] /\ progress'[q] = progress[q] /\ child'[q] = child[q]
    /\ at'[q] = at[q] /\ mask'[q] = mask[q] /\ blamed'[q] = blamed[q]

Others(p) == faulty \subseteq faulty' /\ \A q \in Slot \ {p} : Same(q)
\* The slot stays within its share after a step that leaves this.
LEMMA ShareNext ==
    ASSUME NEW p \in Slot, NEW s, start'[p] = s,
           s.g <= End(p).g, s.c <= End(p).c,
           child'[p] = "run" => at'[p].g \in s.g..End(p).g /\ at'[p].c \in s.c..End(p).c,
           progress'[p] \in Reach(s, p), pipe'[p] \in Seq(LineFrom(s, p)),
           sbuf'[p] \in Seq(LineFrom(s, p)), todo'[p] \in Seq(LineFrom(s, p))
    PROVE  InShare(p)'
BY DEF InShare, Reach, LineFrom

\* Pid, pipe and timer fit the child after a step that leaves this.
LEMMA AliveNext ==
    ASSUME NEW p \in Slot,
           pid'[p] <=> child'[p] # "none",
           child'[p] \in {"run", "handler", "hung"} => file'[p],
           child'[p] = "none" => ~file'[p] /\ timer'[p] = "off",
           child'[p] = "run" => /\ Vals(pipe'[p], "CRASH") = {}
                                /\ Vals(sbuf'[p], "CRASH") = {}
                                /\ timer'[p] = "off"
    PROVE  Alive(p)'
BY DEF Alive, Vals, Tagged

\* The blamed modules are known or unread after a step that leaves this.
LEMMA BlameNext ==
    ASSUME NEW p \in Slot, NEW unread,
           file'[p] => unread = Vals(sbuf'[p], "MODULE") \cup Vals(pipe'[p], "MODULE"),
           ~file'[p] => unread = {},
           blamed'[p] \subseteq faulty' \cup unread,
           child'[p] = "run" => blamed'[p] \subseteq mask'[p]
    PROVE  Blame(p)'
BY DEF Blame, Unread, Vals, Tagged

\* A slot that nothing happens to keeps its invariant.
LEMMA SameKept ==
    ASSUME NEW q \in Slot, Same(q), faulty \subseteq faulty', SlotInv(q)
    PROVE  SlotInv(q)'
<1>1. InShare(q)'
  BY ShareNext DEF SlotInv, InShare, Same
<1>2. Alive(q)'
  BY AliveNext DEF SlotInv, Alive, Same
<1>3. Blame(q)'
  BY BlameNext DEF SlotInv, Blame, Same, Unread
<1>4. QED
  BY <1>1, <1>2, <1>3 DEF SlotInv

\* What a step of the slot p must show.
LEMMA OneSlot ==
    ASSUME IInv, NEW p \in Slot, Others(p), Types', Counted', ZombieNoticed', SlotInv(p)'
    PROVE  IInv'
BY SameKept DEF IInv, Others

\* A step of the master that concerns no slot.
LEMMA NoSlot ==
    ASSUME IInv, UNCHANGED cvars, Types', Counted', ZombieNoticed', faulty' = faulty,
           UNCHANGED <<start, pid, file, pipe, sbuf, timer, progress>>
    PROVE  IInv'
<1>1. ASSUME NEW q \in Slot PROVE Same(q)
  BY DEF Same, cvars
<1>2. QED
  BY <1>1, SameKept DEF IInv

\* The counter after a step that leaves the pids alone.
LEMMA CountKept ==
    ASSUME Counted, UNCHANGED <<active, pid>>
    PROVE  Counted'
BY DEF Counted

\* A child that works, is killed or exits, or whose handler hangs.
LEMMA ChildMoves ==
    ASSUME IInv, NEW p \in Slot,
           Work(p) \/ Exit(p) \/ HandlerExit(p) \/ HandlerFaults(p) \/ HandlerHangs(p)
    PROVE  IInv'
<1> USE DEF mvars
<1>0. Types /\ Counted /\ ZombieNoticed /\ InShare(p) /\ Alive(p) /\ Blame(p)
  BY DEF IInv, SlotInv
<1>1. CASE Work(p)
  <2>0. UNCHANGED <<start, pid, file, pipe, sbuf, todo, timer, progress, child, mask, blamed, faulty,
                    master, active, status, sigchld, cur>>
    BY <1>1 DEF Work
  <2>1. Others(p)
    BY <1>0, <1>1 DEF Work, Others, Same, Types
  <2>a. ASSUME NEW n \in Int
        PROVE  /\ [at EXCEPT ![p].g = n + 1] \in [Slot -> [g : Int, c : Int]]
               /\ [at EXCEPT ![p].c = n + 1] \in [Slot -> [g : Int, c : Int]]
    BY <1>0 DEF Types
  <2>2. at' \in [Slot -> [g : Int, c : Int]]
    <3>1. start[p].g \in Nat /\ start[p].c \in Nat /\ End(p).g \in Nat /\ End(p).c \in Nat
      BY <1>0, Shares DEF Types
    <3>2. PICK n \in Int : at' = [at EXCEPT ![p].g = n + 1] \/ at' = [at EXCEPT ![p].c = n + 1]
      BY <1>1, <3>1 DEF Work
    <3>3. QED
      BY <2>a, <3>2
  <2>3. Types' /\ Counted'
    BY <1>0, <2>0, <2>2, CountKept DEF Types
  <2>4. at'[p].g \in start[p].g..End(p).g /\ at'[p].c \in start[p].c..End(p).c
    BY <1>0, <1>1, Shares DEF Work, Types, InShare
  <2>5. InShare(p)'
    BY <1>0, <2>0, <2>4, ShareNext DEF InShare
  <2>6. Alive(p)' /\ Blame(p)'
    BY <1>0, <2>0, AliveNext, BlameNext DEF Alive, Blame, Unread
  <2>7. QED
    BY <1>0, <2>0, <2>1, <2>3, <2>5, <2>6, OneSlot DEF SlotInv, ZombieNoticed
<1>2. ASSUME NEW now \in {"hung", "zombie"}, child[p] # "none",
             child' = [child EXCEPT ![p] = now],
             now = "zombie" => sigchld', now # "zombie" => sigchld' = sigchld,
             now = "zombie" \/ (child[p] # "run" /\ child[p] # "zombie"),
             DOMAIN status' = DOMAIN status,
             UNCHANGED <<pipe, sbuf, at, mask, todo, blamed>>, UNCHANGED mvars
      PROVE  IInv'
  <2>1. Others(p)
    BY <1>0, <1>2 DEF Others, Same, Types
  <2>2. Types' /\ Counted'
    BY <1>0, <1>2, CountKept DEF Types
  <2>3. child'[p] = now
    BY <1>0, <1>2 DEF Types
  <2>4. InShare(p)'
    BY <1>0, <1>2, <2>3, ShareNext DEF InShare
  <2>5. Alive(p)'
    BY <1>0, <1>2, <2>3, AliveNext DEF Alive, Types
  <2>6. Blame(p)'
    BY <1>0, <1>2, <2>3, BlameNext DEF Blame, Unread
  <2>7. ZombieNoticed'
    BY <1>0, <1>2 DEF Types, ZombieNoticed
  <2>8. QED
    BY <2>1, <2>2, <2>4, <2>5, <2>6, <2>7, OneSlot DEF SlotInv
<1>3. CASE Exit(p)
  BY <1>2, <1>3 DEF Exit, Die
<1>4. CASE HandlerExit(p)
  BY <1>2, <1>4 DEF HandlerExit, Die
<1>5. CASE HandlerFaults(p)
  BY <1>2, <1>5 DEF HandlerFaults, Die
<1>6. CASE HandlerHangs(p)
  BY <1>2, <1>6 DEF HandlerHangs
<1>7. QED
  BY <1>1, <1>3, <1>4, <1>5, <1>6

\* The lines a crash handler is going to write are of the slot.
LEMMA ReportLines ==
    ASSUME NEW s \in [g : Nat, c : Nat], NEW p \in Slot, NEW where \in Reach(s, p),
           NEW ms \in Seq([tag : {"MODULE"}, val : Module])
    PROVE  Report(ms, where) \in Seq(LineFrom(s, p))
<1>1. <<Line("GRAPHICS", where.g), Line("COMPUTE", where.c)>> \in Seq(LineFrom(s, p))
  BY DEF Line, LineFrom, Reach
<1>2. ms \in Seq(LineFrom(s, p))
  <2>1. Len(ms) \in Nat /\ \A i \in 1..Len(ms) : ms[i] \in LineFrom(s, p)
    BY ElementOfSeq, LenProperties DEF LineFrom
  <2>2. QED
    BY <2>1
<1>3. QED
  BY <1>1, <1>2, ConcatProperties DEF Report

\* A child writes a line: a validation error, its CRASH line, or one of its
\* crash handler's.
LEMMA ChildSays ==
    ASSUME IInv, NEW p \in Slot,
           ValidationError(p) \/ Crash(p) \/ HandlerWrite(p)
    PROVE  IInv'
<1> USE DEF mvars
<1>0. /\ Types /\ Counted /\ ZombieNoticed /\ InShare(p) /\ Alive(p) /\ Blame(p)
      /\ start[p] \in [g : Nat, c : Nat]
  BY DEF IInv, SlotInv, Types
<1> DEFINE L == LineFrom(start[p], p)
<1>a. pipe[p] \in Seq(L) /\ sbuf[p] \in Seq(L) /\ todo[p] \in Seq(L)
  BY <1>0 DEF InShare
<1> HIDE DEF L
<1>1. ASSUME NEW line \in L, Say(p, line), todo'[p] \in Seq(L), DOMAIN todo' = Slot,
             child[p] \in {"run", "handler"}, child'[p] \in {child[p], "handler"},
             child' = [child EXCEPT ![p] = child'[p]],
             child'[p] = "run" => line.tag # "CRASH",
             \A q \in Slot \ {p} : todo'[q] = todo[q] /\ blamed'[q] = blamed[q],
             blamed'[p] \subseteq blamed[p] \cup Vals(<<line>>, "MODULE"),
             blamed' \in [Slot -> SUBSET Module],
             child'[p] = "run" => blamed'[p] = blamed[p],
             UNCHANGED <<sbuf, sigchld, status, at, mask>>, UNCHANGED mvars
      PROVE  IInv'
  <2>1. pipe'[p] = Append(pipe[p], line) /\ pipe'[p] \in Seq(L)
    BY <1>0, <1>1, <1>a, AppendProperties DEF Say, Types
  <2>2. Others(p)
    BY <1>0, <1>1 DEF Others, Same, Types, Say
  <2>3. child' \in [Slot -> {"none", "run", "handler", "hung", "zombie"}]
    BY <1>0, <1>1 DEF Types
  <2>4. DOMAIN pipe' = Slot
    BY <1>0, <1>1 DEF Types, Say
  <2>5. Types' /\ Counted'
    BY <1>0, <1>1, <2>3, <2>4, CountKept DEF Types
  <2>6. InShare(p)'
    BY <1>0, <1>1, <1>a, <2>1, ShareNext DEF InShare, L
  <2>7. ASSUME NEW t
        PROVE  /\ Vals(pipe'[p], t) = Vals(pipe[p], t) \cup Vals(<<line>>, t)
               /\ line.tag # t => Vals(<<line>>, t) = {}
    <3>1. Vals(Append(pipe[p], line), t)
            = Vals(pipe[p], t) \cup (IF line.tag = t THEN {line.val} ELSE {})
      BY <1>1, <1>a, ValsAppend
    <3>2. Vals(<<line>>, t) = IF line.tag = t THEN {line.val} ELSE {}
      BY ValsShort
    <3>3. QED
      BY <2>1, <3>1, <3>2
  <2>8. /\ Vals(pipe'[p], "CRASH") = Vals(pipe[p], "CRASH") \cup Vals(<<line>>, "CRASH")
        /\ Vals(pipe'[p], "MODULE") = Vals(pipe[p], "MODULE") \cup Vals(<<line>>, "MODULE")
        /\ line.tag # "CRASH" => Vals(<<line>>, "CRASH") = {}
    BY <2>7, Zenon
  <2>9. Alive(p)'
    <3>1. child'[p] = "run" => Vals(pipe'[p], "CRASH") = {}
      BY <1>0, <1>1, <2>8 DEF Alive
    <3>2. QED
      BY <1>0, <1>1, <3>1, AliveNext DEF Alive
  <2>10. Blame(p)'
    <3>1. file[p]
      BY <1>0, <1>1 DEF Alive
    <3>2. blamed'[p] \subseteq faulty \cup Vals(sbuf[p], "MODULE") \cup Vals(pipe'[p], "MODULE")
      BY <1>0, <1>1, <2>8, <3>1 DEF Blame, Unread
    <3>3. child'[p] = "run" => blamed'[p] \subseteq mask'[p]
      BY <1>0, <1>1 DEF Blame
    <3>4. /\ file'[p] /\ sbuf'[p] = sbuf[p] /\ faulty' = faulty
      BY <1>1, <3>1
    <3>5. blamed'[p] \subseteq faulty' \cup (Vals(sbuf'[p], "MODULE") \cup Vals(pipe'[p], "MODULE"))
      BY <3>2, <3>4
    <3>6. QED
      BY <3>3, <3>4, <3>5, BlameNext
  <2>11. ZombieNoticed'
    BY <1>0, <1>1 DEF Types, ZombieNoticed
  <2>12. QED
    BY <2>2, <2>5, <2>6, <2>9, <2>10, <2>11, OneSlot DEF SlotInv
<1>2. CASE ValidationError(p)
  <2>1. Line("VERR", 0) \in L /\ Line("VERR", 0).tag # "CRASH"
    BY DEF L, LineFrom, Line
  <2>2. QED
    BY <1>0, <1>1, <1>2, <1>a, <2>1 DEF ValidationError, Types
<1>3. CASE Crash(p)
  <2>1. Line("CRASH", 0) \in L
    BY DEF L, LineFrom, Line
  <2>2. at[p] \in Reach(start[p], p) /\ Unknown \in Reach(start[p], p)
    BY <1>0, <1>3 DEF Crash, InShare, Types, Reach, Unknown
  <2>3. ASSUME NEW m \in Module PROVE Report(<<Line("MODULE", m)>>, at[p]) \in Seq(L)
    <3>1. <<Line("MODULE", m)>> \in Seq([tag : {"MODULE"}, val : Module])
      BY DEF Line
    <3>2. QED
      BY <1>0, <2>2, <3>1, ReportLines DEF L
  <2>4. /\ Report(<<>>, at[p]) \in Seq(L) /\ Report(<<>>, Unknown) \in Seq(L)
        /\ <<>> \in Seq(L)
    <3>1. \A S : <<>> \in Seq(S)
      BY EmptySeq
    <3>2. QED
      BY <1>0, <2>2, <3>1, ReportLines DEF L
  <2>5. PICK r \in Seq(L) : todo' = [todo EXCEPT ![p] = r]
    BY <1>3, <2>3, <2>4 DEF Crash
  <2>6. todo'[p] = r /\ DOMAIN todo' = Slot /\ \A q \in Slot \ {p} : todo'[q] = todo[q]
    BY <1>0, <2>5 DEF Types
  <2>7. QED
    BY <1>0, <1>1, <1>3, <1>a, <2>1, <2>6 DEF Crash, Types
<1>4. CASE HandlerWrite(p)
  <2> DEFINE line == Head(todo[p])
  <2>1. line \in L /\ Tail(todo[p]) \in Seq(L)
    BY <1>4, <1>a, HeadTailProperties, EmptySeq DEF HandlerWrite
  <2>2. line.tag = "MODULE" => line.val \in Module
    BY <2>1 DEF L, LineFrom
  <2>3. /\ blamed' \in [Slot -> SUBSET Module]
        /\ blamed'[p] \subseteq blamed[p] \cup Vals(<<line>>, "MODULE")
        /\ \A q \in Slot \ {p} : blamed'[q] = blamed[q]
    BY <1>0, <1>4, <2>2, ValsShort DEF HandlerWrite, Types
  <2>4. /\ todo'[p] = Tail(todo[p]) /\ DOMAIN todo' = Slot
        /\ \A q \in Slot \ {p} : todo'[q] = todo[q]
    BY <1>0, <1>4 DEF HandlerWrite, Types
  <2>5. child' = [child EXCEPT ![p] = child'[p]]
    BY <1>0, <1>4 DEF HandlerWrite, Types
  <2>6. QED
    BY <1>0, <1>1, <1>4, <2>1, <2>3, <2>4, <2>5 DEF HandlerWrite
<1>5. QED
  BY <1>2, <1>3, <1>4

-----------------------------------------------------------------------------
(***************************************************************************)
(* The master's handlers.                                                  *)
(***************************************************************************)
Quiet == UNCHANGED <<master, active, start, pid, child, status, at, mask, todo, blamed>>

\* process_once() with a line to read: what it says moves from the pipe or
\* the stdio buffer to what the master knows, and nothing is lost.
LEMMA LineHandled ==
    ASSUME IInv, NEW p \in Slot, HandleLine(p), Quiet
    PROVE  Types' /\ Counted' /\ Others(p) /\ SlotInv(p)'
<1> USE DEF Quiet
<1>0. /\ Types /\ Counted /\ InShare(p) /\ Alive(p) /\ Blame(p)
      /\ start[p] \in [g : Nat, c : Nat] /\ file[p]
  BY DEF IInv, SlotInv, Types, HandleLine
<1> DEFINE L    == LineFrom(start[p], p)
           all  == IF sbuf[p] = <<>> THEN pipe[p] ELSE sbuf[p]
           line == Head(all)
           tail == Tail(all)
<1>1. pipe[p] \in Seq(L) /\ sbuf[p] \in Seq(L) /\ all \in Seq(L) /\ all # <<>>
  <2>1. pipe[p] \in Seq(L) /\ sbuf[p] \in Seq(L)
    BY <1>0 DEF InShare
  <2>2. sbuf[p] \o pipe[p] # <<>>
    BY DEF HandleLine
  <2>3. sbuf[p] = <<>> => sbuf[p] \o pipe[p] = pipe[p]
    BY <2>1, ConcatEmptySeq
  <2>4. QED
    BY <2>1, <2>2, <2>3
<1>2. ASSUME NEW t
      PROVE  /\ line \in L /\ tail \in Seq(L)
             /\ Vals(all, t) = Vals(tail, t) \cup Vals(<<line>>, t)
             /\ line.tag = t => Vals(all, t) # {}
  <2> HIDE DEF L, all
  <2>1. /\ line \in L /\ tail \in Seq(L)
        /\ Vals(all, t) = Vals(tail, t) \cup (IF line.tag = t THEN {line.val} ELSE {})
    BY <1>1, ValsTail
  <2>2. Vals(<<line>>, t) = IF line.tag = t THEN {line.val} ELSE {}
    BY ValsShort
  <2>3. QED
    BY <2>1, <2>2
<1>3. /\ sbuf' = [sbuf EXCEPT ![p] = tail]
      /\ pipe' = IF sbuf[p] = <<>> THEN [pipe EXCEPT ![p] = <<>>] ELSE pipe
      /\ progress' = [progress EXCEPT ![p] = Progress(<<line>>, @)]
      /\ faulty' = Faulty(<<line>>)
      /\ timer' = IF line.tag = "CRASH" THEN [timer EXCEPT ![p] = "armed"] ELSE timer
      /\ file' = file
  BY DEF HandleLine
<1>4. /\ sbuf'[p] = tail
      /\ pipe'[p] = IF sbuf[p] = <<>> THEN <<>> ELSE pipe[p]
      /\ progress'[p] = Progress(<<line>>, progress[p])
      /\ timer'[p] = IF line.tag = "CRASH" THEN "armed" ELSE timer[p]
      /\ DOMAIN sbuf' = Slot /\ DOMAIN pipe' = Slot /\ DOMAIN progress' = Slot
      /\ timer' \in [Slot -> {"off", "armed", "fired"}]
  BY <1>0, <1>3 DEF Types
<1>5. Others(p)
  BY <1>0, <1>3 DEF Types, Others, Same, Faulty
<1> HIDE DEF L, all, line, tail
<1>6. line \in L /\ tail \in Seq(L) /\ <<line>> \in Seq(L)
  BY <1>2
<1>7. Progress(<<line>>, progress[p]) \in Reach(start[p], p) /\ Vals(<<line>>, "MODULE") \subseteq Module
  BY <1>0, <1>6, ProgressReach DEF InShare, L
<1>8. faulty' = faulty \cup Vals(<<line>>, "MODULE")
  BY <1>3 DEF Faulty, Vals
<1>9. Types' /\ Counted'
  BY <1>0, <1>3, <1>4, <1>7, <1>8, CountKept DEF Types
<1>10. pipe'[p] \in Seq(L) /\ sbuf'[p] \in Seq(L)
  BY <1>1, <1>4, <1>6
<1>11. ASSUME NEW t
       PROVE  Vals(sbuf[p], t) \cup Vals(pipe[p], t)
                = Vals(sbuf'[p], t) \cup Vals(pipe'[p], t) \cup Vals(<<line>>, t)
  <2>1. Vals(<<>>, t) = {}
    BY ValsShort
  <2>2. CASE sbuf[p] = <<>>
    BY <1>2, <1>4, <2>1, <2>2 DEF all
  <2>3. CASE sbuf[p] # <<>>
    BY <1>2, <1>4, <2>3 DEF all
  <2>4. QED
    BY <2>2, <2>3
<1>12. InShare(p)'
  BY <1>0, <1>4, <1>7, <1>10, ShareNext DEF InShare, L
<1>13. Alive(p)'
  <2>1. child[p] = "run" => Vals(sbuf[p], "CRASH") = {} /\ Vals(pipe[p], "CRASH") = {}
    BY <1>0 DEF Alive
  <2>2. child[p] = "run" => Vals(sbuf'[p], "CRASH") = {} /\ Vals(pipe'[p], "CRASH") = {}
    BY <1>11, <2>1
  <2>3. child[p] = "run" => line.tag # "CRASH"
    BY <1>2, <2>1 DEF all
  <2>4. child[p] = "run" => timer'[p] = "off"
    BY <1>0, <1>4, <2>3 DEF Alive
  <2>5. QED
    BY <1>0, <1>3, <2>2, <2>4, AliveNext DEF Alive
<1>14. Blame(p)'
  <2>1. blamed[p] \subseteq faulty \cup (Vals(sbuf[p], "MODULE") \cup Vals(pipe[p], "MODULE"))
    BY <1>0 DEF Blame, Unread
  <2>2. blamed'[p] \subseteq faulty' \cup (Vals(sbuf'[p], "MODULE") \cup Vals(pipe'[p], "MODULE"))
    BY <1>8, <1>11, <2>1
  <2>3. file'[p] /\ (child'[p] = "run" => blamed'[p] \subseteq mask'[p])
    BY <1>0, <1>3 DEF Blame
  <2>4. QED
    BY <2>2, <2>3, BlameNext
<1>15. QED
  BY <1>5, <1>9, <1>12, <1>13, <1>14 DEF SlotInv

\* process_once() at the end of the file, or with the file closed.
LEMMA EofHandled ==
    ASSUME IInv, NEW p \in Slot, HandleEof(p) \/ HandleClosed(p), Quiet
    PROVE  Types' /\ Counted' /\ Others(p) /\ SlotInv(p)'
<1> USE DEF Quiet
<1>0. Types /\ Counted /\ InShare(p) /\ Alive(p) /\ Blame(p)
  BY DEF IInv, SlotInv
<1>1. /\ UNCHANGED <<pipe, sbuf, progress, faulty, timer>>
      /\ file' = file \/ file' = [file EXCEPT ![p] = FALSE]
  BY DEF HandleEof, HandleClosed
<1>2. file' \in [Slot -> BOOLEAN] /\ \A q \in Slot \ {p} : file'[q] = file[q]
  BY <1>0, <1>1 DEF Types
<1>3. Types' /\ Counted'
  BY <1>0, <1>1, <1>2, CountKept DEF Types
<1>4. Others(p)
  BY <1>1, <1>2 DEF Others, Same
<1>5. InShare(p)'
  BY <1>0, <1>1, ShareNext DEF InShare
<1>6. CASE HandleClosed(p)
  <2>1. file' = file
    BY <1>6 DEF HandleClosed
  <2>2. Alive(p)'
    BY <1>0, <1>1, <2>1, AliveNext DEF Alive
  <2>3. Blame(p)'
    BY <1>0, <1>1, <2>1, BlameNext DEF Blame, Unread
  <2>4. QED
    BY <1>3, <1>4, <1>5, <2>2, <2>3 DEF SlotInv
<1>7. CASE HandleEof(p)
  <2>1. file[p] /\ ~file'[p] /\ child[p] = "zombie" /\ sbuf[p] \o pipe[p] = <<>>
    BY <1>0, <1>7 DEF HandleEof, Types
  <2>2. Alive(p)'
    BY <1>0, <1>1, <2>1, AliveNext DEF Alive
  <2>3. Vals(sbuf[p], "MODULE") \cup Vals(pipe[p], "MODULE") = {}
    <3>1. Vals(<<>>, "MODULE") = {}
      BY ValsShort
    <3>2. sbuf[p] \in Seq(LineFrom(start[p], p)) /\ pipe[p] \in Seq(LineFrom(start[p], p))
      BY <1>0 DEF InShare
    <3>3. Vals(sbuf[p] \o pipe[p], "MODULE") = Vals(sbuf[p], "MODULE") \cup Vals(pipe[p], "MODULE")
      BY <3>2, ValsConcat
    <3>4. QED
      BY <2>1, <3>1, <3>3
  <2>4. blamed'[p] \subseteq faulty' \cup {}
    BY <1>0, <1>1, <2>1, <2>3 DEF Blame, Unread
  <2>5. Blame(p)'
    BY <2>1, <2>4, BlameNext
  <2>6. QED
    BY <1>3, <1>4, <1>5, <2>2, <2>5 DEF SlotInv
<1>8. QED
  BY <1>6, <1>7

\* The rest of the loop but the reaping.
LEMMA LoopSteps ==
    ASSUME IInv, \/ EpollWait \/ EpollFails \/ HandleSignal \/ ReapDone \/ Finish
                 \/ \E p \in Slot : HandleFile(p) \/ FgetsBlocks(p) \/ FgetsReturns(p)
    PROVE  IInv'
<1>0. Types /\ Counted /\ ZombieNoticed
  BY DEF IInv
<1>1. ASSUME UNCHANGED <<active, start, pid, file, timer, progress, faulty, pipe, sbuf>>,
             UNCHANGED cvars, master' \in {"loop", "complete", "failed"}, ZombieNoticed'
      PROVE  IInv'
  <2>1. Types' /\ Counted'
    BY <1>0, <1>1, CountKept DEF Types, cvars
  <2>2. QED
    BY <1>1, <2>1, NoSlot
<1>2. CASE EpollWait
  <2>1. ZombieNoticed'
    BY <1>0, <1>2 DEF EpollWait, ZombieNoticed, cvars
  <2>2. QED
    BY <1>0, <1>1, <1>2, <2>1 DEF EpollWait, Types
<1>3. CASE EpollFails
  <2>1. ZombieNoticed'
    BY <1>3 DEF EpollFails, ZombieNoticed
  <2>2. QED
    BY <1>1, <1>3, <2>1 DEF EpollFails
<1>4. CASE HandleSignal
  <2>1. ZombieNoticed'
    BY <1>4 DEF HandleSignal, ZombieNoticed
  <2>2. QED
    BY <1>0, <1>1, <1>4, <2>1 DEF HandleSignal, Types
<1>5. CASE ReapDone
  <2>1. ZombieNoticed'
    BY <1>5 DEF ReapDone, ZombieNoticed, cvars
  <2>2. QED
    BY <1>0, <1>1, <1>5, <2>1 DEF ReapDone, Types
<1>6. CASE Finish
  <2>1. ZombieNoticed'
    BY <1>6 DEF Finish, ZombieNoticed
  <2>2. QED
    BY <1>1, <1>6, <2>1 DEF Finish
<1>7. ASSUME NEW p \in Slot, FgetsBlocks(p) PROVE IInv'
  <2>1. ZombieNoticed'
    BY <1>0, <1>7 DEF FgetsBlocks, Take, NoEvent, ZombieNoticed, cvars
  <2>2. QED
    BY <1>0, <1>1, <1>7, <2>1 DEF FgetsBlocks, Types
<1>8. ASSUME NEW p \in Slot, HandleFile(p) \/ FgetsReturns(p) PROVE IInv'
  <2>1. Quiet /\ sigchld' = sigchld
    BY <1>8 DEF HandleFile, FgetsReturns, Quiet, cvars
  <2>2. HandleLine(p) \/ HandleEof(p) \/ HandleClosed(p)
    BY <1>8 DEF HandleFile, FgetsReturns
  <2>3. Types' /\ Counted' /\ Others(p) /\ SlotInv(p)'
    BY <2>1, <2>2, LineHandled, EofHandled
  <2>4. ZombieNoticed'
    BY <1>0, <1>8, <2>1 DEF HandleFile, FgetsReturns, ZombieNoticed, Quiet
  <2>5. QED
    BY <2>3, <2>4, OneSlot
<1>9. QED
  BY <1>2, <1>3, <1>4, <1>5, <1>6, <1>7, <1>8

\* The crash timer fires, and its handler kills the child it belongs to.
LEMMA TimerSteps ==
    ASSUME IInv, NEW p \in Slot, HandleTimer(p) \/ TimerExpires(p)
    PROVE  IInv'
<1>0. Types /\ Counted /\ ZombieNoticed /\ InShare(p) /\ Alive(p) /\ Blame(p)
  BY DEF IInv, SlotInv
<1>1. UNCHANGED <<master, active, start, pid, file, progress, faulty, cur, pipe, sbuf, at, mask,
                  todo, blamed>>
  BY DEF HandleTimer, TimerExpires, cvars
<1>2. /\ timer' \in [Slot -> {"off", "armed", "fired"}]
      /\ \A q \in Slot \ {p} : timer'[q] = timer[q]
      /\ timer'[p] # "off" => timer[p] # "off"
  BY <1>0 DEF HandleTimer, TimerExpires, Types
<1>3. /\ child' \in [Slot -> {"none", "run", "handler", "hung", "zombie"}]
      /\ \A q \in Slot \ {p} : child'[q] = child[q]
      /\ child'[p] = child[p] \/ (child'[p] = "zombie" /\ timer[p] # "off")
      /\ DOMAIN status' = Slot
  <2>1. \/ child' = child /\ status' = status
        \/ /\ timer[p] # "off" /\ child' = [child EXCEPT ![p] = "zombie"]
           /\ status' = [status EXCEPT ![p] = "bad"]
    BY DEF HandleTimer, TimerExpires, Die, cvars
  <2>2. QED
    BY <1>0, <2>1 DEF Types
<1>4. ZombieNoticed'
  <2>1. (child' = child /\ sigchld' = sigchld) \/ sigchld'
    BY DEF HandleTimer, TimerExpires, Die, cvars
  <2>2. QED
    BY <1>0, <1>1, <2>1 DEF ZombieNoticed
<1>5. Types' /\ Counted'
  BY <1>0, <1>1, <1>2, <1>3, CountKept DEF Types
<1>6. Others(p)
  BY <1>1, <1>2, <1>3 DEF Others, Same
<1>7. InShare(p)'
  BY <1>0, <1>1, <1>3, ShareNext DEF InShare
<1>8. Alive(p)'
  <2>1. timer[p] # "off" => child[p] # "none" /\ child[p] # "run"
    BY <1>0 DEF Alive
  <2>2. pid[p] <=> child'[p] # "none"
    BY <1>0, <1>3, <2>1 DEF Alive
  <2>3. child'[p] \in {"run", "handler", "hung"} => file[p]
    BY <1>0, <1>3 DEF Alive
  <2>4. timer'[p] = "off" \/ (child'[p] # "none" /\ child'[p] # "run")
    BY <1>2, <1>3, <2>1
  <2>5. child'[p] = "none" => ~file[p]
    BY <1>0, <1>3 DEF Alive
  <2>6. child'[p] = "run" => Vals(pipe[p], "CRASH") = {} /\ Vals(sbuf[p], "CRASH") = {}
    BY <1>0, <1>3 DEF Alive
  <2>7. QED
    BY <1>1, <2>2, <2>3, <2>4, <2>5, <2>6, AliveNext
<1>9. Blame(p)'
  BY <1>0, <1>1, <1>3, BlameNext DEF Blame, Unread
<1>10. QED
  BY <1>4, <1>5, <1>6, <1>7, <1>8, <1>9, OneSlot DEF SlotInv

\* process_shutdown(): the last lines are read, and the slot is done with,
\* given up, or started again behind the point the child had reached.
LEMMA ReapStep ==
    ASSUME IInv, NEW p \in Slot, Reap(p)
    PROVE  /\ IInv'
           /\ start'[p].g >= start[p].g /\ start'[p].c >= start[p].c
           /\ \A q \in Slot \ {p} : start'[q] = start[q]
<1>0. /\ Types /\ Counted /\ ZombieNoticed /\ InShare(p) /\ Alive(p) /\ Blame(p)
      /\ start[p] \in [g : Nat, c : Nat] /\ child[p] = "zombie"
  BY DEF IInv, SlotInv, Types, Reap
<1> DEFINE L       == LineFrom(start[p], p)
           seen    == Progress(Flushed(p), progress[p])
           verdict == Verdict(p, seen)
<1>1. Flushed(p) \in Seq(L) /\ Vals(Flushed(p), "MODULE") = Unread(p)
  <2>1. pipe[p] \in Seq(L) /\ sbuf[p] \in Seq(L)
    BY <1>0 DEF InShare
  <2>2. CASE file[p]
    <3>1. Flushed(p) = sbuf[p] \o pipe[p]
      BY <2>2 DEF Flushed
    <3>2. QED
      BY <2>1, <2>2, <3>1, ValsConcat DEF Unread
  <2>3. CASE ~file[p]
    <3>1. Flushed(p) = <<>> /\ <<>> \in Seq(L) /\ Vals(<<>>, "MODULE") = {}
      BY <2>3, EmptySeq, ValsShort DEF Flushed
    <3>2. QED
      BY <2>3, <3>1 DEF Unread
  <2>4. QED
    BY <2>2, <2>3
<1>2. seen \in Reach(start[p], p) /\ Vals(Flushed(p), "MODULE") \subseteq Module
  BY <1>0, <1>1, ProgressReach DEF InShare
<1>3. /\ master = "loop" /\ cur = <<"reap", 0>>
      /\ faulty' = Faulty(Flushed(p))
      /\ pipe' = [pipe EXCEPT ![p] = <<>>] /\ sbuf' = [sbuf EXCEPT ![p] = <<>>]
      /\ timer' = [timer EXCEPT ![p] = "off"] /\ todo' = [todo EXCEPT ![p] = <<>>]
      /\ start' = IF verdict \in {"exhausted", "retry"}
                  THEN [start EXCEPT ![p] = seen] ELSE start
      /\ \/ verdict = "retry" /\ Fork(p, seen, faulty')
         \/ verdict = "retry" /\ NoFork(p, Unknown) /\ master' = "failed"
         \/ verdict # "retry" /\ NoFork(p, seen) /\ master' = master
      /\ status' = [status EXCEPT ![p] = "ok"]
      /\ UNCHANGED <<sigchld, cur, blamed>>
  BY DEF Reap, TimerAfterShutdown
<1>4. verdict \in {"exhausted", "retry"} => seen.g >= 0 /\ seen.c >= 0
  BY <1>2 DEF Verdict, Reach
<1>5. verdict \in {"exhausted", "retry"} =>
          /\ seen \in [g : Nat, c : Nat]
          /\ seen.g \in start[p].g..End(p).g /\ seen.c \in start[p].c..End(p).c
  BY <1>0, <1>2, <1>4, Shares DEF Reach
<1>6. faulty' = faulty \cup Unread(p)
  BY <1>1, <1>3 DEF Faulty, Vals
<1> HIDE DEF L, seen, verdict
<1>7. /\ pipe'[p] = <<>> /\ sbuf'[p] = <<>> /\ timer'[p] = "off" /\ todo'[p] = <<>>
      /\ DOMAIN pipe' = Slot /\ DOMAIN sbuf' = Slot /\ DOMAIN todo' = Slot /\ DOMAIN status' = Slot
      /\ timer' \in [Slot -> {"off", "armed", "fired"}]
      /\ start' \in [Slot -> [g : Nat, c : Nat]]
      /\ start'[p] = IF verdict \in {"exhausted", "retry"} THEN seen ELSE start[p]
      /\ \A q \in Slot \ {p} : start'[q] = start[q]
      /\ faulty' \subseteq Module
  BY <1>0, <1>1, <1>2, <1>3, <1>5, <1>6 DEF Types
<1>8. CASE verdict = "retry" /\ Fork(p, seen, faulty')
  <2>1. /\ child' = [child EXCEPT ![p] = "run"] /\ at' = [at EXCEPT ![p] = seen]
        /\ mask' = [mask EXCEPT ![p] = faulty'] /\ file' = [file EXCEPT ![p] = TRUE]
        /\ progress' = [progress EXCEPT ![p] = Unknown] /\ UNCHANGED <<master, active, pid>>
    BY <1>8 DEF Fork
  <2>2. Types'
    BY <1>0, <1>3, <1>5, <1>7, <1>8, <2>1 DEF Types
  <2>3. /\ child'[p] = "run" /\ at'[p] = seen /\ mask'[p] = faulty' /\ file'[p]
        /\ progress'[p] = Unknown /\ start'[p] = seen
    BY <1>0, <1>7, <1>8, <2>1 DEF Types
  <2>4. Others(p)
    BY <1>0, <1>3, <1>6, <1>7, <2>1 DEF Others, Same, Types
  <2>5. InShare(p)'
    <3>1. Unknown \in Reach(seen, p) /\ <<>> \in Seq(LineFrom(seen, p))
      BY EmptySeq DEF Reach, Unknown
    <3>2. /\ seen.g <= End(p).g /\ seen.c <= End(p).c
          /\ seen.g \in seen.g..End(p).g /\ seen.c \in seen.c..End(p).c
      BY <1>5, <1>8, Shares
    <3>3. QED
      BY <1>7, <2>3, <3>1, <3>2, ShareNext
  <2>6. Alive(p)'
    BY <1>0, <1>7, <2>1, <2>3, ValsShort, AliveNext DEF Alive
  <2>7. Blame(p)'
    BY <1>0, <1>3, <1>6, <1>7, <2>3, ValsShort, BlameNext DEF Blame
  <2>8. Counted'
    BY <1>0, <2>1, CountKept
  <2>9. ZombieNoticed'
    BY <1>3 DEF ZombieNoticed
  <2>10. QED
    BY <1>0, <1>5, <1>7, <1>8, <2>2, <2>4, <2>5, <2>6, <2>7, <2>8, <2>9, OneSlot DEF SlotInv
<1>9. ASSUME NEW last \in {seen, Unknown}, NoFork(p, last), master' \in {"loop", "failed"},
             last = seen \/ verdict = "retry"
      PROVE  /\ IInv' /\ start'[p].g >= start[p].g /\ start'[p].c >= start[p].c
  <2>1. /\ child' = [child EXCEPT ![p] = "none"] /\ at' = [at EXCEPT ![p] = Unknown]
        /\ pid' = [pid EXCEPT ![p] = FALSE] /\ file' = [file EXCEPT ![p] = FALSE]
        /\ progress' = [progress EXCEPT ![p] = last] /\ active' = active - 1 /\ mask' = mask
    BY <1>9 DEF NoFork
  <2>2. Types'
    BY <1>0, <1>3, <1>7, <1>9, <2>1 DEF Types, Unknown
  <2>3. /\ child'[p] = "none" /\ ~file'[p] /\ ~pid'[p] /\ progress'[p] = last
    BY <1>0, <2>1 DEF Types, Counted
  <2>4. Others(p)
    BY <1>0, <1>3, <1>6, <1>7, <2>1 DEF Others, Same, Types, Counted
  <2>5. InShare(p)'
    <3>1. start'[p].g <= End(p).g /\ start'[p].c <= End(p).c
      BY <1>0, <1>5, <1>7, Shares DEF InShare
    <3>2. last \in Reach(start'[p], p)
      BY <1>2, <1>4, <1>5, <1>7, <1>9, Shares DEF Reach, Unknown
    <3>3. <<>> \in Seq(LineFrom(start'[p], p))
      BY EmptySeq
    <3>4. QED
      BY <1>7, <2>3, <3>1, <3>2, <3>3, ShareNext
  <2>6. Alive(p)'
    BY <1>7, <2>3, AliveNext
  <2>7. Blame(p)'
    <3>1. blamed'[p] \subseteq faulty' \cup {}
      BY <1>0, <1>3, <1>6 DEF Blame
    <3>2. QED
      BY <2>3, <3>1, BlameNext
  <2>8. Counted'
    <3> DEFINE S == {q \in Slot : pid[q]}
    <3>1. S' = S \ {p} /\ p \in S
      BY <1>0, <2>1 DEF Alive, Counted
    <3>2. IsFiniteSet(Slot)
      BY MasterAssumption, FS_Interval DEF Slot
    <3>3. S \in SUBSET Slot
      OBVIOUS
    <3>4. IsFiniteSet(S)
      BY <3>2, <3>3, FS_Subset
    <3>5. Cardinality(S') = Cardinality(S) - 1
      BY <3>1, <3>4, FS_RemoveElement
    <3>6. pid' \in [Slot -> BOOLEAN]
      BY <1>0, <2>1 DEF Counted
    <3>7. active' = Cardinality(S')
      BY <1>0, <2>1, <3>5 DEF Counted
    <3>8. QED
      BY <3>6, <3>7 DEF Counted
  <2>9. ZombieNoticed'
    BY <1>3 DEF ZombieNoticed
  <2>10. start'[p].g >= start[p].g /\ start'[p].c >= start[p].c
    BY <1>0, <1>5, <1>7, Shares
  <2>11. QED
    BY <2>2, <2>4, <2>5, <2>6, <2>7, <2>8, <2>9, <2>10, OneSlot DEF SlotInv
<1>10. QED
  BY <1>3, <1>7, <1>8, <1>9

-----------------------------------------------------------------------------
\* The master has just forked the first children.
LEMMA InvInit == Init => IInv
<1> SUFFICES ASSUME Init PROVE IInv
  OBVIOUS
<1> DEFINE idle(p) == Exhausted(First(p), p)
<1>1. /\ start = [p \in Slot |-> First(p)] /\ at = start
      /\ child = [p \in Slot |-> IF idle(p) THEN "none" ELSE "run"]
      /\ pid = [p \in Slot |-> ~idle(p)] /\ file = pid
      /\ active = Cardinality({p \in Slot : ~idle(p)})
  BY DEF Init
<1>2. pid \in [Slot -> BOOLEAN] /\ \A p \in Slot : pid[p] <=> ~idle(p)
  BY <1>1, Zenon
<1>3. {p \in Slot : pid[p]} = {p \in Slot : ~idle(p)}
  BY <1>2
<1>4. Counted
  BY <1>1, <1>2, <1>3 DEF Counted
<1>5. Types
  <2>1. start \in [Slot -> [g : Nat, c : Nat]]
    BY <1>1, Shares
  <2>2. at \in [Slot -> [g : Int, c : Int]]
    BY <1>1, <2>1
  <2>3. QED
    BY <1>1, <1>2, <2>1, <2>2 DEF Init, Types
<1>6. ZombieNoticed
  BY <1>1 DEF ZombieNoticed
<1> HIDE DEF idle
<1>7. ASSUME NEW p \in Slot PROVE SlotInv(p)
  <2>1. InShare(p)
    <3>1. Unknown \in Reach(First(p), p) /\ <<>> \in Seq(LineFrom(First(p), p))
      BY EmptySeq DEF Reach, Unknown
    <3>2. start[p] = First(p) /\ at[p] = First(p) /\ progress[p] = Unknown
          /\ pipe[p] = <<>> /\ sbuf[p] = <<>> /\ todo[p] = <<>>
      BY <1>1 DEF Init
    <3>3. QED
      BY <3>1, <3>2, Shares DEF InShare
  <2>2. Alive(p)
    BY <1>1, <1>2, ValsShort DEF Init, Alive
  <2>3. Blame(p)
    BY DEF Init, Blame
  <2>4. QED
    BY <2>1, <2>2, <2>3 DEF SlotInv
<1>8. QED
  BY <1>4, <1>5, <1>6, <1>7 DEF IInv

\* Every step of a child or of the master keeps the invariant.
LEMMA InvStep == IInv /\ [Next]_vars => IInv'
<1> SUFFICES ASSUME IInv, [Next]_vars PROVE IInv'
  OBVIOUS
<1>1. CASE MasterStep
  BY <1>1, LoopSteps, TimerSteps, ReapStep DEF MasterStep
<1>2. CASE EpollFails
  BY <1>2, LoopSteps
<1>3. ASSUME NEW p \in Slot, ChildStep(p) PROVE IInv'
  BY <1>3, ChildMoves, ChildSays DEF ChildStep, HandlerStep
<1>4. ASSUME NEW p \in Slot, TimerExpires(p) PROVE IInv'
  BY <1>4, TimerSteps
<1>5. CASE UNCHANGED vars
  <2>1. /\ UNCHANGED <<start, pid, file, pipe, sbuf, timer, progress, active, master, cur, sigchld>>
        /\ UNCHANGED cvars /\ faulty' = faulty
    BY <1>5 DEF vars, cvars
  <2>2. Types /\ Counted /\ ZombieNoticed
    BY DEF IInv
  <2>3. Types' /\ Counted' /\ ZombieNoticed'
    BY <2>1, <2>2, CountKept DEF Types, ZombieNoticed, cvars
  <2>4. QED
    BY <2>1, <2>3, NoSlot
<1>6. QED
  BY <1>1, <1>2, <1>3, <1>4, <1>5 DEF Next

(***************************************************************************)
(* The invariant of the master and its children, for any number of slots,  *)
(* pipelines and modules and however many children crash.                  *)
(***************************************************************************)
THEOREM InductiveInvariant == Spec => []IInv
BY InvInit, InvStep, PTL DEF Spec

(***************************************************************************)
(* active_processes counts the slots that have a child, so the loop ends   *)
(* when the last one has been reaped and not before; the progress read     *)
(* from the pipes stays within the pipelines there are.                    *)
(***************************************************************************)
THEOREM TypeCorrect == Spec => []TypeOK
<1>1. IInv => TypeOK
  <2> SUFFICES ASSUME IInv PROVE TypeOK
    OBVIOUS
  <2>1. ASSUME NEW p \in Slot
        PROVE  progress[p].g \in -1..num_graphics /\ progress[p].c \in -1..num_compute
    <3>1. progress[p] \in Reach(start[p], p) /\ start[p] \in [g : Nat, c : Nat]
      BY DEF IInv, SlotInv, InShare, Types
    <3>2. QED
      BY <3>1, Shares, MasterAssumption DEF Reach
  <2>2. QED
    BY <2>1 DEF IInv, Types, Counted, TypeOK
<1>2. QED
  BY <1>1, InductiveInvariant, PTL

(***************************************************************************)
(* The timer's SIGKILL only ever goes to a child that has announced a      *)
(* crash and has not been reaped.                                          *)
(***************************************************************************)
THEOREM KillsTheRightChild == Spec => []KillTarget
<1>1. IInv => KillTarget
  BY DEF IInv, SlotInv, Alive, Types, KillTarget
<1>2. QED
  BY <1>1, InductiveInvariant, PTL

\* While the loop runs no death goes unnoticed, however the signals merge.
THEOREM DeathsNoticed == Spec => []ZombieNoticed
<1>1. IInv => ZombieNoticed
  BY DEF IInv
<1>2. QED
  BY <1>1, InductiveInvariant, PTL

(***************************************************************************)
(* A restarted child knows every module an earlier child of its slot put   *)
(* the blame on, wherever the line was when that child died.               *)
(***************************************************************************)
THEOREM CulpritsKnown == Spec => []RestartKnowsCulprits
<1>1. IInv => RestartKnowsCulprits
  BY DEF IInv, SlotInv, Blame, RestartKnowsCulprits
<1>2. QED
  BY <1>1, InductiveInvariant, PTL

(***************************************************************************)
(* No message of a child, and no order of the messages, makes a slot go    *)
(* back to pipelines it has left behind.                                   *)
(***************************************************************************)
THEOREM NeverBack == Spec => StartsForward
<1> DEFINE Forward == \A p \in Slot : start'[p].g >= start[p].g /\ start'[p].c >= start[p].c
<1>1. IInv /\ [Next]_vars => Forward
  <2> SUFFICES ASSUME IInv, [Next]_vars PROVE Forward
    OBVIOUS
  <2>1. \A q \in Slot : start[q].g \in Nat /\ start[q].c \in Nat
    BY DEF IInv, Types
  <2>2. ASSUME NEW p \in Slot, Reap(p) PROVE Forward
    BY <2>1, <2>2, ReapStep
  <2>3. CASE start' = start
    BY <2>1, <2>3
  <2>4. QED
    BY <2>2, <2>3
       DEF Next, MasterStep, ChildStep, HandlerStep, EpollWait, EpollFails, HandleSignal, ReapDone,
           Finish, HandleFile, FgetsBlocks, FgetsReturns, HandleTimer, TimerExpires, Work,
           ValidationError, Crash, Exit, HandlerWrite, HandlerExit, HandlerFaults, HandlerHangs,
           mvars, vars
<1>2. IInv /\ [Next]_vars => [Forward]_vars
  BY <1>1
<1>3. QED
  BY <1>2, InductiveInvariant, PTL DEF Spec, StartsForward

=============================================================================
