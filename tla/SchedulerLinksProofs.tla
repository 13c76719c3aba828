------------------------- MODULE SchedulerLinksProofs -------------------------
(***************************************************************************)
(* Every step on the pointer fields is a step of Scheduler on the          *)
(* sequences, or changes none of them, and it leaves the reference counts  *)
(* exact.                                                                  *)
(*                                                                         *)
(* First, what the operations of SchedulerLinks do to a memory: to the     *)
(* counts, and to the sequences for which the links stand.                 *)
(***************************************************************************)
EXTENDS SchedulerLinks, LeastNumber, FiniteSetTheorems, SequenceTheorems

Links == Processes \cup {NilPointer}
Memories == [slot : [Slots -> Links], count : [Processes -> Nat], freed : SUBSET Processes]

(* The slots that refer to p. *)
SlotsOf(slot, p) == {s \in Slots : slot[s] = p}

(* Every process has as many references as slots refer to it, and extra[p]   *)
(* from elsewhere; one that was freed has none.                              *)
Counted(m, extra) ==
  /\ m \in Memories
  /\ extra \in [Processes -> Nat]
  /\ \A p \in Processes : m.count[p] = Cardinality(SlotsOf(m.slot, p)) + extra[p]
  /\ \A p \in m.freed : m.count[p] = 0

(* A process that loses its last reference has no next link. *)
Unlinked(m, p) == m.count[p] <= 1 => m.slot[NextLink(p)] = NilPointer

Plus(extra, p) == [extra EXCEPT ![p] = @ + 1]
Minus(extra, p) == [extra EXCEPT ![p] = @ - 1]

LEMMA SlotsFinite == IsFiniteSet(Slots)
<1> DEFINE A == {FirstLink(l) : l \in Lists}
           B == {LastLink(l) : l \in Lists}
           C == {NextLink(p) : p \in Processes}
<1>1. IsFiniteSet(Lists)
  <2>1. MaxPriority \in Int /\ 1 \in Int
    BY LinksConstantsOK
  <2>2. IsFiniteSet(Priorities)
    BY <2>1, FS_Interval DEF Priorities
  <2> QED
    BY <2>2, FS_Union, LinksConstantsOK DEF Lists
<1>2. IsFiniteSet(A)
  <2> DEFINE f == [l \in Lists |-> FirstLink(l)]
  <2>1. f \in Surjection(Lists, A)
    BY DEF Surjection
  <2> QED
    BY <1>1, <2>1, FS_Surjection
<1>3. IsFiniteSet(B)
  <2> DEFINE f == [l \in Lists |-> LastLink(l)]
  <2>1. f \in Surjection(Lists, B)
    BY DEF Surjection
  <2> QED
    BY <1>1, <2>1, FS_Surjection
<1>4. IsFiniteSet(C)
  <2> DEFINE f == [p \in Processes |-> NextLink(p)]
  <2>1. f \in Surjection(Processes, C)
    BY DEF Surjection
  <2> QED
    BY <2>1, FS_Surjection, LinksConstantsOK
<1>5. IsFiniteSet(A \cup B \cup C \cup {ActiveProcess})
  BY <1>2, <1>3, <1>4, FS_Union, FS_AddElement
<1> QED
  BY <1>5 DEF Slots

LEMMA SlotsOfFinite ==
  ASSUME NEW slot, NEW p
  PROVE  IsFiniteSet(SlotsOf(slot, p)) /\ Cardinality(SlotsOf(slot, p)) \in Nat
<1>1. SlotsOf(slot, p) \in SUBSET Slots
  BY DEF SlotsOf
<1> QED
  BY <1>1, SlotsFinite, FS_Subset, FS_CardinalityType

(* References that are known to exist. *)
LEMMA Referenced ==
  ASSUME NEW m, NEW extra, Counted(m, extra), NEW s \in Slots, NEW p \in Processes,
         m.slot[s] = p
  PROVE  /\ m.count[p] >= 1 + extra[p]
         /\ \A t \in Slots : t # s /\ m.slot[t] = p => m.count[p] >= 2 + extra[p]
<1> DEFINE S == SlotsOf(m.slot, p)
<1>1. IsFiniteSet(S) /\ Cardinality(S) \in Nat /\ s \in S /\ extra[p] \in Nat
  BY SlotsOfFinite DEF SlotsOf, Counted
<1>2. m.count[p] = Cardinality(S) + extra[p]
  BY DEF Counted
<1>r. \A t \in Slots : m.slot[t] = p => t \in S
  BY DEF SlotsOf
<1> HIDE DEF S
<1>3. Cardinality(S) = Cardinality(S \ {s}) + 1 /\ IsFiniteSet(S \ {s}) /\ Cardinality(S \ {s}) \in Nat
  <2>1. IsFiniteSet(S \ {s}) /\ Cardinality(S \ {s}) = Cardinality(S) - 1
    BY <1>1, FS_RemoveElement
  <2> QED
    BY <1>1, <2>1, FS_CardinalityType
<1>4. ASSUME NEW t \in Slots, t # s, m.slot[t] = p
      PROVE  Cardinality(S \ {s}) >= 1
  <2>1. t \in S \ {s}
    BY <1>r, <1>4
  <2>2. Cardinality(S \ {s}) # 0
    BY <1>3, <2>1, FS_EmptySet
  <2> QED
    BY <1>3, <2>2
<1>5. m.count[p] >= 1 + extra[p]
  BY <1>1, <1>2, <1>3
<1>6. ASSUME NEW t \in Slots, t # s, m.slot[t] = p
      PROVE  m.count[p] >= 2 + extra[p]
  BY <1>1, <1>2, <1>3, <1>4, <1>6
<1> QED
  BY <1>5, <1>6

----------------------------------------------------------------------------
(* Counting. *)

LEMMA CountUp ==
  ASSUME NEW m, NEW extra, Counted(m, extra), NEW p \in Processes, m.count[p] > 0
  PROVE  /\ Counted(countUp(m, p), Plus(extra, p))
         /\ countUp(m, p).slot = m.slot
         /\ countUp(m, p).count = [m.count EXCEPT ![p] = @ + 1]
<1> DEFINE n == countUp(m, p)
<1>1. p # NilPointer /\ m \in Memories /\ extra \in [Processes -> Nat]
  BY LinksConstantsOK DEF Counted
<1>2. n = [m EXCEPT !.count[p] = @ + 1]
  BY <1>1 DEF countUp
<1>3. n.slot = m.slot /\ n.freed = m.freed /\ n.count = [m.count EXCEPT ![p] = @ + 1]
  BY <1>1, <1>2 DEF Memories
<1>4. n \in Memories /\ Plus(extra, p) \in [Processes -> Nat]
  BY <1>1, <1>2 DEF Memories, Plus
<1> HIDE DEF n
<1>5. \A q \in Processes : n.count[q] = Cardinality(SlotsOf(n.slot, q)) + Plus(extra, p)[q]
  BY <1>1, <1>3, SlotsOfFinite DEF Counted, Memories, Plus
<1>6. \A q \in n.freed : n.count[q] = 0
  <2> SUFFICES ASSUME NEW q \in n.freed PROVE n.count[q] = 0
    OBVIOUS
  <2>1. q \in Processes /\ m.count[q] = 0
    BY <1>1, <1>3 DEF Counted, Memories
  <2> QED
    BY <1>1, <1>3, <2>1 DEF Memories
<1> QED
  BY <1>3, <1>4, <1>5, <1>6 DEF Counted, n

(* No process is freed but p, because p has no next link then.               *)
LEMMA FreesAtMost ==
  ASSUME NEW m \in Memories, NEW p \in Processes, Unlinked(m, p)
  PROVE  freedBy(m, p) = IF m.count[p] <= 1 THEN {p} ELSE {}
<1>1. p # NilPointer
  BY LinksConstantsOK
<1>2. CASE m.count[p] <= 1
  <2>1. m.slot[NextLink(p)] = NilPointer
    BY <1>2 DEF Unlinked
  <2>2. ASSUME NEW q \in freedBy(m, p) PROVE q = p
    <3>1. {p} \in SUBSET Processes
      OBVIOUS
    <3> QED
      BY <1>1, <2>1, <2>2, <3>1 DEF freedBy
  <2>3. p \in freedBy(m, p)
    BY <1>1, <1>2 DEF freedBy
  <2> QED
    BY <1>2, <2>2, <2>3
<1>3. CASE ~(m.count[p] <= 1)
  BY <1>3 DEF freedBy
<1> QED
  BY <1>2, <1>3

LEMMA CountDownEffect ==
  ASSUME NEW m \in Memories, NEW p \in Processes, m.count[p] >= 1, Unlinked(m, p)
  PROVE  LET n == countDown(m, p)
         IN /\ n \in Memories
            /\ n.slot = m.slot
            /\ n.count = [m.count EXCEPT ![p] = @ - 1]
            /\ n.freed \subseteq m.freed \cup (IF m.count[p] = 1 THEN {p} ELSE {})
<1> DEFINE n == countDown(m, p)
<1>1. p # NilPointer
  BY LinksConstantsOK
<1>2. m.count[p] \in Nat /\ m.count \in [Processes -> Nat]
  BY DEF Memories
<1>3. /\ n.slot = m.slot
      /\ n.count = [m.count EXCEPT ![p] = @ - 1]
      /\ n.freed \subseteq m.freed \cup (IF m.count[p] = 1 THEN {p} ELSE {})
      /\ n = [slot |-> n.slot, count |-> n.count, freed |-> n.freed]
  <2>1. CASE m.count[p] <= 1
    <3>1. freedBy(m, p) = {p} /\ m.slot[NextLink(p)] = NilPointer
      BY <1>1, <2>1, FreesAtMost DEF Unlinked
    <3>2. \A q \in Processes : q \notin {m.slot[NextLink(r)] : r \in {p}}
      BY <3>1, LinksConstantsOK
    <3>3. m.count[p] - 1 = 0
      BY <1>2, <2>1
    <3>4. n = [slot |-> m.slot,
               count |-> [q \in Processes |-> IF q \in {p} THEN 0
                                              ELSE IF q \in {p} \cup {m.slot[NextLink(r)] : r \in {p}}
                                                   THEN m.count[q] - 1
                                              ELSE m.count[q]],
               freed |-> m.freed \cup {p}]
      BY <3>1, Zenon DEF countDown
    <3>5. n = [slot |-> m.slot,
               count |-> [q \in Processes |-> IF q = p THEN 0 ELSE m.count[q]],
               freed |-> m.freed \cup {p}]
      BY <3>2, <3>4
    <3> HIDE DEF n
    <3> QED
      BY <1>2, <2>1, <3>3, <3>5
  <2>2. CASE ~(m.count[p] <= 1)
    <3>1. freedBy(m, p) = {}
      BY <1>1, <2>2, FreesAtMost
    <3>2. n = [slot |-> m.slot,
               count |-> [q \in Processes |-> IF q = p THEN m.count[q] - 1 ELSE m.count[q]],
               freed |-> m.freed]
      BY <3>1 DEF countDown
    <3> HIDE DEF n
    <3> QED
      BY <1>2, <2>2, <3>2
  <2> QED
    BY <2>1, <2>2
<1> HIDE DEF n
<1>4. n \in Memories
  <2>1. n.slot \in [Slots -> Links] /\ n.count \in [Processes -> Nat] /\ n.freed \in SUBSET Processes
    BY <1>1, <1>2, <1>3 DEF Memories
  <2> QED
    BY <1>3, <2>1 DEF Memories
<1> QED
  BY <1>3, <1>4 DEF n

LEMMA CountDown ==
  ASSUME NEW m, NEW extra, Counted(m, extra), NEW p \in Processes, extra[p] > 0,
         Unlinked(m, p)
  PROVE  /\ Counted(countDown(m, p), Minus(extra, p))
         /\ countDown(m, p).slot = m.slot
         /\ countDown(m, p).count = [m.count EXCEPT ![p] = @ - 1]
<1> DEFINE n == countDown(m, p)
<1>1. p # NilPointer /\ m \in Memories /\ extra \in [Processes -> Nat]
  BY LinksConstantsOK DEF Counted
<1>2. m.count[p] \in Nat /\ m.count[p] >= 1 /\ m.count \in [Processes -> Nat]
  BY <1>1, SlotsOfFinite DEF Counted, Memories
<1>3. /\ n \in Memories
      /\ n.slot = m.slot
      /\ n.count = [m.count EXCEPT ![p] = @ - 1]
      /\ n.freed \subseteq m.freed \cup (IF m.count[p] = 1 THEN {p} ELSE {})
  BY <1>1, <1>2, CountDownEffect
<1> HIDE DEF n
<1>4. Minus(extra, p) \in [Processes -> Nat]
  BY <1>1 DEF Minus
<1>5. \A q \in Processes : n.count[q] = Cardinality(SlotsOf(n.slot, q)) + Minus(extra, p)[q]
  BY <1>1, <1>2, <1>3, SlotsOfFinite DEF Counted, Minus
<1>6. \A q \in n.freed : n.count[q] = 0
  <2> SUFFICES ASSUME NEW q \in n.freed PROVE n.count[q] = 0
    OBVIOUS
  <2>1. q \in m.freed \/ (q = p /\ m.count[p] = 1)
    BY <1>3
  <2>2. q \in m.freed => q \in Processes /\ m.count[q] = 0
    BY <1>1 DEF Counted, Memories
  <2> QED
    BY <1>2, <1>3, <2>1, <2>2
<1> QED
  BY <1>3, <1>4, <1>5, <1>6 DEF Counted, n

LEMMA CountDownNil ==
  ASSUME NEW m \in Memories
  PROVE  countDown(m, NilPointer) = m
<1>1. freedBy(m, NilPointer) = {}
  BY DEF freedBy
<1>2. countDown(m, NilPointer) =
        [slot |-> m.slot, count |-> [q \in Processes |-> m.count[q]], freed |-> m.freed]
  <2>1. \A q \in Processes : q # NilPointer
    BY LinksConstantsOK
  <2> QED
    BY <1>1, <2>1 DEF countDown
<1>3. m.count = [q \in Processes |-> m.count[q]]
  BY DEF Memories
<1>4. m = [slot |-> m.slot, count |-> m.count, freed |-> m.freed]
  BY DEF Memories
<1> QED
  BY <1>2, <1>3, <1>4

(* Another process in a slot moves one reference.                            *)
LEMMA SlotsMove ==
  ASSUME NEW slot \in [Slots -> Links], NEW s \in Slots, NEW v \in Links, NEW p \in Processes
  PROVE  Cardinality(SlotsOf([slot EXCEPT ![s] = v], p)) =
           Cardinality(SlotsOf(slot, p)) + (IF v = p THEN 1 ELSE 0) - (IF slot[s] = p THEN 1 ELSE 0)
<1> DEFINE new == [slot EXCEPT ![s] = v]
           S == SlotsOf(slot, p)
<1>1. IsFiniteSet(S) /\ Cardinality(S) \in Nat
  BY SlotsOfFinite
<1>2. SlotsOf(new, p) = IF v = p THEN S \cup {s} ELSE S \ {s}
  BY DEF SlotsOf
<1>3. s \in S <=> slot[s] = p
  BY DEF SlotsOf
<1> HIDE DEF S, new
<1>4. /\ Cardinality(S \cup {s}) = IF s \in S THEN Cardinality(S) ELSE Cardinality(S) + 1
      /\ Cardinality(S \ {s}) = IF s \in S THEN Cardinality(S) - 1 ELSE Cardinality(S)
  BY <1>1, FS_AddElement, FS_RemoveElement
<1>5. Cardinality(SlotsOf(new, p)) =
        Cardinality(S) + (IF v = p THEN 1 ELSE 0) - (IF slot[s] = p THEN 1 ELSE 0)
  BY <1>1, <1>2, <1>3, <1>4
<1> QED
  BY <1>5 DEF S, new

(* A store into a slot that does not take the last reference from a process  *)
(* with a next link.                                                         *)
LEMMA Store ==
  ASSUME NEW m, NEW extra, Counted(m, extra), NEW s \in Slots, NEW v \in Links,
         v # NilPointer => m.count[v] > 0,
         m.slot[s] # NilPointer => Unlinked(m, m.slot[s])
  PROVE  /\ Counted(storePointer(m, s, v), extra)
         /\ storePointer(m, s, v).slot = [m.slot EXCEPT ![s] = v]
<1> DEFINE old == m.slot[s]
           up == countUp(m, v)
           down == countDown(up, old)
           n == storePointer(m, s, v)
           new == [m.slot EXCEPT ![s] = v]
<1>1. m \in Memories /\ extra \in [Processes -> Nat] /\ old \in Links /\ m.slot \in [Slots -> Links]
      /\ NilPointer \notin Processes
  BY LinksConstantsOK DEF Counted, Memories
<1>2. /\ up \in Memories /\ up.slot = m.slot
      /\ \A p \in Processes : up.count[p] = m.count[p] + (IF v = p THEN 1 ELSE 0)
      /\ \A p \in up.freed : up.count[p] = 0
  <2>1. CASE v = NilPointer
    BY <1>1, <2>1 DEF countUp, Counted, Memories
  <2>2. CASE v \in Processes
    <3>1. Counted(up, Plus(extra, v)) /\ up.slot = m.slot /\ up.count = [m.count EXCEPT ![v] = @ + 1]
      BY <1>1, <2>2, CountUp
    <3> HIDE DEF up
    <3> QED
      BY <1>1, <2>2, <3>1 DEF Counted, Memories
  <2> QED
    BY <2>1, <2>2 DEF Links
<1>3. /\ down \in Memories /\ down.slot = m.slot
      /\ \A p \in Processes : down.count[p] = up.count[p] - (IF old = p THEN 1 ELSE 0)
      /\ \A p \in down.freed : down.count[p] = 0
  <2>1. CASE old = NilPointer
    BY <1>1, <1>2, <2>1, CountDownNil DEF Memories
  <2>2. CASE old \in Processes
    <3>1. m.count[old] >= 1 /\ up.count[old] \in Nat /\ m.count[old] \in Nat
      BY <1>1, <1>2, <2>2, Referenced DEF Memories
    <3>2. up.count[old] >= m.count[old]
      BY <1>1, <1>2, <2>2, <3>1
    <3> HIDE DEF up, old
    <3>3. Unlinked(up, old)
      BY <1>1, <1>2, <2>2, <3>1, <3>2 DEF Unlinked, old
    <3>4. /\ down \in Memories /\ down.slot = up.slot
          /\ down.count = [up.count EXCEPT ![old] = @ - 1]
          /\ down.freed \subseteq up.freed \cup (IF up.count[old] = 1 THEN {old} ELSE {})
      BY <1>2, <2>2, <3>1, <3>2, <3>3, CountDownEffect
    <3> HIDE DEF down
    <3>5. up.count \in [Processes -> Nat] /\ up.freed \subseteq Processes
      BY <1>2 DEF Memories
    <3>6. \A p \in Processes : down.count[p] = up.count[p] - (IF old = p THEN 1 ELSE 0)
      BY <2>2, <3>4, <3>5
    <3>7. ASSUME NEW p \in down.freed PROVE down.count[p] = 0
      BY <1>2, <2>2, <3>1, <3>4, <3>5, <3>6
    <3> QED
      BY <1>2, <3>4, <3>6, <3>7
  <2> QED
    BY <1>1, <2>1, <2>2 DEF Links
<1>4. n = [down EXCEPT !.slot[s] = v]
  BY DEF storePointer
<1> HIDE DEF n, down, up, old
<1>5. n \in Memories /\ n.slot = new /\ n.count = down.count /\ n.freed = down.freed
  BY <1>1, <1>3, <1>4 DEF Memories
<1>6. \A p \in Processes : n.count[p] = Cardinality(SlotsOf(n.slot, p)) + extra[p]
  <2> TAKE p \in Processes
  <2>1. m.count[p] = Cardinality(SlotsOf(m.slot, p)) + extra[p]
    BY DEF Counted
  <2>2. Cardinality(SlotsOf(new, p)) =
           Cardinality(SlotsOf(m.slot, p)) + (IF v = p THEN 1 ELSE 0) - (IF old = p THEN 1 ELSE 0)
    BY <1>1, SlotsMove DEF old
  <2>3. /\ Cardinality(SlotsOf(m.slot, p)) \in Nat /\ extra[p] \in Nat
        /\ n.count[p] = m.count[p] + (IF v = p THEN 1 ELSE 0) - (IF old = p THEN 1 ELSE 0)
    BY <1>1, <1>2, <1>3, <1>5, SlotsOfFinite DEF Memories
  <2> HIDE DEF new
  <2> QED
    BY <1>5, <2>1, <2>2, <2>3
<1> QED
  BY <1>1, <1>3, <1>5, <1>6 DEF Counted, n

----------------------------------------------------------------------------
(* The links and the sequences. *)

IsIn(lst, p) == \E l \in Lists : \E i \in 1..Len(lst[l]) : lst[l][i] = p

(* No process is in two places. *)
Distinct(lst) ==
  \A l, k \in Lists : \A i \in 1..Len(lst[l]), j \in 1..Len(lst[k]) :
    lst[l][i] = lst[k][j] => l = k /\ i = j

LEMMA DistinctPlaces ==
  ASSUME NEW lst, Distinct(lst), NEW a \in Lists, NEW b \in Lists,
         NEW i \in 1..Len(lst[a]), NEW j \in 1..Len(lst[b]), lst[a][i] = lst[b][j]
  PROVE  a = b /\ i = j
BY DEF Distinct

(* The links are those of the sequences lst, and there are no others.        *)
Chained(slot, lst) ==
  /\ \A l \in Lists : lst[l] = <<>> => /\ slot[FirstLink(l)] = NilPointer
                                       /\ slot[LastLink(l)] = NilPointer
  /\ \A l \in Lists : lst[l] # <<>> => /\ slot[FirstLink(l)] = lst[l][1]
                                       /\ slot[LastLink(l)] = lst[l][Len(lst[l])]
  /\ \A l \in Lists : \A i \in 1..Len(lst[l]) :
       slot[NextLink(lst[l][i])] = IF i < Len(lst[l]) THEN lst[l][i + 1] ELSE NilPointer
  /\ \A p \in Processes : ~IsIn(lst, p) => slot[NextLink(p)] = NilPointer

(* What linksFrom is defined to be, and that there is such a function.       *)
Follows(slot, f) ==
  [n \in 0..Cardinality(Processes) |->
     [p \in Processes \cup {NilPointer} |->
        IF p = NilPointer \/ n = 0 THEN <<>>
        ELSE <<p>> \o f[n - 1][slot[NextLink(p)]]]]

LEMMA LinksFrom ==
  ASSUME NEW slot \in [Slots -> Links]
  PROVE  linksFrom(slot) = Follows(slot, linksFrom(slot))
<1> DEFINE N == Cardinality(Processes)
           g(f, n) == [p \in Links |-> IF p = NilPointer \/ n = 0 THEN <<>>
                                       ELSE <<p>> \o f[n - 1][slot[NextLink(p)]]]
           S == {m \in Nat : \E f : f = [n \in 0..m |-> g(f, n)]}
<1>1. N \in Nat
  BY FS_CardinalityType, LinksConstantsOK
<1>2. 0 \in S
  <2> DEFINE f == [n \in 0..0 |-> [p \in Links |-> <<>>]]
  <2>1. f = [n \in 0..0 |-> g(f, n)]
    <3>1. \A n \in 0..0 : g(f, n) = [p \in Links |-> <<>>]
      OBVIOUS
    <3> HIDE DEF g
    <3> QED
      BY <3>1
  <2> QED
    BY <2>1
<1>3. ASSUME NEW m \in 0..N - 1, m \in S PROVE m + 1 \in S
  <2>1. PICK f : f = [n \in 0..m |-> g(f, n)]
    BY <1>3
  <2>2. DOMAIN f = 0..m /\ \A n \in 0..m : f[n] = g(f, n)
    <3> HIDE DEF g
    <3> QED
      BY <2>1
  <2> DEFINE h == [n \in 0..m + 1 |-> IF n = m + 1 THEN g(f, m + 1) ELSE f[n]]
  <2>3. \A n \in 0..m + 1 : g(h, n) = g(f, n)
    <3> SUFFICES ASSUME NEW n \in 0..m + 1 PROVE g(h, n) = g(f, n)
      OBVIOUS
    <3>1. CASE n = 0
      BY <3>1
    <3>2. CASE n # 0
      <4>1. n - 1 \in 0..m /\ n - 1 # m + 1 /\ n - 1 \in 0..m + 1
        BY <3>2, <1>1
      <4>2. h[n - 1] = f[n - 1]
        BY <4>1
      <4> HIDE DEF h
      <4> QED
        BY <4>2
    <3> QED
      BY <3>1, <3>2
  <2>4. \A n \in 0..m + 1 : h[n] = g(h, n)
    <3> SUFFICES ASSUME NEW n \in 0..m + 1 PROVE h[n] = g(h, n)
      OBVIOUS
    <3>1. n = m + 1 \/ n \in 0..m
      BY <1>1
    <3>2. h[n] = IF n = m + 1 THEN g(f, m + 1) ELSE f[n]
      BY Zenon
    <3> HIDE DEF h, g
    <3>3. n = m + 1 => h[n] = g(f, n)
      BY <3>2
    <3>4. n \in 0..m => h[n] = g(f, n)
      BY <2>2, <3>2, <1>1
    <3> QED
      BY <2>3, <3>1, <3>3, <3>4
  <2>5. h = [n \in 0..m + 1 |-> g(h, n)]
    <3>1. h = [n \in 0..m + 1 |-> h[n]]
      BY Zenon
    <3> HIDE DEF h, g
    <3> QED
      BY <2>4, <3>1
  <2>6. m + 1 \in Nat
    BY <1>1
  <2> HIDE DEF h, g
  <2> QED
    BY <2>5, <2>6
<1>4. N \in S
  <2> HIDE DEF S, N
  <2>1. 0..N \subseteq S
    BY <1>1, <1>2, <1>3, InductionTo
  <2> QED
    BY <1>1, <2>1
<1>5. PICK f : f = Follows(slot, f)
  BY <1>4, Zenon DEF Follows, Links
<1>6. linksFrom(slot) = CHOOSE h : h = Follows(slot, h)
  BY Zenon DEF linksFrom, Follows
<1> QED
  BY <1>5, <1>6, Zenon

(* What the links show is the sequence, whatever its length.                 *)
LEMMA ListOfIs ==
  ASSUME NEW slot \in [Slots -> Links], NEW lst \in [Lists -> Seq(Processes)],
         Distinct(lst), Chained(slot, lst), NEW l \in Lists
  PROVE  ListOf(slot, l) = lst[l]
<1> DEFINE N == Cardinality(Processes)
           q == lst[l]
           f == linksFrom(slot)
           start(k) == IF k = 0 THEN NilPointer ELSE q[Len(q) - k + 1]
           S == {k \in Nat : \A n \in k..N : f[n][start(k)] = SubSeq(q, Len(q) - k + 1, Len(q))}
<1>1. q \in Seq(Processes) /\ Len(q) \in Nat /\ q \in [1..Len(q) -> Processes]
  OBVIOUS
<1>2. N \in Nat /\ Len(q) <= N
  <2>1. q \in Injection(1..Len(q), Processes)
    <3>1. \A i, j \in 1..Len(q) : q[i] = q[j] => i = j
      BY DEF Distinct
    <3> QED
      BY <1>1, <3>1 DEF Injection, IsInjective
  <2>2. Cardinality(1..Len(q)) = Len(q)
    <3>1. Len(q) \in Int /\ 1 \in Int
      BY <1>1
    <3>2. Cardinality(1..Len(q)) = IF 1 > Len(q) THEN 0 ELSE Len(q) - 1 + 1
      BY <3>1, FS_Interval, Zenon
    <3> HIDE DEF q
    <3> QED
      BY <1>1, <3>2
  <2> QED
    BY <1>1, <2>1, <2>2, FS_Injection, FS_CardinalityType, LinksConstantsOK
<1>3. \A n \in 0..N, p \in Links :
        f[n][p] = IF p = NilPointer \/ n = 0 THEN <<>> ELSE <<p>> \o f[n - 1][slot[NextLink(p)]]
  <2>1. f = Follows(slot, f)
    BY LinksFrom
  <2> HIDE DEF f
  <2>2. TAKE n \in 0..N, p \in Links
  <2>3. f[n][p] = Follows(slot, f)[n][p]
    BY <2>1
  <2> QED
    BY <2>3 DEF Follows, Links
<1> HIDE DEF f
<1>4. 0 \in S
  <2>1. SubSeq(q, Len(q) + 1, Len(q)) = <<>>
    BY <1>1
  <2>2. \A n \in 0..N : f[n][NilPointer] = <<>>
    BY <1>3 DEF Links
  <2>3. start(0) = NilPointer /\ Len(q) - 0 + 1 = Len(q) + 1
    BY <1>1
  <2> HIDE DEF q, start
  <2> QED
    BY <2>1, <2>2, <2>3
<1>5. ASSUME NEW k \in 0..Len(q) - 1, k \in S PROVE k + 1 \in S
  <2> DEFINE i == Len(q) - k
             p == q[i]
  <2>1. i \in 1..Len(q) /\ k + 1 \in Nat /\ Len(q) - (k + 1) + 1 = i /\ Len(q) - k + 1 = i + 1
    BY <1>1
  <2>2. p \in Processes /\ p # NilPointer /\ p \in Links /\ start(k + 1) = p
    BY <1>1, <2>1, LinksConstantsOK DEF Links
  <2>3. slot[NextLink(p)] = start(k)
    <3>1. slot[NextLink(q[i])] = IF i < Len(q) THEN q[i + 1] ELSE NilPointer
      BY <2>1 DEF Chained
    <3> QED
      BY <1>1, <2>1, <3>1
  <2>4. ASSUME NEW n \in (k + 1)..N
        PROVE  f[n][p] = SubSeq(q, i, Len(q))
    <3>1. n \in 0..N /\ n # 0 /\ n - 1 \in k..N
      BY <1>1, <1>2, <2>1
    <3>2. f[n - 1][start(k)] = SubSeq(q, i + 1, Len(q))
      BY <1>5, <2>1, <3>1
    <3>3. f[n][p] = <<p>> \o f[n - 1][start(k)]
      BY <1>3, <2>2, <2>3, <3>1
    <3> HIDE DEF start
    <3>4. <<q[i]>> \o SubSeq(q, i + 1, Len(q)) = SubSeq(q, i, Len(q))
      BY <1>1, <2>1
    <3> QED
      BY <3>2, <3>3, <3>4
  <2> QED
    BY <2>1, <2>2, <2>4
<1>6. Len(q) \in S
  <2> HIDE DEF S, q
  <2>1. 0..Len(q) \subseteq S
    BY <1>1, <1>4, <1>5, InductionTo
  <2> QED
    BY <1>1, <2>1
<1>7. f[N][start(Len(q))] = SubSeq(q, 1, Len(q))
  <2>1. N \in Len(q)..N /\ Len(q) - Len(q) + 1 = 1
    BY <1>1, <1>2
  <2> QED
    BY <1>6, <2>1
<1>8. slot[FirstLink(l)] = start(Len(q))
  <2>1. CASE q = <<>>
    BY <2>1 DEF Chained
  <2>2. CASE q # <<>>
    <3>1. Len(q) # 0 /\ Len(q) - Len(q) + 1 = 1
      BY <1>1, <2>2
    <3>2. slot[FirstLink(l)] = q[1]
      BY <2>2 DEF Chained
    <3> QED
      BY <3>1, <3>2
  <2> QED
    BY <2>1, <2>2
<1>9. SubSeq(q, 1, Len(q)) = q
  BY <1>1
<1> QED
  BY <1>7, <1>8, <1>9 DEF ListOf, f

(* The names of slots differ. *)
LEMMA SlotNames ==
  /\ ActiveProcess \in Slots
  /\ \A l \in Lists : FirstLink(l) \in Slots /\ LastLink(l) \in Slots
  /\ \A p \in Processes : NextLink(p) \in Slots
  /\ \A x, y : /\ FirstLink(x) # LastLink(y) /\ FirstLink(x) # NextLink(y) /\ LastLink(x) # NextLink(y)
               /\ FirstLink(x) # ActiveProcess /\ LastLink(x) # ActiveProcess
               /\ NextLink(x) # ActiveProcess
               /\ FirstLink(x) = FirstLink(y) => x = y
               /\ LastLink(x) = LastLink(y) => x = y
               /\ NextLink(x) = NextLink(y) => x = y
<1>1. \A x, y : /\ FirstLink(x) # LastLink(y) /\ FirstLink(x) # NextLink(y) /\ LastLink(x) # NextLink(y)
                /\ FirstLink(x) # ActiveProcess /\ LastLink(x) # ActiveProcess
                /\ NextLink(x) # ActiveProcess
                /\ FirstLink(x) = FirstLink(y) => x = y
                /\ LastLink(x) = LastLink(y) => x = y
                /\ NextLink(x) = NextLink(y) => x = y
  BY DEF FirstLink, LastLink, NextLink, ActiveProcess
<1> QED
  BY <1>1 DEF Slots

Added(lst, p, l) == [k \in Lists |-> IF k = l THEN Append(lst[l], p) ELSE lst[k]]
Removed(lst, l) == [k \in Lists |-> IF k = l THEN Tail(lst[l]) ELSE lst[k]]

LEMMA AddedPlaces ==
  ASSUME NEW lst \in [Lists -> Seq(Processes)], NEW p \in Processes, NEW l \in Lists
  PROVE  /\ Added(lst, p, l) \in [Lists -> Seq(Processes)]
         /\ \A k \in Lists : k # l => Added(lst, p, l)[k] = lst[k]
         /\ Len(Added(lst, p, l)[l]) = Len(lst[l]) + 1
         /\ Added(lst, p, l)[l] # <<>>
         /\ \A i \in 1..Len(lst[l]) : Added(lst, p, l)[l][i] = lst[l][i]
         /\ Added(lst, p, l)[l][Len(lst[l]) + 1] = p
         /\ \A q : IsIn(Added(lst, p, l), q) <=> IsIn(lst, q) \/ q = p
<1> DEFINE new == Added(lst, p, l)
           n == Len(lst[l])
<1>1. n \in Nat /\ lst[l] \in Seq(Processes)
  OBVIOUS
<1>2. new[l] = Append(lst[l], p) /\ \A k \in Lists : k # l => new[k] = lst[k]
  BY DEF Added
<1>3. new \in [Lists -> Seq(Processes)]
  BY DEF Added
<1> HIDE DEF new
<1>4. /\ Len(new[l]) = n + 1 /\ new[l] # <<>>
      /\ \A i \in 1..n : new[l][i] = lst[l][i]
      /\ new[l][n + 1] = p
  BY <1>1, <1>2
<1>5. ASSUME NEW q, IsIn(new, q) PROVE IsIn(lst, q) \/ q = p
  <2>1. PICK k \in Lists : \E i \in 1..Len(new[k]) : new[k][i] = q
    BY <1>5 DEF IsIn
  <2>2. PICK i \in 1..Len(new[k]) : new[k][i] = q
    BY <2>1
  <2>3. CASE k # l
    BY <1>2, <2>2, <2>3 DEF IsIn
  <2>4. CASE k = l
    <3>1. i \in 1..n \/ i = n + 1
      BY <1>1, <1>4, <2>2, <2>4
    <3> QED
      BY <1>4, <2>2, <2>4, <3>1 DEF IsIn
  <2> QED
    BY <2>3, <2>4
<1>6. ASSUME NEW q, IsIn(lst, q) \/ q = p PROVE IsIn(new, q)
  <2>1. CASE q = p
    <3>1. n + 1 \in 1..Len(new[l])
      BY <1>1, <1>4
    <3> QED
      BY <1>4, <2>1, <3>1 DEF IsIn
  <2>2. CASE IsIn(lst, q)
    <3>1. PICK k \in Lists : \E i \in 1..Len(lst[k]) : lst[k][i] = q
      BY <2>2 DEF IsIn
    <3>2. PICK i \in 1..Len(lst[k]) : lst[k][i] = q
      BY <3>1
    <3>3. new[k][i] = q /\ i \in 1..Len(new[k])
      <4>1. CASE k = l
        BY <1>1, <1>4, <3>2, <4>1
      <4>2. CASE k # l
        BY <1>2, <3>2, <4>2
      <4> QED
        BY <4>1, <4>2
    <3>4. \E j \in 1..Len(new[k]) : new[k][j] = q
      BY <3>3
    <3>5. k \in Lists
      BY <3>1
    <3> QED
      BY <3>4, <3>5, Zenon DEF IsIn
  <2> QED
    BY <1>6, <2>1, <2>2
<1> QED
  BY <1>2, <1>3, <1>4, <1>5, <1>6 DEF new

LEMMA AddedDistinct ==
  ASSUME NEW lst \in [Lists -> Seq(Processes)], NEW p \in Processes, NEW l \in Lists,
         Distinct(lst), ~IsIn(lst, p)
  PROVE  Distinct(Added(lst, p, l))
<1> DEFINE new == Added(lst, p, l)
           n == Len(lst[l])
<1>1. n \in Nat /\ \A k \in Lists : Len(lst[k]) \in Nat
  OBVIOUS
<1>2. /\ \A k \in Lists : k # l => new[k] = lst[k]
      /\ Len(new[l]) = n + 1
      /\ \A i \in 1..n : new[l][i] = lst[l][i]
      /\ new[l][n + 1] = p
  BY AddedPlaces
<1> HIDE DEF new
<1>3. \A k \in Lists : \A i \in 1..Len(new[k]) :
        \/ i \in 1..Len(lst[k]) /\ new[k][i] = lst[k][i]
        \/ k = l /\ i = n + 1 /\ new[k][i] = p
  BY <1>1, <1>2
<1>4. \A k \in Lists : \A i \in 1..Len(lst[k]) : lst[k][i] # p
  BY DEF IsIn
<1> SUFFICES ASSUME NEW a \in Lists, NEW b \in Lists,
                    NEW i \in 1..Len(new[a]), NEW j \in 1..Len(new[b]), new[a][i] = new[b][j]
             PROVE  a = b /\ i = j
  BY DEF Distinct, new
<1>5. CASE i \in 1..Len(lst[a]) /\ new[a][i] = lst[a][i]
  <2>1. new[b][j] # p
    BY <1>4, <1>5
  <2>2. j \in 1..Len(lst[b]) /\ new[b][j] = lst[b][j]
    BY <1>3, <2>1
  <2>3. lst[a][i] = lst[b][j] /\ i \in 1..Len(lst[a])
    BY <1>5, <2>2
  <2> QED
    BY <2>2, <2>3, Zenon DEF Distinct
<1>6. CASE a = l /\ i = n + 1 /\ new[a][i] = p
  <2>1. b = l /\ j = n + 1
    BY <1>3, <1>4, <1>6
  <2> QED
    BY <1>6, <2>1
<1> QED
  BY <1>3, <1>5, <1>6

(* The links where p is linked behind the last link of l.                    *)
LinkedLast(slot, linked, lst, p, l) ==
  /\ linked[LastLink(l)] = p
  /\ linked[FirstLink(l)] = IF lst[l] = <<>> THEN p ELSE slot[FirstLink(l)]
  /\ \A k \in Lists : k # l => /\ linked[FirstLink(k)] = slot[FirstLink(k)]
                              /\ linked[LastLink(k)] = slot[LastLink(k)]
  /\ \A q \in Processes :
       linked[NextLink(q)] = IF lst[l] # <<>> /\ q = lst[l][Len(lst[l])] THEN p
                             ELSE slot[NextLink(q)]

(* The links where the first link of l is taken out.                         *)
UnlinkedFirst(slot, unlinked, lst, l) ==
  /\ unlinked[FirstLink(l)] = IF Len(lst[l]) = 1 THEN NilPointer ELSE lst[l][2]
  /\ unlinked[LastLink(l)] = IF Len(lst[l]) = 1 THEN NilPointer ELSE slot[LastLink(l)]
  /\ \A k \in Lists : k # l => /\ unlinked[FirstLink(k)] = slot[FirstLink(k)]
                              /\ unlinked[LastLink(k)] = slot[LastLink(k)]
  /\ \A q \in Processes :
       unlinked[NextLink(q)] = IF q = lst[l][1] THEN NilPointer ELSE slot[NextLink(q)]

(* It appends p to the sequence.                                             *)
LEMMA ChainAdd ==
  ASSUME NEW lst \in [Lists -> Seq(Processes)], NEW p \in Processes, NEW l \in Lists,
         NEW slot, NEW linked,
         Distinct(lst), ~IsIn(lst, p), Chained(slot, lst),
         LinkedLast(slot, linked, lst, p, l)
  PROVE  Chained(linked, Added(lst, p, l))
<1> DEFINE new == Added(lst, p, l)
           n == Len(lst[l])
<1>1. /\ n \in Nat /\ \A k \in Lists : Len(lst[k]) \in Nat
      /\ \A k \in Lists : \A i \in 1..Len(lst[k]) : lst[k][i] \in Processes
      /\ lst[l] = <<>> <=> n = 0
  OBVIOUS
<1>2. /\ \A k \in Lists : k # l => new[k] = lst[k]
      /\ Len(new[l]) = n + 1 /\ new[l] # <<>>
      /\ \A i \in 1..n : new[l][i] = lst[l][i]
      /\ new[l][n + 1] = p
      /\ \A q : IsIn(new, q) <=> IsIn(lst, q) \/ q = p
  <2>1. \A k \in Lists : k # l => new[k] = lst[k]
    BY AddedPlaces
  <2>2. Len(new[l]) = n + 1 /\ new[l] # <<>>
    BY AddedPlaces
  <2>3. \A i \in 1..n : new[l][i] = lst[l][i]
    BY AddedPlaces
  <2>4. new[l][n + 1] = p
    BY AddedPlaces
  <2>5. \A q : IsIn(new, q) <=> IsIn(lst, q) \/ q = p
    BY AddedPlaces, Zenon
  <2> QED
    BY <2>1, <2>2, <2>3, <2>4, <2>5, Zenon
<1> HIDE DEF new
<1>3. /\ \A k \in Lists : \A i \in 1..Len(lst[k]) : IsIn(lst, lst[k][i])
      /\ \A k \in Lists : \A i \in 1..Len(lst[k]) : lst[k][i] # p
  BY DEF IsIn
<1>4. n # 0 => n \in 1..n /\ lst[l][n] \in Processes /\ IsIn(lst, lst[l][n])
  BY <1>1, <1>3
<1>5. \A k \in Lists : new[k] = <<>> => linked[FirstLink(k)] = NilPointer /\ linked[LastLink(k)] = NilPointer
  BY <1>2 DEF Chained, LinkedLast
<1>6. ASSUME NEW k \in Lists, new[k] # <<>>
      PROVE  linked[FirstLink(k)] = new[k][1] /\ linked[LastLink(k)] = new[k][Len(new[k])]
  <2>1. CASE k # l
    BY <1>2, <1>6, <2>1 DEF Chained, LinkedLast
  <2>2. CASE k = l
    <3>1. CASE n = 0
      BY <1>1, <1>2, <2>2, <3>1 DEF LinkedLast
    <3>2. CASE n # 0
      <4>1. 1 \in 1..n
        BY <1>1, <3>2
      <4>2. slot[FirstLink(l)] = lst[l][1]
        BY <1>1, <3>2 DEF Chained
      <4> QED
        BY <1>1, <1>2, <2>2, <3>2, <4>1, <4>2 DEF LinkedLast
    <3> QED
      BY <3>1, <3>2
  <2> QED
    BY <2>1, <2>2
<1>7. ASSUME NEW k \in Lists, NEW i \in 1..Len(new[k])
      PROVE  linked[NextLink(new[k][i])] = IF i < Len(new[k]) THEN new[k][i + 1] ELSE NilPointer
  <2>1. CASE k # l
    <3>1. new[k] = lst[k]
      BY <1>2, <2>1
    <3>2. lst[k][i] \in Processes /\ i \in 1..Len(lst[k])
      BY <1>1, <3>1
    <3>3. n # 0 => lst[k][i] # lst[l][n]
      BY <1>4, <2>1, <3>2 DEF Distinct
    <3>4. linked[NextLink(lst[k][i])] = slot[NextLink(lst[k][i])]
      BY <1>1, <3>2, <3>3 DEF LinkedLast
    <3> QED
      BY <3>1, <3>2, <3>4 DEF Chained
  <2>2. CASE k = l /\ i = n + 1
    <3>1. new[k][i] = p /\ ~(i < Len(new[k]))
      BY <1>1, <1>2, <2>2
    <3>2. linked[NextLink(p)] = slot[NextLink(p)]
      BY <1>1, <1>3, <1>4 DEF LinkedLast
    <3>3. slot[NextLink(p)] = NilPointer
      BY DEF Chained
    <3> QED
      BY <3>1, <3>2, <3>3
  <2>3. CASE k = l /\ i # n + 1
    <3>1. i \in 1..n /\ i < Len(new[k]) /\ n # 0
      BY <1>1, <1>2, <2>3
    <3>2. new[k][i] = lst[l][i] /\ lst[l][i] \in Processes
      BY <1>1, <1>2, <2>3, <3>1
    <3>3. CASE i = n
      BY <1>1, <1>2, <2>3, <3>1, <3>2, <3>3 DEF LinkedLast
    <3>4. CASE i # n
      <4>1. lst[l][i] # lst[l][n]
        BY <1>4, <3>1, <3>4 DEF Distinct
      <4>2. linked[NextLink(lst[l][i])] = slot[NextLink(lst[l][i])]
        BY <1>1, <3>2, <4>1 DEF LinkedLast
      <4>3. i < n /\ i + 1 \in 1..n
        BY <1>1, <3>1, <3>4
      <4>4. slot[NextLink(lst[l][i])] = lst[l][i + 1]
        BY <3>1, <4>3 DEF Chained
      <4>5. new[l][i + 1] = lst[l][i + 1]
        BY <1>2, <4>3
      <4> QED
        BY <2>3, <3>1, <3>2, <4>2, <4>4, <4>5
    <3> QED
      BY <3>3, <3>4
  <2> QED
    BY <2>1, <2>2, <2>3
<1>8. ASSUME NEW q \in Processes, ~IsIn(new, q)
      PROVE  linked[NextLink(q)] = NilPointer
  <2>1. ~IsIn(lst, q)
    BY <1>2, <1>8
  <2>2. linked[NextLink(q)] = slot[NextLink(q)]
    BY <1>1, <1>4, <2>1 DEF LinkedLast
  <2> QED
    BY <2>1, <2>2 DEF Chained
<1> QED
  BY <1>5, <1>6, <1>7, <1>8, Zenon DEF Chained, new

LEMMA RemovedPlaces ==
  ASSUME NEW lst \in [Lists -> Seq(Processes)], NEW l \in Lists, lst[l] # <<>>, Distinct(lst)
  PROVE  /\ Removed(lst, l) \in [Lists -> Seq(Processes)]
         /\ \A k \in Lists : k # l => Removed(lst, l)[k] = lst[k]
         /\ Len(Removed(lst, l)[l]) = Len(lst[l]) - 1
         /\ \A i \in 1..(Len(lst[l]) - 1) : Removed(lst, l)[l][i] = lst[l][i + 1]
         /\ Distinct(Removed(lst, l))
         /\ \A q : IsIn(Removed(lst, l), q) <=> IsIn(lst, q) /\ q # lst[l][1]
<1> DEFINE new == Removed(lst, l)
           n == Len(lst[l])
           off(k) == IF k = l THEN 1 ELSE 0
<1>1. n \in Nat \ {0} /\ lst[l] \in Seq(Processes) /\ \A k \in Lists : Len(lst[k]) \in Nat
  OBVIOUS
<1>2. new[l] = Tail(lst[l]) /\ \A k \in Lists : k # l => new[k] = lst[k]
  BY DEF Removed
<1>3. new \in [Lists -> Seq(Processes)]
  BY DEF Removed
<1> HIDE DEF new
<1>4. Len(new[l]) = n - 1 /\ \A i \in 1..(n - 1) : new[l][i] = lst[l][i + 1]
  BY <1>1, <1>2
<1>5. ASSUME NEW k \in Lists, NEW i \in 1..Len(new[k])
      PROVE  i + off(k) \in 1..Len(lst[k]) /\ new[k][i] = lst[k][i + off(k)]
  <2>1. CASE k = l
    <3>1. i \in 1..(n - 1) /\ off(k) = 1
      BY <1>4, <2>1
    <3>2. i + 1 \in 1..n
      BY <1>1, <3>1
    <3> QED
      BY <1>4, <2>1, <3>1, <3>2
  <2>2. CASE k # l
    <3>1. new[k] = lst[k] /\ off(k) = 0 /\ i + 0 = i
      BY <1>2, <2>2
    <3> QED
      BY <3>1
  <2> QED
    BY <2>1, <2>2
<1>6. Distinct(new)
  <2> SUFFICES ASSUME NEW a \in Lists, NEW b \in Lists,
                      NEW i \in 1..Len(new[a]), NEW j \in 1..Len(new[b]), new[a][i] = new[b][j]
               PROVE  a = b /\ i = j
    BY DEF Distinct
  <2>1. lst[a][i + off(a)] = lst[b][j + off(b)]
    BY <1>5
  <2>2. a = b /\ i + off(a) = j + off(b)
    <3>1. i + off(a) \in 1..Len(lst[a]) /\ j + off(b) \in 1..Len(lst[b])
      BY <1>5
    <3> HIDE DEF off
    <3> QED
      BY <2>1, <3>1, DistinctPlaces
  <2>3. i \in Int /\ j \in Int
    BY <1>1
  <2> QED
    BY <2>2, <2>3
<1>7. ASSUME NEW q, IsIn(new, q) PROVE IsIn(lst, q) /\ q # lst[l][1]
  <2>1. PICK k \in Lists : \E i \in 1..Len(new[k]) : new[k][i] = q
    BY <1>7 DEF IsIn
  <2>2. PICK i \in 1..Len(new[k]) : new[k][i] = q
    BY <2>1
  <2>3. i + off(k) \in 1..Len(lst[k]) /\ lst[k][i + off(k)] = q
    BY <1>5, <2>2
  <2>4. 1 \in 1..Len(lst[l])
    BY <1>1
  <2>5. ~(k = l /\ i + off(k) = 1)
    BY <1>1
  <2>6. q # lst[l][1]
    BY <2>3, <2>4, <2>5, Zenon DEF Distinct
  <2> QED
    BY <2>3, <2>6, Zenon DEF IsIn
<1>8. ASSUME NEW q, IsIn(lst, q), q # lst[l][1] PROVE IsIn(new, q)
  <2>1. PICK k \in Lists : \E i \in 1..Len(lst[k]) : lst[k][i] = q
    BY <1>8 DEF IsIn
  <2>2. PICK i \in 1..Len(lst[k]) : lst[k][i] = q
    BY <2>1
  <2>3. CASE k # l
    BY <1>2, <2>2, <2>3, Zenon DEF IsIn
  <2>4. CASE k = l
    <3>1. i - 1 \in 1..(n - 1) /\ (i - 1) + 1 = i
      BY <1>1, <1>8, <2>2, <2>4
    <3>2. new[l][i - 1] = q /\ i - 1 \in 1..Len(new[l])
      BY <1>4, <2>2, <2>4, <3>1
    <3> QED
      BY <3>2, Zenon DEF IsIn
  <2> QED
    BY <2>3, <2>4
<1> QED
  BY <1>2, <1>3, <1>4, <1>6, <1>7, <1>8 DEF new

(* It takes the first process off the sequence.                              *)
LEMMA ChainRemove ==
  ASSUME NEW lst \in [Lists -> Seq(Processes)], NEW l \in Lists, NEW slot, NEW unlinked,
         lst[l] # <<>>, Distinct(lst), Chained(slot, lst),
         UnlinkedFirst(slot, unlinked, lst, l)
  PROVE  Chained(unlinked, Removed(lst, l))
<1> DEFINE new == Removed(lst, l)
           n == Len(lst[l])
<1>1. /\ n \in Nat \ {0} /\ \A k \in Lists : Len(lst[k]) \in Nat
      /\ \A k \in Lists : \A i \in 1..Len(lst[k]) : lst[k][i] \in Processes
      /\ 1 \in 1..n
  OBVIOUS
<1>2. /\ \A k \in Lists : k # l => new[k] = lst[k]
      /\ new \in [Lists -> Seq(Processes)]
      /\ Len(new[l]) = n - 1
      /\ \A i \in 1..(n - 1) : new[l][i] = lst[l][i + 1]
      /\ \A q : IsIn(new, q) <=> IsIn(lst, q) /\ q # lst[l][1]
  BY RemovedPlaces
<1> HIDE DEF new
<1>3. new[l] = <<>> <=> n = 1
  BY <1>1, <1>2
<1>5. \A k \in Lists : new[k] = <<>> => /\ unlinked[FirstLink(k)] = NilPointer
                                        /\ unlinked[LastLink(k)] = NilPointer
  BY <1>2, <1>3 DEF Chained, UnlinkedFirst
<1>6. ASSUME NEW k \in Lists, new[k] # <<>>
      PROVE  unlinked[FirstLink(k)] = new[k][1] /\ unlinked[LastLink(k)] = new[k][Len(new[k])]
  <2>1. CASE k # l
    BY <1>2, <1>6, <2>1 DEF Chained, UnlinkedFirst
  <2>2. CASE k = l
    <3>1. n # 1 /\ n - 1 \in 1..(n - 1) /\ 1 \in 1..(n - 1)
      <4>1. n # 1
        BY <1>3, <1>6, <2>2
      <4> HIDE DEF n
      <4> QED
        BY <1>1, <4>1
    <3>2. new[l][1] = lst[l][2] /\ new[l][n - 1] = lst[l][n]
      BY <1>1, <1>2, <3>1
    <3>3. slot[LastLink(l)] = lst[l][n]
      BY DEF Chained
    <3> QED
      BY <1>2, <2>2, <3>1, <3>2, <3>3 DEF UnlinkedFirst
  <2> QED
    BY <2>1, <2>2
<1>7. ASSUME NEW k \in Lists, NEW i \in 1..Len(new[k])
      PROVE  unlinked[NextLink(new[k][i])] = IF i < Len(new[k]) THEN new[k][i + 1] ELSE NilPointer
  <2>1. CASE k # l
    <3>1. new[k] = lst[k]
      BY <1>2, <2>1
    <3>2. lst[k][i] \in Processes /\ i \in 1..Len(lst[k])
      BY <1>1, <3>1
    <3>3. lst[k][i] # lst[l][1]
      BY <1>1, <2>1, <3>2, Zenon DEF Distinct
    <3>4. unlinked[NextLink(lst[k][i])] = slot[NextLink(lst[k][i])]
      BY <3>2, <3>3 DEF UnlinkedFirst
    <3> QED
      BY <3>1, <3>2, <3>4 DEF Chained
  <2>2. CASE k = l
    <3>1. i \in 1..(n - 1) /\ i + 1 \in 1..n /\ i + 1 # 1
      BY <1>1, <1>2, <2>2
    <3>2. new[k][i] = lst[l][i + 1] /\ lst[l][i + 1] \in Processes
      BY <1>1, <1>2, <2>2, <3>1
    <3>3. lst[l][i + 1] # lst[l][1]
      BY <1>1, <3>1, DistinctPlaces
    <3>4. unlinked[NextLink(new[k][i])] = slot[NextLink(lst[l][i + 1])]
      BY <3>2, <3>3 DEF UnlinkedFirst
    <3>5. slot[NextLink(lst[l][i + 1])] = IF i + 1 < n THEN lst[l][(i + 1) + 1] ELSE NilPointer
      BY <3>1, Zenon DEF Chained
    <3>6. CASE i < n - 1
      <4>1. i + 1 < n /\ i + 1 \in 1..(n - 1)
        BY <1>1, <3>1, <3>6
      <4>2. new[l][i + 1] = lst[l][(i + 1) + 1]
        BY <1>2, <4>1
      <4> QED
        BY <1>2, <2>2, <3>4, <3>5, <3>6, <4>1, <4>2
    <3>7. CASE ~(i < n - 1)
      <4>1. ~(i + 1 < n)
        BY <1>1, <3>1, <3>7
      <4> QED
        BY <1>2, <2>2, <3>4, <3>5, <3>7, <4>1
    <3> QED
      BY <3>6, <3>7
  <2> QED
    BY <2>1, <2>2
<1>8. ASSUME NEW q \in Processes, ~IsIn(new, q)
      PROVE  unlinked[NextLink(q)] = NilPointer
  <2>1. CASE q = lst[l][1]
    BY <2>1 DEF UnlinkedFirst
  <2>2. CASE q # lst[l][1]
    BY <1>2, <1>8, <2>2 DEF Chained, UnlinkedFirst
  <2> QED
    BY <2>1, <2>2
<1> QED
  BY <1>5, <1>6, <1>7, <1>8, Zenon DEF Chained, new

----------------------------------------------------------------------------
(* The operations on lists. *)

(* The memory m stands for the sequences lst, and its counts are exact.      *)
Represents(m, lst, extra) ==
  /\ Counted(m, extra)
  /\ lst \in [Lists -> Seq(Processes)]
  /\ Distinct(lst)
  /\ Chained(m.slot, lst)

LEMMA Empty ==
  ASSUME NEW m, NEW lst, NEW extra, Represents(m, lst, extra), NEW l \in Lists
  PROVE  isEmptyList(m, l) <=> lst[l] = <<>>
<1>1. lst[l] # <<>> => lst[l][1] \in Processes
  BY DEF Represents
<1> QED
  BY <1>1, LinksConstantsOK DEF Represents, Chained, isEmptyList

(* A process in a sequence is one that a link refers to.                     *)
LEMMA LinkTo ==
  ASSUME NEW m, NEW lst, NEW extra, Represents(m, lst, extra), NEW l \in Lists,
         NEW i \in 1..Len(lst[l])
  PROVE  IF i = 1 THEN m.slot[FirstLink(l)] = lst[l][i]
         ELSE m.slot[NextLink(lst[l][i - 1])] = lst[l][i]
<1>1. Len(lst[l]) \in Nat /\ i \in Nat
  BY DEF Represents
<1>2. CASE i = 1
  BY <1>1, <1>2 DEF Represents, Chained
<1>3. CASE i # 1
  <2>1. i - 1 \in 1..Len(lst[l]) /\ i - 1 < Len(lst[l]) /\ (i - 1) + 1 = i
    BY <1>1, <1>3
  <2>2. m.slot[NextLink(lst[l][i - 1])] = lst[l][(i - 1) + 1]
    BY <2>1, Zenon DEF Represents, Chained
  <2> QED
    BY <1>3, <2>1, <2>2
<1> QED
  BY <1>2, <1>3

LEMMA AddLast ==
  ASSUME NEW m, NEW lst, NEW extra, Represents(m, lst, extra), NEW l \in Lists,
         NEW p \in Processes, ~IsIn(lst, p), m.count[p] > 0
  PROVE  /\ Represents(addLastLink_toList(m, p, l), Added(lst, p, l), extra)
         /\ addLastLink_toList(m, p, l).slot[ActiveProcess] = m.slot[ActiveProcess]
<1> DEFINE n == Len(lst[l])
           q == lst[l][n]
           into == IF isEmptyList(m, l) THEN FirstLink(l) ELSE NextLink(m.slot[LastLink(l)])
           linked == storePointer(m, into, p)
           r == addLastLink_toList(m, p, l)
<1>1. /\ Counted(m, extra) /\ lst \in [Lists -> Seq(Processes)] /\ Distinct(lst)
      /\ Chained(m.slot, lst) /\ n \in Nat
      /\ m.slot \in [Slots -> Links] /\ extra \in [Processes -> Nat]
      /\ p \in Links /\ p # NilPointer
  BY LinksConstantsOK DEF Represents, Counted, Memories, Links
<1>2. lst[l] # <<>> => /\ n \in 1..n /\ q \in Processes /\ m.slot[LastLink(l)] = q
                       /\ m.slot[NextLink(q)] = NilPointer
  <2> SUFFICES ASSUME lst[l] # <<>>
               PROVE  /\ n \in 1..n /\ q \in Processes /\ m.slot[LastLink(l)] = q
                      /\ m.slot[NextLink(q)] = NilPointer
    OBVIOUS
  <2>1. n \in 1..n /\ q \in Processes
    BY <1>1
  <2>2. m.slot[LastLink(l)] = q
    BY <1>1 DEF Chained
  <2>3. m.slot[NextLink(lst[l][n])] = IF n < n THEN lst[l][n + 1] ELSE NilPointer
    BY <1>1, <2>1, Zenon DEF Chained
  <2> QED
    BY <1>1, <2>1, <2>2, <2>3
<1>3. into = IF lst[l] = <<>> THEN FirstLink(l) ELSE NextLink(q)
  BY <1>2, Empty
<1>4. into \in Slots /\ into # LastLink(l) /\ into # ActiveProcess /\ m.slot[into] = NilPointer
  BY <1>1, <1>2, <1>3, SlotNames DEF Chained
<1>5. r = storePointer(linked, LastLink(l), p)
  BY DEF addLastLink_toList
<1> HIDE DEF into, r
<1>6. Counted(linked, extra) /\ linked.slot = [m.slot EXCEPT ![into] = p]
  BY <1>1, <1>4, Store
<1> HIDE DEF linked
<1>7. linked.slot[into] = p /\ linked.slot[LastLink(l)] = m.slot[LastLink(l)] /\ linked.count[p] > 0
  <2>1. linked.slot[into] = p /\ linked.slot[LastLink(l)] = m.slot[LastLink(l)]
    BY <1>1, <1>4, <1>6, SlotNames
  <2>2. linked.count[p] >= 1 + extra[p]
    BY <1>4, <1>6, <2>1, Referenced
  <2>3. linked.count[p] \in Nat /\ extra[p] \in Nat
    BY <1>1, <1>6 DEF Counted, Memories
  <2> QED
    BY <2>1, <2>2, <2>3
<1>8. linked.slot[LastLink(l)] # NilPointer => Unlinked(linked, linked.slot[LastLink(l)])
  <2>1. CASE lst[l] = <<>>
    BY <1>1, <1>7, <2>1 DEF Chained
  <2>2. CASE lst[l] # <<>>
    <3> DEFINE s == IF n = 1 THEN FirstLink(l) ELSE NextLink(lst[l][n - 1])
    <3>1. linked.slot[LastLink(l)] = q /\ q \in Processes
      BY <1>2, <1>7, <2>2
    <3>2. m.slot[s] = q
      <4>1. n \in 1..Len(lst[l])
        BY <1>2, <2>2
      <4>2. IF n = 1 THEN m.slot[FirstLink(l)] = lst[l][n]
            ELSE m.slot[NextLink(lst[l][n - 1])] = lst[l][n]
        <5> HIDE DEF n, q, s
        <5> QED
          BY <4>1, LinkTo
      <4> QED
        BY <4>2
    <3>3. s \in Slots /\ s # LastLink(l) /\ s # into
      <4>1. CASE n = 1
        BY <1>3, <2>2, <4>1, SlotNames
      <4>2. CASE n # 1
        <5>1. n - 1 \in 1..n /\ n - 1 # n
          <6>1. n \in 1..n /\ n \in Nat
            BY <1>1, <1>2, <2>2
          <6> HIDE DEF n
          <6> QED
            BY <4>2, <6>1
        <5>2. lst[l][n - 1] # q /\ lst[l][n - 1] \in Processes
          BY <1>1, <1>2, <2>2, <5>1, DistinctPlaces
        <5> QED
          BY <1>3, <2>2, <4>2, <5>2, SlotNames
      <4> QED
        BY <4>1, <4>2
    <3> HIDE DEF s
    <3>4. linked.slot[s] = q
      BY <1>1, <1>6, <3>2, <3>3
    <3>5. linked.count[q] >= 2 + extra[q]
      BY <1>6, <3>1, <3>3, <3>4, Referenced, SlotNames
    <3>6. linked.count[q] \in Nat /\ extra[q] \in Nat
      BY <1>1, <1>6, <3>1 DEF Counted, Memories
    <3> QED
      BY <3>1, <3>5, <3>6 DEF Unlinked
  <2> QED
    BY <2>1, <2>2
<1>9. Counted(r, extra) /\ r.slot = [linked.slot EXCEPT ![LastLink(l)] = p]
  <2>1. LastLink(l) \in Slots
    BY SlotNames
  <2>2. Counted(storePointer(linked, LastLink(l), p), extra)
        /\ storePointer(linked, LastLink(l), p).slot = [linked.slot EXCEPT ![LastLink(l)] = p]
    <3>1. p \in Links /\ (p # NilPointer => linked.count[p] > 0) /\ Counted(linked, extra)
      BY <1>1, <1>6, <1>7
    <3> HIDE DEF n, q
    <3> QED
      BY <1>8, <2>1, <3>1, Store
  <2> QED
    BY <1>5, <2>2
<1>10. \A t \in Slots : r.slot[t] = IF t = into \/ t = LastLink(l) THEN p ELSE m.slot[t]
  BY <1>1, <1>6, <1>9
<1>11. LinkedLast(m.slot, r.slot, lst, p, l)
  <2>1. r.slot[LastLink(l)] = p
    BY <1>10, SlotNames
  <2>2. r.slot[FirstLink(l)] = IF lst[l] = <<>> THEN p ELSE m.slot[FirstLink(l)]
    BY <1>3, <1>10, SlotNames
  <2>3. \A k \in Lists : k # l => /\ r.slot[FirstLink(k)] = m.slot[FirstLink(k)]
                                  /\ r.slot[LastLink(k)] = m.slot[LastLink(k)]
    BY <1>3, <1>10, SlotNames
  <2>4. \A x \in Processes :
          r.slot[NextLink(x)] = IF lst[l] # <<>> /\ x = lst[l][Len(lst[l])] THEN p
                                ELSE m.slot[NextLink(x)]
    BY <1>3, <1>10, SlotNames
  <2> QED
    BY <2>1, <2>2, <2>3, <2>4 DEF LinkedLast
<1>12. Chained(r.slot, Added(lst, p, l))
  BY <1>1, <1>11, ChainAdd
<1>13. Added(lst, p, l) \in [Lists -> Seq(Processes)] /\ Distinct(Added(lst, p, l))
  BY <1>1, AddedPlaces, AddedDistinct
<1>14. r.slot[ActiveProcess] = m.slot[ActiveProcess]
  BY <1>4, <1>10, SlotNames
<1> QED
  BY <1>9, <1>12, <1>13, <1>14 DEF Represents, r

LEMMA RemoveFirst ==
  ASSUME NEW m, NEW lst, NEW extra, Represents(m, lst, extra), NEW l \in Lists,
         lst[l] # <<>>
  PROVE  /\ m.slot[FirstLink(l)] = lst[l][1] /\ lst[l][1] \in Processes
         /\ Represents(removeFirstLinkOfList(m, l), Removed(lst, l), Plus(extra, lst[l][1]))
         /\ removeFirstLinkOfList(m, l).slot[ActiveProcess] = m.slot[ActiveProcess]
<1> DEFINE n == Len(lst[l])
           p == lst[l][1]
           more == Plus(extra, p)
           a == countUp(m, p)
           single == storePointer(storePointer(a, FirstLink(l), NilPointer), LastLink(l), NilPointer)
           several == storePointer(a, FirstLink(l), m.slot[NextLink(p)])
           u == IF n = 1 THEN single ELSE several
           r == removeFirstLinkOfList(m, l)
<1>1. /\ Counted(m, extra) /\ lst \in [Lists -> Seq(Processes)] /\ Distinct(lst)
      /\ Chained(m.slot, lst) /\ n \in Nat \ {0}
      /\ m.slot \in [Slots -> Links] /\ extra \in [Processes -> Nat] /\ m.count \in [Processes -> Nat]
      /\ NilPointer \in Links /\ Processes \subseteq Links /\ NilPointer \notin Processes
  BY LinksConstantsOK DEF Represents, Counted, Memories, Links
<1>2. /\ p \in Processes /\ 1 \in 1..n /\ n \in 1..n
      /\ m.slot[FirstLink(l)] = p /\ m.slot[LastLink(l)] = lst[l][n]
  <2>1. p \in Processes /\ 1 \in 1..n /\ n \in 1..n
    BY <1>1
  <2>2. m.slot[FirstLink(l)] = p /\ m.slot[LastLink(l)] = lst[l][n]
    BY <1>1, Zenon DEF Chained
  <2> QED
    BY <2>1, <2>2
<1>3. m.slot[LastLink(l)] = p <=> n = 1
  BY <1>1, <1>2, DistinctPlaces
<1>4. m.slot[NextLink(p)] = IF n = 1 THEN NilPointer ELSE lst[l][2]
  <2>1. m.slot[NextLink(lst[l][1])] = IF 1 < n THEN lst[l][1 + 1] ELSE NilPointer
    BY <1>1, <1>2, Zenon DEF Chained
  <2>2. n \in Nat \ {0}
    BY <1>1
  <2>3. 1 < n <=> n # 1
    <3> HIDE DEF n
    <3> QED
      BY <2>2
  <2> QED
    BY <2>1, <2>3
<1>5. n # 1 => lst[l][2] \in Processes /\ lst[l][2] # p
  <2>1. n # 1 => 2 \in 1..n
    <3>1. n \in Nat \ {0}
      BY <1>1
    <3> HIDE DEF n
    <3> QED
      BY <3>1
  <2> QED
    BY <1>1, <1>2, <2>1, DistinctPlaces
<1>6. Counted(a, more) /\ a.slot = m.slot /\ more[p] >= 1 /\ more[p] \in Nat
      /\ more \in [Processes -> Nat]
  <2>1. m.count[p] >= 1 + extra[p]
    BY <1>1, <1>2, Referenced, SlotNames
  <2>2. m.count[p] > 0
    BY <1>1, <1>2, <2>1
  <2>3. Counted(countUp(m, p), Plus(extra, p)) /\ countUp(m, p).slot = m.slot
    BY <1>1, <1>2, <2>2, CountUp
  <2> QED
    BY <1>1, <1>2, <2>3 DEF Plus
<1>7. r = storePointer(u, NextLink(p), NilPointer)
  BY <1>2, <1>3, <1>6 DEF removeFirstLinkOfList
<1> HIDE DEF r, more, a
<1>8. ASSUME NEW b, Counted(b, more), NEW s \in Slots, b.slot[s] = p
      PROVE  Unlinked(b, b.slot[s])
  <2>1. b.count[p] >= 1 + more[p]
    BY <1>2, <1>8, Referenced
  <2>2. b.count[p] \in Nat
    BY <1>2, <1>8 DEF Counted, Memories
  <2> QED
    BY <1>6, <1>8, <2>1, <2>2 DEF Unlinked
<1>9. /\ Counted(u, more)
      /\ \A t \in Slots : u.slot[t] =
           IF t = FirstLink(l) THEN m.slot[NextLink(p)]
           ELSE IF t = LastLink(l) /\ n = 1 THEN NilPointer ELSE m.slot[t]
      /\ u.slot \in [Slots -> Links]
  <2>1. CASE n = 1
    <3> DEFINE b == storePointer(a, FirstLink(l), NilPointer)
    <3>1. Counted(b, more) /\ b.slot = [m.slot EXCEPT ![FirstLink(l)] = NilPointer]
      <4>1. FirstLink(l) \in Slots /\ a.slot[FirstLink(l)] = p
        BY <1>2, <1>6, SlotNames
      <4>2. Unlinked(a, a.slot[FirstLink(l)])
        BY <1>6, <1>8, <4>1
      <4>3. Counted(b, more) /\ b.slot = [a.slot EXCEPT ![FirstLink(l)] = NilPointer]
        BY <1>1, <1>6, <4>1, <4>2, Store
      <4> QED
        BY <1>6, <4>3
    <3> HIDE DEF b
    <3>2. b.slot[LastLink(l)] = p
      BY <1>1, <1>2, <1>3, <2>1, <3>1, SlotNames
    <3>3. u = storePointer(b, LastLink(l), NilPointer)
      BY <2>1 DEF b
    <3> HIDE DEF u
    <3>4. Counted(u, more) /\ u.slot = [b.slot EXCEPT ![LastLink(l)] = NilPointer]
      <4>1. LastLink(l) \in Slots
        BY SlotNames
      <4>2. Unlinked(b, b.slot[LastLink(l)])
        BY <1>8, <3>1, <3>2, <4>1
      <4> QED
        <5> HIDE DEF n, p
        <5>1. NilPointer \in Links /\ ~(NilPointer # NilPointer)
          BY <1>1
        <5>2. b.slot[LastLink(l)] # NilPointer => Unlinked(b, b.slot[LastLink(l)])
          BY <4>2
        <5>3. Counted(b, more)
          BY <3>1
        <5>4. Counted(storePointer(b, LastLink(l), NilPointer), more)
          BY <4>1, <5>1, <5>2, <5>3, Store
        <5>5. storePointer(b, LastLink(l), NilPointer).slot = [b.slot EXCEPT ![LastLink(l)] = NilPointer]
          BY <4>1, <5>1, <5>2, <5>3, Store
        <5> QED
          BY <3>3, <5>4, <5>5
    <3>5. \A t \in Slots : u.slot[t] = IF t = FirstLink(l) \/ t = LastLink(l) THEN NilPointer
                                       ELSE m.slot[t]
      BY <1>1, <3>1, <3>4
    <3> QED
      BY <1>4, <2>1, <3>4, <3>5 DEF Counted, Memories
  <2>2. CASE n # 1
    <3>1. u = storePointer(a, FirstLink(l), lst[l][2])
      BY <1>4, <2>2
    <3> HIDE DEF u
    <3>2. a.count[lst[l][2]] > 0
      <4>1. a.slot[NextLink(p)] = lst[l][2] /\ NextLink(p) \in Slots
        BY <1>2, <1>4, <1>6, <2>2, SlotNames
      <4>2. a.count[lst[l][2]] >= 1 + more[lst[l][2]]
        BY <1>5, <1>6, <2>2, <4>1, Referenced
      <4>3. a.count[lst[l][2]] \in Nat /\ more[lst[l][2]] \in Nat
        BY <1>5, <1>6, <2>2 DEF Counted, Memories
      <4> QED
        BY <4>2, <4>3
    <3>3. Counted(u, more) /\ u.slot = [m.slot EXCEPT ![FirstLink(l)] = lst[l][2]]
      <4>1. FirstLink(l) \in Slots /\ a.slot[FirstLink(l)] = p
        BY <1>2, <1>6, SlotNames
      <4>2. Unlinked(a, a.slot[FirstLink(l)])
        BY <1>6, <1>8, <4>1
      <4>3. lst[l][2] \in Links
        BY <1>1, <1>5, <2>2
      <4>4. Counted(u, more) /\ u.slot = [a.slot EXCEPT ![FirstLink(l)] = lst[l][2]]
        BY <1>6, <3>1, <3>2, <4>1, <4>2, <4>3, Store
      <4> QED
        BY <1>6, <4>4
    <3> QED
      BY <1>1, <1>4, <2>2, <3>3 DEF Counted, Memories
  <2> QED
    BY <2>1, <2>2
<1> HIDE DEF u
<1>10. NextLink(p) \in Slots /\ u.slot[NextLink(p)] = m.slot[NextLink(p)]
       /\ u.slot[FirstLink(l)] = m.slot[NextLink(p)]
  BY <1>2, <1>9, SlotNames
<1>11. u.slot[NextLink(p)] # NilPointer => Unlinked(u, u.slot[NextLink(p)])
  <2> SUFFICES ASSUME u.slot[NextLink(p)] # NilPointer
               PROVE  Unlinked(u, u.slot[NextLink(p)])
    OBVIOUS
  <2> DEFINE q == lst[l][2]
  <2>1. u.slot[NextLink(p)] = q /\ u.slot[FirstLink(l)] = q /\ q \in Processes
    BY <1>4, <1>5, <1>10
  <2>2. u.count[q] >= 2 + more[q]
    <3>1. FirstLink(l) \in Slots /\ FirstLink(l) # NextLink(p)
      BY SlotNames
    <3>2. u.slot[NextLink(p)] = q /\ u.slot[FirstLink(l)] = q /\ NextLink(p) \in Slots
      BY <1>10, <2>1
    <3> HIDE DEF q
    <3> QED
      BY <1>9, <2>1, <3>1, <3>2, Referenced
  <2>3. u.count[q] \in Nat /\ more[q] \in Nat
    BY <1>6, <1>9, <2>1 DEF Counted, Memories
  <2> QED
    BY <2>1, <2>2, <2>3 DEF Unlinked
<1>12. Counted(r, more) /\ r.slot = [u.slot EXCEPT ![NextLink(p)] = NilPointer]
  BY <1>1, <1>7, <1>9, <1>10, <1>11, Store
<1>13. \A t \in Slots : r.slot[t] =
         IF t = NextLink(p) THEN NilPointer
         ELSE IF t = FirstLink(l) THEN m.slot[NextLink(p)]
         ELSE IF t = LastLink(l) /\ n = 1 THEN NilPointer ELSE m.slot[t]
  BY <1>9, <1>12
<1>14. UnlinkedFirst(m.slot, r.slot, lst, l)
  <2>1. r.slot[FirstLink(l)] = IF Len(lst[l]) = 1 THEN NilPointer ELSE lst[l][2]
    <3>1. FirstLink(l) \in Slots /\ FirstLink(l) # NextLink(p)
      BY SlotNames
    <3>2. r.slot[FirstLink(l)] = m.slot[NextLink(p)]
      BY <1>13, <3>1
    <3> QED
      BY <1>4, <3>2, Zenon
  <2>2. r.slot[LastLink(l)] = IF Len(lst[l]) = 1 THEN NilPointer ELSE m.slot[LastLink(l)]
    BY <1>13, SlotNames
  <2>3. \A k \in Lists : k # l => /\ r.slot[FirstLink(k)] = m.slot[FirstLink(k)]
                                  /\ r.slot[LastLink(k)] = m.slot[LastLink(k)]
    BY <1>13, SlotNames
  <2>4. \A x \in Processes :
          r.slot[NextLink(x)] = IF x = lst[l][1] THEN NilPointer ELSE m.slot[NextLink(x)]
    BY <1>13, SlotNames
  <2> QED
    BY <2>1, <2>2, <2>3, <2>4 DEF UnlinkedFirst
<1>15. Chained(r.slot, Removed(lst, l))
  BY <1>1, <1>14, ChainRemove
<1>16. Removed(lst, l) \in [Lists -> Seq(Processes)] /\ Distinct(Removed(lst, l))
  BY <1>1, RemovedPlaces
<1>17. r.slot[ActiveProcess] = m.slot[ActiveProcess]
  BY <1>13, SlotNames
<1> QED
  BY <1>2, <1>12, <1>15, <1>16, <1>17 DEF Represents, r, more

----------------------------------------------------------------------------
(* The refinement of Scheduler.                                              *)

lists == [l \in Lists |-> ListOf(mem.slot, l)]

(* The theorems about Scheduler, for the sequences that the links show.      *)
P == INSTANCE SchedulerProofs WITH list <- lists, scheduled <- mem.slot[ActiveProcess]

(* The references that no slot holds: those of the image and of newProcess.  *)
Extra(hold, new) ==
  [p \in Processes |-> (IF p \in hold THEN 1 ELSE 0) + (IF new = p THEN 1 ELSE 0)]

(* The inductive invariant.  That of Scheduler is a part of it: a process is *)
(* linked where it is in no list only if it is in no list, and a process     *)
(* that loses its last reference must have no link that it gives up.         *)
Inv ==
  /\ Represents(mem, lists, Extra(held, newProcess))
  /\ held \subseteq Processes
  /\ P!IInv

LEMMA SchedulerConstants == P!ConstantsOK
BY LinksConstantsOK DEF P!ConstantsOK, P!Priorities

LEMMA SameConstants == P!Lists = Lists /\ P!Priorities = Priorities /\ P!Contexts = Contexts
BY DEF P!Lists, P!Priorities, P!Contexts, Lists, Priorities, Contexts

LEMMA StepKeeps == P!IInv /\ [P!Next]_P!vars => P!IInv'
BY P!NextInv, SchedulerConstants, Zenon

LEMMA PriorityLists ==
  /\ \A p \in Processes : Priority[p] \in Priorities /\ Priority[p] \in Lists
  /\ \A pri \in Priorities : pri \in Lists
  /\ \A s \in Semaphores : s \in Lists
BY LinksConstantsOK DEF Lists, Priorities

----------------------------------------------------------------------------
(* References that a memory may gain or lose while it stands for lst.        *)

LEMMA ListsAre ==
  ASSUME NEW m, NEW lst, NEW extra, Represents(m, lst, extra)
  PROVE  [l \in Lists |-> ListOf(m.slot, l)] = lst
<1>1. m.slot \in [Slots -> Links] /\ lst \in [Lists -> Seq(Processes)]
      /\ Distinct(lst) /\ Chained(m.slot, lst)
  BY DEF Represents, Counted, Memories
<1>2. \A l \in Lists : ListOf(m.slot, l) = lst[l]
  BY <1>1, ListOfIs
<1> QED
  BY <1>1, <1>2

LEMMA Extras ==
  ASSUME NEW extra \in [Processes -> Nat], NEW p \in Links
  PROVE  /\ Plus(extra, p) \in [Processes -> Nat]
         /\ \A q \in Processes : Plus(extra, p)[q] = extra[q] + (IF q = p THEN 1 ELSE 0)
         /\ (p # NilPointer => extra[p] > 0) => Minus(extra, p) \in [Processes -> Nat]
         /\ \A q \in Processes : Minus(extra, p)[q] = extra[q] - (IF q = p THEN 1 ELSE 0)
<1>1. CASE p = NilPointer
  <2>1. p \notin Processes
    BY <1>1, LinksConstantsOK
  <2>2. Plus(extra, p) = extra /\ Minus(extra, p) = extra
    BY <2>1 DEF Plus, Minus
  <2> QED
    BY <2>1, <2>2
<1>2. CASE p \in Processes
  <2>1. p # NilPointer /\ extra[p] \in Nat
    BY <1>2, LinksConstantsOK
  <2>2. Plus(extra, p) = [q \in Processes |-> IF q = p THEN extra[q] + 1 ELSE extra[q]]
    BY <1>2 DEF Plus
  <2>3. Minus(extra, p) = [q \in Processes |-> IF q = p THEN extra[q] - 1 ELSE extra[q]]
    BY <1>2 DEF Minus
  <2>4. extra[p] > 0 => Minus(extra, p) \in [Processes -> Nat]
    BY <1>2, <2>1, <2>3
  <2> QED
    BY <1>2, <2>1, <2>2, <2>3, <2>4
<1> QED
  BY <1>1, <1>2 DEF Links

LEMMA Alive ==
  ASSUME NEW m, NEW lst, NEW extra, Represents(m, lst, extra), NEW p \in Processes
  PROVE  /\ extra[p] > 0 => m.count[p] > 0
         /\ \A s \in Slots : m.slot[s] = p => m.count[p] > 0
<1>1. Counted(m, extra) /\ extra[p] \in Nat /\ m.count[p] \in Nat
  BY DEF Represents, Counted, Memories
<1>2. ASSUME extra[p] > 0 PROVE m.count[p] > 0
  <2>1. m.count[p] = Cardinality(SlotsOf(m.slot, p)) + extra[p]
    BY <1>1 DEF Counted
  <2>2. Cardinality(SlotsOf(m.slot, p)) \in Nat
    BY SlotsOfFinite
  <2> QED
    BY <1>1, <1>2, <2>1, <2>2
<1>3. ASSUME NEW s \in Slots, m.slot[s] = p PROVE m.count[p] > 0
  <2>1. m.count[p] >= 1 + extra[p]
    BY <1>1, <1>3, Referenced
  <2> QED
    BY <1>1, <2>1
<1> QED
  BY <1>2, <1>3

(* A process with another reference than that of its place in a list does    *)
(* not give up its link when it loses one.                                   *)
LEMMA NoCascade ==
  ASSUME NEW m, NEW lst, NEW extra, Represents(m, lst, extra), NEW p \in Processes,
         extra[p] > 0 \/ m.slot[ActiveProcess] = p
  PROVE  Unlinked(m, p)
<1>1. /\ Counted(m, extra) /\ extra[p] \in Nat /\ m.count[p] \in Nat
      /\ lst \in [Lists -> Seq(Processes)] /\ Chained(m.slot, lst)
  BY DEF Represents, Counted, Memories
<1>2. CASE ~IsIn(lst, p)
  BY <1>1, <1>2 DEF Chained, Unlinked
<1>3. CASE IsIn(lst, p)
  <2>0. PICK l \in Lists : \E i \in 1..Len(lst[l]) : lst[l][i] = p
    BY <1>3 DEF IsIn
  <2>1. PICK i \in 1..Len(lst[l]) : lst[l][i] = p
    BY <2>0
  <2> DEFINE s == IF i = 1 THEN FirstLink(l) ELSE NextLink(lst[l][i - 1])
  <2>2. m.slot[s] = p
    BY <2>1, LinkTo
  <2>3. s \in Slots /\ s # ActiveProcess
    <3>1. CASE i = 1
      BY <3>1, SlotNames
    <3>2. CASE i # 1
      <4>1. Len(lst[l]) \in Nat /\ lst[l] \in Seq(Processes)
        BY <1>1
      <4>2. i - 1 \in 1..Len(lst[l])
        BY <3>2, <4>1
      <4>3. lst[l][i - 1] \in Processes
        BY <4>1, <4>2
      <4> QED
        BY <3>2, <4>3, SlotNames
    <3> QED
      BY <3>1, <3>2
  <2> HIDE DEF s
  <2>4. m.count[p] >= 1 + extra[p]
    BY <1>1, <2>2, <2>3, Referenced
  <2>5. m.slot[ActiveProcess] = p => m.count[p] >= 2 + extra[p]
    BY <1>1, <2>2, <2>3, Referenced, SlotNames
  <2> QED
    BY <1>1, <2>4, <2>5 DEF Unlinked
<1> QED
  BY <1>2, <1>3

LEMMA Retain ==
  ASSUME NEW m, NEW lst, NEW extra, Represents(m, lst, extra), NEW p \in Processes,
         m.count[p] > 0
  PROVE  Represents(countUp(m, p), lst, Plus(extra, p)) /\ countUp(m, p).slot = m.slot
BY CountUp DEF Represents

LEMMA Release ==
  ASSUME NEW m, NEW lst, NEW extra, Represents(m, lst, extra), NEW p \in Links,
         p # NilPointer => extra[p] > 0
  PROVE  Represents(countDown(m, p), lst, Minus(extra, p)) /\ countDown(m, p).slot = m.slot
<1>1. CASE p \in Processes
  <2>1. p # NilPointer
    BY <1>1, LinksConstantsOK
  <2>2. Unlinked(m, p)
    BY <1>1, <2>1, NoCascade
  <2>3. Counted(m, extra)
    BY DEF Represents
  <2>4. Counted(countDown(m, p), Minus(extra, p)) /\ countDown(m, p).slot = m.slot
    BY <1>1, <2>1, <2>2, <2>3, CountDown
  <2> QED
    BY <2>4 DEF Represents
<1>2. CASE p = NilPointer
  <2>1. m \in Memories /\ extra \in [Processes -> Nat]
    BY DEF Represents, Counted
  <2>2. countDown(m, p) = m
    BY <1>2, <2>1, CountDownNil
  <2>3. Minus(extra, p) = extra
    BY <1>2, <2>1, LinksConstantsOK DEF Minus
  <2> QED
    BY <2>2, <2>3
<1> QED
  BY <1>1, <1>2 DEF Links

(* transferTo moves a reference of the newProcess register.                  *)
LEMMA Transfer ==
  ASSUME NEW m, NEW lst, NEW extra, Represents(m, lst, extra), newProcess \in Links,
         newProcess # NilPointer => extra[newProcess] > 0,
         NEW p \in Processes, p # newProcess, extra[p] > 0
  PROVE  /\ Represents(transferTo(m, p), lst, Plus(Minus(extra, newProcess), p))
         /\ transferTo(m, p).slot = m.slot
<1> DEFINE n == countDown(m, newProcess)
<1>1. Represents(n, lst, Minus(extra, newProcess)) /\ n.slot = m.slot
  BY Release
<1> HIDE DEF n
<1>2. extra \in [Processes -> Nat]
  BY DEF Represents, Counted
<1>3. Minus(extra, newProcess)[p] = extra[p]
  BY <1>2, Extras
<1>4. n.count[p] > 0
  BY <1>1, <1>3, Alive
<1>5. Represents(countUp(n, p), lst, Plus(Minus(extra, newProcess), p)) /\ countUp(n, p).slot = n.slot
  BY <1>1, <1>4, Retain
<1> QED
  BY <1>1, <1>5 DEF transferTo, n

----------------------------------------------------------------------------
(* The primitives on lists are those on sequences. *)

(* What the invariant says that an operation needs.                          *)
LEMMA InvParts ==
  ASSUME Inv
  PROVE  /\ Represents(mem, lists, Extra(held, newProcess))
         /\ mem \in Memories
         /\ held \subseteq Processes
         /\ Extra(held, newProcess) \in [Processes -> Nat]
         /\ lists \in [Lists -> Seq(Processes)]
         /\ Distinct(lists)
         /\ mem.slot[ActiveProcess] \in Processes
         /\ newProcess \in Links
         /\ newProcessWaiting <=> newProcess # NilPointer
         /\ pc = "bytecode" => ~newProcessWaiting
         /\ activeProcess \in Processes
         /\ P!activeProcess = activeProcess
         /\ ~IsIn(lists, activeProcess)
         /\ mem.count[activeProcess] > 0
<1>1. /\ Represents(mem, lists, Extra(held, newProcess))
      /\ mem \in Memories
      /\ Extra(held, newProcess) \in [Processes -> Nat]
      /\ lists \in [Lists -> Seq(Processes)]
      /\ Distinct(lists)
  BY DEF Inv, Represents, Counted
<1>2. /\ mem.slot[ActiveProcess] \in Processes
      /\ newProcess \in Links
      /\ newProcessWaiting <=> newProcess # NilPointer
      /\ pc = "bytecode" => ~newProcessWaiting
  BY DEF Inv, P!IInv, P!TypeOK, P!RegistersAgree, Links
<1>3. P!activeProcess = activeProcess /\ activeProcess \in Processes
  BY <1>2 DEF P!activeProcess, activeProcess, Links
<1>4. ~IsIn(lists, activeProcess)
  BY <1>3, SameConstants DEF Inv, P!IInv, P!OnePlace, IsIn
<1>5. mem.count[activeProcess] > 0
  <2>1. CASE newProcessWaiting
    <3>1. activeProcess = newProcess
      BY <2>1 DEF activeProcess
    <3>2. Extra(held, newProcess)[activeProcess] > 0
      BY <1>3, <3>1 DEF Extra
    <3> QED
      BY <1>1, <1>3, <3>2, Alive
  <2>2. CASE ~newProcessWaiting
    <3>1. activeProcess = mem.slot[ActiveProcess]
      BY <2>2 DEF activeProcess
    <3> QED
      BY <1>1, <1>3, <3>1, Alive, SlotNames
  <2> QED
    BY <2>1, <2>2
<1> QED
  BY <1>1, <1>2, <1>3, <1>4, <1>5 DEF Inv

LEMMA SameOperations ==
  ASSUME NEW m, NEW lst, NEW extra, Represents(m, lst, extra)
  PROVE  /\ \A l \in Lists : isEmptyList(m, l) <=> P!isEmptyList(lst, l)
         /\ \A p, l : P!addLastLink_toList(lst, p, l) = Added(lst, p, l)
         /\ \A p : P!sleep(lst, p) = Added(lst, p, Priority[p])
         /\ \A l : P!removeFirstLinkOfList(lst, l) = Removed(lst, l)
         /\ \A pri \in Priorities : wakeHighestPriority(m, pri) <=> P!wakeHighestPriority(lst, pri)
<1>1. \A l \in Lists : isEmptyList(m, l) <=> P!isEmptyList(lst, l)
  BY Empty DEF P!isEmptyList
<1>2. /\ \A p, l : P!addLastLink_toList(lst, p, l) = Added(lst, p, l)
      /\ \A p : P!sleep(lst, p) = Added(lst, p, Priority[p])
      /\ \A l : P!removeFirstLinkOfList(lst, l) = Removed(lst, l)
  BY SameConstants DEF P!addLastLink_toList, P!sleep, P!removeFirstLinkOfList, Added, Removed
<1>3. \A pri \in Priorities : wakeHighestPriority(m, pri) <=> P!wakeHighestPriority(lst, pri)
  BY <1>1, SameConstants, PriorityLists DEF wakeHighestPriority, P!wakeHighestPriority
<1> QED
  BY <1>1, <1>2, <1>3

(* The process that is taken out of a list stays out of reach of the other   *)
(* processes, and its reference is the caller's.                             *)
LEMMA Unqueue ==
  ASSUME NEW m, NEW lst, NEW extra, Represents(m, lst, extra), NEW l \in Lists,
         ~isEmptyList(m, l)
  PROVE  LET p == m.slot[FirstLink(l)]
         IN /\ p \in Processes
            /\ p = Head(lst[l])
            /\ IsIn(lst, p)
            /\ Represents(removeFirstLinkOfList(m, l), Removed(lst, l), Plus(extra, p))
            /\ removeFirstLinkOfList(m, l).slot[ActiveProcess] = m.slot[ActiveProcess]
            /\ \A q : IsIn(Removed(lst, l), q) <=> IsIn(lst, q) /\ q # p
<1> DEFINE p == m.slot[FirstLink(l)]
<1>1. lst[l] # <<>> /\ lst[l] \in Seq(Processes) /\ lst \in [Lists -> Seq(Processes)] /\ Distinct(lst)
  BY Empty DEF Represents
<1>2. /\ p = lst[l][1] /\ p \in Processes
      /\ Represents(removeFirstLinkOfList(m, l), Removed(lst, l), Plus(extra, lst[l][1]))
      /\ removeFirstLinkOfList(m, l).slot[ActiveProcess] = m.slot[ActiveProcess]
  BY <1>1, RemoveFirst
<1>3. \A q : IsIn(Removed(lst, l), q) <=> IsIn(lst, q) /\ q # p
  BY <1>1, <1>2, RemovedPlaces
<1>4. 1 \in 1..Len(lst[l]) /\ Head(lst[l]) = lst[l][1]
  BY <1>1
<1>5. IsIn(lst, p)
  BY <1>2, <1>4 DEF IsIn
<1> QED
  BY <1>2, <1>3, <1>4, <1>5

(* The memory m, where the caller holds the reference release besides those  *)
(* of the image and of the register.                                         *)
Holding(m, lst, release) ==
  /\ Represents(m, lst, Plus(Extra(held, newProcess), release))
  /\ m.slot[ActiveProcess] = mem.slot[ActiveProcess]

LEMMA HoldingParts ==
  ASSUME Inv, NEW m, NEW lst, NEW release \in Links, Holding(m, lst, release)
  PROVE  LET extra == Plus(Extra(held, newProcess), release)
         IN /\ extra \in [Processes -> Nat]
            /\ \A q \in Processes : extra[q] = (IF q \in held THEN 1 ELSE 0)
                                                 + (IF q = newProcess THEN 1 ELSE 0)
                                                 + (IF q = release THEN 1 ELSE 0)
            /\ newProcess # NilPointer => extra[newProcess] > 0
            /\ release # NilPointer => extra[release] > 0
            /\ m.count[activeProcess] > 0
<1> DEFINE extra == Plus(Extra(held, newProcess), release)
<1>1. extra \in [Processes -> Nat]
  BY Extras, InvParts
<1>2. \A q \in Processes : extra[q] = Extra(held, newProcess)[q] + (IF q = release THEN 1 ELSE 0)
  BY Extras, InvParts
<1> HIDE DEF extra
<1>3. \A q \in Processes : Extra(held, newProcess)[q] = (IF q \in held THEN 1 ELSE 0)
                                                          + (IF q = newProcess THEN 1 ELSE 0)
  BY DEF Extra
<1>4. \A q \in Processes : extra[q] = (IF q \in held THEN 1 ELSE 0)
                                        + (IF q = newProcess THEN 1 ELSE 0)
                                        + (IF q = release THEN 1 ELSE 0)
  BY <1>2, <1>3
<1>5. /\ newProcess # NilPointer => newProcess \in Processes
      /\ release # NilPointer => release \in Processes
  BY InvParts DEF Links
<1>6. /\ newProcess # NilPointer => extra[newProcess] > 0
      /\ release # NilPointer => extra[release] > 0
  BY <1>4, <1>5
<1>7. Represents(m, lst, extra) /\ m.slot[ActiveProcess] = mem.slot[ActiveProcess]
  BY DEF Holding, extra
<1>8. m.count[activeProcess] > 0
  <2>1. activeProcess \in Processes
    BY InvParts
  <2>2. CASE newProcessWaiting
    <3>1. activeProcess = newProcess /\ newProcess # NilPointer
      BY <2>2, InvParts DEF activeProcess
    <3>2. extra[activeProcess] > 0
      BY <1>6, <3>1
    <3> QED
      BY <1>7, <2>1, <3>2, Alive
  <2>3. CASE ~newProcessWaiting
    <3>1. m.slot[ActiveProcess] = activeProcess /\ ActiveProcess \in Slots
      BY <1>7, <2>3, SlotNames DEF activeProcess
    <3> QED
      BY <1>7, <2>1, <3>1, Alive
  <2> QED
    BY <2>2, <2>3
<1> QED
  BY <1>1, <1>4, <1>6, <1>8 DEF extra

(* References given and taken in any order leave those that there are.       *)
LEMMA SameExtra ==
  ASSUME NEW e \in [Processes -> Nat], NEW new,
         \A q \in Processes : e[q] = (IF q \in held THEN 1 ELSE 0) + (IF new = q THEN 1 ELSE 0)
  PROVE  e = Extra(held, new)
BY DEF Extra

(* A switch to p is called for, and the caller gives up its reference.       *)
LEMMA Switch ==
  ASSUME Inv, NEW m, NEW lst, NEW release \in Links, Holding(m, lst, release),
         NEW p \in Processes, p # newProcess, release \in {p, NilPointer},
         p \in held \/ release = p
  PROVE  LET n == countDown(transferTo(m, p), release)
         IN Represents(n, lst, Extra(held, p)) /\ n.slot = m.slot
<1> DEFINE e == Plus(Extra(held, newProcess), release)
           e1 == Minus(e, newProcess)
           e2 == Plus(e1, p)
           e3 == Minus(e2, release)
           n1 == transferTo(m, p)
           n == countDown(n1, release)
<1>1. /\ Represents(m, lst, e)
      /\ e \in [Processes -> Nat]
      /\ \A q \in Processes : e[q] = (IF q \in held THEN 1 ELSE 0)
                                       + (IF q = newProcess THEN 1 ELSE 0)
                                       + (IF q = release THEN 1 ELSE 0)
      /\ newProcess # NilPointer => e[newProcess] > 0
      /\ newProcess \in Links /\ p \in Links /\ p # NilPointer
  BY HoldingParts, InvParts, LinksConstantsOK DEF Holding, Links
<1> HIDE DEF e
<1>2. e[p] > 0
  BY <1>1
<1>3. Represents(n1, lst, e2) /\ n1.slot = m.slot
  BY <1>1, <1>2, Transfer
<1>4. e1 \in [Processes -> Nat] /\ \A q \in Processes : e1[q] = e[q] - (IF q = newProcess THEN 1 ELSE 0)
  BY <1>1, Extras
<1> HIDE DEF e1, n1
<1>5. e2 \in [Processes -> Nat] /\ \A q \in Processes : e2[q] = e1[q] + (IF q = p THEN 1 ELSE 0)
  BY <1>1, <1>4, Extras
<1> HIDE DEF e2
<1>6. release # NilPointer => e2[release] > 0
  BY <1>4, <1>5
<1>7. Represents(n, lst, e3) /\ n.slot = n1.slot
  BY <1>3, <1>6, Release
<1>8. e3 \in [Processes -> Nat] /\ \A q \in Processes : e3[q] = e2[q] - (IF q = release THEN 1 ELSE 0)
  BY <1>5, <1>6, Extras
<1> HIDE DEF e3, n
<1>9. \A q \in Processes : e3[q] = (IF q \in held THEN 1 ELSE 0) + (IF p = q THEN 1 ELSE 0)
  BY <1>1, <1>4, <1>5, <1>8
<1>10. e3 = Extra(held, p)
  BY <1>8, <1>9, SameExtra
<1> QED
  BY <1>3, <1>7, <1>10 DEF n, n1

(* What the rest of a proof needs to know of the memory that a step leaves.  *)
Leaves(lst, hold, new) ==
  /\ Represents(mem', lst, Extra(hold, new))
  /\ lists' = lst
  /\ mem'.slot[ActiveProcess] = mem.slot[ActiveProcess]

LEMMA LeavesLists ==
  ASSUME NEW lst, NEW hold, NEW new, Represents(mem', lst, Extra(hold, new)),
         mem'.slot[ActiveProcess] = mem.slot[ActiveProcess]
  PROVE  Leaves(lst, hold, new)
<1>1. [l \in Lists |-> ListOf(mem'.slot, l)] = lst
  BY ListsAre
<1> QED
  BY <1>1 DEF Leaves, lists

LEMMA Resumes ==
  ASSUME Inv, NEW m, NEW lst, NEW release \in Links, Holding(m, lst, release),
         NEW p \in Processes, p # activeProcess, release \in {p, NilPointer},
         p \in held \/ release = p,
         ~IsIn(lst, p), ~IsIn(lst, activeProcess), resume(m, p, release)
  PROVE  P!resume(lst, p) /\ Leaves(lists', held, newProcess')
<1> DEFINE e == Plus(Extra(held, newProcess), release)
           a == activeProcess
<1>1. /\ Represents(m, lst, e) /\ m.slot[ActiveProcess] = mem.slot[ActiveProcess]
      /\ e \in [Processes -> Nat]
      /\ \A q \in Processes : e[q] = (IF q \in held THEN 1 ELSE 0)
                                       + (IF q = newProcess THEN 1 ELSE 0)
                                       + (IF q = release THEN 1 ELSE 0)
      /\ release # NilPointer => e[release] > 0
      /\ m.count[a] > 0
      /\ a \in Processes /\ P!activeProcess = a
      /\ newProcess \in Links
  BY HoldingParts, InvParts DEF Holding
<1> HIDE DEF e
<1>2. p # newProcess
  BY InvParts, LinksConstantsOK DEF activeProcess
<1>3. m.count[p] > 0
  <2>1. e[p] > 0
    BY <1>1
  <2> QED
    BY <1>1, <2>1, Alive
<1> HIDE DEF a
<1>4. CASE /\ Priority[p] > Priority[a]
           /\ mem' = countDown(transferTo(sleep(m, a), p), release)
           /\ switchTo(p)
  <2> DEFINE n == sleep(m, a)
             l == Added(lst, a, Priority[a])
  <2>1. Represents(n, l, e) /\ n.slot[ActiveProcess] = m.slot[ActiveProcess]
    BY <1>1, AddLast, PriorityLists DEF sleep, a
  <2>2. Holding(n, l, release)
    BY <1>1, <2>1 DEF Holding, e
  <2>3. P!sleep(lst, a) = l
    BY <1>1, SameOperations
  <2> HIDE DEF n, l
  <2>4. Represents(mem', l, Extra(held, p)) /\ mem'.slot = n.slot
    BY <1>2, <1>4, <2>2, Switch DEF n
  <2>5. Leaves(l, held, p)
    BY <1>1, <2>1, <2>4, LeavesLists
  <2>6. lists' = P!sleep(lst, P!activeProcess)
    BY <1>1, <2>3, <2>5 DEF Leaves
  <2>7. P!resume(lst, p)
    BY <1>1, <1>4, <2>6 DEF P!resume, P!transferTo, switchTo
  <2> QED
    BY <1>4, <2>5, <2>7 DEF Leaves, switchTo
<1>5. CASE /\ Priority[p] <= Priority[a]
           /\ mem' = countDown(sleep(m, p), release)
           /\ UNCHANGED <<newProcessWaiting, newProcess>>
  <2> DEFINE n == sleep(m, p)
             l == Added(lst, p, Priority[p])
             e1 == Minus(e, release)
  <2>1. Represents(n, l, e) /\ n.slot[ActiveProcess] = m.slot[ActiveProcess]
    BY <1>1, <1>3, AddLast, PriorityLists DEF sleep
  <2>2. P!sleep(lst, p) = l
    BY <1>1, SameOperations
  <2> HIDE DEF n, l
  <2>3. Represents(mem', l, e1) /\ mem'.slot = n.slot
    BY <1>1, <1>5, <2>1, Release DEF n
  <2>4. e1 \in [Processes -> Nat] /\ \A q \in Processes : e1[q] = e[q] - (IF q = release THEN 1 ELSE 0)
    BY <1>1, Extras
  <2> HIDE DEF e1
  <2>5. \A q \in Processes : e1[q] = (IF q \in held THEN 1 ELSE 0) + (IF newProcess = q THEN 1 ELSE 0)
    BY <1>1, <2>4
  <2>6. e1 = Extra(held, newProcess)
    BY <2>4, <2>5, SameExtra
  <2>7. Leaves(l, held, newProcess)
    BY <1>1, <2>1, <2>3, <2>6, LeavesLists
  <2>8. lists' = P!sleep(lst, p)
    BY <2>2, <2>7 DEF Leaves
  <2>9. P!resume(lst, p)
    BY <1>1, <1>5, <2>8 DEF P!resume
  <2> QED
    BY <1>5, <2>7, <2>9 DEF Leaves
<1> QED
  BY <1>4, <1>5 DEF resume, a

LEMMA Suspends ==
  ASSUME Inv, newProcess = NilPointer, NEW m, NEW lst, Holding(m, lst, NilPointer),
         suspendActive(m)
  PROVE  P!suspendActive(lst) /\ Leaves(lists', held, newProcess')
<1> DEFINE e == Plus(Extra(held, newProcess), NilPointer)
<1>1. PICK pri \in Priorities :
        LET p == m.slot[FirstLink(pri)]
        IN /\ wakeHighestPriority(m, pri)
           /\ mem' = countDown(transferTo(removeFirstLinkOfList(m, pri), p), p)
           /\ switchTo(p)
  BY DEF suspendActive
<1> DEFINE p == m.slot[FirstLink(pri)]
           n == removeFirstLinkOfList(m, pri)
           l == Removed(lst, pri)
<1>2. Represents(m, lst, e) /\ m.slot[ActiveProcess] = mem.slot[ActiveProcess] /\ pri \in Lists
      /\ ~isEmptyList(m, pri)
  BY <1>1, PriorityLists DEF Holding, wakeHighestPriority
<1>3. e = Extra(held, newProcess)
  <2>1. Extra(held, newProcess) \in [Processes -> Nat]
    BY InvParts
  <2> QED
    BY <2>1, LinksConstantsOK DEF Plus
<1>4. /\ p \in Processes /\ p = Head(lst[pri])
      /\ Represents(n, l, Plus(e, p))
      /\ n.slot[ActiveProcess] = m.slot[ActiveProcess]
  BY <1>2, Unqueue
<1>5. P!wakeHighestPriority(lst, pri) /\ P!removeFirstLinkOfList(lst, pri) = l
  BY <1>1, <1>2, SameOperations
<1> HIDE DEF e
<1>6. Holding(n, l, p)
  BY <1>2, <1>3, <1>4 DEF Holding
<1>7. mem' = countDown(transferTo(n, p), p) /\ switchTo(p)
  BY <1>1
<1> HIDE DEF p, n, l
<1>8. p \in Links /\ p # newProcess
  BY <1>4, LinksConstantsOK DEF Links
<1>9. Represents(mem', l, Extra(held, p)) /\ mem'.slot = n.slot
  BY <1>4, <1>6, <1>7, <1>8, Switch
<1>10. Leaves(l, held, p)
  BY <1>2, <1>4, <1>9, LeavesLists
<1>11. P!suspendActive(lst)
  BY <1>4, <1>5, <1>7, <1>10, SameConstants DEF P!suspendActive, P!transferTo, switchTo, Leaves
<1> QED
  BY <1>7, <1>10, <1>11 DEF Leaves, switchTo

LEMMA HoldingNothing ==
  ASSUME Inv
  PROVE  Holding(mem, lists, NilPointer)
<1>1. Extra(held, newProcess) \in [Processes -> Nat] /\ Represents(mem, lists, Extra(held, newProcess))
  BY InvParts
<1>2. Plus(Extra(held, newProcess), NilPointer) = Extra(held, newProcess)
  BY <1>1, LinksConstantsOK DEF Plus
<1> QED
  BY <1>1, <1>2 DEF Holding

LEMMA Signals ==
  ASSUME Inv, NEW s \in Semaphores, synchronousSignal(s)
  PROVE  P!synchronousSignal(s) /\ Leaves(lists', held, newProcess')
<1>1. Represents(mem, lists, Extra(held, newProcess)) /\ s \in Lists
  BY InvParts, PriorityLists
<1>2. isEmptyList(mem, s) <=> P!isEmptyList(lists, s)
  BY <1>1, SameOperations
<1>3. CASE /\ isEmptyList(mem, s)
           /\ excessSignals' = [excessSignals EXCEPT ![s] = storeExcess(@ + 1)]
           /\ UNCHANGED <<mem, newProcessWaiting, newProcess>>
  <2>1. lists' = lists
    BY <1>3 DEF lists
  <2>2. P!synchronousSignal(s)
    BY <1>2, <1>3, <2>1 DEF P!synchronousSignal, P!storeExcess, storeExcess
  <2> QED
    BY <1>1, <1>3, <2>1, <2>2 DEF Leaves
<1>4. CASE /\ ~isEmptyList(mem, s)
           /\ resume(removeFirstLinkOfList(mem, s), mem.slot[FirstLink(s)], mem.slot[FirstLink(s)])
           /\ UNCHANGED excessSignals
  <2> DEFINE p == mem.slot[FirstLink(s)]
             n == removeFirstLinkOfList(mem, s)
             l == Removed(lists, s)
  <2>1. /\ p \in Processes /\ p = Head(lists[s]) /\ IsIn(lists, p)
        /\ Represents(n, l, Plus(Extra(held, newProcess), p))
        /\ n.slot[ActiveProcess] = mem.slot[ActiveProcess]
        /\ \A q : IsIn(l, q) <=> IsIn(lists, q) /\ q # p
    BY <1>1, <1>4, Unqueue
  <2>2. P!removeFirstLinkOfList(lists, s) = l
    BY <1>1, SameOperations
  <2>3. Holding(n, l, p) /\ p \in Links
    BY <2>1 DEF Holding, Links
  <2>4. p # activeProcess /\ ~IsIn(l, activeProcess) /\ ~IsIn(l, p)
    BY <2>1, InvParts
  <2>5. resume(n, p, p)
    BY <1>4
  <2> HIDE DEF p, n, l
  <2>6. P!resume(l, p) /\ Leaves(lists', held, newProcess')
    BY <2>1, <2>3, <2>4, <2>5, Resumes
  <2>7. P!synchronousSignal(s)
    BY <1>2, <1>4, <2>1, <2>2, <2>6 DEF P!synchronousSignal
  <2> QED
    BY <2>6, <2>7
<1> QED
  BY <1>3, <1>4 DEF synchronousSignal

----------------------------------------------------------------------------
(* The initial states. *)

InitialList(active) ==
  [l \in Lists |-> IF l = Priority[Idle] /\ active # Idle THEN <<Idle>> ELSE <<>>]

LEMMA InitInv == Init => Inv /\ P!Init
<1> SUFFICES ASSUME Init PROVE Inv /\ P!Init
  OBVIOUS
<1>1. PICK active \in Processes :
        LET slot == [s \in Slots |->
                   IF s = ActiveProcess THEN active
                   ELSE IF active # Idle /\ s \in {FirstLink(Priority[Idle]),
                                                   LastLink(Priority[Idle])} THEN Idle
                   ELSE NilPointer]
        IN /\ held = Processes \ {active, Idle}
           /\ mem = [slot |-> slot,
                     count |-> [p \in Processes |-> References(slot, held, p)],
                     freed |-> {}]
           /\ excessSignals = [s \in Semaphores |-> 0]
           /\ newProcessWaiting = FALSE
           /\ newProcess = NilPointer
           /\ semaphoreList = <<>>
           /\ suspendedContext = [p \in Processes |-> <<p, 0>>]
           /\ activeContext = suspendedContext[active]
           /\ lastContext = suspendedContext
           /\ pc = "boundary"
  BY Zenon DEF Init
<1> DEFINE lst == InitialList(active)
           e == Extra(held, newProcess)
<1>2. /\ mem.slot \in [Slots -> Links]
      /\ \A s \in Slots : mem.slot[s] = IF s = ActiveProcess THEN active
                                        ELSE IF active # Idle /\ s \in {FirstLink(Priority[Idle]),
                                                                        LastLink(Priority[Idle])} THEN Idle
                                        ELSE NilPointer
      /\ mem.count = [p \in Processes |-> References(mem.slot, held, p)]
      /\ mem.freed = {}
      /\ mem = [slot |-> mem.slot, count |-> mem.count, freed |-> mem.freed]
  BY <1>1, LinksConstantsOK DEF Links
<1>3. Counted(mem, e)
  <2>1. \A p \in Processes : References(mem.slot, held, p) =
                               Cardinality(SlotsOf(mem.slot, p)) + (IF p \in held THEN 1 ELSE 0)
    BY DEF References, SlotsOf
  <2>2. \A p \in Processes : e[p] = IF p \in held THEN 1 ELSE 0
    BY <1>1, LinksConstantsOK DEF Extra
  <2>3. \A p \in Processes : mem.count[p] = Cardinality(SlotsOf(mem.slot, p)) + e[p]
    BY <1>2, <2>1, <2>2
  <2>4. e \in [Processes -> Nat]
    BY DEF Extra
  <2>5. mem.count \in [Processes -> Nat]
    <3>1. \A p \in Processes : Cardinality(SlotsOf(mem.slot, p)) + e[p] \in Nat
      BY <2>4, SlotsOfFinite
    <3>2. \A p \in Processes : References(mem.slot, held, p) \in Nat
      BY <1>2, <2>3, <3>1
    <3> QED
      BY <1>2, <3>2
  <2> HIDE DEF e
  <2>6. mem \in Memories
    BY <1>2, <2>5 DEF Memories
  <2> QED
    BY <1>2, <2>3, <2>4, <2>6 DEF Counted
<1>4. lst \in [Lists -> Seq(Processes)]
  <2>1. <<Idle>> \in Seq(Processes) /\ <<>> \in Seq(Processes)
    BY LinksConstantsOK
  <2> QED
    BY <2>1 DEF InitialList
<1>5. \A l \in Lists : IF l = Priority[Idle] /\ active # Idle
                       THEN lst[l] # <<>> /\ Len(lst[l]) = 1 /\ lst[l][1] = Idle
                       ELSE lst[l] = <<>> /\ Len(lst[l]) = 0
  BY DEF InitialList
<1> HIDE DEF lst
<1>6. Distinct(lst)
  <2> SUFFICES ASSUME NEW a \in Lists, NEW b \in Lists,
                      NEW i \in 1..Len(lst[a]), NEW j \in 1..Len(lst[b])
               PROVE  a = b /\ i = j
    BY DEF Distinct
  <2>1. Len(lst[a]) = 1 /\ Len(lst[b]) = 1 /\ a = Priority[Idle] /\ b = Priority[Idle]
    BY <1>5
  <2> QED
    BY <2>1
<1>7. Chained(mem.slot, lst)
  <2>1. \A l \in Lists : /\ mem.slot[FirstLink(l)] = IF l = Priority[Idle] /\ active # Idle
                                                     THEN Idle ELSE NilPointer
                         /\ mem.slot[LastLink(l)] = IF l = Priority[Idle] /\ active # Idle
                                                    THEN Idle ELSE NilPointer
    BY <1>2, SlotNames
  <2>2. \A p \in Processes : mem.slot[NextLink(p)] = NilPointer
    BY <1>2, SlotNames
  <2>3. ASSUME NEW l \in Lists, NEW i \in 1..Len(lst[l])
        PROVE  mem.slot[NextLink(lst[l][i])] = IF i < Len(lst[l]) THEN lst[l][i + 1] ELSE NilPointer
    <3>1. CASE l = Priority[Idle] /\ active # Idle
      <4>1. Len(lst[l]) = 1 /\ lst[l][1] = Idle
        BY <1>5, <3>1
      <4>2. i = 1 /\ Idle \in Processes
        BY <4>1, LinksConstantsOK
      <4> QED
        BY <2>2, <4>1, <4>2
    <3>2. CASE ~(l = Priority[Idle] /\ active # Idle)
      <4>1. Len(lst[l]) = 0
        BY <1>5, <3>2
      <4> QED
        BY <4>1
    <3> QED
      BY <3>1, <3>2
  <2>4. \A l \in Lists : lst[l] = <<>> => /\ mem.slot[FirstLink(l)] = NilPointer
                                          /\ mem.slot[LastLink(l)] = NilPointer
    BY <1>5, <2>1
  <2>5. \A l \in Lists : lst[l] # <<>> => /\ mem.slot[FirstLink(l)] = lst[l][1]
                                          /\ mem.slot[LastLink(l)] = lst[l][Len(lst[l])]
    BY <1>5, <2>1
  <2> QED
    BY <2>2, <2>3, <2>4, <2>5, Zenon DEF Chained
<1>8. Represents(mem, lst, e)
  BY <1>3, <1>4, <1>6, <1>7 DEF Represents
<1>9. lists = lst
  BY <1>8, ListsAre DEF lists
<1>10. P!Init
  <2>1. mem.slot[ActiveProcess] = active
    BY <1>2, SlotNames
  <2>2. lists = [l \in Lists |-> IF l = Priority[Idle] /\ active # Idle THEN <<Idle>> ELSE <<>>]
    BY <1>9, Zenon DEF lst, InitialList
  <2> QED
    BY <1>1, <2>1, <2>2, SameConstants DEF P!Init
<1>11. P!IInv
  BY <1>10, P!InitInv, SchedulerConstants, Zenon
<1> QED
  BY <1>1, <1>8, <1>9, <1>10, <1>11 DEF Inv

----------------------------------------------------------------------------
(* The steps. *)

(* A step that leaves the memory alone leaves the lists alone.               *)
LEMMA SameMemory ==
  ASSUME Inv, UNCHANGED <<mem, held, newProcess>>
  PROVE  Leaves(lists', held', newProcess') /\ lists' = lists /\ held' = held
<1>1. lists' = lists
  BY DEF lists
<1> QED
  BY <1>1, InvParts DEF Leaves

LEMMA AsynchronousSignalStep ==
  ASSUME Inv, NEW s \in External, asynchronousSignal(s)
  PROVE  P!asynchronousSignal(s) /\ Leaves(lists', held', newProcess')
<1>1. Leaves(lists', held', newProcess') /\ lists' = lists
  BY SameMemory DEF asynchronousSignal
<1> QED
  BY <1>1 DEF asynchronousSignal, P!asynchronousSignal, P!contextVars, contextVars

LEMMA DrainStep ==
  ASSUME Inv, drainSemaphoreList
  PROVE  P!drainSemaphoreList /\ Leaves(lists', held', newProcess')
<1> DEFINE s == semaphoreList[Len(semaphoreList)]
<1>1. semaphoreList \in Seq(Semaphores)
  BY DEF Inv, P!IInv, P!TypeOK
<1>2. s \in Semaphores
  BY <1>1 DEF drainSemaphoreList
<1>3. synchronousSignal(s) /\ held' = held
  BY DEF drainSemaphoreList
<1> HIDE DEF s
<1>4. P!synchronousSignal(s) /\ Leaves(lists', held, newProcess')
  BY <1>2, <1>3, Signals
<1>5. P!drainSemaphoreList
  BY <1>4 DEF drainSemaphoreList, P!drainSemaphoreList, P!signalsLeft, P!contextVars,
              contextVars, Leaves, s
<1> QED
  BY <1>3, <1>4, <1>5

LEMMA NoSwitchStep ==
  ASSUME Inv, noSwitch
  PROVE  P!noSwitch /\ Leaves(lists', held', newProcess')
<1>1. Leaves(lists', held', newProcess') /\ lists' = lists
  BY SameMemory DEF noSwitch
<1> QED
  BY <1>1 DEF noSwitch, P!noSwitch, P!signalsLeft, P!contextVars, contextVars

LEMMA NewActiveContextStep ==
  ASSUME Inv, newActiveContext
  PROVE  P!newActiveContext /\ Leaves(lists', held', newProcess')
<1>1. Leaves(lists', held', newProcess') /\ lists' = lists
  BY SameMemory DEF newActiveContext
<1> QED
  BY <1>1 DEF newActiveContext, atBytecode, P!newActiveContext, P!atBytecode

LEMMA PrimitiveSignalStep ==
  ASSUME Inv, NEW s \in Semaphores, primitiveSignal(s)
  PROVE  P!primitiveSignal(s) /\ Leaves(lists', held', newProcess')
<1>1. synchronousSignal(s) /\ held' = held
  BY DEF primitiveSignal
<1>2. P!synchronousSignal(s) /\ Leaves(lists', held, newProcess')
  BY <1>1, Signals
<1>3. P!primitiveSignal(s)
  BY <1>2 DEF primitiveSignal, atBytecode, P!primitiveSignal, P!atBytecode, P!contextVars,
              contextVars, Leaves
<1> QED
  BY <1>1, <1>2, <1>3

LEMMA PrimitiveWaitStep ==
  ASSUME Inv, NEW s \in Semaphores, primitiveWait(s)
  PROVE  P!primitiveWait(s) /\ Leaves(lists', held', newProcess')
<1>1. /\ held' = held /\ activeProcess # Idle /\ P!activeProcess = activeProcess
      /\ newProcess = NilPointer
  BY InvParts DEF primitiveWait, atBytecode
<1>2. CASE /\ excessSignals[s] > 0
           /\ excessSignals' = [excessSignals EXCEPT ![s] = @ - 1]
           /\ UNCHANGED <<mem, newProcessWaiting, newProcess>>
  <2>1. Leaves(lists', held', newProcess') /\ lists' = lists
    BY <1>1, <1>2, SameMemory
  <2>2. P!primitiveWait(s)
    BY <1>1, <1>2, <2>1 DEF primitiveWait, atBytecode, P!primitiveWait, P!atBytecode,
                          P!contextVars, contextVars
  <2> QED
    BY <2>1, <2>2
<1>3. CASE /\ excessSignals[s] = 0
           /\ suspendActive(addLastLink_toList(mem, activeProcess, s))
           /\ UNCHANGED excessSignals
  <2> DEFINE n == addLastLink_toList(mem, activeProcess, s)
             l == Added(lists, activeProcess, s)
  <2>1. /\ Holding(mem, lists, NilPointer)
        /\ activeProcess \in Processes /\ ~IsIn(lists, activeProcess) /\ mem.count[activeProcess] > 0
        /\ s \in Lists
    BY HoldingNothing, InvParts, PriorityLists
  <2>2. Holding(n, l, NilPointer)
    BY <2>1, AddLast DEF Holding
  <2>3. P!addLastLink_toList(lists, activeProcess, s) = l
    BY InvParts, SameOperations
  <2> HIDE DEF n, l
  <2>4. P!suspendActive(l) /\ Leaves(lists', held, newProcess')
    BY <1>1, <1>3, <2>2, Suspends DEF n
  <2>5. P!primitiveWait(s)
    BY <1>1, <1>3, <2>3, <2>4 DEF primitiveWait, atBytecode, P!primitiveWait, P!atBytecode,
                                P!contextVars, contextVars, Leaves
  <2> QED
    BY <1>1, <2>4, <2>5
<1> QED
  BY <1>2, <1>3 DEF primitiveWait

LEMMA PrimitiveResumeStep ==
  ASSUME Inv, NEW p \in Processes, primitiveResume(p)
  PROVE  P!primitiveResume(p) /\ Leaves(lists', held', newProcess')
<1>1. /\ held' = held /\ p \in held /\ p # activeProcess /\ ~Queued(p)
      /\ resume(mem, p, NilPointer) /\ P!activeProcess = activeProcess
  BY InvParts DEF primitiveResume
<1>2. ~IsIn(lists, p)
  <2> SUFFICES ASSUME NEW l \in Lists, NEW i \in 1..Len(lists[l]), lists[l][i] = p
               PROVE  Queued(p)
    BY <1>1 DEF IsIn
  <2>1. IF i = 1 THEN mem.slot[FirstLink(l)] = p ELSE mem.slot[NextLink(lists[l][i - 1])] = p
    BY InvParts, LinkTo
  <2>2. i # 1 => lists[l][i - 1] \in Processes
    <3>1. lists[l] \in Seq(Processes) /\ Len(lists[l]) \in Nat
      BY InvParts
    <3>2. i # 1 => i - 1 \in 1..Len(lists[l])
      BY <3>1
    <3> QED
      BY <3>1, <3>2
  <2> QED
    BY <2>1, <2>2 DEF Queued
<1>3. P!resume(lists, p) /\ Leaves(lists', held, newProcess')
  BY <1>1, <1>2, HoldingNothing, InvParts, Resumes DEF Links
<1>4. ~P!Queued(p)
  BY <1>2, SameConstants DEF P!Queued, IsIn
<1>5. P!primitiveResume(p)
  BY <1>1, <1>3, <1>4 DEF primitiveResume, atBytecode, P!primitiveResume, P!atBytecode,
                        P!contextVars, contextVars, Leaves
<1> QED
  BY <1>1, <1>3, <1>5

LEMMA PrimitiveSuspendStep ==
  ASSUME Inv, primitiveSuspend
  PROVE  P!primitiveSuspend /\ Leaves(lists', held', newProcess')
<1>1. /\ held' = held /\ activeProcess # Idle /\ P!activeProcess = activeProcess
      /\ newProcess = NilPointer /\ suspendActive(mem)
  BY InvParts DEF primitiveSuspend, atBytecode
<1>2. P!suspendActive(lists) /\ Leaves(lists', held, newProcess')
  BY <1>1, HoldingNothing, Suspends
<1>3. P!primitiveSuspend
  BY <1>1, <1>2 DEF primitiveSuspend, atBytecode, P!primitiveSuspend, P!atBytecode,
                   P!contextVars, contextVars, Leaves
<1> QED
  BY <1>1, <1>2, <1>3

(* The ActiveProcess field is rewritten, and no field of a list.             *)
LEMMA SwitchStep ==
  ASSUME Inv, switchProcess
  PROVE  /\ P!switchProcess
         /\ Represents(mem', lists', Extra(held', newProcess')) /\ held' = held
<1> DEFINE e == Extra(held, newProcess)
           n == storePointer(mem, ActiveProcess, newProcess)
           old == mem.slot[ActiveProcess]
<1>1. /\ Represents(mem, lists, e) /\ Counted(mem, e)
      /\ e \in [Processes -> Nat]
      /\ mem.slot \in [Slots -> Links]
      /\ lists \in [Lists -> Seq(Processes)] /\ Distinct(lists) /\ Chained(mem.slot, lists)
      /\ old \in Processes /\ ActiveProcess \in Slots
  BY InvParts, SlotNames DEF Represents, Memories
<1>2. newProcess \in Processes /\ newProcess \in Links /\ newProcess # NilPointer
  BY InvParts DEF switchProcess, Links
<1>3. e[newProcess] > 0
  BY <1>2 DEF Extra
<1> HIDE DEF e
<1>4. mem.count[newProcess] > 0 /\ Unlinked(mem, old)
  BY <1>1, <1>2, <1>3, Alive, NoCascade
<1>5. Counted(n, e) /\ n.slot = [mem.slot EXCEPT ![ActiveProcess] = newProcess]
  BY <1>1, <1>2, <1>4, Store
<1> HIDE DEF n, old
<1>6. Chained(n.slot, lists)
  <2>1. /\ \A l \in Lists : /\ n.slot[FirstLink(l)] = mem.slot[FirstLink(l)]
                            /\ n.slot[LastLink(l)] = mem.slot[LastLink(l)]
        /\ \A p \in Processes : n.slot[NextLink(p)] = mem.slot[NextLink(p)]
    BY <1>1, <1>5, SlotNames
  <2>2. \A l \in Lists : \A i \in 1..Len(lists[l]) : lists[l][i] \in Processes
    BY <1>1
  <2> QED
    BY <1>1, <2>1, <2>2 DEF Chained
<1>7. Represents(n, lists, e)
  BY <1>1, <1>5, <1>6 DEF Represents
<1>8. mem' = countDown(n, newProcess) /\ newProcess' = NilPointer /\ held' = held
  BY DEF switchProcess, n
<1>9. Represents(mem', lists, Minus(e, newProcess)) /\ mem'.slot = n.slot
  BY <1>2, <1>3, <1>7, <1>8, Release
<1>10. Minus(e, newProcess) = Extra(held, NilPointer)
  <2> DEFINE e1 == Minus(e, newProcess)
  <2>1. e1 \in [Processes -> Nat] /\ \A q \in Processes : e1[q] = e[q] - (IF q = newProcess THEN 1 ELSE 0)
    BY <1>1, <1>2, <1>3, Extras
  <2>2. \A q \in Processes : e[q] = (IF q \in held THEN 1 ELSE 0) + (IF newProcess = q THEN 1 ELSE 0)
    BY DEF e, Extra
  <2> HIDE DEF e1
  <2>3. \A q \in Processes : e1[q] = (IF q \in held THEN 1 ELSE 0) + (IF NilPointer = q THEN 1 ELSE 0)
    BY <2>1, <2>2, LinksConstantsOK
  <2>4. e1 = Extra(held, NilPointer)
    BY <2>1, <2>3, SameExtra
  <2> QED
    BY <2>4 DEF e1
<1>11. lists' = lists
  <2>1. [l \in Lists |-> ListOf(mem'.slot, l)] = lists
    BY <1>9, ListsAre
  <2> QED
    BY <2>1 DEF lists
<1>12. mem'.slot[ActiveProcess] = newProcess
  BY <1>1, <1>5, <1>9
<1>13. P!switchProcess
  BY <1>11, <1>12 DEF switchProcess, P!switchProcess, P!signalsLeft
<1> QED
  BY <1>8, <1>9, <1>10, <1>11, <1>13

LEMMA HoldStep ==
  ASSUME Inv, holdActiveProcess
  PROVE  /\ UNCHANGED P!vars
         /\ Represents(mem', lists', Extra(held', newProcess')) /\ held' \subseteq Processes
<1> DEFINE a == activeProcess
           e == Extra(held, newProcess)
<1>1. /\ Represents(mem, lists, e) /\ e \in [Processes -> Nat]
      /\ a \in Processes /\ mem.count[a] > 0 /\ held \subseteq Processes /\ a \notin held
      /\ mem' = countUp(mem, a) /\ held' = held \cup {a} /\ newProcess' = newProcess
  BY InvParts DEF holdActiveProcess
<1> HIDE DEF a
<1>2. Represents(mem', lists, Plus(e, a)) /\ mem'.slot = mem.slot
  BY <1>1, Retain
<1>3. Plus(e, a) = Extra(held', newProcess')
  <2>1. Plus(e, a) = [q \in Processes |-> IF q = a THEN e[q] + 1 ELSE e[q]]
    BY <1>1 DEF Plus
  <2>2. \A q \in Processes : e[q] = (IF q \in held THEN 1 ELSE 0) + (IF newProcess = q THEN 1 ELSE 0)
    BY DEF Extra
  <2>3. \A q \in Processes : (IF q = a THEN e[q] + 1 ELSE e[q])
                               = (IF q \in held' THEN 1 ELSE 0) + (IF newProcess' = q THEN 1 ELSE 0)
    BY <1>1, <2>2
  <2> QED
    BY <2>1, <2>3 DEF Extra
<1>4. lists' = lists
  BY <1>2 DEF lists
<1>5. UNCHANGED P!vars
  BY <1>2, <1>4 DEF P!vars, holdActiveProcess, contextVars
<1> QED
  BY <1>1, <1>2, <1>3, <1>4, <1>5

LEMMA DropStep ==
  ASSUME Inv, NEW p \in Processes, dropReference(p)
  PROVE  /\ UNCHANGED P!vars
         /\ Represents(mem', lists', Extra(held', newProcess')) /\ held' \subseteq Processes
<1> DEFINE e == Extra(held, newProcess)
<1>1. /\ Represents(mem, lists, e) /\ e \in [Processes -> Nat]
      /\ held \subseteq Processes /\ p \in held /\ p \in Links
      /\ mem' = countDown(mem, p) /\ held' = held \ {p} /\ newProcess' = newProcess
  BY InvParts DEF dropReference, Links
<1>2. \A q \in Processes : e[q] = (IF q \in held THEN 1 ELSE 0) + (IF newProcess = q THEN 1 ELSE 0)
  BY DEF Extra
<1> HIDE DEF e
<1>3. Represents(mem', lists, Minus(e, p)) /\ mem'.slot = mem.slot
  <2>1. e[p] > 0
    BY <1>1, <1>2
  <2> QED
    BY <1>1, <2>1, Release
<1>4. Minus(e, p) = Extra(held', newProcess')
  <2>1. Minus(e, p) = [q \in Processes |-> IF q = p THEN e[q] - 1 ELSE e[q]]
    BY <1>1 DEF Minus
  <2>2. \A q \in Processes : (IF q = p THEN e[q] - 1 ELSE e[q])
                               = (IF q \in held' THEN 1 ELSE 0) + (IF newProcess' = q THEN 1 ELSE 0)
    BY <1>1, <1>2
  <2> QED
    BY <2>1, <2>2 DEF Extra
<1>5. lists' = lists
  BY <1>3 DEF lists
<1>6. UNCHANGED P!vars
  BY <1>3, <1>5 DEF P!vars, dropReference, contextVars
<1> QED
  BY <1>1, <1>3, <1>4, <1>5, <1>6

----------------------------------------------------------------------------
LEMMA NextStep ==
  ASSUME Inv, [Next]_vars
  PROVE  /\ [P!Next]_P!vars
         /\ Represents(mem', lists', Extra(held', newProcess')) /\ held' \subseteq Processes
<1>0. held \subseteq Processes
  BY InvParts
<1>1. ASSUME NEW s \in External, asynchronousSignal(s)
      PROVE  P!Next /\ Leaves(lists', held', newProcess') /\ held' \subseteq Processes
  BY <1>0, <1>1, AsynchronousSignalStep DEF P!Next, asynchronousSignal
<1>2. CASE drainSemaphoreList
  <2>1. P!drainSemaphoreList /\ Leaves(lists', held', newProcess') /\ held' = held
    BY <1>2, DrainStep DEF drainSemaphoreList
  <2> QED
    BY <1>0, <2>1 DEF P!Next, P!cycle, P!checkProcessSwitch, Leaves
<1>3. CASE switchProcess
  BY <1>0, <1>3, SwitchStep DEF P!Next, P!cycle, P!checkProcessSwitch
<1>4. CASE noSwitch
  <2>1. P!noSwitch /\ Leaves(lists', held', newProcess') /\ held' = held
    BY <1>4, NoSwitchStep DEF noSwitch
  <2> QED
    BY <1>0, <2>1 DEF P!Next, P!cycle, P!checkProcessSwitch, Leaves
<1>5. CASE newActiveContext
  <2>1. P!newActiveContext /\ Leaves(lists', held', newProcess') /\ held' = held
    BY <1>5, NewActiveContextStep DEF newActiveContext
  <2> QED
    BY <1>0, <2>1 DEF P!Next, P!cycle, P!dispatch, Leaves
<1>6. ASSUME NEW s \in Semaphores, primitiveSignal(s)
      PROVE  P!Next /\ Leaves(lists', held', newProcess') /\ held' \subseteq Processes
  <2>1. P!primitiveSignal(s) /\ Leaves(lists', held', newProcess') /\ held' = held
    BY <1>6, PrimitiveSignalStep DEF primitiveSignal
  <2> QED
    BY <1>0, <2>1 DEF P!Next, P!cycle, P!dispatch
<1>7. ASSUME NEW s \in Semaphores, primitiveWait(s)
      PROVE  P!Next /\ Leaves(lists', held', newProcess') /\ held' \subseteq Processes
  <2>1. P!primitiveWait(s) /\ Leaves(lists', held', newProcess') /\ held' = held
    BY <1>7, PrimitiveWaitStep DEF primitiveWait
  <2> QED
    BY <1>0, <2>1 DEF P!Next, P!cycle, P!dispatch
<1>8. ASSUME NEW p \in Processes, primitiveResume(p)
      PROVE  P!Next /\ Leaves(lists', held', newProcess') /\ held' \subseteq Processes
  <2>1. P!primitiveResume(p) /\ Leaves(lists', held', newProcess') /\ held' = held
    BY <1>8, PrimitiveResumeStep DEF primitiveResume
  <2> QED
    BY <1>0, <2>1 DEF P!Next, P!cycle, P!dispatch
<1>9. CASE primitiveSuspend
  <2>1. P!primitiveSuspend /\ Leaves(lists', held', newProcess') /\ held' = held
    BY <1>9, PrimitiveSuspendStep DEF primitiveSuspend
  <2> QED
    BY <1>0, <2>1 DEF P!Next, P!cycle, P!dispatch, Leaves
<1>10. CASE holdActiveProcess
  BY <1>10, HoldStep
<1>11. ASSUME NEW p \in Processes, dropReference(p)
       PROVE  /\ UNCHANGED P!vars
              /\ Represents(mem', lists', Extra(held', newProcess')) /\ held' \subseteq Processes
  BY <1>11, DropStep
<1>12. CASE UNCHANGED vars
  <2>1. UNCHANGED <<mem, held, newProcess>>
    BY <1>12 DEF vars
  <2>2. Leaves(lists', held', newProcess') /\ lists' = lists /\ held' = held
    BY <2>1, SameMemory
  <2>3. UNCHANGED P!vars
    BY <1>12, <2>2 DEF vars, P!vars, contextVars
  <2> QED
    BY <1>0, <2>2, <2>3 DEF Leaves
<1> QED
  BY <1>1, <1>2, <1>3, <1>4, <1>5, <1>6, <1>7, <1>8, <1>9, <1>10, <1>11, <1>12 DEF Next, Leaves

LEMMA NextInv == Inv /\ [Next]_vars => Inv' /\ [P!Next]_P!vars
<1> SUFFICES ASSUME Inv, [Next]_vars PROVE Inv' /\ [P!Next]_P!vars
  OBVIOUS
<1>1. /\ [P!Next]_P!vars
      /\ Represents(mem', lists', Extra(held', newProcess')) /\ held' \subseteq Processes
  BY NextStep
<1>2. P!IInv
  BY DEF Inv
<1>3. P!IInv'
  BY <1>1, <1>2, StepKeeps, Zenon
<1>4. Represents(mem, lists, Extra(held, newProcess))'
  BY <1>1
<1> QED
  BY <1>1, <1>3, <1>4 DEF Inv

(* The lists stand for the sequences of Scheduler, whose invariant holds of  *)
(* them, and every count is the number of references, after every primitive. *)
THEOREM Invariance == Spec => []Inv
<1>1. Init => Inv
  BY InitInv
<1>2. Inv /\ [Next]_vars => Inv'
  BY NextInv
<1> QED
  BY <1>1, <1>2, PTL DEF Spec

(* addLastLink_toList, removeFirstLinkOfList, transferTo and the primitives  *)
(* count every reference that they give or take, on every path.              *)
THEOREM ReferencesCounted == Spec => []CountsExact
<1>1. ASSUME Inv PROVE CountsExact
  <2>1. Counted(mem, Extra(held, newProcess)) /\ mem \in Memories /\ held \subseteq Processes
    BY <1>1, InvParts DEF Represents
  <2>2. TypeOK
    BY <1>1, <2>1, SameConstants DEF Inv, P!IInv, P!TypeOK, P!Places, TypeOK, Memories, Links
  <2>3. ASSUME NEW p \in Processes
        PROVE  mem.count[p] = References(mem.slot, held, p) + (IF newProcess = p THEN 1 ELSE 0)
    <3>1. mem.count[p] = Cardinality(SlotsOf(mem.slot, p)) + Extra(held, newProcess)[p]
      BY <2>1 DEF Counted
    <3>2. Extra(held, newProcess)[p] = (IF p \in held THEN 1 ELSE 0) + (IF newProcess = p THEN 1 ELSE 0)
      BY DEF Extra
    <3>3. References(mem.slot, held, p) = Cardinality(SlotsOf(mem.slot, p)) + (IF p \in held THEN 1 ELSE 0)
      BY DEF References, SlotsOf
    <3>4. Cardinality(SlotsOf(mem.slot, p)) \in Nat
      BY SlotsOfFinite
    <3> QED
      BY <3>1, <3>2, <3>3, <3>4
  <2> QED
    BY <2>2, <2>3 DEF CountsExact
<1> QED
  BY <1>1, Invariance, PTL

(* decreaseReferencesTo frees no process that a list, a register or an       *)
(* object of the image still refers to, in the middle of a primitive either. *)
THEOREM NoneFreedInUse == Spec => []NoDanglingProcess
<1>1. ASSUME Inv, NEW p \in mem.freed
      PROVE  p # newProcess /\ p \notin held /\ \A s \in Slots : mem.slot[s] # p
  <2>1. /\ Represents(mem, lists, Extra(held, newProcess)) /\ Counted(mem, Extra(held, newProcess))
        /\ p \in Processes
    BY <1>1, InvParts DEF Represents, Memories
  <2>2. mem.count[p] = 0
    BY <1>1, <2>1 DEF Counted
  <2>3. ~(Extra(held, newProcess)[p] > 0) /\ \A s \in Slots : mem.slot[s] # p
    BY <2>1, <2>2, Alive
  <2>4. p = newProcess \/ p \in held => Extra(held, newProcess)[p] > 0
    BY <2>1 DEF Extra
  <2> QED
    BY <2>3, <2>4
<1>2. Inv => NoDanglingProcess
  BY <1>1 DEF NoDanglingProcess
<1> QED
  BY <1>2, Invariance, PTL

(* P and Abstract are the same specification of the same sequences.          *)
LEMMA SameInit == P!Init <=> Abstract!Init
BY DEF P!Init, Abstract!Init, P!Lists, Abstract!Lists, P!Priorities, Abstract!Priorities, lists

LEMMA SameVars == UNCHANGED P!vars <=> UNCHANGED Abstract!vars
BY DEF P!vars, Abstract!vars, lists

LEMMA SameNext == P!Next <=> Abstract!Next
BY DEF P!Next, Abstract!Next, lists,
       P!cycle, Abstract!cycle, P!checkProcessSwitch, Abstract!checkProcessSwitch,
       P!dispatch, Abstract!dispatch,
       P!asynchronousSignal, Abstract!asynchronousSignal,
       P!drainSemaphoreList, Abstract!drainSemaphoreList,
       P!switchProcess, Abstract!switchProcess, P!noSwitch, Abstract!noSwitch,
       P!newActiveContext, Abstract!newActiveContext,
       P!primitiveSignal, Abstract!primitiveSignal, P!primitiveWait, Abstract!primitiveWait,
       P!primitiveResume, Abstract!primitiveResume,
       P!primitiveSuspend, Abstract!primitiveSuspend,
       P!synchronousSignal, Abstract!synchronousSignal, P!resume, Abstract!resume,
       P!suspendActive, Abstract!suspendActive, P!transferTo, Abstract!transferTo,
       P!wakeHighestPriority, Abstract!wakeHighestPriority,
       P!sleep, Abstract!sleep, P!addLastLink_toList, Abstract!addLastLink_toList,
       P!removeFirstLinkOfList, Abstract!removeFirstLinkOfList,
       P!isEmptyList, Abstract!isEmptyList, P!activeProcess, Abstract!activeProcess,
       P!storeExcess, Abstract!storeExcess, P!signalsLeft, Abstract!signalsLeft,
       P!Queued, Abstract!Queued, P!atBytecode, Abstract!atBytecode,
       P!contextVars, Abstract!contextVars,
       P!Lists, Abstract!Lists, P!Priorities, Abstract!Priorities

(* The pointer fields implement the sequences of Scheduler, for any number   *)
(* of processes, semaphores and priorities.                                  *)
THEOREM LinksImplementScheduler == Spec => ImplementsScheduler
<1>1. Init => Abstract!Init
  BY InitInv, SameInit
<1>2. Inv /\ [Next]_vars => [Abstract!Next]_Abstract!vars
  BY NextInv, SameNext, SameVars
<1> QED
  BY <1>1, <1>2, Invariance, PTL DEF Spec, ImplementsScheduler, Abstract!Spec
=============================================================================
