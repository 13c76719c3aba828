---------------------------- MODULE SnapshotProofs ----------------------------
(***************************************************************************)
(* Proofs about Files and about Snapshot, which builds on it.              *)
(*                                                                         *)
(* Files: handles belong to the files that hold them, the card is never    *)
(* filled beyond its pages, and renaming keeps a file, for any number of   *)
(* files and handles and any size of the card.                             *)
(*                                                                         *)
(* Snapshot: an image whose save has succeeded loads as the memory that    *)
(* was saved, a save that did not succeed leaves no image that runs, and a *)
(* load tiles the heap, for any image that fits and any card.  What the    *)
(* operators compute comes first: concatenation, the cells that            *)
(* saveObjects writes, and what loadSnapshot makes of them (ImageLoads).   *)
(* Then the inductive invariant, SnapshotInv, and its preservation.        *)
(***************************************************************************)
EXTENDS Snapshot, LeastNumber, FiniteSetTheorems, SequenceTheorems

----------------------------------------------------------------------------
(* The sum over the names in FreePages.                                      *)

weight(s, n) == PagesOf(Live(s, n))
some(S) == CHOOSE n \in S : TRUE

PagesStep(s, pages) ==
  [S \in SUBSET Names |-> IF S = {} THEN 0 ELSE weight(s, some(S)) + pages[S \ {some(S)}]]
pagesOf(s) == CHOOSE pages : pages = PagesStep(s, pages)

(* FreePages is what the pages of the names leave.                           *)
LEMMA FreePagesIs ==
  ASSUME NEW s
  PROVE  FreePages(s) = CardPages - pagesOf(s)[Names]
BY Zenon DEF FreePages, MapThenSumSet, MapThenFoldSet, pagesOf, PagesStep, weight, some

SmallSets(m) == {S \in SUBSET Names : Cardinality(S) <= m}

LEMMA SmallSetsGrow ==
  /\ Cardinality(Names) \in Nat
  /\ SmallSets(0) = {{}}
  /\ SmallSets(Cardinality(Names)) = SUBSET Names
  /\ \A m \in Nat : SmallSets(m) \subseteq SmallSets(m + 1)
  /\ \A m \in Nat : \A S \in SmallSets(m + 1) :
        S # {} => some(S) \in S /\ some(S) \in Names /\ S \ {some(S)} \in SmallSets(m)
<1> USE FilesConstantsOK
<1>1. Cardinality(Names) \in Nat
  BY FS_CardinalityType
<1>2. ASSUME NEW S \in SUBSET Names
      PROVE  /\ IsFiniteSet(S)
             /\ Cardinality(S) \in Nat
             /\ Cardinality(S) <= Cardinality(Names)
             /\ Cardinality(S) = 0 <=> S = {}
  BY FS_Subset, FS_CardinalityType, FS_EmptySet
<1>3. SmallSets(0) = {{}}
  BY <1>2 DEF SmallSets
<1>4. SmallSets(Cardinality(Names)) = SUBSET Names
  BY <1>2 DEF SmallSets
<1>5. \A m \in Nat : SmallSets(m) \subseteq SmallSets(m + 1)
  BY <1>2 DEF SmallSets
<1>6. ASSUME NEW m \in Nat, NEW S \in SmallSets(m + 1), S # {}
      PROVE  some(S) \in S /\ some(S) \in Names /\ S \ {some(S)} \in SmallSets(m)
  <2>1. some(S) \in S
    BY <1>6, Zenon DEF some
  <2>2. S \in SUBSET Names /\ Cardinality(S) <= m + 1
    BY DEF SmallSets
  <2>3. Cardinality(S \ {some(S)}) = Cardinality(S) - 1
    BY <2>1, <2>2, <1>2, FS_RemoveElement
  <2> QED
    BY <2>1, <2>2, <2>3, <1>2 DEF SmallSets
<1> QED
  BY <1>1, <1>3, <1>4, <1>5, <1>6

(* The sum is what its recursive definition says.                            *)
LEMMA PagesOfStep ==
  ASSUME NEW s
  PROVE  pagesOf(s) = PagesStep(s, pagesOf(s))
<1> DEFINE N == Cardinality(Names)
           step(p, S) == IF S = {} THEN 0 ELSE weight(s, some(S)) + p[S \ {some(S)}]
           E == {m \in Nat : \E p : p = [S \in SmallSets(m) |-> step(p, S)]}
<1>1. N \in Nat
  BY SmallSetsGrow
<1>2. 0 \in E
  <2>1. [S \in SmallSets(0) |-> 0] = [S \in SmallSets(0) |-> step([T \in SmallSets(0) |-> 0], S)]
    BY SmallSetsGrow
  <2> QED
    BY <2>1
<1>3. ASSUME NEW m \in 0..N - 1, m \in E PROVE m + 1 \in E
  <2>1. PICK p : p = [S \in SmallSets(m) |-> step(p, S)]
    BY <1>3
  <2> DEFINE q == [S \in SmallSets(m + 1) |-> step(p, S)]
  <2>2. m \in Nat
    OBVIOUS
  <2>3. \A S \in SmallSets(m) : q[S] = p[S]
    <3> HIDE DEF step
    <3> QED
      BY <2>1, <2>2, SmallSetsGrow
  <2>4. \A S \in SmallSets(m + 1) : step(p, S) = step(q, S)
    <3> HIDE DEF q
    <3> QED
      BY <2>2, <2>3, SmallSetsGrow
  <2>5. q = [S \in SmallSets(m + 1) |-> step(q, S)]
    <3>1. q = [S \in SmallSets(m + 1) |-> q[S]]
      BY Zenon
    <3>2. \A S \in SmallSets(m + 1) : q[S] = step(p, S)
      BY Zenon
    <3> HIDE DEF q, step
    <3> QED
      BY <2>4, <3>1, <3>2
  <2>6. m + 1 \in Nat
    BY <2>2
  <2> HIDE DEF q, step
  <2> QED
    BY <2>5, <2>6
<1>4. N \in E
  <2> HIDE DEF E, N
  <2>1. 0..N \subseteq E
    BY <1>1, <1>2, <1>3, InductionTo
  <2> QED
    BY <1>1, <2>1
<1>5. PICK p : p = PagesStep(s, p)
  <2>1. PICK p : p = [S \in SmallSets(N) |-> step(p, S)]
    BY <1>4
  <2>2. SmallSets(N) = SUBSET Names
    BY SmallSetsGrow
  <2>3. p = PagesStep(s, p)
    BY <2>1, <2>2, Zenon DEF PagesStep
  <2> QED
    BY <2>3
<1> QED
  BY <1>5, Zenon DEF pagesOf

(* When no name but one takes more pages than before, and that one at most d *)
(* more, then the card has at most d pages less.                             *)
LEMMA FreePagesBound ==
  ASSUME NEW s, NEW t, NEW n0, NEW d \in Int,
         \A n \in Names : weight(s, n) \in Int /\ weight(t, n) \in Int,
         \A n \in Names : weight(t, n) <= weight(s, n) + (IF n = n0 THEN d ELSE 0)
  PROVE  /\ FreePages(s) \in Int /\ FreePages(t) \in Int
         /\ FreePages(t) >= FreePages(s) - (IF n0 \in Names THEN d ELSE 0)
<1> DEFINE N == Cardinality(Names)
           p == pagesOf(s)
           q == pagesOf(t)
           more(S) == IF n0 \in S THEN d ELSE 0
           ok(S) == p[S] \in Int /\ q[S] \in Int /\ q[S] <= p[S] + more(S)
           E == {m \in Nat : \A S \in SmallSets(m) : ok(S)}
<1>1. /\ \A S \in SUBSET Names :
            p[S] = IF S = {} THEN 0 ELSE weight(s, some(S)) + p[S \ {some(S)}]
      /\ \A S \in SUBSET Names :
            q[S] = IF S = {} THEN 0 ELSE weight(t, some(S)) + q[S \ {some(S)}]
  <2>1. p = PagesStep(s, p) /\ q = PagesStep(t, q)
    BY PagesOfStep
  <2> HIDE DEF p, q
  <2> QED
    BY <2>1 DEF PagesStep
<1>2. N \in Nat
  BY SmallSetsGrow
<1> HIDE DEF p, q
<1>8. ok({})
  <2>1. {} \in SUBSET Names
    OBVIOUS
  <2>2. p[{}] = 0 /\ q[{}] = 0
    BY <1>1, <2>1
  <2> QED
    BY <2>2
<1>3. 0 \in E
  <2> HIDE DEF ok
  <2> QED
    BY <1>8, SmallSetsGrow
<1>4. ASSUME NEW m \in 0..N - 1, m \in E PROVE m + 1 \in E
  <2>1. m \in Nat /\ m + 1 \in Nat
    OBVIOUS
  <2>2. ASSUME NEW S \in SmallSets(m + 1) PROVE ok(S)
    <3>1. CASE S = {}
      BY <3>1, <1>8
    <3>2. CASE S # {}
      <4> DEFINE x == some(S)
                 T == S \ {x}
      <4>1. x \in S /\ x \in Names /\ T \in SmallSets(m)
        BY <2>1, <3>2, SmallSetsGrow
      <4>2. p[T] \in Int /\ q[T] \in Int /\ q[T] <= p[T] + more(T)
        BY <4>1, <1>4
      <4>3. p[S] = weight(s, x) + p[T] /\ q[S] = weight(t, x) + q[T]
        BY <3>2, <1>1 DEF SmallSets
      <4>4. weight(s, x) \in Int /\ weight(t, x) \in Int
        BY <4>1
      <4>5. weight(t, x) <= weight(s, x) + (IF x = n0 THEN d ELSE 0)
        BY <4>1
      <4>6. more(S) = more(T) + (IF x = n0 THEN d ELSE 0)
        BY <4>1
      <4> HIDE DEF x, T
      <4>7. CASE x = n0
        <5>1. n0 \notin T /\ n0 \in S
          BY <4>1, <4>7 DEF T
        <5> QED
          BY <4>2, <4>3, <4>4, <4>5, <4>7, <5>1
      <4>8. CASE x # n0
        <5>1. n0 \in T <=> n0 \in S
          BY <4>8 DEF T
        <5> QED
          BY <4>2, <4>3, <4>4, <4>5, <4>8, <5>1
      <4> QED
        BY <4>7, <4>8
    <3> QED
      BY <3>1, <3>2
  <2> QED
    BY <2>1, <2>2
<1>5. N \in E
  <2> HIDE DEF E, N
  <2>1. 0..N \subseteq E
    BY <1>2, <1>3, <1>4, InductionTo
  <2> QED
    BY <1>2, <2>1
<1>6. ok(Names)
  BY <1>5, SmallSetsGrow
<1>7. FreePages(s) = CardPages - p[Names] /\ FreePages(t) = CardPages - q[Names]
  BY FreePagesIs DEF p, q
<1>9. CardPages \in Int
  BY FilesConstantsOK
<1> QED
  BY <1>6, <1>7, <1>9

LEMMA NoPages ==
  ASSUME NEW s, \A n \in Names : weight(s, n) = 0
  PROVE  pagesOf(s)[Names] = 0
<1> DEFINE N == Cardinality(Names)
           p == pagesOf(s)
           E == {m \in Nat : \A S \in SmallSets(m) : p[S] = 0}
<1>1. \A S \in SUBSET Names :
        p[S] = IF S = {} THEN 0 ELSE weight(s, some(S)) + p[S \ {some(S)}]
  <2>1. p = PagesStep(s, p)
    BY PagesOfStep
  <2> HIDE DEF p
  <2> QED
    BY <2>1 DEF PagesStep
<1> HIDE DEF p
<1>2. N \in Nat
  BY SmallSetsGrow
<1>3. p[{}] = 0
  <2>1. {} \in SUBSET Names
    OBVIOUS
  <2> QED
    BY <1>1, <2>1
<1>4. 0 \in E
  BY <1>3, SmallSetsGrow
<1>5. ASSUME NEW m \in 0..N - 1, m \in E PROVE m + 1 \in E
  <2>1. m \in Nat /\ m + 1 \in Nat
    OBVIOUS
  <2>2. ASSUME NEW S \in SmallSets(m + 1), S # {} PROVE p[S] = 0
    <3>1. some(S) \in Names /\ S \ {some(S)} \in SmallSets(m)
      BY <2>1, <2>2, SmallSetsGrow
    <3>2. p[S] = weight(s, some(S)) + p[S \ {some(S)}]
      BY <2>2, <1>1 DEF SmallSets
    <3>3. weight(s, some(S)) = 0 /\ p[S \ {some(S)}] = 0
      BY <3>1, <1>5
    <3> QED
      BY <3>2, <3>3
  <2> QED
    BY <2>1, <2>2, <1>3
<1>6. N \in E
  <2> HIDE DEF E, N
  <2>1. 0..N \subseteq E
    BY <1>2, <1>4, <1>5, InductionTo
  <2> QED
    BY <1>2, <2>1
<1> QED
  BY <1>6, SmallSetsGrow DEF p

LEMMA NoFewerPages ==
  ASSUME NEW s, NEW t,
         \A n \in Names : weight(s, n) \in Int /\ weight(t, n) \in Int,
         \A n \in Names : weight(t, n) <= weight(s, n)
  PROVE  /\ FreePages(s) \in Int /\ FreePages(t) \in Int
         /\ FreePages(t) >= FreePages(s)
<1>1. PICK none \in Int : none = 0
  OBVIOUS
<1>2. \A n \in Names : weight(t, n) <= weight(s, n) + (IF n = NoFile THEN none ELSE 0)
  BY <1>1
<1>3. /\ FreePages(s) \in Int /\ FreePages(t) \in Int
      /\ FreePages(t) >= FreePages(s) - (IF NoFile \in Names THEN none ELSE 0)
  BY <1>2, FreePagesBound
<1> QED
  BY <1>1, <1>3

----------------------------------------------------------------------------
(* What holds of every file system.                                          *)

FIL == [name : Names, pos : Nat, data : Seq(Cells)]
FileSystems == [card : [Names -> Seq(Cells) \cup {NoFile}],
                fdtofil : [Handles -> FIL \cup {NO_FIL}],
                curfd : 0..MAX_OPEN_FILES]

Open(s) == {h \in Handles : s.fdtofil[h] # NO_FIL}
IsOpen(s, n) == \E h \in Open(s) : s.fdtofil[h].name = n

(* A file that is open has an entry on the card, which never says that it is *)
(* longer than what it can still reach: so a power failure frees pages.      *)
OpenOnCard(s) ==
  \A h \in Open(s) : /\ s.card[s.fdtofil[h].name] # NoFile
                     /\ s.fdtofil[h].pos <= Len(s.fdtofil[h].data)
                     /\ PagesOf(s.card[s.fdtofil[h].name]) <= PagesOf(s.fdtofil[h].data)

OpenOnce(s) ==
  \A g, h \in Open(s) : s.fdtofil[g].name = s.fdtofil[h].name => g = h

Sound(s) ==
  /\ s \in FileSystems
  /\ OpenOnCard(s)
  /\ OpenOnce(s)
  /\ FreePages(s) >= 0

(* Pages are what the cells fill, the last one perhaps in part.              *)
LEMMA PagesOfIs ==
  ASSUME NEW data \in Seq(Cells)
  PROVE  /\ PagesOf(data) \in Nat
         /\ Len(data) <= PagesOf(data) * PageSize
         /\ \A k \in Nat : Len(data) <= k * PageSize => PagesOf(data) <= k
         /\ data = <<>> => PagesOf(data) = 0
<1> DEFINE a == Len(data)
           b == PageSize
<1>1. a \in Nat /\ b \in Nat \ {0} /\ (data = <<>> => a = 0)
  BY FilesConstantsOK
<1>2. PagesOf(data) = (a + b - 1) \div b
  BY DEF PagesOf
<1> HIDE DEF a, b
<1>3. (a + b - 1) \div b \in Nat /\ a <= ((a + b - 1) \div b) * b
  BY <1>1
<1>4. \A k \in Nat : a <= k * b => (a + b - 1) \div b <= k
  BY <1>1
<1>5. a = 0 => (a + b - 1) \div b = 0
  BY <1>1
<1> QED
  BY <1>1, <1>2, <1>3, <1>4, <1>5 DEF a, b

LEMMA PagesOfGrows ==
  ASSUME NEW data \in Seq(Cells), NEW more \in Seq(Cells), Len(data) <= Len(more)
  PROVE  PagesOf(data) <= PagesOf(more)
<1> DEFINE k == PagesOf(more)
<1>1. k \in Nat /\ Len(more) <= k * PageSize
  BY PagesOfIs
<1>2. PageSize \in Nat
  BY FilesConstantsOK
<1> HIDE DEF k
<1>3. Len(data) <= k * PageSize
  BY <1>1, <1>2
<1> QED
  BY <1>1, <1>3, PagesOfIs DEF k

(* The program sees the contents of the FIL of an open file, and those on    *)
(* the card of any other.                                                    *)
LEMMA LiveIs ==
  ASSUME NEW s \in FileSystems, OpenOnce(s), NEW n \in Names
  PROVE  /\ \A h \in Open(s) : s.fdtofil[h].name = n => Live(s, n) = s.fdtofil[h].data
         /\ ~IsOpen(s, n) => Live(s, n) = IF s.card[n] = NoFile THEN <<>> ELSE s.card[n]
         /\ Live(s, n) \in Seq(Cells)
         /\ weight(s, n) \in Nat
<1> DEFINE open == {h \in Handles : s.fdtofil[h] # NO_FIL /\ s.fdtofil[h].name = n}
<1>1. Live(s, n) = IF open # {} THEN s.fdtofil[CHOOSE h \in open : TRUE].data
                   ELSE IF s.card[n] = NoFile THEN <<>> ELSE s.card[n]
  BY Zenon DEF Live
<1>2. ASSUME NEW h \in Open(s), s.fdtofil[h].name = n
      PROVE  Live(s, n) = s.fdtofil[h].data /\ s.fdtofil[h].data \in Seq(Cells)
  <2>1. h \in open
    BY <1>2 DEF Open
  <2>2. (CHOOSE g \in open : TRUE) \in open
    BY <2>1, Zenon
  <2>3. (CHOOSE g \in open : TRUE) = h
    BY <1>2, <2>1, <2>2 DEF OpenOnce, Open
  <2>4. open # {}
    BY <2>1
  <2>5. s.fdtofil[h] \in FIL
    BY DEF Open, FileSystems
  <2> HIDE DEF open
  <2> QED
    BY <1>1, <2>3, <2>4, <2>5 DEF FIL
<1>3. ASSUME ~IsOpen(s, n)
      PROVE  /\ Live(s, n) = IF s.card[n] = NoFile THEN <<>> ELSE s.card[n]
             /\ Live(s, n) \in Seq(Cells)
  <2>1. open = {}
    BY <1>3 DEF IsOpen, Open
  <2>2. s.card[n] \in Seq(Cells) \cup {NoFile}
    BY DEF FileSystems
  <2> HIDE DEF open
  <2> QED
    BY <1>1, <2>1, <2>2
<1>4. Live(s, n) \in Seq(Cells)
  BY <1>2, <1>3 DEF IsOpen
<1> QED
  BY <1>2, <1>3, <1>4, PagesOfIs DEF weight

LEMMA LiveOpen ==
  ASSUME NEW s \in FileSystems, OpenOnce(s), NEW h \in Open(s)
  PROVE  Live(s, s.fdtofil[h].name) = s.fdtofil[h].data
<1>1. s.fdtofil[h].name \in Names
  BY DEF Open, FileSystems, FIL
<1> QED
  BY <1>1, LiveIs

(* A file system in which one file at most takes more pages, no more than    *)
(* are free.                                                                 *)
LEMMA OneFileChanges ==
  ASSUME NEW s, Sound(s), NEW t \in FileSystems, OpenOnCard(t), OpenOnce(t),
         NEW n0 \in Names, NEW d \in Int,
         weight(t, n0) <= weight(s, n0) + d,
         \A n \in Names \ {n0} : Live(t, n) = Live(s, n),
         d <= FreePages(s)
  PROVE  Sound(t) /\ FreePages(t) >= FreePages(s) - d
<1>1. \A n \in Names : weight(s, n) \in Int /\ weight(t, n) \in Int
  BY LiveIs DEF Sound
<1>2. \A n \in Names : weight(t, n) <= weight(s, n) + (IF n = n0 THEN d ELSE 0)
  <2> SUFFICES ASSUME NEW n \in Names
               PROVE  weight(t, n) <= weight(s, n) + (IF n = n0 THEN d ELSE 0)
    OBVIOUS
  <2>1. CASE n = n0
    BY <2>1
  <2>2. CASE n # n0
    <3>1. weight(t, n) = weight(s, n)
      BY <2>2, Zenon DEF weight
    <3> QED
      BY <2>2, <3>1, <1>1
  <2> QED
    BY <2>1, <2>2
<1>3. /\ FreePages(s) \in Int /\ FreePages(t) \in Int
      /\ FreePages(t) >= FreePages(s) - d
  BY <1>1, <1>2, FreePagesBound
<1> QED
  BY <1>3 DEF Sound

LEMMA FreePagesInt ==
  ASSUME NEW s, Sound(s)
  PROVE  FreePages(s) \in Int
<1>1. \A n \in Names : weight(s, n) \in Int
  BY LiveIs DEF Sound
<1>2. \A n \in Names : weight(s, n) <= weight(s, n)
  BY <1>1
<1> QED
  BY <1>1, <1>2, NoFewerPages

LEMMA SameFiles ==
  ASSUME NEW s, Sound(s), NEW t \in FileSystems, OpenOnCard(t), OpenOnce(t),
         \A n \in Names : Live(t, n) = Live(s, n)
  PROVE  Sound(t)
<1>1. \A n \in Names : weight(s, n) \in Int /\ weight(t, n) \in Int
  BY LiveIs DEF Sound
<1>2. \A n \in Names : weight(t, n) = weight(s, n)
  BY Zenon DEF weight
<1>3. \A n \in Names : weight(t, n) <= weight(s, n)
  BY <1>1, <1>2
<1>4. FreePages(s) \in Int /\ FreePages(t) \in Int /\ FreePages(t) >= FreePages(s)
  BY <1>1, <1>3, NoFewerPages
<1> QED
  BY <1>4 DEF Sound

----------------------------------------------------------------------------
(* What the operations do to a file system.                                  *)

pagesAt(c) == IF c = NoFile THEN 0 ELSE PagesOf(c)

(* The entry of a file that is not open changes.                             *)
WithEntry(s, n, c) == [s EXCEPT !.card[n] = c]

LEMMA EntryChanges ==
  ASSUME NEW s, Sound(s), NEW n \in Names, ~IsOpen(s, n),
         NEW c \in Seq(Cells) \cup {NoFile},
         pagesAt(c) - weight(s, n) <= FreePages(s)
  PROVE  LET t == WithEntry(s, n, c)
         IN /\ Sound(t)
            /\ FreePages(t) >= FreePages(s) + weight(s, n) - pagesAt(c)
            /\ t.fdtofil = s.fdtofil /\ t.card = [s.card EXCEPT ![n] = c]
            /\ Open(t) = Open(s)
<1> DEFINE t == WithEntry(s, n, c)
<1>1. /\ s \in FileSystems
      /\ t \in FileSystems
      /\ t.fdtofil = s.fdtofil
      /\ t.card = [s.card EXCEPT ![n] = c]
  BY DEF Sound, FileSystems, WithEntry
<1> HIDE DEF t
<1>2. Open(t) = Open(s)
  BY <1>1 DEF Open
<1>3. \A h \in Open(s) : s.fdtofil[h] \in FIL /\ s.fdtofil[h].name \in Names
                         /\ s.fdtofil[h].name # n
  BY <1>1 DEF Open, FileSystems, FIL, IsOpen
<1>4. \A m \in Names \ {n} : t.card[m] = s.card[m]
  BY <1>1 DEF FileSystems
<1>5. t.card[n] = c
  BY <1>1 DEF FileSystems
<1>6. OpenOnCard(t) /\ OpenOnce(t)
  BY <1>1, <1>2, <1>3, <1>4 DEF Sound, OpenOnCard, OpenOnce
<1>7. \A m \in Names : IsOpen(t, m) <=> IsOpen(s, m)
  BY <1>1, <1>2, Zenon DEF IsOpen
<1>8. ASSUME NEW m \in Names \ {n} PROVE Live(t, m) = Live(s, m)
  <2>1. /\ OpenOnce(s) /\ OpenOnce(t)
        /\ m \in Names
    BY <1>6 DEF Sound
  <2>2. CASE IsOpen(s, m)
    <3>1. PICK h \in Open(s) : s.fdtofil[h].name = m
      BY <2>2 DEF IsOpen
    <3>2. Live(s, m) = s.fdtofil[h].data
      BY <1>1, <2>1, <3>1, LiveIs
    <3>3. Live(t, m) = t.fdtofil[h].data
      BY <1>1, <1>2, <2>1, <3>1, LiveIs
    <3> QED
      BY <3>2, <3>3, <1>1
  <2>3. CASE ~IsOpen(s, m)
    <3>1. Live(s, m) = IF s.card[m] = NoFile THEN <<>> ELSE s.card[m]
      BY <1>1, <2>1, <2>3, LiveIs
    <3>2. Live(t, m) = IF t.card[m] = NoFile THEN <<>> ELSE t.card[m]
      BY <1>1, <1>7, <2>1, <2>3, LiveIs
    <3> QED
      BY <3>1, <3>2, <1>4
  <2> QED
    BY <2>2, <2>3
<1>9. weight(t, n) = pagesAt(c) /\ pagesAt(c) \in Nat /\ weight(s, n) \in Nat
  <2>1. Live(t, n) = IF c = NoFile THEN <<>> ELSE c
    BY <1>1, <1>5, <1>6, <1>7, LiveIs
  <2>2. weight(s, n) \in Nat
    BY LiveIs DEF Sound
  <2>3. CASE c = NoFile
    <3>1. <<>> \in Seq(Cells)
      OBVIOUS
    <3>2. PagesOf(<<>>) = 0
      BY <3>1, PagesOfIs
    <3> QED
      BY <2>1, <2>2, <2>3, <3>2 DEF weight, pagesAt
  <2>4. CASE c # NoFile
    BY <2>1, <2>2, <2>4, PagesOfIs DEF weight, pagesAt
  <2> QED
    BY <2>3, <2>4
<1> DEFINE d == pagesAt(c) - weight(s, n)
<1>10. d \in Int /\ weight(t, n) <= weight(s, n) + d /\ d <= FreePages(s)
  BY <1>9
<1>11. Sound(t) /\ FreePages(t) >= FreePages(s) - d
  <2> HIDE DEF d
  <2> QED
    BY <1>1, <1>6, <1>8, <1>10, OneFileChanges
<1>12. FreePages(s) \in Int
  BY FreePagesInt
<1>13. FreePages(t) >= FreePages(s) + weight(s, n) - pagesAt(c)
  BY <1>9, <1>11, <1>12, FreePagesIs
<1> QED
  BY <1>1, <1>2, <1>11, <1>13 DEF t

(* An open file changes, in its FIL and perhaps on the card.                 *)
LEMMA FilChanges ==
  ASSUME NEW s, Sound(s), NEW t \in FileSystems, NEW h \in Open(s),
         NEW fil \in FIL, NEW c \in Seq(Cells),
         fil.name = s.fdtofil[h].name,
         fil.pos <= Len(fil.data),
         PagesOf(c) <= PagesOf(fil.data),
         PagesOf(fil.data) <= PagesOf(s.fdtofil[h].data) + FreePages(s),
         t.fdtofil = [s.fdtofil EXCEPT ![h] = fil],
         t.card = [s.card EXCEPT ![fil.name] = c]
  PROVE  Sound(t) /\ Open(t) = Open(s)
<1> DEFINE n == fil.name
<1>1. s \in FileSystems /\ h \in Handles /\ n \in Names /\ fil # NO_FIL
  BY FilesConstantsOK DEF Sound, Open, FIL
<1>2. Open(t) = Open(s)
  BY <1>1 DEF Open, FileSystems
<1>3. \A g \in Open(s) : /\ s.fdtofil[g] \in FIL
                         /\ g # h => t.fdtofil[g] = s.fdtofil[g]
                         /\ s.fdtofil[g].name \in Names
                         /\ t.fdtofil[g].name = s.fdtofil[g].name
  <2> SUFFICES ASSUME NEW g \in Open(s)
               PROVE  /\ s.fdtofil[g] \in FIL
                      /\ g # h => t.fdtofil[g] = s.fdtofil[g]
                      /\ s.fdtofil[g].name \in Names
                      /\ t.fdtofil[g].name = s.fdtofil[g].name
    OBVIOUS
  <2>1. g \in Handles /\ s.fdtofil[g] \in FIL
    BY <1>1 DEF Open, FileSystems
  <2>2. t.fdtofil[g] = IF g = h THEN fil ELSE s.fdtofil[g]
    BY <1>1, <2>1 DEF FileSystems
  <2> QED
    BY <2>1, <2>2 DEF FIL
<1>4. t.fdtofil[h] = fil
  BY <1>1 DEF FileSystems
<1>5. \A g \in Open(s) : g # h => s.fdtofil[g].name # n
  BY DEF Sound, OpenOnce
<1>6. t.card[n] = c /\ \A m \in Names \ {n} : t.card[m] = s.card[m]
  BY <1>1 DEF FileSystems
<1>7. OpenOnce(t)
  BY <1>2, <1>3 DEF OpenOnce, Sound
<1>8. OpenOnCard(t)
  <2> SUFFICES ASSUME NEW g \in Open(s)
               PROVE  /\ t.card[t.fdtofil[g].name] # NoFile
                      /\ t.fdtofil[g].pos <= Len(t.fdtofil[g].data)
                      /\ PagesOf(t.card[t.fdtofil[g].name]) <= PagesOf(t.fdtofil[g].data)
    BY <1>2 DEF OpenOnCard
  <2>1. CASE g = h
    BY <2>1, <1>4, <1>6, FilesConstantsOK
  <2>2. CASE g # h
    <3>1. t.fdtofil[g] = s.fdtofil[g] /\ s.fdtofil[g].name \in Names \ {n}
      BY <2>2, <1>3, <1>5
    <3> QED
      BY <3>1, <1>6 DEF Sound, OpenOnCard
  <2> QED
    BY <2>1, <2>2
<1>9. ASSUME NEW m \in Names \ {n} PROVE Live(t, m) = Live(s, m)
  <2>1. /\ OpenOnce(s) /\ OpenOnce(t)
        /\ m \in Names
    BY <1>7 DEF Sound
  <2>2. CASE IsOpen(s, m)
    <3>1. PICK g \in Open(s) : s.fdtofil[g].name = m
      BY <2>2 DEF IsOpen
    <3>2. g # h
      BY <3>1
    <3>3. Live(s, m) = s.fdtofil[g].data
      BY <1>1, <2>1, <3>1, LiveIs
    <3>4. t.fdtofil[g] = s.fdtofil[g] /\ g \in Open(t)
      BY <1>2, <1>3, <3>2
    <3>5. t.fdtofil[g].name = m
      BY <3>1, <3>4
    <3>6. Live(t, m) = t.fdtofil[g].data
      BY <2>1, <3>4, <3>5, LiveOpen
    <3> QED
      BY <3>3, <3>4, <3>6
  <2>3. CASE ~IsOpen(s, m)
    <3>1. ~IsOpen(t, m)
      BY <1>2, <1>3, <2>3 DEF IsOpen
    <3>2. Live(s, m) = IF s.card[m] = NoFile THEN <<>> ELSE s.card[m]
      BY <1>1, <2>1, <2>3, LiveIs
    <3>3. Live(t, m) = IF t.card[m] = NoFile THEN <<>> ELSE t.card[m]
      BY <2>1, <3>1, LiveIs
    <3> QED
      BY <3>2, <3>3, <1>6
  <2> QED
    BY <2>2, <2>3
<1>10. weight(s, n) = PagesOf(s.fdtofil[h].data) /\ weight(t, n) = PagesOf(fil.data)
  <2>1. Live(s, n) = s.fdtofil[h].data
    BY <1>1, LiveIs DEF Sound
  <2>2. Live(t, n) = t.fdtofil[h].data
    <3>1. h \in Open(t) /\ t.fdtofil[h].name = n
      BY <1>2, <1>4
    <3> HIDE DEF n
    <3> QED
      BY <3>1, <1>7, LiveOpen
  <2> QED
    BY <2>1, <2>2, <1>4 DEF weight
<1> DEFINE d == weight(t, n) - weight(s, n)
<1>11. d \in Int /\ weight(t, n) <= weight(s, n) + d /\ d <= FreePages(s)
  <2>1. weight(s, n) \in Nat /\ weight(t, n) \in Nat
    BY <1>1, <1>7, LiveIs DEF Sound
  <2>2. FreePages(s) \in Int
    BY FreePagesInt
  <2> QED
    BY <2>1, <2>2, <1>10
<1>12. Sound(t)
  <2> HIDE DEF d, n
  <2> QED
    BY <1>1, <1>7, <1>8, <1>9, <1>11, OneFileChanges
<1> QED
  BY <1>2, <1>12

(* Closing writes the size and the contents of the file to its entry.        *)
LEMMA Closed ==
  ASSUME NEW s, Sound(s), NEW h \in Open(s)
  PROVE  LET t == f_close(s, h)
         IN /\ Sound(t)
            /\ Open(t) = Open(s) \ {h}
            /\ \A g \in Open(t) : t.fdtofil[g] = s.fdtofil[g]
            /\ t.card = [s.card EXCEPT ![s.fdtofil[h].name] = s.fdtofil[h].data]
            /\ ~IsOpen(t, s.fdtofil[h].name)
            /\ t.curfd = s.curfd
<1> DEFINE t == f_close(s, h)
           n == s.fdtofil[h].name
           c == s.fdtofil[h].data
<1>1. s \in FileSystems /\ h \in Handles /\ s.fdtofil[h] \in FIL
  BY DEF Sound, Open, FileSystems
<1>2. n \in Names /\ c \in Seq(Cells)
  BY <1>1 DEF FIL
<1>3. /\ t.card = [s.card EXCEPT ![n] = c]
      /\ t.fdtofil = [s.fdtofil EXCEPT ![h] = NO_FIL]
      /\ t.curfd = s.curfd
      /\ t \in FileSystems
  BY <1>1, <1>2 DEF f_close, FileSystems
<1> HIDE DEF t
<1>4. Open(t) = Open(s) \ {h} /\ \A g \in Open(t) : t.fdtofil[g] = s.fdtofil[g]
  BY <1>1, <1>3 DEF Open, FileSystems
<1>5. \A g \in Open(t) : t.fdtofil[g] \in FIL /\ t.fdtofil[g].name \in Names \ {n}
  <2>1. \A g \in Open(t) : g \in Open(s) /\ g # h /\ t.fdtofil[g] = s.fdtofil[g]
    BY <1>4
  <2>2. \A g \in Open(s) : s.fdtofil[g] \in FIL /\ s.fdtofil[g].name \in Names
    BY <1>1 DEF Open, FileSystems, FIL
  <2> QED
    BY <2>1, <2>2 DEF Sound, OpenOnce
<1>6. t.card[n] = c /\ \A m \in Names \ {n} : t.card[m] = s.card[m]
  BY <1>1, <1>2, <1>3 DEF FileSystems
<1>7. OpenOnce(t)
  BY <1>4 DEF Sound, OpenOnce
<1>8. OpenOnCard(t)
  <2> HIDE DEF n, c
  <2> QED
    BY <1>4, <1>5, <1>6 DEF Sound, OpenOnCard
<1>9. ~IsOpen(t, n)
  BY <1>5 DEF IsOpen
<1>10. ASSUME NEW m \in Names PROVE Live(t, m) = Live(s, m)
  <2>1. OpenOnce(s)
    BY DEF Sound
  <2>2. CASE m = n
    <3>1. Live(s, m) = c
      BY <1>1, <2>1, <2>2, LiveIs
    <3>2. Live(t, m) = IF t.card[m] = NoFile THEN <<>> ELSE t.card[m]
      BY <1>3, <1>7, <1>9, <2>2, LiveIs, ZenonT(40)
    <3>3. c # NoFile
      BY <1>2, FilesConstantsOK
    <3> QED
      BY <3>1, <3>2, <3>3, <1>6, <2>2
  <2>3. CASE m # n /\ IsOpen(s, m)
    <3>1. PICK g \in Open(s) : s.fdtofil[g].name = m
      BY <2>3 DEF IsOpen
    <3>2. g \in Open(t) /\ t.fdtofil[g] = s.fdtofil[g]
      BY <2>3, <3>1, <1>4
    <3>3. Live(s, m) = s.fdtofil[g].data
      BY <1>1, <2>1, <3>1, LiveIs
    <3>4. t.fdtofil[g].name = m
      BY <3>1, <3>2
    <3>5. Live(t, m) = t.fdtofil[g].data
      BY <1>3, <1>7, <3>2, <3>4, LiveOpen
    <3> QED
      BY <3>2, <3>3, <3>5
  <2>4. CASE m # n /\ ~IsOpen(s, m)
    <3>1. ~IsOpen(t, m)
      BY <1>4, <2>4 DEF IsOpen
    <3>2. Live(s, m) = IF s.card[m] = NoFile THEN <<>> ELSE s.card[m]
      BY <1>1, <2>1, <2>4, LiveIs
    <3>3. Live(t, m) = IF t.card[m] = NoFile THEN <<>> ELSE t.card[m]
      BY <1>3, <1>7, <3>1, LiveIs
    <3>4. t.card[m] = s.card[m]
      BY <1>6, <2>4
    <3> QED
      BY <3>2, <3>3, <3>4
  <2> QED
    BY <2>2, <2>3, <2>4
<1>11. Sound(t)
  BY <1>3, <1>7, <1>8, <1>10, SameFiles
<1> QED
  BY <1>3, <1>4, <1>9, <1>11 DEF t

LEMMA MinIs ==
  ASSUME NEW S \in SUBSET Nat, S # {}
  PROVE  Min(S) \in S
BY HasLeast, Zenon DEF Min

LEMMA MinMaxOfTwo ==
  ASSUME NEW a \in Int, NEW b \in Int
  PROVE  /\ Min({a, b}) = IF a <= b THEN a ELSE b
         /\ Max({a, b}) = IF a >= b THEN a ELSE b
BY DEF Min, Max

(* A free handle is found whenever there is one.                             *)
LEMMA GetfdIs ==
  ASSUME NEW s \in FileSystems
  PROVE  /\ getfd(s).fd \in (Handles \ Open(s)) \cup {NoHandle}
         /\ getfd(s).fd = NoHandle => Open(s) = Handles
         /\ getfd(s).curfd \in 0..MAX_OPEN_FILES
<1> DEFINE free == {h \in Handles : s.fdtofil[h] = NO_FIL}
           ahead == {h \in free : h >= s.curfd}
<1>1. /\ free = Handles \ Open(s)
      /\ free \in SUBSET Nat /\ ahead \in SUBSET Nat /\ ahead \subseteq free
      /\ NoHandle \notin free
  BY DEF Open, Handles, NoHandle
<1>2. s.curfd \in 0..MAX_OPEN_FILES
  BY DEF FileSystems
<1>3. getfd(s) = IF ahead # {} THEN [fd |-> Min(ahead), curfd |-> Min(ahead) + 1]
                 ELSE IF free # {} THEN [fd |-> Min(free), curfd |-> Min(free) + 1]
                 ELSE [fd |-> NoHandle, curfd |-> s.curfd]
  BY Zenon DEF getfd
<1>4. \A h \in free : h + 1 \in 0..MAX_OPEN_FILES
  BY FilesConstantsOK DEF Handles
<1> HIDE DEF free, ahead
<1>5. CASE ahead # {}
  <2>1. Min(ahead) \in free
    BY <1>1, <1>5, MinIs
  <2>2. getfd(s) = [fd |-> Min(ahead), curfd |-> Min(ahead) + 1]
    BY <1>3, <1>5
  <2> QED
    BY <2>1, <2>2, <1>1, <1>4
<1>6. CASE ahead = {} /\ free # {}
  <2>1. Min(free) \in free
    BY <1>1, <1>6, MinIs
  <2>2. getfd(s) = [fd |-> Min(free), curfd |-> Min(free) + 1]
    BY <1>3, <1>6
  <2> QED
    BY <2>1, <2>2, <1>1, <1>4
<1>7. CASE ahead = {} /\ free = {}
  <2>1. getfd(s) = [fd |-> NoHandle, curfd |-> s.curfd]
    BY <1>3, <1>7
  <2>2. Open(s) = Handles
    BY <1>1, <1>7 DEF Open
  <2> QED
    BY <2>1, <2>2, <1>2
<1> QED
  BY <1>5, <1>6, <1>7

(* The FIL of a file that is opened.                                         *)
Fresh(s, n) == [name |-> n, pos |-> 0, data |-> s.card[n]]

(* Where the next search begins makes no difference to the files.            *)
LEMMA SearchFrom ==
  ASSUME NEW s, Sound(s), NEW k \in 0..MAX_OPEN_FILES
  PROVE  LET t == [s EXCEPT !.curfd = k]
         IN /\ Sound(t)
            /\ t.card = s.card /\ t.fdtofil = s.fdtofil
            /\ Open(t) = Open(s)
<1> DEFINE t == [s EXCEPT !.curfd = k]
<1>1. t \in FileSystems /\ t.card = s.card /\ t.fdtofil = s.fdtofil
  BY DEF FileSystems, Sound
<1> HIDE DEF t
<1>2. Open(t) = Open(s) /\ OpenOnce(t) /\ OpenOnCard(t)
  BY <1>1 DEF Open, OpenOnce, OpenOnCard, Sound
<1>3. \A m \in Names : Live(t, m) = Live(s, m)
  <2> DEFINE live(f, c, m) ==
               LET open == {h \in Handles : f[h] # NO_FIL /\ f[h].name = m}
               IN IF open # {} THEN f[CHOOSE h \in open : TRUE].data
                  ELSE IF c[m] = NoFile THEN <<>> ELSE c[m]
  <2>1. \A m \in Names : /\ Live(t, m) = live(t.fdtofil, t.card, m)
                        /\ Live(s, m) = live(s.fdtofil, s.card, m)
    BY Zenon DEF Live
  <2> HIDE DEF live
  <2> QED
    BY <2>1, <1>1
<1>4. Sound(t)
  BY <1>1, <1>2, <1>3, SameFiles
<1> QED
  BY <1>1, <1>2, <1>4 DEF t

LEMMA Handled ==
  ASSUME NEW s, Sound(s), NEW n \in Names, ~IsOpen(s, n), s.card[n] # NoFile
  PROVE  LET r == Handle(s, n, s.card[n])
         IN /\ Sound(r.fs)
            /\ r.fs.card = s.card
            /\ r.fd \in (Handles \ Open(s)) \cup {NoHandle}
            /\ r.fd = NoHandle => Open(s) = Handles /\ r.fs.fdtofil = s.fdtofil
            /\ r.fd # NoHandle => /\ Open(r.fs) = Open(s) \cup {r.fd}
                                  /\ r.fs.fdtofil[r.fd] = Fresh(s, n)
            /\ \A h \in Open(s) : r.fs.fdtofil[h] = s.fdtofil[h]
<1> DEFINE got == getfd(s)
           r == Handle(s, n, s.card[n])
           fil == Fresh(s, n)
<1>1. /\ s \in FileSystems /\ s.card[n] \in Seq(Cells) /\ Len(s.card[n]) \in Nat
  BY DEF Sound, FileSystems
<1>2. fil \in FIL /\ fil # NO_FIL
  BY <1>1, FilesConstantsOK DEF FIL, Fresh
<1>3. /\ got.fd \in (Handles \ Open(s)) \cup {NoHandle}
      /\ got.fd = NoHandle => Open(s) = Handles
      /\ got.curfd \in 0..MAX_OPEN_FILES
      /\ NoHandle \notin Handles
  BY <1>1, GetfdIs DEF Handles, NoHandle
<1>4. /\ r.fd = got.fd
      /\ r.fs = IF got.fd = NoHandle THEN [s EXCEPT !.curfd = got.curfd]
                ELSE [s EXCEPT !.curfd = got.curfd, !.fdtofil[got.fd] = fil]
  BY DEF Handle, Fresh
<1> HIDE DEF got, r, fil
<1>5. CASE got.fd = NoHandle
  <2>1. r.fs = [s EXCEPT !.curfd = got.curfd]
    BY <1>4, <1>5
  <2>2. /\ Sound(r.fs)
        /\ r.fs.card = s.card /\ r.fs.fdtofil = s.fdtofil
        /\ Open(r.fs) = Open(s)
    BY <2>1, <1>3, SearchFrom
  <2> QED
    BY <2>2, <1>3, <1>4, <1>5 DEF r
<1>6. CASE got.fd # NoHandle
  <2> DEFINE k == got.fd
             t == r.fs
  <2>1. k \in Handles /\ k \notin Open(s)
    BY <1>3, <1>6
  <2>2. /\ t \in FileSystems
        /\ t.card = s.card
        /\ t.fdtofil = [s.fdtofil EXCEPT ![k] = fil]
    <3>1. t = [s EXCEPT !.curfd = got.curfd, !.fdtofil[k] = fil]
      BY <1>4, <1>6
    <3> HIDE DEF t, k
    <3>2. /\ t.card = s.card
          /\ t.fdtofil = [s.fdtofil EXCEPT ![k] = fil]
          /\ t.curfd = got.curfd
          /\ DOMAIN t = DOMAIN s
      BY <3>1, <1>1 DEF FileSystems
    <3>3. [s.fdtofil EXCEPT ![k] = fil] \in [Handles -> FIL \cup {NO_FIL}]
      BY <2>1, <1>1, <1>2 DEF FileSystems
    <3>4. t = [card |-> s.card, fdtofil |-> [s.fdtofil EXCEPT ![k] = fil], curfd |-> got.curfd]
      BY <3>1, <1>1 DEF FileSystems
    <3> QED
      BY <3>2, <3>3, <3>4, <1>1, <1>3 DEF FileSystems
  <2> HIDE DEF t, k
  <2>3. /\ Open(t) = Open(s) \cup {k}
        /\ t.fdtofil[k] = fil
        /\ \A h \in Open(s) : t.fdtofil[h] = s.fdtofil[h]
    BY <2>1, <2>2, <1>1, <1>2 DEF Open, FileSystems
  <2>4. fil.name = n /\ fil.pos = 0 /\ fil.data = s.card[n]
    BY DEF fil, Fresh
  <2>5. \A h \in Open(s) : s.fdtofil[h].name # n
    BY DEF IsOpen
  <2>6. OpenOnce(t)
    BY <2>3, <2>4, <2>5 DEF OpenOnce, Sound
  <2>7. OpenOnCard(t)
    <3>1. PagesOf(s.card[n]) \in Nat
      BY <1>1, PagesOfIs
    <3>2. ASSUME NEW h \in Open(s)
          PROVE  /\ t.card[t.fdtofil[h].name] # NoFile
                 /\ t.fdtofil[h].pos <= Len(t.fdtofil[h].data)
                 /\ PagesOf(t.card[t.fdtofil[h].name]) <= PagesOf(t.fdtofil[h].data)
      BY <2>2, <2>3 DEF OpenOnCard, Sound
    <3>3. /\ t.card[fil.name] # NoFile
          /\ fil.pos <= Len(fil.data)
          /\ PagesOf(t.card[fil.name]) <= PagesOf(fil.data)
      BY <2>2, <2>4, <3>1, <1>1
    <3> QED
      BY <2>3, <3>2, <3>3 DEF OpenOnCard
  <2>8. ASSUME NEW m \in Names PROVE Live(t, m) = Live(s, m)
    <3>1. OpenOnce(s)
      BY DEF Sound
    <3>2. CASE m = n
      <4>1. Live(t, m) = fil.data
        BY <2>2, <2>3, <2>4, <2>6, <3>2, LiveOpen
      <4>2. Live(s, m) = s.card[n]
        BY <3>1, <3>2, <1>1, LiveIs
      <4> QED
        BY <4>1, <4>2, <2>4
    <3>3. CASE IsOpen(s, m)
      <4>1. PICK h \in Open(s) : s.fdtofil[h].name = m
        BY <3>3 DEF IsOpen
      <4>2. Live(s, m) = s.fdtofil[h].data
        BY <4>1, <3>1, <1>1, LiveOpen
      <4>3. h \in Open(t) /\ t.fdtofil[h] = s.fdtofil[h]
        BY <2>3
      <4>4. Live(t, m) = t.fdtofil[h].data
        BY <4>1, <4>3, <2>2, <2>6, LiveOpen
      <4> QED
        BY <4>2, <4>3, <4>4
    <3>4. CASE m # n /\ ~IsOpen(s, m)
      <4>1. ~IsOpen(t, m)
        BY <3>4, <2>3, <2>4 DEF IsOpen
      <4>2. Live(s, m) = IF s.card[m] = NoFile THEN <<>> ELSE s.card[m]
        BY <3>1, <3>4, <1>1, LiveIs
      <4>3. Live(t, m) = IF t.card[m] = NoFile THEN <<>> ELSE t.card[m]
        BY <4>1, <2>2, <2>6, LiveIs
      <4> QED
        BY <4>2, <4>3, <2>2
    <3> QED
      BY <3>2, <3>3, <3>4
  <2>9. Sound(t)
    BY <2>2, <2>6, <2>7, <2>8, SameFiles
  <2> QED
    BY <2>2, <2>3, <2>9, <1>3, <1>4, <1>6 DEF t, k, r, fil
<1> QED
  BY <1>5, <1>6

(* The same files are open as before.                                        *)
StaysOpen(s, t) ==
  /\ Sound(t)
  /\ Open(t) = Open(s)
  /\ \A h \in Open(s) : t.fdtofil[h].name = s.fdtofil[h].name

(* A FIL that has grown by no more than the card has room for.               *)
Extends(s, old, new) ==
  /\ new \in FIL
  /\ new.name = old.name
  /\ new.pos <= Len(new.data)
  /\ PagesOf(old.data) <= PagesOf(new.data)
  /\ PagesOf(new.data) <= PagesOf(old.data) + FreePages(s)

LEMMA OpenFil ==
  ASSUME NEW s, Sound(s), NEW h \in Open(s)
  PROVE  /\ h \in Handles
         /\ s.fdtofil[h] \in FIL
         /\ s.fdtofil[h].name \in Names
         /\ s.fdtofil[h].pos \in Nat
         /\ s.fdtofil[h].data \in Seq(Cells)
         /\ s.fdtofil[h].pos <= Len(s.fdtofil[h].data)
         /\ s.card[s.fdtofil[h].name] \in Seq(Cells)
         /\ PagesOf(s.card[s.fdtofil[h].name]) <= PagesOf(s.fdtofil[h].data)
<1>1. s.fdtofil[h] \in FIL /\ h \in Handles /\ s \in FileSystems
  BY DEF Sound, Open, FileSystems
<1>2. s.fdtofil[h].name \in Names
  BY <1>1 DEF FIL
<1>3. s.card[s.fdtofil[h].name] \in Seq(Cells) \cup {NoFile}
  BY <1>1, <1>2 DEF FileSystems
<1> QED
  BY <1>1, <1>2, <1>3 DEF Sound, OpenOnCard, FIL

WithFil(s, h, fil) == [s EXCEPT !.fdtofil[h] = fil]

LEMMA FilMoves ==
  ASSUME NEW s, Sound(s), NEW h \in Open(s), NEW fil, Extends(s, s.fdtofil[h], fil)
  PROVE  /\ StaysOpen(s, WithFil(s, h, fil))
         /\ WithFil(s, h, fil).fdtofil[h] = fil
<1> DEFINE t == WithFil(s, h, fil)
           n == fil.name
           c == s.card[n]
<1>1. s \in FileSystems /\ h \in Handles /\ fil \in FIL
  BY OpenFil DEF Sound, Extends
<1>2. t \in FileSystems /\ t.card = s.card /\ t.fdtofil = [s.fdtofil EXCEPT ![h] = fil]
  BY <1>1 DEF FileSystems, WithFil
<1> HIDE DEF t
<1>3. n = s.fdtofil[h].name /\ n \in Names /\ c \in Seq(Cells)
  BY OpenFil DEF Extends
<1>4. t.card = [s.card EXCEPT ![n] = c]
  BY <1>1, <1>2, <1>3 DEF FileSystems
<1>5. PagesOf(c) <= PagesOf(fil.data)
  <2>1. PagesOf(c) <= PagesOf(s.fdtofil[h].data)
    BY <1>3, OpenFil
  <2>2. /\ PagesOf(c) \in Nat /\ PagesOf(s.fdtofil[h].data) \in Nat
        /\ PagesOf(fil.data) \in Nat
    BY <1>1, <1>3, OpenFil, PagesOfIs DEF FIL
  <2> QED
    BY <2>1, <2>2 DEF Extends
<1>6. Sound(t) /\ Open(t) = Open(s)
  <2> HIDE DEF c, n
  <2>1. /\ fil.name = s.fdtofil[h].name
        /\ fil.pos <= Len(fil.data)
        /\ PagesOf(fil.data) <= PagesOf(s.fdtofil[h].data) + FreePages(s)
    BY DEF Extends
  <2>2. t.card = [s.card EXCEPT ![fil.name] = c]
    BY <1>4 DEF n
  <2> QED
    BY <2>1, <2>2, <1>1, <1>2, <1>3, <1>5, FilChanges
<1>7. \A g \in Open(s) : t.fdtofil[g].name = s.fdtofil[g].name
  BY <1>1, <1>2, <1>3 DEF Open, FileSystems
<1>8. t.fdtofil[h] = fil
  BY <1>1, <1>2 DEF FileSystems
<1> QED
  BY <1>2, <1>6, <1>7, <1>8 DEF StaysOpen, t

(* How far the data may reach: as far as its pages and the free ones.        *)
LEMMA RoomIs ==
  ASSUME NEW s, Sound(s), NEW data \in Seq(Cells), NEW more \in Seq(Cells),
         Len(more) <= Room(s, data) \/ Len(more) <= Len(data), Len(data) <= Len(more)
  PROVE  /\ PagesOf(data) <= PagesOf(more)
         /\ PagesOf(more) <= PagesOf(data) + FreePages(s)
<1>1. FreePages(s) \in Nat
  BY FreePagesInt DEF Sound
<1>2. PagesOf(data) \in Nat /\ PagesOf(more) \in Nat
  BY PagesOfIs
<1>3. PagesOf(data) <= PagesOf(more)
  BY PagesOfGrows
<1>4. CASE Len(more) <= Room(s, data)
  <2>1. Len(more) <= (PagesOf(data) + FreePages(s)) * PageSize
    BY <1>4 DEF Room
  <2>2. PagesOf(data) + FreePages(s) \in Nat
    BY <1>1, <1>2
  <2> QED
    BY <2>1, <2>2, <1>3, PagesOfIs
<1>5. CASE Len(more) <= Len(data)
  BY <1>1, <1>2, <1>3, <1>5, PagesOfGrows
<1> QED
  BY <1>4, <1>5

LEMMA Sought ==
  ASSUME NEW s, Sound(s), NEW fil \in FIL, fil.pos <= Len(fil.data), NEW position \in Nat
  PROVE  /\ Extends(s, fil, f_lseek(s, fil, position))
         /\ position <= Len(fil.data) =>
               f_lseek(s, fil, position) = [fil EXCEPT !.pos = position]
         /\ position > Len(fil.data) => Len(f_lseek(s, fil, position).data) <= position
<1> DEFINE L == Len(fil.data)
           R == Room(s, fil.data)
           reach == Max({L, R})
           at == Min({position, reach})
           M == Max({at, L})
           grown == [i \in 1..M |-> IF i <= L THEN fil.data[i] ELSE Undefined]
           new == f_lseek(s, fil, position)
<1>1. /\ fil.data \in Seq(Cells) /\ L \in Nat /\ fil.name \in Names /\ fil.pos \in Nat
      /\ fil.data \in [1..L -> Cells]
  BY DEF FIL
<1>2. R \in Int
  <2>1. PagesOf(fil.data) \in Nat /\ FreePages(s) \in Int /\ PageSize \in Nat
    BY <1>1, PagesOfIs, FreePagesInt, FilesConstantsOK
  <2> QED
    BY <2>1 DEF Room
<1>3. reach = (IF L >= R THEN L ELSE R) /\ reach \in Int
  <2> HIDE DEF R, L
  <2>1. L \in Int
    BY <1>1
  <2>2. reach = IF L >= R THEN L ELSE R
    BY <1>2, <2>1, MinMaxOfTwo, Zenon
  <2> QED
    BY <1>2, <2>1, <2>2
<1>4. at = (IF position <= reach THEN position ELSE reach) /\ at \in Nat
  <2>1. at = IF position <= reach THEN position ELSE reach
    <3> HIDE DEF reach
    <3> QED
      BY <1>3, MinMaxOfTwo
  <2> HIDE DEF at, reach, L, R
  <2> QED
    BY <2>1, <1>1, <1>2, <1>3
<1>5. M = (IF at >= L THEN at ELSE L) /\ M \in Nat
  <2>1. M = IF at >= L THEN at ELSE L
    <3> HIDE DEF at, L
    <3>1. at \in Int /\ L \in Int
      BY <1>1, <1>4
    <3> QED
      BY <3>1, MinMaxOfTwo, Zenon
  <2> HIDE DEF M, at, L
  <2> QED
    BY <2>1, <1>1, <1>4
<1>6. new = [fil EXCEPT !.pos = at, !.data = grown]
  BY Zenon DEF f_lseek
<1> HIDE DEF reach, at, M, R, new
<1>7. grown \in Seq(Cells) /\ Len(grown) = M
  <2>1. \A i \in 1..M : (IF i <= L THEN fil.data[i] ELSE Undefined) \in Cells
    BY <1>1, <1>5 DEF Cells
  <2> HIDE DEF L
  <2> QED
    BY <2>1, <1>5
<1>8. L <= Len(grown) /\ at <= Len(grown) /\ (Len(grown) <= R \/ Len(grown) <= L)
  <2> HIDE DEF grown, L
  <2> QED
    BY <1>1, <1>2, <1>3, <1>4, <1>5, <1>7
<1>9. position <= L => grown = fil.data /\ at = position
  <2> SUFFICES ASSUME position <= L PROVE grown = fil.data /\ at = position
    OBVIOUS
  <2>1. at = position /\ M = L
    <3> HIDE DEF L
    <3> QED
      BY <1>1, <1>2, <1>3, <1>4, <1>5
  <2> QED
    BY <2>1, <1>1
<1> HIDE DEF grown
<1>10. Extends(s, fil, new)
  <2>1. new \in FIL /\ new.name = fil.name /\ new.pos = at /\ new.data = grown
    BY <1>1, <1>4, <1>6, <1>7 DEF FIL
  <2>2. PagesOf(fil.data) <= PagesOf(grown) /\ PagesOf(grown) <= PagesOf(fil.data) + FreePages(s)
    BY <1>1, <1>7, <1>8, RoomIs DEF R
  <2> QED
    BY <2>1, <2>2, <1>8 DEF Extends
<1>11. position <= L => new = [fil EXCEPT !.pos = position]
  BY <1>1, <1>6, <1>9 DEF FIL
<1>12. position > L => Len(new.data) <= position
  <2>1. new.data = grown
    BY <1>6 DEF FIL
  <2> HIDE DEF L
  <2>2. position > L => M <= position
    BY <1>1, <1>2, <1>3, <1>4, <1>5
  <2> QED
    BY <2>1, <2>2, <1>7
<1> QED
  BY <1>10, <1>11, <1>12 DEF new

LEMMA Written ==
  ASSUME NEW s, Sound(s), NEW fil \in FIL, fil.pos <= Len(fil.data), NEW cells \in Seq(Cells)
  PROVE  Extends(s, fil, f_write(s, fil, cells).fil)
<1> DEFINE L == Len(fil.data)
           R == Room(s, fil.data)
           reach == Max({L, R})
           pos == fil.pos
           size == Len(cells)
           n == Min({size, reach - pos})
           end == pos + n
           M == Max({end, L})
           cell(i) == IF i \in (pos + 1)..end THEN cells[i - pos] ELSE fil.data[i]
           grown == [i \in 1..M |-> cell(i)]
           new == f_write(s, fil, cells).fil
<1>1. /\ fil.data \in Seq(Cells) /\ fil.name \in Names
      /\ fil.data \in [1..L -> Cells] /\ cells \in [1..size -> Cells]
  BY DEF FIL
<1>2. L \in Nat /\ pos \in Nat /\ size \in Nat /\ pos <= L
  BY DEF FIL
<1>3. R \in Int
  <2>1. PagesOf(fil.data) \in Nat /\ FreePages(s) \in Int /\ PageSize \in Nat
    BY <1>1, PagesOfIs, FreePagesInt, FilesConstantsOK
  <2> QED
    BY <2>1 DEF Room
<1>4. new = [fil EXCEPT !.pos = end, !.data = grown]
  BY DEF f_write
<1> HIDE DEF R, L, pos, size
<1>5. reach \in Int /\ L <= reach /\ (reach <= R \/ reach <= L)
  <2>1. L \in Int
    BY <1>2
  <2>2. reach = IF L >= R THEN L ELSE R
    BY <1>3, <2>1, MinMaxOfTwo, Zenon
  <2> HIDE DEF reach
  <2> QED
    BY <1>3, <2>1, <2>2
<1> HIDE DEF reach
<1>6. n \in Nat /\ n <= size /\ n <= reach - pos
  <2>1. size \in Int /\ reach - pos \in Int
    BY <1>2, <1>5
  <2>2. n = IF size <= reach - pos THEN size ELSE reach - pos
    BY <2>1, MinMaxOfTwo, Zenon
  <2> HIDE DEF n
  <2> QED
    BY <2>2, <1>2, <1>5
<1> HIDE DEF n
<1>7. M \in Nat /\ end \in Nat /\ end <= M /\ L <= M /\ (M <= end \/ M <= L)
  <2>1. end \in Nat /\ end \in Int /\ L \in Int
    BY <1>2, <1>6
  <2>2. M = IF end >= L THEN end ELSE L
    <3> HIDE DEF end
    <3> QED
      BY <2>1, MinMaxOfTwo, Zenon
  <2> HIDE DEF M, end
  <2> QED
    BY <1>2, <2>1, <2>2
<1> HIDE DEF M
<1>8. grown \in Seq(Cells) /\ Len(grown) = M
  <2>1. ASSUME NEW i \in 1..M PROVE cell(i) \in Cells
    <3>1. CASE i \in (pos + 1)..end
      <4>1. i - pos \in 1..size
        BY <3>1, <1>2, <1>6
      <4> QED
        BY <3>1, <4>1, <1>1
    <3>2. CASE i \notin (pos + 1)..end
      <4>1. i \in 1..L
        BY <3>2, <1>2, <1>6, <1>7
      <4> QED
        BY <3>2, <4>1, <1>1
    <3> QED
      BY <3>1, <3>2
  <2> HIDE DEF cell
  <2> QED
    BY <2>1, <1>7
<1>9. M <= R \/ M <= L
  BY <1>2, <1>3, <1>5, <1>6, <1>7
<1> HIDE DEF grown, end, new
<1>10. new \in FIL /\ new.name = fil.name /\ new.pos = end /\ new.data = grown
  BY <1>1, <1>4, <1>7, <1>8 DEF FIL
<1>11. PagesOf(fil.data) <= PagesOf(grown) /\ PagesOf(grown) <= PagesOf(fil.data) + FreePages(s)
  BY <1>1, <1>7, <1>8, <1>9, RoomIs DEF R, L
<1>12. Extends(s, fil, new)
  BY <1>7, <1>8, <1>10, <1>11 DEF Extends
<1> QED
  BY <1>12 DEF new

LEMMA SeekTo ==
  ASSUME NEW s, Sound(s), NEW h \in Open(s), NEW position \in Nat
  PROVE  LET t == seek_to(s, h, position)
         IN /\ StaysOpen(s, t)
            /\ t.fdtofil[h] = f_lseek(s, s.fdtofil[h], position)
<1>1. s.fdtofil[h] \in FIL /\ s.fdtofil[h].pos <= Len(s.fdtofil[h].data) /\ h \in Handles
  BY OpenFil
<1> DEFINE fil == f_lseek(s, s.fdtofil[h], position)
<1>2. Extends(s, s.fdtofil[h], fil)
  BY <1>1, Sought
<1>3. seek_to(s, h, position) = WithFil(s, h, fil)
  BY DEF seek_to, WithFil
<1> HIDE DEF fil
<1>4. /\ StaysOpen(s, WithFil(s, h, fil))
      /\ WithFil(s, h, fil).fdtofil[h] = fil
  BY <1>2, FilMoves, Zenon
<1> QED
  BY <1>3, <1>4 DEF fil

LEMMA WriteTo ==
  ASSUME NEW s, Sound(s), NEW h \in Open(s), NEW cells \in Seq(Cells)
  PROVE  StaysOpen(s, write(s, h, cells).fs)
<1>1. s.fdtofil[h] \in FIL /\ s.fdtofil[h].pos <= Len(s.fdtofil[h].data)
  BY OpenFil
<1> DEFINE fil == f_write(s, s.fdtofil[h], cells).fil
<1>2. Extends(s, s.fdtofil[h], fil)
  BY <1>1, Written
<1>3. write(s, h, cells).fs = WithFil(s, h, fil)
  BY DEF write, WithFil
<1> HIDE DEF fil
<1>4. StaysOpen(s, WithFil(s, h, fil))
  BY <1>2, FilMoves, Zenon
<1> QED
  BY <1>3, <1>4

LEMMA StaysOpenTwice ==
  ASSUME NEW s, NEW t, NEW u, StaysOpen(s, t), StaysOpen(t, u)
  PROVE  StaysOpen(s, u)
BY DEF StaysOpen

(* What is cut off is free, on the card as well.                             *)
LEMMA Truncated ==
  ASSUME NEW s, Sound(s), NEW h \in Open(s)
  PROVE  StaysOpen(s, f_truncate(s, h))
<1> DEFINE fil == s.fdtofil[h]
           data == SubSeq(fil.data, 1, fil.pos)
           old == s.card[fil.name]
           k == Min({Len(old), PagesOf(data) * PageSize})
           c == SubSeq(old, 1, k)
           new == [fil EXCEPT !.data = data]
           t == f_truncate(s, h)
<1>1. /\ h \in Handles /\ fil \in FIL /\ fil.name \in Names /\ fil.pos \in Nat
      /\ fil.data \in Seq(Cells) /\ fil.pos <= Len(fil.data) /\ old \in Seq(Cells)
      /\ s \in FileSystems
  BY OpenFil DEF Sound
<1>2. data \in Seq(Cells) /\ Len(data) = fil.pos
  <2> HIDE DEF fil
  <2> QED
    BY <1>1
<1>3. PageSize \in Nat /\ PagesOf(data) \in Nat /\ PagesOf(data) * PageSize \in Nat
  <2> HIDE DEF data
  <2> QED
    BY <1>2, PagesOfIs, FilesConstantsOK
<1>4. k \in Nat /\ k <= Len(old) /\ k <= PagesOf(data) * PageSize
  <2> HIDE DEF old, data
  <2>1. Len(old) \in Int /\ Len(old) \in Nat /\ PagesOf(data) * PageSize \in Int
    BY <1>1, <1>3
  <2>2. k = IF Len(old) <= PagesOf(data) * PageSize THEN Len(old) ELSE PagesOf(data) * PageSize
    BY <2>1, MinMaxOfTwo, Zenon
  <2> HIDE DEF k
  <2> QED
    BY <2>1, <2>2, <1>3
<1>5. c \in Seq(Cells) /\ Len(c) = k
  <2> HIDE DEF k, old
  <2> QED
    BY <1>1, <1>4
<1>6. t = [s EXCEPT !.fdtofil[h].data = data, !.card[fil.name] = c]
  BY Zenon DEF f_truncate
<1> HIDE DEF t
<1>7. new \in FIL /\ new.name = fil.name /\ new.pos = fil.pos /\ new.data = data
  <2> HIDE DEF data, fil
  <2> QED
    BY <1>1, <1>2 DEF FIL
<1>8. /\ t \in FileSystems
      /\ t.fdtofil = [s.fdtofil EXCEPT ![h] = new]
      /\ t.card = [s.card EXCEPT ![new.name] = c]
  <2> HIDE DEF data, c
  <2>1. t = [card |-> [s.card EXCEPT ![fil.name] = c],
             fdtofil |-> [s.fdtofil EXCEPT ![h] = new], curfd |-> s.curfd]
    BY <1>1, <1>6 DEF FileSystems
  <2>2. [s.card EXCEPT ![fil.name] = c] \in [Names -> Seq(Cells) \cup {NoFile}]
    BY <1>1, <1>5 DEF FileSystems
  <2> HIDE DEF new, fil
  <2>3. [s.fdtofil EXCEPT ![h] = new] \in [Handles -> FIL \cup {NO_FIL}]
    BY <1>1, <1>7 DEF FileSystems
  <2>4. s.curfd \in 0..MAX_OPEN_FILES
    BY <1>1 DEF FileSystems
  <2> QED
    BY <2>1, <2>2, <2>3, <2>4, <1>7 DEF FileSystems
<1>9. PagesOf(c) <= PagesOf(data)
  <2> HIDE DEF c, data
  <2> QED
    BY <1>3, <1>4, <1>5, PagesOfIs
<1>10. PagesOf(data) <= PagesOf(fil.data) + FreePages(s)
  <2>1. PagesOf(data) <= PagesOf(fil.data)
    <3> HIDE DEF data, fil
    <3> QED
      BY <1>1, <1>2, PagesOfGrows
  <2>2. FreePages(s) \in Nat /\ PagesOf(fil.data) \in Nat
    BY <1>1, FreePagesInt, PagesOfIs DEF Sound
  <2> HIDE DEF data, fil
  <2> QED
    BY <2>1, <2>2, <1>3
<1> HIDE DEF new, c, data
<1>11. Sound(t) /\ Open(t) = Open(s)
  <2>1. new.pos <= Len(new.data)
    BY <1>1, <1>2, <1>7
  <2> QED
    BY <2>1, <1>5, <1>7, <1>8, <1>9, <1>10, FilChanges
<1>12. ASSUME NEW g \in Open(s) PROVE t.fdtofil[g].name = s.fdtofil[g].name
  BY <1>1, <1>7, <1>8 DEF Open, FileSystems
<1> QED
  BY <1>11, <1>12 DEF StaysOpen, t

LEMMA TruncateTo ==
  ASSUME NEW s, Sound(s), NEW h \in Open(s), NEW length \in Nat
  PROVE  StaysOpen(s, truncate_to(s, h, length))
<1> DEFINE t == seek_to(s, h, length)
<1>1. StaysOpen(s, t)
  BY SeekTo
<1>2. truncate_to(s, h, length) = f_truncate(t, h)
  BY DEF truncate_to
<1> HIDE DEF t
<1>3. StaysOpen(t, f_truncate(t, h))
  BY <1>1, Truncated DEF StaysOpen
<1> QED
  BY <1>1, <1>2, <1>3, StaysOpenTwice

LEMMA CloseFile ==
  ASSUME NEW s, Sound(s), NEW h \in Handles
  PROVE  LET t == close_file(s, h)
         IN /\ Sound(t)
            /\ Open(t) = Open(s) \ {h}
            /\ \A g \in Open(t) : t.fdtofil[g] = s.fdtofil[g]
<1>1. CASE h \in Open(s)
  <2>1. close_file(s, h) = f_close(s, h)
    BY <1>1, Zenon DEF close_file, Open
  <2>2. /\ Sound(f_close(s, h))
        /\ Open(f_close(s, h)) = Open(s) \ {h}
        /\ \A g \in Open(f_close(s, h)) : f_close(s, h).fdtofil[g] = s.fdtofil[g]
    BY <1>1, Closed
  <2> QED
    BY <2>1, <2>2
<1>2. CASE h \notin Open(s)
  <2>1. close_file(s, h) = s
    BY <1>2 DEF close_file, Open
  <2> QED
    BY <1>2, <2>1
<1> QED
  BY <1>1, <1>2

(* The loop of shutdown closes what is open, from the first handle on.       *)
closedUpTo(s, closed) ==
  [i \in 0..MAX_OPEN_FILES |-> IF i = 0 THEN s ELSE close_file(closed[i - 1], i - 1)]
closing(s) == CHOOSE closed : closed = closedUpTo(s, closed)

LEMMA ClosingStep ==
  ASSUME NEW s
  PROVE  closing(s) = closedUpTo(s, closing(s))
<1> DEFINE N == MAX_OPEN_FILES
           step(f, i) == IF i = 0 THEN s ELSE close_file(f[i - 1], i - 1)
           E == {m \in Nat : \E f : f = [i \in 0..m |-> step(f, i)]}
<1>1. N \in Nat
  BY FilesConstantsOK
<1>2. 0 \in E
  <2>1. [i \in 0..0 |-> s] = [i \in 0..0 |-> step([j \in 0..0 |-> s], i)]
    OBVIOUS
  <2> QED
    BY <2>1
<1>3. ASSUME NEW m \in 0..N - 1, m \in E PROVE m + 1 \in E
  <2>1. PICK f : f = [i \in 0..m |-> step(f, i)]
    BY <1>3
  <2> DEFINE g == [i \in 0..m + 1 |-> step(f, i)]
  <2>2. m \in Nat /\ m + 1 \in Nat
    OBVIOUS
  <2>3. \A i \in 0..m : g[i] = f[i]
    <3> HIDE DEF step
    <3> QED
      BY <2>1, <2>2
  <2>4. \A i \in 0..m + 1 : step(f, i) = step(g, i)
    <3> HIDE DEF g
    <3> QED
      BY <2>2, <2>3
  <2>5. g = [i \in 0..m + 1 |-> step(g, i)]
    <3>1. g = [i \in 0..m + 1 |-> g[i]]
      BY Zenon
    <3>2. \A i \in 0..m + 1 : g[i] = step(f, i)
      BY Zenon
    <3> HIDE DEF g, step
    <3> QED
      BY <2>4, <3>1, <3>2
  <2> HIDE DEF g, step
  <2> QED
    BY <2>2, <2>5
<1>4. N \in E
  <2> HIDE DEF E, N
  <2>1. 0..N \subseteq E
    BY <1>1, <1>2, <1>3, InductionTo
  <2> QED
    BY <1>1, <2>1
<1>5. PICK f : f = closedUpTo(s, f)
  BY <1>4, Zenon DEF closedUpTo
<1> QED
  BY <1>5, Zenon DEF closing

LEMMA ShutDown ==
  ASSUME NEW s, Sound(s)
  PROVE  Sound(shutdown(s)) /\ Open(shutdown(s)) = {}
<1> DEFINE N == MAX_OPEN_FILES
           f == closing(s)
           ok(i) == Sound(f[i]) /\ \A h \in Open(f[i]) : h >= i
           E == {i \in Nat : ok(i)}
<1>1. N \in Nat
  BY FilesConstantsOK
<1>2. \A i \in 0..N : f[i] = IF i = 0 THEN s ELSE close_file(f[i - 1], i - 1)
  <2>1. f = closedUpTo(s, f)
    BY ClosingStep
  <2> HIDE DEF f
  <2> QED
    BY <2>1 DEF closedUpTo
<1>3. shutdown(s) = [f[N] EXCEPT !.curfd = 0]
  BY Zenon DEF shutdown, closing, closedUpTo
<1> HIDE DEF f
<1>4. 0 \in E
  <2>1. f[0] = s
    BY <1>1, <1>2
  <2> QED
    BY <2>1 DEF Open, Handles
<1>5. ASSUME NEW i \in 0..N - 1, i \in E PROVE i + 1 \in E
  <2>1. i \in Handles /\ i + 1 \in 0..N /\ i + 1 # 0 /\ i + 1 - 1 = i /\ i + 1 \in Nat
    BY <1>1 DEF Handles
  <2>2. f[i + 1] = close_file(f[i], i)
    BY <1>2, <2>1
  <2>3. Sound(f[i]) /\ \A h \in Open(f[i]) : h >= i
    BY <1>5
  <2>4. Sound(close_file(f[i], i)) /\ Open(close_file(f[i], i)) = Open(f[i]) \ {i}
    BY <2>1, <2>3, CloseFile
  <2>5. \A h \in Open(f[i + 1]) : h >= i + 1
    <3>1. \A h \in Open(f[i]) : h \in Int
      BY DEF Open, Handles
    <3> QED
      BY <2>2, <2>3, <2>4, <3>1
  <2> QED
    BY <2>1, <2>2, <2>4, <2>5
<1>6. ok(N)
  <2> HIDE DEF ok, N
  <2>1. 0..N \subseteq E
    <3> HIDE DEF E
    <3> QED
      BY <1>1, <1>4, <1>5, InductionTo
  <2> QED
    BY <1>1, <2>1
<1>7. Open(f[N]) = {}
  BY <1>1, <1>6 DEF Open, Handles
<1>8. 0 \in 0..MAX_OPEN_FILES
  BY <1>1
<1> QED
  BY <1>3, <1>6, <1>7, <1>8, SearchFrom

(* A power failure leaves every file as it is on the card.                   *)
LEMMA PowerLost ==
  ASSUME NEW s, Sound(s)
  PROVE  Sound(powerLoss(s)) /\ Open(powerLoss(s)) = {}
<1> DEFINE t == powerLoss(s)
<1>1. s \in FileSystems /\ OpenOnce(s)
  BY DEF Sound
<1>2. t \in FileSystems /\ t.card = s.card /\ t.fdtofil = [h \in Handles |-> NO_FIL]
  <2>1. t = [card |-> s.card, fdtofil |-> [h \in Handles |-> NO_FIL], curfd |-> 0]
    <3> DEFINE f == [h \in Handles |-> NO_FIL]
    <3>1. t = [s EXCEPT !.fdtofil = f, !.curfd = 0]
      BY DEF powerLoss
    <3> HIDE DEF f, t
    <3>2. t = [card |-> s.card, fdtofil |-> f, curfd |-> 0]
      BY <1>1, <3>1 DEF FileSystems
    <3> QED
      BY <3>2 DEF f
  <2>2. 0 \in 0..MAX_OPEN_FILES
    BY FilesConstantsOK
  <2>3. [h \in Handles |-> NO_FIL] \in [Handles -> FIL \cup {NO_FIL}]
    OBVIOUS
  <2>4. s.card \in [Names -> Seq(Cells) \cup {NoFile}]
    BY <1>1 DEF FileSystems
  <2> HIDE DEF t
  <2> QED
    BY <2>1, <2>2, <2>3, <2>4 DEF FileSystems
<1> HIDE DEF t
<1>3. Open(t) = {} /\ OpenOnce(t) /\ OpenOnCard(t)
  BY <1>2 DEF Open, OpenOnce, OpenOnCard
<1>4. ASSUME NEW n \in Names PROVE weight(t, n) <= weight(s, n)
  <2>1. Live(t, n) = IF s.card[n] = NoFile THEN <<>> ELSE s.card[n]
    BY <1>2, <1>3, LiveIs DEF IsOpen
  <2>2. weight(s, n) \in Nat /\ weight(t, n) \in Nat
    BY <1>1, <1>2, <1>3, LiveIs
  <2>3. CASE IsOpen(s, n)
    <3>1. PICK h \in Open(s) : s.fdtofil[h].name = n
      BY <2>3 DEF IsOpen
    <3>2. Live(s, n) = s.fdtofil[h].data
      BY <3>1, <1>1, LiveOpen
    <3>3. s.card[n] # NoFile /\ PagesOf(s.card[n]) <= PagesOf(s.fdtofil[h].data)
      BY <3>1 DEF Sound, OpenOnCard
    <3> QED
      BY <2>1, <3>2, <3>3 DEF weight
  <2>4. CASE ~IsOpen(s, n)
    <3>1. Live(s, n) = IF s.card[n] = NoFile THEN <<>> ELSE s.card[n]
      BY <2>4, <1>1, LiveIs
    <3> QED
      BY <2>1, <2>2, <3>1 DEF weight
  <2> QED
    BY <2>3, <2>4
<1>5. \A n \in Names : weight(s, n) \in Int /\ weight(t, n) \in Int
  BY <1>1, <1>2, <1>3, LiveIs
<1>6. FreePages(s) \in Int /\ FreePages(t) \in Int /\ FreePages(t) >= FreePages(s)
  BY <1>4, <1>5, NoFewerPages
<1> QED
  BY <1>2, <1>3, <1>6 DEF Sound, t

----------------------------------------------------------------------------
(* The inductive invariant: the file system is sound, and the handles that   *)
(* are open are those that the PosixFiles hold.                              *)

Held(f) == descriptor[f] # NilPointer

Owned ==
  /\ \A f \in PosixFiles : Held(f) => /\ descriptor[f] \in Open(fs)
                                      /\ fs.fdtofil[descriptor[f]].name = fileName[f]
  /\ \A f, g \in PosixFiles : Held(f) /\ Held(g) /\ descriptor[f] = descriptor[g] => f = g
  /\ \A h \in Open(fs) : \E f \in PosixFiles : Held(f) /\ descriptor[f] = h

FilesInv ==
  /\ Sound(fs)
  /\ descriptor \in [PosixFiles -> Handles \cup {NilPointer}]
  /\ fileName \in [PosixFiles -> UserNames]
  /\ Owned

LEMMA InvGivesOwned ==
  ASSUME FilesInv
  PROVE  HandlesOwned
<1>1. FilesTypeOK
  <2>1. fs.curfd \in 0..MAX_OPEN_FILES
    BY DEF FilesInv, Sound, FileSystems
  <2>2. ASSUME NEW h \in Handles, fs.fdtofil[h] # NO_FIL
        PROVE  /\ fs.fdtofil[h].name \in Names
               /\ fs.fdtofil[h].pos \in 0..Len(fs.fdtofil[h].data)
    <3>1. h \in Open(fs)
      BY <2>2 DEF Open
    <3>2. /\ fs.fdtofil[h].name \in Names
          /\ fs.fdtofil[h].pos \in Nat
          /\ fs.fdtofil[h].data \in Seq(Cells)
          /\ fs.fdtofil[h].pos <= Len(fs.fdtofil[h].data)
      BY <3>1, OpenFil DEF FilesInv
    <3> QED
      BY <3>2
  <2> QED
    BY <2>1, <2>2 DEF FilesTypeOK, FilesInv, Sound
<1>2. \A h : h \in Open(fs) <=> h \in Handles /\ fs.fdtofil[h] # NO_FIL
  BY DEF Open
<1>3. \A f \in PosixFiles : descriptor[f] # NilPointer =>
        /\ fs.fdtofil[descriptor[f]] # NO_FIL
        /\ fs.fdtofil[descriptor[f]].name = fileName[f]
  BY <1>2 DEF FilesInv, Owned, Held
<1>4. \A f, g \in PosixFiles : /\ descriptor[f] # NilPointer /\ descriptor[g] # NilPointer
                              /\ descriptor[f] = descriptor[g] => f = g
  BY DEF FilesInv, Owned, Held
<1>5. {h \in Handles : fs.fdtofil[h] # NO_FIL}
        = {descriptor[f] : f \in {g \in PosixFiles : descriptor[g] # NilPointer}}
  <2>1. ASSUME NEW h \in Handles, fs.fdtofil[h] # NO_FIL
        PROVE  \E f \in PosixFiles : descriptor[f] # NilPointer /\ descriptor[f] = h
    BY <2>1, <1>2 DEF FilesInv, Owned, Held
  <2>2. ASSUME NEW f \in PosixFiles, descriptor[f] # NilPointer
        PROVE  descriptor[f] \in Handles /\ fs.fdtofil[descriptor[f]] # NO_FIL
    BY <2>2, <1>2 DEF FilesInv, Owned, Held
  <2> QED
    BY <2>1, <2>2
<1> QED
  BY <1>1, <1>3, <1>4, <1>5 DEF HandlesOwned

LEMMA InvGivesFound ==
  ASSUME FilesInv
  PROVE  FoundUnlessFull
BY GetfdIs DEF FilesInv, Sound, FoundUnlessFull, Open

(* A name that no PosixFile has open is not open.                            *)
LEMMA NotInUse ==
  ASSUME FilesInv, NEW n, ~InUse(n)
  PROVE  ~IsOpen(fs, n)
BY DEF FilesInv, Owned, Held, InUse, IsOpen

LEMMA HeldFil ==
  ASSUME FilesInv, NEW f \in PosixFiles, descriptor[f] # NilPointer
  PROVE  descriptor[f] \in Open(fs)
BY DEF FilesInv, Owned, Held

(* Steps that open and close nothing.                                        *)
LEMMA SameHandles ==
  ASSUME FilesInv, StaysOpen(fs, fs'), UNCHANGED <<fileName, descriptor>>
  PROVE  FilesInv'
<1>1. Owned'
  BY DEF FilesInv, Owned, Held, StaysOpen
<1> QED
  BY <1>1 DEF FilesInv, StaysOpen

(* Steps in which a PosixFile gives back its handle, if it has one, and may  *)
(* get another.                                                              *)
Rehandled(f, n, k, S) ==
  /\ S = Open(fs) \ {descriptor[f]}
  /\ Sound(fs')
  /\ k = NoHandle => Open(fs') = S
  /\ k # NoHandle => /\ k \notin S
                     /\ Open(fs') = S \cup {k}
                     /\ fs'.fdtofil[k].name = n
  /\ \A h \in S : fs'.fdtofil[h].name = fs.fdtofil[h].name
  /\ descriptor' = [descriptor EXCEPT ![f] = IF k = NoHandle THEN NilPointer ELSE k]
  /\ fileName' = [fileName EXCEPT ![f] = n]

LEMMA NewHandle ==
  ASSUME FilesInv, NEW f \in PosixFiles, NEW n \in UserNames,
         NEW k \in Handles \cup {NoHandle}, NEW S, Rehandled(f, n, k, S)
  PROVE  FilesInv'
<1> USE DEF Rehandled
<1> DEFINE d == IF k = NoHandle THEN NilPointer ELSE k
<1>1. /\ descriptor \in [PosixFiles -> Handles \cup {NilPointer}]
      /\ fileName \in [PosixFiles -> UserNames]
  BY DEF FilesInv
<1>2. d \in Handles \cup {NilPointer} /\ (d = NilPointer <=> k = NoHandle)
  BY FilesConstantsOK DEF Handles, NoHandle
<1>3. /\ descriptor' \in [PosixFiles -> Handles \cup {NilPointer}]
      /\ fileName' \in [PosixFiles -> UserNames]
      /\ \A g \in PosixFiles : descriptor'[g] = IF g = f THEN d ELSE descriptor[g]
      /\ \A g \in PosixFiles : fileName'[g] = IF g = f THEN n ELSE fileName[g]
  <2> HIDE DEF d
  <2>1. descriptor' = [descriptor EXCEPT ![f] = d]
    BY DEF d
  <2> QED
    BY <2>1, <1>1, <1>2
<1>4. \A g \in PosixFiles : Held(g) =>
         /\ descriptor[g] \in Open(fs)
         /\ fs.fdtofil[descriptor[g]].name = fileName[g]
         /\ g # f => descriptor[g] \in S
  BY DEF FilesInv, Owned, Held
<1>5. d # NilPointer => d = k /\ k # NoHandle
  BY <1>2
<1> HIDE DEF d
<1>6. ASSUME NEW g \in PosixFiles, descriptor'[g] # NilPointer
      PROVE  /\ descriptor'[g] \in Open(fs')
             /\ fs'.fdtofil[descriptor'[g]].name = fileName'[g]
             /\ g # f => descriptor'[g] \in S
  <2>1. CASE g = f
    <3>1. descriptor'[g] = k /\ k # NoHandle /\ fileName'[g] = n
      BY <1>3, <1>5, <1>6, <2>1
    <3> QED
      BY <2>1, <3>1
  <2>2. CASE g # f
    <3>1. descriptor'[g] = descriptor[g] /\ fileName'[g] = fileName[g] /\ Held(g)
      BY <1>3, <1>6, <2>2 DEF Held
    <3>2. descriptor[g] \in S /\ fs.fdtofil[descriptor[g]].name = fileName[g]
      BY <1>4, <2>2, <3>1
    <3>3. S \subseteq Open(fs')
      BY DEF NoHandle
    <3> QED
      BY <3>1, <3>2, <3>3
  <2> QED
    BY <2>1, <2>2
<1>7. ASSUME NEW g \in PosixFiles, NEW e \in PosixFiles,
             descriptor'[g] # NilPointer, descriptor'[e] # NilPointer,
             descriptor'[g] = descriptor'[e]
      PROVE  g = e
  <2>1. CASE g = f /\ e # f
    <3>1. descriptor'[g] = k /\ k # NoHandle /\ descriptor'[e] \in S
      BY <1>3, <1>5, <1>6, <1>7, <2>1
    <3> QED
      BY <3>1, <1>7
  <2>2. CASE e = f /\ g # f
    <3>1. descriptor'[e] = k /\ k # NoHandle /\ descriptor'[g] \in S
      BY <1>3, <1>5, <1>6, <1>7, <2>2
    <3> QED
      BY <3>1, <1>7
  <2>3. CASE g # f /\ e # f
    <3>1. descriptor'[g] = descriptor[g] /\ descriptor'[e] = descriptor[e]
      BY <1>3, <2>3
    <3> QED
      BY <3>1, <1>7 DEF FilesInv, Owned, Held
  <2> QED
    BY <2>1, <2>2, <2>3
<1>8. ASSUME NEW h \in Open(fs')
      PROVE  \E g \in PosixFiles : descriptor'[g] # NilPointer /\ descriptor'[g] = h
  <2>1. CASE h \in S
    <3>1. PICK g \in PosixFiles : descriptor[g] # NilPointer /\ descriptor[g] = h
      BY <2>1 DEF FilesInv, Owned, Held
    <3>2. g # f
      BY <2>1, <3>1
    <3> QED
      BY <3>1, <3>2, <1>3
  <2>2. CASE h \notin S
    <3>1. k # NoHandle /\ h = k
      BY <2>2
    <3>2. descriptor'[f] = k /\ d # NilPointer
      BY <1>2, <1>3, <1>5, <3>1
    <3> QED
      BY <1>3, <3>1, <3>2
  <2> QED
    BY <2>1, <2>2
<1>9. Owned'
  BY <1>6, <1>7, <1>8 DEF Owned, Held
<1> QED
  BY <1>3, <1>9 DEF FilesInv

----------------------------------------------------------------------------
(* The primitives.                                                           *)

LEMMA InitInv == FilesInit([n \in Names |-> NoFile]) => FilesInv
<1> SUFFICES ASSUME FilesInit([n \in Names |-> NoFile]) PROVE FilesInv
  OBVIOUS
<1> USE FilesConstantsOK
<1>1. fs = [card |-> [n \in Names |-> NoFile], fdtofil |-> [h \in Handles |-> NO_FIL], curfd |-> 0]
  BY DEF FilesInit
<1>2. fs \in FileSystems
  <2>1. [n \in Names |-> NoFile] \in [Names -> Seq(Cells) \cup {NoFile}]
    OBVIOUS
  <2>2. [h \in Handles |-> NO_FIL] \in [Handles -> FIL \cup {NO_FIL}]
    OBVIOUS
  <2>3. 0 \in 0..MAX_OPEN_FILES
    OBVIOUS
  <2> QED
    BY <1>1, <2>1, <2>2, <2>3 DEF FileSystems
<1>3. Open(fs) = {} /\ \A n \in Names : fs.card[n] = NoFile
  BY <1>1 DEF Open
<1>4. OpenOnCard(fs) /\ OpenOnce(fs)
  BY <1>3 DEF OpenOnCard, OpenOnce
<1>5. \A n \in Names : weight(fs, n) = 0
  <2> SUFFICES ASSUME NEW n \in Names PROVE weight(fs, n) = 0
    OBVIOUS
  <2>1. Live(fs, n) = <<>>
    BY <1>2, <1>3, <1>4, LiveIs DEF IsOpen
  <2>2. <<>> \in Seq(Cells)
    OBVIOUS
  <2> QED
    BY <2>1, <2>2, PagesOfIs DEF weight
<1>6. FreePages(fs) >= 0
  <2>1. pagesOf(fs)[Names] = 0
    BY <1>5, NoPages
  <2> QED
    BY <2>1, FreePagesIs
<1>7. descriptor = [f \in PosixFiles |-> NilPointer] /\ fileName \in [PosixFiles -> UserNames]
  BY DEF FilesInit
<1>8. Owned
  BY <1>3, <1>7 DEF Owned, Held
<1> QED
  BY <1>2, <1>4, <1>6, <1>7, <1>8 DEF FilesInv, Sound

(* open_file and create_file, when the file has an entry on the card.        *)
LEMMA OpenedInv ==
  ASSUME FilesInv, NEW f \in PosixFiles, MayOpen(f), NEW s, Sound(s),
         Open(s) = Open(fs), s.fdtofil = fs.fdtofil, s.card[fileName[f]] # NoFile,
         Opened(f, Handle(s, fileName[f], s.card[fileName[f]]))
  PROVE  FilesInv'
<1> DEFINE n == fileName[f]
           r == Handle(s, n, s.card[n])
           k == r.fd
           S == Open(fs) \ {descriptor[f]}
<1>1. n \in UserNames /\ n \in Names /\ s.card[n] # NoFile
  BY FilesConstantsOK DEF FilesInv
<1>2. ~IsOpen(s, n)
  <2>1. ~IsOpen(fs, n)
    BY NotInUse DEF MayOpen
  <2> QED
    BY <2>1 DEF IsOpen
<1>3. /\ Sound(r.fs)
      /\ r.fd \in (Handles \ Open(s)) \cup {NoHandle}
      /\ r.fd = NoHandle => Open(s) = Handles /\ r.fs.fdtofil = s.fdtofil
      /\ r.fd # NoHandle => /\ Open(r.fs) = Open(s) \cup {r.fd}
                            /\ r.fs.fdtofil[r.fd] = Fresh(s, n)
      /\ \A h \in Open(s) : r.fs.fdtofil[h] = s.fdtofil[h]
  <2> HIDE DEF n
  <2> QED
    BY <1>1, <1>2, Handled
<1>4. /\ fs' = r.fs
      /\ descriptor' = [descriptor EXCEPT ![f] = IF k = NoHandle THEN NilPointer ELSE k]
      /\ fileName' = fileName
  BY Zenon DEF Opened
<1> HIDE DEF r, n
<1>5. Open(fs) = S
  BY FilesConstantsOK DEF MayOpen, Open, Handles
<1>6. k = NoHandle => Open(fs') = S
  BY <1>3, <1>4, <1>5 DEF Open
<1>7. k # NoHandle => k \notin S /\ Open(fs') = S \cup {k} /\ fs'.fdtofil[k].name = n
  BY <1>3, <1>4, <1>5 DEF Fresh
<1>8. \A h \in S : fs'.fdtofil[h].name = fs.fdtofil[h].name
  BY <1>3, <1>4, <1>5
<1>9. fileName' = [fileName EXCEPT ![f] = n]
  BY <1>4 DEF n, FilesInv
<1>10. k \in Handles \cup {NoHandle} /\ Sound(fs')
  BY <1>3, <1>4
<1>11. S = Open(fs) \ {descriptor[f]} /\ n \in UserNames
  BY <1>1
<1> HIDE DEF k, S
<1>12. Rehandled(f, n, k, S)
  BY <1>4, <1>6, <1>7, <1>8, <1>9, <1>10, <1>11, Zenon DEF Rehandled
<1> QED
  BY <1>10, <1>11, <1>12, NewHandle, Zenon

LEMMA OpenFileInv ==
  ASSUME FilesInv, NEW f \in PosixFiles, openFile(f)
  PROVE  FilesInv'
<1>1. MayOpen(f) /\ Opened(f, open_file(fs, fileName[f])) /\ Sound(fs)
  BY DEF openFile, FilesInv
<1>2. CASE fs.card[fileName[f]] = NoFile
  <2>1. open_file(fs, fileName[f]) = [fd |-> NoHandle, fs |-> fs]
    BY <1>2, Zenon DEF open_file
  <2>2. fs' = fs /\ fileName' = fileName
        /\ descriptor' = [descriptor EXCEPT ![f] = NilPointer]
    BY <1>1, <2>1 DEF Opened
  <2>3. descriptor' = descriptor
    BY <1>1, <2>2 DEF MayOpen, FilesInv
  <2> QED
    BY <2>2, <2>3, SameHandles DEF StaysOpen, FilesInv
<1>3. CASE fs.card[fileName[f]] # NoFile
  <2>1. open_file(fs, fileName[f]) = Handle(fs, fileName[f], fs.card[fileName[f]])
    BY <1>3, Zenon DEF open_file
  <2> QED
    BY <1>1, <1>3, <2>1, OpenedInv
<1> QED
  BY <1>2, <1>3

LEMMA CreateFileInv ==
  ASSUME FilesInv, NEW f \in PosixFiles, createFile(f)
  PROVE  FilesInv'
<1> DEFINE n == fileName[f]
           c == <<>>
           s == WithEntry(fs, n, c)
<1>1. MayOpen(f) /\ Opened(f, create_file(fs, n)) /\ Sound(fs)
  BY DEF createFile, FilesInv
<1>2. n \in Names /\ ~IsOpen(fs, n)
  BY <1>1, FilesConstantsOK, NotInUse DEF FilesInv, MayOpen
<1>3. c \in Seq(Cells) /\ c \in Seq(Cells) \cup {NoFile} /\ pagesAt(c) = 0
  <2>1. c \in Seq(Cells)
    OBVIOUS
  <2>2. PagesOf(c) = 0
    BY <2>1, PagesOfIs
  <2> HIDE DEF c
  <2> QED
    BY <2>1, <2>2 DEF pagesAt
<1>4. weight(fs, n) \in Nat /\ FreePages(fs) \in Nat
  BY <1>1, <1>2, LiveIs, FreePagesInt DEF Sound
<1>5. create_file(fs, n) = Handle(s, n, c)
  BY Zenon DEF create_file, WithEntry
<1> HIDE DEF n, c
<1>9. pagesAt(c) - weight(fs, n) <= FreePages(fs)
  BY <1>3, <1>4
<1>6. /\ Sound(s)
      /\ s.fdtofil = fs.fdtofil /\ s.card = [fs.card EXCEPT ![n] = c]
      /\ Open(s) = Open(fs)
  BY <1>1, <1>2, <1>3, <1>9, EntryChanges
<1> HIDE DEF s
<1>7. s.card[n] = c /\ c # NoFile
  BY <1>1, <1>2, <1>3, <1>6, FilesConstantsOK DEF Sound, FileSystems
<1>8. Opened(f, Handle(s, n, s.card[n]))
  BY <1>1, <1>5, <1>7
<1> QED
  BY <1>1, <1>6, <1>7, <1>8, OpenedInv DEF n

LEMMA CloseFileInv ==
  ASSUME FilesInv, NEW f \in PosixFiles, closeFile(f)
  PROVE  FilesInv'
<1> DEFINE d == descriptor[f]
           t == close_file(fs, d)
           S == Open(fs) \ {d}
<1>1. /\ d \in Open(fs) /\ d \in Handles /\ Sound(fs)
      /\ fs' = t
      /\ descriptor' = [descriptor EXCEPT ![f] = NilPointer]
      /\ fileName' = fileName
  BY HeldFil DEF closeFile, FilesInv, Open
<1> HIDE DEF d
<1>2. Sound(t) /\ Open(t) = S /\ \A g \in Open(t) : t.fdtofil[g] = fs.fdtofil[g]
  BY <1>1, CloseFile
<1> HIDE DEF t
<1>3. \A h \in S : fs'.fdtofil[h].name = fs.fdtofil[h].name
  BY <1>1, <1>2
<1>4. Open(fs') = S /\ Sound(fs')
  BY <1>1, <1>2
<1>5. fileName[f] \in UserNames /\ fileName' = [fileName EXCEPT ![f] = fileName[f]]
  BY <1>1 DEF FilesInv
<1> DEFINE k == NoHandle
<1>6. /\ k \in Handles \cup {NoHandle}
      /\ descriptor' = [descriptor EXCEPT ![f] = IF k = NoHandle THEN NilPointer ELSE k]
      /\ k = NoHandle
  BY <1>1
<1>7. S = Open(fs) \ {descriptor[f]}
  BY DEF d
<1> HIDE DEF k, S
<1>8. Rehandled(f, fileName[f], k, S)
  BY <1>3, <1>4, <1>5, <1>6, <1>7, Zenon DEF Rehandled
<1> QED
  BY <1>5, <1>6, <1>8, NewHandle, Zenon

LEMMA PositionIs ==
  ASSUME NEW page \in 1..MaxPages
  PROVE  PositionOf(page) \in Nat
<1>1. page - 1 \in Nat /\ PageSize \in Nat
  BY FilesConstantsOK
<1> QED
  BY <1>1 DEF PositionOf

LEMMA ReadPageInv ==
  ASSUME FilesInv, NEW f \in PosixFiles, NEW page \in 1..MaxPages, readPage(f, page)
  PROVE  FilesInv'
<1> DEFINE d == descriptor[f]
           t == seek_to(fs, d, PositionOf(page))
           fil == t.fdtofil[d]
           k == Len(f_read(fil, PageSize))
           new == [fil EXCEPT !.pos = @ + k]
<1>1. d \in Open(fs) /\ Sound(fs)
  BY HeldFil DEF readPage, FilesInv
<1>2. StaysOpen(fs, t)
  BY <1>1, PositionIs, SeekTo
<1>3. fs' = WithFil(t, d, new)
  BY DEF readPage, WithFil
<1> HIDE DEF t
<1>4. d \in Open(t) /\ Sound(t)
  BY <1>1, <1>2 DEF StaysOpen
<1>5. /\ fil \in FIL /\ fil.pos \in Nat /\ fil.pos <= Len(fil.data) /\ fil.data \in Seq(Cells)
  BY <1>4, OpenFil
<1> HIDE DEF fil
<1>6. k \in Nat /\ fil.pos + k <= Len(fil.data)
  <2> DEFINE L == Len(fil.data)
             last == Min({fil.pos + PageSize, L})
  <2>1. L \in Nat /\ PageSize \in Nat /\ L \in Int /\ fil.pos + PageSize \in Int
    BY <1>5, FilesConstantsOK
  <2>2. last = IF fil.pos + PageSize <= L THEN fil.pos + PageSize ELSE L
    <3> HIDE DEF L
    <3> QED
      BY <2>1, MinMaxOfTwo, Zenon
  <2>3. fil.pos <= last /\ last <= L /\ last \in Nat
    <3> HIDE DEF last
    <3> QED
      BY <2>1, <2>2, <1>5
  <2>4. k = Len(SubSeq(fil.data, fil.pos + 1, last))
    BY DEF f_read
  <2> HIDE DEF last
  <2>5. k = last - fil.pos
    BY <2>3, <2>4, <1>5
  <2> HIDE DEF k
  <2> QED
    BY <2>1, <2>3, <2>5, <1>5
<1> HIDE DEF k
<1>7. new \in FIL /\ new.name = fil.name /\ new.data = fil.data /\ new.pos = fil.pos + k
  BY <1>5, <1>6 DEF FIL
<1>8. PagesOf(fil.data) \in Nat /\ FreePages(t) \in Int /\ FreePages(t) >= 0
  BY <1>4, <1>5, PagesOfIs, FreePagesInt DEF Sound
<1> HIDE DEF new
<1>9. Extends(t, fil, new)
  BY <1>6, <1>7, <1>8 DEF Extends
<1>10. StaysOpen(t, WithFil(t, d, new))
  BY <1>4, <1>9, FilMoves, Zenon DEF fil
<1>11. StaysOpen(fs, fs')
  BY <1>2, <1>3, <1>10, StaysOpenTwice
<1> QED
  BY <1>11, SameHandles DEF readPage

LEMMA WritePageInv ==
  ASSUME FilesInv, NEW f \in PosixFiles, NEW page \in 1..MaxPages, NEW n \in Bytes,
         writePage(f, page, n)
  PROVE  FilesInv'
<1> DEFINE d == descriptor[f]
           t == seek_to(fs, d, PositionOf(page))
           cells == [i \in 1..n |-> 1]
<1>1. d \in Open(fs) /\ Sound(fs)
  BY HeldFil DEF writePage, FilesInv
<1>2. StaysOpen(fs, t)
  BY <1>1, PositionIs, SeekTo
<1>3. fs' = write(t, d, cells).fs
  BY DEF writePage
<1>4. cells \in Seq(Cells)
  <2>1. n \in Nat /\ 1 \in Cells
    BY FilesConstantsOK DEF Cells
  <2> QED
    BY <2>1
<1> HIDE DEF t, cells
<1>5. d \in Open(t) /\ Sound(t)
  BY <1>1, <1>2 DEF StaysOpen
<1>6. StaysOpen(t, fs')
  BY <1>3, <1>4, <1>5, WriteTo
<1>7. StaysOpen(fs, fs')
  BY <1>2, <1>6, StaysOpenTwice
<1> QED
  BY <1>7, SameHandles DEF writePage

LEMMA TruncatePageInv ==
  ASSUME FilesInv, NEW f \in PosixFiles, NEW page \in 1..MaxPages, NEW n \in Bytes,
         truncatePage(f, page, n)
  PROVE  FilesInv'
<1>1. descriptor[f] \in Open(fs) /\ Sound(fs)
  BY HeldFil DEF truncatePage, FilesInv
<1>2. PositionOf(page) + n \in Nat
  BY PositionIs, FilesConstantsOK
<1>3. StaysOpen(fs, fs')
  BY <1>1, <1>2, TruncateTo DEF truncatePage
<1> QED
  BY <1>3, SameHandles DEF truncatePage

LEMMA DeleteFileInv ==
  ASSUME FilesInv, NEW n \in UserNames, deleteFile(n)
  PROVE  FilesInv'
<1> DEFINE t == WithEntry(fs, n, NoFile)
<1>1. fs' = t /\ ~InUse(n) /\ Sound(fs) /\ n \in Names
  BY FilesConstantsOK DEF deleteFile, WithEntry, FilesInv
<1>2. pagesAt(NoFile) = 0
  BY DEF pagesAt
<1>3. weight(fs, n) \in Nat /\ FreePages(fs) \in Nat
  BY <1>1, LiveIs, FreePagesInt DEF Sound
<1>4. pagesAt(NoFile) - weight(fs, n) <= FreePages(fs)
  BY <1>2, <1>3
<1>5. ~IsOpen(fs, n)
  BY <1>1, NotInUse
<1>6. Sound(t) /\ t.fdtofil = fs.fdtofil /\ Open(t) = Open(fs)
  BY <1>1, <1>4, <1>5, EntryChanges
<1> HIDE DEF t
<1>7. StaysOpen(fs, fs')
  BY <1>1, <1>6 DEF StaysOpen
<1> QED
  BY <1>7, SameHandles DEF deleteFile

LEMMA QuitInv ==
  ASSUME FilesInv, quitFiles \/ loseFiles
  PROVE  FilesInv'
<1>1. Sound(fs') /\ Open(fs') = {}
  BY ShutDown, PowerLost DEF FilesInv, quitFiles, loseFiles
<1>2. descriptor' = [f \in PosixFiles |-> NilPointer] /\ fileName' = fileName
  BY DEF quitFiles, loseFiles, NoDescriptors
<1>3. Owned'
  BY <1>1, <1>2 DEF Owned, Held
<1> QED
  BY <1>1, <1>2, <1>3 DEF FilesInv

(* Moving the entry of a file that is not open to a name that has none.      *)
LEMMA Renamed ==
  ASSUME NEW s, Sound(s), NEW old \in Names, NEW new \in Names,
         ~IsOpen(s, old), CanRename(s, old, new)
  PROVE  LET t == rename_file(s, old, new)
         IN /\ Sound(t)
            /\ t.fdtofil = s.fdtofil
            /\ Open(t) = Open(s)
            /\ ~IsOpen(t, new)
            /\ t.card[new] = s.card[old]
<1> DEFINE c == s.card[old]
           s1 == WithEntry(s, old, NoFile)
           t == WithEntry(s1, new, c)
<1>1. /\ s \in FileSystems /\ c \in Seq(Cells) /\ c # NoFile
      /\ s.card[new] = NoFile /\ old # new
  BY DEF Sound, FileSystems, CanRename
<1>2. ~IsOpen(s, new)
  BY <1>1 DEF IsOpen, Sound, OpenOnCard
<1>3. rename_file(s, old, new) = t
  BY <1>1 DEF rename_file, WithEntry, FileSystems
<1>4. weight(s, old) = PagesOf(c) /\ PagesOf(c) \in Nat /\ FreePages(s) \in Int
      /\ FreePages(s) >= 0
  <2>1. Live(s, old) = c
    BY <1>1, LiveIs DEF Sound
  <2> QED
    BY <2>1, <1>1, PagesOfIs, FreePagesInt DEF weight, Sound
<1>5. pagesAt(NoFile) = 0 /\ pagesAt(c) = PagesOf(c)
  BY <1>1 DEF pagesAt
<1> HIDE DEF c
<1>6. pagesAt(NoFile) - weight(s, old) <= FreePages(s)
  BY <1>4, <1>5
<1>7. /\ Sound(s1)
      /\ FreePages(s1) >= FreePages(s) + weight(s, old) - pagesAt(NoFile)
      /\ s1.fdtofil = s.fdtofil /\ s1.card = [s.card EXCEPT ![old] = NoFile]
      /\ Open(s1) = Open(s)
  BY <1>6, EntryChanges
<1> HIDE DEF s1
<1>8. ~IsOpen(s1, new)
  BY <1>2, <1>7 DEF IsOpen
<1>9. pagesAt(c) - weight(s1, new) <= FreePages(s1)
  <2>1. weight(s1, new) \in Nat /\ FreePages(s1) \in Int
    BY <1>7, LiveIs, FreePagesInt DEF Sound
  <2> QED
    BY <2>1, <1>4, <1>5, <1>7
<1>10. /\ Sound(t)
       /\ t.fdtofil = s1.fdtofil /\ t.card = [s1.card EXCEPT ![new] = c]
       /\ Open(t) = Open(s1)
  BY <1>1, <1>7, <1>8, <1>9, EntryChanges
<1> HIDE DEF t
<1>11. ~IsOpen(t, new)
  BY <1>8, <1>10 DEF IsOpen
<1>12. t.card[new] = c
  BY <1>7, <1>10 DEF Sound, FileSystems
<1> QED
  BY <1>3, <1>7, <1>10, <1>11, <1>12 DEF c

(* The file that is opened again, at the position that it had.               *)
LEMMA Reopened ==
  ASSUME NEW s, Sound(s), NEW n \in Names, ~IsOpen(s, n), s.card[n] # NoFile,
         NEW position \in Nat, position <= Len(s.card[n]),
         NEW d \in Handles, d \notin Open(s)
  PROVE  LET r == reopen(s, n, position)
         IN /\ Sound(r.fs)
            /\ r.fd \in Handles \ Open(s)
            /\ r.fd # NoHandle
            /\ Open(r.fs) = Open(s) \cup {r.fd}
            /\ r.fs.fdtofil[r.fd] = [name |-> n, pos |-> position, data |-> s.card[n]]
            /\ \A h \in Open(s) : r.fs.fdtofil[h].name = s.fdtofil[h].name
<1> DEFINE o == open_file(s, n)
           k == o.fd
           t == o.fs
           u == seek_to(t, k, position)
           r == reopen(s, n, position)
<1>1. o = Handle(s, n, s.card[n])
  BY Zenon DEF open_file
<1>2. /\ Sound(t)
      /\ k \in (Handles \ Open(s)) \cup {NoHandle}
      /\ k = NoHandle => Open(s) = Handles
      /\ k # NoHandle => Open(t) = Open(s) \cup {k} /\ t.fdtofil[k] = Fresh(s, n)
      /\ \A h \in Open(s) : t.fdtofil[h] = s.fdtofil[h]
  <2> HIDE DEF o
  <2> QED
    BY <1>1, Handled
<1>3. k # NoHandle /\ k \in Handles \ Open(s)
  <2> HIDE DEF k, t
  <2> QED
    BY <1>2
<1>4. r = [o EXCEPT !.fs = u]
  BY <1>3 DEF reopen
<1>5. r.fd = k /\ r.fs = u
  <2>1. o = [fd |-> k, fs |-> t]
    BY <1>1 DEF Handle
  <2> HIDE DEF o, u, k, t, r
  <2> QED
    BY <1>4, <2>1
<1> HIDE DEF o, t, k, r
<1>6. Open(t) = Open(s) \cup {k} /\ t.fdtofil[k] = Fresh(s, n) /\ k \in Open(t)
  BY <1>2, <1>3
<1>7. StaysOpen(t, u) /\ u.fdtofil[k] = f_lseek(t, t.fdtofil[k], position)
  BY <1>2, <1>6, SeekTo
<1>8. Fresh(s, n) \in FIL /\ Fresh(s, n).pos = 0 /\ Fresh(s, n).data = s.card[n]
  BY <1>2, <1>6, OpenFil DEF Fresh
<1>9. f_lseek(t, Fresh(s, n), position) = [Fresh(s, n) EXCEPT !.pos = position]
  <2>1. Fresh(s, n).pos <= Len(Fresh(s, n).data) /\ position <= Len(Fresh(s, n).data)
    BY <1>8
  <2> QED
    BY <2>1, <1>2, <1>8, Sought
<1>10. u.fdtofil[k] = [name |-> n, pos |-> position, data |-> s.card[n]]
  BY <1>6, <1>7, <1>9 DEF Fresh
<1> HIDE DEF u
<1>11. \A h \in Open(s) : u.fdtofil[h].name = s.fdtofil[h].name
  BY <1>2, <1>6, <1>7 DEF StaysOpen
<1>12. Sound(u) /\ Open(u) = Open(s) \cup {k}
  BY <1>6, <1>7 DEF StaysOpen
<1> QED
  BY <1>3, <1>5, <1>10, <1>11, <1>12 DEF r

(* A renaming keeps the invariant, and an open file stays open with the      *)
(* contents and the position that it had.                                    *)
LEMMA RenameFileInv ==
  ASSUME FilesInv, NEW f \in PosixFiles, NEW new \in UserNames, renameFile(f, new)
  PROVE  /\ FilesInv'
         /\ descriptor[f] # NilPointer =>
              /\ descriptor'[f] # NilPointer
              /\ fs'.fdtofil[descriptor'[f]] =
                   [fs.fdtofil[descriptor[f]] EXCEPT !.name = fileName'[f]]
<1> DEFINE old == fileName[f]
           d == descriptor[f]
           wasOpen == d # NilPointer
           closed == IF wasOpen THEN close_file(fs, d) ELSE fs
           renamed == CanRename(closed, old, new)
           moved == IF renamed THEN rename_file(closed, old, new) ELSE closed
           n == IF renamed THEN new ELSE old
           position == fs.fdtofil[d].pos
           r == reopen(moved, n, position)
           S == Open(fs) \ {d}
<1>1. /\ wasOpen \/ ~InUse(old)
      /\ fileName' = IF renamed THEN [fileName EXCEPT ![f] = new] ELSE fileName
      /\ ~wasOpen => fs' = moved /\ descriptor' = descriptor
      /\ wasOpen => /\ fs' = r.fs
                    /\ descriptor' = [descriptor EXCEPT ![f] = IF r.fd = NoHandle THEN NilPointer
                                                              ELSE r.fd]
  BY Zenon DEF renameFile
<1>2. /\ Sound(fs) /\ old \in UserNames /\ old \in Names /\ new \in Names /\ n \in UserNames
      /\ n \in Names
      /\ wasOpen => d \in Open(fs) /\ d \in Handles /\ fs.fdtofil[d].name = old
      /\ ~wasOpen => d \notin Open(fs)
  BY FilesConstantsOK DEF FilesInv, Owned, Held, Open, Handles
<1>3. fileName' = [fileName EXCEPT ![f] = n]
  <2> HIDE DEF renamed
  <2> QED
    BY <1>1 DEF FilesInv
<1>4. /\ Sound(closed) /\ Open(closed) = S /\ ~IsOpen(closed, old)
      /\ \A h \in S : closed.fdtofil[h] = fs.fdtofil[h]
      /\ wasOpen => closed.card[old] = fs.fdtofil[d].data /\ closed.card[old] # NoFile
  <2>1. CASE wasOpen
    <3> DEFINE t == f_close(fs, d)
    <3>1. close_file(fs, d) = t
      BY <1>2, <2>1 DEF close_file, Open
    <3>2. /\ Sound(t) /\ Open(t) = S
          /\ \A g \in Open(t) : t.fdtofil[g] = fs.fdtofil[g]
          /\ t.card = [fs.card EXCEPT ![old] = fs.fdtofil[d].data]
          /\ ~IsOpen(t, old)
      <4> HIDE DEF d
      <4>1. /\ Sound(f_close(fs, d)) /\ Open(f_close(fs, d)) = Open(fs) \ {d}
            /\ \A g \in Open(f_close(fs, d)) : f_close(fs, d).fdtofil[g] = fs.fdtofil[g]
            /\ f_close(fs, d).card = [fs.card EXCEPT ![fs.fdtofil[d].name] = fs.fdtofil[d].data]
            /\ ~IsOpen(f_close(fs, d), fs.fdtofil[d].name)
        BY <1>2, <2>1, Closed
      <4> QED
        BY <4>1, <1>2, <2>1
    <3>3. fs.fdtofil[d].data \in Seq(Cells)
      BY <1>2, <2>1, OpenFil
    <3> HIDE DEF t, d
    <3>4. t.card[old] = fs.fdtofil[d].data /\ t.card[old] # NoFile
      BY <1>2, <3>2, <3>3, FilesConstantsOK DEF Sound, FileSystems
    <3> QED
      BY <2>1, <3>1, <3>2, <3>4
  <2>2. CASE ~wasOpen
    <3>1. ~IsOpen(fs, old)
      BY <1>1, <2>2, NotInUse
    <3>2. Open(fs) = S
      BY <1>2, <2>2
    <3> QED
      BY <2>2, <3>1, <3>2, <1>2
  <2> QED
    BY <2>1, <2>2
<1> HIDE DEF closed
<1>5. /\ Sound(moved) /\ Open(moved) = S /\ ~IsOpen(moved, n)
      /\ moved.fdtofil = closed.fdtofil
      /\ moved.card[n] = closed.card[old]
  <2>1. CASE renamed
    <3> HIDE DEF renamed
    <3>1. CanRename(closed, old, new) /\ moved = rename_file(closed, old, new) /\ n = new
      BY <2>1 DEF renamed
    <3> HIDE DEF moved, n, old
    <3> QED
      BY <3>1, <1>2, <1>4, Renamed
  <2>2. CASE ~renamed
    <3> HIDE DEF renamed
    <3> QED
      BY <2>2, <1>4
  <2> QED
    BY <2>1, <2>2
<1> HIDE DEF moved, renamed, n, old
<1>6. \A h \in S : moved.fdtofil[h].name = fs.fdtofil[h].name
  BY <1>4, <1>5
<1>7. CASE wasOpen
  <2>1. /\ d \in Handles /\ d \notin Open(moved) /\ position \in Nat
        /\ moved.card[n] # NoFile /\ moved.card[n] = fs.fdtofil[d].data
        /\ position <= Len(moved.card[n])
        /\ fs.fdtofil[d] \in FIL
    BY <1>2, <1>4, <1>5, <1>7, OpenFil
  <2> DEFINE k == r.fd
  <2> HIDE DEF d, position
  <2>2. /\ Sound(r.fs)
        /\ k \in Handles \ Open(moved)
        /\ k # NoHandle
        /\ Open(r.fs) = Open(moved) \cup {k}
        /\ r.fs.fdtofil[k] = [name |-> n, pos |-> position, data |-> moved.card[n]]
        /\ \A h \in Open(moved) : r.fs.fdtofil[h].name = moved.fdtofil[h].name
    BY <1>2, <1>5, <2>1, Reopened
  <2>3. fs' = r.fs /\ descriptor' = [descriptor EXCEPT ![f] = IF k = NoHandle THEN NilPointer ELSE k]
    BY <1>1, <1>7
  <2> HIDE DEF r, k
  <2>4. Rehandled(f, n, k, S)
    <3>1. S = Open(fs) \ {descriptor[f]}
      BY DEF d
    <3>2. fs'.fdtofil[k].name = n
      BY <2>2, <2>3 DEF k
    <3>3. \A h \in S : fs'.fdtofil[h].name = fs.fdtofil[h].name
      BY <1>5, <1>6, <2>2, <2>3
    <3>4. Sound(fs') /\ k # NoHandle /\ k \notin S /\ Open(fs') = S \cup {k}
      BY <1>5, <2>2, <2>3 DEF k
    <3> HIDE DEF S
    <3> QED
      BY <1>3, <2>3, <3>1, <3>2, <3>3, <3>4, Zenon DEF Rehandled
  <2>5. FilesInv'
    <3>1. k \in Handles \cup {NoHandle} /\ n \in UserNames
      BY <1>2, <2>2 DEF k
    <3> HIDE DEF S
    <3> QED
      BY <2>4, <3>1, NewHandle, Zenon
  <2>6. descriptor'[f] = k /\ k # NilPointer /\ fileName'[f] = n
    BY <1>3, <2>2, <2>3, FilesConstantsOK DEF FilesInv, Handles, k
  <2>7. fs'.fdtofil[k] = [fs.fdtofil[d] EXCEPT !.name = n]
    BY <2>1, <2>2, <2>3 DEF FIL, position, k
  <2> QED
    BY <2>5, <2>6, <2>7 DEF d
<1>8. CASE ~wasOpen
  <2>1. fs' = moved /\ descriptor' = descriptor /\ d = NilPointer
    BY <1>1, <1>8
  <2> DEFINE k == NoHandle
  <2>2. k = NoHandle /\ k \in Handles \cup {NoHandle} /\ n \in UserNames
    BY <1>2
  <2>3. descriptor' = [descriptor EXCEPT ![f] = IF k = NoHandle THEN NilPointer ELSE k]
    BY <2>1 DEF FilesInv
  <2>4. S = Open(fs) \ {descriptor[f]} /\ Open(fs') = S /\ Sound(fs')
    BY <1>5, <2>1
  <2>5. \A h \in S : fs'.fdtofil[h].name = fs.fdtofil[h].name
    BY <1>6, <2>1
  <2> HIDE DEF k, S
  <2>6. Rehandled(f, n, k, S)
    BY <1>3, <2>2, <2>3, <2>4, <2>5, Zenon DEF Rehandled
  <2>7. FilesInv'
    BY <2>2, <2>6, NewHandle, Zenon
  <2> QED
    BY <1>8, <2>7
<1> QED
  BY <1>7, <1>8

----------------------------------------------------------------------------
(* The theorems.                                                             *)

LEMMA NextInv ==
  ASSUME FilesInv, [FileOperation \/ quitFiles \/ loseFiles]_filesVars
  PROVE  FilesInv'
<1>1. CASE \E f \in PosixFiles : openFile(f) \/ createFile(f) \/ closeFile(f)
  BY <1>1, OpenFileInv, CreateFileInv, CloseFileInv
<1>2. CASE \E f \in PosixFiles, page \in 1..MaxPages : readPage(f, page)
  BY <1>2, ReadPageInv
<1>3. CASE \E f \in PosixFiles, page \in 1..MaxPages, n \in Bytes :
             writePage(f, page, n) \/ truncatePage(f, page, n)
  BY <1>3, WritePageInv, TruncatePageInv
<1>4. CASE \E n \in UserNames : deleteFile(n)
  BY <1>4, DeleteFileInv
<1>5. CASE \E f \in PosixFiles, new \in UserNames : renameFile(f, new)
  BY <1>5, RenameFileInv
<1>6. CASE quitFiles \/ loseFiles
  BY <1>6, QuitInv
<1>7. CASE UNCHANGED filesVars
  BY <1>7 DEF filesVars, FilesInv, Owned, Held
<1> QED
  BY <1>1, <1>2, <1>3, <1>4, <1>5, <1>6, <1>7 DEF FileOperation

THEOREM Invariance == FilesSpec => []FilesInv
<1>1. FilesInit([n \in Names |-> NoFile]) => FilesInv
  BY InitInv
<1>2. FilesInv /\ [FileOperation \/ quitFiles \/ loseFiles]_filesVars => FilesInv'
  BY NextInv
<1> QED
  BY <1>1, <1>2, PTL DEF FilesSpec

(* Handles are never shared and never lost: each PosixFile with a descriptor *)
(* owns the open handle of the file that it names, and no handle is open     *)
(* without one, through errors, renaming, shutdown and power failures        *)
(* (fdtofil of FatST80FileSystem and primitivePosixFileOperation).           *)
THEOREM HandlesAreOwned == FilesSpec => []HandlesOwned
BY Invariance, InvGivesOwned, PTL

(* getfd refuses a file only when every handle is in use.                    *)
THEOREM HandleIsFound == FilesSpec => []FoundUnlessFull
BY Invariance, InvGivesFound, PTL

(* Renaming an open file, which closes and opens it again, always gets a     *)
(* handle again and keeps contents and position, whether or not the card     *)
(* allows the new name (primitivePosixDirectoryOperation).                   *)
THEOREM RenamingKeepsFiles == FilesSpec => RenameKeepsFile
<1>1. FilesInv => \A f \in PosixFiles, new \in UserNames :
                   renameFile(f, new) /\ descriptor[f] # NilPointer =>
                     /\ descriptor'[f] # NilPointer
                     /\ fs'.fdtofil[descriptor'[f]] =
                          [fs.fdtofil[descriptor[f]] EXCEPT !.name = fileName'[f]]
  BY RenameFileInv
<1> QED
  BY <1>1, Invariance, PTL DEF RenameKeepsFile

----------------------------------------------------------------------------
(* Joining sequences: FlattenSeq is a recursive function, of which the       *)
(* joined sequences J[0], J[1], ... are the values.                          *)

(* A recursive function on 0..n exists.                                      *)
Recurs(g, n, base, f) == g[0] = base /\ \A i \in 1..n : g[i] = f[i][g[i - 1]]

LEMMA RecursionTo ==
  ASSUME NEW n \in Nat, NEW Acc, NEW base \in Acc, NEW f \in [1..n -> [Acc -> Acc]]
  PROVE  \E g \in [0..n -> Acc] : Recurs(g, n, base, f)
<1> DEFINE ok(g, k) == g[0] = base /\ \A i \in 1..k : g[i] = f[i][g[i - 1]]
           E == {k \in 0..n : \E g \in [0..k -> Acc] : ok(g, k)}
<1>1. 0 \in E
  <2>1. [i \in 0..0 |-> base] \in [0..0 -> Acc] /\ ok([i \in 0..0 |-> base], 0)
    OBVIOUS
  <2> HIDE DEF ok
  <2> QED
    BY <2>1
<1>2. ASSUME NEW k \in 0..n - 1, k \in E PROVE k + 1 \in E
  <2>1. PICK g \in [0..k -> Acc] : ok(g, k)
    BY <1>2
  <2> DEFINE h == [i \in 0..k + 1 |-> IF i = k + 1 THEN f[k + 1][g[k]] ELSE g[i]]
  <2>2. f[k + 1][g[k]] \in Acc
    BY <2>1
  <2>3. h \in [0..k + 1 -> Acc]
    BY <2>2
  <2>4. \A i \in 0..k : h[i] = g[i]
    OBVIOUS
  <2>7. h[k + 1] = f[k + 1][g[k]]
    OBVIOUS
  <2> HIDE DEF h
  <2>5. ASSUME NEW i \in 1..k + 1 PROVE h[i] = f[i][h[i - 1]]
    <3>1. h[i - 1] = g[i - 1]
      BY <2>4
    <3>2. CASE i = k + 1
      <4>1. i - 1 = k
        BY <3>2
      <4> QED
        BY <3>1, <3>2, <4>1, <2>7
    <3>3. CASE i # k + 1
      BY <3>1, <3>3, <2>1, <2>4
    <3> QED
      BY <3>2, <3>3
  <2>6. ok(h, k + 1)
    BY <2>1, <2>4, <2>5
  <2> HIDE DEF ok
  <2> QED
    BY <2>3, <2>6
<1>3. n \in E
  <2> HIDE DEF E
  <2>1. 0..n \subseteq E
    BY <1>1, <1>2, InductionTo
  <2> QED
    BY <2>1
<1> QED
  BY <1>3 DEF Recurs

(* Joining sequences: the sequences joined one after the other.              *)
Joining(seqs, J, S) ==
  /\ J \in [0..Len(seqs) -> Seq(S)]
  /\ J[0] = <<>>
  /\ \A i \in 1..Len(seqs) : J[i] = J[i - 1] \o seqs[i]

LEMMA JoiningExists ==
  ASSUME NEW S, NEW seqs \in Seq(Seq(S))
  PROVE  \E J : Joining(seqs, J, S)
<1> DEFINE n == Len(seqs)
           f == [i \in 1..n |-> [s \in Seq(S) |-> s \o seqs[i]]]
<1>1. n \in Nat /\ \A i \in 1..n : seqs[i] \in Seq(S)
  OBVIOUS
<1>2. f \in [1..n -> [Seq(S) -> Seq(S)]]
  BY <1>1
<1>3. <<>> \in Seq(S)
  OBVIOUS
<1>5. \A s \in Seq(S), i \in 1..n : f[i][s] = s \o seqs[i]
  OBVIOUS
<1> HIDE DEF f
<1>4. PICK J \in [0..n -> Seq(S)] : J[0] = <<>> /\ \A i \in 1..n : J[i] = f[i][J[i - 1]]
  <2> HIDE DEF n
  <2>1. n \in Nat
    BY <1>1
  <2>2. PICK J \in [0..n -> Seq(S)] : Recurs(J, n, <<>>, f)
    BY <2>1, <1>2, <1>3, RecursionTo
  <2> QED
    BY <2>2 DEF Recurs
<1>6. \A i \in 1..n : J[i - 1] \in Seq(S)
  <2>1. \A i \in 1..n : i - 1 \in 0..n
    BY <1>1
  <2> QED
    BY <2>1, <1>4
<1>7. \A i \in 1..n : J[i] = J[i - 1] \o seqs[i]
  BY <1>4, <1>5, <1>6
<1>8. Joining(seqs, J, S)
  BY <1>4, <1>7 DEF Joining
<1> QED
  BY <1>8

LEMMA FlattenIs ==
  ASSUME NEW S, NEW seqs \in Seq(Seq(S)), NEW J, Joining(seqs, J, S)
  PROVE  FlattenSeq(seqs) = J[Len(seqs)]
<1> DEFINE n == Len(seqs)
           body(g) == [i \in 1..n |-> IF i = 1 THEN seqs[i] ELSE g[i - 1] \o seqs[i]]
           F == CHOOSE g : g = body(g)
<1>1. n \in Nat /\ \A i \in 1..n : seqs[i] \in Seq(S)
  OBVIOUS
<1>2. CASE n = 0
  <2>1. FlattenSeq(seqs) = seqs
    BY <1>2, Zenon DEF FlattenSeq
  <2>2. seqs = <<>>
    BY <1>2
  <2> QED
    BY <1>2, <2>1, <2>2 DEF Joining
<1>3. CASE n # 0
  <2>1. FlattenSeq(seqs) = F[n]
    BY <1>3, Zenon DEF FlattenSeq
  <2> DEFINE G == [i \in 1..n |-> J[i]]
  <2>2. G = body(G)
    <3>1. ASSUME NEW i \in 1..n PROVE G[i] = IF i = 1 THEN seqs[i] ELSE G[i - 1] \o seqs[i]
      <4>1. CASE i = 1
        <5>1. J[i] = J[i - 1] \o seqs[i] /\ J[0] = <<>>
          BY <4>1 DEF Joining
        <5>2. seqs[i] \in Seq(S) /\ i - 1 = 0
          BY <4>1
        <5>3. J[i] = seqs[i]
          BY <5>1, <5>2, ConcatEmptySeq
        <5> QED
          BY <4>1, <5>3
      <4>2. CASE i # 1
        <5>1. J[i] = J[i - 1] \o seqs[i]
          BY DEF Joining
        <5>2. i - 1 \in 1..n
          BY <4>2, <1>1
        <5> QED
          BY <4>2, <5>1, <5>2
      <4> QED
        BY <4>1, <4>2
    <3> QED
      BY <3>1
  <2> HIDE DEF G
  <2>3. F = body(F)
    <3> HIDE DEF body
    <3> QED
      BY <2>2, Zenon
  <2> HIDE DEF F
  <2> DEFINE E == {i \in 0..n : i # 0 => F[i] = J[i]}
  <2>4. 0 \in E
    BY <1>1
  <2>5. ASSUME NEW k \in 0..n - 1, k \in E PROVE k + 1 \in E
    <3>1. k + 1 \in 1..n
      BY <1>1
    <3>2. F[k + 1] = IF k + 1 = 1 THEN seqs[k + 1] ELSE F[k] \o seqs[k + 1]
      <4>1. F[k + 1] = body(F)[k + 1]
        BY <2>3
      <4> QED
        BY <3>1, <4>1
    <3>3. J[k + 1] = J[k] \o seqs[k + 1] /\ J[0] = <<>>
      <4>1. (k + 1) - 1 = k
        OBVIOUS
      <4>2. J[k + 1] = J[(k + 1) - 1] \o seqs[k + 1] /\ J[0] = <<>>
        BY <3>1 DEF Joining
      <4> QED
        BY <4>1, <4>2
    <3>4. seqs[k + 1] \in Seq(S)
      BY <3>1, <1>1
    <3>5. CASE k = 0
      <4>1. F[k + 1] = seqs[k + 1]
        BY <3>2, <3>5
      <4>2. J[k + 1] = seqs[k + 1]
        BY <3>3, <3>4, <3>5, ConcatEmptySeq
      <4> QED
        BY <3>1, <4>1, <4>2
    <3>6. CASE k # 0
      <4>1. F[k] = J[k]
        BY <2>5, <3>6
      <4>2. F[k + 1] = F[k] \o seqs[k + 1]
        <5>1. k + 1 # 1
          BY <3>6
        <5> QED
          BY <3>2, <5>1
      <4>3. F[k + 1] = J[k + 1]
        BY <3>3, <4>1, <4>2
      <4>4. k + 1 \in 0..n
        BY <3>1
      <4> QED
        BY <4>3, <4>4
    <3> QED
      BY <3>5, <3>6
  <2>6. n \in E
    <3> HIDE DEF E, body
    <3>1. 0..n \subseteq E
      <4> HIDE DEF n
      <4> QED
        BY <1>1, <2>4, <2>5, InductionTo
    <3> QED
      BY <1>1, <3>1
  <2> QED
    BY <1>3, <2>1, <2>6
<1> QED
  BY <1>2, <1>3

LEMMA FlattenType ==
  ASSUME NEW S, NEW seqs \in Seq(Seq(S))
  PROVE  FlattenSeq(seqs) \in Seq(S)
<1>1. PICK J : Joining(seqs, J, S)
  BY JoiningExists
<1>2. FlattenSeq(seqs) = J[Len(seqs)]
  BY <1>1, FlattenIs
<1>3. Len(seqs) \in 0..Len(seqs)
  OBVIOUS
<1> QED
  BY <1>1, <1>2, <1>3 DEF Joining

JoinsAlike(S, x, y, z) ==
  x \in Seq(S) /\ y \in Seq(S) /\ z \in Seq(S) => x \o (y \o z) = (x \o y) \o z

LEMMA AllJoinAlike == \A S, x, y, z : JoinsAlike(S, x, y, z)
<1> TAKE S, x, y, z
<1> SUFFICES ASSUME x \in Seq(S), y \in Seq(S), z \in Seq(S)
             PROVE  x \o (y \o z) = (x \o y) \o z
  BY DEF JoinsAlike
<1> QED
  BY ConcatAssociative, SMTT(30)

LEMMA FlattenConcat ==
  ASSUME NEW S, NEW a \in Seq(Seq(S)), NEW b \in Seq(Seq(S))
  PROVE  FlattenSeq(a \o b) = FlattenSeq(a) \o FlattenSeq(b)
<1>17. PICK l, n : l = Len(a) /\ n = Len(b)
  OBVIOUS
<1>1. PICK J : Joining(a, J, S)
  BY JoiningExists
<1>2. PICK K : Joining(b, K, S)
  BY JoiningExists
<1> DEFINE L == [i \in 0..l + n |-> IF i <= l THEN J[i] ELSE J[l] \o K[i - l]]
<1>3. /\ l \in Nat /\ n \in Nat /\ a \o b \in Seq(Seq(S)) /\ Len(a \o b) = l + n
      /\ \A i \in 1..l : (a \o b)[i] = a[i]
      /\ \A k \in 1..n : (a \o b)[l + k] = b[k]
  BY <1>17
<1>4. /\ \A i \in 0..l : J[i] \in Seq(S)
      /\ \A i \in 0..n : K[i] \in Seq(S)
      /\ J[0] = <<>> /\ K[0] = <<>>
      /\ \A i \in 1..l : J[i] = J[i - 1] \o a[i]
      /\ \A i \in 1..n : K[i] = K[i - 1] \o b[i]
  BY <1>1, <1>2, <1>17 DEF Joining
<1>5. J[l] \in Seq(S)
  BY <1>3, <1>4
<1>13. \A i \in 0..l : L[i] = J[i]
  BY <1>3
<1>14. \A k \in 1..n : L[l + k] = J[l] \o K[k]
  <2>1. ASSUME NEW k \in 1..n PROVE L[l + k] = J[l] \o K[k]
    <3>1. l + k \in 0..l + n /\ ~(l + k <= l) /\ (l + k) - l = k
      BY <1>3
    <3> QED
      BY <3>1
  <2> QED
    BY <2>1
<1>15. L = [i \in 0..l + n |-> L[i]]
  BY <1>3
<1> HIDE DEF L
<1>16. \A i \in 1..l + n : i \in 1..l \/ \E k \in 1..n : i = l + k
  <2>1. ASSUME NEW i \in 1..l + n, i \notin 1..l PROVE \E k \in 1..n : i = l + k
    <3>1. i - l \in 1..n /\ i = l + (i - l)
      BY <1>3, <2>1
    <3> QED
      BY <3>1
  <2> QED
    BY <2>1
<1>6. L \in [0..l + n -> Seq(S)]
  <2>1. ASSUME NEW k \in 1..n PROVE L[l + k] \in Seq(S)
    <3>1. K[k] \in Seq(S)
      BY <1>4
    <3> QED
      BY <1>14, <3>1, <1>5, ConcatProperties
  <2>2. ASSUME NEW i \in 0..l + n PROVE L[i] \in Seq(S)
    <3>1. CASE i = 0
      BY <3>1, <1>3, <1>4, <1>13
    <3>2. CASE i \in 1..l
      <4>1. i \in 0..l
        BY <3>2
      <4> QED
        BY <4>1, <1>4, <1>13
    <3>3. CASE \E k \in 1..n : i = l + k
      BY <3>3, <2>1
    <3>4. i = 0 \/ i \in 1..l + n
      BY <1>3
    <3> QED
      BY <3>1, <3>2, <3>3, <3>4, <1>16
  <2> QED
    BY <2>2, <1>15
<1>7. L[0] = <<>>
  BY <1>3, <1>4, <1>13
<1>8. ASSUME NEW i \in 1..l + n PROVE L[i] = L[i - 1] \o (a \o b)[i]
  <2>1. CASE i \in 1..l
    <3>1. (a \o b)[i] = a[i] /\ L[i] = J[i] /\ L[i - 1] = J[i - 1]
      BY <2>1, <1>3, <1>13
    <3> QED
      BY <3>1, <1>4, <2>1
  <2>2. ASSUME NEW k \in 1..n, i = l + k PROVE L[i] = L[i - 1] \o (a \o b)[i]
    <3>1. (a \o b)[i] = b[k]
      BY <2>2, <1>3
    <3>2. K[k] = K[k - 1] \o b[k]
      BY <1>4
    <3>3. K[k - 1] \in Seq(S) /\ b[k] \in Seq(S)
      <4>1. k - 1 \in 0..n /\ k \in 1..Len(b)
        BY <1>3, <1>17
      <4> QED
        BY <4>1, <1>4
    <3>4. L[i] = J[l] \o (K[k - 1] \o b[k])
      BY <2>2, <3>2, <1>14
    <3>5. L[i - 1] = J[l] \o K[k - 1]
      <4>1. CASE k = 1
        <5>1. i - 1 = l /\ k - 1 = 0 /\ l \in 0..l
          BY <4>1, <2>2, <1>3
        <5>2. L[i - 1] = J[l] /\ K[k - 1] = <<>>
          BY <5>1, <1>4, <1>13
        <5> QED
          BY <5>2, <1>5, ConcatEmptySeq
      <4>2. CASE k # 1
        <5>1. i - 1 = l + (k - 1) /\ k - 1 \in 1..n
          BY <4>2, <2>2, <1>3
        <5> QED
          BY <5>1, <1>14
      <4> QED
        BY <4>1, <4>2
    <3>6. J[l] \o (K[k - 1] \o b[k]) = (J[l] \o K[k - 1]) \o b[k]
      <4>1. JoinsAlike(S, J[l], K[k - 1], b[k])
        BY AllJoinAlike, Zenon
      <4> QED
        BY <1>5, <3>3, <4>1, Zenon DEF JoinsAlike
    <3> QED
      BY <3>1, <3>4, <3>5, <3>6
  <2> QED
    BY <2>1, <2>2, <1>16
<1>9. Joining(a \o b, L, S)
  <2> QED
    BY <1>3, <1>6, <1>7, <1>8 DEF Joining
<1>10. L[l + n] = J[l] \o K[n]
  <2>1. CASE n = 0
    <3>1. l + n = l /\ l \in 0..l
      BY <2>1, <1>3
    <3>2. L[l + n] = J[l] /\ K[n] = <<>>
      BY <2>1, <3>1, <1>4, <1>13
    <3> QED
      BY <3>2, <1>5, ConcatEmptySeq
  <2>2. CASE n # 0
    <3>1. n \in 1..n
      BY <2>2, <1>3
    <3> QED
      BY <3>1, <1>14
  <2> QED
    BY <2>1, <2>2
<1>11. FlattenSeq(a \o b) = L[l + n]
  <2> QED
    BY <1>3, <1>9, FlattenIs
<1>12. FlattenSeq(a) = J[l] /\ FlattenSeq(b) = K[n]
  BY <1>1, <1>2, <1>17, FlattenIs
<1> QED
  BY <1>10, <1>11, <1>12

LEMMA FlattenOne ==
  ASSUME NEW S, NEW x \in Seq(S)
  PROVE  FlattenSeq(<<x>>) = x
<1> DEFINE J == [i \in 0..1 |-> IF i = 0 THEN <<>> ELSE x]
<1>1. <<x>> \in Seq(Seq(S)) /\ Len(<<x>>) = 1 /\ <<x>>[1] = x
  OBVIOUS
<1>2. J \in [0..1 -> Seq(S)] /\ J[0] = <<>> /\ J[1] = x
  OBVIOUS
<1>3. J[1] = J[0] \o <<x>>[1]
  BY <1>1, <1>2, ConcatEmptySeq
<1>4. Joining(<<x>>, J, S)
  <2> HIDE DEF J
  <2> QED
    BY <1>1, <1>2, <1>3, SMTT(30) DEF Joining
<1> HIDE DEF J
<1> QED
  BY <1>1, <1>2, <1>4, FlattenIs

LEMMA FlattenNone == FlattenSeq(<<>>) = <<>>
<1>1. Len(<<>>) = 0
  OBVIOUS
<1> QED
  BY <1>1, Zenon DEF FlattenSeq

(* The checked writes, and the cells that a list of them puts one after another. *)
WriteRecords == [cells : Seq(Nat), at : {NoHandle}, checked : {TRUE}]
cellLists(list) == [i \in DOMAIN list |-> list[i].cells]

LEMMA CellsOfIs == \A list : CellsOf(list) = FlattenSeq(cellLists(list))
BY DEF CellsOf, cellLists

LEMMA CellLists ==
  ASSUME NEW list \in Seq(WriteRecords)
  PROVE  cellLists(list) \in Seq(Seq(Nat)) /\ Len(cellLists(list)) = Len(list)
<1>3. \A i \in 1..Len(list) : list[i] \in WriteRecords
  OBVIOUS
<1>1. \A i \in 1..Len(list) : list[i].cells \in Seq(Nat)
  BY <1>3, Zenon DEF WriteRecords
<1>2. cellLists(list) = [i \in 1..Len(list) |-> list[i].cells]
  BY DEF cellLists
<1> QED
  BY <1>1, <1>2

LEMMA CellsOfType ==
  ASSUME NEW list \in Seq(WriteRecords)
  PROVE  CellsOf(list) \in Seq(Nat)
BY CellLists, CellsOfIs, FlattenType

LEMMA CellsOfConcat ==
  ASSUME NEW a \in Seq(WriteRecords), NEW b \in Seq(WriteRecords)
  PROVE  CellsOf(a \o b) = CellsOf(a) \o CellsOf(b)
<1>1. /\ cellLists(a) \in Seq(Seq(Nat)) /\ Len(cellLists(a)) = Len(a)
      /\ cellLists(b) \in Seq(Seq(Nat)) /\ Len(cellLists(b)) = Len(b)
  BY CellLists
<1>2. cellLists(a \o b) = cellLists(a) \o cellLists(b)
  <2>1. /\ a \o b \in Seq(WriteRecords) /\ Len(a \o b) = Len(a) + Len(b)
        /\ \A i \in 1..Len(a) + Len(b) : (a \o b)[i] = IF i <= Len(a) THEN a[i] ELSE b[i - Len(a)]
    BY ConcatProperties
  <2>2. /\ cellLists(a \o b) \in Seq(Seq(Nat))
        /\ Len(cellLists(a \o b)) = Len(a) + Len(b)
    BY <2>1, CellLists
  <2>3. /\ cellLists(a) \o cellLists(b) \in Seq(Seq(Nat))
        /\ Len(cellLists(a) \o cellLists(b)) = Len(a) + Len(b)
        /\ \A i \in 1..Len(a) + Len(b) : (cellLists(a) \o cellLists(b))[i]
              = IF i <= Len(a) THEN cellLists(a)[i] ELSE cellLists(b)[i - Len(a)]
    <3>1. PICK x, y, T : x = cellLists(a) /\ y = cellLists(b) /\ T = Seq(Nat)
      OBVIOUS
    <3>2. x \in Seq(T) /\ y \in Seq(T) /\ Len(x) = Len(a) /\ Len(y) = Len(b)
      BY <1>1, <3>1
    <3>3. /\ x \o y \in Seq(T)
          /\ Len(x \o y) = Len(x) + Len(y)
          /\ \A i \in 1..Len(x) + Len(y) : (x \o y)[i]
                = IF i <= Len(x) THEN x[i] ELSE y[i - Len(x)]
      BY <3>2, ConcatProperties
    <3> QED
      BY <3>1, <3>2, <3>3
  <2>4. ASSUME NEW i \in 1..Len(a) + Len(b)
        PROVE  cellLists(a \o b)[i] = (cellLists(a) \o cellLists(b))[i]
    <3>1. cellLists(a \o b)[i] = (a \o b)[i].cells
      BY <2>1 DEF cellLists
    <3>2. CASE i <= Len(a)
      <4>1. cellLists(a)[i] = a[i].cells
        BY <3>2 DEF cellLists
      <4> QED
        BY <3>1, <3>2, <4>1, <2>1, <2>3
    <3>3. CASE i > Len(a)
      <4>1. cellLists(b)[i - Len(a)] = b[i - Len(a)].cells
        <5>1. i - Len(a) \in 1..Len(b)
          BY <3>3
        <5> QED
          BY <5>1 DEF cellLists
      <4>2. ~(i <= Len(a))
        BY <3>3
      <4> QED
        BY <3>1, <4>2, <4>1, <2>1, <2>3
    <3>4. i <= Len(a) \/ i > Len(a)
      OBVIOUS
    <3> QED
      BY <3>2, <3>3, <3>4
  <2> QED
    BY <2>2, <2>3, <2>4, SeqEqual
<1> QED
  BY <1>1, <1>2, CellsOfIs, FlattenConcat

LEMMA CellsOfOne ==
  ASSUME NEW w \in WriteRecords
  PROVE  CellsOf(<<w>>) = w.cells
<1>1. cellLists(<<w>>) = <<w.cells>>
  BY DEF cellLists
<1>2. w.cells \in Seq(Nat)
  BY DEF WriteRecords
<1> QED
  BY <1>1, <1>2, CellsOfIs, FlattenOne

LEMMA CellsOfNone == CellsOf(<<>>) = <<>>
<1>1. cellLists(<<>>) = <<>>
  BY DEF cellLists
<1> QED
  BY <1>1, CellsOfIs, FlattenNone

JoinIs(S, x, y) ==
  x \in Seq(S) /\ y \in Seq(S) =>
    /\ x \o y \in Seq(S)
    /\ Len(x \o y) = Len(x) + Len(y)
    /\ \A j \in 1..Len(x) : (x \o y)[j] = x[j]
    /\ \A j \in 1..Len(y) : (x \o y)[Len(x) + j] = y[j]

LEMMA AllJoinIs == \A S, x, y : JoinIs(S, x, y)
<1> TAKE S, x, y
<1> SUFFICES ASSUME x \in Seq(S), y \in Seq(S)
             PROVE  /\ x \o y \in Seq(S)
                    /\ Len(x \o y) = Len(x) + Len(y)
                    /\ \A j \in 1..Len(x) : (x \o y)[j] = x[j]
                    /\ \A j \in 1..Len(y) : (x \o y)[Len(x) + j] = y[j]
  BY DEF JoinIs
<1> QED
  OBVIOUS

(* Where the cells of each of the joined sequences are.                      *)
PlacedIn(S, s, all, from) == \A j \in 1..Len(s) : all[from + j] = s[j]

LEMMA JoinedPlaces ==
  ASSUME NEW S, NEW seqs, NEW n \in Nat, NEW J \in [0..n -> Seq(S)],
         \A i \in 1..n : seqs[i] \in Seq(S) /\ J[i] = J[i - 1] \o seqs[i]
  PROVE  \A q \in 1..n : /\ Len(J[q]) = Len(J[q - 1]) + Len(seqs[q])
                         /\ Len(J[q]) <= Len(J[n])
                         /\ PlacedIn(S, seqs[q], J[n], Len(J[q - 1]))
<1>1. \A q \in 0..n : J[q] \in Seq(S) /\ Len(J[q]) \in Nat
  OBVIOUS
<1>2. \A q \in 1..n : /\ Len(J[q]) = Len(J[q - 1]) + Len(seqs[q])
                      /\ Len(seqs[q]) \in Nat
                      /\ \A j \in 1..Len(J[q - 1]) : J[q][j] = J[q - 1][j]
                      /\ \A j \in 1..Len(seqs[q]) : J[q][Len(J[q - 1]) + j] = seqs[q][j]
  <2> TAKE q \in 1..n
  <2>1. J[q - 1] \in Seq(S) /\ seqs[q] \in Seq(S) /\ J[q] = J[q - 1] \o seqs[q]
    <3>1. q - 1 \in 0..n
      OBVIOUS
    <3> QED
      BY <3>1
  <2>2. JoinIs(S, J[q - 1], seqs[q])
    BY AllJoinIs, Zenon
  <2>3. /\ Len(J[q - 1] \o seqs[q]) = Len(J[q - 1]) + Len(seqs[q])
        /\ \A j \in 1..Len(J[q - 1]) : (J[q - 1] \o seqs[q])[j] = J[q - 1][j]
        /\ \A j \in 1..Len(seqs[q]) : (J[q - 1] \o seqs[q])[Len(J[q - 1]) + j] = seqs[q][j]
    BY <2>1, <2>2, Zenon DEF JoinIs
  <2>4. Len(seqs[q]) \in Nat
    BY <2>1
  <2> QED
    BY <2>1, <2>3, <2>4, Zenon
<1> DEFINE keeps(q, i) == /\ Len(J[q]) <= Len(J[i])
                          /\ \A j \in 1..Len(J[q]) : J[i][j] = J[q][j]
<1>3. ASSUME NEW q \in 0..n PROVE keeps(q, n)
  <2> DEFINE E == {i \in 0..n : q <= i => keeps(q, i)}
  <2>1. 0 \in E
    <3>1. q <= 0 => q = 0
      OBVIOUS
    <3>2. keeps(0, 0)
      BY <1>1
    <3> HIDE DEF keeps
    <3> QED
      BY <3>1, <3>2
  <2>2. ASSUME NEW k \in 0..n - 1, k \in E PROVE k + 1 \in E
    <3>0. PICK r \in 1..n : r = k + 1 /\ r \in 0..n /\ k \in 0..n /\ r - 1 = k
      OBVIOUS
    <3>1. CASE q <= k
      <4>1. keeps(q, k)
        BY <2>2, <3>1
      <4>2. /\ Len(J[r]) = Len(J[k]) + Len(seqs[r]) /\ Len(seqs[r]) \in Nat
            /\ \A j \in 1..Len(J[k]) : J[r][j] = J[k][j]
        <5>1. /\ Len(J[r]) = Len(J[r - 1]) + Len(seqs[r]) /\ Len(seqs[r]) \in Nat
              /\ \A j \in 1..Len(J[r - 1]) : J[r][j] = J[r - 1][j]
          BY <1>2
        <5> QED
          BY <3>0, <5>1
      <4>3. Len(J[q]) \in Nat /\ Len(J[k]) \in Nat /\ Len(J[r]) \in Nat
        BY <1>1, <3>0
      <4>5. Len(J[q]) <= Len(J[k]) /\ Len(J[q]) <= Len(J[r])
        <5>1. Len(J[q]) <= Len(J[k])
          BY <4>1
        <5>2. PICK a, b, c, e : /\ a = Len(J[q]) /\ b = Len(J[k]) /\ c = Len(J[r])
                                /\ e = Len(seqs[r])
          OBVIOUS
        <5>3. a \in Nat /\ b \in Nat /\ c \in Nat /\ e \in Nat /\ a <= b /\ c = b + e
          BY <4>2, <4>3, <5>1, <5>2
        <5>4. a <= b /\ a <= c
          BY <5>3
        <5> QED
          BY <5>2, <5>4
      <4>6. \A j \in 1..Len(J[q]) : j \in 1..Len(J[k])
        BY <4>3, <4>5
      <4>7. \A j \in 1..Len(J[q]) : J[r][j] = J[q][j]
        BY <4>1, <4>2, <4>6
      <4>4. keeps(q, r)
        BY <4>5, <4>7
      <4> HIDE DEF keeps
      <4> QED
        BY <4>4, <3>0
    <3>2. CASE q = k + 1
      <4>1. keeps(r, r)
        BY <1>1, <3>0
      <4> HIDE DEF keeps
      <4> QED
        BY <4>1, <3>0, <3>2
    <3>3. CASE q > k + 1
      BY <3>0, <3>3
    <3> QED
      BY <3>1, <3>2, <3>3
  <2>3. n \in E
    <3> HIDE DEF E
    <3>1. 0..n \subseteq E
      BY <2>1, <2>2, InductionTo
    <3> QED
      BY <3>1
  <2> HIDE DEF keeps
  <2> QED
    BY <2>3
<1> TAKE q \in 1..n
<1>4. q \in 0..n /\ q - 1 \in 0..n
  OBVIOUS
<1>5. keeps(q, n)
  BY <1>3, <1>4
<1>6. \A j \in 1..Len(seqs[q]) : Len(J[q - 1]) + j \in 1..Len(J[q])
  <2>1. Len(J[q - 1]) \in Nat /\ Len(J[q]) \in Nat /\ Len(seqs[q]) \in Nat
    BY <1>1, <1>2, <1>4
  <2>2. Len(J[q]) = Len(J[q - 1]) + Len(seqs[q])
    BY <1>2
  <2>3. PICK a, b, c : a = Len(J[q - 1]) /\ b = Len(J[q]) /\ c = Len(seqs[q])
    OBVIOUS
  <2>4. a \in Nat /\ b \in Nat /\ c \in Nat /\ b = a + c
    BY <2>1, <2>2, <2>3
  <2>5. \A j \in 1..c : a + j \in 1..b
    BY <2>4
  <2> QED
    BY <2>3, <2>5
<1>7. PlacedIn(S, seqs[q], J[n], Len(J[q - 1]))
  BY <1>2, <1>5, <1>6 DEF PlacedIn
<1> QED
  BY <1>2, <1>5, <1>7

LEMMA PlacesOf ==
  ASSUME NEW S, NEW seqs \in Seq(Seq(S)), NEW J, Joining(seqs, J, S)
  PROVE  \A q \in 1..Len(seqs) :
           /\ Len(J[q]) = Len(J[q - 1]) + Len(seqs[q])
           /\ Len(J[q]) <= Len(J[Len(seqs)])
           /\ PlacedIn(S, seqs[q], J[Len(seqs)], Len(J[q - 1]))
<1>1. PICK n \in Nat : n = Len(seqs) /\ \A i \in 1..n : seqs[i] \in Seq(S)
  OBVIOUS
<1>2. J \in [0..n -> Seq(S)] /\ \A i \in 1..n : seqs[i] \in Seq(S) /\ J[i] = J[i - 1] \o seqs[i]
  BY <1>1 DEF Joining
<1>3. \A q \in 1..n : /\ Len(J[q]) = Len(J[q - 1]) + Len(seqs[q])
                      /\ Len(J[q]) <= Len(J[n])
                      /\ PlacedIn(S, seqs[q], J[n], Len(J[q - 1]))
  BY <1>2, JoinedPlaces
<1> QED
  BY <1>1, <1>3

(* Sequences of the same length. *)
AllLong(seqs, d) == \A i \in 1..Len(seqs) : Len(seqs[i]) = d
Growing(J, n, d) == \A i \in 0..n : Len(J[i]) = d * i

LEMMA Lengths ==
  ASSUME NEW S, NEW seqs \in Seq(Seq(S)), NEW J, Joining(seqs, J, S),
         NEW d \in {1, 2}, AllLong(seqs, d)
  PROVE  Growing(J, Len(seqs), d)
<1>1. PICK n \in Nat : n = Len(seqs)
  OBVIOUS
<1> DEFINE E == {i \in 0..n : Len(J[i]) = d * i}
<1>2. 0 \in E
  <2>1. J[0] = <<>>
    BY DEF Joining
  <2> QED
    BY <2>1
<1>3. ASSUME NEW k \in 0..n - 1, k \in E PROVE k + 1 \in E
  <2>1. PICK r \in 1..n : r = k + 1 /\ r \in 0..n /\ r - 1 = k
    OBVIOUS
  <2>2. Len(J[r]) = Len(J[r - 1]) + Len(seqs[r])
    BY <1>1, PlacesOf
  <2>3. Len(seqs[r]) = d
    BY <1>1 DEF AllLong
  <2>4. Len(J[r]) = d * k + d
    BY <1>3, <2>1, <2>2, <2>3
  <2>5. d * k + d = d * r
    BY <2>1
  <2> QED
    BY <2>1, <2>4, <2>5
<1>4. 0..n \subseteq E
  <2> HIDE DEF E
  <2> QED
    BY <1>2, <1>3, InductionTo
<1> QED
  BY <1>1, <1>4 DEF Growing

----------------------------------------------------------------------------
(* saveObjects: what the cells of each part of the writes are.               *)

LEMMA WriteIs ==
  ASSUME NEW cells \in Seq(Nat)
  PROVE  /\ Write(cells) \in WriteRecords /\ Write(cells).cells = cells
         /\ Write(cells).at = NoHandle /\ Write(cells).checked = TRUE
BY DEF Write, WriteRecords, NoHandle

(* Writes of one word each. *)
LEMMA SingleWrites ==
  ASSUME NEW k \in Nat, NEW c \in [1..k -> Nat]
  PROVE  /\ [i \in 1..k |-> Write(<<c[i]>>)] \in Seq(WriteRecords)
         /\ CellsOf([i \in 1..k |-> Write(<<c[i]>>)]) = c
<1> DEFINE list == [i \in 1..k |-> Write(<<c[i]>>)]
           seqs == cellLists(list)
<1>1. \A i \in 1..k : <<c[i]>> \in Seq(Nat) /\ Len(<<c[i]>>) = 1 /\ <<c[i]>>[1] = c[i]
  OBVIOUS
<1>2. \A i \in 1..k : /\ Write(<<c[i]>>) \in WriteRecords
                      /\ Write(<<c[i]>>).cells = <<c[i]>>
  BY <1>1, WriteIs
<1>3. list \in Seq(WriteRecords) /\ Len(list) = k
  <2>1. list \in [1..k -> WriteRecords]
    BY <1>2
  <2> QED
    BY <2>1
<1>4. seqs \in Seq(Seq(Nat)) /\ Len(seqs) = k
  <2> HIDE DEF list
  <2> QED
    BY <1>3, CellLists
<1>5. \A i \in 1..k : seqs[i] = <<c[i]>>
  BY <1>2 DEF cellLists
<1> HIDE DEF seqs
<1>6. PICK J : Joining(seqs, J, Nat)
  BY <1>4, JoiningExists
<1>7. J \in [0..k -> Seq(Nat)] /\ AllLong(seqs, 1)
  BY <1>1, <1>4, <1>5, <1>6 DEF Joining, AllLong
<1>8. \A i \in 0..k : Len(J[i]) = i
  <2>1. 1 \in {1, 2}
    OBVIOUS
  <2>2. Growing(J, Len(seqs), 1)
    BY <1>4, <1>6, <1>7, <2>1, Lengths
  <2> QED
    BY <1>4, <2>2 DEF Growing
<1>9. \A i \in 1..k : J[k][i] = c[i]
  <2> TAKE i \in 1..k
  <2>1. PlacedIn(Nat, seqs[i], J[k], Len(J[i - 1]))
    BY <1>4, <1>6, PlacesOf
  <2>5. i - 1 \in 0..k /\ i - 1 + 1 = i
    OBVIOUS
  <2>2. Len(J[i - 1]) = i - 1
    BY <1>8, <2>5
  <2>6. 1 \in 1..Len(seqs[i])
    <3>1. Len(seqs[i]) = 1
      BY <1>1, <1>5, Zenon
    <3> QED
      BY <3>1
  <2>3. J[k][Len(J[i - 1]) + 1] = seqs[i][1]
    BY <2>1, <2>6 DEF PlacedIn
  <2>4. seqs[i][1] = c[i]
    BY <1>1, <1>5
  <2> QED
    BY <2>2, <2>3, <2>4, <2>5
<1>10. J[k] \in Seq(Nat) /\ Len(J[k]) = k
  BY <1>7, <1>8
<1>11. J[k] = c
  BY <1>9, <1>10
<1>12. CellsOf(list) = J[k]
  BY <1>4, <1>6, CellsOfIs, FlattenIs DEF seqs
<1> QED
  BY <1>3, <1>11, <1>12

(* The padding up to the next page. *)
padding(length) == (PageSize - (length % PageSize)) % PageSize

LEMMA PadIs ==
  ASSUME NEW length \in Nat
  PROVE  /\ padding(length) \in Nat
         /\ padToPage(length) \in Seq(WriteRecords)
         /\ CellsOf(padToPage(length)) = [i \in 1..padding(length) |-> 0]
<1>1. padding(length) \in Nat
  <2>1. PageSize \in Nat \ {0}
    BY FilesConstantsOK
  <2>2. length % PageSize \in 0..PageSize - 1
    BY <2>1
  <2>3. PageSize - (length % PageSize) \in Nat
    BY <2>1, <2>2
  <2> QED
    BY <2>1, <2>3 DEF padding
<1> DEFINE k == padding(length)
           c == [i \in 1..k |-> 0]
<1>2. padToPage(length) = [i \in 1..k |-> Write(<<c[i]>>)]
  BY DEF padToPage, padding
<1>3. c \in [1..k -> Nat]
  OBVIOUS
<1> HIDE DEF c, k
<1>4. k \in Nat
  BY <1>1 DEF k
<1> QED
  BY <1>1, <1>2, <1>3, <1>4, SingleWrites DEF c, k

----------------------------------------------------------------------------
(* The objects of a memory. *)

LEMMA ObjectIs ==
  ASSUME NEW m, IsImage(ObjectsIn(m)), NEW o \in Saved(m)
  PROVE  /\ o \in Oops /\ hasObject(m, o)
         /\ sizeOf(m, o) \in Nat /\ sizeOf(m, o) >= HeaderSize
         /\ ObjectWords(m, o) \in Seq(Nat) /\ Len(ObjectWords(m, o)) = sizeOf(m, o)
         /\ ObjectWords(m, o)[1] = sizeOf(m, o)
         /\ \A i \in 1..sizeOf(m, o) : ObjectWords(m, o)[i] = word(m, o, i - 1)
         /\ ObjectsIn(m)[o] = [count |-> m.ot[o].count, pointer |-> m.ot[o].pointer,
                               words |-> ObjectWords(m, o)]
         /\ m.ot[o].count \in Nat \ {0} /\ m.ot[o].pointer \in BOOLEAN
<1>1. o \in Oops /\ hasObject(m, o)
  BY DEF Saved
<1>2. ObjectsIn(m)[o] = [count |-> m.ot[o].count, pointer |-> m.ot[o].pointer,
                         words |-> ObjectWords(m, o)]
      /\ o \in DOMAIN ObjectsIn(m)
  BY <1>1 DEF ObjectsIn
<1> DEFINE words == ObjectWords(m, o)
<1>3. /\ ObjectsIn(m)[o] \in [count : Nat \ {0}, pointer : BOOLEAN, words : Seq(Nat)]
      /\ Len(ObjectsIn(m)[o].words) >= HeaderSize
  BY <1>2 DEF IsImage
<1>4. /\ words \in Seq(Nat) /\ Len(words) >= 2
      /\ m.ot[o].count \in Nat \ {0} /\ m.ot[o].pointer \in BOOLEAN
  BY <1>2, <1>3 DEF HeaderSize
<1>5. words = [i \in 1..sizeOf(m, o) |-> word(m, o, i - 1)]
  BY DEF ObjectWords
<1>6. DOMAIN words = 1..sizeOf(m, o)
  <2> HIDE DEF words
  <2> QED
    BY <1>5
<1> HIDE DEF words
<1>7. DOMAIN words = 1..Len(words) /\ Len(words) \in Nat
  BY <1>4
<1>8. 1 \in 1..sizeOf(m, o) /\ words[1] \in Nat
  <2>1. 1 \in 1..Len(words)
    BY <1>4, <1>7
  <2>2. 1 \in 1..sizeOf(m, o)
    BY <2>1, <1>6, <1>7, Zenon
  <2>3. words[1] \in Nat
    BY <2>1, <1>4
  <2> QED
    BY <2>2, <2>3
<1>9. words[1] = sizeOf(m, o)
  BY <1>5, <1>8 DEF sizeOf
<1>10. sizeOf(m, o) = Len(words)
  <2>1. sizeOf(m, o) \in Nat /\ 1..sizeOf(m, o) = 1..Len(words)
    BY <1>6, <1>7, <1>8, <1>9
  <2> QED
    BY <2>1, <1>7
<1> QED
  BY <1>1, <1>2, <1>4, <1>5, <1>7, <1>9, <1>10 DEF words, HeaderSize

LEMMA ObjectWritesIs ==
  ASSUME NEW m, IsImage(ObjectsIn(m)), NEW o \in Saved(m)
  PROVE  /\ objectWrites(m, o) \in Seq(WriteRecords)
         /\ CellsOf(objectWrites(m, o)) = ObjectWords(m, o)
<1> DEFINE size == sizeOf(m, o)
           words == ObjectWords(m, o)
           head == SubSeq(words, 1, HeaderSize)
           k == size - HeaderSize
           c == [i \in 1..k |-> word(m, o, HeaderSize + i - 1)]
           rest == [i \in 1..k |-> Write(<<c[i]>>)]
<1>1. /\ size \in Nat /\ size >= 2 /\ words \in Seq(Nat) /\ Len(words) = size
      /\ \A i \in 1..size : words[i] = word(m, o, i - 1)
  BY ObjectIs DEF HeaderSize
<1>2. k \in Nat /\ k = size - 2 /\ HeaderSize = 2
  BY <1>1 DEF HeaderSize
<1>3. \A i \in 1..k : word(m, o, HeaderSize + i - 1) = words[2 + i] /\ words[2 + i] \in Nat
  <2> TAKE i \in 1..k
  <2>1. 2 + i \in 1..size /\ (2 + i) - 1 = HeaderSize + i - 1
    BY <1>1, <1>2
  <2> HIDE DEF words, size, k
  <2> QED
    BY <1>1, <2>1, SMTT(30)
<1>4. c \in [1..k -> Nat]
  BY <1>3
<1>5. \A i \in 1..k : c[i] = words[2 + i]
  BY <1>3
<1>6. head \in Seq(Nat) /\ Len(head) = 2 /\ \A i \in 1..2 : head[i] = words[i]
  <2> HIDE DEF words, size
  <2> QED
    BY <1>1, <1>2
<1>7. objectWrites(m, o) = <<Write(head)>> \o rest
  BY DEF objectWrites
<1> HIDE DEF words, size, c, k, head
<1>8. rest \in Seq(WriteRecords) /\ CellsOf(rest) = c
  BY <1>2, <1>4, SingleWrites
<1>9. Write(head) \in WriteRecords /\ Write(head).cells = head
  BY <1>6, WriteIs
<1>10. <<Write(head)>> \in Seq(WriteRecords) /\ CellsOf(<<Write(head)>>) = head
  BY <1>9, CellsOfOne
<1> HIDE DEF rest
<1>11. CellsOf(<<Write(head)>> \o rest) = head \o c
  BY <1>8, <1>10, CellsOfConcat
<1>12. <<Write(head)>> \o rest \in Seq(WriteRecords)
  BY <1>8, <1>10
<1>13. head \o c = words
  <2>1. c \in Seq(Nat) /\ Len(c) = k
    BY <1>2, <1>4
  <2>4. JoinIs(Nat, head, c)
    BY AllJoinIs, Zenon
  <2>2. /\ head \o c \in Seq(Nat) /\ Len(head \o c) = size
        /\ \A j \in 1..2 : (head \o c)[j] = head[j]
        /\ \A j \in 1..k : (head \o c)[2 + j] = c[j]
    <3>1. /\ head \o c \in Seq(Nat) /\ Len(head \o c) = Len(head) + Len(c)
          /\ \A j \in 1..Len(head) : (head \o c)[j] = head[j]
          /\ \A j \in 1..Len(c) : (head \o c)[Len(head) + j] = c[j]
      BY <2>1, <2>4, <1>6, Zenon DEF JoinIs
    <3>2. Len(head) = 2 /\ Len(c) = k /\ 2 + k = size
      BY <2>1, <1>1, <1>2, <1>6
    <3> QED
      BY <3>1, <3>2, Zenon
  <2>3. \A i \in 1..size : (head \o c)[i] = words[i]
    <3> TAKE i \in 1..size
    <3>1. CASE i \in 1..2
      BY <3>1, <2>2, <1>6
    <3>2. ASSUME NEW j \in 1..k, i = 2 + j PROVE (head \o c)[i] = words[i]
      BY <3>2, <2>2, <1>5
    <3>3. i \in 1..2 \/ (i - 2 \in 1..k /\ i = 2 + (i - 2))
      BY <1>1, <1>2
    <3> QED
      BY <3>1, <3>2, <3>3
  <2> QED
    BY <2>2, <2>3, <1>1, SeqEqual
<1> QED
  BY <1>7, <1>11, <1>12, <1>13 DEF words

LEMMA HasGreatest ==
  ASSUME NEW N \in Nat, NEW S \in SUBSET (0..N), S # {}
  PROVE  /\ Max(S) \in S
         /\ \A y \in S : y <= Max(S)
<1> DEFINE T == {N - x : x \in S}
<1>1. T \in SUBSET Nat /\ T # {}
  <2>1. \A x \in S : x \in 0..N /\ N - x \in Nat
    OBVIOUS
  <2>2. PICK x \in S : TRUE
    OBVIOUS
  <2>3. N - x \in T
    OBVIOUS
  <2> QED
    BY <2>1, <2>3
<1>2. PICK n \in T : \A k \in T : n <= k
  BY <1>1, HasLeast
<1>3. PICK x \in S : n = N - x
  OBVIOUS
<1>4. ASSUME NEW y \in S PROVE x >= y
  <2>1. N - y \in T
    OBVIOUS
  <2>2. n <= N - y
    BY <2>1, <1>2
  <2> QED
    BY <2>2, <1>3
<1>5. \E z \in S : \A y \in S : z >= y
  BY <1>4
<1>6. Max(S) \in S /\ \A y \in S : Max(S) >= y
  BY <1>5, Zenon DEF Max
<1>7. Max(S) \in 0..N
  BY <1>6
<1> QED
  BY <1>6, <1>7

LEMMA OopsAre ==
  /\ PointerCount \in Nat
  /\ \A i \in 1..PointerCount : 2 * i \in Oops /\ (2 * i) \div 2 = i
  /\ \A o \in Oops : o \div 2 \in 1..PointerCount /\ o = 2 * (o \div 2) /\ o \in Nat /\ o >= 2
  /\ Oops \subseteq 0..(2 * PointerCount)
<1>1. PointerCount \in Nat
  <2>1. ObjectTableSize - 1 \in Nat
    BY SnapshotConstantsOK
  <2> QED
    BY <2>1 DEF PointerCount
<1>2. \A i \in 1..PointerCount : 2 * i \in Oops /\ (2 * i) \div 2 = i
  BY <1>1 DEF Oops
<1>3. \A o \in Oops : \E i \in 1..PointerCount : o = 2 * i
  BY DEF Oops
<1>4. \A o \in Oops : o \div 2 \in 1..PointerCount /\ o = 2 * (o \div 2) /\ o \in Nat /\ o >= 2
  BY <1>1, <1>2, <1>3
<1>5. Oops \subseteq 0..(2 * PointerCount)
  BY <1>1, <1>3
<1> QED
  BY <1>1, <1>2, <1>4, <1>5

LEMMA StoredLength ==
  ASSUME NEW m, IsImage(ObjectsIn(m))
  PROVE  /\ storedObjectTableLength(m) \in Nat
         /\ storedObjectTableLength(m) \div 2 \in Nat
         /\ storedObjectTableLength(m) = 2 * (storedObjectTableLength(m) \div 2)
         /\ storedObjectTableLength(m) \div 2 >= 1
         /\ storedObjectTableLength(m) \div 2 - 1 <= PointerCount
         /\ \A o \in Saved(m) : o < storedObjectTableLength(m)
<1>1. Saved(m) \subseteq Oops /\ Saved(m) # {}
  <2>1. DOMAIN ObjectsIn(m) = Saved(m)
    BY DEF ObjectsIn, Saved
  <2> QED
    BY <2>1 DEF IsImage, Saved
<1>2. Max(Saved(m)) \in Saved(m) /\ \A y \in Saved(m) : y <= Max(Saved(m))
  <2>1. 2 * PointerCount \in Nat /\ Saved(m) \in SUBSET (0..(2 * PointerCount))
    <3>1. PointerCount \in Nat /\ Oops \subseteq 0..(2 * PointerCount)
      BY OopsAre
    <3>2. Saved(m) \subseteq 0..(2 * PointerCount)
      BY <3>1, <1>1, Zenon
    <3> QED
      BY <3>1, <3>2
  <2> QED
    BY <2>1, <1>1, HasGreatest
<1>3. PICK i \in 1..PointerCount : Max(Saved(m)) = 2 * i
  BY <1>1, <1>2 DEF Oops
<1>4. storedObjectTableLength(m) = 2 * i + 2
  BY <1>1, <1>3 DEF storedObjectTableLength
<1>5. PointerCount \in Nat
  BY OopsAre
<1>6. \A o \in Saved(m) : o \in Nat /\ o <= 2 * i
  BY <1>1, <1>2, <1>3, OopsAre
<1> QED
  BY <1>4, <1>5, <1>6

(* The running counter of the words.                                         *)
wordsAt(m, i) == IF hasObject(m, 2 * i) THEN sizeOf(m, 2 * i) ELSE 0

LEMMA WordsUpToIs ==
  ASSUME NEW m, IsImage(ObjectsIn(m))
  PROVE  /\ wordsUpTo(m) \in [0..PointerCount -> Nat]
         /\ wordsUpTo(m)[0] = 0
         /\ \A i \in 1..PointerCount :
              wordsAt(m, i) \in Nat /\ wordsUpTo(m)[i] = wordsUpTo(m)[i - 1] + wordsAt(m, i)
<1> DEFINE n == PointerCount
           body(w) == [i \in 0..n |-> IF i = 0 THEN 0 ELSE w[i - 1] + wordsAt(m, i)]
           W == wordsUpTo(m)
<1>1. n \in Nat
  BY OopsAre
<1>2. \A i \in 1..n : wordsAt(m, i) \in Nat
  <2> TAKE i \in 1..n
  <2>1. 2 * i \in Oops
    BY OopsAre
  <2>2. CASE hasObject(m, 2 * i)
    <3>1. 2 * i \in Saved(m)
      BY <2>1, <2>2 DEF Saved
    <3>2. sizeOf(m, 2 * i) \in Nat
      BY <3>1, ObjectIs
    <3> QED
      BY <2>2, <3>2 DEF wordsAt
  <2> QED
    BY <2>2 DEF wordsAt
<1>3. W = CHOOSE w : w = body(w)
  BY Zenon DEF wordsUpTo, wordsAt
<1>4. \E w : w = body(w)
  <2> DEFINE f == [i \in 1..n |-> [x \in Nat |-> x + wordsAt(m, i)]]
  <2>1. f \in [1..n -> [Nat -> Nat]]
    BY <1>2
  <2>2. 0 \in Nat
    OBVIOUS
  <2>3. \A i \in 1..n : \A x \in Nat : f[i][x] = x + wordsAt(m, i)
    OBVIOUS
  <2> HIDE DEF f
  <2>4. PICK g \in [0..n -> Nat] : Recurs(g, n, 0, f)
    BY <1>1, <2>1, <2>2, RecursionTo
  <2>5. \A i \in 0..n : g[i] = IF i = 0 THEN 0 ELSE g[i - 1] + wordsAt(m, i)
    <3> TAKE i \in 0..n
    <3>1. CASE i = 0
      BY <2>4, <3>1 DEF Recurs
    <3>2. CASE i # 0
      <4>1. i \in 1..n /\ i - 1 \in 0..n
        BY <3>2, <1>1
      <4>2. g[i] = f[i][g[i - 1]]
        BY <2>4, <4>1 DEF Recurs
      <4>3. g[i - 1] \in Nat
        BY <4>1
      <4> QED
        BY <4>1, <4>2, <4>3, <2>3, <3>2
    <3> QED
      BY <3>1, <3>2
  <2>6. g = body(g)
    BY <2>5
  <2> QED
    BY <2>6
<1>5. W = body(W)
  <2> HIDE DEF body, W
  <2> QED
    BY <1>3, <1>4, Zenon
<1> HIDE DEF W
<1>6. DOMAIN W = 0..n /\ \A i \in 0..n : W[i] = IF i = 0 THEN 0 ELSE W[i - 1] + wordsAt(m, i)
  BY <1>5
<1>7. W[0] = 0 /\ \A i \in 1..n : W[i] = W[i - 1] + wordsAt(m, i)
  BY <1>1, <1>6
<1>8. \A i \in 0..n : W[i] \in Nat
  <2> DEFINE E == {i \in 0..n : W[i] \in Nat}
  <2>1. 0 \in E
    BY <1>1, <1>7
  <2>2. ASSUME NEW k \in 0..n - 1, k \in E PROVE k + 1 \in E
    <3>1. PICK r \in 1..n : r = k + 1 /\ r - 1 = k
      BY <1>1
    <3>2. W[r] = W[k] + wordsAt(m, r)
      BY <3>1, <1>7
    <3> QED
      BY <2>2, <3>1, <3>2, <1>2
  <2>3. 0..n \subseteq E
    <3> HIDE DEF E
    <3> QED
      BY <1>1, <2>1, <2>2, InductionTo
  <2> QED
    BY <2>3
<1>9. W = [i \in 0..n |-> W[i]]
  BY <1>5
<1>10. W \in [0..n -> Nat]
  BY <1>8, <1>9
<1> QED
  BY <1>2, <1>7, <1>10 DEF W

(* The cells of a list of lists of writes.                                   *)
cellsOfEach(lists) == [i \in 1..Len(lists) |-> CellsOf(lists[i])]

LEMMA CellsOfFlatten ==
  ASSUME NEW lists \in Seq(Seq(WriteRecords))
  PROVE  /\ FlattenSeq(lists) \in Seq(WriteRecords)
         /\ cellsOfEach(lists) \in Seq(Seq(Nat))
         /\ CellsOf(FlattenSeq(lists)) = FlattenSeq(cellsOfEach(lists))
<1>1. PICK n \in Nat : n = Len(lists) /\ \A i \in 1..n : lists[i] \in Seq(WriteRecords)
  OBVIOUS
<1>2. PICK J : Joining(lists, J, WriteRecords)
  BY JoiningExists
<1>3. /\ J \in [0..n -> Seq(WriteRecords)] /\ J[0] = <<>>
      /\ \A i \in 1..n : J[i] = J[i - 1] \o lists[i]
  BY <1>1, <1>2 DEF Joining
<1> DEFINE C == [i \in 0..n |-> CellsOf(J[i])]
           cells == cellsOfEach(lists)
<1>4. \A i \in 1..n : cells[i] = CellsOf(lists[i]) /\ CellsOf(lists[i]) \in Seq(Nat)
  BY <1>1, CellsOfType DEF cellsOfEach
<1>5. cells \in Seq(Seq(Nat)) /\ Len(cells) = n
  <2>1. cells \in [1..n -> Seq(Nat)]
    BY <1>1, <1>4 DEF cellsOfEach
  <2> HIDE DEF cells
  <2> QED
    BY <2>1
<1> HIDE DEF cells
<1>6. \A i \in 0..n : J[i] \in Seq(WriteRecords)
  BY <1>3
<1>7. \A i \in 0..n : C[i] = CellsOf(J[i]) /\ C[i] \in Seq(Nat)
  BY <1>6, CellsOfType
<1>8. C \in [0..n -> Seq(Nat)]
  BY <1>7
<1> HIDE DEF C
<1>9. C[0] = <<>>
  <2>1. 0 \in 0..n
    BY <1>1
  <2> QED
    BY <2>1, <1>3, <1>7, CellsOfNone
<1>10. \A i \in 1..n : C[i] = C[i - 1] \o cells[i]
  <2> TAKE i \in 1..n
  <2>1. i \in 0..n /\ i - 1 \in 0..n
    BY <1>1
  <2>2. PICK x, y : x = J[i - 1] /\ y = lists[i]
    OBVIOUS
  <2>3. x \in Seq(WriteRecords) /\ y \in Seq(WriteRecords) /\ J[i] = x \o y
    BY <2>1, <2>2, <1>1, <1>3, <1>6
  <2>4. CellsOf(x \o y) = CellsOf(x) \o CellsOf(y)
    BY <2>3, CellsOfConcat
  <2>5. C[i] = CellsOf(J[i]) /\ C[i - 1] = CellsOf(J[i - 1]) /\ cells[i] = CellsOf(lists[i])
    BY <2>1, <1>4, <1>7
  <2> QED
    BY <2>2, <2>3, <2>4, <2>5, Zenon
<1>11. Joining(cells, C, Nat)
  BY <1>5, <1>8, <1>9, <1>10 DEF Joining
<1>12. FlattenSeq(cells) = C[n]
  BY <1>5, <1>11, FlattenIs
<1>13. FlattenSeq(lists) = J[n] /\ n \in 0..n
  BY <1>1, <1>2, FlattenIs
<1> QED
  BY <1>5, <1>6, <1>7, <1>12, <1>13 DEF cells

----------------------------------------------------------------------------
(* The object space: the words of an object are at its address.              *)

objectLists(m) ==
  [i \in 1..PointerCount |-> IF hasObject(m, 2 * i) THEN objectWrites(m, 2 * i) ELSE <<>>]

HasObjects(m, space) ==
  /\ space \in Seq(Nat) /\ Len(space) = objectSpaceLength(m)
  /\ \A o \in Saved(m) :
       /\ objectImageWordAddress(m, o) \in Nat
       /\ objectImageWordAddress(m, o) + sizeOf(m, o) <= Len(space)
       /\ PlacedIn(Nat, ObjectWords(m, o), space, objectImageWordAddress(m, o))

LEMMA ObjectLists ==
  ASSUME NEW m, IsImage(ObjectsIn(m))
  PROVE  /\ objectLists(m) \in Seq(Seq(WriteRecords)) /\ Len(objectLists(m)) = PointerCount
         /\ \A i \in 1..PointerCount :
              CellsOf(objectLists(m)[i]) = IF hasObject(m, 2 * i) THEN ObjectWords(m, 2 * i)
                                           ELSE <<>>
<1> DEFINE L == objectLists(m)
<1>1. PointerCount \in Nat
  BY OopsAre
<1>2. ASSUME NEW i \in 1..PointerCount
      PROVE  /\ L[i] \in Seq(WriteRecords)
             /\ CellsOf(L[i]) = IF hasObject(m, 2 * i) THEN ObjectWords(m, 2 * i) ELSE <<>>
  <2>1. L[i] = IF hasObject(m, 2 * i) THEN objectWrites(m, 2 * i) ELSE <<>>
    BY DEF objectLists
  <2>2. CASE hasObject(m, 2 * i)
    <3>1. 2 * i \in Saved(m)
      BY <2>2, OopsAre DEF Saved
    <3>2. /\ objectWrites(m, 2 * i) \in Seq(WriteRecords)
          /\ CellsOf(objectWrites(m, 2 * i)) = ObjectWords(m, 2 * i)
      BY <3>1, ObjectWritesIs
    <3> HIDE DEF L
    <3> QED
      BY <2>1, <2>2, <3>2
  <2>3. CASE ~hasObject(m, 2 * i)
    <3>1. <<>> \in Seq(WriteRecords)
      OBVIOUS
    <3> HIDE DEF L
    <3> QED
      BY <2>1, <2>3, <3>1, CellsOfNone
  <2> QED
    BY <2>2, <2>3
<1>3. L \in [1..PointerCount -> Seq(WriteRecords)]
  <2>1. L = [i \in 1..PointerCount |-> L[i]]
    BY DEF objectLists
  <2> HIDE DEF L
  <2> QED
    BY <1>2, <2>1
<1> HIDE DEF L
<1>4. L \in Seq(Seq(WriteRecords)) /\ Len(L) = PointerCount
  BY <1>1, <1>3
<1> QED
  BY <1>2, <1>4 DEF L

LEMMA ObjectSpaceIs ==
  ASSUME NEW m, IsImage(ObjectsIn(m))
  PROVE  /\ FlattenSeq(objectLists(m)) \in Seq(WriteRecords)
         /\ HasObjects(m, CellsOf(FlattenSeq(objectLists(m))))
<1>0. PICK n \in Nat : n = PointerCount
  BY OopsAre
<1>1. PICK lists : lists = objectLists(m)
  OBVIOUS
<1>2. /\ lists \in Seq(Seq(WriteRecords)) /\ Len(lists) = n
      /\ \A i \in 1..n : CellsOf(lists[i]) = IF hasObject(m, 2 * i) THEN ObjectWords(m, 2 * i)
                                             ELSE <<>>
  BY <1>0, <1>1, ObjectLists
<1>3. PICK cells : cells = cellsOfEach(lists)
  OBVIOUS
<1>4. /\ FlattenSeq(lists) \in Seq(WriteRecords) /\ cells \in Seq(Seq(Nat))
      /\ CellsOf(FlattenSeq(lists)) = FlattenSeq(cells)
  BY <1>2, <1>3, CellsOfFlatten
<1>5. Len(cells) = n /\ \A i \in 1..n : cells[i] = CellsOf(lists[i])
  BY <1>2, <1>3 DEF cellsOfEach
<1>6. PICK C : Joining(cells, C, Nat)
  BY <1>4, JoiningExists
<1>7. FlattenSeq(cells) = C[n]
  BY <1>4, <1>5, <1>6, FlattenIs
<1>8. PICK W : W = wordsUpTo(m)
  OBVIOUS
<1>9. /\ W \in [0..n -> Nat] /\ W[0] = 0
      /\ \A i \in 1..n : wordsAt(m, i) \in Nat /\ W[i] = W[i - 1] + wordsAt(m, i)
  BY <1>0, <1>8, WordsUpToIs
<1>10. \A i \in 1..n : Len(cells[i]) = wordsAt(m, i)
  <2> TAKE i \in 1..n
  <2>1. CASE hasObject(m, 2 * i)
    <3>1. 2 * i \in Saved(m)
      BY <1>0, <2>1, OopsAre DEF Saved
    <3>2. Len(ObjectWords(m, 2 * i)) = sizeOf(m, 2 * i)
      BY <3>1, ObjectIs
    <3> QED
      BY <1>2, <1>5, <2>1, <3>2 DEF wordsAt
  <2>2. CASE ~hasObject(m, 2 * i)
    <3>1. cells[i] = <<>> /\ Len(<<>>) = 0
      BY <1>2, <1>5, <2>2
    <3> QED
      BY <2>2, <3>1 DEF wordsAt
  <2> QED
    BY <2>1, <2>2
<1>11. \A q \in 1..n : /\ Len(C[q]) = Len(C[q - 1]) + Len(cells[q])
                       /\ Len(C[q]) <= Len(C[n])
                       /\ PlacedIn(Nat, cells[q], C[n], Len(C[q - 1]))
  BY <1>4, <1>5, <1>6, PlacesOf
<1>12. \A i \in 0..n : Len(C[i]) = W[i]
  <2> DEFINE E == {i \in 0..n : Len(C[i]) = W[i]}
  <2>1. 0 \in E
    <3>1. C[0] = <<>> /\ Len(<<>>) = 0
      BY <1>6 DEF Joining
    <3> QED
      BY <3>1, <1>9
  <2>2. ASSUME NEW k \in 0..n - 1, k \in E PROVE k + 1 \in E
    <3>1. PICK r \in 1..n : r = k + 1 /\ r - 1 = k
      OBVIOUS
    <3>2. Len(C[r]) = Len(C[k]) + wordsAt(m, r)
      BY <3>1, <1>10, <1>11
    <3>3. W[r] = W[k] + wordsAt(m, r)
      BY <3>1, <1>9
    <3> QED
      BY <2>2, <3>1, <3>2, <3>3
  <2>3. 0..n \subseteq E
    <3> HIDE DEF E
    <3> QED
      BY <2>1, <2>2, InductionTo
  <2> QED
    BY <2>3
<1>13. C[n] \in Seq(Nat) /\ Len(C[n]) = W[n]
  <2>1. n \in 0..n
    OBVIOUS
  <2> QED
    BY <2>1, <1>5, <1>6, <1>12 DEF Joining
<1>14. objectSpaceLength(m) = W[n]
  BY <1>0, <1>8 DEF objectSpaceLength
<1>15. ASSUME NEW o \in Saved(m)
       PROVE  /\ objectImageWordAddress(m, o) \in Nat
              /\ objectImageWordAddress(m, o) + sizeOf(m, o) <= Len(C[n])
              /\ PlacedIn(Nat, ObjectWords(m, o), C[n], objectImageWordAddress(m, o))
  <2>1. PICK q \in 1..n : o = 2 * q /\ o \div 2 = q
    <3>1. o \in Oops
      BY DEF Saved
    <3> QED
      BY <3>1, <1>0, OopsAre
  <2>2. hasObject(m, 2 * q)
    BY <2>1 DEF Saved
  <2>3. cells[q] = ObjectWords(m, o) /\ wordsAt(m, q) = sizeOf(m, o)
    BY <1>2, <1>5, <2>1, <2>2 DEF wordsAt
  <2>4. objectImageWordAddress(m, o) = W[q - 1]
    BY <2>1, <1>8 DEF objectImageWordAddress
  <2>5. q - 1 \in 0..n /\ q \in 0..n
    OBVIOUS
  <2>6. Len(C[q - 1]) = W[q - 1] /\ Len(C[q]) = W[q] /\ W[q - 1] \in Nat
    BY <2>5, <1>9, <1>12
  <2>7. W[q] = W[q - 1] + sizeOf(m, o)
    BY <1>9, <2>3
  <2>8. Len(C[q]) <= Len(C[n]) /\ PlacedIn(Nat, cells[q], C[n], Len(C[q - 1]))
    BY <1>11
  <2> QED
    BY <2>3, <2>4, <2>6, <2>7, <2>8
<1>16. HasObjects(m, C[n])
  BY <1>13, <1>14, <1>15 DEF HasObjects
<1> QED
  BY <1>1, <1>4, <1>7, <1>16

----------------------------------------------------------------------------
(* The table: the entry of an object pointer is the pair of cells at it.     *)

entryCells(m, o) == entryWrite(m, o).cells

HasEntries(m, table) ==
  /\ table \in Seq(Nat) /\ Len(table) = storedObjectTableLength(m)
  /\ \A o \in Oops : o < storedObjectTableLength(m) =>
       table[o + 1] = entryCells(m, o)[1] /\ table[o + 2] = entryCells(m, o)[2]

LEMMA EntryIs ==
  ASSUME NEW m, IsImage(ObjectsIn(m)), NEW o \in Oops
  PROVE  /\ entryWrite(m, o) \in WriteRecords
         /\ entryCells(m, o) \in Seq(Nat) /\ Len(entryCells(m, o)) = 2
         /\ o \in Saved(m) =>
              /\ entryCells(m, o)[1] = otWord(FALSE, m.ot[o].count, m.ot[o].pointer)
              /\ entryCells(m, o)[2] = objectImageWordAddress(m, o)
         /\ o \notin Saved(m) =>
              entryCells(m, o)[1] = otWord(TRUE, 0, FALSE) /\ entryCells(m, o)[2] = 0
<1>1. CASE o \in Saved(m)
  <2>1. hasObject(m, o)
    BY <1>1 DEF Saved
  <2>2. m.ot[o].count \in Nat /\ m.ot[o].pointer \in BOOLEAN
    BY <1>1, ObjectIs
  <2>3. PICK a : a = otWord(FALSE, m.ot[o].count, m.ot[o].pointer)
    OBVIOUS
  <2>4. PICK b : b = objectImageWordAddress(m, o)
    OBVIOUS
  <2>5. a \in Nat
    BY <2>2, <2>3 DEF otWord
  <2>6. b \in Nat
    <3>1. HasObjects(m, CellsOf(FlattenSeq(objectLists(m))))
      BY ObjectSpaceIs
    <3> QED
      BY <3>1, <1>1, <2>4 DEF HasObjects
  <2>7. entryWrite(m, o) = Write(<<a, b>>)
    BY <2>1, <2>3, <2>4 DEF entryWrite
  <2>8. <<a, b>> \in Seq(Nat) /\ Len(<<a, b>>) = 2 /\ <<a, b>>[1] = a /\ <<a, b>>[2] = b
    BY <2>5, <2>6
  <2>9. Write(<<a, b>>) \in WriteRecords /\ Write(<<a, b>>).cells = <<a, b>>
    BY <2>8, WriteIs
  <2> QED
    BY <1>1, <2>3, <2>4, <2>7, <2>8, <2>9 DEF entryCells
<1>2. CASE o \notin Saved(m)
  <2>1. ~hasObject(m, o)
    BY <1>2 DEF Saved
  <2>3. PICK a : a = otWord(TRUE, 0, FALSE)
    OBVIOUS
  <2>5. a \in Nat
    BY <2>3 DEF otWord
  <2>7. entryWrite(m, o) = Write(<<a, 0>>)
    BY <2>1, <2>3 DEF entryWrite
  <2>8. <<a, 0>> \in Seq(Nat) /\ Len(<<a, 0>>) = 2 /\ <<a, 0>>[1] = a /\ <<a, 0>>[2] = 0
    BY <2>5
  <2>9. Write(<<a, 0>>) \in WriteRecords /\ Write(<<a, 0>>).cells = <<a, 0>>
    BY <2>8, WriteIs
  <2> QED
    BY <1>2, <2>3, <2>7, <2>8, <2>9 DEF entryCells
<1> QED
  BY <1>1, <1>2

LEMMA TableIs ==
  ASSUME NEW m, IsImage(ObjectsIn(m))
  PROVE  /\ tableWrites(m) \in Seq(WriteRecords)
         /\ HasEntries(m, CellsOf(tableWrites(m)))
<1>1. PICK len, n \in Nat : len = storedObjectTableLength(m) /\ n = len \div 2
  BY StoredLength
<1>2. len \in Nat /\ len = 2 * n /\ n >= 1 /\ n - 1 <= PointerCount
  BY <1>1, StoredLength
<1>3. PICK list : list = tableWrites(m)
  OBVIOUS
<1>4. /\ list = [i \in 1..n |-> list[i]]
      /\ list[1] = Write(<<otWord(TRUE, 0, FALSE), 0>>)
      /\ \A i \in 2..n : list[i] = entryWrite(m, 2 * (i - 1))
  <2>1. list = [i \in 1..n |-> IF i = 1 THEN Write(<<otWord(TRUE, 0, FALSE), 0>>)
                               ELSE entryWrite(m, 2 * (i - 1))]
    BY <1>1, <1>3 DEF tableWrites
  <2>2. \A i \in 1..n : list[i] = IF i = 1 THEN Write(<<otWord(TRUE, 0, FALSE), 0>>)
                                  ELSE entryWrite(m, 2 * (i - 1))
    BY <2>1
  <2>3. 1 \in 1..n /\ \A i \in 2..n : i \in 1..n /\ i # 1
    BY <1>2
  <2>4. list = [i \in 1..n |-> list[i]]
    BY <2>1
  <2> QED
    BY <2>2, <2>3, <2>4
<1>5. \A i \in 2..n : /\ 2 * (i - 1) \in Oops
                      /\ 2 * (i - 1) + 2 = 2 * i
  <2> TAKE i \in 2..n
  <2>1. PointerCount \in Nat
    BY OopsAre
  <2>2. i - 1 \in 1..PointerCount
    BY <2>1, <1>2
  <2>3. PICK r \in 1..PointerCount : r = i - 1
    BY <2>2
  <2>4. 2 * r \in Oops
    BY OopsAre
  <2> QED
    BY <2>3, <2>4
<1>6. \A i \in 1..n : /\ list[i] \in WriteRecords
                      /\ list[i].cells \in Seq(Nat) /\ Len(list[i].cells) = 2
  <2> TAKE i \in 1..n
  <2>1. CASE i = 1
    <3>1. PICK a : a = otWord(TRUE, 0, FALSE)
      OBVIOUS
    <3>2. a \in Nat
      BY <3>1 DEF otWord
    <3>3. <<a, 0>> \in Seq(Nat) /\ Len(<<a, 0>>) = 2
      BY <3>2
    <3>4. Write(<<a, 0>>) \in WriteRecords /\ Write(<<a, 0>>).cells = <<a, 0>>
      BY <3>3, WriteIs
    <3> QED
      BY <2>1, <3>1, <3>3, <3>4, <1>4
  <2>2. CASE i # 1
    <3>1. i \in 2..n
      BY <2>2
    <3>2. list[i] = entryWrite(m, 2 * (i - 1)) /\ 2 * (i - 1) \in Oops
      BY <3>1, <1>4, <1>5
    <3>3. PICK o \in Oops : o = 2 * (i - 1)
      BY <3>2
    <3> QED
      BY <3>2, <3>3, EntryIs DEF entryCells
  <2> QED
    BY <2>1, <2>2
<1>7. list \in Seq(WriteRecords) /\ Len(list) = n
  <2>1. list \in [1..n -> WriteRecords]
    BY <1>4, <1>6
  <2> QED
    BY <2>1
<1>8. PICK seqs : seqs = cellLists(list)
  OBVIOUS
<1>9. seqs \in Seq(Seq(Nat)) /\ Len(seqs) = n
  BY <1>7, <1>8, CellLists
<1>10. \A i \in 1..n : seqs[i] = list[i].cells
  BY <1>7, <1>8 DEF cellLists
<1>11. PICK J : Joining(seqs, J, Nat)
  BY <1>9, JoiningExists
<1>12. CellsOf(list) = J[n]
  BY <1>8, <1>9, <1>11, CellsOfIs, FlattenIs
<1>13. \A i \in 0..n : Len(J[i]) = 2 * i
  <2>1. 2 \in {1, 2} /\ AllLong(seqs, 2)
    BY <1>6, <1>9, <1>10 DEF AllLong
  <2>2. Growing(J, Len(seqs), 2)
    BY <1>9, <1>11, <2>1, Lengths
  <2> QED
    BY <1>9, <2>2 DEF Growing
<1>14. J[n] \in Seq(Nat) /\ Len(J[n]) = len
  <2>1. n \in 0..n
    OBVIOUS
  <2> QED
    BY <2>1, <1>2, <1>9, <1>11, <1>13 DEF Joining
<1>15. ASSUME NEW o \in Oops, o < len
       PROVE  J[n][o + 1] = entryCells(m, o)[1] /\ J[n][o + 2] = entryCells(m, o)[2]
  <2>1. PICK i \in 2..n : o = 2 * (i - 1)
    <3>1. PICK q \in 1..PointerCount : o = 2 * q
      BY DEF Oops
    <3>2. PointerCount \in Nat
      BY OopsAre
    <3>3. q + 1 \in 2..n /\ o = 2 * ((q + 1) - 1)
      BY <3>1, <3>2, <1>2, <1>15
    <3> QED
      BY <3>3
  <2>2. i \in 1..n /\ i - 1 \in 0..n /\ 2 * (i - 1) = o
    BY <2>1
  <2>3. Len(J[i - 1]) = o
    BY <2>2, <1>13
  <2>4. PlacedIn(Nat, seqs[i], J[n], Len(J[i - 1]))
    BY <2>2, <1>9, <1>11, PlacesOf
  <2>5. seqs[i] = entryCells(m, o) /\ Len(seqs[i]) = 2
    BY <2>1, <2>2, <1>4, <1>6, <1>10 DEF entryCells
  <2>6. 1 \in 1..Len(seqs[i]) /\ 2 \in 1..Len(seqs[i])
    BY <2>5
  <2>7. J[n][o + 1] = seqs[i][1] /\ J[n][o + 2] = seqs[i][2]
    BY <2>3, <2>4, <2>6 DEF PlacedIn
  <2> QED
    BY <2>5, <2>7
<1>16. HasEntries(m, J[n])
  BY <1>1, <1>14, <1>15 DEF HasEntries
<1> QED
  BY <1>3, <1>7, <1>12, <1>16

----------------------------------------------------------------------------
(* The file: objectSpace, padded, behind the first page, and the table at    *)
(* the end of it.                                                            *)

(* The writes of the image, and where the cells of its parts are.            *)
ImageParts(m, all, space, table) ==
  /\ all \in Seq(Nat) /\ space \in Seq(Nat) /\ table \in Seq(Nat)
  /\ Len(all) >= PageSize + Len(space) + Len(table)
  /\ all[2] = 0
  /\ \A j \in 1..Len(space) : all[PageSize + j] = space[j]
  /\ \A j \in 1..Len(table) : all[Len(all) - Len(table) + j] = table[j]

LEMMA PairJoined ==
  ASSUME NEW S, NEW x, NEW y, <<x>> \in Seq(S), <<y>> \in Seq(S)
  PROVE  <<x>> \o <<y>> = <<x, y>>
<1>1. x \in S /\ y \in S
  <2>1. <<x>>[1] = x /\ <<y>>[1] = y /\ Len(<<x>>) = 1 /\ Len(<<y>>) = 1
    OBVIOUS
  <2> QED
    BY <2>1
<1>2. PICK a, b, c : a = <<x>> /\ b = <<y>> /\ c = <<x, y>>
  OBVIOUS
<1>3. /\ a \in Seq(S) /\ Len(a) = 1 /\ a[1] = x
      /\ b \in Seq(S) /\ Len(b) = 1 /\ b[1] = y
      /\ c \in Seq(S) /\ Len(c) = 2 /\ c[1] = x /\ c[2] = y
  BY <1>1, <1>2
<1>4. JoinIs(S, a, b)
  BY AllJoinIs, Zenon
<1>5. /\ a \o b \in Seq(S) /\ Len(a \o b) = 2
      /\ \A j \in 1..1 : (a \o b)[j] = a[j]
      /\ \A j \in 1..1 : (a \o b)[1 + j] = b[j]
  BY <1>3, <1>4 DEF JoinIs
<1>6. \A i \in 1..2 : (a \o b)[i] = c[i]
  <2>1. (a \o b)[1] = x /\ (a \o b)[1 + 1] = y /\ 1 + 1 = 2
    BY <1>3, <1>5
  <2>2. ASSUME NEW i \in 1..2 PROVE i = 1 \/ i = 2
    OBVIOUS
  <2>3. PICK d : d = a \o b
    OBVIOUS
  <2>4. d[1] = c[1] /\ d[2] = c[2]
    BY <2>1, <2>3, <1>3
  <2> QED
    BY <2>2, <2>3, <2>4
<1>7. a \o b = c
  BY <1>3, <1>5, <1>6, SeqEqual
<1> QED
  BY <1>2, <1>7

LEMMA ImageIs ==
  ASSUME NEW m, IsImage(ObjectsIn(m))
  PROVE  /\ imageWrites(m) \in Seq(WriteRecords)
         /\ \E space, table : /\ ImageParts(m, CellsOf(imageWrites(m)), space, table)
                              /\ HasObjects(m, space) /\ HasEntries(m, table)
<1>1. PICK first, second : first = Write(<<0, 0>>) /\ second = Write(<<0>>)
  OBVIOUS
<1>2. /\ first \in WriteRecords /\ first.cells = <<0, 0>>
      /\ second \in WriteRecords /\ second.cells = <<0>>
  <2>1. <<0, 0>> \in Seq(Nat) /\ <<0>> \in Seq(Nat)
    OBVIOUS
  <2> QED
    BY <2>1, <1>1, WriteIs
<1>3. PICK pad : pad = padToPage(3)
  OBVIOUS
<1>4. /\ pad \in Seq(WriteRecords) /\ CellsOf(pad) = [i \in 1..PageSize - 3 |-> 0]
      /\ PageSize - 3 \in Nat /\ PageSize \in Nat
  <2>1. PageSize \in Nat /\ PageSize > 3
    BY FilesConstantsOK, SnapshotConstantsOK
  <2>2. padding(3) = PageSize - 3
    <3>1. 3 % PageSize = 3
      BY <2>1
    <3>2. (PageSize - 3) % PageSize = PageSize - 3
      BY <2>1
    <3> QED
      BY <3>1, <3>2 DEF padding
  <2> QED
    BY <2>1, <2>2, <1>3, PadIs
<1>5. PICK objects : objects = FlattenSeq(objectLists(m))
  OBVIOUS
<1>6. objects \in Seq(WriteRecords) /\ HasObjects(m, CellsOf(objects))
  BY <1>5, ObjectSpaceIs
<1>7. PICK fill : fill = padToPage(objectSpaceLength(m))
  OBVIOUS
<1>8. fill \in Seq(WriteRecords)
  <2>1. objectSpaceLength(m) \in Nat
    BY <1>6 DEF HasObjects
  <2> QED
    BY <2>1, <1>7, PadIs
<1>9. PICK entries : entries = tableWrites(m)
  OBVIOUS
<1>10. entries \in Seq(WriteRecords) /\ HasEntries(m, CellsOf(entries))
  BY <1>9, TableIs
<1>11. imageWrites(m) = ((<<first, second>> \o pad) \o (objects \o fill)) \o entries
  <2>1. objectSpaceWrites(m) = objects \o fill
    BY <1>5, <1>7, Zenon DEF objectSpaceWrites, objectLists
  <2> QED
    BY <2>1, <1>1, <1>3, <1>9, Zenon DEF imageWrites
<1>12. /\ <<first, second>> \in Seq(WriteRecords)
       /\ CellsOf(<<first, second>>) = <<0, 0, 0>>
  <2>1. <<first>> \in Seq(WriteRecords) /\ <<second>> \in Seq(WriteRecords)
    BY <1>2
  <2>2. <<first>> \o <<second>> = <<first, second>> /\ <<first, second>> \in Seq(WriteRecords)
    <3>1. <<first, second>> \in Seq(WriteRecords)
      BY <1>2
    <3>2. <<first>> \o <<second>> = <<first, second>>
      BY <2>1, PairJoined
    <3> QED
      BY <3>1, <3>2
  <2>3. CellsOf(<<first>>) = <<0, 0>> /\ CellsOf(<<second>>) = <<0>>
    BY <1>2, CellsOfOne
  <2>4. CellsOf(<<first>> \o <<second>>) = CellsOf(<<first>>) \o CellsOf(<<second>>)
    BY <2>1, CellsOfConcat
  <2>5. <<0, 0>> \o <<0>> = <<0, 0, 0>>
    <3>1. <<0, 0>> \in Seq(Nat) /\ <<0>> \in Seq(Nat)
      OBVIOUS
    <3>2. PICK x, y, z : x = <<0, 0>> /\ y = <<0>> /\ z = <<0, 0, 0>>
      OBVIOUS
    <3>3. /\ x \in Seq(Nat) /\ Len(x) = 2 /\ x[1] = 0 /\ x[2] = 0
          /\ y \in Seq(Nat) /\ Len(y) = 1 /\ y[1] = 0
          /\ z \in Seq(Nat) /\ Len(z) = 3 /\ \A i \in 1..3 : z[i] = 0
      BY <3>2
    <3>4. JoinIs(Nat, x, y)
      BY AllJoinIs, Zenon
    <3>5. /\ x \o y \in Seq(Nat) /\ Len(x \o y) = 3
          /\ \A j \in 1..2 : (x \o y)[j] = x[j]
          /\ \A j \in 1..1 : (x \o y)[2 + j] = y[j]
      BY <3>3, <3>4 DEF JoinIs
    <3>6. \A i \in 1..3 : (x \o y)[i] = 0
      <4>1. (x \o y)[1] = 0 /\ (x \o y)[2] = 0 /\ (x \o y)[3] = 0
        BY <3>3, <3>5
      <4>2. ASSUME NEW i \in 1..3 PROVE i = 1 \/ i = 2 \/ i = 3
        OBVIOUS
      <4>3. PICK d : d = x \o y
        OBVIOUS
      <4> QED
        BY <4>1, <4>2, <4>3
    <3>7. x \o y = z
      BY <3>3, <3>5, <3>6, SeqEqual, SMTT(30)
    <3> QED
      BY <3>2, <3>7
  <2> QED
    BY <2>2, <2>3, <2>4, <2>5
<1>13. PICK a, b, c, h : /\ a = <<first, second>> \o pad /\ b = objects \o fill /\ c = a \o b
                         /\ h = <<first, second>>
  OBVIOUS
<1>14. a \in Seq(WriteRecords) /\ b \in Seq(WriteRecords)
  <2>1. h \in Seq(WriteRecords) /\ a = h \o pad
    BY <1>12, <1>13
  <2>2. a \in Seq(WriteRecords)
    BY <2>1, <1>4, ConcatProperties
  <2>3. b \in Seq(WriteRecords)
    BY <1>6, <1>8, <1>13, ConcatProperties
  <2> QED
    BY <2>2, <2>3
<1>15. c \in Seq(WriteRecords) /\ imageWrites(m) = c \o entries
  BY <1>11, <1>13, <1>14, ConcatProperties
<1>16. imageWrites(m) \in Seq(WriteRecords)
  BY <1>15, <1>10, ConcatProperties
<1>17. PICK A, B, space, gap, table : /\ A = CellsOf(a) /\ B = CellsOf(b)
                                      /\ space = CellsOf(objects) /\ gap = CellsOf(fill)
                                      /\ table = CellsOf(entries)
  OBVIOUS
<1>18. /\ A \in Seq(Nat) /\ B \in Seq(Nat) /\ space \in Seq(Nat) /\ gap \in Seq(Nat)
       /\ table \in Seq(Nat)
  BY <1>6, <1>8, <1>10, <1>14, <1>17, CellsOfType
<1>19. B = space \o gap
  BY <1>6, <1>8, <1>13, <1>17, CellsOfConcat
<1>20. Len(A) = PageSize /\ A[2] = 0
  <2>1. PICK z : z = <<0, 0, 0>>
    OBVIOUS
  <2>2. PICK p : p = CellsOf(pad)
    OBVIOUS
  <2>3. A = z \o p
    BY <2>1, <2>2, <1>4, <1>12, <1>13, <1>17, CellsOfConcat
  <2>4. z \in Seq(Nat) /\ Len(z) = 3 /\ z[2] = 0
    BY <2>1
  <2>5. p \in Seq(Nat) /\ Len(p) = PageSize - 3
    <3>1. p \in [1..PageSize - 3 -> Nat]
      BY <2>2, <1>4
    <3> QED
      BY <3>1, <1>4
  <2>6. JoinIs(Nat, z, p)
    BY AllJoinIs, Zenon
  <2>7. Len(A) = 3 + (PageSize - 3) /\ A[2] = z[2]
    <3>1. 2 \in 1..Len(z)
      BY <2>4
    <3> QED
      BY <3>1, <2>3, <2>4, <2>5, <2>6 DEF JoinIs
  <2> QED
    BY <2>4, <2>7, <1>4
<1>21. PICK D, all : D = A \o B /\ all = D \o table
  OBVIOUS
<1>22. CellsOf(imageWrites(m)) = all
  <2>1. CellsOf(c) = D
    BY <1>13, <1>14, <1>17, <1>21, CellsOfConcat
  <2>2. CellsOf(c \o entries) = CellsOf(c) \o CellsOf(entries)
    BY <1>15, <1>10, CellsOfConcat
  <2> QED
    BY <2>1, <2>2, <1>15, <1>17, <1>21
<1>23. ImageParts(m, all, space, table)
  <2>1. JoinIs(Nat, A, B) /\ JoinIs(Nat, space, gap) /\ JoinIs(Nat, D, table)
    BY AllJoinIs, Zenon
  <2>2. /\ D \in Seq(Nat) /\ Len(D) = Len(A) + Len(B)
        /\ \A j \in 1..Len(A) : D[j] = A[j]
        /\ \A j \in 1..Len(B) : D[Len(A) + j] = B[j]
    BY <2>1, <1>18, <1>21, Zenon DEF JoinIs
  <2>3. /\ Len(B) = Len(space) + Len(gap)
        /\ \A j \in 1..Len(space) : B[j] = space[j]
    BY <2>1, <1>18, <1>19, Zenon DEF JoinIs
  <2>4. /\ all \in Seq(Nat) /\ Len(all) = Len(D) + Len(table)
        /\ \A j \in 1..Len(D) : all[j] = D[j]
        /\ \A j \in 1..Len(table) : all[Len(D) + j] = table[j]
    BY <2>1, <2>2, <1>18, <1>21, Zenon DEF JoinIs
  <2>5. PICK s, g, t, d, e, k :
            /\ s = Len(space) /\ g = Len(gap) /\ t = Len(table) /\ d = Len(D) /\ e = Len(all)
            /\ k = Len(B)
    OBVIOUS
  <2>10. s \in Nat /\ g \in Nat /\ t \in Nat /\ d \in Nat /\ e \in Nat /\ k \in Nat
    BY <2>5, <1>18, <2>2, <2>4
  <2>6. k = s + g /\ d = PageSize + k /\ e = d + t
    BY <2>2, <2>3, <2>4, <2>5, <1>20
  <2>7. e >= PageSize + s + t /\ e - t = d
    BY <2>6, <2>10, <1>4
  <2>8. all[2] = 0
    <3>1. 2 \in 1..Len(A) /\ 2 \in 1..Len(D)
      BY <2>2, <2>5, <2>6, <2>10, <1>4, <1>20
    <3> QED
      BY <3>1, <2>2, <2>4, <1>20
  <2>9. ASSUME NEW j \in 1..s PROVE all[PageSize + j] = space[j]
    <3>1. j \in 1..k /\ PageSize + j \in 1..d
      BY <2>6, <2>10, <1>4
    <3>2. D[PageSize + j] = B[j]
      BY <3>1, <2>2, <2>5, <1>20
    <3>3. all[PageSize + j] = D[PageSize + j]
      BY <3>1, <2>4, <2>5
    <3> QED
      BY <3>2, <3>3, <2>3, <2>5
  <2> QED
    BY <2>4, <2>5, <2>7, <2>8, <2>9, <1>18 DEF ImageParts
<1> QED
  BY <1>6, <1>10, <1>16, <1>17, <1>22, <1>23

LEMMA WordDecodes ==
  ASSUME NEW count \in Nat, NEW pointer \in BOOLEAN, NEW free \in BOOLEAN
  PROVE  /\ otWord(free, count, pointer) \in Nat
         /\ countBits(otWord(free, count, pointer)) = count
         /\ pointerBit(otWord(free, count, pointer)) = pointer
         /\ freeBit(otWord(free, count, pointer)) = free
<1>1. PICK a \in {0, 1} : a = IF pointer THEN 1 ELSE 0
  OBVIOUS
<1>2. PICK b \in {0, 1} : b = IF free THEN 1 ELSE 0
  OBVIOUS
<1>3. PICK w : w = otWord(free, count, pointer)
  OBVIOUS
<1>4. w = count * 256 + a * 64 + b * 32 /\ w \in Nat
  <2>1. (IF pointer THEN 64 ELSE 0) = a * 64 /\ (IF free THEN 32 ELSE 0) = b * 32
    BY <1>1, <1>2
  <2>2. w = count * 256 + a * 64 + b * 32
    BY <2>1, <1>3 DEF otWord
  <2> QED
    BY <2>2
<1>5. w \div 256 = count
  BY <1>4
<1>6. (w \div 64) % 2 = a
  <2>1. w \div 64 = 4 * count + a
    BY <1>4
  <2> QED
    BY <2>1
<1>7. (w \div 32) % 2 = b
  <2>1. w \div 32 = 8 * count + 2 * a + b
    BY <1>4
  <2> QED
    BY <2>1
<1>8. pointerBit(w) = pointer
  <2>1. CASE pointer = TRUE
    BY <2>1, <1>1, <1>6 DEF pointerBit
  <2>2. CASE pointer = FALSE
    BY <2>2, <1>1, <1>6 DEF pointerBit
  <2> QED
    BY <2>1, <2>2
<1>9. freeBit(w) = free
  <2>1. CASE free = TRUE
    BY <2>1, <1>2, <1>7 DEF freeBit
  <2>2. CASE free = FALSE
    BY <2>2, <1>2, <1>7 DEF freeBit
  <2> QED
    BY <2>1, <2>2
<1> QED
  BY <1>3, <1>4, <1>5, <1>8, <1>9 DEF countBits

(* A file that holds an image: the objects at the addresses that the entries *)
(* tell, and free entries for all other pointers in the table.               *)
EntryOf(data, o, objects) ==
  LET entry == data[Len(data) - data[2] + o + 1]
      address == data[Len(data) - data[2] + o + 2]
  IN IF o \in DOMAIN objects
     THEN /\ ~freeBit(entry) /\ countBits(entry) = objects[o].count
          /\ pointerBit(entry) = objects[o].pointer /\ address \in Nat
          /\ PlacedIn(Nat, objects[o].words, data, PageSize + address)
     ELSE freeBit(entry) /\ countBits(entry) = 0

IsFileOf(data, objects) ==
  /\ data \in Seq(Nat) /\ Len(data) >= 2 /\ data[2] <= Len(data)
  /\ objects = [o \in DOMAIN objects |-> objects[o]] /\ DOMAIN objects \subseteq Oops
  /\ \A o \in DOMAIN objects : o < data[2] /\ objects[o].words[1] = Len(objects[o].words)
  /\ \A o \in Oops : o < data[2] => EntryOf(data, o, objects)

LEMMA ImageOnFile ==
  ASSUME NEW m, IsImage(ObjectsIn(m))
  PROVE  IsFileOf(FileOf(m), ObjectsIn(m))
<1>1. PICK all, objects, first, len :
         /\ all = CellsOf(imageWrites(m)) /\ objects = ObjectsIn(m)
         /\ first = objectSpaceLength(m) /\ len = storedObjectTableLength(m)
  OBVIOUS
<1>2. PICK space, table : /\ ImageParts(m, all, space, table)
                          /\ HasObjects(m, space) /\ HasEntries(m, table)
  BY <1>1, ImageIs
<1>3. PICK data : data = FileOf(m)
  OBVIOUS
<1>4. data = [all EXCEPT ![1] = first, ![2] = len]
  BY <1>1, <1>3 DEF FileOf
<1>5. /\ all \in Seq(Nat) /\ space \in Seq(Nat) /\ table \in Seq(Nat)
      /\ Len(all) >= PageSize + Len(space) + len /\ Len(table) = len
      /\ PageSize \in Nat /\ PageSize > 3 /\ len \in Nat /\ len >= 2 /\ first \in Nat
  <2>1. len \in Nat /\ len >= 2
    BY <1>1, StoredLength
  <2> QED
    BY <2>1, <1>1, <1>2, FilesConstantsOK, SnapshotConstantsOK
       DEF ImageParts, HasObjects, HasEntries
<1>6. PICK n, d \in Nat : n = Len(all) /\ d = n - len
  <2>1. Len(all) \in Nat /\ Len(space) \in Nat
    BY <1>5
  <2>2. Len(all) - len \in Nat
    BY <2>1, <1>5
  <2> QED
    BY <2>1, <2>2
<1>7. n >= PageSize + Len(space) + len /\ d >= PageSize + Len(space) /\ Len(space) \in Nat
  BY <1>5, <1>6
<1>8. /\ data \in Seq(Nat) /\ Len(data) = n
      /\ data[2] = len /\ \A i \in 3..n : data[i] = all[i]
  <2>1. data \in [1..n -> Nat]
    BY <1>4, <1>5, <1>6, SMTT(30)
  <2>2. 2 \in 1..n /\ \A i \in 3..n : i \in 1..n /\ i # 1 /\ i # 2
    BY <1>5, <1>7
  <2>4. PICK mid : mid = [all EXCEPT ![1] = first]
    OBVIOUS
  <2>5. DOMAIN all = 1..n /\ DOMAIN mid = 1..n /\ data = [mid EXCEPT ![2] = len]
    BY <2>4, <1>4, <1>5, <1>6
  <2>6. \A i \in 3..n : data[i] = mid[i] /\ mid[i] = all[i]
    BY <2>2, <2>4, <2>5
  <2>3. data[2] = len /\ \A i \in 3..n : data[i] = all[i]
    BY <2>2, <2>5, <2>6
  <2> QED
    BY <2>1, <2>3, <1>6
<1>9. DOMAIN objects = Saved(m) /\ Saved(m) \subseteq Oops
  BY <1>1 DEF ObjectsIn, Saved
<1>10. ASSUME NEW o \in DOMAIN objects
       PROVE  o < len /\ objects[o].words[1] = Len(objects[o].words)
  <2>1. o \in Saved(m)
    BY <1>9
  <2>2. o < len
    BY <2>1, <1>1, StoredLength
  <2>3. PICK x : x = ObjectWords(m, o)
    OBVIOUS
  <2>4. objects[o].words = x /\ x[1] = Len(x)
    <3>1. objects[o] = [count |-> m.ot[o].count, pointer |-> m.ot[o].pointer, words |-> x]
      BY <2>1, <2>3, <1>1, ObjectIs
    <3>2. x[1] = sizeOf(m, o) /\ Len(x) = sizeOf(m, o)
      BY <2>1, <2>3, ObjectIs
    <3> QED
      BY <3>1, <3>2
  <2> QED
    BY <2>2, <2>4
<1>11. ASSUME NEW o \in Oops, o < len PROVE EntryOf(data, o, objects)
  <2>0. o \in Nat /\ o >= 2 /\ o + 2 <= len
    <3>1. PICK i \in 1..PointerCount : o = 2 * i
      BY DEF Oops
    <3>2. PICK k \in Nat : len = 2 * k
      BY <1>1, StoredLength
    <3>3. PointerCount \in Nat
      BY OopsAre
    <3> QED
      BY <3>1, <3>2, <3>3, <1>11
  <2>1. /\ o + 1 \in 1..len /\ o + 2 \in 1..len
        /\ d + (o + 1) = d + o + 1 /\ d + (o + 2) = d + o + 2
        /\ d + o + 1 \in 3..n /\ d + o + 2 \in 3..n
    BY <2>0, <1>5, <1>6, <1>7
  <2>2. all[d + o + 1] = table[o + 1] /\ all[d + o + 2] = table[o + 2]
    <3>1. \A j \in 1..len : all[d + j] = table[j]
      BY <1>2, <1>5, <1>6 DEF ImageParts
    <3> QED
      BY <3>1, <2>1
  <2>3. data[d + o + 1] = entryCells(m, o)[1] /\ data[d + o + 2] = entryCells(m, o)[2]
    <3>1. table[o + 1] = entryCells(m, o)[1] /\ table[o + 2] = entryCells(m, o)[2]
      BY <1>1, <1>2, <1>11 DEF HasEntries
    <3> QED
      BY <3>1, <2>1, <2>2, <1>8
  <2>4. Len(data) - data[2] = d
    BY <1>6, <1>8
  <2>5. CASE o \in DOMAIN objects
    <3>1. o \in Saved(m)
      BY <2>5, <1>9
    <3>2. PICK x : x = ObjectWords(m, o)
      OBVIOUS
    <3>3. /\ objects[o] = [count |-> m.ot[o].count, pointer |-> m.ot[o].pointer, words |-> x]
          /\ m.ot[o].count \in Nat /\ m.ot[o].pointer \in BOOLEAN
          /\ x \in Seq(Nat) /\ Len(x) = sizeOf(m, o) /\ sizeOf(m, o) \in Nat
      BY <3>1, <3>2, <1>1, ObjectIs
    <3>4. PICK a \in Nat : /\ a = objectImageWordAddress(m, o)
                           /\ a + Len(x) <= Len(space) /\ PlacedIn(Nat, x, space, a)
      BY <3>1, <3>2, <3>3, <1>2 DEF HasObjects
    <3>5. data[d + o + 1] = otWord(FALSE, m.ot[o].count, m.ot[o].pointer) /\ data[d + o + 2] = a
      BY <3>1, <3>4, <2>3, EntryIs
    <3>6. /\ ~freeBit(data[d + o + 1])
          /\ countBits(data[d + o + 1]) = objects[o].count
          /\ pointerBit(data[d + o + 1]) = objects[o].pointer
      <4>1. PICK c, p, w : c = m.ot[o].count /\ p = m.ot[o].pointer /\ w = otWord(FALSE, c, p)
        OBVIOUS
      <4>2. c \in Nat /\ p \in BOOLEAN /\ FALSE \in BOOLEAN
        BY <4>1, <3>3
      <4>3. countBits(w) = c /\ pointerBit(w) = p /\ freeBit(w) = FALSE
        <5>1. PICK f \in BOOLEAN : f = FALSE
          OBVIOUS
        <5>2. /\ countBits(otWord(f, c, p)) = c
              /\ pointerBit(otWord(f, c, p)) = p
              /\ freeBit(otWord(f, c, p)) = f
          BY <4>2, WordDecodes
        <5>3. w = otWord(f, c, p)
          BY <4>1, <5>1, Zenon
        <5> QED
          BY <5>1, <5>2, <5>3, Zenon
      <4>4. data[d + o + 1] = w /\ objects[o].count = c /\ objects[o].pointer = p
        BY <4>1, <3>3, <3>5
      <4> QED
        BY <4>3, <4>4, Zenon
    <3>7. PlacedIn(Nat, x, data, PageSize + a)
      <4>1. ASSUME NEW j \in 1..Len(x) PROVE data[PageSize + a + j] = x[j]
        <5>1. a + j \in 1..Len(space) /\ PageSize + (a + j) = PageSize + a + j
          <6>1. PICK s, l : s = Len(space) /\ l = Len(x)
            OBVIOUS
          <6>2. s \in Nat /\ l \in Nat /\ a + l <= s /\ j \in 1..l
            BY <6>1, <3>3, <3>4, <1>7
          <6>3. a + j \in 1..s /\ PageSize + (a + j) = PageSize + a + j
            BY <6>2, <1>5
          <6> QED
            BY <6>1, <6>3
        <5>2. PageSize + a + j \in 3..n
          BY <5>1, <1>5, <1>7
        <5>3. all[PageSize + (a + j)] = space[a + j]
          BY <5>1, <1>2 DEF ImageParts
        <5>4. space[a + j] = x[j]
          BY <3>4 DEF PlacedIn
        <5> QED
          BY <5>1, <5>2, <5>3, <5>4, <1>8
      <4> QED
        BY <4>1 DEF PlacedIn
    <3>8. objects[o].words = x
      BY <3>3
    <3> QED
      BY <2>4, <2>5, <3>5, <3>6, <3>7, <3>8, Zenon DEF EntryOf
  <2>6. CASE o \notin DOMAIN objects
    <3>1. o \notin Saved(m)
      BY <2>6, <1>9
    <3>2. data[d + o + 1] = otWord(TRUE, 0, FALSE)
      BY <3>1, <2>3, EntryIs
    <3>3. freeBit(data[d + o + 1]) /\ countBits(data[d + o + 1]) = 0
      BY <3>2, WordDecodes
    <3> QED
      BY <2>4, <2>6, <3>3, Zenon DEF EntryOf
  <2> QED
    BY <2>5, <2>6
<1>12. len <= n /\ n >= 2 /\ objects = [o \in DOMAIN objects |-> objects[o]]
  <2>1. len <= n /\ n >= 2
    BY <1>5, <1>7
  <2>2. objects = [o \in DOMAIN objects |-> objects[o]]
    BY <1>1 DEF ObjectsIn
  <2> QED
    BY <2>1, <2>2
<1>13. IsFileOf(data, objects)
  BY <1>8, <1>9, <1>10, <1>11, <1>12 DEF IsFileOf
<1> QED
  BY <1>1, <1>3, <1>13

LEMMA FileOfType ==
  ASSUME NEW m, IsImage(ObjectsIn(m))
  PROVE  FileOf(m) \in Seq(Nat) /\ FileOf(m) # NoFile
<1>1. FileOf(m) \in Seq(Nat)
  BY ImageOnFile DEF IsFileOf
<1>2. FileOf(m) \in Seq(Cells)
  BY <1>1 DEF Cells
<1> QED
  BY <1>1, <1>2, FilesConstantsOK

----------------------------------------------------------------------------
(* placesOf: objects follow each other, within the segments and apart.       *)

(* What the objects take in memory. *)
Spaces(space) ==
  /\ DOMAIN space \subseteq Oops
  /\ \A o \in DOMAIN space : space[o] \in Nat \ {0} /\ space[o] <= SegmentHeapSpaceSize

Positions == [segment : Nat, word : Nat]
NotAfter(a, b) == a.segment < b.segment \/ (a.segment = b.segment /\ a.word <= b.word)
EndsAt(p, size, at) == p.segment = at.segment /\ p.word + size = at.word

(* Objects lie within a segment, in the order of their pointers and without  *)
(* a gap.                                                                    *)
WellPlaced(space, places) ==
  /\ DOMAIN places = DOMAIN space
  /\ \A o \in DOMAIN space :
       /\ places[o] \in Positions
       /\ places[o].word + space[o] <= SegmentHeapSpaceSize
       /\ places[o].word = 0 \/ \E q \in DOMAIN space : q < o /\ EndsAt(places[q], space[q], places[o])
  /\ \A o, q \in DOMAIN space : o < q =>
       \/ places[o].segment < places[q].segment
       \/ /\ places[o].segment = places[q].segment
          /\ places[o].word + space[o] <= places[q].word

LEMMA PlaceIs ==
  ASSUME NEW at \in Positions, NEW size \in Nat, size <= SegmentHeapSpaceSize
  PROVE  /\ place(at, size) \in Positions /\ placeAfter(at, size) \in Positions
         /\ place(at, size).word + size <= SegmentHeapSpaceSize
         /\ placeAfter(at, size).segment = place(at, size).segment
         /\ placeAfter(at, size).word = place(at, size).word + size
         /\ place(at, size) = at \/ place(at, size).word = 0
         /\ NotAfter(at, place(at, size)) /\ NotAfter(place(at, size), placeAfter(at, size))
<1>1. at.segment \in Nat /\ at.word \in Nat
  BY DEF Positions
<1>2. SegmentHeapSpaceSize \in Nat
  BY SnapshotConstantsOK DEF SegmentHeapSpaceSize
<1>3. PICK p : p = place(at, size)
  OBVIOUS
<1>4. /\ p \in Positions /\ p.segment \in Nat /\ p.word \in Nat
      /\ p.word + size <= SegmentHeapSpaceSize
      /\ p = at \/ p.word = 0
      /\ NotAfter(at, p)
  <2>1. CASE at.word + size <= SegmentHeapSpaceSize
    <3>1. p = at
      BY <2>1, <1>3 DEF place
    <3> QED
      BY <3>1, <2>1, <1>1 DEF NotAfter
  <2>2. CASE ~(at.word + size <= SegmentHeapSpaceSize)
    <3>1. p = [segment |-> at.segment + 1, word |-> 0]
      BY <2>2, <1>3 DEF place
    <3>2. p.segment = at.segment + 1 /\ p.word = 0 /\ p \in Positions
      BY <3>1, <1>1 DEF Positions
    <3> QED
      BY <3>2, <1>1, <1>2 DEF NotAfter
  <2> QED
    BY <2>1, <2>2
<1>5. PICK r : r = placeAfter(at, size)
  OBVIOUS
<1>6. r \in Positions /\ r.segment = p.segment /\ r.word = p.word + size
  BY <1>3, <1>4, <1>5 DEF placeAfter, Positions
<1>7. NotAfter(p, r)
  BY <1>4, <1>6 DEF NotAfter
<1> QED
  BY <1>3, <1>4, <1>5, <1>6, <1>7

(* The position behind the first objects. *)
Behind(space, upTo) ==
  /\ upTo \in [0..PointerCount -> Positions]
  /\ upTo[0] = [segment |-> 0, word |-> 0]
  /\ \A i \in 1..PointerCount :
       upTo[i] = IF 2 * i \notin DOMAIN space THEN upTo[i - 1]
                 ELSE placeAfter(upTo[i - 1], space[2 * i])
  /\ placesOf(space) = [o \in DOMAIN space |-> place(upTo[o \div 2 - 1], space[o])]

LEMMA BehindExists ==
  ASSUME NEW space, Spaces(space)
  PROVE  \E upTo : Behind(space, upTo)
<1> DEFINE n == PointerCount
           zero == [segment |-> 0, word |-> 0]
           body(u) == [i \in 0..n |-> IF i = 0 THEN zero
                                      ELSE IF 2 * i \notin DOMAIN space THEN u[i - 1]
                                      ELSE placeAfter(u[i - 1], space[2 * i])]
           U == CHOOSE u : u = body(u)
           f == [i \in 1..n |-> [at \in Positions |->
                    IF 2 * i \notin DOMAIN space THEN at ELSE placeAfter(at, space[2 * i])]]
<1>1. n \in Nat
  BY OopsAre
<1>2. placesOf(space) = [o \in DOMAIN space |-> place(U[o \div 2 - 1], space[o])]
  BY Zenon DEF placesOf
<1>3. f \in [1..n -> [Positions -> Positions]]
  <2>1. ASSUME NEW i \in 1..n, NEW at \in Positions
        PROVE  (IF 2 * i \notin DOMAIN space THEN at ELSE placeAfter(at, space[2 * i])) \in Positions
    <3>1. CASE 2 * i \notin DOMAIN space
      BY <3>1
    <3>2. CASE 2 * i \in DOMAIN space
      <4>1. space[2 * i] \in Nat /\ space[2 * i] <= SegmentHeapSpaceSize
        BY <3>2 DEF Spaces
      <4>2. placeAfter(at, space[2 * i]) \in Positions
        BY <4>1, PlaceIs
      <4> QED
        BY <3>2, <4>2
    <3> QED
      BY <3>1, <3>2
  <2> QED
    BY <2>1
<1>4. zero \in Positions
  BY DEF Positions
<1>5. \A i \in 1..n : \A at \in Positions :
        f[i][at] = IF 2 * i \notin DOMAIN space THEN at ELSE placeAfter(at, space[2 * i])
  OBVIOUS
<1> HIDE DEF f
<1>6. PICK g \in [0..n -> Positions] : Recurs(g, n, zero, f)
  <2> HIDE DEF zero
  <2> QED
    BY <1>1, <1>3, <1>4, RecursionTo
<1>7. \A i \in 1..n : g[i - 1] \in Positions
  <2>1. \A i \in 1..n : i - 1 \in 0..n
    BY <1>1
  <2> QED
    BY <2>1
<1>8. \A i \in 0..n : g[i] = IF i = 0 THEN zero
                             ELSE IF 2 * i \notin DOMAIN space THEN g[i - 1]
                             ELSE placeAfter(g[i - 1], space[2 * i])
  <2> TAKE i \in 0..n
  <2>1. CASE i = 0
    BY <1>6, <2>1 DEF Recurs
  <2>2. CASE i # 0
    <3>1. i \in 1..n
      BY <2>2, <1>1
    <3>2. g[i] = f[i][g[i - 1]]
      BY <1>6, <3>1 DEF Recurs
    <3> QED
      BY <3>1, <3>2, <1>5, <1>7, <2>2
  <2> QED
    BY <2>1, <2>2
<1>9. g = body(g)
  <2> HIDE DEF zero
  <2> QED
    BY <1>8
<1>10. U = body(U)
  <2> HIDE DEF body
  <2> QED
    BY <1>9, Zenon
<1> HIDE DEF U
<1>11. /\ U = [i \in 0..n |-> U[i]]
       /\ \A i \in 0..n : U[i] = IF i = 0 THEN zero
                                 ELSE IF 2 * i \notin DOMAIN space THEN U[i - 1]
                                 ELSE placeAfter(U[i - 1], space[2 * i])
  <2> HIDE DEF zero
  <2> QED
    BY <1>10
<1>12. \A i \in 1..n : U[i] = IF 2 * i \notin DOMAIN space THEN U[i - 1]
                              ELSE placeAfter(U[i - 1], space[2 * i])
  <2>1. \A i \in 1..n : i \in 0..n /\ i # 0
    OBVIOUS
  <2> QED
    BY <2>1, <1>11
<1>13. U[0] = zero
  <2>1. 0 \in 0..n
    BY <1>1
  <2> HIDE DEF zero
  <2> QED
    BY <2>1, <1>11
<1>14. \A i \in 0..n : U[i] = g[i]
  <2> DEFINE E == {i \in 0..n : U[i] = g[i]}
  <2>1. 0 \in E
    BY <1>1, <1>8, <1>13
  <2>2. ASSUME NEW k \in 0..n - 1, k \in E PROVE k + 1 \in E
    <3>1. PICK r \in 1..n : r = k + 1 /\ r - 1 = k /\ r \in 0..n /\ r # 0
      BY <1>1
    <3>2. U[r] = g[r]
      BY <2>2, <3>1, <1>8, <1>12
    <3> QED
      BY <3>1, <3>2
  <2>3. 0..n \subseteq E
    <3> HIDE DEF E
    <3> QED
      BY <1>1, <2>1, <2>2, InductionTo
  <2> QED
    BY <2>3
<1>15. U = g
  BY <1>11, <1>14
<1>16. Behind(space, U)
  BY <1>2, <1>12, <1>13, <1>15 DEF Behind
<1> QED
  BY <1>16

LEMMA NotAfterIs ==
  /\ \A a, b, c \in Positions : NotAfter(a, b) /\ NotAfter(b, c) => NotAfter(a, c)
  /\ \A a \in Positions : NotAfter(a, a)
BY DEF NotAfter, Positions

LEMMA BehindGrows ==
  ASSUME NEW space, Spaces(space), NEW upTo, Behind(space, upTo)
  PROVE  \A i, j \in 0..PointerCount : i <= j => NotAfter(upTo[i], upTo[j])
<1>1. PICK n \in Nat : n = PointerCount
  BY OopsAre
<1>2. /\ \A i \in 0..n : upTo[i] \in Positions
      /\ \A i \in 1..n : upTo[i] = IF 2 * i \notin DOMAIN space THEN upTo[i - 1]
                                   ELSE placeAfter(upTo[i - 1], space[2 * i])
  BY <1>1 DEF Behind
<1>3. \A i \in 1..n : NotAfter(upTo[i - 1], upTo[i])
  <2> TAKE i \in 1..n
  <2>1. PICK at \in Positions : at = upTo[i - 1]
    <3>1. i - 1 \in 0..n
      OBVIOUS
    <3> QED
      BY <3>1, <1>2
  <2>2. CASE 2 * i \notin DOMAIN space
    BY <2>1, <2>2, <1>2, NotAfterIs
  <2>3. CASE 2 * i \in DOMAIN space
    <3>1. PICK size \in Nat : size = space[2 * i] /\ size <= SegmentHeapSpaceSize
      BY <2>3 DEF Spaces
    <3>2. /\ place(at, size) \in Positions /\ placeAfter(at, size) \in Positions
          /\ NotAfter(at, place(at, size)) /\ NotAfter(place(at, size), placeAfter(at, size))
      BY <3>1, PlaceIs
    <3>3. NotAfter(at, placeAfter(at, size))
      BY <3>2, NotAfterIs
    <3> QED
      BY <2>1, <2>3, <3>1, <3>3, <1>2
  <2> QED
    BY <2>2, <2>3
<1> TAKE i \in 0..PointerCount
<1>4. i \in 0..n
  BY <1>1
<1> DEFINE E == {j \in 0..n : i <= j => NotAfter(upTo[i], upTo[j])}
<1>5. 0 \in E
  BY <1>2, <1>4, NotAfterIs
<1>6. ASSUME NEW k \in 0..n - 1, k \in E PROVE k + 1 \in E
  <2>1. PICK r \in 1..n : r = k + 1 /\ r - 1 = k /\ r \in 0..n /\ k \in 0..n
    OBVIOUS
  <2>2. CASE i <= k
    <3>1. NotAfter(upTo[i], upTo[k])
      BY <1>6, <2>2
    <3>2. NotAfter(upTo[k], upTo[r])
      BY <2>1, <1>3
    <3>3. NotAfter(upTo[i], upTo[r])
      BY <3>1, <3>2, <2>1, <1>2, <1>4, NotAfterIs
    <3> QED
      BY <3>3, <2>1
  <2>3. CASE i = r
    <3>1. NotAfter(upTo[i], upTo[r])
      BY <2>3, <1>2, <1>4, NotAfterIs
    <3> QED
      BY <3>1, <2>1
  <2>4. CASE i > r
    BY <2>1, <2>4
  <2> QED
    BY <2>1, <2>2, <2>3, <2>4, <1>4
<1>7. 0..n \subseteq E
  <2> HIDE DEF E
  <2> QED
    BY <1>5, <1>6, InductionTo
<1> QED
  BY <1>1, <1>7

LEMMA ObjectsWellPlaced ==
  ASSUME NEW space, Spaces(space)
  PROVE  WellPlaced(space, placesOf(space))
<1>1. PICK n \in Nat : n = PointerCount
  BY OopsAre
<1>2. PICK upTo : Behind(space, upTo)
  BY BehindExists
<1>3. PICK places : places = placesOf(space)
  OBVIOUS
<1>4. /\ \A i \in 0..n : upTo[i] \in Positions
      /\ upTo[0] = [segment |-> 0, word |-> 0]
      /\ \A i \in 1..n : upTo[i] = IF 2 * i \notin DOMAIN space THEN upTo[i - 1]
                                   ELSE placeAfter(upTo[i - 1], space[2 * i])
      /\ places = [o \in DOMAIN space |-> place(upTo[o \div 2 - 1], space[o])]
  BY <1>1, <1>2, <1>3 DEF Behind
<1> DEFINE here(i) == upTo[i - 1]
<1>5. ASSUME NEW i \in 1..n, 2 * i \in DOMAIN space
      PROVE  /\ here(i) \in Positions
             /\ space[2 * i] \in Nat \ {0} /\ space[2 * i] <= SegmentHeapSpaceSize
             /\ places[2 * i] = place(here(i), space[2 * i])
             /\ upTo[i] = placeAfter(here(i), space[2 * i])
             /\ places[2 * i] \in Positions
             /\ upTo[i].segment = places[2 * i].segment
             /\ upTo[i].word = places[2 * i].word + space[2 * i]
             /\ places[2 * i].word + space[2 * i] <= SegmentHeapSpaceSize
             /\ places[2 * i] = here(i) \/ places[2 * i].word = 0
             /\ NotAfter(here(i), places[2 * i])
  <2>1. here(i) \in Positions
    <3>1. i - 1 \in 0..n
      OBVIOUS
    <3> QED
      BY <3>1, <1>4
  <2>2. space[2 * i] \in Nat \ {0} /\ space[2 * i] <= SegmentHeapSpaceSize
    BY <1>5 DEF Spaces
  <2>3. places[2 * i] = place(here(i), space[2 * i])
    <3>1. (2 * i) \div 2 = i
      OBVIOUS
    <3> QED
      BY <3>1, <1>4, <1>5
  <2>4. upTo[i] = placeAfter(here(i), space[2 * i])
    BY <1>4, <1>5
  <2>5. PICK at, size, p : at = here(i) /\ size = space[2 * i] /\ p = places[2 * i]
    OBVIOUS
  <2>6. at \in Positions /\ size \in Nat /\ size <= SegmentHeapSpaceSize
    BY <2>1, <2>2, <2>5
  <2>7. /\ place(at, size) \in Positions
        /\ place(at, size).word + size <= SegmentHeapSpaceSize
        /\ placeAfter(at, size).segment = place(at, size).segment
        /\ placeAfter(at, size).word = place(at, size).word + size
        /\ place(at, size) = at \/ place(at, size).word = 0
        /\ NotAfter(at, place(at, size))
    BY <2>6, PlaceIs
  <2>8. p = place(at, size) /\ upTo[i] = placeAfter(at, size)
    BY <2>3, <2>4, <2>5
  <2> QED
    BY <2>1, <2>2, <2>3, <2>4, <2>5, <2>7, <2>8
<1> HIDE DEF here
<1>6. \A o \in DOMAIN space : \E i \in 1..n : o = 2 * i
  BY <1>1 DEF Spaces, Oops
<1>7. ASSUME NEW i \in 1..n, NEW j \in 1..n, 2 * i \in DOMAIN space, 2 * j \in DOMAIN space, i < j
      PROVE  \/ places[2 * i].segment < places[2 * j].segment
             \/ /\ places[2 * i].segment = places[2 * j].segment
                /\ places[2 * i].word + space[2 * i] <= places[2 * j].word
  <2>1. i \in 0..PointerCount /\ j - 1 \in 0..PointerCount /\ i <= j - 1
    BY <1>1, <1>7
  <2>2. NotAfter(upTo[i], here(j))
    BY <2>1, <1>2, BehindGrows DEF here
  <2>3. NotAfter(here(j), places[2 * j]) /\ here(j) \in Positions /\ places[2 * j] \in Positions
    BY <1>5, <1>7
  <2>4. upTo[i] \in Positions
    BY <1>4
  <2>5. NotAfter(upTo[i], places[2 * j])
    BY <2>2, <2>3, <2>4, NotAfterIs
  <2>6. /\ upTo[i].segment = places[2 * i].segment
        /\ upTo[i].word = places[2 * i].word + space[2 * i]
    BY <1>5, <1>7
  <2> QED
    BY <2>5, <2>6 DEF NotAfter
(* Behind objects, in a segment, the last of them ends. *)
<1> DEFINE ends(i) == \/ upTo[i].word = 0
                      \/ \E q \in DOMAIN space : q <= 2 * i /\ EndsAt(places[q], space[q], upTo[i])
           E == {i \in 0..n : ends(i)}
<1>8. 0 \in E
  BY <1>4
<1>9. ASSUME NEW k \in 0..n - 1, k \in E PROVE k + 1 \in E
  <2>1. PICK r \in 1..n : r = k + 1 /\ r - 1 = k /\ r \in 0..n /\ 2 * k < 2 * r
    OBVIOUS
  <2>2. CASE 2 * r \in DOMAIN space
    <3>1. EndsAt(places[2 * r], space[2 * r], upTo[r])
      BY <2>2, <1>5 DEF EndsAt
    <3>2. 2 * r <= 2 * r
      OBVIOUS
    <3>3. ends(r)
      BY <3>1, <3>2, <2>2
    <3> HIDE DEF ends
    <3> QED
      BY <3>3, <2>1
  <2>3. CASE 2 * r \notin DOMAIN space
    <3>1. upTo[r] = upTo[k]
      BY <2>1, <2>3, <1>4
    <3>2. \A q \in DOMAIN space : q <= 2 * k => q <= 2 * r
      BY <2>1, <1>6
    <3>3. ends(k)
      BY <1>9
    <3>4. ends(r)
      BY <3>1, <3>2, <3>3
    <3> HIDE DEF ends
    <3> QED
      BY <3>4, <2>1
  <2> QED
    BY <2>2, <2>3
<1>10. \A i \in 0..n : ends(i)
  <2>1. 0..n \subseteq E
    <3> HIDE DEF E
    <3> QED
      BY <1>8, <1>9, InductionTo
  <2> HIDE DEF ends
  <2> QED
    BY <2>1
<1>11. ASSUME NEW i \in 1..n, 2 * i \in DOMAIN space, places[2 * i].word # 0
       PROVE  \E q \in DOMAIN space : q < 2 * i /\ EndsAt(places[q], space[q], places[2 * i])
  <2>1. places[2 * i] = here(i)
    BY <1>5, <1>11
  <2>2. PICK k \in 0..n : k = i - 1 /\ 2 * k < 2 * i
    OBVIOUS
  <2>3. places[2 * i] = upTo[k]
    BY <2>1, <2>2 DEF here
  <2>4. PICK q \in DOMAIN space : q <= 2 * k /\ EndsAt(places[q], space[q], upTo[k])
    BY <2>3, <1>10, <1>11
  <2>5. q < 2 * i
    BY <2>2, <2>4, <1>6
  <2> QED
    BY <2>3, <2>4, <2>5
<1>12. DOMAIN places = DOMAIN space
  BY <1>4
<1>13. ASSUME NEW o \in DOMAIN space
       PROVE  /\ places[o] \in Positions
              /\ places[o].word + space[o] <= SegmentHeapSpaceSize
              /\ \/ places[o].word = 0
                 \/ \E q \in DOMAIN space : q < o /\ EndsAt(places[q], space[q], places[o])
  <2>1. PICK i \in 1..n : o = 2 * i
    BY <1>6
  <2>2. /\ places[2 * i] \in Positions
        /\ places[2 * i].word + space[2 * i] <= SegmentHeapSpaceSize
    BY <2>1, <1>5
  <2> QED
    BY <2>1, <2>2, <1>11
<1>14. ASSUME NEW o \in DOMAIN space, NEW q \in DOMAIN space, o < q
       PROVE  \/ places[o].segment < places[q].segment
              \/ /\ places[o].segment = places[q].segment
                 /\ places[o].word + space[o] <= places[q].word
  <2>1. PICK i \in 1..n : o = 2 * i
    BY <1>6
  <2>2. PICK j \in 1..n : q = 2 * j
    BY <1>6
  <2>3. i < j
    BY <2>1, <2>2, <1>14
  <2> QED
    BY <2>1, <2>2, <2>3, <1>7
<1>15. WellPlaced(space, places)
  BY <1>12, <1>13, <1>14 DEF WellPlaced
<1> QED
  BY <1>3, <1>15

----------------------------------------------------------------------------
(* freeChunks: one pointer for each segment with room behind the objects.    *)

(* The segments' words that are used, and what is left of them. *)
endsIn(extents, s) == {x.location + x.space : x \in {e \in extents : e.segment = s}}
usedWords(extents, s) == Max({0} \cup endsIn(extents, s))
wordsLeft(extents, s) == SegmentHeapSpaceSize - usedWords(extents, s)

Extents(extents) ==
  \A x \in extents : x.location + x.space \in Nat /\ x.location + x.space <= SegmentHeapSpaceSize

EnoughFree(free) == free \subseteq Oops /\ Cardinality(free) >= HeapSegmentCount

ChunksAre(extents, free, chunks) ==
  /\ \A c \in chunks :
       /\ c.oop \in free /\ c.segment \in AllSegments
       /\ c.location = usedWords(extents, c.segment) /\ c.size = wordsLeft(extents, c.segment)
       /\ c.size >= HeaderSize
  /\ \A c, d \in chunks : c.oop = d.oop \/ c.segment = d.segment => c = d
  /\ \A s \in AllSegments :
       wordsLeft(extents, s) >= HeaderSize => \E c \in chunks : c.segment = s

LEMMA SegmentSize == SegmentHeapSpaceSize \in Nat /\ HeapSegmentCount \in Nat
BY SnapshotConstantsOK DEF SegmentHeapSpaceSize

LEMMA UsedWords ==
  ASSUME NEW extents, Extents(extents), NEW s
  PROVE  /\ usedWords(extents, s) \in 0..SegmentHeapSpaceSize
         /\ wordsLeft(extents, s) \in 0..SegmentHeapSpaceSize
         /\ usedWords(extents, s) = 0 \/ usedWords(extents, s) \in endsIn(extents, s)
         /\ \A e \in endsIn(extents, s) : e \in Nat /\ e <= usedWords(extents, s)
<1> DEFINE S == {0} \cup endsIn(extents, s)
<1>1. \A e \in endsIn(extents, s) : e \in 0..SegmentHeapSpaceSize
  BY SegmentSize DEF endsIn, Extents
<1>2. S \in SUBSET (0..SegmentHeapSpaceSize) /\ S # {}
  BY <1>1, SegmentSize
<1>3. PICK u : u = Max(S)
  OBVIOUS
<1>4. u \in S /\ \A y \in S : y <= u
  <2> HIDE DEF S
  <2> QED
    BY <1>2, <1>3, SegmentSize, HasGreatest
<1>5. u \in 0..SegmentHeapSpaceSize
  <2> HIDE DEF S
  <2> QED
    BY <1>2, <1>4
<1>6. usedWords(extents, s) = u
  BY <1>3 DEF usedWords
<1>7. SegmentHeapSpaceSize - u \in 0..SegmentHeapSpaceSize
  BY <1>5, SegmentSize
<1> QED
  BY <1>1, <1>4, <1>5, <1>6, <1>7 DEF wordsLeft

(* The free pointers that are taken by the first segments. *)
Taken(extents, free, taken) ==
  /\ taken \in [0..HeapSegmentCount -> SUBSET free] /\ taken[0] = {}
  /\ \A s \in 1..HeapSegmentCount :
       taken[s] = IF wordsLeft(extents, s - 1) < HeaderSize THEN taken[s - 1]
                  ELSE taken[s - 1] \cup {Min(free \ taken[s - 1])}
  /\ \A s \in 1..HeapSegmentCount : Min(free \ taken[s - 1]) \in free \ taken[s - 1]

ChunkOf(extents, free, taken, s) ==
  [oop |-> Min(free \ taken[s]), segment |-> s, size |-> wordsLeft(extents, s),
   location |-> usedWords(extents, s)]

ChunkSegments(extents) == {r \in AllSegments : wordsLeft(extents, r) >= HeaderSize}

LEMMA TakenExists ==
  ASSUME NEW extents, NEW free, EnoughFree(free)
  PROVE  \E taken : /\ Taken(extents, free, taken)
                    /\ freeChunks(extents, free) =
                         {ChunkOf(extents, free, taken, s) : s \in ChunkSegments(extents)}
<1> DEFINE n == HeapSegmentCount
           step(t, i) == IF wordsLeft(extents, i - 1) < HeaderSize THEN t
                         ELSE t \cup {Min(free \ t)}
           body(t) == [i \in 0..n |-> IF i = 0 THEN {} ELSE step(t[i - 1], i)]
           T == CHOOSE t : t = body(t)
           f == [i \in 1..n |-> [t \in SUBSET free |-> IF free \ t = {} THEN t ELSE step(t, i)]]
<1>1. n \in Nat
  BY SegmentSize
<1>2. freeChunks(extents, free) = {ChunkOf(extents, free, T, s) : s \in ChunkSegments(extents)}
  <2>1. body(0) = body(0)
    OBVIOUS
  <2> QED
    BY Zenon DEF freeChunks, ChunkOf, ChunkSegments, wordsLeft, usedWords, endsIn
<1>3. ASSUME NEW t \in SUBSET free, free \ t # {} PROVE Min(free \ t) \in free \ t
  <2>1. free \ t \in SUBSET Nat
    BY OopsAre DEF EnoughFree
  <2> QED
    BY <2>1, <1>3, MinIs
<1>4. f \in [1..n -> [SUBSET free -> SUBSET free]]
  <2>1. ASSUME NEW t \in SUBSET free, NEW i \in 1..n
        PROVE  (IF free \ t = {} THEN t ELSE step(t, i)) \in SUBSET free
    BY <1>3
  <2> HIDE DEF step
  <2> QED
    BY <2>1
<1>5. \A i \in 1..n : \A t \in SUBSET free : f[i][t] = IF free \ t = {} THEN t ELSE step(t, i)
  OBVIOUS
<1> HIDE DEF f
<1>6. PICK g \in [0..n -> SUBSET free] : Recurs(g, n, {}, f)
  BY <1>1, <1>4, RecursionTo
<1>7. \A i \in 1..n : g[i - 1] \in SUBSET free
  <2>1. \A i \in 1..n : i - 1 \in 0..n
    BY <1>1
  <2> QED
    BY <2>1
<1>8. g[0] = {} /\ \A i \in 1..n : g[i] = IF free \ g[i - 1] = {} THEN g[i - 1]
                                          ELSE step(g[i - 1], i)
  <2> HIDE DEF step
  <2> QED
    BY <1>5, <1>6, <1>7 DEF Recurs
<1>9. IsFiniteSet(free) /\ Cardinality(free) \in Nat
  <2>1. Oops \subseteq 0..(2 * PointerCount) /\ PointerCount \in Nat
    BY OopsAre
  <2>2. IsFiniteSet(0..(2 * PointerCount))
    BY <2>1, FS_Interval
  <2>3. free \in SUBSET (0..(2 * PointerCount))
    BY <2>1 DEF EnoughFree
  <2> QED
    BY <2>2, <2>3, FS_Subset, FS_CardinalityType
<1>10. \A i \in 0..n : Cardinality(g[i]) <= i
  <2> DEFINE E == {i \in 0..n : Cardinality(g[i]) <= i}
  <2>1. 0 \in E
    BY <1>1, <1>8, FS_EmptySet
  <2>2. ASSUME NEW k \in 0..n - 1, k \in E PROVE k + 1 \in E
    <3>1. PICK r \in 1..n : r = k + 1 /\ r - 1 = k /\ r \in 0..n
      BY <1>1
    <3>2. g[k] \in SUBSET free /\ Cardinality(g[k]) <= k
      BY <2>2, <1>1
    <3>3. IsFiniteSet(g[k]) /\ Cardinality(g[k]) \in Nat
      BY <3>2, <1>9, FS_Subset, FS_CardinalityType
    <3>4. g[r] = g[k] \/ g[r] = g[k] \cup {Min(free \ g[k])}
      BY <3>1, <1>8
    <3>5. Cardinality(g[k] \cup {Min(free \ g[k])}) <= k + 1
      <4>1. PICK a, x : a = g[k] /\ x = Min(free \ g[k])
        OBVIOUS
      <4>2. Cardinality(a \cup {x}) = IF x \in a THEN Cardinality(a) ELSE Cardinality(a) + 1
        BY <4>1, <3>3, FS_AddElement
      <4>3. Cardinality(a \cup {x}) <= k + 1
        BY <4>1, <4>2, <3>2, <3>3
      <4> QED
        BY <4>1, <4>3
    <3>6. Cardinality(g[r]) <= k + 1
      <4>1. CASE g[r] = g[k]
        BY <4>1, <3>2, <3>3
      <4> QED
        BY <4>1, <3>4, <3>5
    <3> QED
      BY <3>1, <3>6
  <2>3. 0..n \subseteq E
    <3> HIDE DEF E
    <3> QED
      BY <1>1, <2>1, <2>2, InductionTo
  <2> QED
    BY <2>3
<1>11. \A i \in 1..n : free \ g[i - 1] # {}
  <2> TAKE i \in 1..n
  <2>1. PICK k \in 0..n : k = i - 1 /\ k < n
    BY <1>1
  <2>2. Cardinality(g[k]) < Cardinality(free)
    <3>1. Cardinality(g[k]) <= k /\ g[k] \in SUBSET free
      BY <1>10
    <3>2. Cardinality(g[k]) \in Nat
      BY <3>1, <1>9, FS_Subset, FS_CardinalityType
    <3>3. Cardinality(free) >= n
      BY DEF EnoughFree
    <3> QED
      BY <3>1, <3>2, <3>3, <1>1, <1>9, <2>1
  <2>3. g[k] \in SUBSET free /\ g[k] # free
    BY <2>2, <1>9
  <2> QED
    BY <2>1, <2>3
<1>12. \A i \in 1..n : g[i] = step(g[i - 1], i)
  <2> HIDE DEF step
  <2> QED
    BY <1>8, <1>11
<1>13. g = body(g)
  <2>1. \A i \in 0..n : g[i] = IF i = 0 THEN {} ELSE step(g[i - 1], i)
    <3> TAKE i \in 0..n
    <3>1. i = 0 \/ i \in 1..n
      BY <1>1
    <3> HIDE DEF step
    <3> QED
      BY <3>1, <1>8, <1>12
  <2> HIDE DEF step
  <2> QED
    BY <2>1
<1>14. T = body(T)
  <2> HIDE DEF body
  <2> QED
    BY <1>13, Zenon
<1> HIDE DEF T
<1>15. /\ T = [i \in 0..n |-> T[i]]
       /\ \A i \in 0..n : T[i] = IF i = 0 THEN {} ELSE step(T[i - 1], i)
  <2> HIDE DEF step
  <2> QED
    BY <1>14
<1>16. \A i \in 0..n : T[i] = g[i]
  <2> DEFINE E == {i \in 0..n : T[i] = g[i]}
  <2>1. 0 \in E
    <3>1. 0 \in 0..n
      BY <1>1
    <3>2. T[0] = {} /\ g[0] = {}
      <4> HIDE DEF step
      <4> QED
        BY <3>1, <1>8, <1>15
    <3> QED
      BY <3>1, <3>2
  <2>2. ASSUME NEW k \in 0..n - 1, k \in E PROVE k + 1 \in E
    <3>1. PICK r \in 1..n : r = k + 1 /\ r - 1 = k /\ r \in 0..n /\ r # 0
      BY <1>1
    <3>2. T[r] = step(T[k], r) /\ g[r] = step(g[k], r)
      <4> HIDE DEF step
      <4> QED
        BY <3>1, <1>12, <1>15
    <3>3. T[r] = g[r]
      <4> HIDE DEF step
      <4> QED
        BY <2>2, <3>2
    <3> QED
      BY <3>1, <3>3
  <2>3. 0..n \subseteq E
    <3> HIDE DEF E
    <3> QED
      BY <1>1, <2>1, <2>2, InductionTo
  <2> QED
    BY <2>3
<1>17. T = g
  BY <1>15, <1>16
<1>18. \A i \in 1..n : Min(free \ g[i - 1]) \in free \ g[i - 1]
  BY <1>3, <1>7, <1>11
<1>19. Taken(extents, free, T)
  BY <1>8, <1>12, <1>17, <1>18 DEF Taken
<1> QED
  BY <1>2, <1>19

LEMMA FreeChunksAre ==
  ASSUME NEW extents, Extents(extents), NEW free, EnoughFree(free)
  PROVE  ChunksAre(extents, free, freeChunks(extents, free))
<1>1. PICK n \in Nat : n = HeapSegmentCount
  BY SegmentSize
<1>2. PICK taken : /\ Taken(extents, free, taken)
                   /\ freeChunks(extents, free) =
                        {ChunkOf(extents, free, taken, s) : s \in ChunkSegments(extents)}
  BY TakenExists
<1>3. PICK chunks : chunks = freeChunks(extents, free)
  OBVIOUS
<1>4. /\ \A s \in 0..n : taken[s] \in SUBSET free
      /\ \A s \in 1..n :
           taken[s] = IF wordsLeft(extents, s - 1) < HeaderSize THEN taken[s - 1]
                      ELSE taken[s - 1] \cup {Min(free \ taken[s - 1])}
      /\ \A s \in 1..n : Min(free \ taken[s - 1]) \in free \ taken[s - 1]
  BY <1>1, <1>2 DEF Taken
<1>5. \A s, t \in 0..n : s <= t => taken[s] \subseteq taken[t]
  <2> TAKE s \in 0..n
  <2> DEFINE E == {t \in 0..n : s <= t => taken[s] \subseteq taken[t]}
  <2>1. 0 \in E
    OBVIOUS
  <2>2. ASSUME NEW k \in 0..n - 1, k \in E PROVE k + 1 \in E
    <3>1. PICK r \in 1..n : r = k + 1 /\ r - 1 = k /\ r \in 0..n
      OBVIOUS
    <3>2. taken[k] \subseteq taken[r]
      BY <3>1, <1>4
    <3>3. s <= k \/ s = r \/ s > r
      BY <3>1
    <3>4. s <= r => taken[s] \subseteq taken[r]
      <4>1. CASE s <= k
        BY <4>1, <2>2, <3>2
      <4>2. CASE s = r
        BY <4>2
      <4>3. CASE s > r
        BY <4>3, <3>1
      <4> QED
        BY <4>1, <4>2, <4>3, <3>3
    <3> QED
      BY <3>1, <3>4
  <2>3. 0..n \subseteq E
    <3> HIDE DEF E
    <3> QED
      BY <2>1, <2>2, InductionTo
  <2> QED
    BY <2>3
<1>6. ChunkSegments(extents) = {s \in 0..n - 1 : wordsLeft(extents, s) >= HeaderSize}
  BY <1>1 DEF ChunkSegments, AllSegments
<1>7. \A s \in 0..n - 1 : wordsLeft(extents, s) \in Nat
  BY SegmentSize, UsedWords
<1>8. ASSUME NEW s \in ChunkSegments(extents)
      PROVE  /\ Min(free \ taken[s]) \in free \ taken[s]
             /\ \A t \in 0..n : s < t => Min(free \ taken[s]) \in taken[t]
  <2>1. PICK r \in 1..n : r - 1 = s /\ r = s + 1 /\ r \in 0..n
    BY <1>6
  <2>2. wordsLeft(extents, s) >= 2 /\ wordsLeft(extents, s) \in Nat
    BY <1>6, <1>7 DEF HeaderSize
  <2>3. taken[r] = taken[s] \cup {Min(free \ taken[s])}
    <3>1. ~(wordsLeft(extents, s) < HeaderSize)
      BY <2>2 DEF HeaderSize
    <3> QED
      BY <2>1, <3>1, <1>4
  <2>4. ASSUME NEW t \in 0..n, s < t PROVE Min(free \ taken[s]) \in taken[t]
    <3>1. r <= t
      BY <2>1, <2>4
    <3>2. taken[r] \subseteq taken[t]
      BY <3>1, <2>1, <1>5
    <3> QED
      BY <2>3, <3>2
  <2> QED
    BY <2>1, <2>4, <1>4
<1>9. ASSUME NEW s \in ChunkSegments(extents), NEW t \in ChunkSegments(extents), s # t
      PROVE  Min(free \ taken[s]) # Min(free \ taken[t])
  <2>1. s \in 0..n /\ t \in 0..n /\ (s < t \/ t < s)
    BY <1>6, <1>9
  <2>2. ASSUME NEW a \in ChunkSegments(extents), NEW b \in ChunkSegments(extents), a < b
        PROVE  Min(free \ taken[a]) # Min(free \ taken[b])
    <3>1. b \in 0..n
      BY <1>6
    <3>2. Min(free \ taken[a]) \in taken[b]
      BY <2>2, <3>1, <1>8
    <3>3. Min(free \ taken[b]) \notin taken[b]
      BY <1>8
    <3> QED
      BY <3>2, <3>3
  <2> QED
    BY <2>1, <2>2
<1>10. \A c \in chunks : \E s \in ChunkSegments(extents) :
         /\ c = ChunkOf(extents, free, taken, s) /\ c.segment = s
         /\ c.oop = Min(free \ taken[s])
         /\ c.size = wordsLeft(extents, s) /\ c.location = usedWords(extents, s)
  <2> TAKE c \in chunks
  <2>1. PICK s \in ChunkSegments(extents) : c = ChunkOf(extents, free, taken, s)
    BY <1>2, <1>3, Zenon
  <2>2. /\ c.segment = s /\ c.oop = Min(free \ taken[s])
        /\ c.size = wordsLeft(extents, s) /\ c.location = usedWords(extents, s)
    BY <2>1 DEF ChunkOf
  <2> QED
    BY <2>1, <2>2, Zenon
<1>11. ASSUME NEW c \in chunks
       PROVE  /\ c.oop \in free /\ c.segment \in AllSegments
              /\ c.location = usedWords(extents, c.segment)
              /\ c.size = wordsLeft(extents, c.segment) /\ c.size >= HeaderSize
  <2>1. PICK s \in ChunkSegments(extents) :
          /\ c.segment = s /\ c.oop = Min(free \ taken[s])
          /\ c.size = wordsLeft(extents, s) /\ c.location = usedWords(extents, s)
    BY <1>10
  <2>2. s \in AllSegments /\ wordsLeft(extents, s) >= HeaderSize
    BY DEF ChunkSegments
  <2>3. Min(free \ taken[s]) \in free
    BY <1>8
  <2> QED
    BY <2>1, <2>2, <2>3
<1>12. ASSUME NEW c \in chunks, NEW d \in chunks, c.oop = d.oop \/ c.segment = d.segment
       PROVE  c = d
  <2>1. PICK s \in ChunkSegments(extents) :
          c = ChunkOf(extents, free, taken, s) /\ c.segment = s /\ c.oop = Min(free \ taken[s])
    BY <1>10
  <2>2. PICK t \in ChunkSegments(extents) :
          d = ChunkOf(extents, free, taken, t) /\ d.segment = t /\ d.oop = Min(free \ taken[t])
    BY <1>10
  <2>3. s = t
    BY <2>1, <2>2, <1>9, <1>12
  <2> QED
    BY <2>1, <2>2, <2>3
<1>13. ASSUME NEW s \in AllSegments, wordsLeft(extents, s) >= HeaderSize
       PROVE  \E c \in chunks : c.segment = s
  <2>1. s \in ChunkSegments(extents)
    BY <1>13 DEF ChunkSegments
  <2>2. ChunkOf(extents, free, taken, s) \in chunks
    BY <2>1, <1>2, <1>3
  <2>3. ChunkOf(extents, free, taken, s).segment = s
    BY DEF ChunkOf
  <2> QED
    BY <2>2, <2>3
<1>14. ChunksAre(extents, free, chunks)
  BY <1>11, <1>12, <1>13 DEF ChunksAre
<1> QED
  BY <1>3, <1>14

----------------------------------------------------------------------------
(* loadSnapshot of a file that holds an image (ImageLoads), and of one       *)
(* whose header tells an empty table (HarmlessLoads).                        *)

(* What a load makes of the cells of a file, if it reads them at all.        *)
loadFile(data) ==
  IF Len(data) < 2 \/ data[2] > Len(data) THEN LoadFailed
  ELSE loadObjects(data, loadedTable(data, data[2]))

(* The two boot modes differ in the size that they take, and in nothing that *)
(* the cells of the file decide.                                             *)
LEMMA LoadSnapshotIs ==
  ASSUME NEW data, Len(data) \in Nat, NEW b \in BootModes
  PROVE  loadSnapshot(b, data) = IF TooLarge(b, data) THEN LoadFailed ELSE loadFile(data)
<1>1. CASE TooLarge(b, data)
  BY <1>1 DEF loadSnapshot
<1>2. CASE ~TooLarge(b, data) /\ Len(data) >= 2
  <2>1. HasHeader(data) /\ objectTableLength(data) = data[2] /\ ~(Len(data) < 2)
    BY <1>2 DEF HasHeader, objectTableLength
  <2>2. loadSnapshot(b, data) = IF data[2] > Len(data) THEN LoadFailed
                                ELSE loadObjects(data, loadedTable(data, data[2]))
    BY <1>2, <2>1, Zenon DEF loadSnapshot, TableOutside
  <2> QED
    BY <1>2, <2>1, <2>2 DEF loadFile
<1>3. CASE ~TooLarge(b, data) /\ Len(data) < 2
  <2>1. objectTableLength(data) = BuiltInLength
    BY <1>3 DEF HasHeader, objectTableLength
  <2>2. BuiltInLength > Len(data)
    BY <1>3, SnapshotConstantsOK
  <2>3. TableOutside(data)
    BY <2>1, <2>2 DEF TableOutside
  <2>4. loadSnapshot(b, data) = LoadFailed
    BY <2>3 DEF loadSnapshot
  <2> QED
    BY <1>3, <2>4 DEF loadFile
<1> QED
  BY <1>1, <1>2, <1>3

(* What a load makes of the entries of a file that holds an image.           *)
TableHolds(data, objects, table) ==
  /\ DOMAIN table = Oops
  /\ \A o \in DOMAIN objects :
       /\ table[o] = [free |-> FALSE, count |-> objects[o].count, pointer |-> objects[o].pointer,
                      segment |-> 0, location |-> table[o].location]
       /\ table[o].location \in Nat
       /\ PlacedIn(Nat, objects[o].words, data, PageSize + table[o].location)
  /\ \A o \in Oops \ DOMAIN objects :
       table[o] = [free |-> TRUE, count |-> 0, pointer |-> table[o].pointer,
                   segment |-> 0, location |-> table[o].location]

LEMMA TableLoaded ==
  ASSUME NEW data, NEW objects, IsFileOf(data, objects), IsImage(objects)
  PROVE  TableHolds(data, objects, loadedTable(data, data[2]))
<1>1. PICK table, base, length : /\ table = loadedTable(data, length)
                                 /\ base = Len(data) - length /\ length = data[2]
  OBVIOUS
<1>2. DOMAIN table = Oops
  BY <1>1 DEF loadedTable
<1>3. ASSUME NEW o \in Oops
      PROVE  table[o] = IF o >= length THEN freeEntry
                        ELSE [free |-> freeBit(data[base + o + 1]),
                              count |-> countBits(data[base + o + 1]),
                              pointer |-> pointerBit(data[base + o + 1]), segment |-> 0,
                              location |-> data[base + o + 2]]
  BY <1>1 DEF loadedTable
<1>4. length \in Nat /\ \A o \in Oops : o \in Nat
  <2>1. data[2] \in Nat
    <3>1. data \in Seq(Nat) /\ Len(data) >= 2
      BY DEF IsFileOf
    <3>2. 2 \in 1..Len(data)
      BY <3>1
    <3> QED
      BY <3>1, <3>2
  <2> QED
    BY <2>1, <1>1, OopsAre
<1>5. ASSUME NEW o \in DOMAIN objects
      PROVE  /\ o \in Oops
             /\ table[o] = [free |-> FALSE, count |-> objects[o].count,
                            pointer |-> objects[o].pointer,
                            segment |-> 0, location |-> table[o].location]
             /\ table[o].location \in Nat
             /\ PlacedIn(Nat, objects[o].words, data, PageSize + table[o].location)
  <2>1. o \in Oops /\ o < length
    BY <1>1 DEF IsFileOf
  <2>2. EntryOf(data, o, objects)
    BY <2>1, <1>1 DEF IsFileOf
  <2>3. PICK w, a : w = data[base + o + 1] /\ a = data[base + o + 2]
    OBVIOUS
  <2>4. /\ ~freeBit(w) /\ countBits(w) = objects[o].count
        /\ pointerBit(w) = objects[o].pointer /\ a \in Nat
        /\ PlacedIn(Nat, objects[o].words, data, PageSize + a)
    BY <2>2, <2>3, <1>1, Zenon DEF EntryOf
  <2>5. table[o] = [free |-> freeBit(w), count |-> countBits(w), pointer |-> pointerBit(w),
                    segment |-> 0, location |-> a]
    <3>1. ~(o >= length)
      BY <2>1, <1>4
    <3> QED
      BY <3>1, <2>1, <2>3, <1>3
  <2>6. freeBit(w) = FALSE
    BY <2>4 DEF freeBit
  <2>7. table[o] = [free |-> FALSE, count |-> objects[o].count, pointer |-> objects[o].pointer,
                    segment |-> 0, location |-> a]
    BY <2>4, <2>5, <2>6, Zenon
  <2>8. table[o].location = a
    BY <2>7
  <2> QED
    BY <2>1, <2>4, <2>7, <2>8
<1>6. ASSUME NEW o \in Oops \ DOMAIN objects
      PROVE  table[o] = [free |-> TRUE, count |-> 0, pointer |-> table[o].pointer,
                         segment |-> 0, location |-> table[o].location]
  <2>1. CASE o >= length
    <3>1. table[o] = freeEntry
      BY <2>1, <1>3
    <3> QED
      BY <3>1 DEF freeEntry
  <2>2. CASE ~(o >= length)
    <3>1. o < length
      BY <2>2, <1>4
    <3>2. EntryOf(data, o, objects)
      BY <3>1, <1>1 DEF IsFileOf
    <3>3. PICK w, a : w = data[base + o + 1] /\ a = data[base + o + 2]
      OBVIOUS
    <3>4. freeBit(w) /\ countBits(w) = 0
      BY <3>2, <3>3, <1>1, Zenon DEF EntryOf
    <3>5. table[o] = [free |-> freeBit(w), count |-> countBits(w), pointer |-> pointerBit(w),
                      segment |-> 0, location |-> a]
      BY <2>2, <3>3, <1>3
    <3>6. freeBit(w) = TRUE
      BY <3>4 DEF freeBit
    <3>7. table[o] = [free |-> TRUE, count |-> 0, pointer |-> pointerBit(w),
                      segment |-> 0, location |-> a]
      BY <3>4, <3>5, <3>6, Zenon
    <3>8. PICK p : p = pointerBit(w)
      BY Zenon
    <3>9. table[o] = [free |-> TRUE, count |-> 0, pointer |-> p, segment |-> 0, location |-> a]
      BY <3>7, <3>8, Zenon
    <3> QED
      BY <3>9
  <2> QED
    BY <2>1, <2>2
<1>7. TableHolds(data, objects, table)
  BY <1>2, <1>5, <1>6 DEF TableHolds
<1> QED
  BY <1>1, <1>7

(* The objects at their places, with where their words are on the file.      *)
PlacedObject(x, data, objects, places) ==
  /\ x.oop \in DOMAIN objects
  /\ x.segment = places[x.oop].segment /\ x.location = places[x.oop].word
  /\ x.size = Len(objects[x.oop].words) /\ x.space = spacesOf(objects)[x.oop]
  /\ x.base \in Nat /\ PlacedIn(Nat, objects[x.oop].words, data, x.base)

PlacedObjects(data, objects, places, extents) ==
  /\ \A x \in extents : PlacedObject(x, data, objects, places)
  /\ \A x, y \in extents : x.oop = y.oop => x = y
  /\ \A o \in DOMAIN objects : \E x \in extents : x.oop = o

LEMMA SpacesOfImage ==
  ASSUME NEW objects, IsImage(objects), FitsInHeap(objects), DOMAIN objects \subseteq Oops
  PROVE  /\ Spaces(spacesOf(objects))
         /\ DOMAIN spacesOf(objects) = DOMAIN objects
         /\ \A o \in DOMAIN objects :
              /\ objects[o].words \in Seq(Nat) /\ Len(objects[o].words) \in Nat
              /\ Len(objects[o].words) >= 2
              /\ objects[o].pointer \in BOOLEAN /\ objects[o].count \in Nat \ {0}
              /\ Len(objects[o].words) <= spacesOf(objects)[o]
              /\ spacesOf(objects)[o] = spaceFor(Len(objects[o].words), objects[o].pointer)
<1>1. DOMAIN spacesOf(objects) = DOMAIN objects
  BY DEF spacesOf
<1>2. ASSUME NEW o \in DOMAIN objects
      PROVE  /\ objects[o].words \in Seq(Nat) /\ Len(objects[o].words) \in Nat
             /\ Len(objects[o].words) >= 2
             /\ objects[o].pointer \in BOOLEAN /\ objects[o].count \in Nat \ {0}
             /\ Len(objects[o].words) <= spacesOf(objects)[o]
             /\ spacesOf(objects)[o] = spaceFor(Len(objects[o].words), objects[o].pointer)
             /\ spacesOf(objects)[o] \in Nat \ {0}
             /\ spacesOf(objects)[o] <= SegmentHeapSpaceSize
  <2>1. /\ objects[o] \in [count : Nat \ {0}, pointer : BOOLEAN, words : Seq(Nat)]
        /\ Len(objects[o].words) >= 2
    BY DEF IsImage, HeaderSize
  <2>2. PICK l, p : l = Len(objects[o].words) /\ p = objects[o].pointer
    OBVIOUS
  <2>3. l \in Nat /\ l >= 2
    BY <2>1, <2>2
  <2>4. PICK s : s = spacesOf(objects)[o]
    OBVIOUS
  <2>5. s = spaceFor(l, p)
    BY <2>2, <2>4 DEF spacesOf
  <2>6. s = l \/ s = l + 1
    BY <2>5 DEF spaceFor
  <2>7. s <= SegmentHeapSpaceSize
    BY <2>4 DEF FitsInHeap
  <2>8. s \in Nat \ {0} /\ l <= s
    BY <2>3, <2>6
  <2> QED
    BY <2>1, <2>2, <2>3, <2>4, <2>5, <2>7, <2>8
<1>3. Spaces(spacesOf(objects))
  BY <1>1, <1>2 DEF Spaces
<1> QED
  BY <1>1, <1>2, <1>3

(* The parts that a load puts together to a memory. *)
Loads(data, objects, table, places, extents, chunks) ==
  /\ DOMAIN objects \subseteq Oops
  /\ TableHolds(data, objects, table)
  /\ WellPlaced(spacesOf(objects), places)
  /\ \A o \in DOMAIN objects : places[o].segment \in AllSegments
  /\ PlacedObjects(data, objects, places, extents)
  /\ Extents(extents)
  /\ ChunksAre(extents, Oops \ DOMAIN objects, chunks)

LEMMA LoadIs ==
  ASSUME NEW data, NEW objects, IsFileOf(data, objects), IsImage(objects), FitsInHeap(objects)
  PROVE  \E table, places, extents, chunks :
           /\ Loads(data, objects, table, places, extents, chunks)
           /\ loadFile(data) = assemble(data, table, extents, chunks)
<1>1. PICK table : table = loadedTable(data, data[2])
  OBVIOUS
<1>2. TableHolds(data, objects, table) /\ DOMAIN objects \subseteq Oops
  BY <1>1, TableLoaded DEF IsFileOf
<1>3. PICK free : free = {o \in Oops : table[o].free}
  OBVIOUS
<1>4. free = Oops \ DOMAIN objects /\ Oops \ free = DOMAIN objects
  <2>1. \A o \in DOMAIN objects : table[o].free = FALSE
    <3> TAKE o \in DOMAIN objects
    <3>1. table[o] = [free |-> FALSE, count |-> objects[o].count, pointer |-> objects[o].pointer,
                      segment |-> 0, location |-> table[o].location]
      BY <1>2 DEF TableHolds
    <3> QED
      BY <3>1
  <2>2. \A o \in Oops \ DOMAIN objects : table[o].free = TRUE
    <3> TAKE o \in Oops \ DOMAIN objects
    <3>1. table[o] = [free |-> TRUE, count |-> 0, pointer |-> table[o].pointer,
                      segment |-> 0, location |-> table[o].location]
      BY <1>2 DEF TableHolds
    <3> QED
      BY <3>1
  <2> QED
    BY <2>1, <2>2, <1>2, <1>3
<1> DEFINE base(o) == ObjectSpaceBaseInImage + table[o].location
           objectSize(o) == data[base(o) + 1]
           spaceMap == [o \in Oops \ free |-> spaceFor(objectSize(o), table[o].pointer)]
<1>5. ASSUME NEW o \in DOMAIN objects
      PROVE  /\ objectSize(o) = Len(objects[o].words)
             /\ table[o].pointer = objects[o].pointer
             /\ base(o) \in Nat /\ PlacedIn(Nat, objects[o].words, data, base(o))
  <2>1. PICK b : b = base(o)
    OBVIOUS
  <2>2. b \in Nat /\ PlacedIn(Nat, objects[o].words, data, b)
    <3>1. PageSize \in Nat
      BY FilesConstantsOK
    <3>2. PICK a : a = table[o].location
      OBVIOUS
    <3>3. a \in Nat /\ PlacedIn(Nat, objects[o].words, data, PageSize + a)
      BY <3>2, <1>2, Zenon DEF TableHolds
    <3>4. b = PageSize + a
      BY <2>1, <3>2 DEF ObjectSpaceBaseInImage
    <3> QED
      BY <3>1, <3>3, <3>4
  <2>3. Len(objects[o].words) >= 2 /\ Len(objects[o].words) \in Nat
    <3>1. /\ objects[o] \in [count : Nat \ {0}, pointer : BOOLEAN, words : Seq(Nat)]
          /\ Len(objects[o].words) >= 2
      BY DEF IsImage, HeaderSize
    <3> QED
      BY <3>1
  <2>4. 1 \in 1..Len(objects[o].words)
    BY <2>3
  <2>5. data[b + 1] = objects[o].words[1]
    BY <2>2, <2>4 DEF PlacedIn
  <2>6. objects[o].words[1] = Len(objects[o].words)
    BY DEF IsFileOf
  <2>7. table[o].pointer = objects[o].pointer
    <3>1. table[o] = [free |-> FALSE, count |-> objects[o].count, pointer |-> objects[o].pointer,
                      segment |-> 0, location |-> table[o].location]
      BY <1>2 DEF TableHolds
    <3> QED
      BY <3>1
  <2> QED
    BY <2>1, <2>2, <2>5, <2>6, <2>7
<1>6. spaceMap = spacesOf(objects)
  <2>1. \A o \in DOMAIN objects : spaceFor(objectSize(o), table[o].pointer)
                                    = spaceFor(Len(objects[o].words), objects[o].pointer)
    <3> HIDE DEF objectSize
    <3> QED
      BY <1>5, Zenon
  <2> HIDE DEF objectSize
  <2> QED
    BY <2>1, <1>4 DEF spacesOf
<1>7. PICK places, space : places = placesOf(space) /\ space = spacesOf(objects)
  OBVIOUS
<1> DEFINE ext(o) == [oop |-> o, segment |-> places[o].segment, location |-> places[o].word,
                      base |-> base(o), size |-> objectSize(o), space |-> space[o]]
           extents == {ext(o) : o \in Oops \ free}
<1>8. loadObjects(data, table) = IF \E x \in extents : x.segment >= HeapSegmentCount THEN LoadFailed
                                 ELSE assemble(data, table, extents, freeChunks(extents, free))
  <2>1. places = placesOf(spaceMap) /\ space = spaceMap
    BY <1>6, <1>7
  <2> QED
    BY <1>3, <2>1, Zenon DEF loadObjects
<1>9. Spaces(space) /\ DOMAIN space = DOMAIN objects
  BY <1>2, <1>7, SpacesOfImage
<1>10. WellPlaced(space, places)
  BY <1>7, <1>9, ObjectsWellPlaced
<1>11. \A o \in DOMAIN objects : /\ places[o].segment \in AllSegments
                                 /\ places[o].segment < HeapSegmentCount
                                 /\ places[o].segment \in Nat
  <2> TAKE o \in DOMAIN objects
  <2>1. places[o].segment < HeapSegmentCount
    BY <1>7 DEF FitsInHeap
  <2>2. places[o].segment \in Nat
    BY <1>9, <1>10 DEF WellPlaced, Positions
  <2> QED
    BY <2>1, <2>2, SegmentSize DEF AllSegments
<1>12. \A o \in DOMAIN objects :
          /\ ext(o).oop = o /\ ext(o).segment = places[o].segment
          /\ ext(o).location = places[o].word /\ ext(o).space = space[o]
          /\ ext(o).size = objectSize(o) /\ ext(o).base = base(o)
  <2> HIDE DEF objectSize, base
  <2> QED
    OBVIOUS
<1>13. extents = {ext(o) : o \in DOMAIN objects}
  BY <1>4
<1> HIDE DEF ext
<1>14. \A x \in extents : \E o \in DOMAIN objects : x = ext(o)
  BY <1>13
<1>15. \A o \in DOMAIN objects : ext(o) \in extents
  BY <1>13
<1> HIDE DEF extents
<1>16. PlacedObjects(data, objects, places, extents)
  <2>1. ASSUME NEW x \in extents PROVE PlacedObject(x, data, objects, places)
    <3>1. PICK o \in DOMAIN objects : x = ext(o)
      BY <1>14
    <3>2. /\ x.oop = o /\ x.segment = places[o].segment
          /\ x.location = places[o].word /\ x.space = space[o]
          /\ x.size = objectSize(o) /\ x.base = base(o)
      BY <3>1, <1>12
    <3> HIDE DEF objectSize, base
    <3> QED
      BY <3>2, <1>5, <1>7 DEF PlacedObject
  <2>2. ASSUME NEW x \in extents, NEW y \in extents, x.oop = y.oop PROVE x = y
    <3>1. PICK o \in DOMAIN objects : x = ext(o)
      BY <1>14
    <3>2. PICK q \in DOMAIN objects : y = ext(q)
      BY <1>14
    <3>3. o = q
      BY <3>1, <3>2, <2>2, <1>12
    <3> QED
      BY <3>1, <3>2, <3>3
  <2>3. \A o \in DOMAIN objects : \E x \in extents : x.oop = o
    BY <1>12, <1>15
  <2> QED
    BY <2>1, <2>2, <2>3 DEF PlacedObjects
<1>17. ~\E x \in extents : x.segment >= HeapSegmentCount
  <2>1. ASSUME NEW x \in extents PROVE ~(x.segment >= HeapSegmentCount)
    <3>1. PICK o \in DOMAIN objects : x = ext(o)
      BY <1>14
    <3>2. x.segment = places[o].segment
      BY <3>1, <1>12
    <3> QED
      BY <3>2, <1>11, SegmentSize
  <2> QED
    BY <2>1
<1>18. Extents(extents) /\ ChunksAre(extents, free, freeChunks(extents, free))
  <2>1. Extents(extents)
    <3>1. ASSUME NEW x \in extents
          PROVE  x.location + x.space \in Nat /\ x.location + x.space <= SegmentHeapSpaceSize
      <4>1. PICK o \in DOMAIN objects : x = ext(o)
        BY <1>14
      <4>2. x.location = places[o].word /\ x.space = space[o]
        BY <4>1, <1>12
      <4>3. places[o] \in Positions /\ places[o].word + space[o] <= SegmentHeapSpaceSize
        BY <1>9, <1>10 DEF WellPlaced
      <4>4. places[o].word \in Nat /\ space[o] \in Nat
        BY <4>3, <1>9 DEF Positions, Spaces
      <4> QED
        BY <4>2, <4>3, <4>4
    <3> QED
      BY <3>1 DEF Extents
  <2>2. EnoughFree(free)
    BY <1>4 DEF EnoughFree, FitsInHeap
  <2> QED
    BY <2>1, <2>2, FreeChunksAre
<1>19. loadFile(data) = assemble(data, table, extents, freeChunks(extents, free))
  <2>1. ~(Len(data) < 2 \/ data[2] > Len(data))
    <3>1. data \in Seq(Nat) /\ Len(data) >= 2 /\ data[2] <= Len(data)
      BY DEF IsFileOf
    <3>2. PICK l, d \in Nat : l = Len(data) /\ d = data[2]
      <4>1. 2 \in 1..Len(data)
        BY <3>1
      <4>2. Len(data) \in Nat /\ data[2] \in Nat
        BY <4>1, <3>1
      <4> QED
        BY <4>2
    <3> QED
      BY <3>1, <3>2
  <2>2. loadFile(data) = loadObjects(data, table)
    BY <2>1, <1>1 DEF loadFile
  <2>3. loadObjects(data, table) = assemble(data, table, extents, freeChunks(extents, free))
    BY <1>8, <1>17, Zenon
  <2> QED
    BY <2>2, <2>3
<1>20. Loads(data, objects, table, places, extents, freeChunks(extents, free))
  BY <1>2, <1>4, <1>7, <1>10, <1>11, <1>16, <1>18, Zenon DEF Loads
<1> QED
  BY <1>19, <1>20, Zenon

LEMMA Apart ==
  ASSUME NEW objects, NEW data, NEW table, NEW places, NEW extents, NEW chunks,
         IsImage(objects), FitsInHeap(objects),
         Loads(data, objects, table, places, extents, chunks)
  PROVE  /\ \A x \in extents :
              /\ x.oop \in DOMAIN objects /\ x.oop \in Oops
              /\ x.segment \in AllSegments /\ x.location \in Nat
              /\ x.size \in Nat /\ x.size >= 2 /\ x.space \in Nat /\ x.size <= x.space
              /\ x.location + x.space <= SegmentHeapSpaceSize
              /\ x.location + x.space \in endsIn(extents, x.segment)
         /\ \A x, y \in extents : x # y /\ x.segment = y.segment =>
              x.location + x.space <= y.location \/ y.location + y.space <= x.location
<1>1. /\ WellPlaced(spacesOf(objects), places)
      /\ PlacedObjects(data, objects, places, extents)
      /\ DOMAIN objects \subseteq Oops
      /\ \A o \in DOMAIN objects : places[o].segment \in AllSegments
  BY DEF Loads
<1>2. PICK space : space = spacesOf(objects)
  OBVIOUS
<1>3. /\ DOMAIN space = DOMAIN objects
      /\ \A o \in DOMAIN objects : /\ Len(objects[o].words) \in Nat /\ Len(objects[o].words) >= 2
                                   /\ Len(objects[o].words) <= space[o]
                                   /\ space[o] \in Nat
  BY <1>1, <1>2, SpacesOfImage DEF Spaces
<1>4. ASSUME NEW x \in extents
      PROVE  /\ x.oop \in DOMAIN objects /\ x.oop \in Oops
             /\ x.segment \in AllSegments /\ x.location \in Nat
             /\ x.size \in Nat /\ x.size >= 2 /\ x.space \in Nat /\ x.size <= x.space
             /\ x.location + x.space <= SegmentHeapSpaceSize
             /\ x.location + x.space \in endsIn(extents, x.segment)
             /\ x.segment = places[x.oop].segment /\ x.location = places[x.oop].word
             /\ x.space = space[x.oop]
  <2>1. /\ x.oop \in DOMAIN objects
        /\ x.segment = places[x.oop].segment /\ x.location = places[x.oop].word
        /\ x.size = Len(objects[x.oop].words) /\ x.space = space[x.oop]
    BY <1>1, <1>2 DEF PlacedObjects, PlacedObject
  <2>2. places[x.oop] \in Positions /\ places[x.oop].word + space[x.oop] <= SegmentHeapSpaceSize
    BY <2>1, <1>1, <1>2, <1>3 DEF WellPlaced
  <2>3. places[x.oop].word \in Nat
    BY <2>2 DEF Positions
  <2>4. x.location + x.space \in endsIn(extents, x.segment)
    BY DEF endsIn
  <2> QED
    BY <2>1, <2>2, <2>3, <2>4, <1>1, <1>3
<1>5. ASSUME NEW x \in extents, NEW y \in extents, x # y, x.segment = y.segment
      PROVE  x.location + x.space <= y.location \/ y.location + y.space <= x.location
  <2>1. x.oop # y.oop
    BY <1>1, <1>5 DEF PlacedObjects
  <2>2. x.oop \in Nat /\ y.oop \in Nat /\ (x.oop < y.oop \/ y.oop < x.oop)
    <3>1. x.oop \in Nat /\ y.oop \in Nat
      BY <1>4, OopsAre
    <3> QED
      BY <2>1, <3>1
  <2>3. ASSUME NEW o \in DOMAIN objects, NEW q \in DOMAIN objects, o < q,
               places[o].segment = places[q].segment
        PROVE  places[o].word + space[o] <= places[q].word
    <3>1. \/ places[o].segment < places[q].segment
          \/ places[o].word + space[o] <= places[q].word
      BY <2>3, <1>1, <1>2, <1>3 DEF WellPlaced
    <3>2. places[q].segment \in Nat
      BY <1>1, SegmentSize DEF AllSegments
    <3> QED
      BY <3>1, <3>2, <2>3
  <2> QED
    BY <2>2, <2>3, <1>4, <1>5
<1> QED
  BY <1>4, <1>5

(* The memory that a load leaves. *)
ObjectAt(l, o, objects, places) ==
  /\ l.m.ot[o] = [free |-> FALSE, count |-> objects[o].count, pointer |-> objects[o].pointer,
                  segment |-> places[o].segment, location |-> places[o].word]
  /\ \A j \in 1..Len(objects[o].words) : word(l.m, o, j - 1) = objects[o].words[j]

ChunkAt(l, c) ==
  /\ ~l.m.ot[c.oop].free /\ l.m.ot[c.oop].count = 0
  /\ l.m.ot[c.oop].segment = c.segment /\ l.m.ot[c.oop].location = c.location
  /\ sizeOf(l.m, c.oop) = c.size

Holds(l, objects, places, chunks) ==
  /\ l.ok = TRUE /\ l.chunks = {c.oop : c \in chunks}
  /\ \A o \in DOMAIN objects : ObjectAt(l, o, objects, places)
  /\ \A c \in chunks : ChunkAt(l, c)
  /\ \A o \in Oops \ DOMAIN objects :
       /\ l.m.ot[o].count = 0
       /\ o \in l.chunks \/ l.m.ot[o].free

(* The table and the heap of the memory, without the local definitions.      *)
entryAt(table, o, here) ==
  IF here = {} THEN table[o]
  ELSE [table[o] EXCEPT !.free = FALSE, !.segment = (CHOOSE x \in here : TRUE).segment,
                        !.location = (CHOOSE x \in here : TRUE).location]

wordAt(data, w, objects, frees) ==
  IF objects # {}
  THEN data[(CHOOSE x \in objects : TRUE).base + 1 + w - (CHOOSE x \in objects : TRUE).location]
  ELSE IF frees # {}
       THEN IF w = (CHOOSE x \in frees : TRUE).location THEN (CHOOSE x \in frees : TRUE).size
            ELSE NonPointer
       ELSE 0

AtPlace(set, s, w) == {x \in set : Covers(x, s, w)}
OfOop(set, o) == {x \in set : x.oop = o}

Assembled(l, data, table, extents, chunks) ==
  /\ l.ok = TRUE /\ l.chunks = {x.oop : x \in chunks}
  /\ \A o \in Oops : l.m.ot[o] = entryAt(table, o, OfOop(extents, o) \cup OfOop(chunks, o))
  /\ \A s \in AllSegments, w \in 0..HeapSpaceStop :
       l.m.heap[s][w] = wordAt(data, w, AtPlace(extents, s, w), AtPlace(chunks, s, w))

LEMMA AssembleIs ==
  ASSUME NEW data, NEW table, NEW extents, NEW chunks
  PROVE  Assembled(assemble(data, table, extents, chunks), data, table, extents, chunks)
<1>0. PICK l : l = assemble(data, table, extents, chunks)
  OBVIOUS
<1> DEFINE OT == [o \in Oops |-> entryAt(table, o, OfOop(extents, o) \cup OfOop(chunks, o))]
           H == [s \in AllSegments |-> [w \in 0..HeapSpaceStop |->
                   wordAt(data, w, AtPlace(extents, s, w), AtPlace(chunks, s, w))]]
<1>1. l = [ok |-> TRUE, chunks |-> {x.oop : x \in chunks}, m |-> [ot |-> OT, heap |-> H]]
  BY <1>0, Zenon DEF assemble, entryAt, wordAt, AtPlace, OfOop
<1>2. PICK ot, heap : ot = OT /\ heap = H
  OBVIOUS
<1>3. /\ l.ok = TRUE /\ l.chunks = {x.oop : x \in chunks}
      /\ l.m.ot = ot /\ l.m.heap = heap
  <2> HIDE DEF OT, H
  <2> QED
    BY <1>1, <1>2
<1>4. \A o \in Oops : ot[o] = entryAt(table, o, OfOop(extents, o) \cup OfOop(chunks, o))
  BY <1>2
<1>5. \A s \in AllSegments, w \in 0..HeapSpaceStop :
        heap[s][w] = wordAt(data, w, AtPlace(extents, s, w), AtPlace(chunks, s, w))
  BY <1>2
<1>6. Assembled(l, data, table, extents, chunks)
  BY <1>3, <1>4, <1>5, Zenon DEF Assembled
<1> QED
  BY <1>0, <1>6

LEMMA ChosenOf ==
  ASSUME NEW x, NEW S, S = {x}
  PROVE  (CHOOSE y \in S : TRUE) = x
OBVIOUS

LEMMA EntryMoved ==
  ASSUME NEW e, NEW r, NEW c, NEW p, NEW a, NEW s, NEW w,
         e = [free |-> FALSE, count |-> c, pointer |-> p, segment |-> 0, location |-> a],
         r = [e EXCEPT !.free = FALSE, !.segment = s, !.location = w]
  PROVE  r = [free |-> FALSE, count |-> c, pointer |-> p, segment |-> s, location |-> w]
<1>1. DOMAIN e = {"free", "count", "pointer", "segment", "location"}
  OBVIOUS
<1>2. e.free = FALSE /\ e.count = c /\ e.pointer = p /\ e.segment = 0 /\ e.location = a
  OBVIOUS
<1>3. PICK e1 : e1 = [e EXCEPT !.free = FALSE]
  OBVIOUS
<1>4. e1 = e
  BY <1>1, <1>2, <1>3
<1>5. PICK e2 : e2 = [e1 EXCEPT !.segment = s]
  OBVIOUS
<1>6. e2 = [free |-> FALSE, count |-> c, pointer |-> p, segment |-> s, location |-> a]
  BY <1>4, <1>5
<1>7. r = [e2 EXCEPT !.location = w]
  BY <1>3, <1>5
<1> QED
  BY <1>6, <1>7

LEMMA LoadedHolds ==
  ASSUME NEW objects, NEW data, NEW table, NEW places, NEW extents, NEW chunks, NEW l,
         IsImage(objects), FitsInHeap(objects),
         Loads(data, objects, table, places, extents, chunks),
         l = assemble(data, table, extents, chunks)
  PROVE  Holds(l, objects, places, chunks)
<1>1. /\ TableHolds(data, objects, table)
      /\ PlacedObjects(data, objects, places, extents)
      /\ ChunksAre(extents, Oops \ DOMAIN objects, chunks)
      /\ DOMAIN objects \subseteq Oops /\ Extents(extents)
  BY DEF Loads
<1>2. /\ l.ok = TRUE /\ l.chunks = {x.oop : x \in chunks}
      /\ \A o \in Oops : l.m.ot[o] = entryAt(table, o, OfOop(extents, o) \cup OfOop(chunks, o))
      /\ \A s \in AllSegments, w \in 0..HeapSpaceStop :
           l.m.heap[s][w] = wordAt(data, w, AtPlace(extents, s, w), AtPlace(chunks, s, w))
  <2>1. Assembled(assemble(data, table, extents, chunks), data, table, extents, chunks)
    BY AssembleIs, Zenon
  <2>2. Assembled(l, data, table, extents, chunks)
    BY <2>1, Zenon
  <2> QED
    BY <2>2, Zenon DEF Assembled
<1>3. \A x \in extents :
        /\ x.oop \in DOMAIN objects /\ x.oop \in Oops
        /\ x.segment \in AllSegments /\ x.location \in Nat
        /\ x.size \in Nat /\ x.size >= 2 /\ x.space \in Nat /\ x.size <= x.space
        /\ x.location + x.space <= SegmentHeapSpaceSize
        /\ x.location + x.space \in endsIn(extents, x.segment)
  BY Apart
<1>4. SegmentHeapSpaceSize = HeapSpaceStop + 1 /\ HeapSpaceStop \in Nat
  BY SnapshotConstantsOK DEF SegmentHeapSpaceSize
<1>5. ASSUME NEW o \in DOMAIN objects PROVE ObjectAt(l, o, objects, places)
  <2>1. PICK x \in extents : x.oop = o
    BY <1>1 DEF PlacedObjects
  <2>2. OfOop(extents, o) = {x}
    BY <2>1, <1>1 DEF PlacedObjects, OfOop
  <2>3. OfOop(chunks, o) = {}
    <3>1. \A c \in chunks : c.oop \notin DOMAIN objects
      BY <1>1 DEF ChunksAre
    <3> QED
      BY <3>1 DEF OfOop
  <2>4. /\ x.segment = places[o].segment /\ x.location = places[o].word
        /\ x.size = Len(objects[o].words) /\ x.base \in Nat
        /\ PlacedIn(Nat, objects[o].words, data, x.base)
    BY <2>1, <1>1 DEF PlacedObjects, PlacedObject
  <2>5. l.m.ot[o] = [table[o] EXCEPT !.free = FALSE, !.segment = x.segment,
                                     !.location = x.location]
    <3>1. PICK here : here = OfOop(extents, o) \cup OfOop(chunks, o)
      OBVIOUS
    <3>2. here = {x}
      BY <3>1, <2>2, <2>3
    <3>3. (CHOOSE y \in here : TRUE) = x /\ here # {}
      BY <3>2, ChosenOf
    <3>4. l.m.ot[o] = entryAt(table, o, here)
      BY <3>1, <1>1, <1>2
    <3> QED
      BY <3>3, <3>4, Zenon DEF entryAt
  <2>6. l.m.ot[o] = [free |-> FALSE, count |-> objects[o].count, pointer |-> objects[o].pointer,
                     segment |-> places[o].segment, location |-> places[o].word]
    <3>1. PICK c, p, a : c = objects[o].count /\ p = objects[o].pointer /\ a = table[o].location
      OBVIOUS
    <3>2. table[o] = [free |-> FALSE, count |-> c, pointer |-> p, segment |-> 0, location |-> a]
      BY <3>1, <1>1 DEF TableHolds
    <3>3. l.m.ot[o] = [free |-> FALSE, count |-> c, pointer |-> p, segment |-> x.segment,
                       location |-> x.location]
      <4>1. PICK e, r, s, w : /\ e = table[o] /\ r = l.m.ot[o]
                              /\ s = x.segment /\ w = x.location
        OBVIOUS
      <4>2. e = [free |-> FALSE, count |-> c, pointer |-> p, segment |-> 0, location |-> a]
        BY <4>1, <3>2, Zenon
      <4>3. r = [e EXCEPT !.free = FALSE, !.segment = s, !.location = w]
        BY <4>1, <2>5, Zenon
      <4>4. r = [free |-> FALSE, count |-> c, pointer |-> p, segment |-> s, location |-> w]
        BY <4>2, <4>3, EntryMoved, Zenon
      <4> QED
        BY <4>1, <4>4, Zenon
    <3> QED
      BY <3>1, <3>3, <2>4
  <2>7. ASSUME NEW j \in 1..Len(objects[o].words)
        PROVE  word(l.m, o, j - 1) = objects[o].words[j]
    <3>1. PICK s, w, b, a : /\ s = x.segment /\ w = x.location + (j - 1)
                            /\ b = x.base /\ a = x.location
      OBVIOUS
    <3>2. /\ s \in AllSegments /\ a \in Nat /\ b \in Nat /\ w = a + (j - 1) /\ j \in Nat
          /\ w \in 0..HeapSpaceStop /\ w \in a..(a + x.size - 1)
      <4>1. j \in 1..x.size
        BY <2>4
      <4>2. PICK n, sp \in Nat : n = x.size /\ sp = x.space /\ n <= sp
        BY <1>3
      <4>3. a + sp <= HeapSpaceStop + 1 /\ a \in Nat /\ s \in AllSegments /\ b \in Nat
        BY <4>2, <3>1, <1>3, <1>4, <2>4
      <4>4. w = a + (j - 1) /\ j \in 1..n
        BY <3>1, <4>1, <4>2
      <4>5. w \in 0..HeapSpaceStop /\ w \in a..(a + n - 1) /\ j \in Nat
        BY <4>2, <4>3, <4>4, <1>4
      <4> QED
        BY <4>2, <4>3, <4>4, <4>5
    <3>3. word(l.m, o, j - 1) = l.m.heap[s][w]
      BY <3>1, <2>4, <2>6 DEF word
    <3>4. AtPlace(extents, s, w) = {x}
      <4>1. x \in AtPlace(extents, s, w)
        BY <3>1, <3>2 DEF AtPlace, Covers
      <4>2. ASSUME NEW y \in AtPlace(extents, s, w) PROVE y = x
        <5>1. y \in extents /\ y.segment = s /\ w \in y.location..(y.location + y.size - 1)
          BY DEF AtPlace, Covers
        <5>2. y # x => x.location + x.space <= y.location \/ y.location + y.space <= x.location
          BY <5>1, <3>1, Apart
        <5>3. PICK ya, yn, ys, xn, xs \in Nat :
                /\ ya = y.location /\ yn = y.size /\ ys = y.space
                /\ xn = x.size /\ xs = x.space
          BY <5>1, <1>3
        <5>4. yn <= ys /\ xn <= xs
          BY <5>1, <5>3, <1>3
        <5>5. w \in ya..(ya + yn - 1) /\ w \in a..(a + xn - 1)
          BY <5>1, <5>3, <3>2
        <5>6. ~(a + xs <= ya) /\ ~(ya + ys <= a)
          <6>1. PICK p, q, r, t : p = xn /\ q = xs /\ r = yn /\ t = ys
            OBVIOUS
          <6>2. /\ p \in Nat /\ q \in Nat /\ r \in Nat /\ t \in Nat /\ p <= q /\ r <= t
                /\ a \in Nat /\ ya \in Nat /\ w \in Int
                /\ w \in ya..(ya + r - 1) /\ w \in a..(a + p - 1)
            BY <6>1, <5>4, <5>5, <3>2
          <6>3. ~(a + q <= ya) /\ ~(ya + t <= a)
            BY <6>2
          <6> QED
            BY <6>1, <6>3
        <5> QED
          BY <5>2, <5>3, <5>6, <3>1
      <4> QED
        BY <4>1, <4>2
    <3>5. l.m.heap[s][w] = data[b + 1 + w - a]
      <4>1. PICK these, those : /\ these = AtPlace(extents, s, w)
                                /\ those = AtPlace(chunks, s, w)
        OBVIOUS
      <4>2. (CHOOSE y \in these : TRUE) = x /\ these # {}
        BY <3>4, <4>1, ChosenOf
      <4>3. l.m.heap[s][w] = wordAt(data, w, these, those)
        BY <3>2, <4>1, <1>2
      <4> QED
        BY <3>1, <4>2, <4>3, Zenon DEF wordAt
    <3>6. b + 1 + w - a = b + j
      BY <3>2
    <3>7. data[b + j] = objects[o].words[j]
      BY <3>1, <2>4 DEF PlacedIn
    <3> QED
      BY <3>3, <3>5, <3>6, <3>7
  <2> QED
    BY <2>6, <2>7 DEF ObjectAt
<1>6. ASSUME NEW o \in Oops \ DOMAIN objects
      PROVE  OfOop(extents, o) = {}
  BY <1>3 DEF OfOop
<1>7. ASSUME NEW c \in chunks PROVE ChunkAt(l, c)
  <2>1. /\ c.oop \in Oops \ DOMAIN objects /\ c.segment \in AllSegments
        /\ c.location = usedWords(extents, c.segment)
        /\ c.size = wordsLeft(extents, c.segment) /\ c.size >= 2
        /\ \A d \in chunks : c.oop = d.oop \/ c.segment = d.segment => c = d
    BY <1>1 DEF ChunksAre, HeaderSize
  <2>2. PICK o \in Oops \ DOMAIN objects : o = c.oop
    BY <2>1
  <2>3. OfOop(chunks, o) = {c}
    BY <2>1, <2>2 DEF OfOop
  <2>4. l.m.ot[o] = [table[o] EXCEPT !.free = FALSE, !.segment = c.segment,
                                     !.location = c.location]
    <3>1. PICK here : here = OfOop(extents, o) \cup OfOop(chunks, o)
      OBVIOUS
    <3>2. here = {c}
      BY <3>1, <2>3, <1>6
    <3>3. (CHOOSE y \in here : TRUE) = c /\ here # {}
      BY <3>2, ChosenOf
    <3>4. l.m.ot[o] = entryAt(table, o, here)
      BY <3>1, <1>2
    <3> QED
      BY <3>3, <3>4, Zenon DEF entryAt
  <2>5. /\ l.m.ot[o].free = FALSE /\ l.m.ot[o].count = 0
        /\ l.m.ot[o].segment = c.segment /\ l.m.ot[o].location = c.location
    <3>1. PICK p, a : p = table[o].pointer /\ a = table[o].location
      OBVIOUS
    <3>2. table[o] = [free |-> TRUE, count |-> 0, pointer |-> p, segment |-> 0, location |-> a]
      BY <3>1, <1>1 DEF TableHolds
    <3> QED
      BY <3>2, <2>4
  <2>6. PICK s, u, n : s = c.segment /\ u = c.location /\ n = c.size
    OBVIOUS
  <2>7. /\ s \in AllSegments /\ u \in Nat /\ n \in Nat /\ n >= 2
        /\ u + n = SegmentHeapSpaceSize /\ u \in 0..HeapSpaceStop
        /\ \A e \in endsIn(extents, s) : e \in Nat /\ e <= u
    <3>1. /\ usedWords(extents, s) \in 0..SegmentHeapSpaceSize
          /\ \A e \in endsIn(extents, s) : e \in Nat /\ e <= usedWords(extents, s)
      BY <1>1, UsedWords
    <3>2. u = usedWords(extents, s) /\ n = SegmentHeapSpaceSize - u /\ n >= 2 /\ s \in AllSegments
      BY <2>1, <2>6 DEF wordsLeft
    <3> QED
      BY <3>1, <3>2, <1>4
  <2>8. AtPlace(extents, s, u) = {}
    <3>1. ASSUME NEW y \in AtPlace(extents, s, u) PROVE FALSE
      <4>1. y \in extents /\ y.segment = s /\ u \in y.location..(y.location + y.size - 1)
        BY DEF AtPlace, Covers
      <4>2. PICK ya, yn, ys \in Nat :
              ya = y.location /\ yn = y.size /\ ys = y.space /\ yn <= ys
        BY <4>1, <1>3
      <4>3. ya + ys \in endsIn(extents, s)
        BY <4>1, <4>2, <1>3
      <4>4. ya + ys <= u /\ u \in ya..(ya + yn - 1)
        BY <4>1, <4>2, <4>3, <2>7
      <4> QED
        BY <4>2, <4>4, <2>7
    <3> QED
      BY <3>1
  <2>9. AtPlace(chunks, s, u) = {c}
    <3>1. u \in u..(u + n - 1)
      BY <2>7
    <3>2. c \in AtPlace(chunks, s, u)
      BY <3>1, <2>6 DEF AtPlace, Covers
    <3>3. \A d \in AtPlace(chunks, s, u) : d = c
      BY <2>1, <2>6 DEF AtPlace, Covers
    <3> QED
      BY <3>2, <3>3
  <2>10. l.m.heap[s][u] = n
    <3>1. PICK these, those : these = AtPlace(extents, s, u) /\ those = AtPlace(chunks, s, u)
      OBVIOUS
    <3>2. these = {} /\ those # {} /\ (CHOOSE y \in those : TRUE) = c
      BY <3>1, <2>8, <2>9, ChosenOf
    <3>3. l.m.heap[s][u] = wordAt(data, u, these, those)
      BY <3>1, <2>7, <1>2
    <3> QED
      BY <3>2, <3>3, <2>6, Zenon DEF wordAt
  <2>11. sizeOf(l.m, o) = n
    <3>1. u + 0 = u
      BY <2>7
    <3> QED
      BY <3>1, <2>5, <2>6, <2>10 DEF sizeOf, word
  <2> QED
    BY <2>2, <2>5, <2>6, <2>11 DEF ChunkAt
<1>8. ASSUME NEW o \in Oops \ DOMAIN objects
      PROVE  l.m.ot[o].count = 0 /\ (o \in l.chunks \/ l.m.ot[o].free)
  <2>1. CASE \E c \in chunks : c.oop = o
    <3>1. PICK c \in chunks : c.oop = o
      BY <2>1
    <3>2. ChunkAt(l, c)
      BY <1>7
    <3>3. o \in l.chunks
      BY <3>1, <1>2
    <3> QED
      BY <3>1, <3>2, <3>3 DEF ChunkAt
  <2>2. CASE ~\E c \in chunks : c.oop = o
    <3>1. OfOop(extents, o) \cup OfOop(chunks, o) = {}
      BY <2>2, <1>6 DEF OfOop
    <3>2. l.m.ot[o] = table[o]
      BY <3>1, <1>2 DEF entryAt
    <3>3. table[o] = [free |-> TRUE, count |-> 0, pointer |-> table[o].pointer,
                      segment |-> 0, location |-> table[o].location]
      BY <1>1 DEF TableHolds
    <3>4. table[o].free = TRUE /\ table[o].count = 0
      BY <3>3
    <3> QED
      BY <3>2, <3>4
  <2> QED
    BY <2>1, <2>2
<1> QED
  BY <1>2, <1>5, <1>7, <1>8 DEF Holds

(* Where an object of the memory is, word by word. *)
LEMMA LoadedObject ==
  ASSUME NEW objects, NEW l, NEW places, NEW o \in DOMAIN objects,
         IsImage(objects), ObjectAt(l, o, objects, places),
         objects[o].words[1] = Len(objects[o].words)
  PROVE  /\ hasObject(l.m, o)
         /\ sizeOf(l.m, o) = Len(objects[o].words)
         /\ ObjectWords(l.m, o) = objects[o].words
         /\ l.m.ot[o].count = objects[o].count /\ l.m.ot[o].pointer = objects[o].pointer
<1>1. PICK words, c, p : words = objects[o].words /\ c = objects[o].count /\ p = objects[o].pointer
  OBVIOUS
<1>2. words \in Seq(Nat) /\ Len(words) >= 2 /\ c \in Nat \ {0} /\ p \in BOOLEAN
  <2>1. /\ objects[o] \in [count : Nat \ {0}, pointer : BOOLEAN, words : Seq(Nat)]
        /\ Len(objects[o].words) >= 2
    BY DEF IsImage, HeaderSize
  <2> QED
    BY <2>1, <1>1
<1>3. /\ l.m.ot[o].free = FALSE /\ l.m.ot[o].count = c /\ l.m.ot[o].pointer = p
      /\ \A j \in 1..Len(words) : word(l.m, o, j - 1) = words[j]
  <2>1. l.m.ot[o] = [free |-> FALSE, count |-> c, pointer |-> p,
                     segment |-> places[o].segment, location |-> places[o].word]
    BY <1>1, Zenon DEF ObjectAt
  <2>2. \A j \in 1..Len(words) : word(l.m, o, j - 1) = words[j]
    BY <1>1 DEF ObjectAt
  <2> QED
    BY <2>1, <2>2
<1>4. sizeOf(l.m, o) = Len(words)
  <2>1. 1 \in 1..Len(words) /\ 1 - 1 = 0
    BY <1>2
  <2>2. word(l.m, o, 0) = words[1]
    <3>1. word(l.m, o, 1 - 1) = words[1]
      BY <2>1, <1>3
    <3> QED
      BY <2>1, <3>1
  <2> QED
    BY <2>2, <1>1 DEF sizeOf
<1>5. ObjectWords(l.m, o) = words
  <2>1. ObjectWords(l.m, o) = [i \in 1..Len(words) |-> word(l.m, o, i - 1)]
    BY <1>4, Zenon DEF ObjectWords
  <2>2. words = [i \in 1..Len(words) |-> words[i]]
    BY <1>2
  <2>3. [i \in 1..Len(words) |-> word(l.m, o, i - 1)] = [i \in 1..Len(words) |-> words[i]]
    BY <1>3, Zenon
  <2> QED
    BY <2>1, <2>2, <2>3, Zenon
<1>6. hasObject(l.m, o)
  BY <1>2, <1>3 DEF hasObject
<1> QED
  BY <1>1, <1>3, <1>4, <1>5, <1>6

LEMMA HoldsObjects ==
  ASSUME NEW objects, NEW data, NEW l, NEW places, NEW chunks,
         IsFileOf(data, objects), IsImage(objects), Holds(l, objects, places, chunks)
  PROVE  ObjectsIn(l.m) = objects
<1>1. DOMAIN objects \subseteq Oops /\ objects = [o \in DOMAIN objects |-> objects[o]]
  BY DEF IsFileOf
<1>2. ASSUME NEW o \in DOMAIN objects
      PROVE  /\ hasObject(l.m, o)
             /\ ObjectWords(l.m, o) = objects[o].words
             /\ l.m.ot[o].count = objects[o].count /\ l.m.ot[o].pointer = objects[o].pointer
  <2>1. ObjectAt(l, o, objects, places)
    BY DEF Holds
  <2>2. objects[o].words[1] = Len(objects[o].words)
    BY DEF IsFileOf
  <2> QED
    BY <2>1, <2>2, LoadedObject, Zenon
<1>3. {q \in Oops : hasObject(l.m, q)} = DOMAIN objects
  <2>1. \A o \in Oops \ DOMAIN objects : ~hasObject(l.m, o)
    BY DEF Holds, hasObject
  <2> QED
    BY <2>1, <1>1, <1>2
<1>4. ASSUME NEW o \in DOMAIN objects
      PROVE  [count |-> l.m.ot[o].count, pointer |-> l.m.ot[o].pointer,
              words |-> ObjectWords(l.m, o)] = objects[o]
  <2>1. objects[o] \in [count : Nat \ {0}, pointer : BOOLEAN, words : Seq(Nat)]
    BY DEF IsImage
  <2>2. objects[o] = [count |-> objects[o].count, pointer |-> objects[o].pointer,
                      words |-> objects[o].words]
    BY <2>1
  <2> QED
    BY <2>2, <1>2, Zenon
<1>5. ObjectsIn(l.m) = [o \in DOMAIN objects |->
                          [count |-> l.m.ot[o].count, pointer |-> l.m.ot[o].pointer,
                           words |-> ObjectWords(l.m, o)]]
  BY <1>3, Zenon DEF ObjectsIn
<1>6. ObjectsIn(l.m) = [o \in DOMAIN objects |-> objects[o]]
  BY <1>4, <1>5, Zenon
<1> QED
  BY <1>1, <1>6, Zenon

(* A file that holds an image loads as that image.                           *)
LEMMA ImageLoads ==
  ASSUME NEW objects, NEW data,
         IsFileOf(data, objects), IsImage(objects), FitsInHeap(objects)
  PROVE  /\ loadFile(data).ok
         /\ ObjectsIn(loadFile(data).m) = objects
         /\ \E table, places, extents, chunks :
              /\ Loads(data, objects, table, places, extents, chunks)
              /\ Holds(loadFile(data), objects, places, chunks)
<1>1. PICK table, places, extents, chunks :
        /\ Loads(data, objects, table, places, extents, chunks)
        /\ loadFile(data) = assemble(data, table, extents, chunks)
  BY LoadIs, Zenon
<1>2. PICK l : l = loadFile(data)
  OBVIOUS
<1>3. l = assemble(data, table, extents, chunks)
  BY <1>1, <1>2
<1>4. Holds(l, objects, places, chunks)
  BY <1>1, <1>3, LoadedHolds, Zenon
<1>5. ObjectsIn(l.m) = objects
  BY <1>4, HoldsObjects, Zenon
<1>6. l.ok = TRUE
  BY <1>4 DEF Holds
<1> QED
  BY <1>1, <1>2, <1>4, <1>5, <1>6

(* A file whose header tells an empty table has no objects.                  *)
Harmless(data) == data \in Seq(Cells) /\ (Len(data) >= 2 => data[2] = 0)

LEMMA HarmlessLoads ==
  ASSUME NEW data, Harmless(data), loadFile(data).ok
  PROVE  DOMAIN ObjectsIn(loadFile(data).m) = {}
<1>1. ~(Len(data) < 2)
  <2>1. CASE Len(data) < 2
    <3>1. loadFile(data) = LoadFailed
      BY <2>1 DEF loadFile
    <3>2. LoadFailed.ok = FALSE
      BY DEF LoadFailed
    <3> QED
      BY <3>1, <3>2
  <2> QED
    BY <2>1
<1>2. data[2] = 0 /\ ~(data[2] > Len(data))
  <2>1. Len(data) \in Nat
    BY DEF Harmless
  <2>2. data[2] = 0
    BY <1>1, <2>1 DEF Harmless
  <2> QED
    BY <2>1, <2>2
<1>3. PICK table : table = loadedTable(data, 0)
  OBVIOUS
<1>4. \A o \in Oops : table[o] = freeEntry
  <2>1. \A o \in Oops : o >= 0
    BY OopsAre
  <2> QED
    BY <1>3, <2>1 DEF loadedTable
<1>5. loadFile(data) = loadObjects(data, table)
  <2>1. loadFile(data) = loadObjects(data, loadedTable(data, data[2]))
    BY <1>1, <1>2 DEF loadFile
  <2> QED
    BY <2>1, <1>2, <1>3
<1>6. PICK extents, chunks : \/ loadObjects(data, table) = LoadFailed
                             \/ loadObjects(data, table) = assemble(data, table, extents, chunks)
  BY Zenon DEF loadObjects
<1>7. loadObjects(data, table) # LoadFailed
  BY <1>5 DEF LoadFailed
<1>8. PICK l : l = loadFile(data)
  OBVIOUS
<1>9. Assembled(l, data, table, extents, chunks)
  <2>1. l = assemble(data, table, extents, chunks)
    BY <1>5, <1>6, <1>7, <1>8
  <2>2. Assembled(assemble(data, table, extents, chunks), data, table, extents, chunks)
    BY AssembleIs, Zenon
  <2> QED
    BY <2>1, <2>2, Zenon
<1>10. \A o \in Oops : ~hasObject(l.m, o)
  <2> TAKE o \in Oops
  <2>1. PICK here : l.m.ot[o] = entryAt(table, o, here)
    BY <1>9, Zenon DEF Assembled
  <2>2. l.m.ot[o].count = table[o].count
    <3>1. table[o] = [free |-> TRUE, count |-> 0, pointer |-> FALSE, segment |-> 0, location |-> 0]
      BY <1>4 DEF freeEntry
    <3> QED
      BY <2>1, <3>1 DEF entryAt
  <2>3. table[o].count = 0
    BY <1>4 DEF freeEntry
  <2> QED
    BY <2>2, <2>3 DEF hasObject
<1>11. DOMAIN ObjectsIn(l.m) = {}
  <2>1. DOMAIN ObjectsIn(l.m) = {q \in Oops : hasObject(l.m, q)}
    BY Zenon DEF ObjectsIn
  <2> QED
    BY <2>1, <1>10
<1> QED
  BY <1>8, <1>11

----------------------------------------------------------------------------
(* The file system, as saving and the image use it: the operations of Files  *)
(* keep FilesInv and the entries of images.                                  *)

(* What is written at the end of a file is joined to it, as far as the card  *)
(* goes.                                                                     *)
Appended(fil, cells, k, new) ==
  /\ k \in 0..Len(cells)
  /\ new.data \in Seq(Cells) /\ new.pos = Len(fil.data) + k /\ Len(new.data) = Len(fil.data) + k
  /\ \A i \in 1..Len(fil.data) : new.data[i] = fil.data[i]
  /\ \A i \in 1..k : new.data[Len(fil.data) + i] = cells[i]

LEMMA AppendIs ==
  ASSUME NEW s, Sound(s), NEW fil \in FIL, fil.pos = Len(fil.data), NEW cells \in Seq(Cells)
  PROVE  Appended(fil, cells, f_write(s, fil, cells).written, f_write(s, fil, cells).fil)
<1>1. PICK L, R, size : L = Len(fil.data) /\ R = Room(s, fil.data) /\ size = Len(cells)
  OBVIOUS
<1>2. L \in Nat /\ size \in Nat /\ fil.pos = L /\ fil.data \in Seq(Cells)
  BY <1>1 DEF FIL
<1>3. R \in Int
  <2>1. PagesOf(fil.data) \in Nat /\ FreePages(s) \in Int /\ PageSize \in Nat
    BY <1>2, PagesOfIs, FreePagesInt, FilesConstantsOK DEF Sound
  <2> QED
    BY <1>1, <2>1 DEF Room
<1>4. PICK reach : reach = Max({L, R})
  OBVIOUS
<1>5. reach \in Int /\ L <= reach
  <2>1. L \in Int
    BY <1>2
  <2>2. reach = IF L >= R THEN L ELSE R
    BY <1>3, <1>4, <2>1, MinMaxOfTwo, Zenon
  <2> QED
    BY <1>3, <2>1, <2>2
<1>6. PICK n : n = Min({size, reach - L})
  OBVIOUS
<1>7. n \in 0..size
  <2>1. reach - L \in Int /\ reach - L >= 0
    BY <1>2, <1>5
  <2>2. n = IF size <= reach - L THEN size ELSE reach - L
    BY <1>2, <1>6, <2>1, MinMaxOfTwo
  <2> QED
    BY <1>2, <2>1, <2>2
<1>8. PICK end, M : end = L + n /\ M = Max({end, L})
  OBVIOUS
<1>9. end \in Nat /\ M = end
  <2>1. end \in Nat /\ end >= L
    BY <1>2, <1>7, <1>8
  <2> QED
    <3>1. end \in Int /\ L \in Int
      BY <2>1, <1>2
    <3>2. M = IF end >= L THEN end ELSE L
      BY <3>1, <1>8, MinMaxOfTwo, Zenon
    <3> QED
      BY <3>2, <2>1, <1>2
<1>10. PICK new, data : /\ new = f_write(s, fil, cells).fil
                        /\ data = [i \in 1..M |-> IF i \in (L + 1)..end THEN cells[i - L]
                                                  ELSE fil.data[i]]
  OBVIOUS
<1>11. f_write(s, fil, cells) = [written |-> n, fil |-> [fil EXCEPT !.pos = end, !.data = data]]
  <2>1. fil.pos = L
    BY <1>2
  <2> QED
    BY <2>1, <1>1, <1>4, <1>6, <1>8, <1>10, Zenon DEF f_write
<1>12. f_write(s, fil, cells).written = n /\ new = [fil EXCEPT !.pos = end, !.data = data]
  BY <1>10, <1>11
<1>13. new.pos = end /\ new.data = data
  BY <1>12 DEF FIL
<1>14. /\ data \in Seq(Cells) /\ Len(data) = end
       /\ \A i \in 1..L : data[i] = fil.data[i]
       /\ \A i \in 1..n : data[L + i] = cells[i]
  <2>1. \A i \in 1..L : data[i] = fil.data[i] /\ data[i] \in Cells
    BY <1>1, <1>2, <1>7, <1>8, <1>9, <1>10
  <2>2. ASSUME NEW i \in 1..n PROVE data[L + i] = cells[i] /\ cells[i] \in Cells
    <3>1. L + i \in 1..M /\ L + i \in (L + 1)..end /\ L + i - L = i /\ i \in 1..size
      BY <1>2, <1>7, <1>8, <1>9
    <3> QED
      BY <3>1, <1>1, <1>10
  <2>3. ASSUME NEW i \in 1..end PROVE data[i] \in Cells
    <3>1. CASE i <= L
      BY <2>1, <3>1, <1>2
    <3>2. CASE ~(i <= L)
      <4>1. i - L \in 1..n /\ L + (i - L) = i
        BY <3>2, <1>2, <1>7, <1>8
      <4> QED
        BY <4>1, <2>2
    <3> QED
      BY <3>1, <3>2
  <2>4. data = [i \in 1..end |-> data[i]]
    BY <1>9, <1>10
  <2>5. data \in [1..end -> Cells]
    BY <2>3, <2>4
  <2> QED
    BY <2>1, <2>2, <2>5, <1>9
<1> QED
  BY <1>1, <1>2, <1>7, <1>8, <1>10, <1>12, <1>13, <1>14, ZenonT(40) DEF Appended

(* One cell written over another.                                            *)
Overwritten(fil, c, p, new) ==
  new = [fil EXCEPT !.pos = p + 1, !.data = [fil.data EXCEPT ![p + 1] = c]]

LEMMA OverwriteIs ==
  ASSUME NEW s, Sound(s), NEW fil \in FIL, fil.pos < Len(fil.data), NEW c \in Cells
  PROVE  Overwritten(fil, c, fil.pos, f_write(s, fil, <<c>>).fil)
<1>1. PICK L, R, p, cells : /\ L = Len(fil.data) /\ R = Room(s, fil.data) /\ p = fil.pos
                            /\ cells = <<c>>
  OBVIOUS
<1>2. /\ L \in Nat /\ p \in Nat /\ p < L /\ fil.data \in Seq(Cells)
      /\ Len(cells) = 1 /\ cells[1] = c
  BY <1>1 DEF FIL
<1>3. R \in Int
  <2>1. PagesOf(fil.data) \in Nat /\ FreePages(s) \in Int /\ PageSize \in Nat
    BY <1>2, PagesOfIs, FreePagesInt, FilesConstantsOK DEF Sound
  <2> QED
    BY <1>1, <2>1 DEF Room
<1>4. PICK reach : reach = Max({L, R})
  OBVIOUS
<1>5. reach \in Int /\ L <= reach
  <2>1. L \in Int
    BY <1>2
  <2>2. reach = IF L >= R THEN L ELSE R
    BY <1>3, <1>4, <2>1, MinMaxOfTwo, Zenon
  <2> QED
    BY <1>3, <2>1, <2>2
<1>6. PICK n : n = Min({Len(cells), reach - p})
  OBVIOUS
<1>7. n = 1
  <2>1. reach - p \in Int /\ reach - p >= 1 /\ 1 \in Int
    BY <1>2, <1>5
  <2>2. n = IF 1 <= reach - p THEN 1 ELSE reach - p
    BY <1>2, <1>6, <2>1, MinMaxOfTwo
  <2> QED
    BY <2>1, <2>2
<1>8. PICK end, M : end = p + n /\ M = Max({end, L})
  OBVIOUS
<1>9. end = p + 1 /\ M = L
  <2>1. end \in Int /\ end <= L /\ end = p + 1
    BY <1>2, <1>7, <1>8
  <2> QED
    <3>1. end \in Int /\ L \in Int
      BY <2>1, <1>2
    <3>2. M = IF end >= L THEN end ELSE L
      BY <3>1, <1>8, MinMaxOfTwo, Zenon
    <3> QED
      BY <3>2, <2>1, <1>2
<1>10. PICK new, data : /\ new = f_write(s, fil, cells).fil
                        /\ data = [i \in 1..M |-> IF i \in (p + 1)..end THEN cells[i - p]
                                                  ELSE fil.data[i]]
  OBVIOUS
<1>11. new = [fil EXCEPT !.pos = end, !.data = data]
  <2>1. f_write(s, fil, cells) = [written |-> n, fil |-> [fil EXCEPT !.pos = end, !.data = data]]
    BY <1>1, <1>4, <1>6, <1>8, <1>10, Zenon DEF f_write
  <2> QED
    BY <2>1, <1>10
<1>12. data = [fil.data EXCEPT ![p + 1] = c]
  <2>1. DOMAIN fil.data = 1..L /\ p + 1 \in 1..L
    BY <1>1, <1>2
  <2>2. \A i \in 1..L : i \in (p + 1)..end <=> i = p + 1
    BY <1>2, <1>9
  <2>4. fil.data = [i \in 1..L |-> fil.data[i]]
    BY <2>1, <1>2
  <2>5. PICK old : old = fil.data
    OBVIOUS
  <2>6. data = [i \in 1..L |-> IF i = p + 1 THEN c ELSE old[i]]
    <3>1. \A i \in 1..L : (IF i \in (p + 1)..end THEN cells[i - p] ELSE fil.data[i])
                            = (IF i = p + 1 THEN c ELSE old[i])
      <4> TAKE i \in 1..L
      <4>1. CASE i = p + 1
        <5>1. i \in (p + 1)..end
          BY <4>1, <2>2
        <5>2. i - p = 1
          BY <4>1, <1>2
        <5>3. cells[i - p] = c
          BY <5>2, <1>2
        <5> QED
          BY <5>1, <5>3, <4>1
      <4>2. CASE i # p + 1
        BY <4>2, <2>2, <2>5
      <4> QED
        BY <4>1, <4>2
    <3> QED
      BY <3>1, <1>9, <1>10, Zenon
  <2> QED
    BY <2>1, <2>4, <2>5, <2>6
<1> QED
  BY <1>1, <1>9, <1>10, <1>11, <1>12 DEF Overwritten

(* Entries on the card change only under the names that the image uses.      *)
SameEntries(s, t) == \A n \in Names \ UserNames : t.card[n] = s.card[n]

LEMMA CardAlone ==
  ASSUME NEW s \in FileSystems
  PROVE  /\ \A n, d : Handle(s, n, d).fs.card = s.card
         /\ \A h, position : seek_to(s, h, position).card = s.card
         /\ \A h, cells : write(s, h, cells).fs.card = s.card
         /\ powerLoss(s).card = s.card
<1>1. s = [card |-> s.card, fdtofil |-> s.fdtofil, curfd |-> s.curfd]
  BY DEF FileSystems
<1>2. ASSUME NEW n, NEW d PROVE Handle(s, n, d).fs.card = s.card
  <2>1. PICK k, c, fil : k = getfd(s).fd /\ c = getfd(s).curfd /\ fil = [name |-> n, pos |-> 0, data |-> d]
    OBVIOUS
  <2>2. Handle(s, n, d) = [fd |-> k, fs |-> IF k = NoHandle THEN [s EXCEPT !.curfd = c]
                                           ELSE [s EXCEPT !.curfd = c, !.fdtofil[k] = fil]]
    BY <2>1, Zenon DEF Handle
  <2>3. [s EXCEPT !.curfd = c].card = s.card /\ [s EXCEPT !.curfd = c, !.fdtofil[k] = fil].card = s.card
    BY <1>1
  <2> QED
    BY <2>2, <2>3
<1>3. ASSUME NEW h, NEW position PROVE seek_to(s, h, position).card = s.card
  <2>1. PICK fil : fil = f_lseek(s, s.fdtofil[h], position)
    OBVIOUS
  <2>2. seek_to(s, h, position) = [s EXCEPT !.fdtofil[h] = fil]
    BY <2>1 DEF seek_to
  <2> QED
    BY <2>2, <1>1
<1>4. ASSUME NEW h, NEW cells PROVE write(s, h, cells).fs.card = s.card
  <2>1. PICK fil : fil = f_write(s, s.fdtofil[h], cells).fil
    OBVIOUS
  <2>2. write(s, h, cells).fs = [s EXCEPT !.fdtofil[h] = fil]
    BY <2>1 DEF write
  <2> QED
    BY <2>2, <1>1
<1>5. powerLoss(s).card = s.card
  BY <1>1 DEF powerLoss
<1> QED
  BY <1>2, <1>3, <1>4, <1>5

LEMMA OneEntry ==
  ASSUME NEW s \in FileSystems, NEW t, NEW n \in UserNames, NEW c, t.card = [s.card EXCEPT ![n] = c]
  PROVE  SameEntries(s, t)
BY DEF FileSystems, SameEntries

LEMMA NoEntry ==
  ASSUME NEW s, NEW t, t.card = s.card
  PROVE  SameEntries(s, t)
BY DEF SameEntries

(* Each file that is open has such a name.                                   *)
LEMMA UserHandle ==
  ASSUME FilesInv, NEW f \in PosixFiles, descriptor[f] # NilPointer
  PROVE  /\ descriptor[f] \in Open(fs) /\ descriptor[f] \in Handles
         /\ fs.fdtofil[descriptor[f]].name \in UserNames
         /\ fs.fdtofil[descriptor[f]].name = fileName[f]
         /\ fs \in FileSystems /\ Sound(fs)
BY DEF FilesInv, Owned, Held, Sound, Open

LEMMA OpenKeeps ==
  ASSUME FilesInv, NEW f \in PosixFiles, openFile(f) \/ createFile(f) \/ closeFile(f)
  PROVE  SameEntries(fs, fs')
<1>1. fs \in FileSystems /\ fileName[f] \in UserNames
  BY DEF FilesInv, Sound
<1>2. CASE openFile(f)
  <2>1. fs' = open_file(fs, fileName[f]).fs
    BY <1>2 DEF openFile, Opened
  <2>2. \/ open_file(fs, fileName[f]).fs = fs
        \/ open_file(fs, fileName[f]).fs = Handle(fs, fileName[f], fs.card[fileName[f]]).fs
    BY DEF open_file
  <2>3. fs'.card = fs.card
    BY <2>1, <2>2, <1>1, CardAlone
  <2> QED
    BY <2>3, NoEntry
<1>3. CASE createFile(f)
  <2>1. PICK n, c, s : n = fileName[f] /\ c = <<>> /\ s = [fs EXCEPT !.card[n] = c]
    OBVIOUS
  <2>2. fs' = Handle(s, n, <<>>).fs
    BY <1>3, <2>1 DEF createFile, Opened, create_file
  <2>3. s.card = [fs.card EXCEPT ![n] = c] /\ s \in FileSystems
    <3>1. c \in Seq(Cells)
      BY <2>1
    <3> QED
      BY <2>1, <3>1, <1>1 DEF FileSystems
  <2>4. fs'.card = [fs.card EXCEPT ![n] = c]
    BY <2>2, <2>3, CardAlone
  <2>5. n \in UserNames
    BY <2>1, <1>1
  <2> QED
    BY <2>4, <2>5, <1>1, OneEntry
<1>4. CASE closeFile(f)
  <2>1. PICK d : d = descriptor[f]
    OBVIOUS
  <2>2. fs' = close_file(fs, d) /\ d \in Open(fs) /\ fs.fdtofil[d].name \in UserNames
    BY <1>4, <2>1, UserHandle DEF closeFile
  <2>3. PICK n, c : n = fs.fdtofil[d].name /\ c = fs.fdtofil[d].data
    OBVIOUS
  <2>4. fs' = [fs EXCEPT !.card[n] = c, !.fdtofil[d] = NO_FIL]
    BY <2>2, <2>3 DEF close_file, f_close, Open
  <2>5. fs'.card = [fs.card EXCEPT ![n] = c]
    BY <2>4, <1>1 DEF FileSystems
  <2> QED
    BY <2>2, <2>3, <2>5, <1>1, OneEntry
<1> QED
  BY <1>2, <1>3, <1>4

LEMMA PageKeeps ==
  ASSUME FilesInv, NEW f \in PosixFiles, NEW page \in 1..MaxPages, NEW n,
         readPage(f, page) \/ writePage(f, page, n)
  PROVE  SameEntries(fs, fs')
<1>1. PICK d, s : d = descriptor[f] /\ s = seek_to(fs, d, PositionOf(page))
  OBVIOUS
<1>2. fs \in FileSystems /\ d \in Open(fs) /\ Sound(fs)
  BY <1>1, UserHandle DEF readPage, writePage
<1>3. s \in FileSystems /\ s.card = fs.card
  <2>1. StaysOpen(fs, s)
    BY <1>1, <1>2, PositionIs, SeekTo
  <2> QED
    BY <2>1, <1>1, <1>2, CardAlone DEF StaysOpen, Sound
<1>4. CASE readPage(f, page)
  <2>1. PICK k : fs' = [s EXCEPT !.fdtofil[d].pos = @ + k]
    BY <1>1, <1>4 DEF readPage
  <2>2. fs'.card = s.card
    BY <2>1, <1>3 DEF FileSystems
  <2> QED
    BY <2>2, <1>3, NoEntry
<1>5. CASE writePage(f, page, n)
  <2>1. PICK cells : fs' = write(s, d, cells).fs
    BY <1>1, <1>5 DEF writePage
  <2>2. fs'.card = s.card
    BY <2>1, <1>3, CardAlone
  <2> QED
    BY <2>2, <1>3, NoEntry
<1> QED
  BY <1>4, <1>5

LEMMA TruncateKeeps ==
  ASSUME FilesInv, NEW f \in PosixFiles, NEW page \in 1..MaxPages, NEW n \in Bytes,
         truncatePage(f, page, n)
  PROVE  SameEntries(fs, fs')
<1>1. PICK d, p, s : d = descriptor[f] /\ p = PositionOf(page) + n /\ s = seek_to(fs, d, p)
  OBVIOUS
<1>2. /\ fs \in FileSystems /\ d \in Open(fs) /\ Sound(fs) /\ p \in Nat
      /\ fs.fdtofil[d].name \in UserNames
  BY <1>1, UserHandle, PositionIs, FilesConstantsOK DEF truncatePage
<1>3. s \in FileSystems /\ s.card = fs.card /\ s.fdtofil[d].name \in UserNames
  <2>1. StaysOpen(fs, s)
    BY <1>1, <1>2, SeekTo
  <2>2. s.fdtofil[d].name = fs.fdtofil[d].name /\ s \in FileSystems
    BY <2>1, <1>2 DEF StaysOpen, Sound
  <2> QED
    BY <2>2, <1>1, <1>2, CardAlone
<1>4. PICK name, data, c : /\ name = s.fdtofil[d].name
                           /\ fs' = [s EXCEPT !.fdtofil[d].data = data, !.card[name] = c]
  <2>1. fs' = f_truncate(s, d)
    BY <1>1 DEF truncatePage, truncate_to
  <2> QED
    BY <2>1 DEF f_truncate
<1>5. fs'.card = [s.card EXCEPT ![name] = c]
  BY <1>3, <1>4 DEF FileSystems
<1>6. fs'.card = [fs.card EXCEPT ![name] = c] /\ name \in UserNames
  BY <1>3, <1>4, <1>5
<1> QED
  BY <1>2, <1>6, OneEntry

LEMMA RenameKeeps ==
  ASSUME FilesInv, NEW f \in PosixFiles, NEW new \in UserNames, renameFile(f, new)
  PROVE  SameEntries(fs, fs')
<1>1. PICK d, old, closed, moved, n, p :
        /\ d = descriptor[f] /\ old = fileName[f]
        /\ closed = IF d # NilPointer THEN close_file(fs, d) ELSE fs
        /\ moved = IF CanRename(closed, old, new) THEN rename_file(closed, old, new) ELSE closed
        /\ n = IF CanRename(closed, old, new) THEN new ELSE old
        /\ p = fs.fdtofil[d].pos
  OBVIOUS
<1>2. fs' = moved \/ fs' = reopen(moved, n, p).fs
  BY <1>1, Zenon DEF renameFile
<1>3. fs \in FileSystems /\ Sound(fs) /\ old \in UserNames /\ UserNames \subseteq Names
  BY <1>1, FilesConstantsOK DEF FilesInv, Sound
<1>4. closed \in FileSystems /\ SameEntries(fs, closed)
  <2>1. CASE d # NilPointer
    <3>1. /\ closed = close_file(fs, d) /\ d \in Open(fs) /\ d \in Handles
          /\ fs.fdtofil[d].name \in UserNames
      BY <1>1, <2>1, UserHandle
    <3>2. PICK name, c : name = fs.fdtofil[d].name /\ c = fs.fdtofil[d].data
      OBVIOUS
    <3>3. closed = [fs EXCEPT !.card[name] = c, !.fdtofil[d] = NO_FIL]
      BY <3>1, <3>2 DEF close_file, f_close, Open
    <3>4. closed.card = [fs.card EXCEPT ![name] = c]
      BY <3>3, <1>3 DEF FileSystems
    <3>5. closed \in FileSystems
      BY <3>1, <1>3, CloseFile DEF Sound
    <3> QED
      BY <3>1, <3>2, <3>4, <3>5, <1>3, OneEntry
  <2>2. CASE d = NilPointer
    BY <1>1, <1>3, <2>2 DEF SameEntries
  <2> QED
    BY <2>1, <2>2
<1>5. moved \in FileSystems /\ SameEntries(closed, moved)
  <2>1. CASE CanRename(closed, old, new)
    <3>1. PICK c : c = closed.card[old]
      OBVIOUS
    <3>2. c \in Seq(Cells) \cup {NoFile}
      BY <3>1, <1>3, <1>4 DEF FileSystems
    <3>3. moved = [closed EXCEPT !.card[new] = c, !.card[old] = NoFile]
      BY <1>1, <2>1, <3>1 DEF rename_file
    <3>4. moved.card = [[closed.card EXCEPT ![new] = c] EXCEPT ![old] = NoFile]
      BY <3>3, <1>4 DEF FileSystems
    <3>5. /\ moved.card \in [Names -> Seq(Cells) \cup {NoFile}]
          /\ \A x \in Names \ UserNames : moved.card[x] = closed.card[x]
      BY <3>2, <3>4, <1>3, <1>4 DEF FileSystems
    <3>6. moved.fdtofil = closed.fdtofil /\ moved.curfd = closed.curfd
          /\ moved = [card |-> moved.card, fdtofil |-> moved.fdtofil, curfd |-> moved.curfd]
      BY <3>3, <1>4 DEF FileSystems
    <3> QED
      BY <3>5, <3>6, <1>4 DEF FileSystems, SameEntries
  <2>2. CASE ~CanRename(closed, old, new)
    BY <1>1, <1>4, <2>2 DEF SameEntries
  <2> QED
    BY <2>1, <2>2
<1>6. reopen(moved, n, p).fs.card = moved.card
  <2>1. PICK o : o = open_file(moved, n)
    OBVIOUS
  <2>2. /\ o = [fd |-> NoHandle, fs |-> moved] \/ o = Handle(moved, n, moved.card[n])
        /\ o.fs.card = moved.card
    <3>1. o = [fd |-> NoHandle, fs |-> moved] \/ o = Handle(moved, n, moved.card[n])
      BY <2>1, Zenon DEF open_file
    <3> QED
      BY <3>1, <1>5, CardAlone
  <2>3. CASE o.fd = NoHandle
    <3>1. reopen(moved, n, p) = o
      BY <2>1, <2>3, Zenon DEF reopen
    <3> QED
      BY <2>2, <3>1
  <2>4. CASE o.fd # NoHandle
    <3>1. reopen(moved, n, p) = [o EXCEPT !.fs = seek_to(o.fs, o.fd, p)]
      BY <2>1, <2>4, Zenon DEF reopen
    <3>2. PICK fil, k : k = o.fd /\ seek_to(o.fs, o.fd, p) = [o.fs EXCEPT !.fdtofil[k] = fil]
      BY DEF seek_to
    <3>3. o = [fd |-> o.fd, fs |-> o.fs]
      BY <2>2 DEF Handle
    <3>4. reopen(moved, n, p).fs = [o.fs EXCEPT !.fdtofil[k] = fil]
      BY <3>1, <3>2, <3>3
    <3>5. o.fs = [card |-> o.fs.card, fdtofil |-> o.fs.fdtofil, curfd |-> o.fs.curfd]
      <4>1. o = Handle(moved, n, moved.card[n])
        BY <2>2, <2>4
      <4>2. PICK j, c, f1 : o.fs = [moved EXCEPT !.curfd = c]
                            \/ o.fs = [moved EXCEPT !.curfd = c, !.fdtofil[j] = f1]
        BY <4>1 DEF Handle
      <4> QED
        BY <4>2, <1>5 DEF FileSystems
    <3> QED
      BY <2>2, <3>4, <3>5
  <2> QED
    BY <2>3, <2>4
<1>7. SameEntries(moved, fs')
  BY <1>2, <1>6 DEF SameEntries
<1> QED
  BY <1>4, <1>5, <1>7 DEF SameEntries

LEMMA OperationKeeps ==
  ASSUME FilesInv, FileOperation
  PROVE  SameEntries(fs, fs')
<1>1. CASE \E n \in UserNames : deleteFile(n)
  <2>1. PICK n \in UserNames : fs' = [fs EXCEPT !.card[n] = NoFile]
    BY <1>1 DEF deleteFile
  <2>2. fs \in FileSystems
    BY DEF FilesInv, Sound
  <2>3. fs'.card = [fs.card EXCEPT ![n] = NoFile]
    BY <2>1, <2>2 DEF FileSystems
  <2> QED
    BY <2>2, <2>3, OneEntry
<1> QED
  BY <1>1, OpenKeeps, PageKeeps, TruncateKeeps, RenameKeeps DEF FileOperation

(* Closing what is left open changes no other entry.                         *)
ClosedSome(s, t) ==
  /\ Sound(t) /\ Open(t) \subseteq Open(s)
  /\ \A h \in Open(t) : t.fdtofil[h] = s.fdtofil[h]
  /\ SameEntries(s, t)

LEMMA CloseKeeps ==
  ASSUME NEW s, Sound(s), \A h \in Open(s) : s.fdtofil[h].name \in UserNames,
         NEW t, ClosedSome(s, t), NEW h \in Handles
  PROVE  ClosedSome(s, close_file(t, h))
<1>1. PICK u : u = close_file(t, h)
  OBVIOUS
<1>2. /\ Sound(t) /\ t \in FileSystems
      /\ Sound(u) /\ Open(u) = Open(t) \ {h} /\ \A g \in Open(u) : u.fdtofil[g] = t.fdtofil[g]
  BY <1>1, CloseFile DEF ClosedSome, Sound
<1>3. SameEntries(t, u)
  <2>1. CASE h \in Open(t)
    <3>1. PICK name, c : name = t.fdtofil[h].name /\ c = t.fdtofil[h].data
      OBVIOUS
    <3>2. u = [t EXCEPT !.card[name] = c, !.fdtofil[h] = NO_FIL]
      BY <1>1, <2>1, <3>1 DEF close_file, f_close, Open
    <3>3. u.card = [t.card EXCEPT ![name] = c]
      BY <3>2, <1>2 DEF FileSystems
    <3>4. name \in UserNames
      BY <2>1, <3>1 DEF ClosedSome
    <3> QED
      BY <3>3, <3>4, <1>2, OneEntry
  <2>2. CASE h \notin Open(t)
    <3>1. u = t
      BY <1>1, <2>2 DEF close_file, Open
    <3> QED
      BY <3>1 DEF SameEntries
  <2> QED
    BY <2>1, <2>2
<1>4. SameEntries(s, u)
  BY <1>3 DEF ClosedSome, SameEntries
<1>5. ClosedSome(s, u)
  BY <1>2, <1>4 DEF ClosedSome
<1> QED
  BY <1>1, <1>5

LEMMA ShutDownKeeps ==
  ASSUME NEW s, Sound(s), \A h \in Open(s) : s.fdtofil[h].name \in UserNames
  PROVE  SameEntries(s, shutdown(s))
<1>1. PICK N, f : N = MAX_OPEN_FILES /\ f = closing(s)
  OBVIOUS
<1>2. N \in Nat
  BY <1>1, FilesConstantsOK
<1>3. \A i \in 0..N : f[i] = IF i = 0 THEN s ELSE close_file(f[i - 1], i - 1)
  <2>1. f = closedUpTo(s, f)
    BY <1>1, ClosingStep
  <2> QED
    BY <1>1, <2>1 DEF closedUpTo
<1>4. shutdown(s) = [f[N] EXCEPT !.curfd = 0]
  BY <1>1, Zenon DEF shutdown, closing, closedUpTo
<1>5. PICK E : E = {i \in Nat : ClosedSome(s, f[i])}
  OBVIOUS
<1>6. 0 \in E
  <2>1. f[0] = s /\ 0 \in Nat
    BY <1>2, <1>3
  <2>2. ClosedSome(s, s)
    BY DEF ClosedSome, SameEntries
  <2> QED
    BY <2>1, <2>2, <1>5
<1>7. ASSUME NEW i \in 0..N - 1, i \in E PROVE i + 1 \in E
  <2>1. i \in Handles /\ i + 1 \in 0..N /\ i + 1 # 0 /\ i + 1 - 1 = i /\ i + 1 \in Nat
    BY <1>1, <1>2 DEF Handles
  <2>2. f[i + 1] = close_file(f[i], i)
    BY <1>3, <2>1
  <2>3. ClosedSome(s, f[i])
    BY <1>5, <1>7
  <2>4. ClosedSome(s, close_file(f[i], i))
    BY <2>1, <2>3, CloseKeeps, Zenon
  <2> QED
    BY <2>1, <2>2, <2>4, <1>5
<1>8. 0..N \subseteq E
  BY <1>2, <1>6, <1>7, InductionTo
<1>9. ClosedSome(s, f[N])
  BY <1>2, <1>5, <1>8
<1>10. [f[N] EXCEPT !.curfd = 0].card = f[N].card
  BY <1>9 DEF ClosedSome, Sound, FileSystems
<1> QED
  BY <1>4, <1>9, <1>10 DEF ClosedSome, SameEntries

LEMMA EndKeeps ==
  ASSUME FilesInv, quitFiles
  PROVE  SameEntries(fs, fs')
<1>1. \A h \in Open(fs) : fs.fdtofil[h].name \in UserNames
  BY DEF FilesInv, Owned
<1> QED
  BY <1>1, ShutDownKeeps DEF FilesInv, quitFiles

(* The card with one file.                                                   *)
EmptyFiles == [card |-> [n \in Names |-> NoFile], fdtofil |-> [h \in Handles |-> NO_FIL], curfd |-> 0]

LEMMA NothingOpen ==
  /\ Sound(EmptyFiles) /\ Open(EmptyFiles) = {} /\ FreePages(EmptyFiles) = CardPages
  /\ \A n \in Names : weight(EmptyFiles, n) = 0
<1> USE FilesConstantsOK
<1>1. PICK s : s = EmptyFiles
  OBVIOUS
<1>2. s \in FileSystems
  <2>1. [n \in Names |-> NoFile] \in [Names -> Seq(Cells) \cup {NoFile}]
    OBVIOUS
  <2>2. [h \in Handles |-> NO_FIL] \in [Handles -> FIL \cup {NO_FIL}]
    OBVIOUS
  <2>3. 0 \in 0..MAX_OPEN_FILES
    OBVIOUS
  <2> QED
    BY <1>1, <2>1, <2>2, <2>3 DEF FileSystems, EmptyFiles
<1>3. Open(s) = {} /\ \A n \in Names : s.card[n] = NoFile
  BY <1>1 DEF Open, EmptyFiles
<1>4. OpenOnCard(s) /\ OpenOnce(s)
  BY <1>3 DEF OpenOnCard, OpenOnce
<1>5. \A n \in Names : weight(s, n) = 0
  <2> SUFFICES ASSUME NEW n \in Names PROVE weight(s, n) = 0
    OBVIOUS
  <2>1. Live(s, n) = <<>>
    BY <1>2, <1>3, <1>4, LiveIs DEF IsOpen
  <2>2. <<>> \in Seq(Cells)
    OBVIOUS
  <2> QED
    BY <2>1, <2>2, PagesOfIs DEF weight
<1>6. FreePages(s) = CardPages
  <2>1. pagesOf(s)[Names] = 0
    BY <1>5, NoPages
  <2>2. FreePages(s) = CardPages - pagesOf(s)[Names]
    BY FreePagesIs
  <2> QED
    BY <2>1, <2>2
<1> QED
  BY <1>1, <1>2, <1>3, <1>4, <1>5, <1>6 DEF Sound

LEMMA FirstFile ==
  ASSUME NEW n \in Names, NEW data \in Seq(Cells), PagesOf(data) <= CardPages,
         FilesInit([x \in Names |-> IF x = n THEN data ELSE NoFile])
  PROVE  FilesInv /\ fs.card[n] = data /\ \A x \in Names \ {n} : fs.card[x] = NoFile
<1>1. PICK s, t : s = EmptyFiles /\ t = WithEntry(s, n, data)
  OBVIOUS
<1>2. Sound(s) /\ Open(s) = {} /\ FreePages(s) = CardPages /\ weight(s, n) = 0
  BY <1>1, NothingOpen
<1>3. pagesAt(data) = PagesOf(data) /\ PagesOf(data) \in Nat
  BY PagesOfIs, FilesConstantsOK DEF pagesAt
<1>4. pagesAt(data) - weight(s, n) <= FreePages(s)
  BY <1>2, <1>3, FilesConstantsOK
<1>5. Sound(t) /\ Open(t) = {}
  <2>1. ~IsOpen(s, n)
    BY <1>2 DEF IsOpen
  <2> QED
    BY <2>1, <1>1, <1>2, <1>4, EntryChanges
<1>6. fs = t
  <2>1. PICK card : card = [x \in Names |-> IF x = n THEN data ELSE NoFile]
    OBVIOUS
  <2>2. [[x \in Names |-> NoFile] EXCEPT ![n] = data] = card
    BY <2>1
  <2>3. t = [card |-> card, fdtofil |-> [h \in Handles |-> NO_FIL], curfd |-> 0]
    BY <2>2, <1>1 DEF WithEntry, EmptyFiles
  <2> QED
    BY <2>1, <2>3 DEF FilesInit
<1>7. descriptor = [f \in PosixFiles |-> NilPointer] /\ fileName \in [PosixFiles -> UserNames]
  BY DEF FilesInit
<1>8. Owned
  BY <1>5, <1>6, <1>7 DEF Owned, Held
<1>9. FilesInv
  BY <1>5, <1>6, <1>7, <1>8 DEF FilesInv
<1>10. fs.card = [x \in Names |-> IF x = n THEN data ELSE NoFile]
  BY DEF FilesInit
<1> QED
  BY <1>9, <1>10

----------------------------------------------------------------------------
(* The writes of a save, one by one.                                         *)

(* How far a save has come: the image is appended, then the two cells of the *)
(* header take the place of zeros.                                           *)
Appending(fil, m, list) ==
  \E done, rest \in Seq(WriteRecords) :
    /\ done \o rest = imageWrites(m) /\ list = rest \o headerWrites(m)
    /\ fil.data = CellsOf(done) /\ fil.pos = Len(fil.data)

HalfHeader(m) == [CellsOf(imageWrites(m)) EXCEPT ![1] = objectSpaceLength(m)]
EndingHeader(fil, m, list) ==
  list = <<Rewrite(<<storedObjectTableLength(m)>>, 1)>> /\ fil.data = HalfHeader(m)

Complete(fil, m, list) == list = <<>> /\ fil.data = FileOf(m)

Writing(fil, m, list) == Appending(fil, m, list) \/ EndingHeader(fil, m, list) \/ Complete(fil, m, list)

LEMMA WriteFil ==
  ASSUME NEW s, Sound(s), NEW h \in Open(s), NEW cells \in Seq(Cells), NEW done,
         done = f_write(s, s.fdtofil[h], cells)
  PROVE  /\ StaysOpen(s, write(s, h, cells).fs)
         /\ write(s, h, cells).fs.fdtofil[h] = done.fil
         /\ write(s, h, cells).written = done.written
         /\ write(s, h, cells).fs.card = s.card
<1>1. s.fdtofil[h] \in FIL /\ s.fdtofil[h].pos <= Len(s.fdtofil[h].data) /\ s \in FileSystems
  BY OpenFil DEF Sound
<1>2. PICK fil : fil = done.fil
  OBVIOUS
<1>3. Extends(s, s.fdtofil[h], fil)
  BY <1>1, <1>2, Written
<1>4. write(s, h, cells) = [fs |-> WithFil(s, h, fil), written |-> done.written]
  BY <1>2 DEF write, WithFil
<1>5. StaysOpen(s, WithFil(s, h, fil)) /\ WithFil(s, h, fil).fdtofil[h] = fil
  BY <1>3, FilMoves, Zenon
<1>6. write(s, h, cells).fs.card = s.card
  BY <1>1, CardAlone
<1> QED
  BY <1>2, <1>4, <1>5, <1>6

LEMMA SplitHead ==
  ASSUME NEW S, NEW rest \in Seq(S), rest # <<>>, NEW more, NEW T, more \in Seq(T)
  PROVE  /\ Head(rest) \in S /\ Tail(rest) \in Seq(S)
         /\ Head(rest \o more) = Head(rest)
         /\ Tail(rest \o more) = Tail(rest) \o more
         /\ rest = <<Head(rest)>> \o Tail(rest)
<1>1. PICK U : U = S \cup T
  OBVIOUS
<1>2. rest \in Seq(U) /\ more \in Seq(U) /\ Len(rest) >= 1
  <2>1. rest \in Seq(U) /\ more \in Seq(U)
    BY <1>1
  <2> QED
    BY <2>1
<1>3. PICK a, b, n : a = Len(rest) /\ b = Len(more) /\ n = a + b
  OBVIOUS
<1>4. a \in Nat /\ a >= 1 /\ b \in Nat /\ n \in Nat /\ n - 1 \in Nat /\ a - 1 \in Nat
  BY <1>2, <1>3
<1>5. PICK all : all = rest \o more
  OBVIOUS
<1>6. /\ all \in Seq(U) /\ Len(all) = n
      /\ \A i \in 1..n : all[i] = IF i <= a THEN rest[i] ELSE more[i - a]
  BY <1>2, <1>3, <1>5
<1>7. Head(all) = Head(rest) /\ Head(rest) \in S /\ Head(rest) = rest[1]
  BY <1>4, <1>6, <1>3
<1>8. PICK tail, both : tail = Tail(rest) /\ both = tail \o more
  OBVIOUS
<1>9. /\ tail \in Seq(S) /\ tail \in Seq(U) /\ Len(tail) = a - 1
      /\ \A i \in 1..a - 1 : tail[i] = rest[i + 1]
  BY <1>2, <1>3, <1>4, <1>8
<1>10. /\ both \in Seq(U) /\ Len(both) = n - 1
       /\ \A i \in 1..n - 1 : both[i] = IF i <= a - 1 THEN tail[i] ELSE more[i - (a - 1)]
  BY <1>2, <1>3, <1>4, <1>8, <1>9
<1>11. Tail(all) \in Seq(U) /\ Len(Tail(all)) = n - 1 /\ \A i \in 1..n - 1 : Tail(all)[i] = all[i + 1]
  BY <1>4, <1>6
<1>12. ASSUME NEW i \in 1..n - 1 PROVE Tail(all)[i] = both[i]
  <2>1. PICK j, t, k : j = i + 1 /\ t = Tail(all)[i] /\ k = i - (a - 1)
    OBVIOUS
  <2>2. j \in 1..n /\ (j <= a <=> i <= a - 1) /\ j - a = k
    BY <2>1, <1>4
  <2>3. t = all[j]
    BY <2>1, <1>11
  <2>4. CASE i <= a - 1
    <3>1. i \in 1..a - 1
      BY <2>4, <1>4
    <3>2. tail[i] = rest[j]
      BY <3>1, <2>1, <1>9
    <3>3. t = rest[j]
      BY <2>2, <2>3, <2>4, <1>6
    <3>4. both[i] = tail[i]
      BY <2>4, <1>10
    <3> QED
      BY <3>2, <3>3, <3>4, <2>1
  <2>5. CASE ~(i <= a - 1)
    <3>1. t = more[k]
      BY <2>2, <2>3, <2>5, <1>6
    <3>2. both[i] = more[k]
      BY <2>1, <2>5, <1>10
    <3> QED
      BY <3>1, <3>2, <2>1
  <2> QED
    BY <2>4, <2>5
<1>13. Tail(all) = both
  BY <1>10, <1>11, <1>12, SeqEqual
<1>14. PICK one, joined : one = <<Head(rest)>> /\ joined = one \o tail
  OBVIOUS
<1>15. one \in Seq(S) /\ Len(one) = 1 /\ one[1] = rest[1]
  BY <1>7, <1>14
<1>16. /\ joined \in Seq(S) /\ Len(joined) = a
       /\ \A i \in 1..a : joined[i] = IF i <= 1 THEN one[i] ELSE tail[i - 1]
  BY <1>4, <1>9, <1>14, <1>15
<1>17. ASSUME NEW i \in 1..a PROVE joined[i] = rest[i]
  <2>1. CASE i = 1
    BY <2>1, <1>4, <1>15, <1>16
  <2>2. CASE i # 1
    <3>1. i - 1 \in 1..a - 1 /\ i - 1 + 1 = i /\ ~(i <= 1)
      BY <2>2, <1>4
    <3> QED
      BY <3>1, <1>9, <1>16
  <2> QED
    BY <2>1, <2>2
<1>18. joined = rest
  BY <1>3, <1>16, <1>17, SeqEqual
<1> QED
  BY <1>5, <1>7, <1>8, <1>9, <1>13, <1>14, <1>18

LEMMA NumbersAreCells ==
  ASSUME NEW c \in Seq(Nat)
  PROVE  c \in Seq(Cells)
BY DEF Cells

(* One more write of the image.  The header cell of the table's length is    *)
(* still 0, even if the write is cut short.                                  *)
LEMMA AppendStep ==
  ASSUME NEW s, Sound(s), NEW h \in Open(s), NEW m, IsImage(ObjectsIn(m)),
         NEW done \in Seq(WriteRecords), NEW rest \in Seq(WriteRecords), rest # <<>>,
         done \o rest = imageWrites(m),
         s.fdtofil[h].data = CellsOf(done), s.fdtofil[h].pos = Len(s.fdtofil[h].data),
         NEW w, w = Head(rest), NEW r, r = write(s, h, w.cells)
  PROVE  /\ StaysOpen(s, r.fs) /\ r.fs.card = s.card
         /\ w.at = NoHandle /\ w.checked = TRUE
         /\ r.written # Len(w.cells) => Harmless(r.fs.fdtofil[h].data)
         /\ r.written = Len(w.cells) => Appending(r.fs.fdtofil[h], m, Tail(rest) \o headerWrites(m))
<1>1. PICK fil, cells, f : /\ fil = s.fdtofil[h] /\ cells = w.cells
                           /\ f = f_write(s, fil, cells)
  OBVIOUS
<1>2. /\ w \in WriteRecords /\ Tail(rest) \in Seq(WriteRecords)
      /\ rest = <<w>> \o Tail(rest)
  <2>1. <<>> \in Seq({})
    OBVIOUS
  <2> QED
    BY <2>1, SplitHead
<1>3. cells \in Seq(Nat) /\ cells \in Seq(Cells) /\ w.at = NoHandle /\ w.checked = TRUE
  <2>1. w.cells \in Seq(Nat) /\ w.at \in {NoHandle} /\ w.checked \in {TRUE}
    BY <1>2, Zenon DEF WriteRecords
  <2>2. w.at = NoHandle /\ w.checked = TRUE
    BY <2>1, Zenon
  <2> QED
    BY <2>1, <2>2, <1>1, NumbersAreCells
<1>4. fil \in FIL /\ fil.pos = Len(fil.data) /\ fil.data = CellsOf(done)
  BY <1>1, OpenFil
<1>5. /\ StaysOpen(s, r.fs) /\ r.fs.card = s.card
      /\ r.fs.fdtofil[h] = f.fil /\ r.written = f.written
  <2>1. f = f_write(s, s.fdtofil[h], cells) /\ r = write(s, h, cells)
    BY <1>1, Zenon
  <2>2. /\ StaysOpen(s, write(s, h, cells).fs)
        /\ write(s, h, cells).fs.fdtofil[h] = f.fil
        /\ write(s, h, cells).written = f.written
        /\ write(s, h, cells).fs.card = s.card
    BY <2>1, <1>3, WriteFil
  <2> QED
    BY <2>1, <2>2, Zenon
<1>6. Appended(fil, cells, f.written, f.fil)
  BY <1>1, <1>3, <1>4, AppendIs, Zenon
<1>7. PICK all, a, b, c, one, next :
        /\ all = CellsOf(imageWrites(m)) /\ a = CellsOf(done) /\ b = CellsOf(Tail(rest))
        /\ one = <<w>> /\ next = done \o one /\ c = CellsOf(next)
  OBVIOUS
<1>8. /\ one \in Seq(WriteRecords) /\ next \in Seq(WriteRecords)
      /\ next \o Tail(rest) = imageWrites(m)
  <2>1. one \in Seq(WriteRecords)
    BY <1>2, <1>7
  <2>2. next \in Seq(WriteRecords)
    BY <2>1, <1>7
  <2>3. JoinsAlike(WriteRecords, done, one, Tail(rest))
    BY AllJoinAlike
  <2>4. done \o (one \o Tail(rest)) = (done \o one) \o Tail(rest)
    BY <2>1, <2>3, <1>2 DEF JoinsAlike
  <2> QED
    BY <2>1, <2>2, <2>4, <1>2, <1>7
<1>9. /\ a \in Seq(Nat) /\ b \in Seq(Nat) /\ c \in Seq(Nat)
      /\ all = c \o b /\ c = a \o cells
  <2>1. CellsOf(next) = CellsOf(done) \o CellsOf(one)
    BY <1>7, <1>8, CellsOfConcat
  <2>2. CellsOf(one) = cells
    BY <1>1, <1>2, <1>7, CellsOfOne
  <2>3. CellsOf(next \o Tail(rest)) = CellsOf(next) \o CellsOf(Tail(rest))
    BY <1>2, <1>8, CellsOfConcat
  <2>4. a \in Seq(Nat) /\ b \in Seq(Nat) /\ c \in Seq(Nat)
    BY <1>2, <1>7, <1>8, CellsOfType
  <2> QED
    BY <2>1, <2>2, <2>3, <2>4, <1>7, <1>8
<1>10. all[2] = 0
  <2>1. PICK space, table : ImageParts(m, CellsOf(imageWrites(m)), space, table)
    BY ImageIs
  <2> QED
    BY <2>1, <1>7 DEF ImageParts
<1>11. PICK k, x, y, data : k = f.written /\ x = Len(a) /\ y = Len(cells) /\ data = f.fil.data
  OBVIOUS
<1>12. /\ k \in 0..y /\ x \in Nat /\ y \in Nat
       /\ data \in Seq(Cells) /\ f.fil.pos = x + k /\ Len(data) = x + k
       /\ \A i \in 1..x : data[i] = a[i]
       /\ \A i \in 1..k : data[x + i] = cells[i]
  BY <1>3, <1>4, <1>6, <1>7, <1>9, <1>11 DEF Appended
<1>13. \A i \in 1..x + k : data[i] = c[i] /\ c[i] = all[i] /\ c[i] \in Nat
  <2>1. Len(c) = x + y /\ \A i \in 1..x + y : c[i] = IF i <= x THEN a[i] ELSE cells[i - x]
    BY <1>3, <1>9, <1>11
  <2>2. \A i \in 1..x + y : c[i] = all[i] /\ c[i] \in Nat
    <3>1. JoinIs(Nat, c, b)
      BY AllJoinIs, Zenon
    <3>2. \A j \in 1..Len(c) : (c \o b)[j] = c[j]
      BY <3>1, <1>9 DEF JoinIs
    <3>3. 1..x + y = 1..Len(c) /\ \A j \in 1..Len(c) : c[j] \in Nat
      <4>1. PICK e : e = c
        OBVIOUS
      <4>2. e \in Seq(Nat) /\ Len(e) = x + y
        BY <4>1, <2>1, <1>9
      <4>3. \A j \in 1..Len(e) : e[j] \in Nat
        BY <4>2
      <4> QED
        BY <4>1, <4>2, <4>3, Zenon
    <3>4. \A j \in 1..Len(c) : all[j] = c[j]
      BY <3>2, <1>9, Zenon
    <3> QED
      BY <3>3, <3>4, Zenon
  <2> TAKE i \in 1..x + k
  <2>3. i \in 1..x + y
    BY <1>12
  <2>4. data[i] = c[i]
    <3>1. CASE i <= x
      <4>1. i \in 1..x
        BY <3>1, <1>12
      <4>2. data[i] = a[i] /\ c[i] = a[i]
        BY <3>1, <4>1, <2>1, <2>3, <1>12
      <4> QED
        BY <4>2
    <3>2. CASE ~(i <= x)
      <4>1. PICK j : j = i - x
        OBVIOUS
      <4>2. j \in 1..k /\ x + j = i
        BY <4>1, <3>2, <1>12
      <4>3. data[i] = cells[j]
        BY <4>2, <1>12
      <4>4. c[i] = cells[j]
        BY <3>2, <4>1, <2>1, <2>3
      <4> QED
        BY <4>3, <4>4
    <3> QED
      BY <3>1, <3>2
  <2> QED
    BY <2>2, <2>3, <2>4
<1>14. Harmless(data)
  <2>1. data \in Seq(Cells)
    BY <1>12
  <2>2. Len(data) >= 2 => data[2] = 0
    BY <1>10, <1>12, <1>13
  <2> QED
    BY <2>1, <2>2 DEF Harmless
<1>15. ASSUME k = y PROVE Appending(f.fil, m, Tail(rest) \o headerWrites(m))
  <2>1. data = c
    <3>1. Len(c) = x + y
      BY <1>3, <1>9, <1>11
    <3>2. c \in Seq(Cells)
      BY <1>9, NumbersAreCells
    <3> QED
      BY <3>1, <3>2, <1>12, <1>13, <1>15, SeqEqual
  <2>2. f.fil.pos = Len(f.fil.data) /\ f.fil.data = CellsOf(next)
    BY <2>1, <1>7, <1>11, <1>12
  <2> QED
    BY <2>2, <1>2, <1>8, Zenon DEF Appending
<1> QED
  BY <1>1, <1>3, <1>5, <1>11, <1>14, <1>15

(* One cell of the header.                                                   *)
LEMMA HeaderStep ==
  ASSUME NEW s, Sound(s), NEW h \in Open(s), NEW p \in Nat, p < Len(s.fdtofil[h].data),
         NEW c \in Nat, NEW t, t = seek_to(s, h, p), NEW r, r = write(t, h, <<c>>)
  PROVE  /\ StaysOpen(s, r.fs) /\ r.fs.card = s.card
         /\ r.fs.fdtofil[h].data = [s.fdtofil[h].data EXCEPT ![p + 1] = c]
<1>1. PICK fil, moved, f, cells : /\ fil = s.fdtofil[h] /\ moved = t.fdtofil[h]
                                  /\ cells = <<c>> /\ f = f_write(t, moved, cells)
  OBVIOUS
<1>2. fil \in FIL /\ s \in FileSystems /\ fil.pos <= Len(fil.data) /\ fil.data \in Seq(Cells)
  BY <1>1, OpenFil DEF Sound
<1>3. StaysOpen(s, t) /\ moved = f_lseek(s, fil, p) /\ t.card = s.card
  BY <1>1, <1>2, SeekTo, CardAlone
<1>4. moved = [fil EXCEPT !.pos = p]
  <2>1. p <= Len(fil.data)
    BY <1>1, <1>2
  <2> QED
    BY <2>1, <1>2, <1>3, Sought
<1>5. moved \in FIL /\ moved.pos = p /\ moved.data = fil.data /\ p < Len(moved.data)
  BY <1>1, <1>2, <1>4 DEF FIL
<1>6. Sound(t) /\ h \in Open(t) /\ c \in Cells /\ cells \in Seq(Cells)
  BY <1>1, <1>3 DEF StaysOpen, Cells
<1>7. /\ StaysOpen(t, r.fs) /\ r.fs.card = t.card /\ r.fs.fdtofil[h] = f.fil
  <2>1. f = f_write(t, t.fdtofil[h], cells) /\ r = write(t, h, cells)
    BY <1>1, Zenon
  <2>2. /\ StaysOpen(t, write(t, h, cells).fs)
        /\ write(t, h, cells).fs.fdtofil[h] = f.fil
        /\ write(t, h, cells).fs.card = t.card
    BY <2>1, <1>6, WriteFil
  <2> QED
    BY <2>1, <2>2, Zenon
<1>8. f.fil.data = [fil.data EXCEPT ![p + 1] = c]
  <2>1. Overwritten(moved, c, moved.pos, f_write(t, moved, <<c>>).fil)
    BY <1>5, <1>6, OverwriteIs
  <2>2. PICK data : data = [moved.data EXCEPT ![p + 1] = c]
    OBVIOUS
  <2>3. f.fil = [moved EXCEPT !.pos = p + 1, !.data = data]
    BY <2>1, <2>2, <1>1, <1>5 DEF Overwritten
  <2>4. f.fil.data = data
    BY <2>3, <1>5 DEF FIL
  <2> QED
    BY <2>2, <2>4, <1>5
<1> QED
  BY <1>1, <1>3, <1>7, <1>8, StaysOpenTwice

(* A write of saveObjects.                                                   *)
LEMMA WriteStep ==
  ASSUME NEW s, Sound(s), NEW h \in Open(s), NEW m, IsImage(ObjectsIn(m)),
         NEW list, list # <<>>, Writing(s.fdtofil[h], m, list),
         NEW w, w = Head(list),
         NEW r, r = write(IF w.at = NoHandle THEN s ELSE seek_to(s, h, w.at), h, w.cells)
  PROVE  /\ StaysOpen(s, r.fs) /\ r.fs.card = s.card
         /\ w.checked /\ r.written # Len(w.cells) => Harmless(r.fs.fdtofil[h].data)
         /\ ~(w.checked /\ r.written # Len(w.cells)) => Writing(r.fs.fdtofil[h], m, Tail(list))
<1>1. PICK fil, all, first, len :
        /\ fil = s.fdtofil[h] /\ all = CellsOf(imageWrites(m))
        /\ first = objectSpaceLength(m) /\ len = storedObjectTableLength(m)
  OBVIOUS
<1>2. /\ first \in Nat /\ len \in Nat /\ imageWrites(m) \in Seq(WriteRecords)
      /\ all \in Seq(Nat) /\ Len(all) >= 2
  <2>1. first \in Nat
    BY <1>1, OopsAre, WordsUpToIs DEF objectSpaceLength
  <2>2. PICK space, table : ImageParts(m, all, space, table)
    BY <1>1, ImageIs
  <2>3. all \in Seq(Nat) /\ Len(all) >= 2
    BY <2>2, SnapshotConstantsOK, FilesConstantsOK DEF ImageParts
  <2> QED
    BY <2>1, <2>3, <1>1, ImageIs, StoredLength
<1>3. PICK one, two : one = Rewrite(<<first>>, 0) /\ two = Rewrite(<<len>>, 1)
  OBVIOUS
<1>4. /\ one.at = 0 /\ one.cells = <<first>> /\ one.checked = FALSE
      /\ two.at = 1 /\ two.cells = <<len>> /\ two.checked = FALSE
      /\ headerWrites(m) = <<one, two>>
      /\ 0 # NoHandle /\ 1 # NoHandle
  BY <1>1, <1>3 DEF Rewrite, headerWrites, NoHandle
<1>5. fil.data \in Seq(Cells) /\ StaysOpen(s, s)
  BY <1>1, OpenFil DEF StaysOpen
<1>6. CASE Appending(fil, m, list)
  <2>1. PICK done \in Seq(WriteRecords), rest \in Seq(WriteRecords) :
          /\ done \o rest = imageWrites(m) /\ list = rest \o headerWrites(m)
          /\ fil.data = CellsOf(done) /\ fil.pos = Len(fil.data)
    BY <1>6 DEF Appending
  <2>2. headerWrites(m) \in Seq({one, two})
    BY <1>4
  <2>3. CASE rest # <<>>
    <3>1. Head(list) = Head(rest) /\ Tail(list) = Tail(rest) \o headerWrites(m)
          /\ Head(rest) \in WriteRecords
      BY <2>1, <2>2, <2>3, SplitHead, SMTT(30)
    <3>2. w.at = NoHandle
      <4>1. w \in WriteRecords
        BY <3>1
      <4>2. w.at \in {NoHandle}
        BY <4>1, Zenon DEF WriteRecords
      <4> QED
        BY <4>2
    <3>3. r = write(s, h, w.cells) /\ w = Head(rest)
      BY <3>1, <3>2
    <3>4. /\ StaysOpen(s, r.fs) /\ r.fs.card = s.card
          /\ w.at = NoHandle /\ w.checked = TRUE
          /\ r.written # Len(w.cells) => Harmless(r.fs.fdtofil[h].data)
          /\ r.written = Len(w.cells) =>
               Appending(r.fs.fdtofil[h], m, Tail(rest) \o headerWrites(m))
      BY <2>1, <2>3, <3>3, <1>1, AppendStep, ZenonT(40)
    <3> QED
      BY <3>1, <3>4 DEF Writing
  <2>4. CASE rest = <<>>
    <3>1. done = imageWrites(m) /\ list = <<one, two>>
      <4>1. PICK pair : pair = <<one, two>>
        OBVIOUS
      <4>2. pair \in Seq({one, two})
        BY <4>1
      <4>3. <<>> \o pair = pair /\ done \o <<>> = done
        BY <4>2
      <4> QED
        BY <4>1, <4>3, <2>1, <2>4, <1>4
    <3>2. fil.data = all /\ w = one /\ Tail(list) = <<two>>
      BY <3>1, <2>1, <1>1
    <3>3. r = write(seek_to(s, h, 0), h, <<first>>)
      BY <3>2, <1>4
    <3>4. 0 \in Nat /\ 0 < Len(s.fdtofil[h].data)
      BY <3>2, <1>1, <1>2
    <3>5. /\ StaysOpen(s, r.fs) /\ r.fs.card = s.card
          /\ r.fs.fdtofil[h].data = [s.fdtofil[h].data EXCEPT ![0 + 1] = first]
      BY <3>3, <3>4, <1>2, HeaderStep, SMTT(30)
    <3>6. r.fs.fdtofil[h].data = HalfHeader(m)
      BY <3>2, <3>5, <1>1 DEF HalfHeader
    <3>7. EndingHeader(r.fs.fdtofil[h], m, Tail(list))
      BY <3>2, <3>6, <1>1, <1>3 DEF EndingHeader
    <3> QED
      BY <3>2, <3>5, <3>7, <1>4 DEF Writing
  <2> QED
    BY <2>3, <2>4
<1>7. CASE EndingHeader(fil, m, list)
  <2>1. list = <<two>> /\ fil.data = [all EXCEPT ![1] = first]
    BY <1>1, <1>3, <1>7 DEF EndingHeader, HalfHeader
  <2>2. w = two /\ Tail(list) = <<>>
    BY <2>1
  <2>3. r = write(seek_to(s, h, 1), h, <<len>>)
    BY <2>2, <1>4
  <2>4. 1 \in Nat /\ 1 < Len(s.fdtofil[h].data)
    BY <2>1, <1>1, <1>2
  <2>5. /\ StaysOpen(s, r.fs) /\ r.fs.card = s.card
        /\ r.fs.fdtofil[h].data = [s.fdtofil[h].data EXCEPT ![1 + 1] = len]
    BY <2>3, <2>4, <1>2, HeaderStep
  <2>6. r.fs.fdtofil[h].data = FileOf(m)
    <3>1. PICK half, new : half = s.fdtofil[h].data /\ new = r.fs.fdtofil[h].data
      OBVIOUS
    <3>2. half = [all EXCEPT ![1] = first] /\ new = [half EXCEPT ![2] = len]
      BY <3>1, <2>1, <2>5, <1>1
    <3>3. FileOf(m) = [all EXCEPT ![1] = first, ![2] = len]
      BY <1>1 DEF FileOf
    <3>4. new = [all EXCEPT ![1] = first, ![2] = len]
      BY <3>2
    <3> QED
      BY <3>1, <3>3, <3>4
  <2> QED
    BY <2>2, <2>5, <2>6, <1>4 DEF Writing, Complete
<1>8. CASE Complete(fil, m, list)
  BY <1>8 DEF Complete
<1> QED
  BY <1>1, <1>6, <1>7, <1>8 DEF Writing

----------------------------------------------------------------------------
(* The invariant and the actions.                                            *)

(* The invariant.  A file of the card with an image whose save has succeeded *)
(* holds that image, and any other has a header that tells an empty table.   *)
(* While an image is saved, its file on the card is empty, as what is        *)
(* written gets there when the file is closed, and saveSnapshot has a handle *)
(* that no PosixFile holds.  A boot that has failed may leave such a handle  *)
(* too, that of a file that was too large.                                   *)
Image(objects) == IsImage(objects) /\ FitsInHeap(objects)

OnCard(n) ==
  IF saved[n] = NoFile THEN fs.card[n] = NoFile \/ Harmless(fs.card[n])
  ELSE IsFileOf(fs.card[n], saved[n]) /\ Image(saved[n])

HandlesBut(k) ==
  /\ \A f \in PosixFiles : Held(f) => /\ descriptor[f] \in Open(fs) \ {k}
                                      /\ fs.fdtofil[descriptor[f]].name = fileName[f]
  /\ \A f, g \in PosixFiles : Held(f) /\ Held(g) /\ descriptor[f] = descriptor[g] => f = g
  /\ \A h \in Open(fs) \ {k} : \E f \in PosixFiles : Held(f) /\ descriptor[f] = h

FieldTypes ==
  descriptor \in [PosixFiles -> Handles \cup {NilPointer}] /\ fileName \in [PosixFiles -> UserNames]

Saving ==
  /\ Sound(fs) /\ FieldTypes /\ HandlesBut(fd)
  /\ fd \in Open(fs) /\ fs.fdtofil[fd].name = imageName
  /\ saved[imageName] = NoFile /\ fs.card[imageName] = <<>>
  /\ Writing(fs.fdtofil[fd], om, writes)

SnapshotTypes ==
  /\ mode \in {"running", "saving", "off", "failed"}
  /\ imageName \in ImageNames /\ fd \in Handles \cup {NoHandle}
  /\ saved = [n \in ImageNames |-> saved[n]]

SnapshotInv ==
  /\ SnapshotTypes
  /\ \A n \in ImageNames : OnCard(n)
  /\ mode \notin {"saving", "failed"} => FilesInv
  /\ mode = "failed" => Sound(fs) /\ FieldTypes
  /\ mode = "saving" => Saving
  /\ mode \in {"running", "saving"} => Image(ObjectsIn(om))

LEMMA ImageNamesAre == ImageNames \subseteq Names \ UserNames /\ BootName \in ImageNames
BY SnapshotConstantsOK

LEMMA CardStays ==
  ASSUME SnapshotInv, SameEntries(fs, fs'), saved' = saved
  PROVE  \A n \in ImageNames : OnCard(n)'
BY ImageNamesAre DEF SnapshotInv, SameEntries, OnCard

LEMMA NotOpenYet ==
  ASSUME FilesInv, NEW n \in ImageNames
  PROVE  n \in Names /\ ~IsOpen(fs, n)
BY ImageNamesAre DEF FilesInv, Owned, IsOpen

LEMMA SnapshotInitInv == Init => SnapshotInv
<1> SUFFICES ASSUME Init PROVE SnapshotInv
  OBVIOUS
<1>1. PICK m \in Memories :
        /\ FilesInit([n \in Names |-> IF n = BootName THEN FileOf(m) ELSE NoFile])
        /\ om = m /\ imageName = BootName /\ mode = "off" /\ fd = NoHandle /\ writes = <<>>
        /\ saved = [n \in ImageNames |-> IF n = BootName THEN ObjectsIn(m) ELSE NoFile]
  BY DEF Init
<1>2. Image(ObjectsIn(m)) /\ PagesOf(FileOf(m)) <= CardPages
  BY MemoriesOK DEF Image
<1>3. FileOf(m) \in Seq(Cells) /\ IsFileOf(FileOf(m), ObjectsIn(m)) /\ ObjectsIn(m) # NoFile
  BY <1>2, FileOfType, ImageOnFile, NumbersAreCells DEF Image, IsImage
<1>4. FilesInv /\ fs.card[BootName] = FileOf(m) /\ \A x \in Names \ {BootName} : fs.card[x] = NoFile
  BY <1>1, <1>2, <1>3, ImageNamesAre, FirstFile
<1>5. ASSUME NEW n \in ImageNames PROVE OnCard(n)
  <2>1. CASE n = BootName
    <3>1. saved[n] = ObjectsIn(m) /\ fs.card[n] = FileOf(m)
      BY <2>1, <1>1, <1>4, ImageNamesAre
    <3> QED
      BY <3>1, <1>2, <1>3 DEF OnCard
  <2>2. CASE n # BootName
    <3>1. saved[n] = NoFile /\ fs.card[n] = NoFile
      BY <2>2, <1>1, <1>4, ImageNamesAre
    <3> QED
      BY <3>1 DEF OnCard
  <2> QED
    BY <2>1, <2>2
<1>6. SnapshotTypes
  <2>1. saved = [n \in ImageNames |-> saved[n]]
    BY <1>1
  <2> QED
    BY <2>1, <1>1, ImageNamesAre DEF SnapshotTypes
<1> QED
  BY <1>1, <1>4, <1>5, <1>6 DEF SnapshotInv

(* An entry that becomes empty or harmless, and others that stay.            *)
LEMMA CardOne ==
  ASSUME SnapshotInv, fs \in FileSystems, NEW n \in ImageNames, NEW data,
         fs'.card = [fs.card EXCEPT ![n] = data],
         saved'[n] = NoFile => Harmless(data),
         saved'[n] # NoFile => IsFileOf(data, saved'[n]) /\ Image(saved'[n]),
         \A x \in ImageNames \ {n} : saved'[x] = saved[x]
  PROVE  \A x \in ImageNames : OnCard(x)'
<1> TAKE x \in ImageNames
<1>1. n \in Names /\ x \in Names /\ OnCard(x)
  BY ImageNamesAre DEF SnapshotInv
<1>2. CASE x = n
  <2>1. fs'.card[x] = data
    BY <1>1, <1>2 DEF FileSystems
  <2> QED
    BY <2>1, <1>2 DEF OnCard
<1>3. CASE x # n
  <2>1. fs'.card[x] = fs.card[x] /\ saved'[x] = saved[x]
    BY <1>1, <1>3 DEF FileSystems
  <2> QED
    BY <2>1, <1>1 DEF OnCard
<1> QED
  BY <1>2, <1>3

LEMMA NoneHarmless == Harmless(<<>>)
BY DEF Harmless

(* What the seek of boot mode 1 makes of the contents: nothing, unless there *)
(* are none, and then no header either.                                      *)
Reached(data, grown) ==
  /\ grown \in Seq(Cells)
  /\ grown # data => Len(data) = 0 /\ Len(grown) <= 1

(* The file system after a load: only a file that is too large stays open.   *)
AfterLoad(b, data, opened, t) ==
  /\ opened.fd = NoHandle => StaysOpen(fs, t) /\ t.card = fs.card
  /\ opened.fd # NoHandle =>
       /\ data \in Seq(Cells)
       /\ TooLarge(b, data) => Sound(t) /\ t.card = fs.card
       /\ ~TooLarge(b, data) =>
            /\ StaysOpen(fs, t)
            /\ \E grown : /\ Reached(data, grown)
                          /\ t.card = [fs.card EXCEPT ![BootName] = grown]

LEMMA BootFiles ==
  ASSUME FilesInv, NEW b \in BootModes, NEW opened, opened = open_file(fs, BootName),
         NEW data, data = fs.card[BootName], NEW t, t = filesAfterLoad(b, data, opened)
  PROVE  AfterLoad(b, data, opened, t)
<1>1. PICK n, k, s : n = BootName /\ k = opened.fd /\ s = opened.fs
  OBVIOUS
<1>2. n \in Names /\ ~IsOpen(fs, n) /\ Sound(fs) /\ fs \in FileSystems /\ data = fs.card[n]
  BY <1>1, ImageNamesAre, NotOpenYet DEF FilesInv, Sound
<1>3. CASE data = NoFile
  <2>1. opened = [fd |-> NoHandle, fs |-> fs]
    BY <1>1, <1>2, <1>3, Zenon DEF open_file
  <2>2. opened.fd = NoHandle /\ t = fs
    BY <2>1 DEF filesAfterLoad
  <2>3. StaysOpen(fs, fs)
    BY <1>2 DEF StaysOpen
  <2> QED
    BY <2>2, <2>3 DEF AfterLoad
<1>4. CASE data # NoFile
  <2>1. opened = Handle(fs, n, fs.card[n]) /\ data \in Seq(Cells)
    <3>1. opened = Handle(fs, n, fs.card[n])
      BY <1>1, <1>2, <1>4, Zenon DEF open_file
    <3> QED
      BY <3>1, <1>2, <1>4 DEF FileSystems
  <2>2. /\ Sound(s) /\ s.card = fs.card
        /\ k \in (Handles \ Open(fs)) \cup {NoHandle}
        /\ k = NoHandle => s.fdtofil = fs.fdtofil
        /\ k # NoHandle => /\ Open(s) = Open(fs) \cup {k}
                           /\ s.fdtofil[k] = Fresh(fs, n)
        /\ \A h \in Open(fs) : s.fdtofil[h] = fs.fdtofil[h]
    BY <1>1, <1>2, <1>4, <2>1, Handled
  <2>3. CASE k = NoHandle
    <3>1. t = s
      BY <1>1, <2>3 DEF filesAfterLoad
    <3>2. StaysOpen(fs, s)
      BY <2>2, <2>3 DEF StaysOpen, Open
    <3> QED
      BY <3>1, <3>2, <1>1, <2>2, <2>3 DEF AfterLoad
  <2>4. CASE k # NoHandle /\ TooLarge(b, data)
    <3>1. t = s
      BY <1>1, <2>4 DEF filesAfterLoad
    <3> QED
      BY <3>1, <1>1, <2>1, <2>2, <2>4 DEF AfterLoad
  <2>5. CASE k # NoHandle /\ ~TooLarge(b, data)
    <3>1. PICK u : u = IF b = 1 THEN seek_to(s, k, 1) ELSE s
      OBVIOUS
    <3>2. k \in Open(s) /\ k \in Handles \ Open(fs) /\ Open(s) = Open(fs) \cup {k}
      BY <2>2, <2>5
    <3>3. s.fdtofil[k].name = n /\ s.fdtofil[k].data = data
      BY <1>2, <2>2, <2>5 DEF Fresh
    <3>4. StaysOpen(s, u) /\ u.card = s.card /\ Reached(data, u.fdtofil[k].data)
      <4>1. CASE b = 1
        <5>1. PICK fil, f : fil = s.fdtofil[k] /\ f = f_lseek(s, fil, 1)
          OBVIOUS
        <5>2. fil \in FIL /\ fil.pos <= Len(fil.data) /\ fil.data = data
          BY <3>2, <3>3, <5>1, <2>2, OpenFil
        <5>3. /\ f.data \in Seq(Cells)
              /\ 1 <= Len(fil.data) => f = [fil EXCEPT !.pos = 1]
              /\ 1 > Len(fil.data) => Len(f.data) <= 1
          <6>1. /\ Extends(s, fil, f)
                /\ 1 <= Len(fil.data) => f = [fil EXCEPT !.pos = 1]
                /\ 1 > Len(fil.data) => Len(f.data) <= 1
            BY <5>1, <5>2, <2>2, Sought
          <6> QED
            BY <6>1 DEF Extends, FIL
        <5>4. Reached(data, f.data)
          <6>1. 1 <= Len(data) => f.data = data
            BY <5>2, <5>3 DEF FIL
          <6>2. Len(data) \in Nat
            BY <2>1
          <6> QED
            BY <6>1, <6>2, <5>2, <5>3 DEF Reached
        <5>5. StaysOpen(s, u) /\ u.fdtofil[k] = f
          BY <3>1, <3>2, <4>1, <5>1, <2>2, SeekTo
        <5>6. u.card = s.card
          BY <3>1, <4>1, <2>2 DEF seek_to, Sound, FileSystems
        <5> QED
          BY <5>4, <5>5, <5>6
      <4>2. CASE b # 1
        BY <3>1, <3>3, <4>2, <2>1, <2>2 DEF StaysOpen, Reached
      <4> QED
        BY <4>1, <4>2
    <3>5. k \in Open(u) /\ u.fdtofil[k].name = n
      BY <3>2, <3>3, <3>4 DEF StaysOpen
    <3>6. t = f_close(u, k)
      <4>1. t = close_file(u, k)
        BY <1>1, <2>5, <3>1, Zenon DEF filesAfterLoad
      <4> QED
        BY <4>1, <3>5 DEF close_file, Open
    <3>7. /\ Sound(t) /\ Open(t) = Open(u) \ {k} /\ \A g \in Open(t) : t.fdtofil[g] = u.fdtofil[g]
          /\ t.card = [u.card EXCEPT ![n] = u.fdtofil[k].data]
      BY <3>4, <3>5, <3>6, Closed DEF StaysOpen
    <3>8. StaysOpen(fs, t)
      BY <3>2, <3>4, <3>7, <2>2 DEF StaysOpen
    <3>9. t.card = [fs.card EXCEPT ![BootName] = u.fdtofil[k].data]
      BY <1>1, <2>2, <3>4, <3>7
    <3> QED
      BY <1>1, <2>1, <2>5, <3>4, <3>8, <3>9 DEF AfterLoad
  <2> QED
    BY <2>3, <2>4, <2>5
<1> QED
  BY <1>3, <1>4

(* What is on the card stays what it was, in both boot modes.                *)
LEMMA BootCard ==
  ASSUME SnapshotInv, FilesInv, NEW b \in BootModes, NEW opened, opened = open_file(fs, BootName),
         fs' = filesAfterLoad(b, fs.card[BootName], opened), saved' = saved
  PROVE  \A n \in ImageNames : OnCard(n)'
<1>1. PICK data : data = fs.card[BootName]
  OBVIOUS
<1>2. /\ opened.fd = NoHandle \/ TooLarge(b, data) => fs'.card = fs.card
      /\ opened.fd # NoHandle /\ ~TooLarge(b, data) =>
           /\ data \in Seq(Cells)
           /\ \E grown : /\ Reached(data, grown)
                         /\ fs'.card = [fs.card EXCEPT ![BootName] = grown]
  <2>1. fs' = filesAfterLoad(b, data, opened)
    BY <1>1
  <2>2. AfterLoad(b, data, opened, fs')
    BY <1>1, <2>1, BootFiles, Zenon
  <2> QED
    BY <2>2 DEF AfterLoad
<1>3. CASE opened.fd = NoHandle \/ TooLarge(b, data)
  BY <1>2, <1>3, CardStays, NoEntry
<1>4. CASE opened.fd # NoHandle /\ ~TooLarge(b, data)
  <2>1. PICK grown : /\ Reached(data, grown)
                     /\ fs'.card = [fs.card EXCEPT ![BootName] = grown]
    BY <1>2, <1>4
  <2>2. BootName \in ImageNames /\ OnCard(BootName) /\ fs \in FileSystems
    BY ImageNamesAre DEF SnapshotInv, FilesInv, Sound
  <2>3. data # NoFile /\ Len(data) \in Nat
    BY <1>2, <1>4, FilesConstantsOK
  <2>4. saved[BootName] = NoFile => Harmless(grown)
    <3>1. CASE grown = data
      BY <1>1, <2>2, <2>3, <3>1 DEF OnCard
    <3>2. CASE grown # data
      <4>1. grown \in Seq(Cells) /\ Len(grown) <= 1 /\ Len(grown) \in Nat
        BY <2>1, <3>2 DEF Reached
      <4> QED
        BY <4>1 DEF Harmless
    <3> QED
      BY <3>1, <3>2
  <2>5. saved[BootName] # NoFile => IsFileOf(grown, saved[BootName]) /\ Image(saved[BootName])
    <3> SUFFICES ASSUME saved[BootName] # NoFile
                 PROVE  IsFileOf(grown, saved[BootName]) /\ Image(saved[BootName])
      OBVIOUS
    <3>1. IsFileOf(data, saved[BootName]) /\ Image(saved[BootName])
      BY <1>1, <2>2 DEF OnCard
    <3>2. Len(data) >= 2
      BY <3>1 DEF IsFileOf
    <3>3. grown = data
      BY <2>1, <2>3, <3>2 DEF Reached
    <3> QED
      BY <3>1, <3>3
  <2> QED
    BY <2>1, <2>2, <2>4, <2>5, CardOne
<1> QED
  BY <1>3, <1>4

(* A memory that a load hands over is the image whose save has succeeded.    *)
LEMMA BootLoads ==
  ASSUME SnapshotInv, NEW b \in BootModes, NEW data, data = fs.card[BootName],
         data \in Seq(Cells), NEW loaded, loaded = loadSnapshot(b, data),
         loaded.ok, DOMAIN ObjectsIn(loaded.m) # {}
  PROVE  Image(ObjectsIn(loaded.m))
<1>1. Len(data) \in Nat /\ data # NoFile
  BY FilesConstantsOK
<1>2. LoadFailed.ok = FALSE
  BY DEF LoadFailed
<1>3. loaded = loadFile(data)
  BY <1>1, <1>2, LoadSnapshotIs
<1>4. OnCard(BootName)
  BY ImageNamesAre DEF SnapshotInv
<1>5. saved[BootName] # NoFile
  <2>1. CASE saved[BootName] = NoFile
    <3>1. Harmless(data)
      BY <1>1, <1>4, <2>1 DEF OnCard
    <3>2. DOMAIN ObjectsIn(loaded.m) = {}
      BY <1>3, <3>1, HarmlessLoads
    <3> QED
      BY <3>2
  <2> QED
    BY <2>1
<1>6. IsFileOf(data, saved[BootName]) /\ Image(saved[BootName])
  BY <1>4, <1>5 DEF OnCard
<1>7. ObjectsIn(loaded.m) = saved[BootName]
  <2>1. IsImage(saved[BootName]) /\ FitsInHeap(saved[BootName])
    BY <1>6 DEF Image
  <2> QED
    BY <2>1, <1>3, <1>6, ImageLoads
<1> QED
  BY <1>6, <1>7

LEMMA BootInv ==
  ASSUME SnapshotInv, NEW b \in BootModes, boot(b)
  PROVE  SnapshotInv'
<1>1. PICK opened, data, loaded :
        /\ data = fs.card[BootName] /\ opened = open_file(fs, BootName)
        /\ loaded = loadSnapshot(b, data)
  OBVIOUS
<1>2. /\ mode = "off" /\ imageName' = BootName /\ FilesInv
      /\ fs' = filesAfterLoad(b, data, opened)
      /\ fileName' = fileName /\ descriptor' = descriptor /\ fd' = fd
      /\ writes' = writes /\ saved' = saved
  BY <1>1 DEF boot, SnapshotInv
<1>3. AfterLoad(b, data, opened, fs')
  BY <1>1, <1>2, BootFiles, Zenon
<1>4. \/ DoesNotRun
      \/ /\ opened.fd # NoHandle /\ ~TooLarge(b, data)
         /\ \E memory : Runs(memory) /\ Image(ObjectsIn(memory))
  <2>1. CASE opened.fd # NoHandle /\ ReadsOutside(b, data)
    <3>1. DoesNotRun \/ \E memory \in Memories : Runs(memory)
      BY <1>1, <2>1 DEF boot
    <3>2. ~TooLarge(b, data)
      BY <2>1 DEF ReadsOutside
    <3> QED
      BY <3>1, <3>2, <2>1, MemoriesOK DEF Image
  <2>2. CASE /\ ~(opened.fd # NoHandle /\ ReadsOutside(b, data))
             /\ opened.fd = NoHandle \/ ~loaded.ok \/ DOMAIN ObjectsIn(loaded.m) = {}
    BY <1>1, <2>2 DEF boot
  <2>3. CASE /\ ~(opened.fd # NoHandle /\ ReadsOutside(b, data))
             /\ ~(opened.fd = NoHandle \/ ~loaded.ok \/ DOMAIN ObjectsIn(loaded.m) = {})
    <3>1. Runs(loaded.m)
      BY <1>1, <2>3 DEF boot
    <3>2. data \in Seq(Cells)
      BY <1>3, <2>3 DEF AfterLoad
    <3>3. Image(ObjectsIn(loaded.m))
      BY <1>1, <2>3, <3>2, BootLoads
    <3>4. ~TooLarge(b, data)
      <4>1. TooLarge(b, data) => loaded = LoadFailed
        BY <1>1 DEF loadSnapshot
      <4>2. LoadFailed.ok = FALSE
        BY DEF LoadFailed
      <4> QED
        BY <4>1, <4>2, <2>3
    <3> QED
      BY <3>1, <3>3, <3>4, <2>3
  <2> QED
    BY <2>1, <2>2, <2>3
<1>5. SnapshotTypes' \/ mode' \notin {"running", "failed"}
  BY <1>2, ImageNamesAre DEF SnapshotInv, SnapshotTypes
<1>6. \A n \in ImageNames : OnCard(n)'
  BY <1>1, <1>2, BootCard
<1>7. CASE DoesNotRun
  <2>1. mode' = "failed"
    BY <1>7 DEF DoesNotRun
  <2>2. Sound(fs')
    BY <1>3 DEF AfterLoad, StaysOpen
  <2>3. FieldTypes'
    BY <1>2 DEF FilesInv, FieldTypes
  <2> QED
    BY <1>5, <1>6, <2>1, <2>2, <2>3 DEF SnapshotInv
<1>8. CASE /\ opened.fd # NoHandle /\ ~TooLarge(b, data)
           /\ \E memory : Runs(memory) /\ Image(ObjectsIn(memory))
  <2>1. PICK memory : Runs(memory) /\ Image(ObjectsIn(memory))
    BY <1>8
  <2>2. mode' = "running" /\ om' = memory
    BY <2>1 DEF Runs
  <2>3. FilesInv'
    <3>1. StaysOpen(fs, fs')
      BY <1>3, <1>8 DEF AfterLoad
    <3> QED
      BY <3>1, <1>2, SameHandles
  <2>4. Image(ObjectsIn(om'))
    BY <2>1, <2>2
  <2> QED
    BY <1>5, <1>6, <2>2, <2>3, <2>4 DEF SnapshotInv
<1> QED
  BY <1>4, <1>7, <1>8

LEMMA SameFilesInv ==
  ASSUME FilesInv, UNCHANGED filesVars
  PROVE  FilesInv'
BY DEF filesVars, FilesInv, Owned, Held

LEMMA WorkInv ==
  ASSUME SnapshotInv,
         \/ workOnFiles \/ workInMemory
         \/ \E n \in ImageNames : primitiveBeSnapshotFile(n)
  PROVE  SnapshotInv'
<1>1. mode = "running" /\ mode' = mode /\ FilesInv /\ fd' = fd /\ saved' = saved
  BY DEF workOnFiles, workInMemory, primitiveBeSnapshotFile, snapshotVars, SnapshotInv
<1>2. SameEntries(fs, fs') /\ FilesInv'
  <2>1. CASE workOnFiles
    <3>1. FileOperation
      BY <2>1 DEF workOnFiles
    <3> QED
      BY <3>1, <1>1, NextInv, OperationKeeps
  <2>2. CASE UNCHANGED filesVars
    <3>1. fs' = fs
      BY <2>2 DEF filesVars
    <3> QED
      BY <3>1, <2>2, <1>1, SameFilesInv DEF SameEntries
  <2> QED
    BY <2>1, <2>2 DEF workInMemory, primitiveBeSnapshotFile
<1>3. \A n \in ImageNames : OnCard(n)'
  BY <1>1, <1>2, CardStays
<1>4. Image(ObjectsIn(om))'
  <2>1. CASE om' = om
    BY <2>1, <1>1 DEF SnapshotInv
  <2>2. CASE workInMemory
    <3>1. Image(ObjectsIn(om'))
      BY <2>2, MemoriesOK DEF workInMemory, Image
    <3> QED
      BY <3>1
  <2> QED
    BY <2>1, <2>2 DEF workOnFiles, primitiveBeSnapshotFile, snapshotVars
<1>5. SnapshotTypes'
  <2>1. imageName' \in ImageNames
    BY DEF workOnFiles, workInMemory, primitiveBeSnapshotFile, snapshotVars, SnapshotInv, SnapshotTypes
  <2> QED
    BY <2>1, <1>1 DEF SnapshotInv, SnapshotTypes
<1> QED
  BY <1>1, <1>2, <1>3, <1>4, <1>5 DEF SnapshotInv

(* No handle is open any more.                                               *)
LEMMA AllClosed ==
  ASSUME Sound(fs'), Open(fs') = {}, FieldTypes, NoDescriptors
  PROVE  FilesInv'
<1>1. descriptor' = [f \in PosixFiles |-> NilPointer] /\ fileName' = fileName
  BY DEF NoDescriptors
<1>2. Owned'
  BY <1>1 DEF Owned, Held
<1> QED
  BY <1>1, <1>2 DEF FilesInv, FieldTypes

LEMMA OffInv ==
  ASSUME SnapshotInv, quit \/ powerFails
  PROVE  SnapshotInv'
<1>1. mode' = "off" /\ fd' = NoHandle /\ imageName' = imageName /\ saved' = saved
  BY DEF quit, powerFails, Off
<1>2. Sound(fs) /\ FieldTypes
  BY DEF SnapshotInv, FilesInv, Saving, FieldTypes
<1>3. SameEntries(fs, fs') /\ FilesInv'
  <2>1. CASE quit
    <3>1. quitFiles /\ FilesInv
      BY <2>1 DEF quit, SnapshotInv
    <3> QED
      BY <3>1, QuitInv, EndKeeps
  <2>2. CASE powerFails
    <3>1. fs' = powerLoss(fs) /\ NoDescriptors
      BY <2>2 DEF powerFails, loseFiles
    <3>2. Sound(fs') /\ Open(fs') = {} /\ fs'.card = fs.card
      BY <3>1, <1>2, PowerLost, CardAlone DEF Sound
    <3> QED
      BY <3>1, <3>2, <1>2, AllClosed, NoEntry
  <2> QED
    BY <2>1, <2>2
<1>4. \A n \in ImageNames : OnCard(n)'
  BY <1>1, <1>3, CardStays
<1>5. SnapshotTypes'
  BY <1>1 DEF SnapshotInv, SnapshotTypes
<1> QED
  BY <1>1, <1>3, <1>4, <1>5 DEF SnapshotInv

(* The file that create_file leaves, with a handle or without.               *)
LEMMA CreatedIs ==
  ASSUME FilesInv, NEW n \in ImageNames, NEW created, created = create_file(fs, n)
  PROVE  /\ Sound(created.fs) /\ created.fs.card = [fs.card EXCEPT ![n] = <<>>]
         /\ \A h \in Open(fs) : created.fs.fdtofil[h] = fs.fdtofil[h]
         /\ created.fd = NoHandle => StaysOpen(fs, created.fs)
         /\ created.fd # NoHandle =>
              /\ created.fd \in Handles \ Open(fs)
              /\ Open(created.fs) = Open(fs) \cup {created.fd}
              /\ created.fs.fdtofil[created.fd] = [name |-> n, pos |-> 0, data |-> <<>>]
<1>1. PICK c, s : c = <<>> /\ s = WithEntry(fs, n, c)
  OBVIOUS
<1>2. n \in Names /\ ~IsOpen(fs, n) /\ Sound(fs) /\ fs \in FileSystems
  BY NotOpenYet DEF FilesInv, Sound
<1>3. c \in Seq(Cells) /\ c \in Seq(Cells) \cup {NoFile} /\ pagesAt(c) = 0 /\ c # NoFile
  <2>1. c \in Seq(Cells)
    BY <1>1
  <2>2. PagesOf(c) = 0 /\ c # NoFile
    BY <2>1, <1>1, PagesOfIs, FilesConstantsOK
  <2> QED
    BY <2>1, <2>2 DEF pagesAt
<1>4. weight(fs, n) \in Nat /\ FreePages(fs) \in Nat
  BY <1>2, LiveIs, FreePagesInt DEF Sound
<1>5. created = Handle(s, n, c)
  BY <1>1, Zenon DEF create_file, WithEntry
<1>6. pagesAt(c) - weight(fs, n) <= FreePages(fs)
  BY <1>3, <1>4
<1>7. /\ Sound(s) /\ s.fdtofil = fs.fdtofil /\ s.card = [fs.card EXCEPT ![n] = c]
      /\ Open(s) = Open(fs)
  <2>1. n \in Names /\ ~IsOpen(fs, n) /\ Sound(fs) /\ c \in Seq(Cells) \cup {NoFile}
    BY <1>2, <1>3, Zenon
  <2>2. /\ Sound(WithEntry(fs, n, c)) /\ WithEntry(fs, n, c).fdtofil = fs.fdtofil
        /\ WithEntry(fs, n, c).card = [fs.card EXCEPT ![n] = c]
        /\ Open(WithEntry(fs, n, c)) = Open(fs)
    BY <2>1, <1>6, EntryChanges
  <2> QED
    BY <2>2, <1>1, Zenon
<1>8. s.card[n] = c /\ ~IsOpen(s, n)
  BY <1>2, <1>7 DEF FileSystems, IsOpen
<1>9. created = Handle(s, n, s.card[n]) /\ s.card[n] # NoFile
  BY <1>3, <1>5, <1>8
<1>10. /\ Sound(created.fs)
       /\ created.fs.card = s.card
       /\ created.fd \in (Handles \ Open(s)) \cup {NoHandle}
       /\ created.fd = NoHandle => Open(s) = Handles /\ created.fs.fdtofil = s.fdtofil
       /\ created.fd # NoHandle => /\ Open(created.fs) = Open(s) \cup {created.fd}
                                   /\ created.fs.fdtofil[created.fd] = Fresh(s, n)
       /\ \A h \in Open(s) : created.fs.fdtofil[h] = s.fdtofil[h]
  <2>1. PICK r : r = Handle(s, n, s.card[n])
    OBVIOUS
  <2>2. /\ Sound(r.fs)
        /\ r.fs.card = s.card
        /\ r.fd \in (Handles \ Open(s)) \cup {NoHandle}
        /\ r.fd = NoHandle => Open(s) = Handles /\ r.fs.fdtofil = s.fdtofil
        /\ r.fd # NoHandle => /\ Open(r.fs) = Open(s) \cup {r.fd}
                              /\ r.fs.fdtofil[r.fd] = Fresh(s, n)
        /\ \A h \in Open(s) : r.fs.fdtofil[h] = s.fdtofil[h]
    <3>1. Sound(s) /\ n \in Names /\ ~IsOpen(s, n) /\ s.card[n] # NoFile
      BY <1>2, <1>7, <1>8, <1>9
    <3> QED
      BY <2>1, <3>1, Handled
  <2>3. created = r
    BY <2>1, <1>9
  <2> QED
    BY <2>2, <2>3, Zenon
<1>11. created.fd # NoHandle =>
         /\ created.fd \in Handles \ Open(fs)
         /\ Open(created.fs) = Open(fs) \cup {created.fd}
         /\ created.fs.fdtofil[created.fd] = [name |-> n, pos |-> 0, data |-> <<>>]
  BY <1>1, <1>7, <1>8, <1>10 DEF Fresh
<1>12. created.fd = NoHandle => StaysOpen(fs, created.fs)
  BY <1>7, <1>10 DEF StaysOpen, Open
<1> QED
  BY <1>1, <1>7, <1>10, <1>11, <1>12

LEMMA SaveSnapshotInv ==
  ASSUME SnapshotInv, saveSnapshot
  PROVE  SnapshotInv'
<1>1. PICK created : created = create_file(fs, imageName)
  OBVIOUS
<1>2. /\ mode = "running" /\ fs' = created.fs /\ saved' = [saved EXCEPT ![imageName] = NoFile]
      /\ UNCHANGED <<fileName, descriptor, om, imageName>>
      /\ created.fd = NoHandle => mode' = mode /\ fd' = fd /\ writes' = writes
      /\ created.fd # NoHandle => /\ mode' = "saving" /\ fd' = created.fd
                                  /\ writes' = saveObjects(om)
  BY <1>1 DEF saveSnapshot
<1>3. FilesInv /\ imageName \in ImageNames /\ Image(ObjectsIn(om)) /\ fs \in FileSystems
  BY <1>2 DEF SnapshotInv, SnapshotTypes, FilesInv, Sound
<1>4. /\ Sound(fs') /\ fs'.card = [fs.card EXCEPT ![imageName] = <<>>]
      /\ \A h \in Open(fs) : fs'.fdtofil[h] = fs.fdtofil[h]
      /\ created.fd = NoHandle => StaysOpen(fs, fs')
      /\ created.fd # NoHandle =>
           /\ created.fd \in Handles \ Open(fs)
           /\ Open(fs') = Open(fs) \cup {created.fd}
           /\ fs'.fdtofil[created.fd] = [name |-> imageName, pos |-> 0, data |-> <<>>]
  BY <1>1, <1>2, <1>3, CreatedIs
<1>5. /\ saved' = [n \in ImageNames |-> saved'[n]]
      /\ saved'[imageName] = NoFile
      /\ \A x \in ImageNames \ {imageName} : saved'[x] = saved[x]
  <2>1. saved = [n \in ImageNames |-> saved[n]]
    BY DEF SnapshotInv, SnapshotTypes
  <2> QED
    BY <2>1, <1>2, <1>3
<1>6. \A n \in ImageNames : OnCard(n)'
  <2>1. PICK data : data = <<>> /\ fs'.card = [fs.card EXCEPT ![imageName] = data]
    BY <1>4
  <2>2. Harmless(data)
    BY <2>1, NoneHarmless
  <2> QED
    BY <2>1, <2>2, <1>3, <1>5, CardOne
<1>7. Image(ObjectsIn(om))'
  BY <1>2, <1>3
<1>8. CASE created.fd = NoHandle
  <2>1. FilesInv'
    BY <1>2, <1>3, <1>4, <1>8, SameHandles
  <2>2. SnapshotTypes' /\ mode' = "running"
    BY <1>2, <1>5, <1>8 DEF SnapshotInv, SnapshotTypes
  <2> QED
    BY <2>1, <2>2, <1>6, <1>7 DEF SnapshotInv
<1>9. CASE created.fd # NoHandle
  <2>1. PICK k : k = created.fd
    OBVIOUS
  <2>2. /\ mode' = "saving" /\ fd' = k /\ writes' = saveObjects(om)
        /\ k \in Handles \ Open(fs) /\ Open(fs') = Open(fs) \cup {k}
        /\ fs'.fdtofil[k] = [name |-> imageName, pos |-> 0, data |-> <<>>]
    BY <2>1, <1>2, <1>4, <1>9
  <2>3. HandlesBut(fd)'
    BY <2>2, <1>2, <1>3, <1>4 DEF HandlesBut, FilesInv, Owned, Held
  <2>4. fs'.card[imageName] = <<>>
    BY <1>3, <1>4, ImageNamesAre DEF FileSystems
  <2>5. Appending(fs'.fdtofil[k], om, writes')
    <3>1. PICK none, fil, all : none = <<>> /\ fil = fs'.fdtofil[k] /\ all = imageWrites(om)
      OBVIOUS
    <3>2. none \in Seq(WriteRecords) /\ all \in Seq(WriteRecords) /\ Len(none) = 0
      BY <3>1, <1>3, ImageIs DEF Image
    <3>3. none \o all = all
      BY <3>1, <3>2
    <3>4. fil.data = CellsOf(none) /\ fil.pos = Len(fil.data)
      BY <3>1, <3>2, <2>2, CellsOfNone
    <3>5. writes' = all \o headerWrites(om)
      BY <3>1, <2>2 DEF saveObjects
    <3> QED
      BY <3>1, <3>2, <3>3, <3>4, <3>5, Zenon DEF Appending
  <2>6. Writing(fs'.fdtofil[fd'], om', writes')
    BY <2>2, <2>5, <1>2 DEF Writing
  <2>7. FieldTypes'
    BY <1>2, <1>3 DEF FilesInv, FieldTypes
  <2>8. Saving'
    BY <2>2, <2>3, <2>4, <2>6, <2>7, <1>2, <1>4, <1>5 DEF Saving
  <2>9. SnapshotTypes'
    BY <2>2, <1>2, <1>3, <1>5 DEF SnapshotTypes
  <2> QED
    BY <2>2, <2>8, <2>9, <1>6, <1>7 DEF SnapshotInv
<1> QED
  BY <1>8, <1>9

(* The handle of the save is closed again.                                   *)
LEMMA EndSaveInv ==
  ASSUME Saving, NEW t, StaysOpen(fs, t), t.card = fs.card,
         fs' = close_file(t, fd), UNCHANGED <<fileName, descriptor>>
  PROVE  FilesInv' /\ fs'.card = [fs.card EXCEPT ![imageName] = t.fdtofil[fd].data]
<1>1. /\ Sound(t) /\ Open(t) = Open(fs) /\ fd \in Open(t) /\ t.fdtofil[fd].name = imageName
      /\ \A h \in Open(fs) : t.fdtofil[h].name = fs.fdtofil[h].name
  BY DEF Saving, StaysOpen
<1>2. fs' = f_close(t, fd)
  BY <1>1 DEF close_file, Open
<1>3. /\ Sound(fs') /\ Open(fs') = Open(fs) \ {fd}
      /\ \A g \in Open(fs') : fs'.fdtofil[g] = t.fdtofil[g]
      /\ fs'.card = [t.card EXCEPT ![t.fdtofil[fd].name] = t.fdtofil[fd].data]
  BY <1>1, <1>2, Closed
<1>4. fs'.card = [fs.card EXCEPT ![imageName] = t.fdtofil[fd].data]
  BY <1>1, <1>3
<1>5. Owned'
  BY <1>1, <1>3 DEF Saving, HandlesBut, Owned, Held
<1> QED
  BY <1>3, <1>4, <1>5 DEF FilesInv, Saving, FieldTypes

LEMMA SaveWriteInv ==
  ASSUME SnapshotInv, saveWrite
  PROVE  SnapshotInv'
<1>1. PICK w, done : /\ w = Head(writes)
                     /\ done = write(IF w.at = NoHandle THEN fs ELSE seek_to(fs, fd, w.at), fd, w.cells)
  OBVIOUS
<1>2. /\ mode = "saving" /\ writes # <<>> /\ saved' = saved
      /\ UNCHANGED <<fileName, descriptor, om, imageName>>
      /\ w.checked /\ done.written # Len(w.cells) => EndSave(done.fs)
      /\ ~(w.checked /\ done.written # Len(w.cells)) =>
           /\ fs' = done.fs /\ writes' = Tail(writes) /\ mode' = mode /\ fd' = fd
  BY <1>1 DEF saveWrite
<1>3. Saving /\ SnapshotTypes /\ Image(ObjectsIn(om)) /\ fs \in FileSystems
  BY <1>2 DEF SnapshotInv, Saving, Sound
<1>4. /\ StaysOpen(fs, done.fs) /\ done.fs.card = fs.card
      /\ w.checked /\ done.written # Len(w.cells) => Harmless(done.fs.fdtofil[fd].data)
      /\ ~(w.checked /\ done.written # Len(w.cells)) =>
           Writing(done.fs.fdtofil[fd], om, Tail(writes))
  <2>1. Sound(fs) /\ fd \in Open(fs) /\ Writing(fs.fdtofil[fd], om, writes) /\ IsImage(ObjectsIn(om))
    BY <1>3 DEF Saving, Image
  <2> QED
    BY <2>1, <1>1, <1>2, WriteStep
<1>5. Image(ObjectsIn(om))'
  BY <1>2, <1>3
<1>6. CASE w.checked /\ done.written # Len(w.cells)
  <2>1. fs' = close_file(done.fs, fd) /\ mode' = "running" /\ fd' = NoHandle
    BY <1>2, <1>6 DEF EndSave
  <2>2. FilesInv' /\ fs'.card = [fs.card EXCEPT ![imageName] = done.fs.fdtofil[fd].data]
    BY <2>1, <1>2, <1>3, <1>4, EndSaveInv
  <2>3. \A n \in ImageNames : OnCard(n)'
    <3>1. saved'[imageName] = NoFile /\ imageName \in ImageNames
      BY <1>2, <1>3 DEF Saving, SnapshotTypes
    <3>2. PICK data : data = done.fs.fdtofil[fd].data
      OBVIOUS
    <3>3. Harmless(data) /\ fs'.card = [fs.card EXCEPT ![imageName] = data]
      BY <3>2, <2>2, <1>4, <1>6
    <3> QED
      BY <3>1, <3>3, <1>2, <1>3, CardOne
  <2>4. SnapshotTypes'
    BY <2>1, <1>2, <1>3 DEF SnapshotTypes
  <2> QED
    BY <2>1, <2>2, <2>3, <2>4, <1>5 DEF SnapshotInv
<1>7. CASE ~(w.checked /\ done.written # Len(w.cells))
  <2>1. fs' = done.fs /\ writes' = Tail(writes) /\ mode' = mode /\ fd' = fd
    BY <1>2, <1>7
  <2>2. HandlesBut(fd)'
    BY <2>1, <1>2, <1>3, <1>4 DEF Saving, HandlesBut, Held, StaysOpen
  <2>3. Saving'
    BY <2>1, <2>2, <1>2, <1>3, <1>4, <1>7 DEF Saving, StaysOpen, FieldTypes
  <2>4. \A n \in ImageNames : OnCard(n)'
    BY <2>1, <1>2, <1>4, CardStays, NoEntry
  <2>5. SnapshotTypes'
    BY <2>1, <1>2, <1>3 DEF SnapshotTypes
  <2> QED
    BY <2>1, <2>3, <2>4, <2>5, <1>2, <1>5 DEF SnapshotInv
<1> QED
  BY <1>6, <1>7

LEMMA SaveSucceedsInv ==
  ASSUME SnapshotInv, saveSucceeds
  PROVE  SnapshotInv'
<1>1. /\ mode = "saving" /\ writes = <<>> /\ saved' = [saved EXCEPT ![imageName] = ObjectsIn(om)]
      /\ fs' = close_file(fs, fd) /\ mode' = "running" /\ fd' = NoHandle
      /\ UNCHANGED <<fileName, descriptor, om, imageName>>
  BY DEF saveSucceeds, EndSave
<1>2. Saving /\ SnapshotTypes /\ Image(ObjectsIn(om)) /\ fs \in FileSystems
  BY <1>1 DEF SnapshotInv, Saving, Sound
<1>3. FilesInv' /\ fs'.card = [fs.card EXCEPT ![imageName] = fs.fdtofil[fd].data]
  <2>1. StaysOpen(fs, fs)
    BY <1>2 DEF Saving, StaysOpen
  <2> QED
    BY <2>1, <1>1, <1>2, EndSaveInv
<1>4. fs.fdtofil[fd].data = FileOf(om)
  <2>1. Writing(fs.fdtofil[fd], om, <<>>)
    BY <1>1, <1>2 DEF Saving
  <2>2. ~Appending(fs.fdtofil[fd], om, <<>>)
    <3> SUFFICES ASSUME NEW rest \in Seq(WriteRecords), <<>> = rest \o headerWrites(om)
                 PROVE  FALSE
      BY DEF Appending
    <3>1. PICK one, two : headerWrites(om) = <<one, two>>
      BY DEF headerWrites
    <3>2. PICK S, pair : S = WriteRecords \cup {one, two} /\ pair = <<one, two>>
      OBVIOUS
    <3>3. rest \in Seq(S) /\ pair \in Seq(S) /\ Len(pair) = 2
      BY <3>2
    <3>4. Len(rest \o pair) = Len(rest) + 2 /\ Len(rest) \in Nat
      <4>1. JoinIs(S, rest, pair)
        BY AllJoinIs, Zenon
      <4>2. Len(rest \o pair) = Len(rest) + Len(pair)
        BY <4>1, <3>3, Zenon DEF JoinIs
      <4> QED
        BY <4>2, <3>3
    <3> QED
      BY <3>1, <3>2, <3>4
  <2>3. ~EndingHeader(fs.fdtofil[fd], om, <<>>)
    BY DEF EndingHeader
  <2> QED
    BY <2>1, <2>2, <2>3 DEF Writing, Complete
<1>5. IsFileOf(FileOf(om), ObjectsIn(om)) /\ ObjectsIn(om) # NoFile
  BY <1>2, ImageOnFile DEF Image, IsImage
<1>6. /\ saved' = [n \in ImageNames |-> saved'[n]]
      /\ saved'[imageName] = ObjectsIn(om) /\ imageName \in ImageNames
      /\ \A x \in ImageNames \ {imageName} : saved'[x] = saved[x]
  <2>1. saved = [n \in ImageNames |-> saved[n]] /\ imageName \in ImageNames
    BY <1>2 DEF SnapshotTypes
  <2> QED
    BY <2>1, <1>1
<1>7. \A n \in ImageNames : OnCard(n)'
  BY <1>2, <1>3, <1>4, <1>5, <1>6, CardOne
<1>8. SnapshotTypes'
  BY <1>1, <1>6 DEF SnapshotTypes
<1>9. Image(ObjectsIn(om))'
  BY <1>1, <1>2
<1> QED
  BY <1>1, <1>3, <1>7, <1>8, <1>9 DEF SnapshotInv

LEMMA SnapshotNextInv ==
  ASSUME SnapshotInv, [Next]_vars
  PROVE  SnapshotInv'
<1>1. CASE UNCHANGED vars
  BY <1>1 DEF vars, filesVars, snapshotVars, SnapshotInv, SnapshotTypes, OnCard, FilesInv, Owned, Held,
              Saving, FieldTypes, HandlesBut
<1>2. CASE Next
  BY <1>1, <1>2, BootInv, WorkInv, OffInv, SaveSnapshotInv, SaveWriteInv, SaveSucceedsInv
     DEF Next
<1> QED
  BY <1>1, <1>2

----------------------------------------------------------------------------
(* LoadTilesHeap: what a load leaves in a segment.                           *)

(* What a segment is tiled with, without the local definitions.              *)
SpaceIn(l, o) == IF o \in l.chunks THEN sizeOf(l.m, o)
                 ELSE spaceFor(sizeOf(l.m, o), l.m.ot[o].pointer)
ExtentIn(l, o) == l.m.ot[o].location..(l.m.ot[o].location + SpaceIn(l, o) - 1)
InSegment(l, s) == {q \in Oops : ~l.m.ot[q].free /\ l.m.ot[q].segment = s}
TiledBy(extents) ==
  /\ \A o, q \in DOMAIN extents : o # q => extents[o] \cap extents[q] = {}
  /\ \A o \in DOMAIN extents : extents[o] \subseteq 0..HeapSpaceStop
  /\ Cardinality((0..HeapSpaceStop) \ UNION {extents[o] : o \in DOMAIN extents}) < HeaderSize
TilesSegment(l, s) == TiledBy([o \in InSegment(l, s) |-> ExtentIn(l, o)])

(* Stretches that do not overlap and reach up to some word of the segment,   *)
(* and from there one more or a rest of at most a word.                      *)
LEMMA TilingIs ==
  ASSUME NEW D, NEW extents, DOMAIN extents = D, NEW first, NEW end, NEW used \in Nat,
         \A o \in D : /\ first[o] \in Nat /\ end[o] \in Nat /\ end[o] <= SegmentHeapSpaceSize
                      /\ extents[o] = first[o]..(end[o] - 1),
         \A o, q \in D : o # q => end[o] <= first[q] \/ end[q] <= first[o],
         \A w \in 0..HeapSpaceStop : w < used => \E o \in D : first[o] <= w /\ w < end[o],
         \/ \E o \in D : first[o] = used /\ end[o] = SegmentHeapSpaceSize
         \/ SegmentHeapSpaceSize - used < 2
  PROVE  TiledBy(extents)
<1>1. SegmentHeapSpaceSize = HeapSpaceStop + 1 /\ HeapSpaceStop \in Nat
  BY SnapshotConstantsOK DEF SegmentHeapSpaceSize
<1>2. \A o \in D : extents[o] \subseteq 0..HeapSpaceStop
  BY <1>1
<1>3. ASSUME NEW o \in D, NEW q \in D, o # q PROVE extents[o] \cap extents[q] = {}
  BY <1>3, SMTT(30)
<1>4. PICK rest : rest = (0..HeapSpaceStop) \ UNION {extents[o] : o \in D}
  OBVIOUS
<1>5. ASSUME NEW w \in rest PROVE w = HeapSpaceStop
  <2>1. w \in 0..HeapSpaceStop /\ \A o \in D : w \notin extents[o]
    BY <1>4
  <2>2. \A o \in D : ~(first[o] <= w /\ w < end[o])
    BY <2>1
  <2>3. w >= used
    BY <2>1, <2>2, <1>1
  <2>4. SegmentHeapSpaceSize - used < 2
    <3>1. CASE \E o \in D : first[o] = used /\ end[o] = SegmentHeapSpaceSize
      BY <3>1, <2>1, <2>2, <2>3, <1>1
    <3> QED
      BY <3>1
  <2> QED
    BY <2>1, <2>3, <2>4, <1>1
<1>6. Cardinality(rest) < 2
  <2>1. rest \subseteq {HeapSpaceStop}
    BY <1>5
  <2>2. Cardinality(rest) <= Cardinality({HeapSpaceStop}) /\ Cardinality(rest) \in Nat
    BY <2>1, FS_Singleton, FS_Subset, FS_CardinalityType
  <2>3. Cardinality({HeapSpaceStop}) = 1
    BY FS_Singleton
  <2> QED
    BY <2>2, <2>3
<1>7. DOMAIN extents = D
  OBVIOUS
<1> QED
  BY <1>2, <1>3, <1>4, <1>6, <1>7, Zenon DEF TiledBy, HeaderSize

(* The words of a segment up to the last that is used are in its objects.    *)
ReachedBy(space, places, s, used) ==
  used = 0 \/ \E o \in DOMAIN space : places[o].segment = s /\ places[o].word + space[o] = used

LEMMA NoGap ==
  ASSUME NEW space, Spaces(space), NEW places, WellPlaced(space, places),
         NEW s, NEW used \in Nat, ReachedBy(space, places, s, used),
         NEW w \in Nat, w < used
  PROVE  \E o \in DOMAIN space : /\ places[o].segment = s
                                 /\ places[o].word <= w /\ w < places[o].word + space[o]
<1>1. PICK S : S = {o \in DOMAIN space : places[o].segment = s /\ w < places[o].word + space[o]}
  OBVIOUS
<1>2. S \in SUBSET Nat /\ S # {}
  <2>1. DOMAIN space \subseteq Nat
    BY OopsAre DEF Spaces
  <2>2. PICK o \in DOMAIN space : places[o].segment = s /\ places[o].word + space[o] = used
    BY DEF ReachedBy
  <2>3. o \in S
    BY <2>2, <1>1
  <2> QED
    BY <2>1, <2>3, <1>1
<1>3. PICK o \in S : \A q \in S : o <= q
  BY <1>2, HasLeast
<1>4. /\ o \in DOMAIN space /\ places[o].segment = s /\ w < places[o].word + space[o]
      /\ places[o].word \in Nat /\ o \in Nat
      /\ places[o].word = 0 \/ \E q \in DOMAIN space : q < o /\ EndsAt(places[q], space[q], places[o])
  <2>1. o \in DOMAIN space /\ places[o].segment = s /\ w < places[o].word + space[o]
    BY <1>1
  <2>2. places[o] \in Positions
    BY <2>1 DEF WellPlaced
  <2>3. places[o].word = 0 \/ \E q \in DOMAIN space : q < o /\ EndsAt(places[q], space[q], places[o])
    BY <2>1 DEF WellPlaced
  <2> QED
    BY <2>1, <2>2, <2>3, <1>2 DEF Positions
<1>5. places[o].word <= w
  <2> SUFFICES ASSUME ~(places[o].word <= w) PROVE FALSE
    OBVIOUS
  <2>1. PICK q \in DOMAIN space : q < o /\ EndsAt(places[q], space[q], places[o])
    BY <1>4
  <2>2. places[q].segment = s /\ places[q].word + space[q] = places[o].word
    BY <2>1, <1>4 DEF EndsAt
  <2>3. q \in S
    BY <2>2, <1>1, <1>4
  <2>4. o <= q /\ q \in Nat
    BY <2>3, <1>2, <1>3
  <2> QED
    BY <2>1, <2>4, <1>4
<1> QED
  BY <1>4, <1>5

LEMMA LoadTiles ==
  ASSUME NEW objects, NEW data, NEW l, NEW table, NEW places, NEW extents, NEW chunks,
         IsFileOf(data, objects), IsImage(objects), FitsInHeap(objects),
         Loads(data, objects, table, places, extents, chunks), Holds(l, objects, places, chunks),
         NEW s \in AllSegments
  PROVE  TilesSegment(l, s)
<1>1. PICK D, space, used : /\ D = InSegment(l, s) /\ space = spacesOf(objects)
                            /\ used = usedWords(extents, s)
  OBVIOUS
<1>2. /\ DOMAIN objects \subseteq Oops /\ WellPlaced(space, places) /\ Extents(extents)
      /\ PlacedObjects(data, objects, places, extents)
      /\ ChunksAre(extents, Oops \ DOMAIN objects, chunks)
  BY <1>1 DEF Loads
<1>3. /\ Spaces(space) /\ DOMAIN space = DOMAIN objects
      /\ \A o \in DOMAIN objects :
           /\ space[o] = spaceFor(Len(objects[o].words), objects[o].pointer)
           /\ space[o] \in Nat /\ space[o] >= 1
  BY <1>1, <1>2, SpacesOfImage DEF Spaces
<1>4. /\ used \in 0..SegmentHeapSpaceSize /\ wordsLeft(extents, s) = SegmentHeapSpaceSize - used
      /\ used = 0 \/ used \in endsIn(extents, s)
      /\ \A e \in endsIn(extents, s) : e \in Nat /\ e <= used
  BY <1>1, <1>2, UsedWords DEF wordsLeft
<1>5. SegmentHeapSpaceSize \in Nat /\ used \in Nat
  BY <1>4, SegmentSize
(* An object of the image. *)
<1>6. ASSUME NEW o \in DOMAIN objects
      PROVE  /\ o \in Oops /\ o \notin l.chunks /\ l.m.ot[o].free = FALSE
             /\ l.m.ot[o].segment = places[o].segment
             /\ l.m.ot[o].location = places[o].word
             /\ SpaceIn(l, o) = space[o]
             /\ places[o].word \in Nat /\ places[o].word + space[o] <= SegmentHeapSpaceSize
             /\ places[o].segment = s => places[o].word + space[o] <= used
  <2>1. o \in Oops /\ o \notin l.chunks
    BY <1>2 DEF Holds, ChunksAre
  <2>2. ObjectAt(l, o, objects, places)
    BY DEF Holds
  <2>3. objects[o].words[1] = Len(objects[o].words)
    BY DEF IsFileOf
  <2>4. /\ sizeOf(l.m, o) = Len(objects[o].words)
        /\ l.m.ot[o].pointer = objects[o].pointer
    BY <2>2, <2>3, LoadedObject, Zenon
  <2>5. SpaceIn(l, o) = space[o]
    BY <2>1, <2>4, <1>3, Zenon DEF SpaceIn
  <2>6. l.m.ot[o].free = FALSE /\ l.m.ot[o].segment = places[o].segment
        /\ l.m.ot[o].location = places[o].word
    BY <2>2 DEF ObjectAt
  <2>7. places[o] \in Positions /\ places[o].word + space[o] <= SegmentHeapSpaceSize
    BY <1>2, <1>3 DEF WellPlaced
  <2>8. ASSUME places[o].segment = s PROVE places[o].word + space[o] <= used
    <3>1. PICK x \in extents : x.oop = o
      BY <1>2 DEF PlacedObjects
    <3>2. x.segment = s /\ x.location = places[o].word /\ x.space = space[o]
      BY <3>1, <2>8, <1>1, <1>2 DEF PlacedObjects, PlacedObject
    <3>3. places[o].word + space[o] \in endsIn(extents, s)
      BY <3>2 DEF endsIn
    <3> QED
      BY <3>3, <1>4
  <2> QED
    BY <2>1, <2>5, <2>6, <2>7, <2>8 DEF Positions
(* A free chunk. *)
<1>7. ASSUME NEW c \in chunks
      PROVE  /\ c.oop \in Oops \ DOMAIN objects /\ c.oop \in l.chunks
             /\ l.m.ot[c.oop].free # TRUE /\ l.m.ot[c.oop].segment = c.segment
             /\ l.m.ot[c.oop].location = c.location /\ SpaceIn(l, c.oop) = c.size
             /\ c.segment = s => c.location = used /\ c.size = SegmentHeapSpaceSize - used
  <2>1. c.oop \in Oops \ DOMAIN objects /\ c.oop \in l.chunks
    BY <1>2 DEF Holds, ChunksAre
  <2>2. ChunkAt(l, c)
    BY DEF Holds
  <2>3. SpaceIn(l, c.oop) = c.size
    BY <2>1, <2>2, Zenon DEF SpaceIn, ChunkAt
  <2>4. c.location = usedWords(extents, c.segment) /\ c.size = wordsLeft(extents, c.segment)
    BY <1>2 DEF ChunksAre
  <2>5. c.segment = s => c.location = used /\ c.size = SegmentHeapSpaceSize - used
    BY <2>4, <1>1, <1>4
  <2> QED
    BY <2>1, <2>2, <2>3, <2>5 DEF ChunkAt
<1>8. ASSUME NEW o \in D
      PROVE  \/ o \in DOMAIN objects /\ places[o].segment = s
             \/ o \notin DOMAIN objects /\ \E c \in chunks : c.oop = o /\ c.segment = s
  <2>1. o \in Oops /\ ~l.m.ot[o].free /\ l.m.ot[o].segment = s
    BY <1>1 DEF InSegment
  <2>2. CASE o \in DOMAIN objects
    BY <2>1, <2>2, <1>6
  <2>3. CASE o \notin DOMAIN objects
    <3>1. o \in l.chunks
      BY <2>1, <2>3 DEF Holds
    <3>2. PICK c \in chunks : c.oop = o
      BY <3>1 DEF Holds
    <3> QED
      BY <2>1, <2>3, <3>2, <1>7
  <2> QED
    BY <2>2, <2>3
<1>9. PICK first, end, tiles :
        /\ first = [o \in D |-> l.m.ot[o].location]
        /\ end = [o \in D |-> l.m.ot[o].location + SpaceIn(l, o)]
        /\ tiles = [o \in D |-> ExtentIn(l, o)]
  OBVIOUS
<1>10. ASSUME NEW o \in D
       PROVE  /\ first[o] \in Nat /\ end[o] \in Nat /\ end[o] <= SegmentHeapSpaceSize
              /\ tiles[o] = first[o]..(end[o] - 1)
              /\ o \in DOMAIN objects =>
                   /\ places[o].segment = s
                   /\ first[o] = places[o].word /\ end[o] = places[o].word + space[o]
                   /\ end[o] <= used
              /\ o \notin DOMAIN objects => first[o] = used /\ end[o] = SegmentHeapSpaceSize
  <2>1. /\ first[o] = l.m.ot[o].location /\ end[o] = l.m.ot[o].location + SpaceIn(l, o)
        /\ tiles[o] = l.m.ot[o].location..(l.m.ot[o].location + SpaceIn(l, o) - 1)
    BY <1>9 DEF ExtentIn
  <2>2. ASSUME l.m.ot[o].location \in Nat, SpaceIn(l, o) \in Nat
        PROVE  tiles[o] = first[o]..(end[o] - 1)
    <3>1. PICK a, b : a = l.m.ot[o].location /\ b = SpaceIn(l, o)
      OBVIOUS
    <3>2. tiles[o] = a..(a + b - 1) /\ first[o] = a /\ end[o] = a + b
      BY <2>1, <3>1, Zenon
    <3>3. a + b - 1 = (a + b) - 1
      BY <3>1, <2>2
    <3> QED
      BY <3>2, <3>3, Zenon
  <2>3. CASE o \in DOMAIN objects /\ places[o].segment = s
    <3>1. first[o] = places[o].word /\ end[o] = places[o].word + space[o]
      BY <2>1, <2>3, <1>6
    <3>2. /\ places[o].word \in Nat /\ space[o] \in Nat
          /\ places[o].word + space[o] <= SegmentHeapSpaceSize
          /\ places[o].word + space[o] <= used
      BY <2>3, <1>3, <1>6
    <3>3. first[o] \in Nat /\ end[o] \in Nat /\ end[o] <= SegmentHeapSpaceSize /\ end[o] <= used
      BY <3>1, <3>2
    <3>4. l.m.ot[o].location \in Nat /\ SpaceIn(l, o) \in Nat
      BY <2>3, <3>2, <1>6, Zenon
    <3> QED
      BY <2>2, <2>3, <3>1, <3>3, <3>4, Zenon
  <2>4. CASE o \notin DOMAIN objects /\ \E c \in chunks : c.oop = o /\ c.segment = s
    <3>1. PICK c \in chunks : c.oop = o /\ c.segment = s
      BY <2>4
    <3>2. first[o] = used /\ SpaceIn(l, o) = SegmentHeapSpaceSize - used
      BY <2>1, <3>1, <1>7
    <3>3. end[o] = SegmentHeapSpaceSize
      BY <2>1, <3>2, <1>5
    <3>4. l.m.ot[o].location \in Nat /\ SpaceIn(l, o) \in Nat
      BY <2>1, <3>2, <1>4, <1>5
    <3> QED
      BY <2>2, <2>4, <3>2, <3>3, <3>4, <1>5
  <2> QED
    BY <2>3, <2>4, <1>8
<1>11. ASSUME NEW o \in D, NEW q \in D, o # q
       PROVE  end[o] <= first[q] \/ end[q] <= first[o]
  <2>1. CASE o \in DOMAIN objects /\ q \in DOMAIN objects
    <3>1. /\ places[o].segment = s /\ places[q].segment = s /\ s \in Nat
          /\ o \in Nat /\ q \in Nat
      <4>1. places[o].segment = s /\ places[q].segment = s
        BY <2>1, <1>10
      <4>2. s \in Nat
        BY SegmentSize DEF AllSegments
      <4>3. o \in Nat /\ q \in Nat
        BY <2>1, <1>2, OopsAre
      <4> QED
        BY <4>1, <4>2, <4>3
    <3>2. \A x, y \in DOMAIN space : x < y =>
            \/ places[x].segment < places[y].segment
            \/ /\ places[x].segment = places[y].segment
               /\ places[x].word + space[x] <= places[y].word
      BY <1>2 DEF WellPlaced
    <3>3. \/ places[o].word + space[o] <= places[q].word
          \/ places[q].word + space[q] <= places[o].word
      <4>1. CASE o < q
        BY <4>1, <2>1, <3>1, <3>2, <1>3
      <4>2. CASE q < o
        BY <4>2, <2>1, <3>1, <3>2, <1>3
      <4> QED
        BY <4>1, <4>2, <3>1, <1>11
    <3> QED
      BY <2>1, <3>3, <1>10
  <2>2. CASE o \in DOMAIN objects /\ q \notin DOMAIN objects
    BY <2>2, <1>10
  <2>3. CASE o \notin DOMAIN objects /\ q \in DOMAIN objects
    BY <2>3, <1>10
  <2>4. CASE o \notin DOMAIN objects /\ q \notin DOMAIN objects
    <3>1. PICK c \in chunks, d \in chunks :
            c.oop = o /\ c.segment = s /\ d.oop = q /\ d.segment = s
      BY <2>4, <1>8
    <3>2. c = d
      BY <3>1, <1>2 DEF ChunksAre
    <3> QED
      BY <3>1, <3>2, <1>11
  <2> QED
    BY <2>1, <2>2, <2>3, <2>4
<1>12. ASSUME NEW w \in 0..HeapSpaceStop, w < used
       PROVE  \E o \in D : first[o] <= w /\ w < end[o]
  <2>1. w \in Nat
    OBVIOUS
  <2>2. ReachedBy(space, places, s, used)
    <3>1. CASE used \in endsIn(extents, s)
      <4>1. PICK x \in extents : x.segment = s /\ x.location + x.space = used
        BY <3>1 DEF endsIn
      <4>2. /\ x.oop \in DOMAIN objects /\ x.segment = places[x.oop].segment
            /\ x.location = places[x.oop].word /\ x.space = space[x.oop]
        BY <1>1, <1>2 DEF PlacedObjects, PlacedObject
      <4>3. x.oop \in DOMAIN space
        BY <4>2, <1>3
      <4> QED
        BY <4>1, <4>2, <4>3 DEF ReachedBy
    <3> QED
      BY <3>1, <1>4 DEF ReachedBy
  <2>3. PICK o \in DOMAIN space : /\ places[o].segment = s
                                  /\ places[o].word <= w /\ w < places[o].word + space[o]
    BY <2>1, <2>2, <1>2, <1>3, <1>5, <1>12, NoGap
  <2>4. o \in D /\ o \in DOMAIN objects
    BY <2>3, <1>1, <1>3, <1>6 DEF InSegment
  <2> QED
    BY <2>3, <2>4, <1>10
<1>13. \/ \E o \in D : first[o] = used /\ end[o] = SegmentHeapSpaceSize
       \/ SegmentHeapSpaceSize - used < 2
  <2> SUFFICES ASSUME ~(SegmentHeapSpaceSize - used < 2)
               PROVE  \E o \in D : first[o] = used /\ end[o] = SegmentHeapSpaceSize
    OBVIOUS
  <2>1. wordsLeft(extents, s) >= HeaderSize
    BY <1>4, <1>5 DEF HeaderSize
  <2>2. PICK c \in chunks : c.segment = s
    BY <2>1, <1>2 DEF ChunksAre
  <2>3. c.oop \in D /\ c.oop \notin DOMAIN objects
    BY <2>2, <1>1, <1>7 DEF InSegment
  <2> QED
    BY <2>3, <1>10
<1>14. TiledBy(tiles)
  <2>1. DOMAIN tiles = D
    BY <1>9
  <2> QED
    BY <2>1, <1>5, <1>10, <1>11, <1>12, <1>13, TilingIs
<1> QED
  BY <1>1, <1>9, <1>14, Zenon DEF TilesSegment

----------------------------------------------------------------------------
(* The properties.                                                           *)

LEMMA InvGivesTypes ==
  ASSUME SnapshotInv
  PROVE  TypeOK
<1>1. Sound(fs) /\ FieldTypes
  BY DEF SnapshotInv, FilesInv, Saving, FieldTypes
<1>2. ASSUME NEW h \in Handles, fs.fdtofil[h] # NO_FIL
      PROVE  /\ fs.fdtofil[h].name \in Names
             /\ fs.fdtofil[h].pos \in 0..Len(fs.fdtofil[h].data)
  <2>1. h \in Open(fs)
    BY <1>2 DEF Open
  <2>2. /\ fs.fdtofil[h].name \in Names
        /\ fs.fdtofil[h].pos \in Nat
        /\ fs.fdtofil[h].data \in Seq(Cells)
        /\ fs.fdtofil[h].pos <= Len(fs.fdtofil[h].data)
    BY <2>1, <1>1, OpenFil
  <2> QED
    BY <2>2
<1>3. FilesTypeOK
  BY <1>1, <1>2 DEF FilesTypeOK, FieldTypes, Sound, FileSystems
<1> QED
  BY <1>3 DEF TypeOK, SnapshotInv, SnapshotTypes

(* The length of every file that an image may have.                          *)
LEMMA FileLength ==
  ASSUME SnapshotInv, NEW n \in ImageNames, fs.card[n] # NoFile
  PROVE  Len(fs.card[n]) \in Nat
<1>1. fs \in FileSystems /\ n \in Names
  BY ImageNamesAre DEF SnapshotInv, FilesInv, Saving, Sound
<1>2. fs.card[n] \in Seq(Cells)
  BY <1>1 DEF FileSystems
<1> QED
  BY <1>2

LEMMA SavedOnCard ==
  ASSUME SnapshotInv, NEW n \in ImageNames, saved[n] # NoFile
  PROVE  /\ IsFileOf(fs.card[n], saved[n]) /\ IsImage(saved[n]) /\ FitsInHeap(saved[n])
         /\ Len(fs.card[n]) \in Nat
<1>1. IsFileOf(fs.card[n], saved[n]) /\ IsImage(saved[n]) /\ FitsInHeap(saved[n])
  BY DEF SnapshotInv, OnCard, Image
<1> QED
  BY <1>1 DEF IsFileOf

LEMMA InvGivesImages ==
  ASSUME SnapshotInv
  PROVE  SavedImageLoads
<1> SUFFICES ASSUME NEW n \in ImageNames, NEW b \in BootModes,
                    saved[n] # NoFile, ~TooLarge(b, fs.card[n])
             PROVE  /\ loadSnapshot(b, fs.card[n]).ok
                    /\ ObjectsIn(loadSnapshot(b, fs.card[n]).m) = saved[n]
  BY Zenon DEF SavedImageLoads
<1>1. /\ IsFileOf(fs.card[n], saved[n]) /\ IsImage(saved[n]) /\ FitsInHeap(saved[n])
      /\ Len(fs.card[n]) \in Nat
  BY SavedOnCard
<1>2. loadSnapshot(b, fs.card[n]) = loadFile(fs.card[n])
  BY <1>1, LoadSnapshotIs
<1>3. loadFile(fs.card[n]).ok /\ ObjectsIn(loadFile(fs.card[n]).m) = saved[n]
  BY <1>1, ImageLoads, Zenon
<1> QED
  BY <1>2, <1>3, Zenon

LEMMA InvGivesNoHalf ==
  ASSUME SnapshotInv
  PROVE  NoHalfImage
<1>1. ASSUME NEW n \in ImageNames, NEW b \in BootModes, saved[n] = NoFile, fs.card[n] # NoFile
      PROVE  /\ loadSnapshot(b, fs.card[n]).ok =>
                  DOMAIN ObjectsIn(loadSnapshot(b, fs.card[n]).m) = {}
             /\ ReadsOutside(b, fs.card[n]) => ~HasHeader(fs.card[n])
  <2>1. PICK data, l : data = fs.card[n] /\ l = loadSnapshot(b, data)
    OBVIOUS
  <2>2. Harmless(data) /\ Len(data) \in Nat
    BY <1>1, <2>1, FileLength DEF SnapshotInv, OnCard
  <2>3. ASSUME l.ok PROVE DOMAIN ObjectsIn(l.m) = {}
    <3>1. LoadFailed.ok = FALSE
      BY DEF LoadFailed
    <3>2. l = loadFile(data)
      BY <2>1, <2>2, <2>3, <3>1, LoadSnapshotIs
    <3> QED
      BY <2>2, <2>3, <3>2, HarmlessLoads, Zenon
  <2>4. ReadsOutside(b, data) => ~HasHeader(data)
    BY <2>2 DEF ReadsOutside, TableOutside, objectTableLength, HasHeader, Harmless
  <2> QED
    BY <2>1, <2>3, <2>4, Zenon
<1>2. TypeOK
  BY InvGivesTypes
<1> QED
  BY <1>1, <1>2, Zenon DEF NoHalfImage

LEMMA InvGivesTiles ==
  ASSUME SnapshotInv
  PROVE  LoadTilesHeap
<1>1. ASSUME NEW n \in ImageNames, NEW b \in BootModes, saved[n] # NoFile,
             loadSnapshot(b, fs.card[n]).ok, NEW s \in AllSegments
      PROVE  TilesSegment(loadSnapshot(b, fs.card[n]), s)
  <2>1. PICK data, objects, l :
          data = fs.card[n] /\ objects = saved[n] /\ l = loadSnapshot(b, data)
    OBVIOUS
  <2>2. IsFileOf(data, objects) /\ IsImage(objects) /\ FitsInHeap(objects) /\ Len(data) \in Nat
    BY <1>1, <2>1, SavedOnCard
  <2>3. l = loadFile(data)
    <3>1. LoadFailed.ok = FALSE
      BY DEF LoadFailed
    <3> QED
      BY <1>1, <2>1, <2>2, <3>1, LoadSnapshotIs
  <2>4. PICK table, places, extents, chunks :
          /\ Loads(data, objects, table, places, extents, chunks)
          /\ Holds(loadFile(data), objects, places, chunks)
    BY <2>2, ImageLoads
  <2>5. Holds(l, objects, places, chunks)
    BY <2>3, <2>4
  <2>6. TilesSegment(l, s)
    BY <2>2, <2>4, <2>5, LoadTiles
  <2> QED
    BY <2>1, <2>6
<1>2. \A n \in ImageNames, b \in BootModes :
        saved[n] # NoFile /\ loadSnapshot(b, fs.card[n]).ok =>
          \A s \in AllSegments : TilesSegment(loadSnapshot(b, fs.card[n]), s)
  BY <1>1, Zenon
<1> QED
  BY <1>2, Zenon DEF LoadTilesHeap, TilesSegment, TiledBy, InSegment, ExtentIn, SpaceIn

(* What every step of booting, working, saving and failing keeps: the files  *)
(* of images on the card hold them, or have the header of saveObjects that   *)
(* tells an empty table, and the file being saved a prefix of its image.     *)
THEOREM SnapshotInvariance == Spec => []SnapshotInv
<1>1. Init => SnapshotInv
  BY SnapshotInitInv
<1>2. SnapshotInv /\ [Next]_vars => SnapshotInv'
  BY SnapshotNextInv
<1> QED
  BY <1>1, <1>2, PTL DEF Spec

(* The handle of saveSnapshot, the name of the image and the files keep their *)
(* types, through every operation of the file system and every power failure. *)
THEOREM SnapshotTypesOK == Spec => []TypeOK
<1>1. SnapshotInv => TypeOK
  BY InvGivesTypes
<1> QED
  BY <1>1, SnapshotInvariance, PTL

(* Once saveSnapshot has reported success, loadSnapshot brings back object by *)
(* object what was saved, whatever the image, the card and the power do then, *)
(* in boot mode 1, and in mode 2 if the file is not larger than the buffer,   *)
(* which is the size at which loadSnapshot refuses it.                        *)
THEOREM SavedImagesLoad == Spec => []SavedImageLoads
<1>1. SnapshotInv => SavedImageLoads
  BY InvGivesImages
<1> QED
  BY <1>1, SnapshotInvariance, PTL

(* saveObjects writes the header last: a file that a failed write or a power  *)
(* failure has left cannot be loaded, or has no objects, or is so short that  *)
(* loadSnapshot goes by the table length of the built-in image in mode 2.     *)
THEOREM NoImageIsHalf == Spec => []NoHalfImage
<1>1. SnapshotInv => NoHalfImage
  BY InvGivesNoHalf
<1> QED
  BY <1>1, SnapshotInvariance, PTL

(* loadObjects puts the objects one behind the other and makes a free chunk   *)
(* of what is left of a segment: no word is in two of them, and what is in    *)
(* none is too small for a chunk.                                             *)
THEOREM LoadsTileTheHeap == Spec => []LoadTilesHeap
<1>1. SnapshotInv => LoadTilesHeap
  BY InvGivesTiles
<1> QED
  BY <1>1, SnapshotInvariance, PTL
===============================================================================
