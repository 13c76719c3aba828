-------------------------- MODULE ObjectMemoryProofs --------------------------
(***************************************************************************)
(* Theorems about ObjectMemory: whatever is created, stored, collected and *)
(* exchanged, the heap stays tiled, the lists of free chunks and pointers  *)
(* agree with it, counts are exact, and nothing the interpreter reaches is *)
(* a free chunk.                                                           *)
(*                                                                         *)
(* The inductive invariant is Sound(om).  The lemmas go from sequences and *)
(* the shape of the memory (Shape, Tiled: deallocate, splitting,           *)
(* compaction and the search for a chunk) through the counts (Exact:       *)
(* countUp, countDown, storePointer) and the collector to the operations   *)
(* of the interpreter, and end with the snapshot that is loaded.           *)
(*                                                                         *)
(* Lists, counts and marks that the model computes by a recursive function *)
(* are given the function's equation here, and the induction along the     *)
(* list, the table or the turns is made with InductionTo.                  *)
(***************************************************************************)
EXTENDS ObjectMemory, LeastNumber, FiniteSetTheorems

(* The words of a segment.                                                   *)
HeapWords == 0..HeapSpaceStop

LEMMA ConstantsAre ==
  /\ HeaderSize = 2 /\ NilPointer = 0 /\ NilPointer \notin Pointers
  /\ Pointers \subseteq Nat /\ IsFiniteSet(Pointers)
  /\ Segments \in Nat /\ Segments >= 1
  /\ BigSize \in Nat /\ BigSize > 2 /\ HugeSize \in Nat /\ HugeSize > BigSize
  /\ SegmentWords \in Nat /\ SegmentWords > BigSize
  /\ HeapSpaceStop = SegmentWords - 1
  /\ ChunkSizes = 2..BigSize
  /\ StickyCount \in Nat /\ StickyCount > 1
  /\ InitialClass \in Pointers /\ ActiveContext \in Pointers /\ InitialClass # ActiveContext
BY ConstantsOK DEF HeaderSize, NilPointer, HeapSpaceStop, ChunkSizes

(* What every entry of the object table is like: free entries are blank, the *)
(* others have a chunk that lies in its segment; what is no object has no    *)
(* references and no count, and the fields of an object fit its size.        *)
EntryOK(e) ==
  /\ e \in Entry
  /\ e.free => e = FreeEntry
  /\ ~e.free => /\ e.segment \in 1..Segments
                /\ e.size >= HeaderSize
                /\ e.location + Space(e) <= SegmentWords
  /\ e.class = NilPointer => e.field = <<>> /\ e.count = 0
  /\ e.class # NilPointer => HeaderSize + Len(e.field) <= e.size

IsChunk(e) == ~e.free /\ e.class = NilPointer

(* The free entries ot of the table are on the list, each once.              *)
PointersListed(ot, list) ==
  IsInjective(list) /\ ToSet(list) = {o \in Pointers : ot[o].free}

(* The lists hold the free chunks, but for those of K, each at one place.    *)
ListedAt(e, seg, size) ==
  IsChunk(e) /\ e.segment = seg /\ (size < BigSize => e.size = size)

ListSound(ot, K, list, seg, size) ==
  IsInjective(list) /\ \A o \in ToSet(list) : o \notin K /\ ListedAt(ot[o], seg, size)

IsListed(c, o) == \E seg \in 1..Segments, size \in ChunkSizes : o \in ToSet(c[seg][size])

ChunksListed(ot, c, K) ==
  /\ \A seg \in 1..Segments, size \in ChunkSizes : ListSound(ot, K, c[seg][size], seg, size)
  /\ \A seg \in 1..Segments, size, size2 \in ChunkSizes :
        size # size2 => ToSet(c[seg][size]) \cap ToSet(c[seg][size2]) = {}
  /\ \A o \in Pointers : IsChunk(ot[o]) /\ o \notin K => IsListed(c, o)

Lists == [1..Segments -> [ChunkSizes -> Seq(Pointers)]]

Entries(ot) == ot \in [Pointers -> Entry] /\ \A o \in Pointers : EntryOK(ot[o])

Shape(m, K) ==
  /\ m \in Memory
  /\ Entries(m.ot)
  /\ PointersListed(m.ot, m.freePointers)
  /\ ChunksListed(m.ot, m.freeChunks, K)

(* Every word of every segment is in one chunk.                              *)
Occupies(e, seg, w) ==
  ~e.free /\ e.segment = seg /\ e.location <= w /\ w < e.location + Space(e)

TiledAt(ot, seg, w) ==
  \E o \in Pointers : /\ Occupies(ot[o], seg, w)
                      /\ \A p \in Pointers : Occupies(ot[p], seg, w) => p = o

Tiled(ot) == \A seg \in 1..Segments, w \in HeapWords : TiledAt(ot, seg, w)

(* From m to n chunks may change, but no object and no count.                *)
SameContent(x, y) == y.class = x.class /\ y.field = x.field /\ y.count = x.count
SameContents(ot, ot2) == \A o \in Pointers : SameContent(ot[o], ot2[o])
SameRegisters(m, n) ==
  /\ n.freeWords = m.freeWords /\ n.freeOops = m.freeOops
  /\ n.uncounted = m.uncounted /\ n.failed = m.failed

----------------------------------------------------------------------------
(* Sequences.                                                                *)

LEMMA PrependIs ==
  ASSUME NEW S, NEW s \in Seq(S), NEW x \in S
  PROVE  /\ <<x>> \o s \in Seq(S)
         /\ ToSet(<<x>> \o s) = ToSet(s) \cup {x}
         /\ IsInjective(s) /\ x \notin ToSet(s) => IsInjective(<<x>> \o s)
<1>1. /\ DOMAIN s = 1..Len(s) /\ Len(s) \in Nat
      /\ DOMAIN (<<x>> \o s) = 1..Len(s) + 1
      /\ (<<x>> \o s)[1] = x
      /\ \A i \in DOMAIN s : (<<x>> \o s)[i + 1] = s[i]
      /\ <<x>> \o s \in Seq(S)
  OBVIOUS
<1>2. PICK t : t = <<x>> \o s
  OBVIOUS
<1>3. ASSUME NEW i \in DOMAIN t, i # 1 PROVE i - 1 \in DOMAIN s /\ t[i] = s[i - 1]
  <2>1. i - 1 \in DOMAIN s /\ (i - 1) + 1 = i
    BY <1>1, <1>2, <1>3
  <2>2. \A j \in DOMAIN s : t[j + 1] = s[j]
    BY <1>1, <1>2
  <2>3. t[(i - 1) + 1] = s[i - 1]
    BY <2>1, <2>2
  <2> QED
    BY <2>1, <2>3
<1>4. \A i \in DOMAIN s : i + 1 \in DOMAIN t /\ t[i + 1] = s[i]
  BY <1>1, <1>2
<1>5. 1 \in DOMAIN t /\ t[1] = x
  BY <1>1, <1>2
<1>6. ToSet(t) = ToSet(s) \cup {x}
  BY <1>3, <1>4, <1>5 DEF ToSet
<1>7. ASSUME IsInjective(s), x \notin ToSet(s), NEW i \in DOMAIN t, NEW j \in DOMAIN t, t[i] = t[j]
      PROVE  i = j
  <2>1. i \in Int /\ j \in Int
    BY <1>1, <1>2
  <2>2. i = 1 <=> j = 1
    BY <1>3, <1>5, <1>7 DEF ToSet
  <2>3. CASE i # 1
    <3>1. i - 1 = j - 1
      BY <1>3, <1>7, <2>2, <2>3 DEF IsInjective
    <3> QED
      BY <2>1, <3>1
  <2> QED
    BY <2>2, <2>3
<1>8. IsInjective(s) /\ x \notin ToSet(s) => IsInjective(t)
  BY <1>7 DEF IsInjective
<1> QED
  BY <1>1, <1>2, <1>6, <1>8

LEMMA ElementsAre ==
  ASSUME NEW S, NEW s \in Seq(S)
  PROVE  /\ ToSet(s) \subseteq S
         /\ DOMAIN s = 1..Len(s) /\ Len(s) \in Nat
         /\ ToSet(s) = {} <=> s = <<>>
<1>1. DOMAIN s = 1..Len(s) /\ Len(s) \in Nat /\ \A i \in DOMAIN s : s[i] \in S
  OBVIOUS
<1>2. s # <<>> => 1 \in DOMAIN s
  OBVIOUS
<1>3. s = <<>> => DOMAIN s = {}
  OBVIOUS
<1> QED
  BY <1>1, <1>2, <1>3 DEF ToSet

LEMMA EmptyIs ==
  /\ \A S : <<>> \in Seq(S)
  /\ IsInjective(<<>>) /\ ToSet(<<>>) = {}
<1>1. DOMAIN <<>> = {}
  OBVIOUS
<1> QED
  BY <1>1 DEF IsInjective, ToSet

LEMMA RemoveAtIs ==
  ASSUME NEW S, NEW s \in Seq(S), NEW k \in DOMAIN s
  PROVE  /\ RemoveAt(s, k) \in Seq(S)
         /\ DOMAIN RemoveAt(s, k) = 1..Len(s) - 1 /\ Len(RemoveAt(s, k)) = Len(s) - 1
         /\ \A i \in 1..Len(s) - 1 : RemoveAt(s, k)[i] = IF i < k THEN s[i] ELSE s[i + 1]
<1>1. k \in 1..Len(s) /\ Len(s) \in Nat
  OBVIOUS
<1>2. /\ SubSeq(s, 1, k - 1) \in Seq(S) /\ Len(SubSeq(s, 1, k - 1)) = k - 1
      /\ \A i \in 1..k - 1 : SubSeq(s, 1, k - 1)[i] = s[i]
  BY <1>1
<1>3. /\ SubSeq(s, k + 1, Len(s)) \in Seq(S) /\ Len(SubSeq(s, k + 1, Len(s))) = Len(s) - k
      /\ \A i \in 1..Len(s) - k : SubSeq(s, k + 1, Len(s))[i] = s[k + i]
  BY <1>1
<1>4. PICK a, b : a = SubSeq(s, 1, k - 1) /\ b = SubSeq(s, k + 1, Len(s))
  OBVIOUS
<1>5. RemoveAt(s, k) = a \o b
  BY <1>4 DEF RemoveAt
<1>6. a \in Seq(S) /\ b \in Seq(S) /\ Len(a) = k - 1 /\ Len(b) = Len(s) - k
  BY <1>2, <1>3, <1>4
<1>7. a \o b \in Seq(S) /\ Len(a \o b) = Len(s) - 1
  BY <1>1, <1>6
<1>8. \A i \in 1..Len(s) - 1 : (a \o b)[i] = IF i < k THEN a[i] ELSE b[i - k + 1]
  BY <1>1, <1>6
<1>9. ASSUME NEW i \in 1..Len(s) - 1 PROVE (a \o b)[i] = IF i < k THEN s[i] ELSE s[i + 1]
  <2>1. CASE i < k
    BY <1>1, <1>2, <1>4, <1>8, <2>1
  <2>2. CASE ~(i < k)
    <3>1. i - k + 1 \in 1..Len(s) - k /\ k + (i - k + 1) = i + 1
      BY <1>1, <2>2
    <3> QED
      BY <1>3, <1>4, <1>8, <2>2, <3>1
  <2> QED
    BY <2>1, <2>2
<1> QED
  BY <1>5, <1>7, <1>9

(* One element less.                                                         *)
LEMMA RemoveIs ==
  ASSUME NEW S, NEW s \in Seq(S), NEW k \in DOMAIN s, IsInjective(s)
  PROVE  /\ RemoveAt(s, k) \in Seq(S)
         /\ IsInjective(RemoveAt(s, k))
         /\ ToSet(RemoveAt(s, k)) = ToSet(s) \ {s[k]}
<1>1. PICK t : t = RemoveAt(s, k)
  OBVIOUS
<1>2. /\ t \in Seq(S) /\ DOMAIN t = 1..Len(s) - 1
      /\ \A i \in 1..Len(s) - 1 : t[i] = IF i < k THEN s[i] ELSE s[i + 1]
  BY <1>1, RemoveAtIs
<1>3. DOMAIN s = 1..Len(s) /\ Len(s) \in Nat /\ k \in 1..Len(s)
  OBVIOUS
<1> DEFINE at(i) == IF i < k THEN i ELSE i + 1
<1>4. ASSUME NEW i \in DOMAIN t PROVE t[i] = s[at(i)] /\ at(i) \in DOMAIN s /\ at(i) # k
  BY <1>2, <1>3
<1>5. ASSUME NEW i \in DOMAIN s, i # k PROVE \E j \in DOMAIN t : at(j) = i
  <2>1. CASE i < k
    BY <1>2, <1>3, <2>1
  <2>2. CASE ~(i < k)
    <3>1. i - 1 \in DOMAIN t /\ at(i - 1) = i
      BY <1>2, <1>3, <1>5, <2>2
    <3> QED
      BY <3>1
  <2> QED
    BY <2>1, <2>2
<1>6. ASSUME NEW i \in DOMAIN t, NEW j \in DOMAIN t, at(i) = at(j) PROVE i = j
  BY <1>2, <1>3, <1>6
<1> HIDE DEF at
<1>7. IsInjective(t)
  <2>1. \A a, b \in DOMAIN s : s[a] = s[b] => a = b
    BY Zenon DEF IsInjective
  <2>2. ASSUME NEW i \in DOMAIN t, NEW j \in DOMAIN t, t[i] = t[j] PROVE i = j
    BY <1>4, <1>6, <2>1, <2>2
  <2> QED
    BY <2>2 DEF IsInjective
<1>8. ASSUME NEW x PROVE x \in ToSet(t) <=> x \in ToSet(s) \ {s[k]}
  <2>1. \A a, b \in DOMAIN s : s[a] = s[b] => a = b
    BY Zenon DEF IsInjective
  <2>2. ASSUME x \in ToSet(t) PROVE x \in ToSet(s) \ {s[k]}
    BY <1>4, <2>1, <2>2 DEF ToSet
  <2>3. ASSUME x \in ToSet(s), x # s[k] PROVE x \in ToSet(t)
    <3>1. PICK i \in DOMAIN s : s[i] = x
      BY <2>3 DEF ToSet
    <3>2. PICK j \in DOMAIN t : at(j) = i
      BY <1>5, <2>3, <3>1
    <3> QED
      BY <1>4, <3>1, <3>2 DEF ToSet
  <2> QED
    BY <2>2, <2>3
<1> QED
  BY <1>1, <1>2, <1>7, <1>8

LEMMA TailIs ==
  ASSUME NEW S, NEW s \in Seq(S), s # <<>>, IsInjective(s)
  PROVE  /\ Head(s) \in ToSet(s)
         /\ Tail(s) \in Seq(S)
         /\ IsInjective(Tail(s))
         /\ ToSet(Tail(s)) = ToSet(s) \ {Head(s)}
<1>1. 1 \in DOMAIN s /\ Head(s) = s[1] /\ DOMAIN s = 1..Len(s) /\ Len(s) \in Nat
  OBVIOUS
<1>2. PICK t : t = RemoveAt(s, 1)
  OBVIOUS
<1>3. /\ t \in Seq(S) /\ DOMAIN t = 1..Len(s) - 1
      /\ \A i \in 1..Len(s) - 1 : t[i] = IF i < 1 THEN s[i] ELSE s[i + 1]
  BY <1>1, <1>2, RemoveAtIs
<1>4. /\ Tail(s) \in Seq(S) /\ DOMAIN Tail(s) = 1..Len(s) - 1
      /\ \A i \in 1..Len(s) - 1 : Tail(s)[i] = s[i + 1]
  OBVIOUS
<1>5. Tail(s) = t
  <2>1. Len(t) = Len(s) - 1 /\ Len(Tail(s)) = Len(s) - 1
    <3>1. Len(t) = Len(s) - 1
      BY <1>1, <1>2, RemoveAtIs
    <3>2. Len(Tail(s)) = Len(s) - 1
      OBVIOUS
    <3> QED
      BY <3>1, <3>2
  <2>2. \A i \in 1..Len(s) - 1 : Tail(s)[i] = t[i]
    BY <1>1, <1>3, <1>4
  <2> QED
    BY <1>3, <1>4, <2>1, <2>2
<1>6. IsInjective(t) /\ ToSet(t) = ToSet(s) \ {s[1]}
  BY <1>1, <1>2, RemoveIs
<1>7. s[1] \in ToSet(s)
  BY <1>1 DEF ToSet
<1> QED
  BY <1>1, <1>3, <1>5, <1>6, <1>7, Zenon

LEMMA MinIs ==
  ASSUME NEW S \in SUBSET Nat, S # {}
  PROVE  Min(S) \in S /\ \A n \in S : Min(S) <= n
<1>1. PICK n \in S : \A m \in S : n <= m
  BY HasLeast
<1> QED
  BY <1>1 DEF Min

LEMMA MemoryIs ==
  ASSUME NEW m \in Memory
  PROVE  /\ m.ot \in [Pointers -> Entry]
         /\ m.freeChunks \in Lists
         /\ m.freePointers \in Seq(Pointers)
         /\ m.currentSegment \in 1..Segments
         /\ m.freeWords \in Int /\ m.freeOops \in Int
         /\ m.uncounted \in Pointers \cup {NilPointer}
         /\ m.failed \in BOOLEAN
BY DEF Memory, Lists

LEMMA EntryIs ==
  ASSUME NEW e \in Entry
  PROVE  /\ e.free \in BOOLEAN /\ e.pointer \in BOOLEAN
         /\ e.count \in Nat /\ e.count <= StickyCount
         /\ e.segment \in 0..Segments
         /\ e.location \in Nat /\ e.location <= HeapSpaceStop
         /\ e.size \in Nat /\ e.size <= SegmentWords
         /\ e.class \in Pointers \cup {NilPointer}
         /\ e.field \in Seq(Pointers \cup {NilPointer})
         /\ Len(e.field) \in Nat
         /\ spaceOccupiedBy(e) \in Nat /\ Space(e) \in Nat
         /\ Space(e) \in {e.size, e.size + 1} /\ spaceOccupiedBy(e) \in {e.size, e.size + 1}
BY ConstantsAre DEF Entry, Space, spaceOccupiedBy

LEMMA FreeEntryIs ==
  /\ FreeEntry \in Entry /\ EntryOK(FreeEntry)
  /\ FreeEntry.free = TRUE /\ FreeEntry.count = 0 /\ FreeEntry.pointer = FALSE
  /\ FreeEntry.class = NilPointer /\ FreeEntry.field = <<>>
<1>1. FreeEntry \in Entry
  BY ConstantsAre DEF FreeEntry, Entry
<1> QED
  BY <1>1 DEF FreeEntry, EntryOK

(* An entry that has a chunk: the chunk takes two words or more and lies in  *)
(* its segment.                                                              *)
LEMMA ChunkLies ==
  ASSUME NEW e, EntryOK(e), ~e.free
  PROVE  /\ e.segment \in 1..Segments
         /\ e.location \in Nat /\ e.size \in Nat /\ Space(e) \in Nat
         /\ e.size >= 2 /\ Space(e) >= 2
         /\ e.location + Space(e) <= SegmentWords /\ Space(e) <= SegmentWords
<1>1. e.size \in Nat /\ Space(e) \in {e.size, e.size + 1} /\ e.location \in Nat
  BY EntryIs DEF EntryOK
<1>2. e.segment \in 1..Segments /\ e.size >= 2 /\ e.location + Space(e) <= SegmentWords
  BY ConstantsAre DEF EntryOK
<1>3. PICK a, b, c : a = e.size /\ b = Space(e) /\ c = e.location
  OBVIOUS
<1>4. a \in Nat /\ b \in {a, a + 1} /\ c \in Nat /\ a >= 2 /\ c + b <= SegmentWords
  BY <1>1, <1>2, <1>3
<1>5. b \in Nat /\ b >= 2 /\ b <= SegmentWords
  BY <1>4, ConstantsAre
<1> QED
  BY <1>1, <1>2, <1>3, <1>4, <1>5

----------------------------------------------------------------------------
(* The lists of free chunks.                                                 *)

LEMMA ListIs ==
  ASSUME NEW c \in Lists, NEW seg \in 1..Segments, NEW size \in ChunkSizes
  PROVE  c[seg][size] \in Seq(Pointers) /\ ToSet(c[seg][size]) \subseteq Pointers
<1>1. c[seg][size] \in Seq(Pointers)
  BY DEF Lists
<1> QED
  BY <1>1, ElementsAre

Relisted(c, seg, index, list) == [c EXCEPT ![seg][index] = list]

LEMMA ListWith ==
  ASSUME NEW c \in Lists, NEW seg \in 1..Segments, NEW index \in ChunkSizes,
         NEW list \in Seq(Pointers),
         NEW c2, c2 = Relisted(c, seg, index, list)
  PROVE  /\ c2 \in Lists /\ c2[seg][index] = list
         /\ \A s \in 1..Segments, z \in ChunkSizes :
               s # seg \/ z # index => c2[s][z] = c[s][z]
BY DEF Lists, Relisted

(* A chunk of K comes on a list.                                             *)
LEMMA ListedMore ==
  ASSUME NEW ot, NEW c \in Lists, NEW K, ChunksListed(ot, c, K),
         NEW o \in Pointers, IsChunk(ot[o]) => o \in K,
         NEW seg \in 1..Segments, NEW index \in ChunkSizes, NEW list,
         list = <<o>> \o c[seg][index],
         NEW ot2, ListedAt(ot2[o], seg, index), \A p \in Pointers : p # o => ot2[p] = ot[p],
         NEW c2, c2 = Relisted(c, seg, index, list)
  PROVE  c2 \in Lists /\ ChunksListed(ot2, c2, K \ {o})
<1>1. ASSUME NEW s \in 1..Segments, NEW z \in ChunkSizes
      PROVE  /\ ToSet(c[s][z]) \subseteq Pointers /\ o \notin ToSet(c[s][z])
             /\ ListSound(ot, K, c[s][z], s, z)
  <2>1. ListSound(ot, K, c[s][z], s, z)
    BY DEF ChunksListed
  <2>2. o \notin ToSet(c[s][z])
    BY <2>1 DEF ListSound, ListedAt
  <2> QED
    BY <2>1, <2>2, ListIs
<1>2. /\ list \in Seq(Pointers) /\ ToSet(list) = ToSet(c[seg][index]) \cup {o}
      /\ IsInjective(list)
  <2>1. PICK old : old = c[seg][index]
    OBVIOUS
  <2>2. old \in Seq(Pointers) /\ o \notin ToSet(old) /\ IsInjective(old)
    BY <1>1, <2>1, ListIs DEF ListSound
  <2> QED
    BY <2>1, <2>2, PrependIs
<1>3. /\ c2 \in Lists /\ c2[seg][index] = list
      /\ \A s \in 1..Segments, z \in ChunkSizes : s # seg \/ z # index => c2[s][z] = c[s][z]
  <2>1. list \in Seq(Pointers)
    BY <1>2
  <2>2. PICK l : l = list
    OBVIOUS
  <2>3. l \in Seq(Pointers) /\ c2 = Relisted(c, seg, index, l)
    BY <2>1, <2>2
  <2>4. /\ c2 \in Lists /\ c2[seg][index] = l
        /\ \A s \in 1..Segments, z \in ChunkSizes : s # seg \/ z # index => c2[s][z] = c[s][z]
    BY <2>3, ListWith
  <2> QED
    BY <2>2, <2>4
<1>4. ASSUME NEW s \in 1..Segments, NEW z \in ChunkSizes PROVE ListSound(ot2, K \ {o}, c2[s][z], s, z)
  <2>1. \A p \in ToSet(c[s][z]) : p \notin K \ {o} /\ ListedAt(ot2[p], s, z)
    BY <1>1 DEF ListSound
  <2>2. CASE s = seg /\ z = index
    <3>1. c2[s][z] = list
      BY <1>3, <2>2
    <3>2. \A p \in ToSet(list) : p \notin K \ {o} /\ ListedAt(ot2[p], s, z)
      BY <1>2, <2>1, <2>2
    <3> QED
      BY <1>2, <3>1, <3>2 DEF ListSound
  <2>3. CASE s # seg \/ z # index
    <3>1. c2[s][z] = c[s][z] /\ IsInjective(c[s][z])
      BY <1>1, <1>3, <2>3 DEF ListSound
    <3> QED
      BY <2>1, <3>1 DEF ListSound
  <2> QED
    BY <2>2, <2>3
<1>5. ASSUME NEW s \in 1..Segments, NEW z \in ChunkSizes
      PROVE  /\ s = seg /\ z = index => ToSet(c2[s][z]) = ToSet(c[s][z]) \cup {o}
             /\ s # seg \/ z # index => ToSet(c2[s][z]) = ToSet(c[s][z])
  <2>1. CASE s = seg /\ z = index
    BY <1>2, <1>3, <2>1
  <2>2. CASE s # seg \/ z # index
    BY <1>3, <2>2
  <2> QED
    BY <2>1, <2>2
<1>6. ASSUME NEW s \in 1..Segments, NEW z \in ChunkSizes, NEW z2 \in ChunkSizes, z # z2
      PROVE  ToSet(c2[s][z]) \cap ToSet(c2[s][z2]) = {}
  <2>1. ToSet(c[s][z]) \cap ToSet(c[s][z2]) = {}
    BY <1>6 DEF ChunksListed
  <2>2. o \notin ToSet(c[s][z]) /\ o \notin ToSet(c[s][z2])
    BY <1>1
  <2>3. ToSet(c2[s][z]) \subseteq ToSet(c[s][z]) \cup {o} /\ ToSet(c2[s][z2]) \subseteq ToSet(c[s][z2]) \cup {o}
    BY <1>5
  <2>4. ~(o \in ToSet(c2[s][z]) /\ o \in ToSet(c2[s][z2]))
    BY <1>5, <1>6, <2>2
  <2> QED
    BY <2>1, <2>3, <2>4
<1>7. ASSUME NEW p \in Pointers, IsChunk(ot2[p]), p \notin K \ {o} PROVE IsListed(c2, p)
  <2>1. CASE p = o
    BY <1>2, <1>3, <2>1 DEF IsListed
  <2>2. CASE p # o
    <3>1. IsListed(c, p)
      BY <1>7, <2>2 DEF ChunksListed
    <3>2. PICK s \in 1..Segments, z \in ChunkSizes : p \in ToSet(c[s][z])
      BY <3>1 DEF IsListed
    <3>3. p \in ToSet(c2[s][z])
      BY <1>5, <3>2
    <3> QED
      BY <3>3 DEF IsListed
  <2> QED
    BY <2>1, <2>2
<1> QED
  BY <1>3, <1>4, <1>6, <1>7 DEF ChunksListed

(* A chunk goes off its list, into K.                                        *)
LEMMA ListedLess ==
  ASSUME NEW ot, NEW c \in Lists, NEW K, ChunksListed(ot, c, K),
         NEW seg \in 1..Segments, NEW index \in ChunkSizes, NEW list \in Seq(Pointers),
         NEW o, o \in ToSet(c[seg][index]),
         ToSet(list) = ToSet(c[seg][index]) \ {o}, IsInjective(list),
         NEW c2, c2 = Relisted(c, seg, index, list)
  PROVE  c2 \in Lists /\ ChunksListed(ot, c2, K \cup {o})
<1>1. ASSUME NEW s \in 1..Segments, NEW z \in ChunkSizes
      PROVE  /\ ToSet(c[s][z]) \subseteq Pointers
             /\ ListSound(ot, K, c[s][z], s, z)
             /\ o \in ToSet(c[s][z]) => s = seg /\ z = index
  <2>1. ListSound(ot, K, c[s][z], s, z) /\ ListSound(ot, K, c[seg][index], seg, index)
    BY DEF ChunksListed
  <2>2. o \in ToSet(c[s][z]) => s = seg
    BY <2>1 DEF ListSound, ListedAt
  <2>3. o \in ToSet(c[s][z]) => z = index
    BY <2>2 DEF ChunksListed
  <2> QED
    BY <2>1, <2>2, <2>3, ListIs
<1>3. /\ c2 \in Lists /\ c2[seg][index] = list
      /\ \A s \in 1..Segments, z \in ChunkSizes : s # seg \/ z # index => c2[s][z] = c[s][z]
  BY ListWith
<1>5. ASSUME NEW s \in 1..Segments, NEW z \in ChunkSizes
      PROVE  ToSet(c2[s][z]) = ToSet(c[s][z]) \ {o} /\ IsInjective(c2[s][z])
  <2>1. CASE s = seg /\ z = index
    BY <1>3, <2>1
  <2>2. CASE s # seg \/ z # index
    BY <1>1, <1>3, <2>2 DEF ListSound
  <2> QED
    BY <2>1, <2>2
<1>4. ASSUME NEW s \in 1..Segments, NEW z \in ChunkSizes PROVE ListSound(ot, K \cup {o}, c2[s][z], s, z)
  BY <1>1, <1>5 DEF ListSound
<1>6. ASSUME NEW s \in 1..Segments, NEW z \in ChunkSizes, NEW z2 \in ChunkSizes, z # z2
      PROVE  ToSet(c2[s][z]) \cap ToSet(c2[s][z2]) = {}
  <2>1. ToSet(c[s][z]) \cap ToSet(c[s][z2]) = {}
    BY <1>6 DEF ChunksListed
  <2> QED
    BY <1>5, <2>1
<1>7. ASSUME NEW p \in Pointers, IsChunk(ot[p]), p \notin K \cup {o} PROVE IsListed(c2, p)
  <2>1. IsListed(c, p)
    BY <1>7 DEF ChunksListed
  <2>2. PICK s \in 1..Segments, z \in ChunkSizes : p \in ToSet(c[s][z])
    BY <2>1 DEF IsListed
  <2> QED
    BY <1>5, <1>7, <2>2 DEF IsListed
<1> QED
  BY <1>3, <1>4, <1>6, <1>7 DEF ChunksListed

LEMMA ShapeIs ==
  ASSUME NEW m, NEW K, Shape(m, K)
  PROVE  /\ m \in Memory /\ Entries(m.ot)
         /\ m.ot \in [Pointers -> Entry] /\ \A o \in Pointers : EntryOK(m.ot[o])
         /\ m.freeChunks \in Lists /\ ChunksListed(m.ot, m.freeChunks, K)
         /\ m.freePointers \in Seq(Pointers) /\ PointersListed(m.ot, m.freePointers)
         /\ m.currentSegment \in 1..Segments
BY MemoryIs DEF Shape, Entries

(* Two entries whose chunks lie in the same place.                           *)
SameExtent(x, y) ==
  /\ y.free = x.free
  /\ ~x.free => y.segment = x.segment /\ y.location = x.location /\ Space(y) = Space(x)

SameExtents(ot, ot2) == \A o \in Pointers : SameExtent(ot[o], ot2[o])

LEMMA StaysTiled ==
  ASSUME NEW ot, NEW ot2, Tiled(ot), SameExtents(ot, ot2)
  PROVE  Tiled(ot2)
<1> SUFFICES ASSUME NEW seg \in 1..Segments, NEW w \in HeapWords PROVE TiledAt(ot2, seg, w)
  BY DEF Tiled
<1>1. ASSUME NEW o \in Pointers PROVE Occupies(ot2[o], seg, w) <=> Occupies(ot[o], seg, w)
  <2>1. SameExtent(ot[o], ot2[o])
    BY DEF SameExtents
  <2> QED
    BY <2>1 DEF SameExtent, Occupies
<1>2. TiledAt(ot, seg, w)
  BY DEF Tiled
<1> QED
  BY <1>1, <1>2 DEF TiledAt

----------------------------------------------------------------------------
(* deallocate.                                                               *)

(* The entry of a chunk that is not in use any more.                         *)
Emptied(e) == [e EXCEPT !.size = spaceOccupiedBy(e), !.class = NilPointer, !.field = <<>>]

Discardable(e) == EntryOK(e) /\ ~e.free /\ e.count = 0 /\ spaceOccupiedBy(e) = Space(e)

EmptiedFrom(e, y) ==
  /\ EntryOK(y) /\ IsChunk(y) /\ y.count = 0 /\ y.field = <<>> /\ y.pointer = e.pointer
  /\ SameExtent(e, y) /\ y.segment = e.segment /\ y.location = e.location
  /\ y.size = Space(e) /\ Space(y) = Space(e)

LEMMA EmptiedIs ==
  ASSUME NEW e, Discardable(e)
  PROVE  EmptiedFrom(e, Emptied(e))
<1>1. e \in Entry /\ EntryOK(e) /\ ~e.free /\ e.count = 0 /\ spaceOccupiedBy(e) = Space(e)
  BY DEF Discardable, EntryOK
<1>2. /\ e.segment \in 1..Segments /\ Space(e) \in Nat /\ Space(e) >= 2 /\ Space(e) <= SegmentWords
      /\ e.location + Space(e) <= SegmentWords
  BY <1>1, ChunkLies
<1>3. PICK k : k = Space(e)
  OBVIOUS
<1>4. PICK y : y = [e EXCEPT !.size = k, !.class = NilPointer, !.field = <<>>]
  OBVIOUS
<1>5. k \in 0..SegmentWords /\ <<>> \in Seq(Pointers \cup {NilPointer})
  BY <1>2, <1>3
<1>6. /\ y \in Entry
      /\ y.free = e.free /\ y.count = e.count /\ y.pointer = e.pointer /\ y.segment = e.segment
      /\ y.location = e.location /\ y.size = k /\ y.class = NilPointer /\ y.field = <<>>
  BY <1>1, <1>4, <1>5 DEF Entry
<1>7. Space(y) = k
  BY <1>6 DEF Space
<1>8. EntryOK(y)
  BY <1>1, <1>2, <1>3, <1>6, <1>7 DEF EntryOK, HeaderSize
<1>9. Emptied(e) = y
  BY <1>1, <1>3, <1>4 DEF Emptied
<1> QED
  BY <1>1, <1>3, <1>6, <1>7, <1>8, <1>9 DEF EmptiedFrom, IsChunk, SameExtent

(* The memory n that deallocate leaves of m.                                 *)
Deallocated(m, n, o, K) ==
  /\ Shape(n, K \ {o})
  /\ n.ot = [m.ot EXCEPT ![o] = Emptied(m.ot[o])]
  /\ EmptiedFrom(m.ot[o], n.ot[o]) /\ \A p \in Pointers : p # o => n.ot[p] = m.ot[p]
  /\ Tiled(m.ot) => Tiled(n.ot)
  /\ n.freePointers = m.freePointers /\ n.currentSegment = m.currentSegment
  /\ SameRegisters(m, n)

LEMMA Deallocate ==
  ASSUME NEW m, NEW K, Shape(m, K), NEW o \in Pointers, Discardable(m.ot[o]),
         IsChunk(m.ot[o]) => o \in K
  PROVE  Deallocated(m, deallocate(m, o), o, K)
<1>1. PICK n : n = deallocate(m, o)
  OBVIOUS
<1>2. PICK e : e = m.ot[o]
  OBVIOUS
<1>3. PICK seg, space, index : seg = e.segment /\ space = spaceOccupiedBy(e)
                               /\ index = IF space < BigSize THEN space ELSE BigSize
  OBVIOUS
<1>4. PICK list : list = <<o>> \o m.freeChunks[seg][index]
  OBVIOUS
<1>5. n = [m EXCEPT !.ot[o] = Emptied(e), !.freeChunks[seg][index] = list]
  BY <1>1, <1>2, <1>3, <1>4 DEF deallocate, Emptied
<1>6. /\ m \in Memory /\ m.ot \in [Pointers -> Entry] /\ m.freeChunks \in Lists
      /\ \A p \in Pointers : EntryOK(m.ot[p])
      /\ ChunksListed(m.ot, m.freeChunks, K) /\ PointersListed(m.ot, m.freePointers)
  BY ShapeIs
<1>7. EmptiedFrom(e, Emptied(e)) /\ Emptied(e) \in Entry
  BY <1>2, EmptiedIs DEF EmptiedFrom, EntryOK
<1>8. /\ seg \in 1..Segments /\ space = Space(e) /\ space \in Nat /\ space >= 2
      /\ ~e.free /\ EntryOK(e)
  BY <1>2, <1>3, ChunkLies DEF Discardable
<1>9. index \in ChunkSizes
  BY <1>3, <1>8, ConstantsAre
<1>10. PICK ot2, c2 : ot2 = [m.ot EXCEPT ![o] = Emptied(e)] /\ c2 = Relisted(m.freeChunks, seg, index, list)
  OBVIOUS
<1>11. n = [m EXCEPT !.ot = ot2, !.freeChunks = c2]
  BY <1>5, <1>6, <1>10 DEF Memory, Relisted
<1>12. /\ n.ot = ot2 /\ n.freeChunks = c2 /\ n.freePointers = m.freePointers
       /\ n.currentSegment = m.currentSegment /\ SameRegisters(m, n)
  BY <1>6, <1>11 DEF Memory, SameRegisters
<1>13. /\ ot2 \in [Pointers -> Entry] /\ ot2[o] = Emptied(e)
       /\ \A p \in Pointers : p # o => ot2[p] = m.ot[p]
  BY <1>6, <1>7, <1>10
<1>14. ListedAt(ot2[o], seg, index)
  BY <1>3, <1>7, <1>8, <1>13 DEF ListedAt, EmptiedFrom
<1>15. c2 \in Lists /\ ChunksListed(ot2, c2, K \ {o})
  <2>1. PICK c, ot : c = m.freeChunks /\ ot = m.ot
    OBVIOUS
  <2>2. /\ c \in Lists /\ ChunksListed(ot, c, K) /\ list = <<o>> \o c[seg][index]
        /\ \A p \in Pointers : p # o => ot2[p] = ot[p]
        /\ c2 = Relisted(c, seg, index, list)
    BY <1>4, <1>6, <1>10, <1>13, <2>1
  <2>3. IsChunk(ot[o]) => o \in K
    BY <2>1
  <2> QED
    BY <1>8, <1>9, <1>14, <2>2, <2>3, ListedMore
<1>16. n \in Memory
  BY <1>6, <1>11, <1>13, <1>15 DEF Memory, Lists
<1>17. Entries(ot2)
  BY <1>6, <1>7, <1>13 DEF Entries, EmptiedFrom
<1>18. PointersListed(ot2, m.freePointers)
  <2>1. \A p \in Pointers : ot2[p].free = m.ot[p].free
    BY <1>2, <1>7, <1>13 DEF EmptiedFrom, SameExtent
  <2> QED
    BY <1>6, <2>1 DEF PointersListed
<1>19. Tiled(m.ot) => Tiled(ot2)
  <2>1. \A p \in Pointers : SameExtent(m.ot[p], ot2[p])
    BY <1>2, <1>7, <1>13 DEF EmptiedFrom, SameExtent
  <2>2. SameExtents(m.ot, ot2)
    BY <2>1 DEF SameExtents
  <2> QED
    BY <2>2, StaysTiled
<1> QED
  BY <1>1, <1>2, <1>7, <1>10, <1>12, <1>13, <1>15, <1>16, <1>17, <1>18, <1>19 DEF Deallocated, Shape

(* Entries change, but nothing that a list says of its chunks.               *)
StillListed(ot, ot2, c, K, K2) ==
  /\ \A seg \in 1..Segments, size \in ChunkSizes :
        \A o \in ToSet(c[seg][size]) : o \notin K2 /\ ListedAt(ot2[o], seg, size)
  /\ \A o \in Pointers : IsChunk(ot2[o]) /\ o \notin K2 => IsChunk(ot[o]) /\ o \notin K

LEMMA ListsKeep ==
  ASSUME NEW ot, NEW ot2, NEW c, NEW K, NEW K2,
         ChunksListed(ot, c, K), StillListed(ot, ot2, c, K, K2)
  PROVE  ChunksListed(ot2, c, K2)
<1>1. ASSUME NEW seg \in 1..Segments, NEW size \in ChunkSizes
      PROVE  ListSound(ot2, K2, c[seg][size], seg, size)
  <2>1. ListSound(ot, K, c[seg][size], seg, size)
    BY DEF ChunksListed
  <2> QED
    BY <2>1 DEF ListSound, StillListed
<1>2. ASSUME NEW seg \in 1..Segments, NEW size \in ChunkSizes, NEW size2 \in ChunkSizes, size # size2
      PROVE  ToSet(c[seg][size]) \cap ToSet(c[seg][size2]) = {}
  BY <1>2 DEF ChunksListed
<1>3. ASSUME NEW o \in Pointers, IsChunk(ot2[o]), o \notin K2 PROVE IsListed(c, o)
  BY <1>3 DEF ChunksListed, StillListed
<1> QED
  BY <1>1, <1>2, <1>3 DEF ChunksListed

(* What is on a list is a chunk.                                             *)
LEMMA ListedIs ==
  ASSUME NEW ot, NEW c, NEW K, ChunksListed(ot, c, K),
         NEW seg \in 1..Segments, NEW size \in ChunkSizes, NEW o \in ToSet(c[seg][size])
  PROVE  o \notin K /\ ListedAt(ot[o], seg, size) /\ IsInjective(c[seg][size])
BY DEF ChunksListed, ListSound

----------------------------------------------------------------------------
(* obtainPointer_location.                                                   *)

NewEntry(segment, location, size) ==
  [FreeEntry EXCEPT !.free = FALSE, !.segment = segment, !.location = location, !.size = size]

LEMMA NewEntryIs ==
  ASSUME NEW segment \in 1..Segments, NEW location \in Nat, NEW size \in Nat,
         size >= 2, location + size <= SegmentWords
  PROVE  LET e == NewEntry(segment, location, size)
         IN  /\ Discardable(e) /\ IsChunk(e) /\ e.segment = segment /\ e.location = location
             /\ e.size = size /\ Space(e) = size /\ e.count = 0 /\ e.field = <<>>
<1>1. PICK e : e = NewEntry(segment, location, size)
  OBVIOUS
<1>2. /\ e.free = FALSE /\ e.count = 0 /\ e.pointer = FALSE /\ e.segment = segment
      /\ e.location = location /\ e.size = size /\ e.class = NilPointer /\ e.field = <<>>
  BY <1>1 DEF NewEntry, FreeEntry
<1>3. location \in 0..HeapSpaceStop /\ size \in 0..SegmentWords /\ segment \in 0..Segments
  BY ConstantsAre
<1>4. e \in Entry
  BY <1>1, <1>3, FreeEntryIs DEF NewEntry, Entry
<1>5. Space(e) = size /\ spaceOccupiedBy(e) = size
  BY <1>2 DEF Space, spaceOccupiedBy
<1>6. EntryOK(e)
  BY <1>2, <1>4, <1>5 DEF EntryOK, HeaderSize
<1> QED
  BY <1>1, <1>2, <1>5, <1>6 DEF Discardable, IsChunk

Obtained(m, n, p, size, location, K) ==
  /\ p \in Pointers /\ m.ot[p].free /\ m.ot[p] = FreeEntry
  /\ p = Head(m.freePointers)
  /\ Shape(n, K \cup {p})
  /\ n.ot[p] = NewEntry(m.currentSegment, location, size)
  /\ \A q \in Pointers : q # p => n.ot[q] = m.ot[q]
  /\ n.freeChunks = m.freeChunks /\ n.currentSegment = m.currentSegment
  /\ SameRegisters(m, n)

LEMMA ObtainPointer ==
  ASSUME NEW m, NEW K, Shape(m, K), m.freePointers # <<>>,
         NEW size \in Nat, NEW location \in Nat, size >= 2, location + size <= SegmentWords
  PROVE  Obtained(m, obtainPointer_location(m, size, location), Head(m.freePointers), size, location, K)
<1>1. PICK n : n = obtainPointer_location(m, size, location)
  OBVIOUS
<1>2. PICK p, list, tail : p = Head(m.freePointers) /\ list = m.freePointers /\ tail = Tail(list)
  OBVIOUS
<1>3. /\ m \in Memory /\ m.ot \in [Pointers -> Entry] /\ m.freeChunks \in Lists
      /\ \A q \in Pointers : EntryOK(m.ot[q])
      /\ ChunksListed(m.ot, m.freeChunks, K) /\ PointersListed(m.ot, list)
      /\ list \in Seq(Pointers) /\ m.currentSegment \in 1..Segments
  BY <1>2, ShapeIs
<1>4. /\ p \in ToSet(list) /\ tail \in Seq(Pointers) /\ IsInjective(tail)
      /\ ToSet(tail) = ToSet(list) \ {p}
  BY <1>2, <1>3, TailIs DEF PointersListed
<1>5. p \in Pointers /\ m.ot[p].free /\ m.ot[p] = FreeEntry
  BY <1>3, <1>4 DEF PointersListed, EntryOK
<1>6. PICK e : e = NewEntry(m.currentSegment, location, size)
  OBVIOUS
<1>7. Discardable(e) /\ IsChunk(e) /\ EntryOK(e) /\ e \in Entry
  <2>1. PICK s : s = m.currentSegment
    OBVIOUS
  <2>2. s \in 1..Segments /\ e = NewEntry(s, location, size)
    BY <1>3, <1>6, <2>1
  <2>3. Discardable(e) /\ IsChunk(e)
    BY <2>2, NewEntryIs
  <2> QED
    BY <2>3 DEF Discardable, EntryOK
<1>8. n = [m EXCEPT !.ot[p] = e, !.freePointers = tail]
  BY <1>1, <1>2, <1>6 DEF obtainPointer_location, NewEntry
<1>9. PICK ot2 : ot2 = [m.ot EXCEPT ![p] = e]
  OBVIOUS
<1>10. /\ ot2 \in [Pointers -> Entry] /\ ot2[p] = e /\ \A q \in Pointers : q # p => ot2[q] = m.ot[q]
  BY <1>3, <1>5, <1>7, <1>9
<1>11. n = [m EXCEPT !.ot = ot2, !.freePointers = tail]
  BY <1>3, <1>8, <1>9 DEF Memory
<1>12. /\ n.ot = ot2 /\ n.freePointers = tail /\ n.freeChunks = m.freeChunks
       /\ n.currentSegment = m.currentSegment /\ SameRegisters(m, n)
  BY <1>3, <1>11 DEF Memory, SameRegisters
<1>13. n \in Memory
  BY <1>3, <1>4, <1>10, <1>11 DEF Memory
<1>14. Entries(ot2)
  BY <1>3, <1>7, <1>10 DEF Entries
<1>15. PointersListed(ot2, tail)
  <2>1. \A q \in Pointers : ot2[q].free <=> m.ot[q].free /\ q # p
    BY <1>7, <1>10 DEF IsChunk
  <2> QED
    BY <1>3, <1>4, <2>1 DEF PointersListed
<1>16. ChunksListed(ot2, m.freeChunks, K \cup {p})
  <2>1. ASSUME NEW seg \in 1..Segments, NEW z \in ChunkSizes, NEW o \in ToSet(m.freeChunks[seg][z])
        PROVE  o \notin K \cup {p} /\ ListedAt(ot2[o], seg, z)
    <3>1. o \notin K /\ ListedAt(m.ot[o], seg, z)
      BY <1>3, ListedIs
    <3>2. o # p
      BY <1>5, <3>1 DEF ListedAt, IsChunk
    <3>3. o \in Pointers
      BY <1>3, ListIs
    <3> QED
      BY <1>10, <3>1, <3>2, <3>3
  <2>2. \A o \in Pointers : IsChunk(ot2[o]) /\ o \notin K \cup {p} => IsChunk(m.ot[o]) /\ o \notin K
    BY <1>10
  <2>3. StillListed(m.ot, ot2, m.freeChunks, K, K \cup {p})
    BY <2>1, <2>2 DEF StillListed
  <2> QED
    BY <1>3, <2>3, ListsKeep
<1> QED
  BY <1>1, <1>2, <1>5, <1>6, <1>10, <1>12, <1>13, <1>14, <1>15, <1>16 DEF Obtained, Shape

----------------------------------------------------------------------------
(* A chunk is split in two.                                                  *)

SplitInto(x, y, z, k) ==
  /\ ~x.free /\ ~y.free /\ ~z.free
  /\ y.segment = x.segment /\ z.segment = x.segment
  /\ x.location \in Nat /\ Space(x) \in Nat /\ k \in Nat /\ k <= Space(x)
  /\ y.location = x.location /\ Space(y) = k
  /\ z.location = x.location + k /\ Space(z) = Space(x) - k

LEMMA SplitTiles ==
  ASSUME NEW ot, NEW ot2, Tiled(ot), NEW o \in Pointers, NEW p \in Pointers, ot[p].free,
         NEW k, SplitInto(ot[o], ot2[o], ot2[p], k),
         \A q \in Pointers : q # o /\ q # p => SameExtent(ot[q], ot2[q])
  PROVE  Tiled(ot2)
<1> SUFFICES ASSUME NEW seg \in 1..Segments, NEW w \in HeapWords PROVE TiledAt(ot2, seg, w)
  BY DEF Tiled
<1>1. o # p
  BY DEF SplitInto
<1>2. ASSUME NEW q \in Pointers, q # o, q # p PROVE Occupies(ot2[q], seg, w) <=> Occupies(ot[q], seg, w)
  <2>1. SameExtent(ot[q], ot2[q])
    BY <1>2
  <2> QED
    BY <2>1 DEF SameExtent, Occupies
<1>3. ~Occupies(ot[p], seg, w)
  BY DEF Occupies
<1>4. /\ Occupies(ot2[o], seg, w) \/ Occupies(ot2[p], seg, w) <=> Occupies(ot[o], seg, w)
      /\ ~(Occupies(ot2[o], seg, w) /\ Occupies(ot2[p], seg, w))
  <2>1. PICK x, y, z : x = ot[o] /\ y = ot2[o] /\ z = ot2[p]
    OBVIOUS
  <2>2. PICK a, b : a = x.location /\ b = Space(x)
    OBVIOUS
  <2>3. /\ Occupies(x, seg, w) <=> x.segment = seg /\ a <= w /\ w < a + b
        /\ Occupies(y, seg, w) <=> x.segment = seg /\ a <= w /\ w < a + k
        /\ Occupies(z, seg, w) <=> x.segment = seg /\ a + k <= w /\ w < a + k + (b - k)
        /\ a \in Nat /\ b \in Nat /\ k \in Nat /\ k <= b
    BY <2>1, <2>2 DEF SplitInto, Occupies
  <2>4. w \in Nat
    BY ConstantsAre DEF HeapWords
  <2>5. /\ Occupies(y, seg, w) \/ Occupies(z, seg, w) <=> Occupies(x, seg, w)
        /\ ~(Occupies(y, seg, w) /\ Occupies(z, seg, w))
    BY <2>3, <2>4
  <2> QED
    BY <2>1, <2>5
<1>5. PICK x \in Pointers : Occupies(ot[x], seg, w) /\ \A q \in Pointers : Occupies(ot[q], seg, w) => q = x
  BY DEF Tiled, TiledAt
<1>6. CASE x # o
  BY <1>1, <1>2, <1>3, <1>4, <1>5, <1>6 DEF TiledAt
<1>7. CASE x = o
  BY <1>1, <1>2, <1>3, <1>4, <1>5, <1>7 DEF TiledAt
<1> QED
  BY <1>6, <1>7

----------------------------------------------------------------------------
(* Looking for a chunk in one segment.                                       *)

(* Chunk o of the size has been taken off the lists.                         *)
Taken(m, n, o, size) ==
  /\ o \in Pointers /\ IsChunk(n.ot[o]) /\ n.ot[o].size = size
  /\ Shape(n, {o}) /\ Tiled(n.ot)
  /\ SameContents(m.ot, n.ot) /\ SameRegisters(m, n)

Search(m, t, size) ==
  t = NotFound(m) \/ \E n, o : t = Found(n, o) /\ Taken(m, n, o, size)

LEMMA ContentsRefl ==
  \A ot : SameContents(ot, ot)
BY DEF SameContents, SameContent

LEMMA TakeOffList ==
  ASSUME NEW m, Shape(m, {}), Tiled(m.ot),
         NEW seg \in 1..Segments, NEW index \in ChunkSizes, NEW list \in Seq(Pointers),
         NEW o \in ToSet(m.freeChunks[seg][index]),
         ToSet(list) = ToSet(m.freeChunks[seg][index]) \ {o}, IsInjective(list)
  PROVE  Taken(m, [m EXCEPT !.freeChunks[seg][index] = list], o, m.ot[o].size)
<1>1. PICK c, c2, ot : c = m.freeChunks /\ c2 = Relisted(c, seg, index, list) /\ ot = m.ot
  OBVIOUS
<1>2. PICK n : n = [m EXCEPT !.freeChunks[seg][index] = list]
  OBVIOUS
<1>3. /\ m \in Memory /\ c \in Lists /\ ChunksListed(ot, c, {}) /\ Entries(ot)
      /\ PointersListed(ot, m.freePointers)
  BY <1>1, ShapeIs
<1>4. n = [m EXCEPT !.freeChunks = c2]
  BY <1>1, <1>2, <1>3 DEF Relisted, Memory
<1>5. PICK K : K = {}
  OBVIOUS
<1>6. o \in ToSet(c[seg][index]) /\ ToSet(list) = ToSet(c[seg][index]) \ {o} /\ ChunksListed(ot, c, K)
  BY <1>1, <1>3, <1>5
<1>7. c2 \in Lists /\ ChunksListed(ot, c2, K \cup {o})
  BY <1>1, <1>3, <1>6, ListedLess
<1>8. K \cup {o} = {o}
  BY <1>5
<1>9. n \in Memory /\ n.ot = ot /\ n.freeChunks = c2 /\ n.freePointers = m.freePointers
      /\ SameRegisters(m, n)
  BY <1>1, <1>3, <1>4, <1>7 DEF Memory, Lists, SameRegisters
<1>10. Shape(n, {o})
  BY <1>3, <1>7, <1>8, <1>9 DEF Shape
<1>11. o \in Pointers /\ IsChunk(ot[o])
  <2>1. o \in Pointers
    BY <1>1, <1>3, ListIs
  <2>2. ListedAt(ot[o], seg, index)
    BY <1>6, ListedIs
  <2> QED
    BY <2>1, <2>2 DEF ListedAt
<1> QED
  BY <1>1, <1>2, <1>9, <1>10, <1>11, ContentsRefl DEF Taken

(* The rest of a big chunk of which the last words are taken.                *)
LEMMA ShortenedIs ==
  ASSUME NEW e, EntryOK(e), IsChunk(e), NEW k \in Nat, k >= 2, k <= e.size
  PROVE  LET y == [e EXCEPT !.size = k]
         IN  /\ EntryOK(y) /\ y \in Entry /\ IsChunk(y) /\ SameContent(e, y) /\ Space(y) = k
             /\ y.segment = e.segment /\ y.location = e.location /\ y.size = k
<1>1. PICK y : y = [e EXCEPT !.size = k]
  OBVIOUS
<1>2. e \in Entry /\ e.class = NilPointer /\ ~e.free /\ Space(e) = e.size
  BY DEF EntryOK, IsChunk, Space
<1>3. e.size \in Nat /\ e.location \in Nat /\ e.location + e.size <= SegmentWords
  BY <1>2, ChunkLies
<1>4. PICK a, b : a = e.size /\ b = e.location
  OBVIOUS
<1>5. k \in 0..SegmentWords /\ b + k <= SegmentWords
  BY <1>3, <1>4, ConstantsAre
<1>6. /\ y \in Entry
      /\ y.free = e.free /\ y.count = e.count /\ y.pointer = e.pointer /\ y.segment = e.segment
      /\ y.location = e.location /\ y.size = k /\ y.class = e.class /\ y.field = e.field
  BY <1>1, <1>2, <1>5 DEF Entry
<1>7. Space(y) = k
  BY <1>2, <1>6 DEF Space
<1>8. EntryOK(y)
  BY <1>2, <1>4, <1>5, <1>6, <1>7 DEF EntryOK, HeaderSize
<1> QED
  BY <1>1, <1>2, <1>6, <1>7, <1>8 DEF IsChunk, SameContent

LEMMA SplitChunk ==
  ASSUME NEW m, Shape(m, {}), Tiled(m.ot), m.freePointers # <<>>,
         NEW o \in ToSet(m.freeChunks[m.currentSegment][BigSize]),
         NEW size \in Nat, size >= 2, m.ot[o].size - size >= 2
  PROVE  LET excess == m.ot[o].size - size
         IN  Taken(m, [obtainPointer_location(m, size, m.ot[o].location + excess)
                         EXCEPT !.ot[o].size = excess], Head(m.freePointers), size)
<1>1. PICK c, ot, seg : c = m.freeChunks /\ ot = m.ot /\ seg = m.currentSegment
  OBVIOUS
<1>2. PICK e : e = ot[o]
  OBVIOUS
<1>3. PICK a, b : a = e.size /\ b = e.location
  OBVIOUS
<1>4. PICK k : k = a - size
  OBVIOUS
<1>5. /\ m \in Memory /\ c \in Lists /\ ChunksListed(ot, c, {}) /\ Entries(ot) /\ seg \in 1..Segments
      /\ \A q \in Pointers : EntryOK(ot[q])
  BY <1>1, ShapeIs
<1>6. BigSize \in ChunkSizes
  BY ConstantsAre
<1>7. o \in Pointers /\ ListedAt(e, seg, BigSize)
  <2>1. o \in ToSet(c[seg][BigSize])
    BY <1>1
  <2>2. o \in Pointers
    BY <1>5, <1>6, <2>1, ListIs
  <2> QED
    BY <1>2, <1>5, <1>6, <2>1, <2>2, ListedIs
<1>8. EntryOK(e) /\ IsChunk(e) /\ e.segment = seg /\ ~e.free /\ Space(e) = a
  BY <1>2, <1>3, <1>5, <1>7 DEF ListedAt, IsChunk, Space
<1>9. a \in Nat /\ b \in Nat /\ b + a <= SegmentWords
  BY <1>3, <1>8, ChunkLies
<1>10. k \in Nat /\ k >= 2 /\ k <= a /\ b + k \in Nat /\ b + k + size <= SegmentWords /\ a - k = size
  <2>1. a - size >= 2
    BY <1>1, <1>2, <1>3
  <2> QED
    BY <1>4, <1>9, <2>1, ConstantsAre
<1>11. PICK n, p : n = obtainPointer_location(m, size, b + k) /\ p = Head(m.freePointers)
  OBVIOUS
<1>12. Obtained(m, n, p, size, b + k, {})
  <2>1. PICK K, l : K = {} /\ l = b + k
    OBVIOUS
  <2>2. Shape(m, K) /\ l \in Nat /\ l + size <= SegmentWords /\ n = obtainPointer_location(m, size, l)
    BY <1>10, <1>11, <2>1
  <2>3. Obtained(m, n, p, size, l, K)
    BY <1>11, <2>2, ObtainPointer
  <2> QED
    BY <2>1, <2>3
<1>13. PICK z, y : z = NewEntry(seg, b + k, size) /\ y = [e EXCEPT !.size = k]
  OBVIOUS
<1>14. /\ p \in Pointers /\ ot[p].free /\ ot[p] = FreeEntry
       /\ Shape(n, {} \cup {p}) /\ n.ot[p] = z /\ \A q \in Pointers : q # p => n.ot[q] = ot[q]
       /\ n.freeChunks = c /\ SameRegisters(m, n)
  BY <1>1, <1>12, <1>13 DEF Obtained
<1>15. Discardable(z) /\ IsChunk(z) /\ z.segment = seg /\ z.location = b + k /\ z.size = size
       /\ Space(z) = size /\ z.count = 0 /\ z.field = <<>>
  <2>1. PICK l : l = b + k
    OBVIOUS
  <2>2. l \in Nat /\ l + size <= SegmentWords /\ z = NewEntry(seg, l, size)
    BY <1>10, <1>13, <2>1
  <2> QED
    BY <1>5, <2>1, <2>2, NewEntryIs
<1>16. /\ EntryOK(y) /\ y \in Entry /\ IsChunk(y) /\ SameContent(e, y) /\ Space(y) = k
       /\ y.segment = e.segment /\ y.location = e.location /\ y.size = k
  BY <1>3, <1>8, <1>10, <1>13, ShortenedIs
<1>17. o # p /\ n.ot[o] = e
  BY <1>2, <1>7, <1>8, <1>14
<1>18. /\ n \in Memory /\ n.ot \in [Pointers -> Entry] /\ \A q \in Pointers : EntryOK(n.ot[q])
       /\ ChunksListed(n.ot, c, {} \cup {p}) /\ PointersListed(n.ot, n.freePointers)
  BY <1>14, ShapeIs
<1>19. PICK r, ot2 : r = [n EXCEPT !.ot[o].size = k] /\ ot2 = [n.ot EXCEPT ![o] = y]
  OBVIOUS
<1>20. r = [n EXCEPT !.ot = ot2]
  BY <1>7, <1>13, <1>17, <1>18, <1>19 DEF Memory
<1>21. /\ ot2 \in [Pointers -> Entry] /\ ot2[o] = y /\ ot2[p] = z
       /\ \A q \in Pointers : q # o => ot2[q] = n.ot[q]
       /\ \A q \in Pointers : q # o /\ q # p => ot2[q] = ot[q]
  BY <1>7, <1>14, <1>16, <1>17, <1>18, <1>19
<1>22. /\ r \in Memory /\ r.ot = ot2 /\ r.freeChunks = c /\ r.freePointers = n.freePointers
       /\ SameRegisters(n, r)
  BY <1>14, <1>18, <1>20, <1>21 DEF Memory, SameRegisters
<1>23. Entries(ot2)
  BY <1>16, <1>18, <1>21 DEF Entries
<1>24. PointersListed(ot2, n.freePointers)
  <2>1. \A q \in Pointers : ot2[q].free = n.ot[q].free
    BY <1>8, <1>16, <1>17, <1>21, <1>18 DEF IsChunk, EntryOK, Entry
  <2> QED
    BY <1>18, <2>1 DEF PointersListed
<1>25. ChunksListed(ot2, c, {} \cup {p})
  <2>1. ASSUME NEW s \in 1..Segments, NEW w \in ChunkSizes, NEW q \in ToSet(c[s][w])
        PROVE  q \notin {} \cup {p} /\ ListedAt(ot2[q], s, w)
    <3>1. q \notin {} \cup {p} /\ ListedAt(n.ot[q], s, w)
      BY <1>18, ListedIs
    <3>2. q \in Pointers
      BY <1>5, ListIs
    <3>3. CASE q # o
      BY <1>21, <3>1, <3>2, <3>3
    <3>4. CASE q = o
      <4>1. s = seg
        BY <1>8, <1>17, <3>1, <3>4 DEF ListedAt
      <4>2. q \in ToSet(c[seg][BigSize])
        BY <1>1, <3>4
      <4>3. w = BigSize
        BY <1>5, <1>6, <4>1, <4>2 DEF ChunksListed
      <4>4. ~(w < BigSize)
        BY <4>3, ConstantsAre
      <4> QED
        BY <1>8, <1>16, <1>21, <3>1, <3>4, <4>1, <4>4 DEF ListedAt
    <3> QED
      BY <3>3, <3>4
  <2>2. \A q \in Pointers : IsChunk(ot2[q]) /\ q \notin {} \cup {p} => IsChunk(n.ot[q]) /\ q \notin {} \cup {p}
    BY <1>8, <1>17, <1>21
  <2>3. StillListed(n.ot, ot2, c, {} \cup {p}, {} \cup {p})
    BY <2>1, <2>2 DEF StillListed
  <2> QED
    BY <1>18, <2>3, ListsKeep
<1>26. Shape(r, {p})
  <2>1. {} \cup {p} = {p}
    OBVIOUS
  <2> QED
    BY <1>22, <1>23, <1>24, <1>25, <2>1 DEF Shape
<1>27. Tiled(ot2)
  <2>1. SplitInto(ot[o], ot2[o], ot2[p], k)
    BY <1>2, <1>3, <1>8, <1>9, <1>10, <1>15, <1>16, <1>21 DEF SplitInto, IsChunk
  <2>2. \A q \in Pointers : q # o /\ q # p => SameExtent(ot[q], ot2[q])
    BY <1>21 DEF SameExtent
  <2>3. Tiled(ot)
    BY <1>1
  <2> QED
    BY <1>7, <1>14, <2>1, <2>2, <2>3, SplitTiles
<1>28. SameContents(ot, ot2)
  <2>1. SameContent(ot[p], ot2[p])
    BY <1>14, <1>15, <1>21, FreeEntryIs DEF SameContent, IsChunk
  <2>2. SameContent(ot[o], ot2[o])
    BY <1>2, <1>16, <1>21
  <2>3. \A q \in Pointers : q # o /\ q # p => SameContent(ot[q], ot2[q])
    BY <1>21 DEF SameContent
  <2> QED
    BY <2>1, <2>2, <2>3 DEF SameContents
<1>29. SameRegisters(m, r)
  BY <1>14, <1>22 DEF SameRegisters
<1>30. Taken(m, r, p, size)
  BY <1>1, <1>14, <1>15, <1>21, <1>22, <1>26, <1>27, <1>28, <1>29 DEF Taken
<1>31. m.ot[o].size - size = k /\ m.ot[o].location = b
  BY <1>1, <1>2, <1>3, <1>4
<1> QED
  BY <1>11, <1>19, <1>30, <1>31, Zenon

LEMMA AttemptInSegment ==
  ASSUME NEW m, Shape(m, {}), Tiled(m.ot), NEW size \in Nat, size >= 2
  PROVE  Search(m, attemptToAllocateChunkInCurrentSegment(m, size), size)
<1> DEFINE seg == m.currentSegment
           exact == IF size < BigSize THEN m.freeChunks[seg][size] ELSE <<>>
           big == m.freeChunks[seg][BigSize]
           usable == {i \in DOMAIN big : fits(m.ot[big[i]], size)}
           Take(i) == Found([m EXCEPT !.freeChunks[seg][BigSize] = RemoveAt(@, i)], big[i])
           Split(o, excess) ==
             Found([obtainPointer_location(m, size, m.ot[o].location + excess)
                      EXCEPT !.ot[o].size = excess], Head(m.freePointers))
           Use(i) == IF m.ot[big[i]].size = size THEN Take(i)
                     ELSE IF m.freePointers = <<>> THEN NotFound(m)
                     ELSE Split(big[i], m.ot[big[i]].size - size)
<1>0. PICK t : t = attemptToAllocateChunkInCurrentSegment(m, size)
  OBVIOUS
<1> SUFFICES Search(m, t, size)
  BY <1>0
<1>1. t = IF exact # <<>> THEN Found([m EXCEPT !.freeChunks[seg][size] = Tail(@)], Head(exact))
          ELSE IF usable = {} THEN NotFound(m)
          ELSE Use(Min(usable))
  BY <1>0 DEF attemptToAllocateChunkInCurrentSegment
<1>2. /\ seg \in 1..Segments /\ m.freeChunks \in Lists /\ m \in Memory
      /\ ChunksListed(m.ot, m.freeChunks, {}) /\ BigSize \in ChunkSizes
      /\ \A q \in Pointers : EntryOK(m.ot[q])
  BY ShapeIs, ConstantsAre
<1>3. CASE exact # <<>>
  <2>1. size < BigSize /\ size \in ChunkSizes /\ exact = m.freeChunks[seg][size]
    BY <1>3, ConstantsAre
  <2> HIDE DEF seg
  <2>2. PICK list, o, s : list = m.freeChunks[s][size] /\ o = Head(list) /\ s = seg
    OBVIOUS
  <2>3. list \in Seq(Pointers) /\ list # <<>> /\ list = exact
    BY <1>2, <1>3, <2>1, <2>2, ListIs
  <2>4. ListSound(m.ot, {}, list, s, size)
    BY <1>2, <2>1, <2>2 DEF ChunksListed
  <2>5. IsInjective(list)
    BY <2>4 DEF ListSound
  <2>6. o \in ToSet(list) /\ Tail(list) \in Seq(Pointers) /\ IsInjective(Tail(list))
        /\ ToSet(Tail(list)) = ToSet(list) \ {o}
    BY <2>2, <2>3, <2>5, TailIs
  <2>7. m.ot[o].size = size
    BY <2>1, <2>4, <2>6 DEF ListSound, ListedAt
  <2>8. PICK tail : tail = Tail(list)
    OBVIOUS
  <2>9. /\ tail \in Seq(Pointers) /\ IsInjective(tail) /\ o \in ToSet(m.freeChunks[s][size])
        /\ ToSet(tail) = ToSet(m.freeChunks[s][size]) \ {o} /\ s \in 1..Segments
    BY <1>2, <2>2, <2>6, <2>8
  <2>10. Taken(m, [m EXCEPT !.freeChunks[s][size] = tail], o, m.ot[o].size)
    BY <2>1, <2>9, TakeOffList
  <2>11. [m EXCEPT !.freeChunks[s][size] = tail] = [m EXCEPT !.freeChunks[seg][size] = Tail(@)]
    BY <1>2, <2>1, <2>2, <2>8 DEF Memory
  <2>12. t = Found([m EXCEPT !.freeChunks[s][size] = tail], o)
    BY <1>1, <1>3, <2>2, <2>3, <2>11
  <2> HIDE DEF exact, big, usable, Use
  <2> QED
    BY <2>7, <2>10, <2>12 DEF Search
<1>4. CASE exact = <<>> /\ usable = {}
  <2>1. t = NotFound(m)
    BY <1>1, <1>4, Zenon
  <2> QED
    BY <2>1 DEF Search
<1>5. CASE exact = <<>> /\ usable # {}
  <2>1. PICK i : i = Min(usable)
    OBVIOUS
  <2>2. t = Use(i)
    <3> HIDE DEF Use, exact, usable
    <3> QED
      BY <1>1, <1>5, <2>1
  <2> HIDE DEF exact
  <2>3. PICK s : s = seg
    OBVIOUS
  <2>4. PICK list, o : list = m.freeChunks[s][BigSize] /\ o = list[i]
    OBVIOUS
  <2>5. s \in 1..Segments /\ list \in Seq(Pointers) /\ big = list
    BY <1>2, <2>3, <2>4, ListIs
  <2>6. i \in DOMAIN list /\ fits(m.ot[o], size)
    <3>1. DOMAIN list = 1..Len(list) /\ Len(list) \in Nat
      BY <2>5
    <3>2. usable \in SUBSET Nat
      BY <2>5, <3>1
    <3>3. i \in usable
      <4> HIDE DEF usable
      <4> QED
        BY <1>5, <2>1, <3>2, MinIs
    <3> QED
      BY <2>4, <2>5, <3>3
  <2>7. ListSound(m.ot, {}, list, s, BigSize)
    BY <1>2, <2>4, <2>5 DEF ChunksListed
  <2>8. IsInjective(list) /\ o \in ToSet(list) /\ IsChunk(m.ot[o])
    <3>1. o \in ToSet(list)
      BY <2>4, <2>6 DEF ToSet
    <3> QED
      BY <2>7, <3>1 DEF ListSound, ListedAt
  <2>9. o \in ToSet(m.freeChunks[s][BigSize]) /\ o \in Pointers
    BY <2>4, <2>5, <2>8, ElementsAre
  <2>10. CASE m.ot[o].size = size
    <3>1. PICK less : less = RemoveAt(list, i)
      OBVIOUS
    <3>2. less \in Seq(Pointers) /\ IsInjective(less) /\ ToSet(less) = ToSet(list) \ {o}
      BY <2>4, <2>5, <2>6, <2>8, <3>1, RemoveIs
    <3>3. ToSet(less) = ToSet(m.freeChunks[s][BigSize]) \ {o}
      BY <2>4, <3>2
    <3>4. Taken(m, [m EXCEPT !.freeChunks[s][BigSize] = less], o, m.ot[o].size)
      BY <1>2, <2>5, <2>9, <3>2, <3>3, TakeOffList
    <3>5. [m EXCEPT !.freeChunks[s][BigSize] = less] = [m EXCEPT !.freeChunks[seg][BigSize] = RemoveAt(@, i)]
      BY <1>2, <2>3, <2>4, <3>1 DEF Memory
    <3>6. t = Found([m EXCEPT !.freeChunks[s][BigSize] = less], o)
      BY <2>2, <2>4, <2>5, <2>10, <3>5
    <3> QED
      BY <2>10, <3>4, <3>6 DEF Search
  <2>11. CASE m.ot[o].size # size /\ m.freePointers = <<>>
    <3>1. t = NotFound(m)
      BY <2>2, <2>4, <2>5, <2>11
    <3> QED
      BY <3>1 DEF Search
  <2>12. CASE m.ot[o].size # size /\ m.freePointers # <<>>
    <3>1. m.ot[o].size - size >= 2
      BY <2>6, <2>12 DEF fits, HeaderSize
    <3>2. o \in ToSet(m.freeChunks[m.currentSegment][BigSize])
      BY <2>3, <2>9
    <3>3. PICK excess : excess = m.ot[o].size - size
      OBVIOUS
    <3>4. PICK n, p : n = [obtainPointer_location(m, size, m.ot[o].location + excess) EXCEPT !.ot[o].size = excess]
                      /\ p = Head(m.freePointers)
      OBVIOUS
    <3>5. Taken(m, n, p, size)
      BY <2>12, <3>1, <3>2, <3>3, <3>4, SplitChunk
    <3>6. t = Found(n, p)
      BY <2>2, <2>4, <2>5, <2>12, <3>3, <3>4
    <3> QED
      BY <3>5, <3>6 DEF Search
  <2> QED
    BY <2>10, <2>11, <2>12
<1> QED
  BY <1>3, <1>4, <1>5

----------------------------------------------------------------------------
(* The free chunks of a segment.                                             *)

LEMMA ConcatIs ==
  ASSUME NEW S, NEW s \in Seq(S), NEW t \in Seq(S)
  PROVE  /\ s \o t \in Seq(S)
         /\ ToSet(s \o t) = ToSet(s) \cup ToSet(t)
         /\ IsInjective(s) /\ IsInjective(t) /\ ToSet(s) \cap ToSet(t) = {} => IsInjective(s \o t)
<1>1. PICK u, k : u = s \o t /\ k = Len(s)
  OBVIOUS
<1>2. /\ u \in Seq(S) /\ DOMAIN u = 1..k + Len(t) /\ k \in Nat /\ Len(t) \in Nat
      /\ DOMAIN s = 1..k /\ DOMAIN t = 1..Len(t)
      /\ \A i \in 1..k + Len(t) : u[i] = IF i <= k THEN s[i] ELSE t[i - k]
  BY <1>1
<1>3. ASSUME NEW i \in DOMAIN u
      PROVE  \/ i \in DOMAIN s /\ u[i] = s[i]
             \/ i > k /\ i - k \in DOMAIN t /\ u[i] = t[i - k]
  <2>1. CASE i <= k
    BY <1>2, <2>1
  <2>2. CASE ~(i <= k)
    BY <1>2, <2>2
  <2> QED
    BY <2>1, <2>2
<1>4. \A i \in DOMAIN s : i \in DOMAIN u /\ u[i] = s[i]
  BY <1>2
<1>5. ASSUME NEW i \in DOMAIN t PROVE i + k \in DOMAIN u /\ u[i + k] = t[i]
  <2>1. i + k \in 1..k + Len(t) /\ ~(i + k <= k) /\ (i + k) - k = i
    BY <1>2
  <2> QED
    BY <1>2, <2>1
<1>6. ASSUME NEW x PROVE x \in ToSet(u) <=> x \in ToSet(s) \cup ToSet(t)
  <2>1. x \in ToSet(u) => x \in ToSet(s) \cup ToSet(t)
    BY <1>3 DEF ToSet
  <2>2. x \in ToSet(s) => x \in ToSet(u)
    BY <1>4 DEF ToSet
  <2>3. x \in ToSet(t) => x \in ToSet(u)
    BY <1>5 DEF ToSet
  <2> QED
    BY <2>1, <2>2, <2>3
<1>7. ASSUME IsInjective(s), IsInjective(t), ToSet(s) \cap ToSet(t) = {},
             NEW i \in DOMAIN u, NEW j \in DOMAIN u, u[i] = u[j]
      PROVE  i = j
  <2>1. /\ \A a, b \in DOMAIN s : s[a] = s[b] => a = b
        /\ \A a, b \in DOMAIN t : t[a] = t[b] => a = b
    BY <1>7, Zenon DEF IsInjective
  <2>2. \A a \in DOMAIN s, b \in DOMAIN t : s[a] # t[b]
    BY <1>7 DEF ToSet
  <2>3. i \in Int /\ j \in Int /\ k \in Int
    BY <1>2
  <2>4. i \in DOMAIN s /\ j \in DOMAIN s => i = j
    BY <1>4, <1>7, <2>1
  <2>5. i > k /\ i - k \in DOMAIN t /\ u[i] = t[i - k] /\ j > k /\ j - k \in DOMAIN t /\ u[j] = t[j - k] => i = j
    <3>1. PICK a, b : a = i - k /\ b = j - k
      OBVIOUS
    <3>2. a = b => i = j
      BY <2>3, <3>1
    <3> QED
      BY <1>7, <2>1, <3>1, <3>2
  <2> QED
    BY <1>3, <1>7, <2>2, <2>4, <2>5
<1>8. IsInjective(s) /\ IsInjective(t) /\ ToSet(s) \cap ToSet(t) = {} => IsInjective(u)
  BY <1>7 DEF IsInjective
<1> QED
  BY <1>1, <1>2, <1>6, <1>8

gathering(m, seg, f) ==
  [size \in (HeaderSize - 1)..BigSize |->
     IF size < HeaderSize THEN <<>> ELSE f[size - 1] \o m.freeChunks[seg][size]]
gathered(m, seg) == CHOOSE f : f = gathering(m, seg, f)

LEMMA Gathering ==
  ASSUME NEW m, NEW seg
  PROVE  gathered(m, seg) = gathering(m, seg, gathered(m, seg))
<1> DEFINE step(f, i) == IF i < HeaderSize THEN <<>> ELSE f[i - 1] \o m.freeChunks[seg][i]
           E == {k \in Nat : \E f : f = [i \in 1..k |-> step(f, i)]}
<1>1. BigSize \in Nat /\ (HeaderSize - 1)..BigSize = 1..BigSize
  BY ConstantsAre
<1>2. 0 \in E
  <2>1. [i \in 1..0 |-> 0] = [i \in 1..0 |-> step([j \in 1..0 |-> 0], i)]
    <3> HIDE DEF step
    <3> QED
      OBVIOUS
  <2> HIDE DEF step
  <2> QED
    BY <2>1
<1>3. ASSUME NEW k \in 0..BigSize - 1, k \in E PROVE k + 1 \in E
  <2>1. PICK f : f = [i \in 1..k |-> step(f, i)]
    BY <1>3
  <2> DEFINE g == [i \in 1..k + 1 |-> step(f, i)]
  <2>2. k \in Nat /\ k + 1 \in Nat
    BY <1>1
  <2>3. \A i \in 1..k : g[i] = f[i]
    <3> HIDE DEF step
    <3> QED
      BY <2>1, <2>2
  <2>4. \A i \in 1..k + 1 : step(f, i) = step(g, i)
    <3> HIDE DEF g
    <3>1. \A i \in 1..k + 1 : ~(i < HeaderSize) => i - 1 \in 1..k
      BY <2>2 DEF HeaderSize
    <3> QED
      BY <2>3, <3>1
  <2>5. g = [i \in 1..k + 1 |-> step(g, i)]
    <3>1. g = [i \in 1..k + 1 |-> g[i]]
      BY Zenon
    <3>2. \A i \in 1..k + 1 : g[i] = step(f, i)
      BY Zenon
    <3> HIDE DEF g, step
    <3> QED
      BY <2>4, <3>1, <3>2
  <2> HIDE DEF g, step
  <2> QED
    BY <2>2, <2>5
<1>4. BigSize \in E
  <2> HIDE DEF E
  <2>1. 0..BigSize \subseteq E
    BY <1>1, <1>2, <1>3, InductionTo
  <2> QED
    BY <1>1, <2>1
<1>5. PICK f : f = [i \in 1..BigSize |-> step(f, i)]
  BY <1>4, Zenon
<1>6. f = gathering(m, seg, f)
  BY <1>1, <1>5 DEF gathering
<1> QED
  BY <1>6, Zenon DEF gathered

(* What has been gathered from the lists up to a size.                       *)
GatheredTo(c, seg, size, list) ==
  /\ list \in Seq(Pointers) /\ IsInjective(list)
  /\ \A o : o \in ToSet(list) <=> \E z \in ChunkSizes : z <= size /\ o \in ToSet(c[seg][z])

LEMMA FreeChunksOf ==
  ASSUME NEW m, NEW ot, NEW K, NEW c, c = m.freeChunks, c \in Lists, ChunksListed(ot, c, K),
         NEW seg \in 1..Segments
  PROVE  GatheredTo(c, seg, BigSize, freeChunksOf(m, seg))
<1>1. PICK f : f = gathered(m, seg)
  OBVIOUS
<1>2. f = gathering(m, seg, f)
  BY <1>1, Gathering
<1>3. /\ f[1] = <<>>
      /\ \A k \in 2..BigSize : f[k] = f[k - 1] \o c[seg][k]
  <2>1. /\ 1 \in (HeaderSize - 1)..BigSize
        /\ \A k \in 2..BigSize : k \in (HeaderSize - 1)..BigSize /\ ~(k < HeaderSize)
        /\ 1 < HeaderSize
    BY ConstantsAre
  <2> QED
    BY <1>2, <2>1 DEF gathering
<1> DEFINE S == {k \in Nat : GatheredTo(c, seg, k + 1, f[k + 1])}
<1>4. 0 \in S
  <2>1. GatheredTo(c, seg, 1, <<>>)
    <3>1. \A z \in ChunkSizes : ~(z <= 1)
      BY ConstantsAre
    <3> QED
      BY <3>1, EmptyIs DEF GatheredTo
  <2>2. f[0 + 1] = <<>>
    BY <1>3
  <2> QED
    BY <2>1, <2>2
<1>5. ASSUME NEW k \in 0..(BigSize - 1) - 1, k \in S PROVE k + 1 \in S
  <2>1. PICK j : j = k + 2
    OBVIOUS
  <2>2. j \in 2..BigSize /\ j \in ChunkSizes /\ k + 1 = j - 1 /\ (k + 1) + 1 = j /\ k + 1 \in Nat /\ k + 1 \in Int
    BY <2>1, ConstantsAre
  <2>3. PICK old, more : old = f[k + 1] /\ more = c[seg][j]
    OBVIOUS
  <2>4. old \in Seq(Pointers) /\ IsInjective(old)
        /\ \A o : o \in ToSet(old) <=> \E z \in ChunkSizes : z <= k + 1 /\ o \in ToSet(c[seg][z])
    BY <1>5, <2>3 DEF GatheredTo
  <2>5. more \in Seq(Pointers) /\ IsInjective(more)
    <3>1. ListSound(ot, K, more, seg, j)
      BY <2>2, <2>3 DEF ChunksListed
    <3> QED
      BY <2>2, <2>3, <3>1, ListIs DEF ListSound
  <2>6. ToSet(old) \cap ToSet(more) = {}
    <3>1. ASSUME NEW o, o \in ToSet(old), o \in ToSet(more) PROVE FALSE
      <4>1. PICK z \in ChunkSizes : z <= k + 1 /\ o \in ToSet(c[seg][z])
        BY <2>4, <3>1
      <4>2. z # j
        BY <2>2, <4>1, ConstantsAre
      <4>3. ToSet(c[seg][z]) \cap ToSet(c[seg][j]) = {}
        BY <2>2, <4>2 DEF ChunksListed
      <4> QED
        BY <2>3, <3>1, <4>1, <4>3
    <3> QED
      BY <3>1
  <2>7. old \o more \in Seq(Pointers) /\ IsInjective(old \o more)
        /\ ToSet(old \o more) = ToSet(old) \cup ToSet(more)
    BY <2>4, <2>5, <2>6, ConcatIs
  <2>8. ASSUME NEW o PROVE o \in ToSet(old \o more) <=> \E z \in ChunkSizes : z <= j /\ o \in ToSet(c[seg][z])
    <3>1. \A z \in ChunkSizes : z <= j <=> z <= k + 1 \/ z = j
      BY <2>2, ConstantsAre
    <3> QED
      BY <2>2, <2>3, <2>4, <2>7, <3>1
  <2>9. f[j] = old \o more
    BY <1>3, <2>2, <2>3
  <2>10. GatheredTo(c, seg, j, f[j])
    BY <2>7, <2>8, <2>9 DEF GatheredTo
  <2> QED
    BY <2>2, <2>10
<1>6. BigSize - 1 \in S
  <2>1. BigSize - 1 \in Nat
    BY ConstantsAre
  <2> HIDE DEF S
  <2>2. 0..BigSize - 1 \subseteq S
    BY <1>4, <1>5, <2>1, InductionTo
  <2> QED
    BY <2>1, <2>2
<1>7. (BigSize - 1) + 1 = BigSize
  BY ConstantsAre
<1>8. GatheredTo(c, seg, BigSize, f[BigSize])
  BY <1>6, <1>7
<1>9. freeChunksOf(m, seg) = f[BigSize]
  BY <1>1 DEF freeChunksOf, gathered, gathering
<1> QED
  BY <1>8, <1>9

(* They are the chunks of the segment that are on a list.                    *)
LEMMA FreeChunksAre ==
  ASSUME NEW m, NEW K, Shape(m, K), NEW seg \in 1..Segments
  PROVE  /\ freeChunksOf(m, seg) \in Seq(Pointers) /\ IsInjective(freeChunksOf(m, seg))
         /\ ToSet(freeChunksOf(m, seg)) =
               {o \in Pointers : IsChunk(m.ot[o]) /\ m.ot[o].segment = seg /\ o \notin K}
<1>1. PICK c, ot, list : c = m.freeChunks /\ ot = m.ot /\ list = freeChunksOf(m, seg)
  OBVIOUS
<1>2. c \in Lists /\ ChunksListed(ot, c, K)
  BY <1>1, ShapeIs
<1>3. GatheredTo(c, seg, BigSize, list)
  BY <1>1, <1>2, FreeChunksOf
<1>4. \A o : o \in ToSet(list) <=> \E z \in ChunkSizes : o \in ToSet(c[seg][z])
  <2>1. \A z \in ChunkSizes : z <= BigSize
    BY ConstantsAre
  <2> QED
    BY <1>3, <2>1 DEF GatheredTo
<1>5. ASSUME NEW o, o \in ToSet(list)
      PROVE  o \in Pointers /\ IsChunk(ot[o]) /\ ot[o].segment = seg /\ o \notin K
  <2>1. PICK z \in ChunkSizes : o \in ToSet(c[seg][z])
    BY <1>4, <1>5
  <2>2. o \in Pointers
    BY <1>2, <2>1, ListIs
  <2> QED
    BY <1>2, <2>1, <2>2, ListedIs DEF ListedAt
<1>6. ASSUME NEW o \in Pointers, IsChunk(ot[o]), ot[o].segment = seg, o \notin K
      PROVE  o \in ToSet(list)
  <2>1. IsListed(c, o)
    BY <1>2, <1>6 DEF ChunksListed
  <2>2. PICK s \in 1..Segments, z \in ChunkSizes : o \in ToSet(c[s][z])
    BY <2>1 DEF IsListed
  <2>3. s = seg
    BY <1>2, <1>6, <2>2, ListedIs DEF ListedAt
  <2> QED
    BY <1>4, <2>2, <2>3
<1>7. list \in Seq(Pointers) /\ IsInjective(list)
  BY <1>3 DEF GatheredTo
<1> QED
  BY <1>1, <1>5, <1>6, <1>7

----------------------------------------------------------------------------
(* abandonFreeChunksInSegment.                                               *)

releasing(m, chunks, f) ==
  [n \in 0..Len(chunks) |-> IF n = 0 THEN m ELSE releasePointer(f[n - 1], chunks[n])]
released(m, chunks) == CHOOSE f : f = releasing(m, chunks, f)

LEMMA Releasing ==
  ASSUME NEW m, NEW chunks, Len(chunks) \in Nat
  PROVE  released(m, chunks) = releasing(m, chunks, released(m, chunks))
<1> DEFINE N == Len(chunks)
           step(f, i) == IF i = 0 THEN m ELSE releasePointer(f[i - 1], chunks[i])
           E == {k \in Nat : \E f : f = [i \in 0..k |-> step(f, i)]}
<1>1. 0 \in E
  <2>1. [i \in 0..0 |-> m] = [i \in 0..0 |-> step([j \in 0..0 |-> m], i)]
    OBVIOUS
  <2> QED
    BY <2>1
<1>2. ASSUME NEW k \in 0..N - 1, k \in E PROVE k + 1 \in E
  <2>1. PICK f : f = [i \in 0..k |-> step(f, i)]
    BY <1>2
  <2> DEFINE g == [i \in 0..k + 1 |-> step(f, i)]
  <2>2. k \in Nat /\ k + 1 \in Nat
    OBVIOUS
  <2>3. \A i \in 0..k : g[i] = f[i]
    <3> HIDE DEF step
    <3> QED
      BY <2>1, <2>2
  <2>4. \A i \in 0..k + 1 : step(f, i) = step(g, i)
    <3> HIDE DEF g
    <3> QED
      BY <2>2, <2>3
  <2>5. g = [i \in 0..k + 1 |-> step(g, i)]
    <3>1. g = [i \in 0..k + 1 |-> g[i]]
      BY Zenon
    <3>2. \A i \in 0..k + 1 : g[i] = step(f, i)
      BY Zenon
    <3> HIDE DEF g, step
    <3> QED
      BY <2>4, <3>1, <3>2
  <2> HIDE DEF g, step
  <2> QED
    BY <2>2, <2>5
<1>3. N \in E
  <2> HIDE DEF E, N
  <2>1. N \in Nat
    BY DEF N
  <2>2. 0..N \subseteq E
    BY <1>1, <1>2, <2>1, InductionTo
  <2> QED
    BY <2>1, <2>2
<1>4. PICK f : f = releasing(m, chunks, f)
  BY <1>3, Zenon DEF releasing
<1> QED
  BY <1>4, Zenon DEF released

(* After n of the chunks: their entries are free and on the list.            *)
ReleasedTo(m, x, chunks, n) ==
  /\ x = [m EXCEPT !.ot = x.ot, !.freePointers = x.freePointers]
  /\ x.ot \in [Pointers -> Entry]
  /\ \A o \in Pointers : \/ x.ot[o] = FreeEntry /\ \E i \in 1..n : chunks[i] = o
                         \/ x.ot[o] = m.ot[o] /\ \A i \in 1..n : chunks[i] # o
  /\ x.freePointers \in Seq(Pointers) /\ IsInjective(x.freePointers)
  /\ \A o : o \in ToSet(x.freePointers) <=> o \in ToSet(m.freePointers) \/ \E i \in 1..n : chunks[i] = o

LEMMA ReleaseOne ==
  ASSUME NEW m \in Memory, NEW chunks \in Seq(Pointers), IsInjective(chunks),
         \A i \in DOMAIN chunks : chunks[i] \notin ToSet(m.freePointers),
         NEW n \in 1..Len(chunks), NEW x, ReleasedTo(m, x, chunks, n - 1)
  PROVE  ReleasedTo(m, releasePointer(x, chunks[n]), chunks, n)
<1>1. PICK o : o = chunks[n]
  OBVIOUS
<1>2. n \in DOMAIN chunks /\ o \in Pointers
  BY <1>1
<1>3. PICK ot, list : ot = x.ot /\ list = x.freePointers
  OBVIOUS
<1>4. /\ x = [m EXCEPT !.ot = ot, !.freePointers = list] /\ ot \in [Pointers -> Entry]
      /\ \A p \in Pointers : \/ ot[p] = FreeEntry /\ \E i \in 1..n - 1 : chunks[i] = p
                             \/ ot[p] = m.ot[p] /\ \A i \in 1..n - 1 : chunks[i] # p
      /\ list \in Seq(Pointers) /\ IsInjective(list)
      /\ \A p : p \in ToSet(list) <=> p \in ToSet(m.freePointers) \/ \E i \in 1..n - 1 : chunks[i] = p
  BY <1>3 DEF ReleasedTo
<1>5. PICK y, ot2, list2 : /\ y = releasePointer(x, o) /\ ot2 = [ot EXCEPT ![o] = FreeEntry]
                           /\ list2 = <<o>> \o list
  OBVIOUS
<1>6. y = [m EXCEPT !.ot = ot2, !.freePointers = list2] /\ y.ot = ot2 /\ y.freePointers = list2
  <2>1. y = [x EXCEPT !.ot = ot2, !.freePointers = list2]
    <3>1. y = [x EXCEPT !.ot[o] = FreeEntry, !.freePointers = <<o>> \o @]
      BY <1>5 DEF releasePointer
    <3>2. x \in Memory
      BY <1>4 DEF Memory
    <3> QED
      BY <1>3, <1>5, <3>1, <3>2 DEF Memory
  <2> QED
    BY <1>4, <2>1 DEF Memory
<1>7. \A i, j \in DOMAIN chunks : chunks[i] = chunks[j] => i = j
  BY Zenon DEF IsInjective
<1>8. \A i : i \in 1..n <=> i \in 1..n - 1 \/ i = n
  OBVIOUS
<1>9. \A i \in 1..n - 1 : chunks[i] # o
  <2>1. \A i \in 1..n - 1 : i \in DOMAIN chunks /\ i # n
    OBVIOUS
  <2> QED
    BY <1>1, <1>2, <1>7, <2>1
<1>10. o \notin ToSet(list)
  BY <1>1, <1>2, <1>4, <1>9
<1>11. list2 \in Seq(Pointers) /\ IsInjective(list2) /\ ToSet(list2) = ToSet(list) \cup {o}
  BY <1>2, <1>4, <1>5, <1>10, PrependIs
<1>12. ot2 \in [Pointers -> Entry] /\ ot2[o] = FreeEntry /\ \A p \in Pointers : p # o => ot2[p] = ot[p]
  BY <1>2, <1>4, <1>5, FreeEntryIs
<1>13. ASSUME NEW p PROVE p \in ToSet(list2) <=> p \in ToSet(m.freePointers) \/ \E i \in 1..n : chunks[i] = p
  <2>1. p \in ToSet(list2) <=> p \in ToSet(list) \/ p = chunks[n]
    BY <1>1, <1>11
  <2> QED
    BY <1>4, <1>8, <2>1
<1>14. ASSUME NEW p \in Pointers
       PROVE  \/ ot2[p] = FreeEntry /\ \E i \in 1..n : chunks[i] = p
              \/ ot2[p] = m.ot[p] /\ \A i \in 1..n : chunks[i] # p
  <2>1. CASE p = o
    BY <1>1, <1>8, <1>12, <2>1
  <2>2. CASE p # o
    BY <1>1, <1>4, <1>8, <1>12, <2>2
  <2> QED
    BY <2>1, <2>2
<1>15. ReleasedTo(m, y, chunks, n)
  BY <1>6, <1>11, <1>12, <1>13, <1>14 DEF ReleasedTo
<1> QED
  BY <1>1, <1>5, <1>15

LEMMA ReleasePointers ==
  ASSUME NEW m \in Memory, NEW chunks \in Seq(Pointers), IsInjective(chunks),
         IsInjective(m.freePointers),
         \A i \in DOMAIN chunks : chunks[i] \notin ToSet(m.freePointers)
  PROVE  ReleasedTo(m, releasePointers(m, chunks), chunks, Len(chunks))
<1>1. PICK f, N : f = released(m, chunks) /\ N = Len(chunks)
  OBVIOUS
<1>2. N \in Nat
  BY <1>1
<1>3. f = releasing(m, chunks, f)
  BY <1>1, <1>2, Releasing
<1>4. f[0] = m /\ \A n \in 1..N : f[n] = releasePointer(f[n - 1], chunks[n])
  BY <1>1, <1>2, <1>3 DEF releasing
<1> DEFINE S == {k \in Nat : ReleasedTo(m, f[k], chunks, k)}
<1>5. 0 \in S
  <2>1. m = [m EXCEPT !.ot = m.ot, !.freePointers = m.freePointers]
    BY DEF Memory
  <2>2. \A i : i \notin 1..0
    OBVIOUS
  <2>3. ReleasedTo(m, m, chunks, 0)
    BY <2>1, <2>2, MemoryIs DEF ReleasedTo
  <2> QED
    BY <1>4, <2>3
<1>6. ASSUME NEW k \in 0..N - 1, k \in S PROVE k + 1 \in S
  <2>1. PICK n, x : n = k + 1 /\ x = f[k]
    OBVIOUS
  <2>2. n \in 1..N /\ n \in Nat /\ n - 1 = k
    BY <1>2, <2>1
  <2>3. ReleasedTo(m, x, chunks, n - 1) /\ f[n] = releasePointer(x, chunks[n])
    BY <1>4, <1>6, <2>1, <2>2
  <2>4. ReleasedTo(m, releasePointer(x, chunks[n]), chunks, n)
    BY <1>1, <2>2, <2>3, ReleaseOne
  <2> QED
    BY <2>1, <2>2, <2>3, <2>4
<1>7. N \in S
  <2> HIDE DEF S
  <2>1. 0..N \subseteq S
    BY <1>2, <1>5, <1>6, InductionTo
  <2> QED
    BY <1>2, <2>1
<1>8. releasePointers(m, chunks) = f[N]
  BY <1>1 DEF releasePointers, released, releasing
<1> QED
  BY <1>1, <1>7, <1>8

----------------------------------------------------------------------------
(* Counting the words of a set from a mark on.                               *)

Within(W, mark, N) == mark \in Nat /\ N \in Nat /\ W \in SUBSET (mark..N - 1)

CountTo(W, mark, w) == Cardinality(W \cap (mark..w - 1))

LEMMA CountToIs ==
  ASSUME NEW mark, NEW N, NEW W, Within(W, mark, N), NEW w \in Nat
  PROVE  /\ CountTo(W, mark, w) \in Nat /\ CountTo(W, mark, w) <= Cardinality(W)
         /\ IsFiniteSet(W) /\ Cardinality(W) \in Nat /\ IsFiniteSet(W \cap (mark..w - 1))
<1> mark \in Nat /\ N \in Nat /\ W \in SUBSET (mark..N - 1)
  BY DEF Within
<1>1. IsFiniteSet(mark..N - 1)
  BY FS_Interval
<1>2. IsFiniteSet(W)
  BY <1>1, FS_Subset
<1>3. PICK V : V = W \cap (mark..w - 1)
  OBVIOUS
<1>4. IsFiniteSet(V) /\ Cardinality(V) <= Cardinality(W)
  BY <1>2, <1>3, FS_Subset
<1>5. Cardinality(V) \in Nat /\ Cardinality(W) \in Nat
  BY <1>2, <1>4, FS_CardinalityType
<1> QED
  BY <1>2, <1>3, <1>4, <1>5 DEF CountTo

(* Words that follow one another count one each.                             *)
WordRun(W, mark, w, k) == w >= mark /\ w..w + k - 1 \subseteq W

LEMMA CountRun ==
  ASSUME NEW mark, NEW N, NEW W, Within(W, mark, N),
         NEW w \in Nat, NEW k \in Nat, WordRun(W, mark, w, k)
  PROVE  CountTo(W, mark, w + k) = CountTo(W, mark, w) + k
<1> mark \in Nat /\ N \in Nat /\ W \in SUBSET (mark..N - 1)
  BY DEF Within
<1>0. w >= mark /\ w..w + k - 1 \subseteq W
  BY DEF WordRun
<1>1. PICK A, B, AB : A = W \cap (mark..w - 1) /\ B = w..w + k - 1 /\ AB = W \cap (mark..(w + k) - 1)
  OBVIOUS
<1>2. AB = A \cup B /\ A \cap B = {}
  <2>1. \A x \in Int : x \in mark..(w + k) - 1 <=> x \in mark..w - 1 \/ x \in w..w + k - 1
    BY <1>0
  <2>2. W \subseteq Int /\ B \subseteq W
    BY <1>0, <1>1
  <2>3. \A x \in Int : ~(x \in mark..w - 1 /\ x \in w..w + k - 1)
    OBVIOUS
  <2> QED
    BY <1>1, <2>1, <2>2, <2>3
<1>3. IsFiniteSet(A) /\ Cardinality(A) \in Nat
  BY <1>1, CountToIs DEF CountTo
<1>4. IsFiniteSet(B) /\ Cardinality(B) = k
  <2>1. IsFiniteSet(w..w + k - 1)
        /\ Cardinality(w..w + k - 1) = IF w > w + k - 1 THEN 0 ELSE (w + k - 1) - w + 1
    BY FS_Interval
  <2> QED
    BY <1>1, <2>1
<1>5. Cardinality(A \cap B) = 0
  BY <1>2, FS_EmptySet
<1>6. Cardinality(A \cup B) = Cardinality(A) + Cardinality(B) - Cardinality(A \cap B)
  BY <1>3, <1>4, FS_Union
<1>7. Cardinality(AB) = Cardinality(A) + k
  BY <1>2, <1>3, <1>4, <1>5, <1>6
<1> QED
  BY <1>1, <1>7 DEF CountTo

LEMMA CountMonotone ==
  ASSUME NEW mark, NEW N, NEW W, Within(W, mark, N),
         NEW v \in Nat, NEW w \in Nat, v <= w
  PROVE  CountTo(W, mark, v) <= CountTo(W, mark, w)
<1> mark \in Nat /\ N \in Nat /\ W \in SUBSET (mark..N - 1)
  BY DEF Within
<1>1. PICK A, B : A = W \cap (mark..v - 1) /\ B = W \cap (mark..w - 1)
  OBVIOUS
<1>2. A \subseteq B
  BY <1>1
<1>4. IsFiniteSet(W \cap (mark..w - 1))
  BY CountToIs
<1>3. Cardinality(A) <= Cardinality(B)
  BY <1>1, <1>2, <1>4, FS_Subset
<1> QED
  BY <1>1, <1>3 DEF CountTo

(* The count goes up at every word of the set, and nowhere else.             *)
LEMMA CountNext ==
  ASSUME NEW mark, NEW N, NEW W, Within(W, mark, N), NEW w \in Nat
  PROVE  /\ w \in W => CountTo(W, mark, w + 1) = CountTo(W, mark, w) + 1
         /\ w \notin W => CountTo(W, mark, w + 1) = CountTo(W, mark, w)
<1> mark \in Nat /\ N \in Nat /\ W \in SUBSET (mark..N - 1)
  BY DEF Within
<1>1. ASSUME w \in W PROVE CountTo(W, mark, w + 1) = CountTo(W, mark, w) + 1
  <2>1. WordRun(W, mark, w, 1) /\ 1 \in Nat
    BY <1>1 DEF WordRun
  <2> QED
    BY <2>1, CountRun
<1>2. ASSUME w \notin W PROVE CountTo(W, mark, w + 1) = CountTo(W, mark, w)
  <2>1. \A x \in Int : x \in mark..(w + 1) - 1 => x \in mark..w - 1 \/ x = w
    OBVIOUS
  <2>2. \A x \in Int : x \in mark..w - 1 => x \in mark..(w + 1) - 1
    OBVIOUS
  <2>3. W \cap (mark..(w + 1) - 1) = W \cap (mark..w - 1)
    BY <1>2, <2>1, <2>2
  <2> QED
    BY <2>3 DEF CountTo
<1> QED
  BY <1>1, <1>2

LEMMA CountInjective ==
  ASSUME NEW mark, NEW N, NEW W, Within(W, mark, N),
         NEW v \in W, NEW w \in W, CountTo(W, mark, v) = CountTo(W, mark, w)
  PROVE  v = w
<1> mark \in Nat /\ N \in Nat /\ W \in SUBSET (mark..N - 1)
  BY DEF Within
<1>1. ASSUME NEW x \in W, NEW y \in W, x < y PROVE CountTo(W, mark, x) # CountTo(W, mark, y)
  <2>1. x \in Nat /\ y \in Nat /\ x + 1 \in Nat /\ x + 1 <= y
    BY <1>1
  <2>2. CountTo(W, mark, x + 1) = CountTo(W, mark, x) + 1
    BY <2>1, CountNext
  <2>3. CountTo(W, mark, x + 1) <= CountTo(W, mark, y)
    BY <2>1, CountMonotone
  <2>4. CountTo(W, mark, x) \in Nat /\ CountTo(W, mark, y) \in Nat
    BY <2>1, CountToIs
  <2> QED
    BY <2>2, <2>3, <2>4
<1>2. v \in Int /\ w \in Int
  OBVIOUS
<1> QED
  BY <1>1, <1>2

LEMMA CountOnto ==
  ASSUME NEW mark, NEW N, NEW W, Within(W, mark, N),
         NEW k \in Nat, k < Cardinality(W)
  PROVE  \E w \in W : CountTo(W, mark, w) = k
<1> mark \in Nat /\ N \in Nat /\ W \in SUBSET (mark..N - 1)
  BY DEF Within
<1> DEFINE S == {n \in Nat : CountTo(W, mark, n) > k}
<1>1. W \cap (mark..N - 1) = W
  OBVIOUS
<1>2. N \in S
  BY <1>1 DEF CountTo
<1>3. PICK n \in S : \A j \in S : n <= j
  BY <1>2, S # {}, S \in SUBSET Nat, HasLeast, Zenon
<1>4. n \in Nat /\ CountTo(W, mark, n) > k
  BY <1>3
<1>5. n # 0
  <2>1. mark..0 - 1 = {}
    OBVIOUS
  <2>2. CountTo(W, mark, 0) = 0
    BY <2>1, FS_EmptySet DEF CountTo
  <2> QED
    BY <1>4, <2>2
<1>6. PICK w : w = n - 1
  OBVIOUS
<1>7. w \in Nat /\ w + 1 = n /\ ~(n <= w)
  BY <1>4, <1>5, <1>6
<1>8. ~(CountTo(W, mark, w) > k)
  BY <1>3, <1>7
<1>9. CountTo(W, mark, w) \in Nat /\ CountTo(W, mark, w + 1) > k
  BY <1>4, <1>7, CountToIs
<1> HIDE DEF S
<1>12. /\ w \in W => CountTo(W, mark, w + 1) = CountTo(W, mark, w) + 1
       /\ w \notin W => CountTo(W, mark, w + 1) = CountTo(W, mark, w)
  BY <1>7, CountNext
<1>10. w \in W
  BY <1>8, <1>9, <1>12
<1>11. CountTo(W, mark, w + 1) = CountTo(W, mark, w) + 1
  BY <1>10, <1>12
<1> QED
  BY <1>8, <1>9, <1>10, <1>11

(* The chunks of a segment are given up: none is left there.                 *)
InSegment(e, seg) == IsChunk(e) /\ e.segment = seg

Abandoned(m, n, seg) ==
  /\ Shape(n, {})
  /\ \A o \in Pointers : /\ InSegment(m.ot[o], seg) => n.ot[o] = FreeEntry
                         /\ ~InSegment(m.ot[o], seg) => n.ot[o] = m.ot[o]
  /\ SameContents(m.ot, n.ot) /\ SameRegisters(m, n) /\ n.currentSegment = m.currentSegment

LEMMA Abandon ==
  ASSUME NEW m, Shape(m, {}), NEW seg \in 1..Segments
  PROVE  Abandoned(m, abandonFreeChunksInSegment(m, seg), seg)
<1>1. PICK chunks, x, n : /\ chunks = freeChunksOf(m, seg) /\ x = releasePointers(m, chunks)
                          /\ n = abandonFreeChunksInSegment(m, seg)
  OBVIOUS
<1>2. PICK ot, list, c, c2 :
         /\ ot = x.ot /\ list = x.freePointers /\ c = m.freeChunks
         /\ c2 = [c EXCEPT ![seg] = [size \in ChunkSizes |-> <<>>]]
  OBVIOUS
<1>3. /\ m \in Memory /\ c \in Lists /\ ChunksListed(m.ot, c, {}) /\ m.ot \in [Pointers -> Entry]
      /\ \A o \in Pointers : EntryOK(m.ot[o])
      /\ PointersListed(m.ot, m.freePointers) /\ m.freePointers \in Seq(Pointers)
  BY <1>2, ShapeIs
<1>4. chunks \in Seq(Pointers) /\ IsInjective(chunks)
      /\ \A o : o \in ToSet(chunks) <=> o \in Pointers /\ InSegment(m.ot[o], seg)
  <2>1. PICK K : K = {}
    OBVIOUS
  <2>2. /\ chunks \in Seq(Pointers) /\ IsInjective(chunks)
        /\ ToSet(chunks) = {o \in Pointers : IsChunk(m.ot[o]) /\ m.ot[o].segment = seg /\ o \notin K}
    BY <1>1, <2>1, FreeChunksAre
  <2> QED
    BY <2>1, <2>2 DEF InSegment
<1>5. ReleasedTo(m, x, chunks, Len(chunks))
  <2>1. \A o \in ToSet(chunks) : o \notin ToSet(m.freePointers)
    BY <1>3, <1>4 DEF PointersListed, InSegment, IsChunk
  <2>2. \A i \in DOMAIN chunks : chunks[i] \notin ToSet(m.freePointers)
    BY <2>1 DEF ToSet
  <2>3. IsInjective(m.freePointers)
    BY <1>3 DEF PointersListed
  <2> QED
    BY <1>1, <1>3, <1>4, <2>2, <2>3, ReleasePointers
<1>6. DOMAIN chunks = 1..Len(chunks)
  BY <1>4
<1>7. \A o : (\E i \in 1..Len(chunks) : chunks[i] = o) <=> o \in ToSet(chunks)
  BY <1>6 DEF ToSet
<1>8. /\ x = [m EXCEPT !.ot = ot, !.freePointers = list] /\ ot \in [Pointers -> Entry]
      /\ \A o \in Pointers : /\ InSegment(m.ot[o], seg) => ot[o] = FreeEntry
                             /\ ~InSegment(m.ot[o], seg) => ot[o] = m.ot[o]
      /\ list \in Seq(Pointers) /\ IsInjective(list)
      /\ \A o : o \in ToSet(list) <=> o \in ToSet(m.freePointers) \/ o \in ToSet(chunks)
  BY <1>2, <1>4, <1>5, <1>7 DEF ReleasedTo
<1>9. n = [m EXCEPT !.ot = ot, !.freePointers = list, !.freeChunks = c2]
  <2>1. n = [x EXCEPT !.freeChunks[seg] = [size \in ChunkSizes |-> <<>>]]
    BY <1>1 DEF abandonFreeChunksInSegment
  <2> QED
    BY <1>2, <1>3, <1>8, <2>1 DEF Memory
<1>10. /\ c2 \in Lists /\ \A z \in ChunkSizes : c2[seg][z] = <<>>
       /\ \A s \in 1..Segments : s # seg => c2[s] = c[s]
  BY <1>2, <1>3, EmptyIs DEF Lists
<1>11. /\ n.ot = ot /\ n.freePointers = list /\ n.freeChunks = c2 /\ n \in Memory
       /\ SameRegisters(m, n) /\ n.currentSegment = m.currentSegment
  BY <1>3, <1>8, <1>9, <1>10 DEF Memory, Lists, SameRegisters
<1>12. Entries(ot)
  <2>1. \A o \in Pointers : EntryOK(ot[o])
    BY <1>3, <1>8, FreeEntryIs
  <2> QED
    BY <1>8, <2>1 DEF Entries
<1>13. PointersListed(ot, list)
  <2>1. \A o \in Pointers : ot[o].free <=> m.ot[o].free \/ InSegment(m.ot[o], seg)
    BY <1>8, FreeEntryIs
  <2>2. ToSet(m.freePointers) = {o \in Pointers : m.ot[o].free}
    BY <1>3 DEF PointersListed
  <2>3. ASSUME NEW o PROVE o \in ToSet(list) <=> o \in Pointers /\ ot[o].free
    BY <1>4, <1>8, <2>1, <2>2
  <2>4. ToSet(list) = {o \in Pointers : ot[o].free}
    BY <2>3
  <2> QED
    BY <1>8, <2>4 DEF PointersListed
<1>14. ChunksListed(ot, c2, {})
  <2>1. PICK K : K = {}
    OBVIOUS
  <2>2. ChunksListed(m.ot, c, K)
    BY <1>3, <2>1
  <2>3. ASSUME NEW s \in 1..Segments, NEW z \in ChunkSizes, s # seg
        PROVE  ListSound(ot, K, c[s][z], s, z)
    <3>1. ListSound(m.ot, K, c[s][z], s, z)
      BY <2>2 DEF ChunksListed
    <3>2. ASSUME NEW o \in ToSet(c[s][z]) PROVE o \notin K /\ ListedAt(ot[o], s, z)
      <4>1. o \notin K /\ ListedAt(m.ot[o], s, z) /\ o \in Pointers
        BY <1>3, <3>1, ListIs DEF ListSound
      <4>2. ot[o] = m.ot[o]
        BY <1>8, <2>3, <4>1 DEF ListedAt, InSegment
      <4> QED
        BY <4>1, <4>2
    <3> QED
      BY <3>1, <3>2 DEF ListSound
  <2>4. ASSUME NEW s \in 1..Segments, NEW z \in ChunkSizes PROVE ListSound(ot, K, c2[s][z], s, z)
    <3>1. CASE s = seg
      <4>1. c2[s][z] = <<>>
        BY <1>10, <3>1
      <4> QED
        BY <4>1, EmptyIs DEF ListSound
    <3>2. CASE s # seg
      BY <1>10, <2>3, <3>2
    <3> QED
      BY <3>1, <3>2
  <2>5. ASSUME NEW s \in 1..Segments, NEW z \in ChunkSizes, NEW z2 \in ChunkSizes, z # z2
        PROVE  ToSet(c2[s][z]) \cap ToSet(c2[s][z2]) = {}
    <3>1. CASE s = seg
      <4>1. c2[s][z] = <<>>
        BY <1>10, <3>1
      <4> QED
        BY <4>1, EmptyIs
    <3>2. CASE s # seg
      BY <1>10, <2>2, <2>5, <3>2 DEF ChunksListed
    <3> QED
      BY <3>1, <3>2
  <2>6. ASSUME NEW o \in Pointers, IsChunk(ot[o]), o \notin K PROVE IsListed(c2, o)
    <3>1. ~InSegment(m.ot[o], seg) /\ ot[o] = m.ot[o]
      BY <1>8, <2>6, FreeEntryIs DEF IsChunk
    <3>2. IsListed(c, o)
      BY <2>2, <2>6, <3>1 DEF ChunksListed
    <3>3. PICK s \in 1..Segments, z \in ChunkSizes : o \in ToSet(c[s][z])
      BY <3>2 DEF IsListed
    <3>4. s # seg
      BY <2>2, <3>1, <3>3, ListedIs DEF ListedAt, InSegment
    <3>5. o \in ToSet(c2[s][z])
      BY <1>10, <3>3, <3>4
    <3> QED
      BY <3>5 DEF IsListed
  <2>7. ChunksListed(ot, c2, K)
    BY <2>4, <2>5, <2>6 DEF ChunksListed
  <2> QED
    BY <2>1, <2>7
<1>15. SameContents(m.ot, ot)
  <2>1. ASSUME NEW o \in Pointers PROVE SameContent(m.ot[o], ot[o])
    <3>1. CASE InSegment(m.ot[o], seg)
      BY <1>3, <1>8, <3>1, FreeEntryIs DEF InSegment, IsChunk, EntryOK, SameContent
    <3>2. CASE ~InSegment(m.ot[o], seg)
      BY <1>8, <3>2 DEF SameContent
    <3> QED
      BY <3>1, <3>2
  <2> QED
    BY <2>1 DEF SameContents
<1> QED
  BY <1>1, <1>8, <1>11, <1>12, <1>13, <1>14, <1>15 DEF Abandoned, Shape

(* The mark is where the first chunk of the segment lies.                    *)
LEMMA LowWaterMarkIs ==
  ASSUME NEW m, Shape(m, {}), NEW seg \in 1..Segments, NEW mark, mark = lowWaterMark(m, seg)
  PROVE  /\ mark \in Nat /\ mark <= HeapSpaceStop
         /\ \A o \in Pointers : InSegment(m.ot[o], seg) => mark <= m.ot[o].location
         /\ mark < HeapSpaceStop =>
               \E o \in Pointers : InSegment(m.ot[o], seg) /\ m.ot[o].location = mark
<1>1. PICK chunks, S : /\ chunks = freeChunksOf(m, seg)
                       /\ S = {HeapSpaceStop} \cup {m.ot[o].location : o \in ToSet(chunks)}
  OBVIOUS
<1>2. PICK K : K = {}
  OBVIOUS
<1>3. ToSet(chunks) = {o \in Pointers : IsChunk(m.ot[o]) /\ m.ot[o].segment = seg /\ o \notin K}
  BY <1>1, <1>2, FreeChunksAre
<1>4. \A o : o \in ToSet(chunks) <=> o \in Pointers /\ InSegment(m.ot[o], seg)
  BY <1>2, <1>3 DEF InSegment
<1>5. HeapSpaceStop \in Nat
  BY ConstantsAre
<1>6. \A o \in Pointers : m.ot[o].location \in Nat
  <2>1. \A o \in Pointers : m.ot[o] \in Entry
    BY ShapeIs
  <2> QED
    BY <2>1, EntryIs
<1>7. S \in SUBSET Nat /\ S # {}
  BY <1>1, <1>4, <1>5, <1>6
<1>8. mark = Min(S)
  BY <1>1 DEF lowWaterMark
<1>9. mark \in S /\ \A n \in S : mark <= n
  BY <1>7, <1>8, MinIs
<1>10. mark \in Nat /\ mark <= HeapSpaceStop
  BY <1>1, <1>7, <1>9
<1>11. ASSUME NEW o \in Pointers, InSegment(m.ot[o], seg) PROVE mark <= m.ot[o].location
  BY <1>1, <1>4, <1>9, <1>11
<1>12. ASSUME mark < HeapSpaceStop
       PROVE  \E o \in Pointers : InSegment(m.ot[o], seg) /\ m.ot[o].location = mark
  <2>1. mark # HeapSpaceStop
    BY <1>5, <1>12
  <2> QED
    BY <1>1, <1>4, <1>9, <2>1
<1> QED
  BY <1>10, <1>11, <1>12

----------------------------------------------------------------------------
(* A compaction keeps the segment tiled.                                     *)

(* The objects that slide down, and the words they take.                     *)
Slid(e, seg, mark) == ~e.free /\ ~IsChunk(e) /\ e.segment = seg /\ e.location >= mark
Stays(e, seg, mark) == ~e.free /\ (e.segment # seg \/ (~IsChunk(e) /\ e.location < mark))
Vanishes(e, seg) == e.free \/ InSegment(e, seg)

SlidTo(x, y, seg, mark, W) ==
  /\ ~y.free /\ y.segment = seg /\ Space(y) = Space(x)
  /\ y.location = mark + CountTo(W, mark, x.location)

Sliding(ot, seg, mark, W) ==
  /\ Entries(ot) /\ seg \in 1..Segments /\ Within(W, mark, SegmentWords)
  /\ \A w : w \in W <=> w \in HeapWords /\ \E o \in Pointers : Slid(ot[o], seg, mark) /\ Occupies(ot[o], seg, w)

(* The compaction above the mark, with what was in the way: chunk f.         *)
Compacts(ot, ot2, seg, mark, W, p, f) ==
  /\ Tiled(ot) /\ Sliding(ot, seg, mark, W)
  /\ \A o \in Pointers : InSegment(ot[o], seg) => mark <= ot[o].location
  /\ f \in Pointers /\ InSegment(ot[f], seg) /\ ot[f].location = mark
  /\ p \in Pointers /\ Vanishes(ot[p], seg)
  /\ ~ot2[p].free /\ ot2[p].segment = seg
  /\ ot2[p].location = mark + Cardinality(W)
  /\ Space(ot2[p]) = SegmentWords - (mark + Cardinality(W))
  /\ \A o \in Pointers : o # p =>
        \/ ot2[o].free /\ Vanishes(ot[o], seg)
        \/ Slid(ot[o], seg, mark) /\ SlidTo(ot[o], ot2[o], seg, mark, W)
        \/ Stays(ot[o], seg, mark) /\ SameExtent(ot[o], ot2[o])

(* Entries with flat names.                                                  *)
LEMMA OccupiesIs ==
  ASSUME NEW e, EntryOK(e), ~e.free, NEW seg, NEW w \in Nat
  PROVE  \E a, b \in Nat :
           /\ a = e.location /\ b = Space(e) /\ b >= 2 /\ a + b <= SegmentWords
           /\ Occupies(e, seg, w) <=> e.segment = seg /\ a <= w /\ w < a + b
BY ChunkLies DEF Occupies

LEMMA StayingLiesBelow ==
  ASSUME NEW ot, NEW ot2, NEW seg, NEW mark, NEW W, NEW p, NEW f,
         Compacts(ot, ot2, seg, mark, W, p, f),
         NEW o \in Pointers, Stays(ot[o], seg, mark), NEW w \in Nat, w >= mark
  PROVE  ~Occupies(ot[o], seg, w)
<1> SUFFICES ASSUME Occupies(ot[o], seg, w) PROVE FALSE
  OBVIOUS
<1>1. /\ Entries(ot) /\ Tiled(ot) /\ seg \in 1..Segments /\ mark \in Nat
      /\ f \in Pointers /\ InSegment(ot[f], seg) /\ ot[f].location = mark
  BY DEF Compacts, Sliding, Within
<1>2. PICK e, g : e = ot[o] /\ g = ot[f]
  OBVIOUS
<1>3. EntryOK(e) /\ EntryOK(g) /\ ~e.free /\ ~g.free /\ g.segment = seg /\ e.segment = seg
      /\ ~IsChunk(e) /\ IsChunk(g)
  BY <1>1, <1>2 DEF Entries, InSegment, IsChunk, Occupies, Stays
<1>4. e.location < mark
  BY <1>2, <1>3 DEF Stays
<1>5. PICK a, b \in Nat : /\ a = e.location /\ b = Space(e) /\ b >= 2 /\ a + b <= SegmentWords
                          /\ Occupies(e, seg, w) <=> e.segment = seg /\ a <= w /\ w < a + b
  BY <1>3, OccupiesIs
<1>6. a < mark /\ w < a + b
  BY <1>2, <1>4, <1>5
<1>7. Occupies(e, seg, mark)
  <2>1. a <= mark /\ mark < a + b
    BY <1>1, <1>6
  <2> QED
    BY <1>3, <1>5, <2>1 DEF Occupies
<1>8. Occupies(g, seg, mark)
  <2>1. Space(g) \in Nat /\ Space(g) >= 2 /\ g.location = mark
    BY <1>1, <1>2, <1>3, ChunkLies
  <2> QED
    BY <1>1, <1>3, <2>1 DEF Occupies
<1>9. mark \in HeapWords
  <2>1. mark < SegmentWords
    BY <1>1, <1>5, <1>6, ConstantsAre
  <2> QED
    BY <1>1, <2>1, ConstantsAre DEF HeapWords
<1>10. o = f
  <2>1. TiledAt(ot, seg, mark)
    BY <1>1, <1>9 DEF Tiled
  <2> QED
    BY <1>1, <1>2, <1>7, <1>8, <2>1 DEF TiledAt
<1> QED
  BY <1>2, <1>3, <1>10

(* A chunk that slides keeps its words together.                             *)
SlidBy(x, y, mark, W) ==
  \E a, b, c \in Nat :
     /\ a = x.location /\ b = Space(x) /\ c = y.location /\ Space(y) = b
     /\ b >= 2 /\ a >= mark /\ c >= mark /\ a + b <= SegmentWords
     /\ \A k \in 0..b : c + k = mark + CountTo(W, mark, a + k)
     /\ \A k \in 0..b - 1 : a + k \in W
     /\ c + b <= mark + Cardinality(W)

LEMMA SlidWords ==
  ASSUME NEW ot, NEW seg, NEW mark, NEW W, Sliding(ot, seg, mark, W),
         NEW o \in Pointers, Slid(ot[o], seg, mark), NEW y, SlidTo(ot[o], y, seg, mark, W)
  PROVE  SlidBy(ot[o], y, mark, W)
<1>1. /\ Entries(ot) /\ seg \in 1..Segments /\ Within(W, mark, SegmentWords) /\ mark \in Nat
      /\ \A w : w \in W <=> w \in HeapWords
                            /\ \E q \in Pointers : Slid(ot[q], seg, mark) /\ Occupies(ot[q], seg, w)
  BY DEF Sliding, Within
<1>2. PICK e : e = ot[o]
  OBVIOUS
<1>3. PICK a, b, c : a = e.location /\ b = Space(e) /\ c = y.location
  OBVIOUS
<1>4. /\ EntryOK(e) /\ ~e.free /\ e.segment = seg /\ a >= mark
      /\ Space(y) = b /\ c = mark + CountTo(W, mark, a)
  BY <1>1, <1>2, <1>3 DEF Entries, Slid, SlidTo
<1>5. a \in Nat /\ b \in Nat /\ b >= 2 /\ a + b <= SegmentWords
  BY <1>3, <1>4, ChunkLies
<1>6. ASSUME NEW k \in 0..b - 1 PROVE a + k \in W
  <2>1. a + k \in HeapWords /\ a <= a + k /\ a + k < a + b
    BY <1>5, ConstantsAre DEF HeapWords
  <2>2. Occupies(e, seg, a + k)
    BY <1>3, <1>4, <2>1 DEF Occupies
  <2> QED
    BY <1>1, <1>2, <2>1, <2>2
<1>7. ASSUME NEW k \in 0..b PROVE c + k = mark + CountTo(W, mark, a + k)
  <2>1. a..a + k - 1 \subseteq W
    <3>1. ASSUME NEW x \in a..a + k - 1 PROVE x \in W
      <4>1. PICK i : i = x - a
        OBVIOUS
      <4>2. i \in 0..b - 1 /\ a + i = x
        BY <1>5, <4>1
      <4> QED
        BY <1>6, <4>2
    <3> QED
      BY <3>1
  <2>2. WordRun(W, mark, a, k) /\ k \in Nat
    BY <1>4, <1>5, <2>1 DEF WordRun
  <2>3. CountTo(W, mark, a + k) = CountTo(W, mark, a) + k
    BY <1>1, <1>5, <2>2, CountRun
  <2>4. CountTo(W, mark, a) \in Nat
    BY <1>1, <1>5, CountToIs
  <2> QED
    BY <1>1, <1>4, <2>2, <2>3, <2>4
<1>8. c \in Nat /\ c >= mark
  <2>1. CountTo(W, mark, a) \in Nat
    BY <1>1, <1>5, CountToIs
  <2> QED
    BY <1>1, <1>4, <2>1
<1>9. c + b <= mark + Cardinality(W)
  <2>1. c + b = mark + CountTo(W, mark, a + b)
    BY <1>5, <1>7
  <2>2. PICK z : z = a + b
    OBVIOUS
  <2>3. z \in Nat
    BY <1>5, <2>2
  <2>4. CountTo(W, mark, z) \in Nat /\ CountTo(W, mark, z) <= Cardinality(W) /\ Cardinality(W) \in Nat
    BY <1>1, <2>3, CountToIs
  <2> QED
    BY <1>1, <2>1, <2>2, <2>4
<1> QED
  BY <1>2, <1>3, <1>4, <1>5, <1>6, <1>7, <1>8, <1>9 DEF SlidBy

(* Elsewhere nothing moves.                                                  *)
LEMMA CompactTilesElsewhere ==
  ASSUME NEW ot, NEW ot2, NEW seg, NEW mark, NEW W, NEW p, NEW f,
         Compacts(ot, ot2, seg, mark, W, p, f),
         NEW s \in 1..Segments, NEW w \in HeapWords, s # seg \/ w < mark
  PROVE  TiledAt(ot2, s, w)
<1>1. /\ Entries(ot) /\ Tiled(ot) /\ seg \in 1..Segments /\ mark \in Nat
      /\ Within(W, mark, SegmentWords)
  BY DEF Compacts, Sliding, Within
<1>2. w \in Nat
  BY ConstantsAre DEF HeapWords
<1>3. ASSUME NEW o \in Pointers, Vanishes(ot[o], seg) PROVE ~Occupies(ot[o], s, w)
  <2>1. ot[o].free => ~Occupies(ot[o], s, w)
    BY DEF Occupies
  <2>2. CASE InSegment(ot[o], seg)
    <3>1. mark <= ot[o].location /\ EntryOK(ot[o]) /\ ot[o].segment = seg /\ ~ot[o].free
      BY <2>2 DEF Compacts, Sliding, InSegment, Entries, IsChunk
    <3>2. PICK a : a = ot[o].location
      OBVIOUS
    <3>3. a \in Nat /\ mark <= a
      BY <3>1, <3>2, ChunkLies
    <3>4. s = seg => ~(a <= w)
      BY <1>1, <1>2, <3>3
    <3> QED
      BY <3>1, <3>2, <3>4 DEF Occupies
  <2> QED
    BY <1>3, <2>1, <2>2 DEF Vanishes
<1>4. ASSUME NEW o \in Pointers PROVE Occupies(ot2[o], s, w) <=> Occupies(ot[o], s, w)
  <2>1. CASE o = p
    <3>1. Vanishes(ot[o], seg)
      BY <2>1 DEF Compacts, Sliding
    <3>2. ot2[o].segment = seg /\ ot2[o].location = mark + Cardinality(W)
      BY <2>1 DEF Compacts, Sliding
    <3>3. PICK a : a = ot2[o].location
      OBVIOUS
    <3>4. Cardinality(W) \in Nat
      BY <1>1, <1>2, CountToIs
    <3>5. s = seg => ~(a <= w)
      BY <1>1, <1>2, <3>2, <3>3, <3>4
    <3> QED
      BY <1>3, <3>1, <3>2, <3>3, <3>5 DEF Occupies
  <2>2. CASE o # p /\ ot2[o].free /\ Vanishes(ot[o], seg)
    BY <1>3, <2>2 DEF Occupies
  <2>3. CASE Slid(ot[o], seg, mark) /\ SlidTo(ot[o], ot2[o], seg, mark, W)
    <3>0. SlidBy(ot[o], ot2[o], mark, W)
      BY <2>3, SlidWords DEF Compacts
    <3>1. PICK a, b, c \in Nat :
             /\ a = ot[o].location /\ b = Space(ot[o]) /\ c = ot2[o].location
             /\ a >= mark /\ c >= mark
      BY <3>0 DEF SlidBy
    <3>2. s = seg => ~(a <= w) /\ ~(c <= w)
      BY <1>1, <1>2, <3>1
    <3> QED
      BY <2>3, <3>1, <3>2 DEF Occupies, Slid, SlidTo
  <2>4. CASE Stays(ot[o], seg, mark) /\ SameExtent(ot[o], ot2[o])
    BY <2>4 DEF Stays, SameExtent, Occupies
  <2> QED
    BY <2>1, <2>2, <2>3, <2>4 DEF Compacts, Sliding
<1>5. TiledAt(ot, s, w)
  BY <1>1 DEF Tiled
<1> QED
  BY <1>4, <1>5 DEF TiledAt

(* Below the big space the words that have slid are in one chunk each.       *)
LEMMA CompactTilesSlid ==
  ASSUME NEW ot, NEW ot2, NEW seg, NEW mark, NEW W, NEW p, NEW f,
         Compacts(ot, ot2, seg, mark, W, p, f),
         NEW w \in HeapWords, mark <= w, w < mark + Cardinality(W)
  PROVE  TiledAt(ot2, seg, w)
<1>1. /\ Entries(ot) /\ Tiled(ot) /\ seg \in 1..Segments /\ mark \in Nat
      /\ Within(W, mark, SegmentWords)
      /\ \A v : v \in W <=> v \in HeapWords
                            /\ \E q \in Pointers : Slid(ot[q], seg, mark) /\ Occupies(ot[q], seg, v)
  BY DEF Compacts, Sliding, Within
<1>2. w \in Nat /\ HeapWords \subseteq Nat
  BY ConstantsAre DEF HeapWords
<1>3. Cardinality(W) \in Nat
  BY <1>1, <1>2, CountToIs
<1>4. PICK k : k = w - mark
  OBVIOUS
<1>5. k \in Nat /\ k < Cardinality(W) /\ mark + k = w
  BY <1>1, <1>2, <1>3, <1>4
<1>6. PICK v \in W : CountTo(W, mark, v) = k
  BY <1>1, <1>5, CountOnto
<1>7. v \in HeapWords /\ v \in Nat
  BY <1>1, <1>2
<1>8. PICK o \in Pointers : Slid(ot[o], seg, mark) /\ Occupies(ot[o], seg, v)
  BY <1>1
<1>9. TiledAt(ot, seg, v)
  BY <1>1, <1>7 DEF Tiled
<1>10. o # p
  BY <1>8 DEF Compacts, Sliding, Slid, Vanishes, InSegment
<1>11. SlidTo(ot[o], ot2[o], seg, mark, W)
  <2>1. ~Vanishes(ot[o], seg)
    BY <1>8 DEF Slid, Vanishes, InSegment
  <2>2. ~Stays(ot[o], seg, mark)
    <3>1. ot[o].location \in Nat
      BY <1>1, EntryIs DEF Entries, EntryOK
    <3> QED
      BY <1>1, <1>8, <3>1 DEF Slid, Stays
  <2> QED
    BY <1>10, <2>1, <2>2 DEF Compacts, Sliding
<1>12. Occupies(ot2[o], seg, w)
  <2>0. SlidBy(ot[o], ot2[o], mark, W)
    BY <1>8, <1>11, SlidWords DEF Compacts
  <2>1. PICK a, b, c \in Nat :
           /\ a = ot[o].location /\ b = Space(ot[o]) /\ c = ot2[o].location /\ Space(ot2[o]) = b
           /\ b >= 2 /\ a >= mark /\ c >= mark /\ a + b <= SegmentWords
           /\ \A j \in 0..b : c + j = mark + CountTo(W, mark, a + j)
           /\ \A j \in 0..b - 1 : a + j \in W
           /\ c + b <= mark + Cardinality(W)
    BY <2>0 DEF SlidBy
  <2>2. a <= v /\ v < a + b
    BY <1>8, <2>1 DEF Occupies
  <2>3. PICK i : i = v - a
    OBVIOUS
  <2>4. i \in 0..b /\ i < b /\ a + i = v
    BY <1>7, <2>1, <2>2, <2>3
  <2>5. c + i = w
    BY <1>5, <1>6, <2>1, <2>4
  <2>6. c <= w /\ w < c + b
    BY <2>1, <2>4, <2>5
  <2> QED
    BY <1>11, <2>1, <2>6 DEF Occupies, SlidTo
<1>13. ASSUME NEW q \in Pointers, Occupies(ot2[q], seg, w) PROVE q = o
  <2>1. CASE q = p
    <3>1. ot2[q].location = mark + Cardinality(W) /\ ot2[q].location <= w
      BY <1>13, <2>1 DEF Compacts, Sliding, Occupies
    <3> QED
      BY <1>1, <1>2, <1>3, <3>1
  <2>2. CASE ot2[q].free
    BY <1>13, <2>2 DEF Occupies
  <2>3. CASE Slid(ot[q], seg, mark) /\ SlidTo(ot[q], ot2[q], seg, mark, W)
    <3>0. SlidBy(ot[q], ot2[q], mark, W)
      BY <2>3, SlidWords DEF Compacts
    <3>1. PICK a, b, c \in Nat :
             /\ a = ot[q].location /\ b = Space(ot[q]) /\ c = ot2[q].location /\ Space(ot2[q]) = b
             /\ b >= 2 /\ a >= mark /\ c >= mark /\ a + b <= SegmentWords
             /\ \A j \in 0..b : c + j = mark + CountTo(W, mark, a + j)
             /\ \A j \in 0..b - 1 : a + j \in W
             /\ c + b <= mark + Cardinality(W)
      BY <3>0 DEF SlidBy
    <3>2. c <= w /\ w < c + b
      BY <1>13, <3>1 DEF Occupies
    <3>3. PICK i : i = w - c
      OBVIOUS
    <3>4. i \in 0..b /\ i \in 0..b - 1 /\ c + i = w
      BY <1>2, <3>1, <3>2, <3>3
    <3>5. PICK x : x = a + i
      OBVIOUS
    <3>6. x \in W /\ w = mark + CountTo(W, mark, x)
      BY <3>1, <3>4, <3>5
    <3>7. x \in Nat /\ CountTo(W, mark, x) \in Nat
      <4>1. x \in Nat
        BY <3>1, <3>4, <3>5
      <4> QED
        BY <1>1, <4>1, CountToIs
    <3>8. CountTo(W, mark, x) = CountTo(W, mark, v)
      BY <1>1, <1>5, <1>6, <3>6, <3>7
    <3>9. x = v
      BY <1>1, <3>6, <3>8, CountInjective
    <3>10. a <= v /\ v < a + b
      BY <3>1, <3>4, <3>5, <3>9
    <3>11. Occupies(ot[q], seg, v)
      BY <2>3, <3>1, <3>10 DEF Occupies, Slid
    <3> QED
      BY <1>8, <1>9, <3>11 DEF TiledAt
  <2>4. CASE Stays(ot[q], seg, mark) /\ SameExtent(ot[q], ot2[q])
    <3>1. Occupies(ot[q], seg, w)
      BY <1>13, <2>4 DEF Stays, SameExtent, Occupies
    <3>2. w >= mark
      BY <1>1, <1>2
    <3> QED
      BY <1>2, <2>4, <3>1, <3>2, StayingLiesBelow
  <2> QED
    BY <2>1, <2>2, <2>3, <2>4 DEF Compacts, Sliding
<1> QED
  BY <1>12, <1>13 DEF TiledAt

(* The rest is the new free chunk.                                           *)
LEMMA CompactTilesRest ==
  ASSUME NEW ot, NEW ot2, NEW seg, NEW mark, NEW W, NEW p, NEW f,
         Compacts(ot, ot2, seg, mark, W, p, f),
         NEW w \in HeapWords, mark + Cardinality(W) <= w
  PROVE  TiledAt(ot2, seg, w)
<1>1. /\ Entries(ot) /\ seg \in 1..Segments /\ mark \in Nat
      /\ Within(W, mark, SegmentWords)
      /\ p \in Pointers /\ ~ot2[p].free /\ ot2[p].segment = seg
      /\ ot2[p].location = mark + Cardinality(W)
      /\ Space(ot2[p]) = SegmentWords - (mark + Cardinality(W))
  BY DEF Compacts, Sliding, Within
<1>2. w \in Nat /\ w < SegmentWords /\ SegmentWords \in Nat
  BY ConstantsAre DEF HeapWords
<1>3. Cardinality(W) \in Nat
  BY <1>1, <1>2, CountToIs
<1>4. Occupies(ot2[p], seg, w)
  <2>1. PICK a, b : a = ot2[p].location /\ b = Space(ot2[p])
    OBVIOUS
  <2>2. a <= w /\ w < a + b
    BY <1>1, <1>2, <1>3, <2>1
  <2> QED
    BY <1>1, <2>1, <2>2 DEF Occupies
<1>5. ASSUME NEW q \in Pointers, Occupies(ot2[q], seg, w) PROVE q = p
  <2>1. CASE ot2[q].free
    BY <1>5, <2>1 DEF Occupies
  <2>2. CASE Slid(ot[q], seg, mark) /\ SlidTo(ot[q], ot2[q], seg, mark, W)
    <3>0. SlidBy(ot[q], ot2[q], mark, W)
      BY <2>2, SlidWords DEF Compacts
    <3>1. PICK a, b, c \in Nat :
             /\ a = ot[q].location /\ b = Space(ot[q]) /\ c = ot2[q].location /\ Space(ot2[q]) = b
             /\ c + b <= mark + Cardinality(W)
      BY <3>0 DEF SlidBy
    <3>2. w < c + b
      BY <1>5, <3>1 DEF Occupies
    <3> QED
      BY <1>1, <1>2, <1>3, <3>1, <3>2
  <2>3. CASE Stays(ot[q], seg, mark) /\ SameExtent(ot[q], ot2[q])
    <3>1. Occupies(ot[q], seg, w)
      BY <1>5, <2>3 DEF Stays, SameExtent, Occupies
    <3>2. w >= mark
      BY <1>1, <1>2, <1>3
    <3> QED
      BY <1>2, <2>3, <3>1, <3>2, StayingLiesBelow
  <2> QED
    BY <2>1, <2>2, <2>3 DEF Compacts, Sliding
<1> QED
  BY <1>1, <1>4, <1>5 DEF TiledAt

LEMMA CompactTiles ==
  ASSUME NEW ot, NEW ot2, NEW seg, NEW mark, NEW W, NEW p, NEW f,
         Compacts(ot, ot2, seg, mark, W, p, f)
  PROVE  Tiled(ot2)
<1> SUFFICES ASSUME NEW s \in 1..Segments, NEW w \in HeapWords PROVE TiledAt(ot2, s, w)
  BY DEF Tiled
<1>1. w \in Nat /\ mark \in Nat /\ Within(W, mark, SegmentWords)
  BY ConstantsAre DEF HeapWords, Compacts, Sliding, Within
<1>2. Cardinality(W) \in Nat
  BY <1>1, CountToIs
<1>3. CASE s # seg \/ w < mark
  BY <1>3, CompactTilesElsewhere
<1>4. CASE s = seg /\ mark <= w /\ w < mark + Cardinality(W)
  BY <1>4, CompactTilesSlid
<1>5. CASE s = seg /\ mark + Cardinality(W) <= w
  BY <1>5, CompactTilesRest
<1> QED
  BY <1>1, <1>2, <1>3, <1>4, <1>5

(* There is room for a chunk above what has slid.                            *)
LEMMA RoomForChunk ==
  ASSUME NEW ot, NEW seg, NEW mark \in Nat, NEW W, NEW f,
         Sliding(ot, seg, mark, W), Tiled(ot),
         f \in Pointers, InSegment(ot[f], seg), ot[f].location = mark
  PROVE  Cardinality(W) \in Nat /\ mark + Cardinality(W) + 2 <= SegmentWords
<1>0. /\ Entries(ot) /\ seg \in 1..Segments /\ Within(W, mark, SegmentWords)
      /\ \A w : w \in W <=> w \in HeapWords
                            /\ \E q \in Pointers : Slid(ot[q], seg, mark) /\ Occupies(ot[q], seg, w)
  BY DEF Sliding
<1>1. PICK g, b : g = ot[f] /\ b = Space(g)
  OBVIOUS
<1>2. EntryOK(g) /\ IsChunk(g) /\ ~g.free /\ g.segment = seg /\ g.location = mark
  BY <1>0, <1>1 DEF Entries, InSegment, IsChunk
<1>3. b \in Nat /\ b >= 2 /\ mark + b <= SegmentWords
  BY <1>1, <1>2, ChunkLies
<1>4. W \in SUBSET (mark + 2..SegmentWords - 1)
  <2>1. ASSUME NEW w \in W PROVE w \in mark + 2..SegmentWords - 1
    <3>1. w \in HeapWords /\ w \in mark..SegmentWords - 1
      BY <1>0 DEF Within
    <3>2. PICK q \in Pointers : Slid(ot[q], seg, mark) /\ Occupies(ot[q], seg, w)
      BY <1>0
    <3>3. ~Occupies(g, seg, w)
      <4>1. q # f
        BY <1>1, <1>2, <3>2 DEF Slid
      <4>2. TiledAt(ot, seg, w)
        BY <1>0, <3>1 DEF Tiled
      <4> QED
        BY <1>1, <3>2, <4>1, <4>2 DEF TiledAt
    <3>4. ~(w < mark + b)
      BY <1>1, <1>2, <3>1, <3>3 DEF Occupies
    <3> QED
      BY <1>3, <3>1, <3>4, ConstantsAre
  <2> QED
    BY <2>1
<1>5. PICK m2, top : m2 = mark + 2 /\ top = SegmentWords - 1
  OBVIOUS
<1>6. m2 \in Int /\ top \in Int /\ m2 <= top + 1
  BY <1>3, <1>5, ConstantsAre
<1>7. IsFiniteSet(m2..top) /\ Cardinality(m2..top) = IF m2 > top THEN 0 ELSE top - m2 + 1
  BY <1>6, FS_Interval
<1>8. W \subseteq m2..top
  BY <1>4, <1>5
<1>9. Cardinality(W) <= Cardinality(m2..top) /\ IsFiniteSet(W)
  BY <1>7, <1>8, FS_Subset
<1>10. Cardinality(W) \in Nat
  BY <1>9, FS_CardinalityType
<1> QED
  BY <1>5, <1>6, <1>7, <1>9, <1>10, ConstantsAre

----------------------------------------------------------------------------
(* compactCurrentSegment.                                                    *)

(* After the chunks of segment seg are abandoned, what lies above the mark.  *)
LEMMA SweptIs ==
  ASSUME NEW m, Shape(m, {}), NEW a, NEW seg, seg = m.currentSegment, Abandoned(m, a, seg),
         NEW mark \in Nat
  PROVE  /\ \A o \in Pointers : o \in Swept(a, mark) <=> Slid(m.ot[o], seg, mark)
         /\ \A o \in Pointers : Slid(m.ot[o], seg, mark) => a.ot[o] = m.ot[o]
         /\ Sliding(m.ot, seg, mark, WordsAbove(a, mark))
<1>1. /\ Entries(m.ot) /\ seg \in 1..Segments /\ \A o \in Pointers : EntryOK(m.ot[o])
  BY ShapeIs
<1>2. a.currentSegment = seg
  BY DEF Abandoned
<1>3. ASSUME NEW o \in Pointers
      PROVE  /\ o \in Swept(a, mark) <=> Slid(m.ot[o], seg, mark)
             /\ Slid(m.ot[o], seg, mark) => a.ot[o] = m.ot[o]
  <2>1. CASE InSegment(m.ot[o], seg)
    <3>1. a.ot[o] = FreeEntry
      BY <2>1 DEF Abandoned
    <3> QED
      BY <2>1, <3>1, FreeEntryIs DEF Swept, Slid, InSegment
  <2>2. CASE ~InSegment(m.ot[o], seg)
    <3>1. a.ot[o] = m.ot[o]
      BY <2>2 DEF Abandoned
    <3> QED
      BY <1>2, <2>2, <3>1 DEF Swept, Slid, InSegment
  <2> QED
    BY <2>1, <2>2
<1>4. PICK W : W = WordsAbove(a, mark)
  OBVIOUS
<1>5. ASSUME NEW o \in Pointers, Slid(m.ot[o], seg, mark), NEW w
      PROVE  w \in WordsOf(a.ot[o]) <=>
                w \in HeapWords /\ w \in mark..SegmentWords - 1 /\ Occupies(m.ot[o], seg, w)
  <2>1. PICK e, x, b : e = m.ot[o] /\ x = e.location /\ b = Space(e)
    OBVIOUS
  <2>2. /\ EntryOK(e) /\ ~e.free /\ e.segment = seg /\ x >= mark /\ a.ot[o] = e
    BY <1>1, <1>3, <1>5, <2>1 DEF Slid
  <2>3. x \in Nat /\ b \in Nat /\ x + b <= SegmentWords
    BY <2>1, <2>2, ChunkLies
  <2>4. w \in WordsOf(a.ot[o]) <=> w \in x..(x + b - 1)
    BY <2>1, <2>2 DEF WordsOf
  <2>5. Occupies(m.ot[o], seg, w) <=> x <= w /\ w < x + b
    BY <2>1, <2>2 DEF Occupies
  <2>6. w \in x..(x + b - 1) <=> w \in HeapWords /\ w \in mark..SegmentWords - 1 /\ x <= w /\ w < x + b
    BY <2>2, <2>3, ConstantsAre DEF HeapWords
  <2> QED
    BY <2>4, <2>5, <2>6
<1>6. ASSUME NEW w
      PROVE  w \in W <=> w \in HeapWords /\ w \in mark..SegmentWords - 1
                         /\ \E o \in Pointers : Slid(m.ot[o], seg, mark) /\ Occupies(m.ot[o], seg, w)
  <2>1. w \in W <=> \E o \in Pointers : o \in Swept(a, mark) /\ w \in WordsOf(a.ot[o])
    BY <1>4 DEF WordsAbove, Swept
  <2> QED
    BY <1>3, <1>5, <2>1
<1>7. ASSUME NEW w \in HeapWords, NEW o \in Pointers, Slid(m.ot[o], seg, mark), Occupies(m.ot[o], seg, w)
      PROVE  w \in mark..SegmentWords - 1
  <2>1. PICK x : x = m.ot[o].location
    OBVIOUS
  <2>2. x \in Nat /\ x >= mark /\ x <= w
    BY <1>1, <1>7, <2>1, ChunkLies DEF Slid, Occupies
  <2> QED
    BY <2>2, ConstantsAre DEF HeapWords
<1>8. Within(W, mark, SegmentWords)
  BY <1>6, ConstantsAre DEF Within
<1>9. Sliding(m.ot, seg, mark, W)
  BY <1>1, <1>6, <1>7, <1>8 DEF Sliding
<1> QED
  BY <1>3, <1>4, <1>9

(* An object that slides stays what it is.                                   *)
Moved(e, location) == [e EXCEPT !.location = location]

LEMMA MovedIs ==
  ASSUME NEW e, EntryOK(e), ~e.free, NEW k \in Nat, k + Space(e) <= SegmentWords
  PROVE  LET y == Moved(e, k)
         IN  /\ EntryOK(y) /\ y \in Entry /\ y.free = e.free /\ y.segment = e.segment
             /\ y.size = e.size /\ y.location = k /\ SameContent(e, y) /\ Space(y) = Space(e)
             /\ IsChunk(y) <=> IsChunk(e)
<1>1. PICK y : y = Moved(e, k)
  OBVIOUS
<1>2. e \in Entry /\ Space(e) \in Nat /\ Space(e) >= 2
  BY ChunkLies DEF EntryOK
<1>3. k \in 0..HeapSpaceStop
  <2>1. PICK b : b = Space(e)
    OBVIOUS
  <2> QED
    BY <1>2, <2>1, ConstantsAre
<1>4. /\ y \in Entry
      /\ y.free = e.free /\ y.count = e.count /\ y.pointer = e.pointer /\ y.segment = e.segment
      /\ y.location = k /\ y.size = e.size /\ y.class = e.class /\ y.field = e.field
  BY <1>1, <1>2, <1>3 DEF Moved, Entry
<1>5. Space(y) = Space(e)
  BY <1>4 DEF Space, spaceOccupiedBy
<1>6. EntryOK(y)
  BY <1>4, <1>5 DEF EntryOK
<1> QED
  BY <1>1, <1>4, <1>5, <1>6 DEF SameContent, IsChunk

Swept1(m, s, a, seg, mark, W) ==
  /\ Shape(s, {}) /\ s.freePointers = a.freePointers /\ s.currentSegment = seg
  /\ SameRegisters(a, s)
  /\ \A o \in Pointers :
       /\ Slid(m.ot[o], seg, mark) => s.ot[o] = Moved(m.ot[o], mark + CountTo(W, mark, m.ot[o].location))
       /\ ~Slid(m.ot[o], seg, mark) => s.ot[o] = a.ot[o]

LEMMA SweepEntries ==
  ASSUME NEW m, Shape(m, {}), Tiled(m.ot), NEW seg, NEW mark \in Nat, NEW W,
         Sliding(m.ot, seg, mark, W),
         NEW f \in Pointers, InSegment(m.ot[f], seg), m.ot[f].location = mark,
         NEW o \in Pointers, Slid(m.ot[o], seg, mark), NEW k, k = mark + CountTo(W, mark, m.ot[o].location)
  PROVE  k \in Nat /\ k + Space(m.ot[o]) <= SegmentWords
<1>1. PICK e : e = m.ot[o]
  OBVIOUS
<1>2. EntryOK(e) /\ ~e.free /\ e.segment = seg
  BY <1>1, ShapeIs DEF Slid
<1>3. PICK x, b : x = e.location /\ b = Space(e)
  OBVIOUS
<1>4. x \in Nat /\ b \in Nat
  BY <1>2, <1>3, ChunkLies
<1>5. CountTo(W, mark, x) \in Nat /\ Cardinality(W) \in Nat /\ Within(W, mark, SegmentWords)
  BY <1>4, CountToIs DEF Sliding
<1>6. PICK y : y = [e EXCEPT !.location = k]
  OBVIOUS
<1>7. y.location = k /\ Space(y) = b /\ ~y.free /\ y.segment = seg
  BY <1>2, <1>3, <1>6 DEF EntryOK, Entry, Space, spaceOccupiedBy
<1>8. SlidTo(e, y, seg, mark, W)
  BY <1>1, <1>3, <1>7 DEF SlidTo
<1>9. SlidBy(e, y, mark, W)
  BY <1>1, <1>8, SlidWords
<1>10. k + b <= mark + Cardinality(W)
  BY <1>3, <1>7, <1>9 DEF SlidBy
<1>11. mark + Cardinality(W) + 2 <= SegmentWords
  BY RoomForChunk
<1>12. k \in Nat
  BY <1>1, <1>3, <1>5
<1>13. k + b <= SegmentWords
  BY <1>4, <1>5, <1>10, <1>11, <1>12, ConstantsAre
<1> QED
  BY <1>1, <1>3, <1>12, <1>13

LEMMA Sweep ==
  ASSUME NEW m, Shape(m, {}), Tiled(m.ot), NEW a, NEW seg, seg = m.currentSegment,
         Abandoned(m, a, seg), NEW mark \in Nat, NEW W, W = WordsAbove(a, mark),
         NEW f \in Pointers, InSegment(m.ot[f], seg), m.ot[f].location = mark
  PROVE  Swept1(m, sweepCurrentSegmentFrom(a, mark), a, seg, mark, W)
<1>1. PICK s : s = sweepCurrentSegmentFrom(a, mark)
  OBVIOUS
<1> DEFINE slid(o) == mark + Cardinality(W \cap (mark..(a.ot[o].location - 1)))
<1>2. s = [a EXCEPT !.ot = [o \in Pointers |->
             IF o \in Swept(a, mark) THEN [a.ot[o] EXCEPT !.location = slid(o)] ELSE a.ot[o]]]
  BY <1>1 DEF sweepCurrentSegmentFrom
<1>3. /\ \A o \in Pointers : o \in Swept(a, mark) <=> Slid(m.ot[o], seg, mark)
      /\ \A o \in Pointers : Slid(m.ot[o], seg, mark) => a.ot[o] = m.ot[o]
      /\ Sliding(m.ot, seg, mark, W)
  BY SweptIs
<1>4. /\ a \in Memory /\ a.ot \in [Pointers -> Entry] /\ a.freeChunks \in Lists
      /\ ChunksListed(a.ot, a.freeChunks, {}) /\ PointersListed(a.ot, a.freePointers)
      /\ \A o \in Pointers : EntryOK(a.ot[o]) /\ EntryOK(m.ot[o])
      /\ a.currentSegment = seg
  BY ShapeIs DEF Abandoned
<1>5. PICK ot : ot = s.ot
  OBVIOUS
<1>6. /\ ot = [o \in Pointers |->
                 IF o \in Swept(a, mark) THEN [a.ot[o] EXCEPT !.location = slid(o)] ELSE a.ot[o]]
      /\ s = [a EXCEPT !.ot = ot]
  <2> HIDE DEF slid
  <2> QED
    BY <1>2, <1>4, <1>5 DEF Memory
<1>7. ASSUME NEW o \in Pointers
      PROVE  /\ Slid(m.ot[o], seg, mark) => ot[o] = Moved(m.ot[o], mark + CountTo(W, mark, m.ot[o].location))
             /\ ~Slid(m.ot[o], seg, mark) => ot[o] = a.ot[o]
  BY <1>3, <1>6 DEF Moved, CountTo
<1> HIDE DEF slid
<1>8. ASSUME NEW o \in Pointers
      PROVE  /\ EntryOK(ot[o]) /\ ot[o] \in Entry /\ ot[o].free = a.ot[o].free
             /\ ot[o].segment = a.ot[o].segment /\ ot[o].size = a.ot[o].size
             /\ IsChunk(ot[o]) <=> IsChunk(a.ot[o])
  <2>1. CASE Slid(m.ot[o], seg, mark)
    <3>1. PICK k, e : k = mark + CountTo(W, mark, m.ot[o].location) /\ e = m.ot[o]
      OBVIOUS
    <3>2. k \in Nat /\ k + Space(e) <= SegmentWords
      BY <1>3, <2>1, <3>1, SweepEntries
    <3>3. EntryOK(e) /\ ~e.free /\ a.ot[o] = e /\ ot[o] = Moved(e, k)
      BY <1>3, <1>4, <1>7, <2>1, <3>1 DEF Slid
    <3> QED
      BY <3>2, <3>3, MovedIs
  <2>2. CASE ~Slid(m.ot[o], seg, mark)
    BY <1>4, <1>7, <2>2
  <2> QED
    BY <2>1, <2>2
<1>9. ot \in [Pointers -> Entry]
  BY <1>6, <1>8
<1>10. /\ s \in Memory /\ s.freePointers = a.freePointers /\ s.currentSegment = seg
       /\ s.freeChunks = a.freeChunks /\ SameRegisters(a, s)
  BY <1>4, <1>6, <1>9 DEF Memory, SameRegisters
<1>11. Entries(ot)
  BY <1>8, <1>9 DEF Entries
<1>12. PointersListed(ot, a.freePointers)
  BY <1>4, <1>8 DEF PointersListed
<1>13. ChunksListed(ot, a.freeChunks, {})
  <2>1. ASSUME NEW s1 \in 1..Segments, NEW z \in ChunkSizes, NEW o \in ToSet(a.freeChunks[s1][z])
        PROVE  o \notin {} /\ ListedAt(ot[o], s1, z)
    <3>1. ListedAt(a.ot[o], s1, z) /\ o \in Pointers
      BY <1>4, ListedIs, ListIs
    <3> QED
      BY <1>8, <3>1 DEF ListedAt
  <2>2. \A o \in Pointers : IsChunk(ot[o]) /\ o \notin {} => IsChunk(a.ot[o]) /\ o \notin {}
    BY <1>8
  <2>3. StillListed(a.ot, ot, a.freeChunks, {}, {})
    BY <2>1, <2>2 DEF StillListed
  <2> QED
    BY <1>4, <2>3, ListsKeep
<1>14. Shape(s, {})
  BY <1>5, <1>10, <1>11, <1>12, <1>13 DEF Shape
<1> QED
  BY <1>1, <1>5, <1>7, <1>10, <1>14 DEF Swept1

Plain(e) == spaceOccupiedBy(e) = e.size
PlainIn(ot, seg) == \A o \in Pointers : InSegment(ot[o], seg) => Plain(ot[o])

Compacted(m, n) ==
  /\ Shape(n, {}) /\ Tiled(n.ot) /\ n.currentSegment = m.currentSegment
  /\ SameContents(m.ot, n.ot) /\ SameRegisters(m, n)
  /\ PlainIn(n.ot, m.currentSegment)
  /\ \A seg \in 1..Segments : PlainIn(m.ot, seg) => PlainIn(n.ot, seg)

LEMMA ContentsTrans ==
  ASSUME NEW ot, NEW ot2, NEW ot3, SameContents(ot, ot2), SameContents(ot2, ot3)
  PROVE  SameContents(ot, ot3)
BY DEF SameContents, SameContent

LEMMA RegistersTrans ==
  ASSUME NEW l, NEW m, NEW n, SameRegisters(l, m), SameRegisters(m, n)
  PROVE  SameRegisters(l, n)
BY DEF SameRegisters

(* The swept chunks and a free one for the rest.                             *)
LEMMA Join ==
  ASSUME NEW m, Shape(m, {}), Tiled(m.ot), NEW a, NEW seg, seg = m.currentSegment,
         Abandoned(m, a, seg), NEW mark \in Nat, NEW W, W = WordsAbove(a, mark),
         NEW f \in Pointers, InSegment(m.ot[f], seg), m.ot[f].location = mark,
         \A o \in Pointers : InSegment(m.ot[o], seg) => mark <= m.ot[o].location,
         NEW s, Swept1(m, s, a, seg, mark, W),
         NEW big, big = mark + Cardinality(W),
         NEW r, r = obtainPointer_location(s, HeapSpaceStop + 1 - big, big),
         NEW n, n = deallocate(r, Head(s.freePointers))
  PROVE  Compacted(m, n)
<1>1. /\ seg \in 1..Segments /\ Entries(m.ot) /\ \A o \in Pointers : EntryOK(m.ot[o])
  BY ShapeIs
<1>2. Sliding(m.ot, seg, mark, W)
  BY SweptIs
<1>3. Cardinality(W) \in Nat /\ mark + Cardinality(W) + 2 <= SegmentWords
  BY <1>2, RoomForChunk
<1>4. PICK size, p : size = HeapSpaceStop + 1 - big /\ p = Head(s.freePointers)
  OBVIOUS
<1>5. big \in Nat /\ size \in Nat /\ size >= 2 /\ size = SegmentWords - big /\ big + size <= SegmentWords
  <2>1. PICK k : k = Cardinality(W)
    OBVIOUS
  <2>2. k \in Nat /\ mark + k + 2 <= SegmentWords /\ big = mark + k
    BY <1>3, <2>1
  <2>3. size = (SegmentWords - 1) + 1 - big /\ SegmentWords \in Nat
    BY <1>4, ConstantsAre
  <2> QED
    BY <2>2, <2>3
<1>6. /\ Shape(s, {}) /\ s.freePointers = a.freePointers /\ s.currentSegment = seg
      /\ SameRegisters(a, s)
      /\ \A o \in Pointers :
           /\ Slid(m.ot[o], seg, mark) => s.ot[o] = Moved(m.ot[o], mark + CountTo(W, mark, m.ot[o].location))
           /\ ~Slid(m.ot[o], seg, mark) => s.ot[o] = a.ot[o]
  BY DEF Swept1
<1>7. s.freePointers # <<>>
  <2>1. a.ot[f] = FreeEntry
    BY DEF Abandoned
  <2>2. PointersListed(a.ot, a.freePointers)
    BY ShapeIs DEF Abandoned
  <2>3. f \in ToSet(a.freePointers)
    BY <2>1, <2>2, FreeEntryIs DEF PointersListed
  <2> QED
    BY <1>6, <2>3, EmptyIs
<1>8. PICK K : K = {}
  OBVIOUS
<1>9. Obtained(s, r, p, size, big, K)
  <2>1. r = obtainPointer_location(s, size, big) /\ Shape(s, K)
    BY <1>4, <1>6, <1>8
  <2> QED
    BY <1>4, <1>5, <1>7, <2>1, ObtainPointer
<1>10. /\ p \in Pointers /\ s.ot[p].free
       /\ Shape(r, K \cup {p}) /\ r.ot[p] = NewEntry(seg, big, size)
       /\ \A q \in Pointers : q # p => r.ot[q] = s.ot[q]
       /\ r.currentSegment = seg /\ SameRegisters(s, r)
  BY <1>6, <1>9 DEF Obtained
<1>11. PICK z : z = r.ot[p]
  OBVIOUS
<1>12. /\ Discardable(z) /\ IsChunk(z) /\ z.segment = seg /\ z.location = big
       /\ Space(z) = size /\ z.count = 0 /\ z.field = <<>> /\ z.pointer = FALSE
  <2>1. z = NewEntry(seg, big, size)
    BY <1>10, <1>11
  <2>2. z.pointer = FALSE
    BY <2>1, FreeEntryIs DEF NewEntry, FreeEntry
  <2> QED
    BY <1>1, <1>5, <2>1, <2>2, NewEntryIs
<1>13. Deallocated(r, n, p, K \cup {p})
  <2>1. Discardable(r.ot[p]) /\ p \in K \cup {p} /\ n = deallocate(r, p)
    BY <1>4, <1>11, <1>12
  <2> QED
    BY <1>10, <2>1, Deallocate
<1>14. PICK y : y = n.ot[p]
  OBVIOUS
<1>15. /\ Shape(n, (K \cup {p}) \ {p}) /\ EmptiedFrom(z, y)
       /\ \A q \in Pointers : q # p => n.ot[q] = s.ot[q]
       /\ n.currentSegment = seg /\ SameRegisters(r, n)
  <2>1. /\ Shape(n, (K \cup {p}) \ {p}) /\ EmptiedFrom(r.ot[p], n.ot[p])
        /\ \A q \in Pointers : q # p => n.ot[q] = r.ot[q]
        /\ n.currentSegment = r.currentSegment /\ SameRegisters(r, n)
    BY <1>13 DEF Deallocated
  <2> QED
    BY <1>10, <1>11, <1>14, <2>1
<1>16. Shape(n, {})
  <2>1. (K \cup {p}) \ {p} = {}
    BY <1>8
  <2> QED
    BY <1>15, <2>1
<1>17. /\ ~y.free /\ y.segment = seg /\ y.location = big /\ Space(y) = size /\ y.size = size
       /\ y.pointer = FALSE /\ y.field = <<>> /\ y.count = 0 /\ y.class = NilPointer
  BY <1>12, <1>15 DEF EmptiedFrom, IsChunk
<1>18. ASSUME NEW o \in Pointers
       PROVE  /\ InSegment(m.ot[o], seg) => a.ot[o] = FreeEntry
              /\ ~InSegment(m.ot[o], seg) => a.ot[o] = m.ot[o]
  BY DEF Abandoned
<1>19. ASSUME NEW o \in Pointers, Slid(m.ot[o], seg, mark)
       PROVE  LET k == mark + CountTo(W, mark, m.ot[o].location)
              IN  /\ s.ot[o] = Moved(m.ot[o], k)
                  /\ SlidTo(m.ot[o], s.ot[o], seg, mark, W)
                  /\ ~IsChunk(s.ot[o]) /\ SameContent(m.ot[o], s.ot[o]) /\ s.ot[o].segment = seg
  <2>1. PICK k, e, x : k = mark + CountTo(W, mark, m.ot[o].location) /\ e = m.ot[o] /\ x = s.ot[o]
    OBVIOUS
  <2>2. k \in Nat /\ k + Space(e) <= SegmentWords
    BY <1>2, <1>19, <2>1, SweepEntries
  <2>3. EntryOK(e) /\ ~e.free /\ x = Moved(e, k) /\ e.segment = seg /\ ~IsChunk(e)
    BY <1>1, <1>6, <1>19, <2>1 DEF Slid
  <2>4. /\ x.free = e.free /\ x.segment = e.segment /\ x.location = k
        /\ SameContent(e, x) /\ Space(x) = Space(e) /\ (IsChunk(x) <=> IsChunk(e))
    BY <2>2, <2>3, MovedIs
  <2> QED
    BY <2>1, <2>3, <2>4 DEF SlidTo
<1>20. ~Slid(m.ot[p], seg, mark) /\ s.ot[p] = a.ot[p] /\ Vanishes(m.ot[p], seg)
  <2>1. ~Slid(m.ot[p], seg, mark)
    BY <1>10, <1>19 DEF SlidTo
  <2>2. s.ot[p] = a.ot[p]
    BY <1>6, <1>10, <2>1
  <2> QED
    BY <1>10, <1>18, <2>1, <2>2 DEF Vanishes
<1>21. ASSUME NEW o \in Pointers, o # p
       PROVE  \/ n.ot[o].free /\ Vanishes(m.ot[o], seg)
              \/ Slid(m.ot[o], seg, mark) /\ SlidTo(m.ot[o], n.ot[o], seg, mark, W)
              \/ Stays(m.ot[o], seg, mark) /\ SameExtent(m.ot[o], n.ot[o])
  <2>1. n.ot[o] = s.ot[o]
    BY <1>15, <1>21
  <2>2. CASE Slid(m.ot[o], seg, mark)
    BY <1>19, <2>1, <2>2
  <2>3. CASE InSegment(m.ot[o], seg)
    <3>1. ~Slid(m.ot[o], seg, mark)
      BY <2>3 DEF Slid, InSegment
    <3>2. n.ot[o] = FreeEntry
      BY <1>6, <1>18, <2>1, <2>3, <3>1
    <3> QED
      BY <2>3, <3>2, FreeEntryIs DEF Vanishes
  <2>4. CASE ~Slid(m.ot[o], seg, mark) /\ ~InSegment(m.ot[o], seg)
    <3>1. n.ot[o] = m.ot[o]
      BY <1>6, <1>18, <2>1, <2>4
    <3>2. m.ot[o].location \in Nat
      BY <1>1, EntryIs DEF EntryOK
    <3>3. m.ot[o].free \/ Stays(m.ot[o], seg, mark)
      BY <2>4, <3>2 DEF Slid, InSegment, Stays
    <3> QED
      BY <3>1, <3>3 DEF Vanishes, SameExtent
  <2> QED
    BY <2>2, <2>3, <2>4
<1>22. Tiled(n.ot)
  <2>1. PICK ot, ot2 : ot = m.ot /\ ot2 = n.ot
    OBVIOUS
  <2>2. Compacts(ot, ot2, seg, mark, W, p, f)
    <3>1. /\ ~ot2[p].free /\ ot2[p].segment = seg
          /\ ot2[p].location = mark + Cardinality(W)
          /\ Space(ot2[p]) = SegmentWords - (mark + Cardinality(W))
      BY <1>5, <1>14, <1>17, <2>1
    <3>2. \A o \in Pointers : InSegment(ot[o], seg) => mark <= ot[o].location
      BY <2>1
    <3>3. \A o \in Pointers : o # p =>
             \/ ot2[o].free /\ Vanishes(ot[o], seg)
             \/ Slid(ot[o], seg, mark) /\ SlidTo(ot[o], ot2[o], seg, mark, W)
             \/ Stays(ot[o], seg, mark) /\ SameExtent(ot[o], ot2[o])
      BY <1>21, <2>1
    <3> QED
      BY <1>2, <1>10, <1>20, <2>1, <3>1, <3>2, <3>3 DEF Compacts
  <2> QED
    BY <2>1, <2>2, CompactTiles
<1>23. SameContents(m.ot, n.ot)
  <2>1. SameContents(m.ot, a.ot)
    BY DEF Abandoned
  <2>2. ASSUME NEW o \in Pointers PROVE SameContent(m.ot[o], n.ot[o])
    <3>1. CASE o = p
      <4>1. SameContent(m.ot[o], a.ot[o])
        BY <2>1 DEF SameContents
      <4>2. a.ot[o].free /\ a.ot[o] = FreeEntry
        <5>1. \A q \in Pointers : EntryOK(a.ot[q])
          BY ShapeIs DEF Abandoned
        <5> QED
          BY <1>10, <1>20, <3>1, <5>1 DEF EntryOK
      <4> QED
        BY <1>14, <1>17, <3>1, <4>1, <4>2, FreeEntryIs DEF SameContent
    <3>2. CASE o # p /\ Slid(m.ot[o], seg, mark)
      BY <1>15, <1>19, <3>2
    <3>3. CASE o # p /\ ~Slid(m.ot[o], seg, mark)
      <4>1. n.ot[o] = a.ot[o]
        BY <1>6, <1>15, <3>3
      <4> QED
        BY <2>1, <4>1 DEF SameContents
    <3> QED
      BY <3>1, <3>2, <3>3
  <2> QED
    BY <2>2 DEF SameContents
<1>24. SameRegisters(m, n)
  <2>1. SameRegisters(m, a)
    BY DEF Abandoned
  <2> QED
    BY <1>6, <1>10, <1>15, <2>1 DEF SameRegisters
<1>25. ASSUME NEW o \in Pointers, NEW s1, InSegment(n.ot[o], s1)
       PROVE  Plain(n.ot[o]) \/ (n.ot[o] = m.ot[o] /\ s1 # seg)
  <2>1. CASE o = p
    <3>1. n.ot[o] = y /\ y.pointer = FALSE
      BY <1>14, <1>17, <2>1
    <3>2. spaceOccupiedBy(y) = y.size
      BY <3>1 DEF spaceOccupiedBy
    <3>3. Plain(y)
      BY <3>2 DEF Plain
    <3> QED
      BY <3>1, <3>3
  <2>2. CASE o # p
    <3>1. n.ot[o] = s.ot[o]
      BY <1>15, <2>2
    <3>2. ~Slid(m.ot[o], seg, mark)
      BY <1>19, <1>25, <3>1 DEF InSegment
    <3>3. n.ot[o] = a.ot[o]
      BY <1>6, <3>1, <3>2
    <3>4. ~InSegment(m.ot[o], seg)
      BY <1>18, <1>25, <3>3, FreeEntryIs DEF InSegment, IsChunk
    <3> QED
      BY <1>18, <1>25, <3>3, <3>4
  <2> QED
    BY <2>1, <2>2
<1>26. PlainIn(n.ot, seg) /\ \A s1 \in 1..Segments : PlainIn(m.ot, s1) => PlainIn(n.ot, s1)
  BY <1>25 DEF PlainIn
<1> QED
  BY <1>15, <1>16, <1>22, <1>23, <1>24, <1>26 DEF Compacted

LEMMA Compact ==
  ASSUME NEW m, Shape(m, {}), Tiled(m.ot)
  PROVE  Compacted(m, compactCurrentSegment(m))
<1>1. PICK n, a, seg, mark :
         /\ n = compactCurrentSegment(m) /\ seg = m.currentSegment
         /\ a = abandonFreeChunksInSegment(m, seg) /\ mark = lowWaterMark(m, seg)
  OBVIOUS
<1>2. seg \in 1..Segments /\ \A o \in Pointers : EntryOK(m.ot[o])
  BY <1>1, ShapeIs
<1>3. Abandoned(m, a, seg)
  BY <1>1, <1>2, Abandon
<1>4. /\ mark \in Nat /\ mark <= HeapSpaceStop
      /\ \A o \in Pointers : InSegment(m.ot[o], seg) => mark <= m.ot[o].location
      /\ mark < HeapSpaceStop =>
            \E o \in Pointers : InSegment(m.ot[o], seg) /\ m.ot[o].location = mark
  BY <1>1, <1>2, LowWaterMarkIs
<1>5. CASE mark >= HeapSpaceStop
  <2>1. n = a
    BY <1>1, <1>5 DEF compactCurrentSegment
  <2>2. ASSUME NEW o \in Pointers PROVE ~InSegment(m.ot[o], seg) /\ a.ot[o] = m.ot[o]
    <3>1. ASSUME InSegment(m.ot[o], seg) PROVE FALSE
      <4>1. PICK x, b : x = m.ot[o].location /\ b = Space(m.ot[o])
        OBVIOUS
      <4>2. x \in Nat /\ b \in Nat /\ b >= 2 /\ x + b <= SegmentWords
        BY <1>2, <3>1, <4>1, ChunkLies DEF InSegment, IsChunk
      <4>3. mark <= x
        BY <1>4, <3>1, <4>1
      <4> QED
        BY <1>4, <1>5, <4>2, <4>3, ConstantsAre
    <3> QED
      BY <1>3, <3>1 DEF Abandoned
  <2>3. SameExtents(m.ot, a.ot)
    BY <2>2 DEF SameExtents, SameExtent
  <2>4. Tiled(a.ot)
    BY <2>3, StaysTiled
  <2>5. PlainIn(a.ot, seg) /\ \A s \in 1..Segments : PlainIn(m.ot, s) => PlainIn(a.ot, s)
    BY <2>2 DEF PlainIn
  <2> QED
    BY <1>1, <1>3, <2>1, <2>4, <2>5 DEF Abandoned, Compacted
<1>6. CASE mark < HeapSpaceStop
  <2>1. PICK f \in Pointers : InSegment(m.ot[f], seg) /\ m.ot[f].location = mark
    BY <1>4, <1>6
  <2>2. PICK W, s : W = WordsAbove(a, mark) /\ s = sweepCurrentSegmentFrom(a, mark)
    OBVIOUS
  <2>3. Swept1(m, s, a, seg, mark, W)
    BY <1>1, <1>3, <1>4, <2>1, <2>2, Sweep
  <2>4. PICK big, r : big = mark + Cardinality(W) /\ r = obtainPointer_location(s, HeapSpaceStop + 1 - big, big)
    OBVIOUS
  <2>5. n = deallocate(r, Head(s.freePointers))
    <3>1. ~(mark >= HeapSpaceStop)
      BY <1>4, <1>6, ConstantsAre
    <3>2. bigSpace(a, mark) = big
      BY <2>2, <2>4 DEF bigSpace
    <3> QED
      BY <1>1, <2>2, <2>4, <3>1, <3>2 DEF compactCurrentSegment
  <2>6. /\ seg = m.currentSegment /\ mark \in Nat
        /\ \A o \in Pointers : InSegment(m.ot[o], seg) => mark <= m.ot[o].location
    BY <1>1, <1>4
  <2> QED
    BY <1>1, <1>3, <2>1, <2>2, <2>3, <2>4, <2>5, <2>6, Join
<1> QED
  BY <1>4, <1>5, <1>6, ConstantsAre

----------------------------------------------------------------------------
(* attemptToAllocateChunk.                                                   *)

InNext(t, size) ==
  IF t.found THEN t
  ELSE attemptToAllocateChunkInCurrentSegment(
         compactCurrentSegment([t.mem EXCEPT !.currentSegment = NextSegment(@)]), size)
trying(m, size, f) ==
  [n \in 0..Segments |->
     IF n = 0 THEN attemptToAllocateChunkInCurrentSegment(m, size) ELSE InNext(f[n - 1], size)]
tries(m, size) == CHOOSE f : f = trying(m, size, f)

LEMMA Trying ==
  ASSUME NEW m, NEW size
  PROVE  tries(m, size) = trying(m, size, tries(m, size))
<1> DEFINE N == Segments
           first == attemptToAllocateChunkInCurrentSegment(m, size)
           step(f, i) == IF i = 0 THEN first ELSE InNext(f[i - 1], size)
           E == {k \in Nat : \E f : f = [i \in 0..k |-> step(f, i)]}
<1>1. 0 \in E
  <2>1. [i \in 0..0 |-> first] = [i \in 0..0 |-> step([j \in 0..0 |-> first], i)]
    <3> HIDE DEF first
    <3> QED
      OBVIOUS
  <2> QED
    BY <2>1
<1>2. ASSUME NEW k \in 0..N - 1, k \in E PROVE k + 1 \in E
  <2>1. PICK f : f = [i \in 0..k |-> step(f, i)]
    BY <1>2
  <2> DEFINE g == [i \in 0..k + 1 |-> step(f, i)]
  <2>2. k \in Nat /\ k + 1 \in Nat
    BY ConstantsAre
  <2>3. \A i \in 0..k : g[i] = f[i]
    <3> HIDE DEF step
    <3> QED
      BY <2>1, <2>2
  <2>4. \A i \in 0..k + 1 : step(f, i) = step(g, i)
    <3> HIDE DEF g, first
    <3> QED
      BY <2>2, <2>3
  <2>5. g = [i \in 0..k + 1 |-> step(g, i)]
    <3>1. g = [i \in 0..k + 1 |-> g[i]]
      BY Zenon
    <3>2. \A i \in 0..k + 1 : g[i] = step(f, i)
      BY Zenon
    <3> HIDE DEF g, step
    <3> QED
      BY <2>4, <3>1, <3>2
  <2> HIDE DEF g, step
  <2> QED
    BY <2>2, <2>5
<1>3. N \in E
  <2> HIDE DEF E
  <2>1. N \in Nat
    BY ConstantsAre
  <2>2. 0..N \subseteq E
    BY <1>1, <1>2, <2>1, InductionTo
  <2> QED
    BY <2>1, <2>2
<1>4. PICK f : f = trying(m, size, f)
  BY <1>3, Zenon DEF trying
<1> QED
  BY <1>4, Zenon DEF tries

(* The segment n after the current one.                                      *)
After(c, n) == IF c + n <= Segments THEN c + n ELSE c + n - Segments

(* Nothing is found up to there: these segments have been compacted.         *)
Searched(m, x, n) ==
  /\ Shape(x, {}) /\ Tiled(x.ot) /\ SameContents(m.ot, x.ot) /\ SameRegisters(m, x)
  /\ x.currentSegment = After(m.currentSegment, n)
  /\ \A i \in 1..n : PlainIn(x.ot, After(m.currentSegment, i))

Tried(m, t, size, n) ==
  \/ \E x, o : t = Found(x, o) /\ Taken(m, x, o, size)
  \/ \E x : t = NotFound(x) /\ Searched(m, x, n)

LEMMA AfterIs ==
  ASSUME NEW c \in 1..Segments
  PROVE  /\ After(c, 0) = c
         /\ \A n \in 0..Segments : After(c, n) \in 1..Segments
         /\ \A n \in 0..Segments - 1 : After(c, n + 1) = NextSegment(After(c, n))
         /\ \A s \in 1..Segments : \E n \in 1..Segments : After(c, n) = s
<1>1. Segments \in Nat /\ Segments >= 1 /\ c \in Nat
  BY ConstantsAre
<1>2. After(c, 0) = c
  BY <1>1 DEF After
<1>3. \A n \in 0..Segments : After(c, n) \in 1..Segments
  BY <1>1 DEF After
<1>4. \A n \in 0..Segments - 1 : After(c, n + 1) = NextSegment(After(c, n))
  BY <1>1 DEF After, NextSegment
<1>5. ASSUME NEW s \in 1..Segments PROVE \E n \in 1..Segments : After(c, n) = s
  <2>1. CASE s > c
    <3>1. s - c \in 1..Segments /\ After(c, s - c) = s
      BY <1>1, <2>1 DEF After
    <3> QED
      BY <3>1
  <2>2. CASE ~(s > c)
    <3>1. s - c + Segments \in 1..Segments /\ After(c, s - c + Segments) = s
      BY <1>1, <2>2 DEF After
    <3> QED
      BY <3>1
  <2> QED
    BY <2>1, <2>2
<1> QED
  BY <1>2, <1>3, <1>4, <1>5

LEMMA TakenFrom ==
  ASSUME NEW m, NEW x, NEW n, NEW o, NEW size, Taken(x, n, o, size),
         SameContents(m.ot, x.ot), SameRegisters(m, x)
  PROVE  Taken(m, n, o, size)
<1>1. SameContents(x.ot, n.ot) /\ SameRegisters(x, n)
  BY DEF Taken
<1>2. SameContents(m.ot, n.ot) /\ SameRegisters(m, n)
  BY <1>1, ContentsTrans, RegistersTrans
<1> QED
  BY <1>2 DEF Taken

LEMMA TryNext ==
  ASSUME NEW m, Shape(m, {}), NEW size \in Nat, size >= 2,
         NEW n \in 0..Segments - 1, NEW t, Tried(m, t, size, n)
  PROVE  Tried(m, InNext(t, size), size, n + 1)
<1>1. CASE \E x, o : t = Found(x, o) /\ Taken(m, x, o, size)
  <2>1. t.found
    BY <1>1 DEF Found
  <2>2. InNext(t, size) = t
    BY <2>1 DEF InNext
  <2> QED
    BY <1>1, <2>2 DEF Tried
<1>2. CASE \E x : t = NotFound(x) /\ Searched(m, x, n)
  <2>1. PICK x : t = NotFound(x) /\ Searched(m, x, n)
    BY <1>2
  <2>2. PICK c : c = m.currentSegment
    OBVIOUS
  <2>3. /\ Shape(x, {}) /\ Tiled(x.ot) /\ SameContents(m.ot, x.ot) /\ SameRegisters(m, x)
        /\ x.currentSegment = After(c, n)
        /\ \A i \in 1..n : PlainIn(x.ot, After(c, i))
    BY <2>1, <2>2 DEF Searched
  <2>4. c \in 1..Segments /\ m.ot \in [Pointers -> Entry]
    BY <2>2, ShapeIs
  <2>5. /\ NextSegment(After(c, n)) = After(c, n + 1) /\ After(c, n + 1) \in 1..Segments
        /\ \A i \in 1..n : After(c, i) \in 1..Segments
        /\ n \in Nat /\ n + 1 \in 0..Segments
    <3>1. Segments \in Nat
      BY ConstantsAre
    <3>2. /\ \A k \in 0..Segments : After(c, k) \in 1..Segments
          /\ \A k \in 0..Segments - 1 : After(c, k + 1) = NextSegment(After(c, k))
      BY <2>4, AfterIs
    <3>3. n \in Nat /\ n + 1 \in 0..Segments /\ \A i \in 1..n : i \in 0..Segments
      BY <3>1
    <3> QED
      BY <3>2, <3>3
  <2>6. PICK y : y = [x EXCEPT !.currentSegment = NextSegment(@)]
    OBVIOUS
  <2>7. y = [x EXCEPT !.currentSegment = After(c, n + 1)] /\ x \in Memory
    BY <2>3, <2>5, <2>6, ShapeIs
  <2>8. /\ y \in Memory /\ y.ot = x.ot /\ y.freeChunks = x.freeChunks
        /\ y.freePointers = x.freePointers /\ y.currentSegment = After(c, n + 1)
        /\ SameRegisters(x, y)
    BY <2>5, <2>7 DEF Memory, SameRegisters
  <2>9. Shape(y, {}) /\ Tiled(y.ot)
    BY <2>3, <2>8 DEF Shape
  <2>10. PICK z : z = compactCurrentSegment(y)
    OBVIOUS
  <2>11. Compacted(y, z)
    BY <2>9, <2>10, Compact
  <2>12. /\ Shape(z, {}) /\ Tiled(z.ot) /\ z.currentSegment = After(c, n + 1)
         /\ SameContents(y.ot, z.ot) /\ SameRegisters(y, z)
         /\ PlainIn(z.ot, After(c, n + 1))
         /\ \A s \in 1..Segments : PlainIn(y.ot, s) => PlainIn(z.ot, s)
    BY <2>8, <2>11 DEF Compacted
  <2>13. SameContents(m.ot, z.ot) /\ SameRegisters(m, z)
    <3>1. SameContents(m.ot, y.ot)
      BY <2>3, <2>8
    <3>2. SameRegisters(m, y)
      BY <2>3, <2>8, RegistersTrans
    <3> QED
      BY <2>12, <3>1, <3>2, ContentsTrans, RegistersTrans
  <2>14. ASSUME NEW i \in 1..n + 1 PROVE PlainIn(z.ot, After(c, i))
    <3>1. CASE i = n + 1
      BY <2>12, <3>1
    <3>2. CASE i # n + 1
      <4>1. i \in 1..n
        BY <2>5, <3>2
      <4>2. PlainIn(y.ot, After(c, i)) /\ After(c, i) \in 1..Segments
        BY <2>3, <2>5, <2>8, <4>1
      <4> QED
        BY <2>12, <4>2
    <3> QED
      BY <3>1, <3>2
  <2>15. Searched(m, z, n + 1)
    BY <2>2, <2>12, <2>13, <2>14 DEF Searched
  <2>16. PICK u : u = attemptToAllocateChunkInCurrentSegment(z, size)
    OBVIOUS
  <2>17. InNext(t, size) = u
    <3>1. ~t.found /\ t.mem = x
      BY <2>1 DEF NotFound
    <3> QED
      BY <2>6, <2>10, <2>16, <3>1 DEF InNext
  <2>18. Search(z, u, size)
    BY <2>12, <2>16, AttemptInSegment
  <2>19. CASE u = NotFound(z)
    BY <2>15, <2>17, <2>19 DEF Tried
  <2>20. CASE \E x1, o : u = Found(x1, o) /\ Taken(z, x1, o, size)
    <3>1. PICK x1, o : u = Found(x1, o) /\ Taken(z, x1, o, size)
      BY <2>20
    <3>2. Taken(m, x1, o, size)
      BY <2>13, <3>1, TakenFrom
    <3> QED
      BY <2>17, <3>1, <3>2 DEF Tried
  <2> QED
    BY <2>18, <2>19, <2>20 DEF Search
<1> QED
  BY <1>1, <1>2 DEF Tried

(* A chunk is found, or none is and all have been made anew.                 *)
Attempted(m, t, size) ==
  \/ \E x, o : t = Found(x, o) /\ Taken(m, x, o, size)
  \/ \E x : /\ t = NotFound(x)
            /\ Shape(x, {}) /\ Tiled(x.ot) /\ SameContents(m.ot, x.ot) /\ SameRegisters(m, x)
            /\ \A o \in Pointers : IsChunk(x.ot[o]) => Plain(x.ot[o])

LEMMA AttemptToAllocateChunk ==
  ASSUME NEW m, Shape(m, {}), Tiled(m.ot), NEW size \in Nat, size >= 2
  PROVE  Attempted(m, attemptToAllocateChunk(m, size), size)
<1>1. PICK f : f = tries(m, size)
  OBVIOUS
<1>2. f = trying(m, size, f)
  BY <1>1, Trying
<1>3. Segments \in Nat /\ m.currentSegment \in 1..Segments
  BY ConstantsAre, ShapeIs
<1>4. /\ f[0] = attemptToAllocateChunkInCurrentSegment(m, size)
      /\ \A n \in 1..Segments : f[n] = InNext(f[n - 1], size)
  BY <1>2, <1>3 DEF trying
<1> DEFINE S == {n \in Nat : Tried(m, f[n], size, n)}
<1>5. 0 \in S
  <2>1. Search(m, f[0], size)
    BY <1>4, AttemptInSegment
  <2>2. Searched(m, m, 0)
    <3>1. \A i : i \notin 1..0
      OBVIOUS
    <3>2. m.currentSegment = After(m.currentSegment, 0)
      BY <1>3, AfterIs
    <3>3. SameRegisters(m, m)
      BY DEF SameRegisters
    <3> QED
      BY <3>1, <3>2, <3>3, ContentsRefl DEF Searched
  <2>3. Tried(m, f[0], size, 0)
    BY <2>1, <2>2 DEF Search, Tried
  <2> QED
    BY <2>3
<1>6. ASSUME NEW n \in 0..Segments - 1, n \in S PROVE n + 1 \in S
  <2>1. n + 1 \in 1..Segments /\ n + 1 \in Nat /\ (n + 1) - 1 = n
    BY <1>3
  <2>2. PICK t : t = f[n]
    OBVIOUS
  <2>3. Tried(m, t, size, n) /\ f[n + 1] = InNext(t, size)
    BY <1>4, <1>6, <2>1, <2>2
  <2>4. Tried(m, InNext(t, size), size, n + 1)
    BY <2>3, TryNext
  <2> QED
    BY <2>1, <2>3, <2>4
<1>7. Segments \in S
  <2> HIDE DEF S
  <2>1. 0..Segments \subseteq S
    BY <1>3, <1>5, <1>6, InductionTo
  <2> QED
    BY <1>3, <2>1
<1>8. PICK t : t = f[Segments]
  OBVIOUS
<1>9. Tried(m, t, size, Segments)
  BY <1>7, <1>8
<1>10. attemptToAllocateChunk(m, size) = t
  BY <1>1, <1>8 DEF attemptToAllocateChunk, tries, trying, InNext
<1>11. ASSUME NEW x, Searched(m, x, Segments), NEW o \in Pointers, IsChunk(x.ot[o]) PROVE Plain(x.ot[o])
  <2>1. EntryOK(x.ot[o])
    BY <1>11, ShapeIs DEF Searched
  <2>2. PICK s : s = x.ot[o].segment
    OBVIOUS
  <2>3. s \in 1..Segments
    BY <1>11, <2>1, <2>2 DEF EntryOK, IsChunk
  <2>4. PICK i \in 1..Segments : After(m.currentSegment, i) = s
    BY <1>3, <2>3, AfterIs
  <2>5. PlainIn(x.ot, s)
    BY <1>11, <2>4 DEF Searched
  <2> QED
    BY <1>11, <2>2, <2>5 DEF PlainIn, InSegment
<1>12. Attempted(m, t, size)
  BY <1>9, <1>11 DEF Tried, Attempted, Searched
<1> QED
  BY <1>10, <1>12

----------------------------------------------------------------------------
(* References and counts.                                                    *)

Slots == Pointers \X (1..SegmentWords)

(* What a slot of an object holds: the class, then the fields.               *)
Holds(e, j) ==
  IF j = 1 THEN e.class ELSE IF j - 1 \in DOMAIN e.field THEN e.field[j - 1] ELSE NilPointer

(* The slots that hold o, those of D left aside.                             *)
Refs(ot, D, o) == {x \in Slots \ D : Holds(ot[x[1]], x[2]) = o}

(* The counts are the references from the slots that are not in D and those  *)
(* that e says are held elsewhere; one to u is not counted.                  *)
Extra(u, o) == IF o = u THEN 1 ELSE 0
CountOK(ot, e, u, D, o) ==
  \/ ot[o].count = StickyCount
  \/ ot[o].count + Extra(u, o) = Cardinality(Refs(ot, D, o)) + e[o]
Exact(ot, e, u, D) ==
  /\ e \in [Pointers -> Nat] /\ D \in SUBSET Slots
  /\ \A o \in Pointers : CountOK(ot, e, u, D, o)

(* The class whose reference may be uncounted has two more.                  *)
Anchors == {<<InitialClass, 1>>, <<ActiveContext, 1>>}
Anchored(ot) == ot[InitialClass].class = InitialClass /\ ot[ActiveContext].class = InitialClass
Held(ot, u, D) ==
  u = NilPointer \/ (u = InitialClass /\ Anchored(ot) /\ Anchors \cap D = {})

Counted(ot, Z) == \A o \in Pointers : ot[o].class # NilPointer /\ ot[o].count = 0 => o \in Z

Plus(e, v) == [o \in Pointers |-> IF o = v THEN e[o] + 1 ELSE e[o]]
Minus(e, v) == [o \in Pointers |-> IF o = v THEN e[o] - 1 ELSE e[o]]

LEMMA SlotsFinite ==
  ASSUME NEW S \in SUBSET Slots
  PROVE  IsFiniteSet(S) /\ Cardinality(S) \in Nat
<1>1. IsFiniteSet(Pointers) /\ IsFiniteSet(1..SegmentWords)
  BY ConstantsAre, FS_Interval
<1>2. IsFiniteSet(Slots)
  BY <1>1, FS_Product DEF Slots
<1>3. IsFiniteSet(S)
  BY <1>2, FS_Subset
<1> QED
  BY <1>3, FS_CardinalityType

LEMMA RefsFinite ==
  ASSUME NEW ot, NEW D, NEW o
  PROVE  /\ Refs(ot, D, o) \in SUBSET Slots
         /\ IsFiniteSet(Refs(ot, D, o)) /\ Cardinality(Refs(ot, D, o)) \in Nat
<1>1. Refs(ot, D, o) \in SUBSET Slots
  BY DEF Refs
<1> QED
  BY <1>1, SlotsFinite

LEMMA HoldsIs ==
  ASSUME NEW e, EntryOK(e), NEW j \in 1..SegmentWords
  PROVE  /\ Holds(e, j) \in Pointers \cup {NilPointer}
         /\ e.class = NilPointer => Holds(e, j) = NilPointer
<1>1. e \in Entry /\ e.class \in Pointers \cup {NilPointer} /\ e.field \in Seq(Pointers \cup {NilPointer})
  BY EntryIs DEF EntryOK
<1>2. PICK f : f = e.field
  OBVIOUS
<1>3. \A i \in DOMAIN f : f[i] \in Pointers \cup {NilPointer}
  BY <1>1, <1>2
<1>4. e.class = NilPointer => f = <<>>
  BY <1>2 DEF EntryOK
<1>5. DOMAIN <<>> = {}
  OBVIOUS
<1> QED
  BY <1>1, <1>2, <1>3, <1>4, <1>5 DEF Holds

LEMMA PlusIs ==
  ASSUME NEW e \in [Pointers -> Nat], NEW v
  PROVE  /\ Plus(e, v) \in [Pointers -> Nat]
         /\ Minus(Plus(e, v), v) = e
         /\ v \in Pointers /\ e[v] >= 1 => Minus(e, v) \in [Pointers -> Nat]
         /\ v \notin Pointers => Plus(e, v) = e /\ Minus(e, v) = e
<1>1. Plus(e, v) \in [Pointers -> Nat]
  BY DEF Plus
<1>2. Minus(Plus(e, v), v) = e
  <2>1. \A o \in Pointers : Minus(Plus(e, v), v)[o] = e[o]
    <3>1. ASSUME NEW o \in Pointers PROVE Minus(Plus(e, v), v)[o] = e[o]
      <4>1. CASE o = v
        BY <4>1 DEF Plus, Minus
      <4>2. CASE o # v
        BY <4>2 DEF Plus, Minus
      <4> QED
        BY <4>1, <4>2
    <3> QED
      BY <3>1
  <2>2. Minus(Plus(e, v), v) = [o \in Pointers |-> Minus(Plus(e, v), v)[o]]
    BY DEF Minus
  <2> QED
    BY <2>1, <2>2
<1>3. v \in Pointers /\ e[v] >= 1 => Minus(e, v) \in [Pointers -> Nat]
  BY DEF Minus
<1>4. v \notin Pointers => Plus(e, v) = e /\ Minus(e, v) = e
  BY DEF Plus, Minus
<1> QED
  BY <1>1, <1>2, <1>3, <1>4

(* What is referred to has a count.                                          *)
LEMMA Referenced ==
  ASSUME NEW ot, NEW e, NEW u, NEW D, Entries(ot), Exact(ot, e, u, D), Held(ot, u, D),
         NEW o \in Pointers, e[o] >= 1 \/ Refs(ot, D, o) # {}
  PROVE  /\ ot[o].count \in Nat /\ ot[o].count >= 1 /\ ot[o].class # NilPointer
         /\ ot[o].count # StickyCount =>
               ot[o].count + Extra(u, o) = Cardinality(Refs(ot, D, o)) + e[o]
<1>1. EntryOK(ot[o]) /\ ot[o].count \in Nat /\ e[o] \in Nat /\ CountOK(ot, e, u, D, o)
  BY EntryIs DEF Entries, EntryOK, Exact
<1>2. PICK c, R, k : c = ot[o].count /\ R = Refs(ot, D, o) /\ k = e[o]
  OBVIOUS
<1>3. Cardinality(R) \in Nat /\ IsFiniteSet(R)
  BY <1>2, RefsFinite
<1>4. c \in Nat /\ k \in Nat /\ (c = StickyCount \/ c + Extra(u, o) = Cardinality(R) + k)
  BY <1>1, <1>2 DEF CountOK
<1>5. R # {} => Cardinality(R) >= 1
  BY <1>3, FS_EmptySet
<1>6. CASE o # u
  <2>1. Extra(u, o) = 0
    BY <1>6 DEF Extra
  <2>3. PICK n : n = Cardinality(R)
    OBVIOUS
  <2>4. k >= 1 \/ R # {}
    BY <1>2
  <2>5. n \in Nat /\ k \in Nat /\ (k >= 1 \/ n >= 1) /\ (c = StickyCount \/ c + 0 = n + k)
    BY <1>3, <1>4, <1>5, <2>1, <2>3, <2>4
  <2>2. c >= 1
    BY <1>4, <2>5, ConstantsAre
  <2> QED
    BY <1>1, <1>2, <1>4, <2>2 DEF EntryOK
<1>7. CASE o = u
  <2>1. o = InitialClass /\ Anchored(ot) /\ Anchors \cap D = {}
    BY <1>7, ConstantsAre DEF Held
  <2>2. Extra(u, o) = 1
    BY <1>7 DEF Extra
  <2>3. Anchors \subseteq R
    <3>1. Anchors \subseteq Slots
      BY ConstantsAre DEF Anchors, Slots
    <3>2. \A x \in Anchors : Holds(ot[x[1]], x[2]) = o
      BY <2>1 DEF Anchors, Anchored, Holds
    <3> QED
      BY <1>2, <2>1, <3>1, <3>2 DEF Refs
  <2>4. Cardinality(Anchors) = 2 /\ IsFiniteSet(Anchors)
    <3>1. PICK a, b : a = <<InitialClass, 1>> /\ b = <<ActiveContext, 1>>
      OBVIOUS
    <3>2. a # b
      BY <3>1, ConstantsAre
    <3>3. IsFiniteSet({a}) /\ Cardinality({a}) = 1
      BY FS_Singleton
    <3>4. b \notin {a} /\ {a} \cup {b} = Anchors
      BY <3>1, <3>2 DEF Anchors
    <3>5. IsFiniteSet({a} \cup {b}) /\ Cardinality({a} \cup {b}) = Cardinality({a}) + 1
      BY <3>3, <3>4, FS_AddElement
    <3> QED
      BY <3>3, <3>4, <3>5
  <2>5. Cardinality(R) >= 2
    BY <1>3, <2>3, <2>4, FS_Subset
  <2>6. c >= 1
    BY <1>3, <1>4, <2>2, <2>5, ConstantsAre
  <2> QED
    BY <1>1, <1>2, <1>4, <2>6 DEF EntryOK
<1> QED
  BY <1>6, <1>7

(* From m to n only counts change.                                           *)
SameBody(x, y) ==
  /\ y.free = x.free /\ y.pointer = x.pointer /\ y.segment = x.segment
  /\ y.location = x.location /\ y.size = x.size /\ y.class = x.class /\ y.field = x.field
SameBodies(ot, ot2) == \A o \in Pointers : SameBody(ot[o], ot2[o])

Recounted(m, n, K) ==
  /\ Shape(n, K) /\ SameBodies(m.ot, n.ot) /\ SameRegisters(m, n)
  /\ Tiled(m.ot) => Tiled(n.ot)
  /\ n.currentSegment = m.currentSegment

LEMMA BodiesExtent ==
  ASSUME NEW x, NEW y, SameBody(x, y)
  PROVE  SameExtent(x, y) /\ Space(y) = Space(x) /\ (IsChunk(y) <=> IsChunk(x))
         /\ \A j : Holds(y, j) = Holds(x, j)
BY DEF SameBody, SameExtent, Space, spaceOccupiedBy, IsChunk, Holds

LEMMA BodiesTrans ==
  ASSUME NEW ot, NEW ot2, NEW ot3, SameBodies(ot, ot2), SameBodies(ot2, ot3)
  PROVE  SameBodies(ot, ot3)
BY DEF SameBodies, SameBody

LEMMA BodiesRefs ==
  ASSUME NEW ot, NEW ot2, SameBodies(ot, ot2), NEW D
  PROVE  /\ \A o : Refs(ot2, D, o) = Refs(ot, D, o)
         /\ \A u : Held(ot, u, D) => Held(ot2, u, D)
<1>1. \A x \in Slots : Holds(ot2[x[1]], x[2]) = Holds(ot[x[1]], x[2])
  <2>1. ASSUME NEW x \in Slots PROVE Holds(ot2[x[1]], x[2]) = Holds(ot[x[1]], x[2])
    <3>1. x[1] \in Pointers
      BY DEF Slots
    <3>2. SameBody(ot[x[1]], ot2[x[1]])
      BY <3>1 DEF SameBodies
    <3> QED
      BY <3>2, BodiesExtent
  <2> QED
    BY <2>1
<1>2. \A o : Refs(ot2, D, o) = Refs(ot, D, o)
  BY <1>1 DEF Refs
<1>3. Anchored(ot) => Anchored(ot2)
  BY ConstantsAre DEF Anchored, SameBodies, SameBody
<1> QED
  BY <1>2, <1>3 DEF Held

LEMMA ChangeCount ==
  ASSUME NEW m, NEW K, Shape(m, K), NEW q \in Pointers, NEW c \in Nat, c <= StickyCount,
         m.ot[q].class = NilPointer => c = 0
  PROVE  LET n == [m EXCEPT !.ot[q].count = c]
         IN  /\ Recounted(m, n, K) /\ n.ot[q].count = c
             /\ \A o \in Pointers : o # q => n.ot[o] = m.ot[o]
<1>1. PICK n, y, ot : n = [m EXCEPT !.ot[q].count = c] /\ y = [m.ot[q] EXCEPT !.count = c]
                      /\ ot = [m.ot EXCEPT ![q] = y]
  OBVIOUS
<1>2. /\ m \in Memory /\ m.ot \in [Pointers -> Entry] /\ \A o \in Pointers : EntryOK(m.ot[o])
      /\ ChunksListed(m.ot, m.freeChunks, K) /\ PointersListed(m.ot, m.freePointers)
      /\ m.freeChunks \in Lists
  BY ShapeIs
<1>3. PICK x : x = m.ot[q]
  OBVIOUS
<1>4. x \in Entry /\ EntryOK(x) /\ y = [x EXCEPT !.count = c]
  BY <1>1, <1>2, <1>3
<1>5. y \in Entry /\ y.count = c /\ SameBody(x, y)
  <2>1. c \in 0..StickyCount
    BY ConstantsAre
  <2> QED
    BY <1>4, <2>1 DEF Entry, SameBody
<1>6. EntryOK(y)
  <2>1. x.free => y.free /\ y = FreeEntry
    <3>1. ASSUME x.free PROVE y = FreeEntry
      <4>1. x = FreeEntry /\ c = 0
        BY <1>3, <1>4, <3>1, FreeEntryIs DEF EntryOK
      <4> QED
        BY <1>4, <4>1 DEF FreeEntry
    <3> QED
      BY <1>5, <3>1 DEF SameBody
  <2>2. Space(y) = Space(x)
    BY <1>5, BodiesExtent
  <2> QED
    BY <1>3, <1>4, <1>5, <2>1, <2>2 DEF EntryOK, SameBody
<1>7. n = [m EXCEPT !.ot = ot]
  BY <1>1, <1>2 DEF Memory
<1>8. ot \in [Pointers -> Entry] /\ ot[q] = y /\ \A o \in Pointers : o # q => ot[o] = m.ot[o]
  BY <1>1, <1>2, <1>5
<1>9. /\ n \in Memory /\ n.ot = ot /\ n.freeChunks = m.freeChunks /\ n.freePointers = m.freePointers
      /\ n.currentSegment = m.currentSegment /\ SameRegisters(m, n)
  BY <1>2, <1>7, <1>8 DEF Memory, SameRegisters
<1>10. SameBodies(m.ot, ot)
  BY <1>3, <1>5, <1>8 DEF SameBodies, SameBody
<1>11. Entries(ot)
  BY <1>2, <1>6, <1>8 DEF Entries
<1>12. PointersListed(ot, m.freePointers)
  BY <1>2, <1>10 DEF PointersListed, SameBodies, SameBody
<1>13. ChunksListed(ot, m.freeChunks, K)
  <2>1. ASSUME NEW s \in 1..Segments, NEW z \in ChunkSizes, NEW o \in ToSet(m.freeChunks[s][z])
        PROVE  o \notin K /\ ListedAt(ot[o], s, z)
    <3>1. o \notin K /\ ListedAt(m.ot[o], s, z) /\ o \in Pointers
      BY <1>2, ListedIs, ListIs
    <3>2. SameBody(m.ot[o], ot[o])
      BY <1>10, <3>1 DEF SameBodies
    <3> QED
      BY <3>1, <3>2 DEF ListedAt, SameBody, IsChunk
  <2>2. \A o \in Pointers : IsChunk(ot[o]) /\ o \notin K => IsChunk(m.ot[o]) /\ o \notin K
    BY <1>10 DEF SameBodies, SameBody, IsChunk
  <2>3. StillListed(m.ot, ot, m.freeChunks, K, K)
    BY <2>1, <2>2 DEF StillListed
  <2> QED
    BY <1>2, <2>3, ListsKeep
<1>14. Tiled(m.ot) => Tiled(ot)
  <2>1. SameExtents(m.ot, ot)
    BY <1>10, BodiesExtent DEF SameBodies, SameExtents
  <2> QED
    BY <2>1, StaysTiled
<1> QED
  BY <1>1, <1>5, <1>8, <1>9, <1>10, <1>11, <1>12, <1>13, <1>14 DEF Recounted, Shape

LEMMA RecountedRefl ==
  ASSUME NEW m, NEW K, Shape(m, K)
  PROVE  Recounted(m, m, K)
BY DEF Recounted, SameBodies, SameBody, SameRegisters

LEMMA RecountedTrans ==
  ASSUME NEW l, NEW m, NEW n, NEW K, Recounted(l, m, K), Recounted(m, n, K)
  PROVE  Recounted(l, n, K)
<1>1. SameBodies(l.ot, n.ot) /\ SameRegisters(l, n)
  BY BodiesTrans, RegistersTrans DEF Recounted
<1> QED
  BY <1>1 DEF Recounted

(* One reference more.                                                       *)
LEMMA CountUp ==
  ASSUME NEW m, NEW K, Shape(m, K), NEW e, NEW u, NEW D, Exact(m.ot, e, u, D),
         NEW v \in Pointers \cup {NilPointer}, v # NilPointer => m.ot[v].class # NilPointer
  PROVE  /\ Recounted(m, countUp(m, v), K)
         /\ Exact(countUp(m, v).ot, Plus(e, v), u, D)
         /\ \A o \in Pointers : o # v => countUp(m, v).ot[o] = m.ot[o]
         /\ v \in Pointers => countUp(m, v).ot[v].count >= 1
<1>1. PICK n : n = countUp(m, v)
  OBVIOUS
<1>2. /\ \A o \in Pointers : m.ot[o].count \in Nat /\ m.ot[o].count <= StickyCount
      /\ e \in [Pointers -> Nat] /\ D \in SUBSET Slots
      /\ \A o \in Pointers : CountOK(m.ot, e, u, D, o)
  <2>1. \A o \in Pointers : m.ot[o] \in Entry
    BY ShapeIs
  <2> QED
    BY <2>1, EntryIs DEF Exact
<1>3. CASE v = NilPointer
  <2>1. n = m /\ Plus(e, v) = e /\ v \notin Pointers
    BY <1>1, <1>2, <1>3, ConstantsAre, PlusIs DEF countUp
  <2> QED
    BY <1>1, <2>1, RecountedRefl
<1>4. CASE v # NilPointer /\ m.ot[v].count = StickyCount
  <2>1. n = m /\ v \in Pointers /\ Plus(e, v) \in [Pointers -> Nat]
    BY <1>1, <1>2, <1>4, PlusIs DEF countUp
  <2>2. ASSUME NEW o \in Pointers PROVE CountOK(m.ot, Plus(e, v), u, D, o)
    <3>1. CASE o = v
      BY <1>4, <3>1 DEF CountOK
    <3>2. CASE o # v
      BY <1>2, <3>2 DEF CountOK, Plus
    <3> QED
      BY <3>1, <3>2
  <2>3. Exact(m.ot, Plus(e, v), u, D)
    BY <1>2, <2>1, <2>2 DEF Exact
  <2>4. m.ot[v].count >= 1
    BY <1>4, ConstantsAre
  <2> QED
    BY <1>1, <2>1, <2>3, <2>4, RecountedRefl
<1>5. CASE v # NilPointer /\ m.ot[v].count # StickyCount
  <2>0. PICK g : g = m.ot[v].count
    OBVIOUS
  <2>1. PICK c : c = g + 1
    OBVIOUS
  <2>2. v \in Pointers /\ c \in Nat /\ c <= StickyCount /\ c >= 1 /\ m.ot[v].class # NilPointer
    <3>1. v \in Pointers /\ m.ot[v].class # NilPointer
      BY <1>5
    <3>2. g \in Nat /\ g <= StickyCount /\ g # StickyCount
      BY <1>2, <1>5, <2>0, <3>1
    <3> QED
      BY <2>1, <3>1, <3>2, ConstantsAre
  <2>3. n = [m EXCEPT !.ot[v].count = c]
    BY <1>1, <1>5, <2>0, <2>1 DEF countUp
  <2>4. /\ Recounted(m, n, K) /\ n.ot[v].count = c
        /\ \A o \in Pointers : o # v => n.ot[o] = m.ot[o]
    BY <2>2, <2>3, ChangeCount
  <2>5. \A o : Refs(n.ot, D, o) = Refs(m.ot, D, o)
    BY <2>4, BodiesRefs DEF Recounted
  <2>6. Plus(e, v) \in [Pointers -> Nat]
    BY <1>2, PlusIs
  <2>7. ASSUME NEW o \in Pointers PROVE CountOK(n.ot, Plus(e, v), u, D, o)
    <3>1. CASE o # v
      BY <1>2, <2>4, <2>5, <3>1 DEF CountOK, Plus
    <3>2. CASE o = v
      <4>1. PICK a, b, x, k : a = m.ot[v].count /\ b = Cardinality(Refs(m.ot, D, v)) /\ x = e[v] /\ k = Extra(u, v)
        OBVIOUS
      <4>2. a \in Nat /\ b \in Nat /\ x \in Nat /\ k \in Nat /\ a + k = b + x
        <5>1. CountOK(m.ot, e, u, D, v)
          BY <1>2, <2>2
        <5> QED
          BY <1>2, <1>5, <2>2, <4>1, <5>1, RefsFinite DEF CountOK, Extra
      <4>3. Plus(e, v)[o] = x + 1
        BY <2>2, <3>2, <4>1 DEF Plus
      <4>4. n.ot[o].count = a + 1 /\ Cardinality(Refs(n.ot, D, o)) = b /\ Extra(u, o) = k
        BY <2>0, <2>1, <2>4, <2>5, <3>2, <4>1
      <4> QED
        BY <4>2, <4>3, <4>4 DEF CountOK
    <3> QED
      BY <3>1, <3>2
  <2>8. Exact(n.ot, Plus(e, v), u, D)
    BY <1>2, <2>6, <2>7 DEF Exact
  <2> QED
    BY <1>1, <2>2, <2>4, <2>8
<1> QED
  BY <1>3, <1>4, <1>5

(* One reference less.                                                       *)
LEMMA OneLess ==
  ASSUME NEW m, NEW K, Shape(m, K), NEW e, NEW u, NEW D, Exact(m.ot, e, u, D), Held(m.ot, u, D),
         NEW q \in Pointers, e[q] >= 1
  PROVE  LET n == decreaseReferencesTo(m, q)
         IN  /\ Recounted(m, n, K)
             /\ Exact(n.ot, Minus(e, q), u, D)
             /\ m.ot[q].class # NilPointer
             /\ n.ot[q].count = 0 <=> m.ot[q].count = 1
             /\ \A o \in Pointers : o # q => n.ot[o] = m.ot[o]
<1>1. PICK n : n = decreaseReferencesTo(m, q)
  OBVIOUS
<1>2. /\ \A o \in Pointers : m.ot[o].count \in Nat /\ m.ot[o].count <= StickyCount
      /\ e \in [Pointers -> Nat] /\ D \in SUBSET Slots
      /\ \A o \in Pointers : CountOK(m.ot, e, u, D, o)
      /\ Minus(e, q) \in [Pointers -> Nat]
  <2>1. \A o \in Pointers : m.ot[o] \in Entry
    BY ShapeIs
  <2>2. e \in [Pointers -> Nat]
    BY DEF Exact
  <2> QED
    BY <2>1, <2>2, EntryIs, PlusIs DEF Exact
<1>3. /\ m.ot[q].count >= 1 /\ m.ot[q].class # NilPointer
      /\ m.ot[q].count # StickyCount =>
            m.ot[q].count + Extra(u, q) = Cardinality(Refs(m.ot, D, q)) + e[q]
  <2>1. Entries(m.ot)
    BY ShapeIs
  <2> QED
    BY <2>1, Referenced
<1>4. CASE m.ot[q].count = StickyCount
  <2>1. n = m
    BY <1>1, <1>4, ConstantsAre DEF decreaseReferencesTo
  <2>2. ASSUME NEW o \in Pointers PROVE CountOK(m.ot, Minus(e, q), u, D, o)
    <3>1. CASE o = q
      BY <1>4, <3>1 DEF CountOK
    <3>2. CASE o # q
      BY <1>2, <3>2 DEF CountOK, Minus
    <3> QED
      BY <3>1, <3>2
  <2>3. Exact(m.ot, Minus(e, q), u, D)
    BY <1>2, <2>2 DEF Exact
  <2>4. m.ot[q].count # 1 /\ m.ot[q].count # 0
    BY <1>4, ConstantsAre
  <2> QED
    BY <1>1, <1>3, <2>1, <2>3, <2>4, RecountedRefl
<1>5. CASE m.ot[q].count # StickyCount
  <2>0. PICK a : a = m.ot[q].count
    OBVIOUS
  <2>1. PICK c : c = a - 1
    OBVIOUS
  <2>2. a \in Nat /\ c \in Nat /\ c <= StickyCount /\ a >= 1 /\ (c = 0 <=> a = 1)
    <3>1. a \in Nat /\ a <= StickyCount /\ a >= 1
      BY <1>2, <1>3, <2>0
    <3> QED
      BY <2>1, <3>1, ConstantsAre
  <2>3. n = [m EXCEPT !.ot[q].count = c]
    BY <1>1, <1>5, <2>0, <2>1, <2>2 DEF decreaseReferencesTo
  <2>4. /\ Recounted(m, n, K) /\ n.ot[q].count = c
        /\ \A o \in Pointers : o # q => n.ot[o] = m.ot[o]
    BY <1>3, <2>2, <2>3, ChangeCount
  <2>5. \A o : Refs(n.ot, D, o) = Refs(m.ot, D, o)
    BY <2>4, BodiesRefs DEF Recounted
  <2>7. ASSUME NEW o \in Pointers PROVE CountOK(n.ot, Minus(e, q), u, D, o)
    <3>1. CASE o # q
      BY <1>2, <2>4, <2>5, <3>1 DEF CountOK, Minus
    <3>2. CASE o = q
      <4>1. PICK b, x, k : b = Cardinality(Refs(m.ot, D, q)) /\ x = e[q] /\ k = Extra(u, q)
        OBVIOUS
      <4>2. b \in Nat /\ x \in Nat /\ k \in Nat /\ a + k = b + x
        BY <1>2, <1>3, <1>5, <2>0, <2>2, <4>1, RefsFinite DEF Extra
      <4>3. Minus(e, q)[o] = x - 1
        BY <3>2, <4>1 DEF Minus
      <4>4. n.ot[o].count = a - 1 /\ Cardinality(Refs(n.ot, D, o)) = b /\ Extra(u, o) = k
        BY <2>1, <2>4, <2>5, <3>2, <4>1
      <4>5. a - 1 + k = b + (x - 1)
        BY <2>2, <4>2
      <4> QED
        BY <4>3, <4>4, <4>5 DEF CountOK
    <3> QED
      BY <3>1, <3>2
  <2>8. Exact(n.ot, Minus(e, q), u, D)
    BY <1>2, <2>7 DEF Exact
  <2> QED
    BY <1>1, <1>3, <2>0, <2>2, <2>4, <2>8
<1> QED
  BY <1>4, <1>5

----------------------------------------------------------------------------
(* countDown: the walk over what loses its last reference.                   *)

(* A slot is set aside: its reference counts as held elsewhere.              *)
LEMMA SetAside ==
  ASSUME NEW ot, NEW e, NEW u, NEW D, Exact(ot, e, u, D), NEW x \in Slots, x \notin D,
         NEW v, v = Holds(ot[x[1]], x[2]), NEW F, F = D \cup {x}
  PROVE  Exact(ot, Plus(e, v), u, F)
<1>1. e \in [Pointers -> Nat] /\ D \in SUBSET Slots
  BY DEF Exact
<1>2. Plus(e, v) \in [Pointers -> Nat] /\ F \in SUBSET Slots
  BY <1>1, PlusIs
<1>3. ASSUME NEW o \in Pointers PROVE CountOK(ot, Plus(e, v), u, F, o)
  <2>1. PICK R, Q : R = Refs(ot, D, o) /\ Q = Refs(ot, F, o)
    OBVIOUS
  <2>2. Q = R \ {x} /\ (x \in R <=> v = o)
    BY <2>1 DEF Refs
  <2>3. IsFiniteSet(R) /\ Cardinality(R) \in Nat
    BY <2>1, RefsFinite
  <2>4. Cardinality(Q) = IF x \in R THEN Cardinality(R) - 1 ELSE Cardinality(R)
    BY <2>2, <2>3, FS_RemoveElement
  <2>5. PICK a, b, c, d, y : a = ot[o].count /\ b = Cardinality(R) /\ c = Cardinality(Q) /\ d = e[o]
                             /\ y = Plus(e, v)[o]
    OBVIOUS
  <2>6. d \in Nat /\ b \in Nat /\ y = (IF v = o THEN d + 1 ELSE d) /\ c = (IF v = o THEN b - 1 ELSE b)
    BY <1>1, <2>2, <2>3, <2>4, <2>5 DEF Plus
  <2>7. c + y = b + d
    BY <2>6
  <2>8. CountOK(ot, e, u, D, o)
    BY DEF Exact
  <2> QED
    BY <2>1, <2>5, <2>7, <2>8 DEF CountOK
<1> QED
  BY <1>2, <1>3 DEF Exact

(* And back in use.                                                          *)
LEMMA PutBack ==
  ASSUME NEW ot, NEW e, NEW u, NEW F, Exact(ot, e, u, F), NEW x \in F,
         NEW v, v = Holds(ot[x[1]], x[2]), v \in Pointers => e[v] >= 1, NEW D, D = F \ {x}
  PROVE  Exact(ot, Minus(e, v), u, D)
<1>1. e \in [Pointers -> Nat] /\ F \in SUBSET Slots
  BY DEF Exact
<1>2. Minus(e, v) \in [Pointers -> Nat] /\ D \in SUBSET Slots
  BY <1>1, PlusIs
<1>3. ASSUME NEW o \in Pointers PROVE CountOK(ot, Minus(e, v), u, D, o)
  <2>1. PICK R, Q : R = Refs(ot, D, o) /\ Q = Refs(ot, F, o)
    OBVIOUS
  <2>2. Q = R \ {x} /\ (x \in R <=> v = o)
    BY <1>1, <2>1 DEF Refs
  <2>3. IsFiniteSet(R) /\ Cardinality(R) \in Nat
    BY <2>1, RefsFinite
  <2>4. Cardinality(Q) = IF x \in R THEN Cardinality(R) - 1 ELSE Cardinality(R)
    BY <2>2, <2>3, FS_RemoveElement
  <2>5. PICK a, b, c, d, y : a = ot[o].count /\ b = Cardinality(R) /\ c = Cardinality(Q) /\ d = e[o]
                             /\ y = Minus(e, v)[o]
    OBVIOUS
  <2>6. d \in Nat /\ b \in Nat /\ y = (IF v = o THEN d - 1 ELSE d) /\ c = (IF v = o THEN b - 1 ELSE b)
    BY <1>1, <2>2, <2>3, <2>4, <2>5 DEF Minus
  <2>7. b + y = c + d
    BY <2>6
  <2>8. CountOK(ot, e, u, F, o)
    BY DEF Exact
  <2> QED
    BY <2>1, <2>5, <2>7, <2>8 DEF CountOK
<1> QED
  BY <1>2, <1>3 DEF Exact

(* Slots that hold no object do not matter, nor do counts that stay.         *)
SameRefs(ot, D, ot2, F) ==
  \A x \in Slots, o \in Pointers :
     (x \notin D /\ Holds(ot[x[1]], x[2]) = o) <=> (x \notin F /\ Holds(ot2[x[1]], x[2]) = o)

LEMMA StaysExact ==
  ASSUME NEW ot, NEW e, NEW u, NEW D, Exact(ot, e, u, D), NEW ot2, NEW F \in SUBSET Slots,
         SameRefs(ot, D, ot2, F), \A o \in Pointers : ot2[o].count = ot[o].count
  PROVE  Exact(ot2, e, u, F)
<1>1. ASSUME NEW o \in Pointers PROVE CountOK(ot2, e, u, F, o)
  <2>1. Refs(ot2, F, o) = Refs(ot, D, o)
    BY DEF Refs, SameRefs
  <2>2. CountOK(ot, e, u, D, o)
    BY DEF Exact
  <2> QED
    BY <2>1, <2>2 DEF CountOK
<1> QED
  BY <1>1 DEF Exact

(* The objects on the path with the slots they have given up.                *)
Frames == [oop : Pointers, next : 0..SegmentWords]
On(P) == {f.oop : f \in P}
GivenBy(f) == {x \in Slots : x[1] = f.oop /\ x[2] > f.next}
Given(P) == UNION {GivenBy(f) : f \in P}

FrameOK(ot, f) ==
  /\ ot[f.oop].class # NilPointer /\ ot[f.oop].count = 0
  /\ f.next <= Len(ot[f.oop].field) + 1

PathOK(ot, path) ==
  /\ path \in Seq(Frames) /\ IsInjective(path)
  /\ \A f \in ToSet(path) : FrameOK(ot, f)
  /\ \A f, g \in ToSet(path) : f.oop = g.oop => f = g

LEMMA EmptyPath ==
  ASSUME NEW ot
  PROVE  PathOK(ot, <<>>) /\ ToSet(<<>>) = {} /\ On(ToSet(<<>>)) = {} /\ Given(ToSet(<<>>)) = {}
<1>1. <<>> \in Seq(Frames) /\ DOMAIN <<>> = {}
  OBVIOUS
<1>2. ToSet(<<>>) = {} /\ IsInjective(<<>>)
  BY <1>1 DEF ToSet, IsInjective
<1> QED
  BY <1>1, <1>2 DEF PathOK, On, Given

Pushed(f, path) == <<f>> \o path

LEMMA PathPush ==
  ASSUME NEW ot, NEW path, PathOK(ot, path), NEW f \in Frames, FrameOK(ot, f),
         f.oop \notin On(ToSet(path)), NEW longer, longer = Pushed(f, path)
  PROVE  /\ PathOK(ot, longer)
         /\ On(ToSet(longer)) = On(ToSet(path)) \cup {f.oop}
         /\ Given(ToSet(longer)) = Given(ToSet(path)) \cup GivenBy(f)
         /\ longer # <<>>
<1>1. path \in Seq(Frames) /\ IsInjective(path)
  BY DEF PathOK
<1>2. f \notin ToSet(path)
  BY DEF On
<1>3. longer \in Seq(Frames) /\ ToSet(longer) = ToSet(path) \cup {f} /\ IsInjective(longer)
  BY <1>1, <1>2, PrependIs DEF Pushed
<1>4. \A g, h \in ToSet(longer) : g.oop = h.oop => g = h
  BY <1>3 DEF PathOK, On
<1>5. \A g \in ToSet(longer) : FrameOK(ot, g)
  BY <1>3 DEF PathOK
<1>6. On(ToSet(longer)) = On(ToSet(path)) \cup {f.oop}
  BY <1>3 DEF On
<1>7. Given(ToSet(longer)) = Given(ToSet(path)) \cup GivenBy(f)
  BY <1>3 DEF Given
<1>8. longer # <<>>
  <2>1. f \in ToSet(longer) /\ ToSet(<<>>) = {}
    BY <1>3, EmptyPath
  <2> QED
    BY <2>1
<1> QED
  BY <1>3, <1>4, <1>5, <1>6, <1>7, <1>8 DEF PathOK

(* The object at the end of the path, and the path without it.               *)
LEMMA PathTop ==
  ASSUME NEW ot, NEW path, PathOK(ot, path), path # <<>>
  PROVE  LET f == Head(path)
             rest == Tail(path)
         IN  /\ f \in Frames /\ f \in ToSet(path) /\ FrameOK(ot, f) /\ path = Pushed(f, rest)
             /\ PathOK(ot, rest) /\ f.oop \notin On(ToSet(rest))
             /\ On(ToSet(path)) = On(ToSet(rest)) \cup {f.oop}
             /\ Given(ToSet(path)) = Given(ToSet(rest)) \cup GivenBy(f)
<1>1. path \in Seq(Frames) /\ IsInjective(path)
  BY DEF PathOK
<1>2. PICK f, rest : f = Head(path) /\ rest = Tail(path)
  OBVIOUS
<1>3. f \in Frames /\ rest \in Seq(Frames) /\ path = Pushed(f, rest)
  BY <1>1, <1>2 DEF Pushed
<1>4. IsInjective(rest) /\ ToSet(rest) = ToSet(path) \ {f} /\ f \in ToSet(path)
  BY <1>1, <1>2, TailIs
<1>5. f.oop \notin On(ToSet(rest)) /\ FrameOK(ot, f)
  BY <1>4 DEF PathOK, On
<1>6. PathOK(ot, rest)
  BY <1>3, <1>4 DEF PathOK
<1>7. On(ToSet(path)) = On(ToSet(rest)) \cup {f.oop}
  BY <1>4 DEF On
<1>8. Given(ToSet(path)) = Given(ToSet(rest)) \cup GivenBy(f)
  BY <1>4 DEF Given
<1> QED
  BY <1>2, <1>3, <1>4, <1>5, <1>6, <1>7, <1>8

(* From m to n objects may have gone, the others are as they were.           *)
Blank(ot) == {o \in Pointers : ot[o].class = NilPointer}
Remains(x, y) == y.class # NilPointer => y.class = x.class /\ y.field = x.field
Lessened(m, n) ==
  /\ \A o \in Pointers : Remains(m.ot[o], n.ot[o])
  /\ SameExtents(m.ot, n.ot)
  /\ n.uncounted = m.uncounted /\ n.failed = m.failed /\ n.currentSegment = m.currentSegment
  /\ n.freeOops - Cardinality(Blank(n.ot)) = m.freeOops - Cardinality(Blank(m.ot))

(* The register that holds the context keeps it, and so its class.           *)
Rooted(ot, e, u, D) ==
  /\ u \in {NilPointer, InitialClass}
  /\ Anchored(ot) /\ Anchors \cap D = {}
  /\ e[ActiveContext] >= 1

LEMMA LessenedTrans ==
  ASSUME NEW l, NEW m, NEW n, Lessened(l, m), Lessened(m, n)
  PROVE  Lessened(l, n)
<1>1. \A o \in Pointers : Remains(l.ot[o], n.ot[o])
  BY DEF Lessened, Remains
<1>2. SameExtents(l.ot, n.ot)
  BY DEF Lessened, SameExtents, SameExtent
<1> QED
  BY <1>1, <1>2 DEF Lessened

LEMMA LessenedRefl ==
  ASSUME NEW m
  PROVE  Lessened(m, m)
BY DEF Lessened, Remains, SameExtents, SameExtent

LEMMA RecountedLessened ==
  ASSUME NEW m, NEW n, NEW K, Recounted(m, n, K)
  PROVE  Lessened(m, n)
<1>1. SameBodies(m.ot, n.ot) /\ SameRegisters(m, n) /\ n.currentSegment = m.currentSegment
  BY DEF Recounted
<1>2. SameExtents(m.ot, n.ot)
  BY <1>1, BodiesExtent DEF SameBodies, SameExtents
<1>3. \A o \in Pointers : Remains(m.ot[o], n.ot[o])
  BY <1>1 DEF SameBodies, SameBody, Remains
<1>4. Blank(n.ot) = Blank(m.ot)
  BY <1>1 DEF SameBodies, SameBody, Blank
<1> QED
  BY <1>1, <1>2, <1>3, <1>4 DEF Lessened, SameRegisters

LEMMA RootsCounted ==
  ASSUME NEW ot, NEW e, NEW u, NEW D, Entries(ot), Exact(ot, e, u, D), Rooted(ot, e, u, D)
  PROVE  Held(ot, u, D) /\ \A r \in Roots : r \in Pointers /\ ot[r].count >= 1 /\ ot[r].class # NilPointer
<1>1. Held(ot, u, D)
  BY DEF Held, Rooted
<1>2. ot[ActiveContext].count >= 1 /\ ot[ActiveContext].class # NilPointer
  <2>1. e[ActiveContext] >= 1 /\ ActiveContext \in Pointers
    BY ConstantsAre DEF Rooted
  <2> QED
    BY <1>1, <2>1, Referenced
<1>3. ot[InitialClass].count >= 1 /\ ot[InitialClass].class # NilPointer
  <2>1. PICK x : x = <<ActiveContext, 1>>
    OBVIOUS
  <2>2. x \in Slots /\ x \in Anchors /\ x[1] = ActiveContext /\ x[2] = 1
    BY <2>1, ConstantsAre DEF Slots, Anchors
  <2>3. Holds(ot[x[1]], x[2]) = InitialClass /\ x \notin D
    BY <2>2 DEF Rooted, Anchored, Holds
  <2>4. Refs(ot, D, InitialClass) # {} /\ InitialClass \in Pointers
    BY <2>2, <2>3, ConstantsAre DEF Refs
  <2> QED
    BY <1>1, <2>4, Referenced
<1> QED
  BY <1>1, <1>2, <1>3, ConstantsAre DEF Roots, Special

(* An object that can be reached without a slot of its own.                  *)
ClosedBut(ot, S, t) ==
  \A x \in Slots : x[1] \in S /\ x[1] # t /\ Holds(ot[x[1]], x[2]) \in Pointers => Holds(ot[x[1]], x[2]) \in S
Survivor(ot, C, t) ==
  /\ \A x \in C : x[1] = t
  /\ \A S \in SUBSET Pointers : Roots \subseteq S /\ ClosedBut(ot, S, t) => t \in S

LEMMA Survives ==
  ASSUME NEW l, NEW ot, NEW e, NEW u, NEW C, NEW G, NEW D, D = C \cup G, NEW t,
         Entries(ot), Exact(ot, e, u, D), Rooted(ot, e, u, D),
         \A x \in G : ot[x[1]].count = 0,
         \A o \in Pointers : Remains(l[o], ot[o]),
         Survivor(l, C, t)
  PROVE  t \in Pointers /\ ot[t].count >= 1 /\ ot[t].class # NilPointer
<1>1. PICK S : S = {o \in Pointers : ot[o].count >= 1}
  OBVIOUS
<1>2. Roots \subseteq S /\ Held(ot, u, D)
  BY <1>1, RootsCounted
<1>3. ASSUME NEW x \in Slots, x[1] \in S, x[1] # t, Holds(l[x[1]], x[2]) \in Pointers
      PROVE  Holds(l[x[1]], x[2]) \in S
  <2>1. PICK o, v, y : o = x[1] /\ v = Holds(l[x[1]], x[2]) /\ y = ot[o]
    OBVIOUS
  <2>2. o \in Pointers /\ y.count >= 1 /\ EntryOK(y)
    BY <1>1, <1>3, <2>1 DEF Entries
  <2>3. y.count # 0
    BY <2>2
  <2>4. y.class # NilPointer
    BY <2>2, <2>3 DEF EntryOK
  <2>5. Holds(y, x[2]) = v
    BY <2>1, <2>2, <2>4 DEF Remains, Holds
  <2>6. x \notin D
    BY <1>3, <2>1, <2>3 DEF Survivor
  <2>7. v \in Pointers /\ Refs(ot, D, v) # {}
    BY <1>3, <2>1, <2>5, <2>6 DEF Refs
  <2>8. ot[v].count >= 1
    BY <1>2, <2>7, Referenced
  <2> QED
    BY <1>1, <2>1, <2>7, <2>8
<1>4. ClosedBut(l, S, t)
  BY <1>3 DEF ClosedBut
<1>5. t \in S
  BY <1>1, <1>2, <1>4 DEF Survivor
<1>6. ot[t].class # NilPointer
  <2>1. ot[t].count >= 1 /\ EntryOK(ot[t])
    BY <1>1, <1>5 DEF Entries
  <2>2. ot[t].count # 0
    BY <2>1
  <2> QED
    BY <2>1, <2>2 DEF EntryOK
<1> QED
  BY <1>1, <1>5, <1>6

(* The walk with memory m and a path: counts are exact but for the slots     *)
(* given up and those of C, and what has no count is on the path.            *)
Walking(l, m, path, e, u, C, Z) ==
  /\ Shape(m, {}) /\ Tiled(m.ot) /\ Lessened(l, m)
  /\ PathOK(m.ot, path)
  /\ Exact(m.ot, e, u, C \cup Given(ToSet(path)))
  /\ Rooted(m.ot, e, u, C \cup Given(ToSet(path)))
  /\ Counted(m.ot, Z \cup On(ToSet(path)))

(* What the walk may still have to do.                                       *)
Left(ot, P) ==
  {x \in Pointers \X (0..SegmentWords) :
     /\ ot[x[1]].class # NilPointer /\ x[2] <= Len(ot[x[1]].field) + 1
     /\ \A f \in P : f.oop = x[1] => x[2] <= f.next}

Walked(l, m, path, r, e, u, C, Z) ==
  /\ Walking(l, r.mem, r.path, e, u, C, Z)
  /\ Left(r.mem.ot, ToSet(r.path)) \subseteq Left(m.ot, ToSet(path))

LEMMA VisitKeeps ==
  ASSUME NEW l, NEW m, NEW path, NEW e, NEW u, NEW C \in SUBSET Slots, NEW Z,
         Walking(l, m, path, e, u, C, Z), NEW v \in Pointers \cup {NilPointer},
         v # NilPointer => e[v] >= 1, Minus(e, v)[ActiveContext] >= 1,
         NEW r, r = [mem |-> m, path |-> path]
  PROVE  Walked(l, m, path, Visit(r, v), Minus(e, v), u, C, Z)
<1>1. CASE v = NilPointer
  <2>1. v \notin Pointers /\ e \in [Pointers -> Nat]
    BY <1>1, ConstantsAre DEF Walking, Exact
  <2>2. Minus(e, v) = e /\ Visit(r, v) = r
    BY <1>1, <2>1, PlusIs DEF Visit
  <2> QED
    BY <2>2 DEF Walked
<1>2. CASE v # NilPointer
  <2>1. v \in Pointers /\ e[v] >= 1
    BY <1>2
  <2>2. PICK P, D, c : P = ToSet(path) /\ D = C \cup Given(ToSet(path)) /\ c = Minus(e, v)
    OBVIOUS
  <2>3. /\ Shape(m, {}) /\ Tiled(m.ot) /\ Lessened(l, m) /\ PathOK(m.ot, path) /\ Entries(m.ot)
        /\ Exact(m.ot, e, u, D) /\ Rooted(m.ot, e, u, D) /\ Counted(m.ot, Z \cup On(P))
    BY <2>2, ShapeIs DEF Walking
  <2>4. Held(m.ot, u, D)
    BY <2>3, RootsCounted
  <2>5. PICK n : n = decreaseReferencesTo(m, v)
    OBVIOUS
  <2>6. PICK K : K = {}
    OBVIOUS
  <2>7. Shape(m, K)
    BY <2>3, <2>6
  <2>8. /\ Recounted(m, n, K) /\ Exact(n.ot, c, u, D) /\ m.ot[v].class # NilPointer
        /\ (n.ot[v].count = 0 <=> m.ot[v].count = 1)
        /\ \A o \in Pointers : o # v => n.ot[o] = m.ot[o]
    BY <2>1, <2>2, <2>3, <2>4, <2>5, <2>7, OneLess
  <2>9. m.ot[v].count \in Nat /\ m.ot[v].count >= 1
    BY <2>1, <2>3, <2>4, Referenced
  <2>10. Shape(n, {}) /\ Tiled(n.ot) /\ SameBodies(m.ot, n.ot) /\ Entries(n.ot)
    BY <2>3, <2>6, <2>8, ShapeIs DEF Recounted
  <2>11. Lessened(l, n)
    BY <2>3, <2>8, RecountedLessened, LessenedTrans
  <2>12. Anchored(n.ot)
    BY <2>3, <2>10, ConstantsAre DEF Rooted, Anchored, SameBodies, SameBody
  <2>13. Rooted(n.ot, c, u, D)
    BY <2>2, <2>3, <2>12 DEF Rooted
  <2>14. v \notin On(P)
    <3>1. ASSUME NEW f \in P PROVE m.ot[f.oop].count = 0
      BY <2>2, <2>3, <3>1 DEF PathOK, FrameOK
    <3> QED
      BY <2>9, <3>1 DEF On
  <2>15. PathOK(n.ot, path)
    <3>1. ASSUME NEW f \in P PROVE FrameOK(n.ot, f)
      <4>1. f \in Frames /\ FrameOK(m.ot, f) /\ f.oop # v
        <5>1. path \in Seq(Frames)
          BY <2>3 DEF PathOK
        <5>2. ToSet(path) \subseteq Frames
          BY <5>1, ElementsAre
        <5> QED
          BY <2>2, <2>3, <2>14, <5>2 DEF PathOK, On
      <4>2. n.ot[f.oop] = m.ot[f.oop]
        BY <2>8, <4>1 DEF Frames
      <4> QED
        BY <4>1, <4>2 DEF FrameOK
    <3> QED
      BY <2>2, <2>3, <3>1 DEF PathOK
  <2>16. Left(n.ot, P) \subseteq Left(m.ot, P)
    BY <2>10 DEF Left, SameBodies, SameBody
  <2>17. CASE m.ot[v].count # 1
    <3>1. Visit(r, v) = [mem |-> n, path |-> path]
      BY <1>2, <2>5, <2>17 DEF Visit
    <3>2. Counted(n.ot, Z \cup On(P))
      BY <2>3, <2>8, <2>10, <2>17 DEF Counted
    <3>3. Walking(l, n, path, c, u, C, Z)
      BY <2>2, <2>8, <2>10, <2>11, <2>13, <2>15, <3>2 DEF Walking
    <3> QED
      BY <2>2, <2>16, <3>1, <3>3 DEF Walked
  <2>18. CASE m.ot[v].count = 1
    <3>1. PICK y, k : y = m.ot[v] /\ k = Len(y.field) + 1
      OBVIOUS
    <3>2. y.field \in Seq(Pointers \cup {NilPointer}) /\ k \in 0..SegmentWords /\ Len(PointersIn(y)) = k
      <4>1. y \in Entry /\ EntryOK(y) /\ y.class # NilPointer
        BY <2>1, <2>3, <2>8, <3>1 DEF Entries, EntryOK
      <4>2. y.field \in Seq(Pointers \cup {NilPointer}) /\ Len(y.field) \in Nat /\ y.size \in Nat /\ y.size <= SegmentWords
        BY <4>1, EntryIs
      <4>3. 2 + Len(y.field) <= y.size
        BY <4>1 DEF EntryOK, HeaderSize
      <4>4. Len(PointersIn(y)) = Len(y.field) + 1
        BY <4>2 DEF PointersIn
      <4>5. PICK a, b : a = Len(y.field) /\ b = y.size
        OBVIOUS
      <4>6. a \in Nat /\ b \in Nat /\ b <= SegmentWords /\ 2 + a <= b /\ k = a + 1
        BY <3>1, <4>2, <4>3, <4>5
      <4>7. k \in 0..SegmentWords
        BY <4>6, ConstantsAre
      <4> QED
        BY <3>1, <4>2, <4>4, <4>7
    <3>3. PICK f : f = [oop |-> v, next |-> k]
      OBVIOUS
    <3>4. f \in Frames /\ f.oop = v /\ f.next = k
      BY <2>1, <3>2, <3>3 DEF Frames
    <3>5. PICK longer : longer = Pushed(f, path)
      OBVIOUS
    <3>6. Visit(r, v) = [mem |-> n, path |-> longer]
      BY <1>2, <2>5, <2>18, <3>1, <3>2, <3>3, <3>5 DEF Visit, Pushed
    <3>7. n.ot[v].field = y.field /\ n.ot[v].class = y.class /\ n.ot[v].count = 0
      BY <2>1, <2>8, <2>10, <2>18, <3>1 DEF SameBodies, SameBody
    <3>8. FrameOK(n.ot, f)
      <4>1. k <= Len(n.ot[v].field) + 1
        BY <3>1, <3>2, <3>7
      <4> QED
        BY <2>8, <3>1, <3>4, <3>7, <4>1 DEF FrameOK
    <3>9. /\ PathOK(n.ot, longer) /\ On(ToSet(longer)) = On(P) \cup {v}
          /\ Given(ToSet(longer)) = Given(P) \cup GivenBy(f)
      <4>1. f.oop \notin On(ToSet(path))
        BY <2>2, <2>14, <3>4
      <4>2. /\ PathOK(n.ot, longer) /\ On(ToSet(longer)) = On(ToSet(path)) \cup {f.oop}
            /\ Given(ToSet(longer)) = Given(ToSet(path)) \cup GivenBy(f)
        BY <2>15, <3>4, <3>5, <3>8, <4>1, PathPush
      <4> QED
        BY <2>2, <3>4, <4>2
    <3>10. PICK F : F = C \cup Given(ToSet(longer))
      OBVIOUS
    <3>11. F = D \cup GivenBy(f) /\ F \in SUBSET Slots
      BY <2>2, <3>9, <3>10 DEF Given, GivenBy
    <3>12. \A x \in GivenBy(f) : x[1] = v /\ Holds(n.ot[x[1]], x[2]) = NilPointer
      <4>1. ASSUME NEW x \in GivenBy(f) PROVE x[1] = v /\ Holds(n.ot[x[1]], x[2]) = NilPointer
        <5>1. x[1] = v /\ x[2] > k /\ x[2] \in 1..SegmentWords
          BY <3>4 DEF GivenBy, Slots
        <5>2. PICK j, s, b : j = x[2] /\ s = n.ot[v].field /\ b = Len(y.field)
          OBVIOUS
        <5>3. s \in Seq(Pointers \cup {NilPointer}) /\ Len(s) = b /\ b \in Nat /\ k = b + 1 /\ j \in Nat /\ j > k
          BY <3>1, <3>2, <3>7, <5>1, <5>2
        <5>4. j # 1 /\ j - 1 \notin DOMAIN s
          BY <5>3
        <5> QED
          BY <5>1, <5>2, <5>4 DEF Holds
      <4> QED
        BY <4>1
    <3>13. SameRefs(n.ot, D, n.ot, F)
      BY <3>11, <3>12, ConstantsAre DEF SameRefs
    <3>14. Exact(n.ot, c, u, F)
      BY <2>8, <3>11, <3>13, StaysExact
    <3>15. v \notin Roots
      <4>1. \A q \in Roots : n.ot[q].count >= 1
        BY <2>8, <2>10, <2>13, RootsCounted
      <4>2. ~(n.ot[v].count >= 1)
        BY <3>7
      <4> QED
        BY <4>1, <4>2
    <3>16. Anchors \cap F = {}
      <4>1. \A x \in Anchors : x[1] \in Roots
        BY DEF Anchors, Roots, Special
      <4> QED
        BY <2>13, <3>11, <3>12, <3>15, <4>1 DEF Rooted
    <3>17. Rooted(n.ot, c, u, F)
      BY <2>13, <3>16 DEF Rooted
    <3>18. Counted(n.ot, Z \cup On(ToSet(longer)))
      BY <2>3, <2>8, <2>10, <3>9 DEF Counted
    <3>19. Walking(l, n, longer, c, u, C, Z)
      BY <2>10, <2>11, <3>9, <3>10, <3>14, <3>17, <3>18 DEF Walking
    <3>20. P \subseteq ToSet(longer)
      <4>1. path \in Seq(Frames)
        BY <2>3 DEF PathOK
      <4> QED
        BY <2>2, <3>4, <3>5, <4>1, PrependIs DEF Pushed
    <3>21. Left(n.ot, ToSet(longer)) \subseteq Left(n.ot, P)
      BY <3>20 DEF Left
    <3> QED
      BY <2>2, <2>16, <3>6, <3>19, <3>21 DEF Walked
  <2> QED
    BY <2>17, <2>18
<1> QED
  BY <1>1, <1>2

LEMMA TopIs ==
  ASSUME NEW m, NEW path, Entries(m.ot), PathOK(m.ot, path), path # <<>>, NEW f, f = Head(path)
  PROVE  /\ f \in Frames /\ f.oop \in Pointers /\ f.next \in Nat /\ f.next <= SegmentWords
         /\ m.ot[f.oop].class # NilPointer /\ m.ot[f.oop].count = 0
         /\ f.next <= Len(m.ot[f.oop].field) + 1 /\ Len(m.ot[f.oop].field) \in Nat
         /\ f \in ToSet(path)
<1>1. f \in Frames /\ f \in ToSet(path) /\ FrameOK(m.ot, f)
  BY PathTop
<1>2. f.oop \in Pointers /\ f.next \in Nat /\ f.next <= SegmentWords
  BY <1>1, ConstantsAre DEF Frames
<1>3. m.ot[f.oop] \in Entry
  BY <1>2 DEF Entries
<1>4. Len(m.ot[f.oop].field) \in Nat
  BY <1>3, EntryIs
<1> QED
  BY <1>1, <1>2, <1>4 DEF FrameOK

(* The frame at the end gives up its next slot.                              *)
GaveUp(f) == [f EXCEPT !.next = @ - 1]

(* From m and path to n and p, with x no longer to do.                       *)
Advanced(l, m, path, n, p, e, u, C, Z, x) ==
  /\ Walking(l, n, p, e, u, C, Z)
  /\ Left(n.ot, ToSet(p)) \subseteq Left(m.ot, ToSet(path)) \ {x}
  /\ x \in Left(m.ot, ToSet(path))

LEMMA GiveUp ==
  ASSUME NEW l, NEW m, NEW path, NEW e, NEW u, NEW C \in SUBSET Slots, NEW Z, NEW t,
         Walking(l, m, path, e, u, C, Z), Survivor(l.ot, C, t),
         path # <<>>, NEW f, f = Head(path), NEW k, k = f.next, k > 0,
         NEW v, v = Holds(m.ot[f.oop], k),
         NEW p, p = Pushed(GaveUp(f), Tail(path))
  PROVE  Advanced(l, m, path, m, p, Plus(e, v), u, C, Z, <<f.oop, k>>)
<1>1. PICK ot, D, o, rest, g : ot = m.ot /\ D = C \cup Given(ToSet(path)) /\ o = f.oop
                               /\ rest = Tail(path) /\ g = GaveUp(f)
  OBVIOUS
<1>2. /\ Shape(m, {}) /\ Tiled(ot) /\ Lessened(l, m) /\ PathOK(ot, path) /\ Entries(ot)
      /\ Exact(ot, e, u, D) /\ Rooted(ot, e, u, D) /\ Counted(ot, Z \cup On(ToSet(path)))
  BY <1>1, ShapeIs DEF Walking
<1>3. /\ f \in Frames /\ o \in Pointers /\ k \in Nat /\ k <= SegmentWords /\ f \in ToSet(path)
      /\ ot[o].class # NilPointer /\ ot[o].count = 0 /\ k <= Len(ot[o].field) + 1
      /\ Len(ot[o].field) \in Nat
  BY <1>1, <1>2, TopIs
<1>4. /\ PathOK(ot, rest) /\ o \notin On(ToSet(rest)) /\ path = Pushed(f, rest)
      /\ On(ToSet(path)) = On(ToSet(rest)) \cup {o}
      /\ Given(ToSet(path)) = Given(ToSet(rest)) \cup GivenBy(f)
  BY <1>1, <1>2, PathTop
<1>5. g \in Frames /\ g.oop = o /\ g.next = k - 1 /\ FrameOK(ot, g)
  <2>1. k - 1 \in 0..SegmentWords
    BY <1>3, ConstantsAre
  <2>2. g \in Frames /\ g.oop = o /\ g.next = k - 1
    BY <1>1, <1>3, <2>1 DEF Frames, GaveUp
  <2>3. PICK a : a = Len(ot[o].field)
    OBVIOUS
  <2>4. k - 1 <= a + 1
    BY <1>3, <2>3
  <2> QED
    BY <1>3, <2>2, <2>3, <2>4 DEF FrameOK
<1>6. /\ PathOK(ot, p) /\ On(ToSet(p)) = On(ToSet(rest)) \cup {o}
      /\ Given(ToSet(p)) = Given(ToSet(rest)) \cup GivenBy(g)
  <2>1. g.oop \notin On(ToSet(rest))
    BY <1>4, <1>5
  <2>2. p = Pushed(g, rest)
    BY <1>1
  <2>3. /\ PathOK(ot, p) /\ On(ToSet(p)) = On(ToSet(rest)) \cup {g.oop}
        /\ Given(ToSet(p)) = Given(ToSet(rest)) \cup GivenBy(g)
    BY <1>4, <1>5, <2>1, <2>2, PathPush
  <2> QED
    BY <1>5, <2>3
<1>7. PICK x : x = <<o, k>>
  OBVIOUS
<1>8. x \in Slots /\ x[1] = o /\ x[2] = k
  BY <1>3, <1>7 DEF Slots
<1>9. GivenBy(g) = GivenBy(f) \cup {x}
  <2>1. ASSUME NEW y \in Slots PROVE y \in GivenBy(g) <=> y \in GivenBy(f) \cup {x}
    <3>1. y[2] \in Nat /\ y = <<y[1], y[2]>>
      BY DEF Slots
    <3>2. PICK i : i = y[2]
      OBVIOUS
    <3>3. i > k - 1 <=> i > k \/ i = k
      BY <1>3, <3>1, <3>2
    <3>4. y \in GivenBy(g) <=> y[1] = o /\ i > k - 1
      BY <1>5, <3>2 DEF GivenBy
    <3>5. y \in GivenBy(f) <=> y[1] = o /\ i > k
      BY <1>1, <3>2 DEF GivenBy
    <3>6. y = x <=> y[1] = o /\ i = k
      BY <1>7, <1>8, <3>1, <3>2
    <3> QED
      BY <3>3, <3>4, <3>5, <3>6
  <2>2. GivenBy(g) \subseteq Slots /\ GivenBy(f) \cup {x} \subseteq Slots
    BY <1>8 DEF GivenBy
  <2> QED
    BY <2>1, <2>2
<1>10. \A h \in ToSet(path) : ot[h.oop].count = 0
  BY <1>2 DEF PathOK, FrameOK
<1>11. o # t /\ o \notin Roots
  <2>1. \A y \in Given(ToSet(path)) : ot[y[1]].count = 0
    BY <1>10 DEF Given, GivenBy
  <2>2. \A q \in Pointers : Remains(l.ot[q], ot[q])
    BY <1>1, <1>2 DEF Lessened
  <2>3. ot[t].count >= 1
    BY <1>1, <1>2, <2>1, <2>2, Survives
  <2>4. \A q \in Roots : ot[q].count >= 1
    BY <1>2, RootsCounted
  <2>5. ~(ot[o].count >= 1)
    BY <1>3
  <2> QED
    BY <2>3, <2>4, <2>5
<1>12. x \notin D
  <2>1. x \notin C
    BY <1>8, <1>11 DEF Survivor
  <2>2. x \notin GivenBy(f)
    BY <1>3, <1>8 DEF GivenBy
  <2>3. x \notin Given(ToSet(rest))
    BY <1>4, <1>8 DEF Given, GivenBy, On
  <2> QED
    BY <1>1, <1>4, <2>1, <2>2, <2>3
<1>13. PICK F : F = C \cup Given(ToSet(p))
  OBVIOUS
<1>14. F = D \cup {x}
  BY <1>1, <1>4, <1>6, <1>9, <1>13
<1>15. v = Holds(ot[x[1]], x[2])
  BY <1>1, <1>8
<1>16. Exact(ot, Plus(e, v), u, F)
  BY <1>2, <1>8, <1>12, <1>14, <1>15, SetAside
<1>17. Rooted(ot, Plus(e, v), u, F)
  <2>1. x \notin Anchors
    BY <1>8, <1>11 DEF Anchors, Roots, Special
  <2>2. Plus(e, v)[ActiveContext] >= 1
    <3>1. e[ActiveContext] \in Nat /\ e[ActiveContext] >= 1
      BY <1>2, ConstantsAre DEF Rooted, Exact
    <3> QED
      BY <3>1, ConstantsAre DEF Plus
  <2> QED
    BY <1>2, <1>14, <2>1, <2>2 DEF Rooted
<1>18. On(ToSet(p)) = On(ToSet(path))
  BY <1>4, <1>6
<1>19. Walking(l, m, p, Plus(e, v), u, C, Z)
  BY <1>1, <1>2, <1>6, <1>13, <1>16, <1>17, <1>18 DEF Walking
<1>20. ToSet(p) = ToSet(rest) \cup {g} /\ ToSet(path) = ToSet(rest) \cup {f}
  <2>1. rest \in Seq(Frames)
    BY <1>4 DEF PathOK
  <2>2. f \in Frames
    BY <1>3
  <2>3. path = <<f>> \o rest /\ p = <<g>> \o rest
    BY <1>1, <1>4 DEF Pushed
  <2>4. ToSet(<<f>> \o rest) = ToSet(rest) \cup {f}
    BY <2>1, <2>2, PrependIs
  <2>5. ToSet(<<g>> \o rest) = ToSet(rest) \cup {g}
    BY <1>5, <2>1, PrependIs
  <2> QED
    BY <2>3, <2>4, <2>5
<1>21. ASSUME NEW y \in Left(ot, ToSet(p)) PROVE y \in Left(ot, ToSet(path)) /\ y # x
  <2>1. /\ y \in Pointers \X (0..SegmentWords)
        /\ ot[y[1]].class # NilPointer /\ y[2] <= Len(ot[y[1]].field) + 1
        /\ \A h \in ToSet(p) : h.oop = y[1] => y[2] <= h.next
    BY DEF Left
  <2>2. y[1] = o => y[2] <= k - 1
    BY <1>5, <1>20, <2>1
  <2>3. y[2] \in Nat
    BY <2>1
  <2>4. y[1] = o => y[2] <= f.next
    BY <1>3, <2>2, <2>3
  <2>5. \A h \in ToSet(path) : h.oop = y[1] => y[2] <= h.next
    BY <1>1, <1>20, <2>1, <2>4
  <2>6. y # x
    BY <1>3, <1>8, <2>2, <2>3
  <2> QED
    BY <2>1, <2>5, <2>6 DEF Left
<1>22. x \in Left(ot, ToSet(path))
  <2>1. \A h \in ToSet(path) : h.oop = o => h = f
    BY <1>1, <1>2, <1>3 DEF PathOK
  <2>2. x \in Pointers \X (0..SegmentWords)
    BY <1>3, <1>7
  <2>3. k <= k
    BY <1>3
  <2> QED
    BY <1>1, <1>3, <1>8, <2>1, <2>2, <2>3 DEF Left
<1> QED
  BY <1>1, <1>7, <1>19, <1>21, <1>22 DEF Advanced

(* The frame at the end has nothing left: its object is freed.               *)
LEMMA FreedIs ==
  ASSUME NEW m, Shape(m, {}), NEW o \in Pointers, m.ot[o].class # NilPointer, m.ot[o].count = 0
  PROVE  LET n == Freed(m, o)
         IN  /\ Shape(n, {}) /\ (Tiled(m.ot) => Tiled(n.ot))
             /\ n.ot[o].class = NilPointer /\ n.ot[o].count = 0 /\ n.ot[o].field = <<>>
             /\ SameExtent(m.ot[o], n.ot[o])
             /\ \A p \in Pointers : p # o => n.ot[p] = m.ot[p]
             /\ n.freeOops = m.freeOops + 1
             /\ n.uncounted = m.uncounted /\ n.failed = m.failed
             /\ n.currentSegment = m.currentSegment
<1>1. PICK K : K = {}
  OBVIOUS
<1>2. EntryOK(m.ot[o]) /\ Shape(m, K) /\ m.ot[o] \in Entry
  BY <1>1, ShapeIs DEF EntryOK
<1>3. Discardable(m.ot[o])
  <2>1. ~m.ot[o].free
    BY <1>2, FreeEntryIs DEF EntryOK
  <2>2. spaceOccupiedBy(m.ot[o]) = Space(m.ot[o])
    BY DEF Space
  <2> QED
    BY <1>2, <2>1, <2>2 DEF Discardable
<1>4. ~IsChunk(m.ot[o])
  BY DEF IsChunk
<1>5. PICK d : d = deallocate(m, o)
  OBVIOUS
<1>6. Deallocated(m, d, o, K)
  BY <1>2, <1>3, <1>4, <1>5, Deallocate
<1>7. Shape(d, {}) /\ d \in Memory /\ d.freeWords \in Int /\ d.freeOops \in Int
  BY <1>1, <1>6, ShapeIs, MemoryIs DEF Deallocated
<1>8. PICK s : s = spaceOccupiedBy(m.ot[o])
  OBVIOUS
<1>9. s \in Nat
  BY <1>2, <1>8, EntryIs
<1>10. PICK a, b : a = d.freeWords + s /\ b = d.freeOops + 1
  OBVIOUS
<1>11. a \in Int /\ b \in Int
  BY <1>7, <1>9, <1>10
<1>12. PICK n : n = Freed(m, o)
  OBVIOUS
<1>13. n = [d EXCEPT !.freeWords = a, !.freeOops = b]
  BY <1>5, <1>8, <1>10, <1>12 DEF Freed
<1>14. /\ n \in Memory /\ n.ot = d.ot /\ n.freeChunks = d.freeChunks /\ n.freePointers = d.freePointers
       /\ n.freeOops = b /\ n.uncounted = d.uncounted /\ n.failed = d.failed
       /\ n.currentSegment = d.currentSegment
  BY <1>7, <1>11, <1>13 DEF Memory
<1>15. Shape(n, {})
  BY <1>7, <1>14 DEF Shape
<1> QED
  BY <1>6, <1>10, <1>12, <1>14, <1>15 DEF Deallocated, EmptiedFrom, IsChunk, SameRegisters

BlankMore(ot, ot2, o) == Blank(ot2) = Blank(ot) \cup {o} /\ o \notin Blank(ot)

LEMMA BlankOneMore ==
  ASSUME NEW ot, NEW ot2, NEW o \in Pointers, ot[o].class # NilPointer, ot2[o].class = NilPointer,
         \A p \in Pointers : p # o => ot2[p] = ot[p]
  PROVE  Cardinality(Blank(ot2)) = Cardinality(Blank(ot)) + 1 /\ Cardinality(Blank(ot)) \in Nat
<1>1. Blank(ot2) = Blank(ot) \cup {o} /\ o \notin Blank(ot)
  BY DEF Blank
<1>2. Blank(ot) \subseteq Pointers
  BY DEF Blank
<1>3. IsFiniteSet(Blank(ot))
  BY <1>2, ConstantsAre, FS_Subset
<1> QED
  BY <1>1, <1>3, FS_AddElement, FS_CardinalityType

LEMMA FreeTop ==
  ASSUME NEW l, NEW m, NEW path, NEW e, NEW u, NEW C \in SUBSET Slots, NEW Z,
         Walking(l, m, path, e, u, C, Z),
         path # <<>>, NEW f, f = Head(path), f.next = 0,
         NEW n, n = Freed(m, f.oop), NEW rest, rest = Tail(path)
  PROVE  Advanced(l, m, path, n, rest, e, u, C, Z, <<f.oop, 0>>)
<1>1. PICK ot, ot2, D, o : ot = m.ot /\ ot2 = n.ot /\ D = C \cup Given(ToSet(path)) /\ o = f.oop
  OBVIOUS
<1>2. /\ Shape(m, {}) /\ Tiled(ot) /\ Lessened(l, m) /\ PathOK(ot, path) /\ Entries(ot)
      /\ Exact(ot, e, u, D) /\ Rooted(ot, e, u, D) /\ Counted(ot, Z \cup On(ToSet(path)))
  BY <1>1, ShapeIs DEF Walking
<1>3. /\ f \in Frames /\ o \in Pointers /\ f \in ToSet(path)
      /\ ot[o].class # NilPointer /\ ot[o].count = 0
      /\ Len(ot[o].field) \in Nat
  BY <1>1, <1>2, TopIs
<1>4. /\ PathOK(ot, rest) /\ o \notin On(ToSet(rest))
      /\ On(ToSet(path)) = On(ToSet(rest)) \cup {o}
      /\ Given(ToSet(path)) = Given(ToSet(rest)) \cup GivenBy(f)
  BY <1>1, <1>2, PathTop
<1>5. /\ Shape(n, {}) /\ Tiled(ot2)
      /\ ot2[o].class = NilPointer /\ ot2[o].count = 0 /\ ot2[o].field = <<>>
      /\ SameExtent(ot[o], ot2[o])
      /\ \A p \in Pointers : p # o => ot2[p] = ot[p]
      /\ n.freeOops = m.freeOops + 1
      /\ n.uncounted = m.uncounted /\ n.failed = m.failed
      /\ n.currentSegment = m.currentSegment
  BY <1>1, <1>2, <1>3, FreedIs
<1>6. Lessened(m, n)
  <2>1. \A p \in Pointers : Remains(m.ot[p], n.ot[p])
    BY <1>1, <1>5 DEF Remains
  <2>2. SameExtents(m.ot, n.ot)
    BY <1>1, <1>5 DEF SameExtents, SameExtent
  <2>3. Cardinality(Blank(ot2)) = Cardinality(Blank(ot)) + 1 /\ Cardinality(Blank(ot)) \in Nat
    BY <1>3, <1>5, BlankOneMore
  <2>4. m.freeOops \in Int
    BY <1>2, ShapeIs, MemoryIs
  <2>5. PICK a, b, c, d : a = Cardinality(Blank(ot2)) /\ b = Cardinality(Blank(ot)) /\ c = m.freeOops /\ d = n.freeOops
    OBVIOUS
  <2>6. d - a = c - b
    BY <1>5, <2>3, <2>4, <2>5
  <2> QED
    BY <1>1, <1>5, <2>1, <2>2, <2>5, <2>6 DEF Lessened
<1>7. Lessened(l, n)
  BY <1>2, <1>6, LessenedTrans
<1>8. rest \in Seq(Frames) /\ ToSet(rest) \subseteq Frames
  <2>1. rest \in Seq(Frames)
    BY <1>4 DEF PathOK
  <2> QED
    BY <2>1, ElementsAre
<1>9. PathOK(ot2, rest)
  <2>1. ASSUME NEW h \in ToSet(rest) PROVE FrameOK(ot2, h)
    <3>1. h.oop \in Pointers /\ h.oop # o /\ FrameOK(ot, h)
      BY <1>4, <1>8 DEF PathOK, Frames, On
    <3> QED
      BY <1>5, <3>1 DEF FrameOK
  <2> QED
    BY <1>4, <2>1 DEF PathOK
<1>10. PICK F : F = C \cup Given(ToSet(rest))
  OBVIOUS
<1>11. F \subseteq D /\ F \in SUBSET Slots
  BY <1>1, <1>4, <1>10 DEF Given, GivenBy
<1>12. SameRefs(ot, D, ot2, F)
  <2>1. ASSUME NEW x \in Slots, NEW q \in Pointers
        PROVE  (x \notin D /\ Holds(ot[x[1]], x[2]) = q) <=> (x \notin F /\ Holds(ot2[x[1]], x[2]) = q)
    <3>1. CASE x[1] = o
      <4>1. x[2] \in 1..SegmentWords
        BY DEF Slots
      <4>2. x[2] > 0
        BY <4>1
      <4>3. x \in D
        BY <1>1, <1>4, <3>1, <4>2 DEF GivenBy
      <4>4. DOMAIN <<>> = {}
        OBVIOUS
      <4>5. Holds(ot2[x[1]], x[2]) = NilPointer
        BY <1>5, <3>1, <4>4 DEF Holds
      <4> QED
        BY <4>3, <4>5, ConstantsAre
    <3>2. CASE x[1] # o
      <4>1. x[1] \in Pointers
        BY DEF Slots
      <4>2. ot2[x[1]] = ot[x[1]]
        BY <1>5, <3>2, <4>1
      <4>3. x \notin GivenBy(f)
        BY <1>1, <3>2 DEF GivenBy
      <4> QED
        BY <1>1, <1>4, <1>10, <4>2, <4>3
    <3> QED
      BY <3>1, <3>2
  <2> QED
    BY <2>1 DEF SameRefs
<1>13. \A q \in Pointers : ot2[q].count = ot[q].count
  BY <1>3, <1>5
<1>14. Exact(ot2, e, u, F)
  BY <1>2, <1>11, <1>12, <1>13, StaysExact
<1>15. o \notin Roots
  <2>1. \A q \in Roots : ot[q].count >= 1
    BY <1>2, RootsCounted
  <2>2. ~(ot[o].count >= 1)
    BY <1>3
  <2> QED
    BY <2>1, <2>2
<1>16. Rooted(ot2, e, u, F)
  <2>1. Anchored(ot2)
    BY <1>2, <1>5, <1>15, ConstantsAre DEF Rooted, Anchored, Roots, Special
  <2> QED
    BY <1>2, <1>11, <2>1 DEF Rooted
<1>17. Counted(ot2, Z \cup On(ToSet(rest)))
  BY <1>2, <1>4, <1>5 DEF Counted
<1>18. Walking(l, n, rest, e, u, C, Z)
  BY <1>1, <1>5, <1>7, <1>9, <1>10, <1>14, <1>16, <1>17 DEF Walking
<1>19. ToSet(path) = ToSet(rest) \cup {f}
  <2>1. path \in Seq(Frames) /\ IsInjective(path)
    BY <1>2 DEF PathOK
  <2>2. ToSet(rest) = ToSet(path) \ {f}
    BY <2>1, TailIs
  <2> QED
    BY <1>3, <2>2
<1>20. ASSUME NEW y \in Left(ot2, ToSet(rest)) PROVE y \in Left(ot, ToSet(path)) /\ y # <<o, 0>>
  <2>1. /\ y \in Pointers \X (0..SegmentWords)
        /\ ot2[y[1]].class # NilPointer /\ y[2] <= Len(ot2[y[1]].field) + 1
        /\ \A h \in ToSet(rest) : h.oop = y[1] => y[2] <= h.next
    BY DEF Left
  <2>2. y[1] # o
    BY <1>5, <2>1
  <2>3. ot2[y[1]] = ot[y[1]]
    BY <1>5, <2>1, <2>2
  <2>4. \A h \in ToSet(path) : h.oop = y[1] => y[2] <= h.next
    BY <1>1, <1>19, <2>1, <2>2
  <2> QED
    BY <2>1, <2>2, <2>3, <2>4 DEF Left
<1>21. PICK x : x = <<o, 0>>
  OBVIOUS
<1>22. x \in Left(ot, ToSet(path))
  <2>1. \A h \in ToSet(path) : h.oop = o => h = f
    BY <1>1, <1>2, <1>3 DEF PathOK
  <2>2. x \in Pointers \X (0..SegmentWords) /\ x[1] = o /\ x[2] = 0
    BY <1>3, <1>21, ConstantsAre
  <2>3. 0 <= Len(ot[o].field) + 1
    BY <1>3
  <2> QED
    BY <1>1, <1>3, <2>1, <2>2, <2>3 DEF Left
<1> QED
  BY <1>1, <1>18, <1>20, <1>21, <1>22 DEF Advanced

(* One turn of the walk: it goes on, with less to do.                        *)
Shrinks(r, t) == 
  \E x \in Left(r.mem.ot, ToSet(r.path)) :
     Left(t.mem.ot, ToSet(t.path)) \subseteq Left(r.mem.ot, ToSet(r.path)) \ {x}

LEMMA TurnKeeps ==
  ASSUME NEW l, NEW r, NEW e, NEW u, NEW C \in SUBSET Slots, NEW Z, NEW t,
         Walking(l, r.mem, r.path, e, u, C, Z), Survivor(l.ot, C, t),
         r = [mem |-> r.mem, path |-> r.path]
  PROVE  /\ Walking(l, Turn(r).mem, Turn(r).path, e, u, C, Z)
         /\ r.path # <<>> => Shrinks(r, Turn(r))
         /\ Turn(r) = [mem |-> Turn(r).mem, path |-> Turn(r).path]
<1>1. CASE r.path = <<>>
  <2>1. Turn(r) = r
    BY <1>1 DEF Turn
  <2> QED
    BY <1>1, <2>1
<1>2. CASE r.path # <<>> /\ Head(r.path).next = 0
  <2>1. PICK m, path, f, n, rest : m = r.mem /\ path = r.path /\ f = Head(path) /\ n = Freed(m, f.oop)
                                   /\ rest = Tail(path)
    OBVIOUS
  <2>2. Turn(r) = [mem |-> n, path |-> rest]
    BY <1>2, <2>1 DEF Turn
  <2>3. Advanced(l, m, path, n, rest, e, u, C, Z, <<f.oop, 0>>)
    <3>1. Walking(l, m, path, e, u, C, Z) /\ path # <<>> /\ f.next = 0
      BY <1>2, <2>1
    <3> QED
      BY <2>1, <3>1, FreeTop
  <2>4. PICK s : s = Turn(r)
    OBVIOUS
  <2>5. s.mem = n /\ s.path = rest
    BY <2>2, <2>4
  <2>6. Shrinks(r, s)
    BY <2>1, <2>3, <2>5 DEF Shrinks, Advanced
  <2> QED
    BY <2>2, <2>3, <2>4, <2>5, <2>6 DEF Advanced
<1>3. CASE r.path # <<>> /\ Head(r.path).next # 0
  <2>1. PICK m, path, f, k, p : m = r.mem /\ path = r.path /\ f = Head(path) /\ k = f.next
                                   /\ p = Pushed(GaveUp(f), Tail(path))
    OBVIOUS
  <2>2. PICK v : v = Holds(m.ot[f.oop], k)
    OBVIOUS
  <2>3. PathOK(m.ot, path) /\ Entries(m.ot) /\ path \in Seq(Frames)
    BY <2>1, ShapeIs DEF Walking, PathOK
  <2>4. /\ f \in Frames /\ f.oop \in Pointers /\ k \in Nat /\ k <= SegmentWords
        /\ k <= Len(m.ot[f.oop].field) + 1 /\ Len(m.ot[f.oop].field) \in Nat
    BY <1>3, <2>1, <2>3, TopIs
  <2>5. k > 0
    BY <1>3, <2>1, <2>4
  <2>6. PICK y : y = m.ot[f.oop]
    OBVIOUS
  <2>7. y \in Entry /\ EntryOK(y) /\ y.field \in Seq(Pointers \cup {NilPointer})
    <3>1. y \in Entry /\ EntryOK(y)
      BY <2>3, <2>4, <2>6 DEF Entries
    <3> QED
      BY <3>1, EntryIs
  <2>8. PointersIn(y)[k] = v
    <3>1. PICK a, s : s = y.field /\ a = Len(s)
      OBVIOUS
    <3>2. s \in Seq(Pointers \cup {NilPointer}) /\ a \in Nat /\ k <= a + 1 /\ k \in Nat /\ k > 0 /\ a = Len(s)
      BY <2>4, <2>5, <2>6, <2>7, <3>1
    <3>3. PointersIn(y) = <<y.class>> \o s
      BY <3>1 DEF PointersIn
    <3>4. CASE k = 1
      BY <2>2, <2>6, <3>2, <3>3, <3>4 DEF Holds
    <3>5. CASE k # 1
      <4>1. k - 1 \in DOMAIN s /\ k = (k - 1) + 1
        BY <3>2, <3>5
      <4>2. (<<y.class>> \o s)[k] = s[k - 1]
        BY <3>2, <3>5, <4>1
      <4> QED
        BY <2>2, <2>6, <3>1, <3>3, <3>5, <4>1, <4>2 DEF Holds
    <3> QED
      BY <3>4, <3>5
  <2>9. v \in Pointers \cup {NilPointer}
    <3>1. k \in 1..SegmentWords
      BY <2>4, <2>5, ConstantsAre
    <3> QED
      BY <2>2, <2>6, <2>7, <3>1, HoldsIs
  <2>10. Advanced(l, m, path, m, p, Plus(e, v), u, C, Z, <<f.oop, k>>)
    <3>1. Walking(l, m, path, e, u, C, Z) /\ path # <<>>
      BY <1>3, <2>1
    <3> QED
      BY <2>1, <2>2, <2>5, <3>1, GiveUp
  <2>11. PICK q : q = [mem |-> m, path |-> p]
    OBVIOUS
  <2>12. q = [r EXCEPT !.path[1].next = @ - 1]
    <3>1. Len(path) \in Nat /\ DOMAIN path = 1..Len(path) /\ path[1] = f /\ Len(path) >= 1 /\ \A i \in 1..Len(path) : path[i] \in Frames
      BY <1>3, <2>1, <2>3
    <3>2. PICK g, rest, c : g = GaveUp(f) /\ rest = Tail(path) /\ c = [path EXCEPT ![1] = g]
      OBVIOUS
    <3>3. rest \in Seq(Frames) /\ Len(rest) = Len(path) - 1 /\ \A i \in 1..Len(path) - 1 : rest[i] = path[i + 1]
      BY <1>3, <2>1, <2>3, <3>2
    <3>4. g \in Frames
      <4>1. k - 1 \in 0..SegmentWords
        BY <2>4, <2>5, ConstantsAre
      <4> QED
        BY <2>1, <2>4, <3>2, <4>1 DEF GaveUp, Frames
    <3>5. p = <<g>> \o rest
      BY <2>1, <3>2 DEF Pushed
    <3>6. Len(p) = Len(path) /\ p \in Seq(Frames) /\ p[1] = g
      <4>1. p \in Seq(Frames) /\ Len(p) = Len(rest) + 1 /\ p[1] = g
        BY <3>3, <3>4, <3>5
      <4>2. PICK a, b : a = Len(path) /\ b = Len(rest)
        OBVIOUS
      <4>3. b + 1 = a
        BY <3>1, <3>3, <4>2
      <4> QED
        BY <4>1, <4>2, <4>3
    <3>7. \A i \in 1..Len(path) : i # 1 => p[i] = path[i]
      <4>1. ASSUME NEW i \in 1..Len(path), i # 1 PROVE p[i] = path[i]
        <5>1. i - 1 \in 1..Len(path) - 1 /\ (i - 1) + 1 = i
          BY <3>1, <4>1
        <5>2. rest[i - 1] = path[i]
          BY <3>3, <5>1
        <5>3. (<<g>> \o rest)[i] = rest[i - 1]
          BY <3>1, <3>3, <4>1
        <5> QED
          BY <3>5, <5>2, <5>3
      <4> QED
        BY <4>1
    <3>8. c = p
      <4>1. DOMAIN c = 1..Len(path) /\ DOMAIN p = 1..Len(path)
        BY <3>1, <3>2, <3>6
      <4>2. \A i \in 1..Len(path) : c[i] = p[i]
        BY <3>1, <3>2, <3>6, <3>7
      <4>3. c = [i \in 1..Len(path) |-> c[i]]
        BY <3>1, <3>2
      <4>4. p = [i \in 1..Len(path) |-> p[i]]
        BY <3>1, <3>6
      <4> QED
        BY <4>2, <4>3, <4>4
    <3>9. [r EXCEPT !.path[1].next = @ - 1] = [mem |-> m, path |-> c]
      <4>1. r = [mem |-> m, path |-> path]
        BY <2>1
      <4>2. [r EXCEPT !.path[1].next = @ - 1] =
              [mem |-> m, path |-> [path EXCEPT ![1] = [path[1] EXCEPT !.next = @ - 1]]]
        BY <4>1
      <4>3. [path[1] EXCEPT !.next = @ - 1] = g
        BY <3>1, <3>2 DEF GaveUp
      <4> QED
        BY <3>2, <4>2, <4>3
    <3> QED
      BY <2>11, <3>8, <3>9
  <2>13. Turn(r) = Visit(q, v)
    BY <1>3, <2>1, <2>6, <2>8, <2>12 DEF Turn
  <2>14. e \in [Pointers -> Nat] /\ e[ActiveContext] >= 1
    BY DEF Walking, Exact, Rooted
  <2>15. Minus(Plus(e, v), v) = e
    BY <2>14, PlusIs
  <2>16. v # NilPointer => Plus(e, v)[v] >= 1
    <3>1. ASSUME v # NilPointer PROVE Plus(e, v)[v] >= 1
      <4>1. v \in Pointers /\ e[v] \in Nat
        BY <2>9, <2>14, <3>1
      <4> QED
        BY <4>1 DEF Plus
    <3> QED
      BY <3>1
  <2>17. PICK c : c = Plus(e, v)
    OBVIOUS
  <2>18. Walked(l, m, p, Visit(q, v), Minus(c, v), u, C, Z)
    <3>1. Walking(l, m, p, c, u, C, Z) /\ (v # NilPointer => c[v] >= 1) /\ Minus(c, v)[ActiveContext] >= 1
      BY <2>10, <2>14, <2>15, <2>16, <2>17 DEF Advanced
    <3> QED
      BY <2>9, <2>11, <3>1, VisitKeeps
  <2>19. PICK s : s = Turn(r)
    OBVIOUS
  <2>20. Walked(l, m, p, s, e, u, C, Z)
    BY <2>13, <2>15, <2>17, <2>18, <2>19
  <2>21. Shrinks(r, s)
    BY <2>1, <2>10, <2>20 DEF Shrinks, Walked, Advanced
  <2>22. s = [mem |-> s.mem, path |-> s.path]
    <3>1. CASE v = NilPointer
      <4>1. s = q
        BY <2>13, <2>19, <3>1 DEF Visit
      <4> QED
        BY <2>11, <4>1
    <3>2. CASE v # NilPointer
      <4>1. \E a, b : s = [mem |-> a, path |-> b]
        BY <2>13, <2>19, <3>2 DEF Visit
      <4> QED
        BY <4>1
    <3> QED
      BY <3>1, <3>2
  <2> QED
    BY <2>19, <2>20, <2>21, <2>22 DEF Walked
<1> QED
  BY <1>1, <1>2, <1>3

(* There is a word of the heap for everything that is left to do.            *)
LEMMA LeftBound ==
  ASSUME NEW ot, Entries(ot), Tiled(ot), NEW P
  PROVE  IsFiniteSet(Left(ot, P)) /\ Cardinality(Left(ot, P)) <= Turns /\ Turns \in Nat
<1>1. PICK L, T : L = Left(ot, P) /\ T = (1..Segments) \X HeapWords
  OBVIOUS
<1>2. IsFiniteSet(T) /\ Cardinality(T) = Turns /\ Turns \in Nat
  <2>1. IsFiniteSet(1..Segments) /\ Cardinality(1..Segments) = Segments
    <3>1. 1 \in Int /\ Segments \in Int /\ ~(1 > Segments) /\ Segments - 1 + 1 = Segments
      BY ConstantsAre
    <3> QED
      BY <3>1, FS_Interval
  <2>2. IsFiniteSet(HeapWords) /\ Cardinality(HeapWords) = SegmentWords
    <3>1. /\ 0 \in Int /\ HeapSpaceStop \in Int /\ ~(0 > HeapSpaceStop)
          /\ HeapSpaceStop - 0 + 1 = SegmentWords
      BY ConstantsAre
    <3>2. IsFiniteSet(0..HeapSpaceStop) /\ Cardinality(0..HeapSpaceStop) = HeapSpaceStop - 0 + 1
      BY <3>1, FS_Interval
    <3> QED
      BY <3>1, <3>2 DEF HeapWords
  <2>3. IsFiniteSet(T) /\ Cardinality(T) = Cardinality(1..Segments) * Cardinality(HeapWords)
    BY <1>1, <2>1, <2>2, FS_Product
  <2>4. Cardinality(T) = Turns
    BY <2>1, <2>2, <2>3 DEF Turns
  <2> QED
    BY <2>3, <2>4, FS_CardinalityType
<1> DEFINE h == [x \in L |-> <<ot[x[1]].segment, ot[x[1]].location + x[2]>>]
<1>3. ASSUME NEW x \in L
      PROVE  /\ x[1] \in Pointers /\ x[2] \in Nat /\ x = <<x[1], x[2]>>
             /\ ot[x[1]].segment \in 1..Segments /\ ot[x[1]].location \in Nat
             /\ ot[x[1]].location + x[2] \in HeapWords
             /\ Occupies(ot[x[1]], ot[x[1]].segment, ot[x[1]].location + x[2])
  <2>1. x \in Pointers \X (0..SegmentWords) /\ ot[x[1]].class # NilPointer /\ x[2] <= Len(ot[x[1]].field) + 1
    BY <1>1 DEF Left
  <2>2. PICK e : e = ot[x[1]]
    OBVIOUS
  <2>3. EntryOK(e) /\ e \in Entry /\ e.class # NilPointer /\ ~e.free
    BY <2>1, <2>2, FreeEntryIs DEF Entries, EntryOK
  <2>4. PICK s, a, k, b, j : s = Space(e) /\ a = e.location /\ k = Len(e.field) /\ b = e.size /\ j = x[2]
    OBVIOUS
  <2>5. e.segment \in 1..Segments /\ a \in Nat /\ s \in Nat /\ a + s <= SegmentWords
    BY <2>3, <2>4, ChunkLies
  <2>6. k \in Nat /\ b \in Nat /\ s \in {b, b + 1}
    BY <2>3, <2>4, EntryIs
  <2>7. 2 + k <= b
    BY <2>3, <2>4 DEF EntryOK, HeaderSize
  <2>8. j \in Nat /\ j <= k + 1
    BY <2>1, <2>2, <2>4
  <2>9. a + j \in HeapWords /\ a <= a + j /\ a + j < a + s
    BY <2>5, <2>6, <2>7, <2>8, ConstantsAre DEF HeapWords
  <2> QED
    BY <2>1, <2>2, <2>3, <2>4, <2>5, <2>8, <2>9 DEF Occupies
<1>4. h \in [L -> T]
  BY <1>1, <1>3
<1>5. ASSUME NEW x \in L, NEW y \in L, h[x] = h[y] PROVE x = y
  <2>1. PICK seg, w : seg = ot[x[1]].segment /\ w = ot[x[1]].location + x[2]
    OBVIOUS
  <2>2. ot[y[1]].segment = seg /\ ot[y[1]].location + y[2] = w
    BY <1>5, <2>1
  <2>3. /\ x[1] \in Pointers /\ y[1] \in Pointers /\ seg \in 1..Segments /\ w \in HeapWords
        /\ Occupies(ot[x[1]], seg, w)
    BY <1>3, <2>1
  <2>4. Occupies(ot[y[1]], seg, w)
    BY <1>3, <2>2
  <2>5. TiledAt(ot, seg, w)
    BY <2>3 DEF Tiled
  <2>6. x[1] = y[1]
    BY <2>3, <2>4, <2>5 DEF TiledAt
  <2>7. PICK a, i, j : a = ot[x[1]].location /\ i = x[2] /\ j = y[2]
    OBVIOUS
  <2>8. a \in Nat /\ i \in Nat /\ j \in Nat /\ a + i = w /\ a + j = w
    BY <1>3, <2>1, <2>2, <2>6, <2>7
  <2>9. i = j
    BY <2>8
  <2> QED
    BY <1>3, <2>6, <2>7, <2>9
<1> HIDE DEF h
<1>6. h \in Injection(L, T)
  BY <1>4, <1>5 DEF Injection, IsInjective
<1>7. IsFiniteSet(L) /\ Cardinality(L) <= Cardinality(T)
  BY <1>2, <1>6, FS_Injection
<1> QED
  BY <1>1, <1>2, <1>7

(* The turns of countDown.                                                   *)
turning(first, f) == [n \in 0..Turns |-> IF n = 0 THEN first ELSE Turn(f[n - 1])]
turns(first) == CHOOSE f : f = turning(first, f)

LEMMA Turning ==
  ASSUME NEW first, NEW N, N = Turns, N \in Nat
  PROVE  turns(first) = turning(first, turns(first))
<1> DEFINE step(f, i) == IF i = 0 THEN first ELSE Turn(f[i - 1])
           E == {k \in Nat : \E f : f = [i \in 0..k |-> step(f, i)]}
<1>1. 0 \in E
  <2>1. [i \in 0..0 |-> first] = [i \in 0..0 |-> step([j \in 0..0 |-> first], i)]
    OBVIOUS
  <2> QED
    BY <2>1
<1>2. ASSUME NEW k \in 0..N - 1, k \in E PROVE k + 1 \in E
  <2>1. PICK f : f = [i \in 0..k |-> step(f, i)]
    BY <1>2
  <2> DEFINE g == [i \in 0..k + 1 |-> step(f, i)]
  <2>2. k \in Nat /\ k + 1 \in Nat
    OBVIOUS
  <2>3. \A i \in 0..k : g[i] = f[i]
    <3> HIDE DEF step
    <3> QED
      BY <2>1, <2>2
  <2>4. \A i \in 0..k + 1 : step(f, i) = step(g, i)
    <3> HIDE DEF g
    <3> QED
      BY <2>2, <2>3
  <2>5. g = [i \in 0..k + 1 |-> step(g, i)]
    <3>1. g = [i \in 0..k + 1 |-> g[i]]
      BY Zenon
    <3>2. \A i \in 0..k + 1 : g[i] = step(f, i)
      BY Zenon
    <3> HIDE DEF g, step
    <3> QED
      BY <2>4, <3>1, <3>2
  <2> HIDE DEF g, step
  <2> QED
    BY <2>2, <2>5
<1>3. N \in E
  <2> HIDE DEF E
  <2>1. 0..N \subseteq E
    BY <1>1, <1>2, InductionTo
  <2> QED
    BY <2>1
<1>4. PICK f : f = turning(first, f)
  BY <1>3, Zenon DEF turning
<1> QED
  BY <1>4, Zenon DEF turns

(* After n turns, there is nothing on the path or n less is left to do.      *)
TurnedTo(l, r, e, u, C, Z, n) ==
  /\ Walking(l, r.mem, r.path, e, u, C, Z)
  /\ r = [mem |-> r.mem, path |-> r.path]
  /\ r.path # <<>> => Cardinality(Left(r.mem.ot, ToSet(r.path))) + n <= Turns

LEMMA WalkEnds ==
  ASSUME NEW l, NEW first, NEW e, NEW u, NEW C \in SUBSET Slots, NEW Z, NEW t,
         Walking(l, first.mem, first.path, e, u, C, Z), Survivor(l.ot, C, t),
         first = [mem |-> first.mem, path |-> first.path]
  PROVE  Walking(l, turns(first)[Turns].mem, <<>>, e, u, C, Z)
<1>1. Entries(first.mem.ot) /\ Tiled(first.mem.ot)
  BY ShapeIs DEF Walking
<1>2. /\ IsFiniteSet(Left(first.mem.ot, ToSet(first.path))) /\ Turns \in Nat
      /\ Cardinality(Left(first.mem.ot, ToSet(first.path))) <= Turns
  BY <1>1, LeftBound
<1>3. PICK N, f : N = Turns /\ f = turns(first)
  OBVIOUS
<1>4. N \in Nat
  BY <1>2, <1>3
<1>5. f = turning(first, f)
  BY <1>3, <1>4, Turning
<1>6. \A i \in 0..N : f[i] = IF i = 0 THEN first ELSE Turn(f[i - 1])
  BY <1>3, <1>5 DEF turning
<1> DEFINE E == {i \in Nat : TurnedTo(l, f[i], e, u, C, Z, i)}
<1>7. 0 \in E
  <2>1. f[0] = first
    BY <1>4, <1>6
  <2>2. PICK c : c = Cardinality(Left(first.mem.ot, ToSet(first.path)))
    OBVIOUS
  <2>3. c \in Nat /\ c <= Turns
    BY <1>2, <2>2, FS_CardinalityType
  <2>4. c + 0 <= Turns
    BY <2>3
  <2>5. TurnedTo(l, first, e, u, C, Z, 0)
    BY <2>2, <2>4 DEF TurnedTo
  <2> QED
    BY <2>1, <2>5
<1>8. ASSUME NEW k \in 0..N - 1, k \in E PROVE k + 1 \in E
  <2>1. PICK r, s : r = f[k] /\ s = Turn(r)
    OBVIOUS
  <2>2. k \in Nat /\ k + 1 \in 0..N /\ k + 1 # 0 /\ (k + 1) - 1 = k
    BY <1>4
  <2>3. f[k + 1] = s
    BY <1>6, <2>1, <2>2
  <2>4. TurnedTo(l, r, e, u, C, Z, k)
    BY <1>8, <2>1
  <2>5. Walking(l, r.mem, r.path, e, u, C, Z) /\ r = [mem |-> r.mem, path |-> r.path]
    BY <2>4 DEF TurnedTo
  <2>6. /\ Walking(l, s.mem, s.path, e, u, C, Z) /\ s = [mem |-> s.mem, path |-> s.path]
        /\ r.path # <<>> => Shrinks(r, s)
    BY <2>1, <2>5, TurnKeeps
  <2>7. ASSUME s.path # <<>> PROVE Cardinality(Left(s.mem.ot, ToSet(s.path))) + (k + 1) <= Turns
    <3>1. r.path # <<>>
      <4>1. r.path = <<>> => s = r
        BY <2>1 DEF Turn
      <4> QED
        BY <2>7, <4>1
    <3>2. PICK A, B : A = Left(r.mem.ot, ToSet(r.path)) /\ B = Left(s.mem.ot, ToSet(s.path))
      OBVIOUS
    <3>3. PICK x \in A : B \subseteq A \ {x}
      BY <2>6, <3>1, <3>2 DEF Shrinks
    <3>4. IsFiniteSet(A)
      <4>1. Entries(r.mem.ot) /\ Tiled(r.mem.ot)
        BY <2>5, ShapeIs DEF Walking
      <4> QED
        BY <3>2, <4>1, LeftBound
    <3>5. IsFiniteSet(A \ {x}) /\ Cardinality(A \ {x}) = Cardinality(A) - 1
      BY <3>3, <3>4, FS_RemoveElement
    <3>6. IsFiniteSet(B) /\ Cardinality(B) <= Cardinality(A \ {x})
      BY <3>3, <3>5, FS_Subset
    <3>7. Cardinality(A) \in Nat /\ Cardinality(B) \in Nat
      BY <3>4, <3>6, FS_CardinalityType
    <3>8. Cardinality(A) + k <= Turns
      BY <2>4, <3>1, <3>2 DEF TurnedTo
    <3>9. PICK a, b : a = Cardinality(A) /\ b = Cardinality(B)
      OBVIOUS
    <3>10. a \in Nat /\ b \in Nat /\ b <= a - 1 /\ a + k <= Turns
      BY <3>5, <3>6, <3>7, <3>8, <3>9
    <3>11. b + (k + 1) <= Turns
      BY <1>2, <2>2, <3>10
    <3> QED
      BY <3>2, <3>9, <3>11
  <2>8. TurnedTo(l, s, e, u, C, Z, k + 1)
    BY <2>6, <2>7 DEF TurnedTo
  <2> QED
    BY <2>2, <2>3, <2>8
<1>9. TurnedTo(l, f[N], e, u, C, Z, N)
  <2> HIDE DEF E
  <2>1. 0..N \subseteq E
    BY <1>4, <1>7, <1>8, InductionTo
  <2>2. N \in E
    BY <1>4, <2>1
  <2> QED
    BY <2>2 DEF E
<1>10. PICK r : r = f[N]
  OBVIOUS
<1>11. Walking(l, r.mem, r.path, e, u, C, Z)
  BY <1>9, <1>10 DEF TurnedTo
<1>12. r.path = <<>>
  <2> SUFFICES ASSUME r.path # <<>> PROVE FALSE
    OBVIOUS
  <2>1. PICK A : A = Left(r.mem.ot, ToSet(r.path))
    OBVIOUS
  <2>2. Entries(r.mem.ot) /\ Tiled(r.mem.ot) /\ PathOK(r.mem.ot, r.path)
    BY <1>11, ShapeIs DEF Walking
  <2>3. IsFiniteSet(A) /\ Cardinality(A) \in Nat
    BY <2>1, <2>2, LeftBound, FS_CardinalityType
  <2>4. Cardinality(A) + N <= N
    BY <1>3, <1>9, <1>10, <2>1 DEF TurnedTo
  <2>5. Cardinality(A) = 0
    BY <1>4, <2>3, <2>4
  <2>6. A = {}
    BY <2>3, <2>5, FS_EmptySet
  <2>7. PICK g : g = Head(r.path)
    OBVIOUS
  <2>8. /\ g \in Frames /\ g.oop \in Pointers /\ g.next \in Nat /\ g.next <= SegmentWords
        /\ r.mem.ot[g.oop].class # NilPointer
        /\ g.next <= Len(r.mem.ot[g.oop].field) + 1 /\ g \in ToSet(r.path)
    BY <2>2, <2>7, TopIs
  <2>9. PICK x : x = <<g.oop, g.next>>
    OBVIOUS
  <2>10. x \in Pointers \X (0..SegmentWords) /\ x[1] = g.oop /\ x[2] = g.next
    BY <2>8, <2>9, ConstantsAre
  <2>11. \A h \in ToSet(r.path) : h.oop = g.oop => h = g
    BY <2>2, <2>8 DEF PathOK
  <2>12. x \in A
    BY <2>1, <2>8, <2>10, <2>11 DEF Left
  <2> QED
    BY <2>6, <2>12
<1> QED
  BY <1>3, <1>10, <1>11, <1>12

(* Between walks.                                                            *)
Resting(l, m, e, u, C, Z) ==
  /\ Shape(m, {}) /\ Tiled(m.ot) /\ Lessened(l, m)
  /\ Exact(m.ot, e, u, C) /\ Rooted(m.ot, e, u, C)
  /\ Counted(m.ot, Z)

LEMMA RestingIs ==
  ASSUME NEW l, NEW m, NEW e, NEW u, NEW C, NEW Z
  PROVE  Walking(l, m, <<>>, e, u, C, Z) <=> Resting(l, m, e, u, C, Z)
<1>1. PICK P : P = ToSet(<<>>)
  OBVIOUS
<1>2. PathOK(m.ot, <<>>) /\ On(P) = {} /\ Given(P) = {}
  BY <1>1, EmptyPath
<1>3. C \cup Given(P) = C /\ Z \cup On(P) = Z
  BY <1>2
<1> QED
  BY <1>1, <1>2, <1>3 DEF Walking, Resting

(* A reference that was held elsewhere is given up.                          *)
LEMMA CountDown ==
  ASSUME NEW l, NEW m, NEW e, NEW u, NEW C \in SUBSET Slots, NEW Z, NEW t,
         Resting(l, m, e, u, C, Z), Survivor(l.ot, C, t),
         NEW v \in Pointers \cup {NilPointer},
         v # NilPointer => e[v] >= 1, Minus(e, v)[ActiveContext] >= 1
  PROVE  Resting(l, countDown(m, v), Minus(e, v), u, C, Z)
<1>1. PICK p, r, s, c : p = <<>> /\ r = [mem |-> m, path |-> p] /\ s = Visit(r, v) /\ c = Minus(e, v)
  OBVIOUS
<1>2. Walking(l, m, p, e, u, C, Z)
  BY <1>1, RestingIs
<1>3. Walked(l, m, p, Visit(r, v), Minus(e, v), u, C, Z)
  BY <1>1, <1>2, VisitKeeps
<1>4. Walking(l, s.mem, s.path, c, u, C, Z)
  BY <1>1, <1>3 DEF Walked
<1>5. s = [mem |-> s.mem, path |-> s.path]
  <2>1. CASE v = NilPointer
    BY <1>1, <2>1 DEF Visit
  <2>2. CASE v # NilPointer
    <3>1. \E a, b : s = [mem |-> a, path |-> b]
      BY <1>1, <2>2 DEF Visit
    <3> QED
      BY <3>1
  <2> QED
    BY <2>1, <2>2
<1>6. CASE s.path = <<>>
  <2>1. countDown(m, v) = s.mem
    BY <1>1, <1>6 DEF countDown
  <2>2. Resting(l, s.mem, c, u, C, Z)
    BY <1>4, <1>6, RestingIs
  <2> QED
    BY <1>1, <2>1, <2>2
<1>7. CASE s.path # <<>>
  <2>1. countDown(m, v) = turns(s)[Turns].mem
    BY <1>1, <1>7, Zenon DEF countDown, turns, turning
  <2>2. Walking(l, turns(s)[Turns].mem, <<>>, c, u, C, Z)
    BY <1>4, <1>5, WalkEnds
  <2>3. Resting(l, turns(s)[Turns].mem, c, u, C, Z)
    BY <2>2, RestingIs
  <2> QED
    BY <1>1, <2>1, <2>3
<1> QED
  BY <1>6, <1>7

----------------------------------------------------------------------------
(* storePointer_ofObject_withValue.                                          *)

(* The entry of an object, or of a chunk that is taken, is written.          *)
Refilled(m, n, q, y, K) ==
  /\ Shape(n, K \ {q}) /\ n.ot[q] = y /\ \A o \in Pointers : o # q => n.ot[o] = m.ot[o]
  /\ (Tiled(m.ot) /\ SameExtent(m.ot[q], y) => Tiled(n.ot))
  /\ n.currentSegment = m.currentSegment /\ SameRegisters(m, n)

Refill(m, q, y) == [m EXCEPT !.ot[q] = y]

LEMMA RefillIs ==
  ASSUME NEW m, NEW K, Shape(m, K), NEW q \in Pointers, IsChunk(m.ot[q]) => q \in K,
         ~m.ot[q].free, NEW y, EntryOK(y), ~y.free, ~IsChunk(y)
  PROVE  Refilled(m, Refill(m, q, y), q, y, K)
<1>1. PICK n, ot : n = Refill(m, q, y) /\ ot = [m.ot EXCEPT ![q] = y]
  OBVIOUS
<1>2. /\ m \in Memory /\ m.ot \in [Pointers -> Entry] /\ \A o \in Pointers : EntryOK(m.ot[o])
      /\ ChunksListed(m.ot, m.freeChunks, K) /\ PointersListed(m.ot, m.freePointers)
      /\ m.freeChunks \in Lists
  BY ShapeIs
<1>3. y \in Entry
  BY DEF EntryOK
<1>4. ot \in [Pointers -> Entry] /\ ot[q] = y /\ \A o \in Pointers : o # q => ot[o] = m.ot[o]
  BY <1>1, <1>2, <1>3
<1>5. n = [m EXCEPT !.ot = ot]
  BY <1>1, <1>2 DEF Memory, Refill
<1>6. /\ n \in Memory /\ n.ot = ot /\ n.freeChunks = m.freeChunks /\ n.freePointers = m.freePointers
      /\ n.currentSegment = m.currentSegment /\ SameRegisters(m, n)
  BY <1>2, <1>4, <1>5 DEF Memory, SameRegisters
<1>7. Entries(ot)
  BY <1>2, <1>4 DEF Entries
<1>8. PointersListed(ot, m.freePointers)
  BY <1>2, <1>4 DEF PointersListed
<1>9. ChunksListed(ot, m.freeChunks, K \ {q})
  <2>1. ASSUME NEW s \in 1..Segments, NEW z \in ChunkSizes, NEW o \in ToSet(m.freeChunks[s][z])
        PROVE  o \notin K \ {q} /\ ListedAt(ot[o], s, z)
    <3>1. o \notin K /\ ListedAt(m.ot[o], s, z) /\ o \in Pointers
      BY <1>2, ListedIs, ListIs
    <3>2. o # q
      BY <3>1 DEF ListedAt
    <3> QED
      BY <1>4, <3>1, <3>2
  <2>2. \A o \in Pointers : IsChunk(ot[o]) /\ o \notin K \ {q} => IsChunk(m.ot[o]) /\ o \notin K
    BY <1>4
  <2>3. StillListed(m.ot, ot, m.freeChunks, K, K \ {q})
    BY <2>1, <2>2 DEF StillListed
  <2> QED
    BY <1>2, <2>3, ListsKeep
<1>10. Tiled(m.ot) /\ SameExtent(m.ot[q], y) => Tiled(ot)
  <2>1. SameExtent(m.ot[q], y) => SameExtents(m.ot, ot)
    BY <1>4 DEF SameExtents, SameExtent
  <2> QED
    BY <2>1, StaysTiled
<1> QED
  BY <1>1, <1>4, <1>6, <1>7, <1>8, <1>9, <1>10 DEF Refilled, Shape

(* One field of an object is written.                                        *)
Put(e, i, v) == [e EXCEPT !.field[i] = v]
PutIn(e, y, i, v) ==
  /\ EntryOK(y) /\ ~y.free /\ ~IsChunk(y) /\ SameExtent(e, y)
  /\ y.class = e.class /\ y.count = e.count
  /\ Holds(y, i + 1) = v /\ Len(y.field) = Len(e.field)
  /\ \A j \in 1..SegmentWords : j # i + 1 => Holds(y, j) = Holds(e, j)

LEMMA PutIs ==
  ASSUME NEW e, EntryOK(e), e.class # NilPointer, NEW i \in DOMAIN e.field,
         NEW v \in Pointers \cup {NilPointer}
  PROVE  PutIn(e, Put(e, i, v), i, v)
<1>1. e \in Entry /\ ~e.free /\ e.field \in Seq(Pointers \cup {NilPointer})
  BY EntryIs, FreeEntryIs DEF EntryOK
<1>2. PICK f, g, y : f = e.field /\ g = [f EXCEPT ![i] = v] /\ y = Put(e, i, v)
  OBVIOUS
<1>3. /\ f \in Seq(Pointers \cup {NilPointer}) /\ i \in DOMAIN f /\ DOMAIN f = 1..Len(f)
      /\ Len(f) \in Nat
  BY <1>1, <1>2
<1>4. /\ g \in Seq(Pointers \cup {NilPointer}) /\ Len(g) = Len(f) /\ g[i] = v /\ DOMAIN g = DOMAIN f
      /\ \A j \in DOMAIN f : j # i => g[j] = f[j]
  BY <1>2, <1>3
<1>5. y = [e EXCEPT !.field = g]
  BY <1>1, <1>2 DEF Put, Entry
<1>6. /\ y \in Entry /\ y.field = g /\ y.free = e.free /\ y.count = e.count /\ y.pointer = e.pointer
      /\ y.segment = e.segment /\ y.location = e.location /\ y.size = e.size /\ y.class = e.class
  BY <1>1, <1>4, <1>5 DEF Entry
<1>7. Space(y) = Space(e)
  BY <1>6 DEF Space, spaceOccupiedBy
<1>8. EntryOK(y)
  BY <1>1, <1>2, <1>4, <1>6, <1>7 DEF EntryOK
<1>9. Holds(y, i + 1) = v
  <2>1. i + 1 # 1 /\ (i + 1) - 1 = i
    BY <1>3
  <2> QED
    BY <1>3, <1>4, <1>6, <2>1 DEF Holds
<1>10. ASSUME NEW j \in 1..SegmentWords, j # i + 1 PROVE Holds(y, j) = Holds(e, j)
  <2>1. j - 1 # i
    BY <1>3, <1>10, ConstantsAre
  <2> QED
    BY <1>2, <1>4, <1>6, <2>1 DEF Holds
<1> QED
  BY <1>1, <1>2, <1>4, <1>6, <1>7, <1>8, <1>9, <1>10 DEF PutIn, SameExtent, IsChunk

(* What an operation leaves between others: everything in order, but for the *)
(* references e to what the interpreter holds, and the objects Z whose count *)
(* may be zero.                                                              *)
Settled(m, e, u, Z) ==
  /\ Shape(m, {}) /\ Tiled(m.ot)
  /\ Exact(m.ot, e, u, {}) /\ Rooted(m.ot, e, u, {})
  /\ Counted(m.ot, Z)

Kept(m, n) ==
  /\ n.uncounted = m.uncounted /\ n.failed = m.failed
  /\ n.freeOops - Cardinality(Blank(n.ot)) = m.freeOops - Cardinality(Blank(m.ot))
  /\ \A o \in Pointers : n.ot[o].class # NilPointer =>
        n.ot[o].class = m.ot[o].class /\ Len(n.ot[o].field) = Len(m.ot[o].field)

Stored(m, n, o, i, v, e, u, Z) ==
  /\ Settled(n, e, u, Z \ {v}) /\ Kept(m, n)
  /\ n.ot[o].class # NilPointer /\ Holds(n.ot[o], i + 1) = v

LEMMA Store ==
  ASSUME NEW m, NEW e, NEW u, NEW Z, Settled(m, e, u, Z),
         NEW v \in Pointers \cup {NilPointer}, v # NilPointer => m.ot[v].class # NilPointer,
         NEW o \in Pointers, NEW i \in DOMAIN m.ot[o].field, NEW C, C = {<<o, i + 1>>},
         Survivor(m.ot, C, o)
  PROVE  Stored(m, storePointer(m, o, i, v), o, i, v, e, u, Z)
<1>1. PICK N, up, old, down, n, y, x : N = {} /\ up = countUp(m, v) /\ old = m.ot[o].field[i]
               /\ down = countDown(up, old) /\ y = Put(down.ot[o], i, v) /\ n = Refill(down, o, y)
               /\ x = <<o, i + 1>>
  OBVIOUS
<1>2. /\ Shape(m, N) /\ Tiled(m.ot) /\ Entries(m.ot) /\ Exact(m.ot, e, u, N) /\ Rooted(m.ot, e, u, N)
      /\ Counted(m.ot, Z)
  BY <1>1, ShapeIs DEF Settled
<1>3. e \in [Pointers -> Nat] /\ e[ActiveContext] >= 1
  BY <1>2 DEF Exact, Rooted
<1>4. /\ Recounted(m, up, N) /\ Exact(up.ot, Plus(e, v), u, N)
      /\ \A q \in Pointers : q # v => up.ot[q] = m.ot[q]
      /\ v \in Pointers => up.ot[v].count >= 1
  BY <1>1, <1>2, CountUp
<1>5. /\ EntryOK(m.ot[o]) /\ m.ot[o].class # NilPointer /\ m.ot[o].field \in Seq(Pointers \cup {NilPointer})
      /\ old \in Pointers \cup {NilPointer} /\ i \in Nat /\ i >= 1 /\ i + 1 \in 1..SegmentWords
      /\ Holds(m.ot[o], i + 1) = old
  <2>1. PICK b, f : b = m.ot[o] /\ f = b.field
    OBVIOUS
  <2>2. b \in Entry /\ EntryOK(b)
    BY <1>2, <2>1 DEF Entries
  <2>3. f \in Seq(Pointers \cup {NilPointer}) /\ b.size \in Nat /\ b.size <= SegmentWords
    BY <2>1, <2>2, EntryIs
  <2>4. i \in DOMAIN f /\ i \in Nat /\ i >= 1 /\ i <= Len(f) /\ Len(f) \in Nat /\ f[i] \in Pointers \cup {NilPointer}
    BY <2>1, <2>3
  <2>5. f # <<>>
    BY <2>4
  <2>6. b.class # NilPointer
    BY <2>1, <2>2, <2>5 DEF EntryOK
  <2>7. 2 + Len(f) <= b.size
    BY <2>1, <2>2, <2>6 DEF EntryOK, HeaderSize
  <2>8. PICK s, k : s = b.size /\ k = Len(f)
    OBVIOUS
  <2>9. i + 1 \in 1..SegmentWords
    BY <2>3, <2>4, <2>7, <2>8, ConstantsAre
  <2>10. i + 1 # 1 /\ (i + 1) - 1 = i
    BY <2>4
  <2>11. Holds(b, i + 1) = f[i]
    BY <2>1, <2>4, <2>10 DEF Holds
  <2> QED
    BY <1>1, <2>1, <2>2, <2>3, <2>4, <2>6, <2>9, <2>11
<1>6. x \in Slots /\ x[1] = o /\ x[2] = i + 1 /\ C = {x} /\ C \in SUBSET Slots /\ x \notin Anchors
  BY <1>1, <1>5 DEF Slots, Anchors
<1>7. SameBodies(m.ot, up.ot) /\ Shape(up, N) /\ Tiled(up.ot) /\ Entries(up.ot) /\ Lessened(m, up)
  BY <1>2, <1>4, RecountedLessened, ShapeIs DEF Recounted
<1>8. Holds(up.ot[x[1]], x[2]) = old
  <2>1. SameBody(m.ot[o], up.ot[o])
    BY <1>7 DEF SameBodies
  <2> QED
    BY <1>5, <1>6, <2>1, BodiesExtent
<1>9. PICK c, d : c = Plus(e, v) /\ d = Plus(c, old)
  OBVIOUS
<1>10. /\ c \in [Pointers -> Nat] /\ d \in [Pointers -> Nat] /\ Minus(c, v) = e /\ Minus(d, old) = c
       /\ c[ActiveContext] >= 1 /\ d[ActiveContext] >= 1
       /\ (v \in Pointers => c[v] >= 1) /\ (old \in Pointers => d[old] >= 1)
  <2>1. c \in [Pointers -> Nat] /\ d \in [Pointers -> Nat] /\ Minus(c, v) = e /\ Minus(d, old) = c
    BY <1>3, <1>9, PlusIs
  <2>2. ASSUME NEW q \in Pointers PROVE c[q] >= e[q] /\ d[q] >= c[q] /\ (q = v => c[q] >= 1) /\ (q = old => d[q] >= 1)
    <3>1. c[q] = (IF q = v THEN e[q] + 1 ELSE e[q]) /\ d[q] = (IF q = old THEN c[q] + 1 ELSE c[q])
      BY <1>9 DEF Plus
    <3>2. e[q] \in Nat /\ c[q] \in Nat /\ d[q] \in Nat
      BY <1>3, <2>1
    <3> QED
      BY <3>1, <3>2
  <2>3. c[ActiveContext] >= 1 /\ d[ActiveContext] >= 1
    <3>1. PICK a, b, k : a = e[ActiveContext] /\ b = c[ActiveContext] /\ k = d[ActiveContext]
      OBVIOUS
    <3>2. a \in Nat /\ b \in Nat /\ k \in Nat /\ a >= 1 /\ b >= a /\ k >= b
      BY <1>3, <2>1, <2>2, <3>1, ConstantsAre
    <3>3. b >= 1 /\ k >= 1
      BY <3>2
    <3> QED
      BY <3>1, <3>3
  <2> QED
    BY <2>1, <2>2, <2>3
<1>11. Exact(up.ot, d, u, C)
  <2>1. x \notin N /\ C = N \cup {x} /\ old = Holds(up.ot[x[1]], x[2])
    BY <1>1, <1>6, <1>8
  <2>2. Exact(up.ot, c, u, N)
    BY <1>4, <1>9
  <2> QED
    BY <1>6, <1>9, <2>1, <2>2, SetAside
<1>12. Anchored(up.ot)
  BY <1>2, <1>7, ConstantsAre DEF Rooted, Anchored, SameBodies, SameBody
<1>13. Counted(up.ot, Z \ {v})
  <2>1. ASSUME NEW q \in Pointers, up.ot[q].class # NilPointer, up.ot[q].count = 0 PROVE q \in Z \ {v}
    <3>1. q # v
      BY <1>4, <2>1
    <3>2. up.ot[q] = m.ot[q]
      BY <1>4, <3>1
    <3> QED
      BY <1>2, <2>1, <3>1, <3>2 DEF Counted
  <2> QED
    BY <2>1 DEF Counted
<1>14. Resting(m, up, d, u, C, Z \ {v})
  <2>1. Rooted(up.ot, d, u, C)
    BY <1>2, <1>6, <1>10, <1>12 DEF Rooted
  <2> QED
    BY <1>1, <1>7, <1>11, <1>13, <2>1 DEF Resting
<1>15. Resting(m, down, c, u, C, Z \ {v})
  <2>1. old # NilPointer => d[old] >= 1
    BY <1>5, <1>10
  <2>2. Resting(m, countDown(up, old), Minus(d, old), u, C, Z \ {v})
    BY <1>5, <1>6, <1>10, <1>14, <2>1, CountDown
  <2> QED
    BY <1>1, <1>10, <2>2
<1>16. /\ Shape(down, {}) /\ Tiled(down.ot) /\ Lessened(m, down) /\ Exact(down.ot, c, u, C)
       /\ Rooted(down.ot, c, u, C) /\ Counted(down.ot, Z \ {v}) /\ Entries(down.ot)
  BY <1>15, ShapeIs DEF Resting
<1>17. down.ot[o].class # NilPointer
  <2>1. PICK G : G = {}
    OBVIOUS
  <2>2. C = C \cup G /\ \A g \in G : down.ot[g[1]].count = 0
    BY <2>1
  <2>3. \A q \in Pointers : Remains(m.ot[q], down.ot[q])
    BY <1>16 DEF Lessened
  <2> QED
    BY <1>16, <2>2, <2>3, Survives
<1>18. down.ot[o].field = m.ot[o].field /\ EntryOK(down.ot[o]) /\ i \in DOMAIN down.ot[o].field
  BY <1>16, <1>17 DEF Lessened, Remains, Entries
<1>19. PutIn(down.ot[o], y, i, v)
  BY <1>1, <1>17, <1>18, PutIs
<1>20. Refilled(down, n, o, y, N)
  <2>1. ~IsChunk(down.ot[o]) /\ ~down.ot[o].free /\ Shape(down, N)
    BY <1>1, <1>16, <1>17, <1>18, FreeEntryIs DEF IsChunk, EntryOK
  <2> QED
    BY <1>1, <1>19, <2>1, RefillIs DEF PutIn
<1>21. n = storePointer(m, o, i, v)
  <2>1. down \in Memory /\ down.ot \in [Pointers -> Entry]
    BY <1>16, ShapeIs
  <2>2. [down EXCEPT !.ot[o].field[i] = v] = [down EXCEPT !.ot[o] = [down.ot[o] EXCEPT !.field[i] = v]]
    BY <2>1
  <2> QED
    BY <1>1, <2>2 DEF storePointer, Refill, Put
<1>22. /\ Shape(n, {}) /\ Tiled(n.ot) /\ n.ot[o] = y /\ \A q \in Pointers : q # o => n.ot[q] = down.ot[q]
       /\ SameRegisters(down, n) /\ n.currentSegment = down.currentSegment
  <2>1. N \ {o} = {}
    BY <1>1
  <2> QED
    BY <1>16, <1>19, <1>20, <2>1 DEF Refilled, PutIn
<1>23. y.class = down.ot[o].class /\ y.count = down.ot[o].count /\ Holds(y, i + 1) = v
       /\ Len(y.field) = Len(down.ot[o].field)
       /\ \A j \in 1..SegmentWords : j # i + 1 => Holds(y, j) = Holds(down.ot[o], j)
  BY <1>19 DEF PutIn
<1>24. Exact(n.ot, c, u, C)
  <2>1. SameRefs(down.ot, C, n.ot, C)
    <3>1. ASSUME NEW z \in Slots, z \notin C PROVE Holds(n.ot[z[1]], z[2]) = Holds(down.ot[z[1]], z[2])
      <4>1. z[1] \in Pointers /\ z[2] \in 1..SegmentWords /\ z = <<z[1], z[2]>>
        BY DEF Slots
      <4>2. CASE z[1] # o
        BY <1>22, <4>1, <4>2
      <4>3. CASE z[1] = o
        <5>1. z[2] # i + 1
          BY <1>1, <1>6, <3>1, <4>1, <4>3
        <5> QED
          BY <1>22, <1>23, <4>1, <4>3, <5>1
      <4> QED
        BY <4>2, <4>3
    <3> QED
      BY <3>1 DEF SameRefs
  <2>2. \A q \in Pointers : n.ot[q].count = down.ot[q].count
    BY <1>22, <1>23
  <2> QED
    BY <1>6, <1>16, <2>1, <2>2, StaysExact
<1>25. Exact(n.ot, e, u, {})
  <2>1. v = Holds(n.ot[x[1]], x[2]) /\ x \in C /\ N = C \ {x}
    BY <1>1, <1>6, <1>22, <1>23
  <2>2. Exact(n.ot, Minus(c, v), u, N)
    BY <1>10, <1>24, <2>1, PutBack
  <2> QED
    BY <1>1, <1>10, <2>2
<1>26. Rooted(n.ot, e, u, {})
  <2>1. Anchored(n.ot)
    BY <1>16, <1>22, <1>23, ConstantsAre DEF Rooted, Anchored
  <2> QED
    BY <1>2, <1>3, <2>1 DEF Rooted
<1>27. Counted(n.ot, Z \ {v})
  BY <1>16, <1>22, <1>23 DEF Counted
<1>28. Kept(m, n)
  <2>1. Blank(n.ot) = Blank(down.ot)
    BY <1>22, <1>23 DEF Blank
  <2>2. ASSUME NEW q \in Pointers, n.ot[q].class # NilPointer
        PROVE  n.ot[q].class = m.ot[q].class /\ Len(n.ot[q].field) = Len(m.ot[q].field)
    <3>1. Remains(m.ot[q], down.ot[q])
      BY <1>16 DEF Lessened
    <3>2. n.ot[q].class = down.ot[q].class /\ Len(n.ot[q].field) = Len(down.ot[q].field)
      BY <1>22, <1>23
    <3> QED
      BY <2>2, <3>1, <3>2 DEF Remains
  <2> QED
    BY <1>16, <1>22, <2>1, <2>2 DEF Kept, Lessened, SameRegisters
<1> QED
  BY <1>17, <1>21, <1>22, <1>23, <1>25, <1>26, <1>27, <1>28 DEF Stored, Settled

----------------------------------------------------------------------------
(* The collector: the counts of an object's pointers.                        *)

LEMMA PointersOf ==
  ASSUME NEW e, EntryOK(e), e.class # NilPointer
  PROVE  /\ Len(PointersIn(e)) = Len(e.field) + 1
         /\ Len(PointersIn(e)) \in 1..SegmentWords
         /\ DOMAIN PointersIn(e) = 1..Len(PointersIn(e))
         /\ \A k \in 1..Len(PointersIn(e)) : PointersIn(e)[k] = Holds(e, k)
         /\ \A k \in 1..SegmentWords : k > Len(PointersIn(e)) => Holds(e, k) = NilPointer
<1>1. e \in Entry
  BY DEF EntryOK
<1>2. PICK s, c, a, b : s = e.field /\ c = e.class /\ a = Len(e.field) /\ b = e.size
  OBVIOUS
<1>3. s \in Seq(Pointers \cup {NilPointer}) /\ a \in Nat /\ b \in Nat /\ b <= SegmentWords /\ 2 + a <= b
      /\ c \in Pointers \cup {NilPointer} /\ a = Len(s)
  <2>1. 2 + Len(e.field) <= e.size
    BY DEF EntryOK, HeaderSize
  <2> QED
    BY <1>1, <1>2, <2>1, EntryIs
<1>4. PICK t : t = <<c>> \o s
  OBVIOUS
<1>5. /\ t \in Seq(Pointers \cup {NilPointer}) /\ Len(t) = a + 1 /\ DOMAIN t = 1..Len(t) /\ t[1] = c
      /\ \A i \in 1..a : t[i + 1] = s[i]
  BY <1>3, <1>4
<1>6. PointersIn(e) = t
  BY <1>2, <1>4 DEF PointersIn
<1>7. a + 1 \in 1..SegmentWords
  BY <1>3, ConstantsAre
<1>8. ASSUME NEW k \in 1..a + 1 PROVE t[k] = Holds(e, k)
  <2>1. CASE k = 1
    BY <1>2, <1>5, <2>1 DEF Holds
  <2>2. CASE k # 1
    <3>1. k - 1 \in 1..a /\ (k - 1) + 1 = k /\ k - 1 \in DOMAIN s
      BY <1>3, <2>2
    <3>2. t[(k - 1) + 1] = s[k - 1]
      BY <1>5, <3>1
    <3> QED
      BY <1>2, <2>2, <3>1, <3>2 DEF Holds
  <2> QED
    BY <2>1, <2>2
<1>9. ASSUME NEW k \in 1..SegmentWords, k > a + 1 PROVE Holds(e, k) = NilPointer
  <2>1. k # 1 /\ k - 1 \notin DOMAIN s
    BY <1>3, <1>9, ConstantsAre
  <2> QED
    BY <1>2, <2>1 DEF Holds
<1> QED
  BY <1>2, <1>5, <1>6, <1>7, <1>8, <1>9

counting(m, pointers, f) ==
  [n \in 0..Len(pointers) |-> IF n = 0 THEN m ELSE countUp(f[n - 1], pointers[n])]
counted(m, pointers) == CHOOSE f : f = counting(m, pointers, f)

LEMMA Counting ==
  ASSUME NEW m, NEW pointers, Len(pointers) \in Nat
  PROVE  counted(m, pointers) = counting(m, pointers, counted(m, pointers))
<1> DEFINE N == Len(pointers)
           step(f, i) == IF i = 0 THEN m ELSE countUp(f[i - 1], pointers[i])
           E == {k \in Nat : \E f : f = [i \in 0..k |-> step(f, i)]}
<1>1. 0 \in E
  <2>1. [i \in 0..0 |-> m] = [i \in 0..0 |-> step([j \in 0..0 |-> m], i)]
    OBVIOUS
  <2> QED
    BY <2>1
<1>2. ASSUME NEW k \in 0..N - 1, k \in E PROVE k + 1 \in E
  <2>1. PICK f : f = [i \in 0..k |-> step(f, i)]
    BY <1>2
  <2> DEFINE g == [i \in 0..k + 1 |-> step(f, i)]
  <2>2. k \in Nat /\ k + 1 \in Nat
    OBVIOUS
  <2>3. \A i \in 0..k : g[i] = f[i]
    <3> HIDE DEF step
    <3> QED
      BY <2>1, <2>2
  <2>4. \A i \in 0..k + 1 : step(f, i) = step(g, i)
    <3> HIDE DEF g
    <3> QED
      BY <2>2, <2>3
  <2>5. g = [i \in 0..k + 1 |-> step(g, i)]
    <3>1. g = [i \in 0..k + 1 |-> g[i]]
      BY Zenon
    <3>2. \A i \in 0..k + 1 : g[i] = step(f, i)
      BY Zenon
    <3> HIDE DEF g, step
    <3> QED
      BY <2>4, <3>1, <3>2
  <2> HIDE DEF g, step
  <2> QED
    BY <2>2, <2>5
<1>3. N \in E
  <2> HIDE DEF E, N
  <2>1. N \in Nat
    BY DEF N
  <2>2. 0..N \subseteq E
    BY <1>1, <1>2, <2>1, InductionTo
  <2> QED
    BY <2>1, <2>2
<1>4. PICK f : f = counting(m, pointers, f)
  BY <1>3, Zenon DEF counting
<1> QED
  BY <1>4, Zenon DEF counted

SlotsOf(p) == {x \in Slots : x[1] = p}
SlotsTo(p, n) == {x \in Slots : x[1] = p /\ x[2] <= n}

(* Only members of R are counted up.                                         *)
CountedTo(x, y, p, e, D, K, R, n) ==
  /\ Recounted(x, y, K)
  /\ Exact(y.ot, e, NilPointer, D \ SlotsTo(p, n))
  /\ \A q \in Pointers \ R : y.ot[q] = x.ot[q]

InR(s, R) == \A k \in 1..Len(s) : s[k] \in R \cup {NilPointer}
AllObjects(ot, R) == R \in SUBSET Pointers /\ \A r \in R : ot[r].class # NilPointer
CountedAll(x, y, e, F, K, R) ==
  /\ Recounted(x, y, K) /\ Exact(y.ot, e, NilPointer, F)
  /\ \A q \in Pointers \ R : y.ot[q] = x.ot[q]

LEMMA CountPointers ==
  ASSUME NEW x, NEW K, Shape(x, K), NEW e, NEW D, Exact(x.ot, e, NilPointer, D),
         NEW p \in Pointers, x.ot[p].class # NilPointer, SlotsOf(p) \subseteq D,
         NEW R, AllObjects(x.ot, R), NEW s, s = PointersIn(x.ot[p]), InR(s, R),
         NEW F, F = D \ SlotsOf(p)
  PROVE  CountedAll(x, countUpAll(x, s), e, F, K, R)
<1> R \in SUBSET Pointers /\ \A r \in R : x.ot[r].class # NilPointer
  BY DEF AllObjects
<1> \A k \in 1..Len(s) : s[k] \in R \cup {NilPointer}
  BY DEF InR
<1>1. PICK f, N, b : f = counted(x, s) /\ N = Len(s) /\ b = x.ot[p]
  OBVIOUS
<1>2. /\ EntryOK(b) /\ N \in 1..SegmentWords
      /\ \A k \in 1..N : s[k] = Holds(b, k)
      /\ \A k \in 1..SegmentWords : k > N => Holds(b, k) = NilPointer
  <2>1. EntryOK(b) /\ b.class # NilPointer
    BY <1>1, ShapeIs
  <2> QED
    BY <1>1, <2>1, PointersOf
<1>3. N \in Nat /\ N <= SegmentWords /\ SegmentWords \in Nat
  BY <1>2, ConstantsAre
<1>4. f = counting(x, s, f)
  BY <1>1, <1>3, Counting
<1>5. \A i \in 0..N : f[i] = IF i = 0 THEN x ELSE countUp(f[i - 1], s[i])
  BY <1>1, <1>4 DEF counting
<1>6. e \in [Pointers -> Nat] /\ D \in SUBSET Slots
  BY DEF Exact
<1> DEFINE E == {i \in Nat : CountedTo(x, f[i], p, e, D, K, R, i)}
<1>7. 0 \in E
  <2>1. f[0] = x
    BY <1>3, <1>5
  <2>2. SlotsTo(p, 0) = {}
    <3>1. \A z \in Slots : z[2] \in Nat /\ z[2] >= 1
      BY DEF Slots
    <3>2. \A z \in Slots : ~(z[2] <= 0)
      BY <3>1
    <3> QED
      BY <3>2 DEF SlotsTo
  <2>3. D \ SlotsTo(p, 0) = D
    BY <2>2
  <2>4. CountedTo(x, x, p, e, D, K, R, 0)
    BY <2>3, RecountedRefl DEF CountedTo
  <2> QED
    BY <2>1, <2>4
<1>8. ASSUME NEW k \in 0..N - 1, k \in E PROVE k + 1 \in E
  <2>1. PICK i, y, v, n, A, B, z : i = k + 1 /\ y = f[k] /\ v = s[i] /\ n = countUp(y, v)
                              /\ A = D \ SlotsTo(p, k) /\ B = D \ SlotsTo(p, i) /\ z = <<p, i>>
    OBVIOUS
  <2>2. k \in Nat /\ i \in 1..N /\ i \in 0..N /\ i # 0 /\ i - 1 = k /\ i \in 1..SegmentWords
    BY <1>3, <2>1
  <2>3. f[i] = n
    BY <1>5, <2>1, <2>2
  <2>4. /\ Recounted(x, y, K) /\ Exact(y.ot, e, NilPointer, A)
        /\ \A q \in Pointers \ R : y.ot[q] = x.ot[q]
    BY <1>8, <2>1 DEF CountedTo
  <2>5. Shape(y, K) /\ SameBodies(x.ot, y.ot)
    BY <2>4 DEF Recounted
  <2>6. v \in R \cup {NilPointer} /\ v = Holds(b, i)
    BY <1>1, <1>2, <2>1, <2>2
  <2>7. v \in Pointers \cup {NilPointer} /\ (v # NilPointer => y.ot[v].class # NilPointer)
    BY <2>5, <2>6 DEF SameBodies, SameBody
  <2>8. /\ Recounted(y, n, K) /\ Exact(n.ot, Plus(e, v), NilPointer, A)
        /\ \A q \in Pointers : q # v => n.ot[q] = y.ot[q]
    <3>1. Shape(y, K) /\ Exact(y.ot, e, NilPointer, A)
      BY <2>4, <2>5
    <3>2. /\ Recounted(y, countUp(y, v), K) /\ Exact(countUp(y, v).ot, Plus(e, v), NilPointer, A)
          /\ \A q \in Pointers : q # v => countUp(y, v).ot[q] = y.ot[q]
      BY <2>7, <3>1, CountUp
    <3> QED
      BY <2>1, <3>2
  <2>9. Recounted(x, n, K)
    BY <2>4, <2>8, RecountedTrans
  <2>10. SameBodies(x.ot, n.ot)
    BY <2>9 DEF Recounted
  <2>11. z \in Slots /\ z[1] = p /\ z[2] = i
    BY <2>1, <2>2 DEF Slots
  <2>12. v = Holds(n.ot[z[1]], z[2])
    <3>1. SameBody(x.ot[p], n.ot[p])
      BY <2>10 DEF SameBodies
    <3> QED
      BY <1>1, <2>6, <2>11, <3>1, BodiesExtent
  <2>13. z \in A
    <3>1. z \in D
      BY <2>11 DEF SlotsOf
    <3>2. ~(i <= k)
      BY <2>1, <2>2
    <3> QED
      BY <2>1, <2>11, <3>1, <3>2 DEF SlotsTo
  <2>14. B = A \ {z}
    <3>1. ASSUME NEW w \in Slots PROVE w \in SlotsTo(p, i) <=> w \in SlotsTo(p, k) \/ w = z
      <4>1. PICK j : j = w[2]
        OBVIOUS
      <4>2. j \in Nat /\ w = <<w[1], w[2]>>
        BY <4>1 DEF Slots
      <4>3. j <= i <=> j <= k \/ j = i
        BY <2>1, <2>2, <4>2
      <4> QED
        BY <2>1, <2>11, <4>1, <4>2, <4>3 DEF SlotsTo
    <3> QED
      BY <1>6, <2>1, <3>1
  <2>15. Minus(Plus(e, v), v) = e /\ (v \in Pointers => Plus(e, v)[v] >= 1)
    <3>1. v \in Pointers => Plus(e, v)[v] >= 1
      <4>1. ASSUME v \in Pointers PROVE Plus(e, v)[v] >= 1
        <5>1. e[v] \in Nat /\ Plus(e, v)[v] = e[v] + 1
          BY <1>6, <4>1 DEF Plus
        <5> QED
          BY <5>1
      <4> QED
        BY <4>1
    <3> QED
      BY <1>6, <3>1, PlusIs
  <2>16. PICK c : c = Plus(e, v)
    OBVIOUS
  <2>17. Exact(n.ot, Minus(c, v), NilPointer, B)
    <3>1. Exact(n.ot, c, NilPointer, A) /\ (v \in Pointers => c[v] >= 1)
      BY <2>8, <2>15, <2>16
    <3> QED
      BY <2>12, <2>13, <2>14, <3>1, PutBack
  <2>18. \A q \in Pointers \ R : n.ot[q] = x.ot[q]
    BY <2>4, <2>6, <2>8, ConstantsAre
  <2>19. CountedTo(x, n, p, e, D, K, R, i)
    BY <2>1, <2>9, <2>15, <2>16, <2>17, <2>18 DEF CountedTo
  <2> QED
    BY <2>1, <2>2, <2>3, <2>19
<1>9. PICK y : y = f[N]
  OBVIOUS
<1>10. CountedTo(x, y, p, e, D, K, R, N)
  <2> HIDE DEF E
  <2>1. 0..N \subseteq E
    BY <1>3, <1>7, <1>8, InductionTo
  <2>2. N \in E
    BY <1>3, <2>1
  <2> QED
    BY <1>9, <2>2 DEF E
<1>11. countUpAll(x, s) = y
  BY <1>1, <1>9, Zenon DEF countUpAll, counted, counting
<1>12. SameBodies(x.ot, y.ot) /\ Exact(y.ot, e, NilPointer, D \ SlotsTo(p, N))
  BY <1>10 DEF CountedTo, Recounted
<1>13. SameRefs(y.ot, D \ SlotsTo(p, N), y.ot, F)
  <2>1. ASSUME NEW z \in Slots, z \in SlotsOf(p), z \notin SlotsTo(p, N)
        PROVE  Holds(y.ot[z[1]], z[2]) = NilPointer
    <3>1. PICK j : j = z[2]
      OBVIOUS
    <3>2. j \in 1..SegmentWords /\ z[1] = p /\ ~(j <= N)
      BY <2>1, <3>1 DEF Slots, SlotsOf, SlotsTo
    <3>3. j > N
      BY <1>3, <3>2
    <3>4. SameBody(x.ot[p], y.ot[p])
      BY <1>12 DEF SameBodies
    <3>5. Holds(b, j) = NilPointer
      BY <1>2, <3>2, <3>3
    <3> QED
      BY <1>1, <3>1, <3>2, <3>4, <3>5, BodiesExtent
  <2>2. SlotsTo(p, N) \subseteq SlotsOf(p)
    BY DEF SlotsTo, SlotsOf
  <2>3. NilPointer \notin Pointers
    BY ConstantsAre
  <2> QED
    BY <2>1, <2>2, <2>3 DEF SameRefs
<1>14. Exact(y.ot, e, NilPointer, F)
  <2>1. F \in SUBSET Slots
    BY <1>6
  <2> QED
    BY <1>12, <1>13, <2>1, StaysExact
<1> QED
  BY <1>10, <1>11, <1>14 DEF CountedTo, CountedAll

(* What the collector starts from: what it marks are objects that refer to   *)
(* each other only, and no free chunk grows.                                 *)
Collectable(m, R) ==
  /\ Shape(m, {}) /\ Tiled(m.ot)
  /\ Roots \subseteq R /\ R \subseteq Pointers
  /\ \A r \in R : m.ot[r].class # NilPointer
  /\ \A r \in R, j \in 1..SegmentWords : Holds(m.ot[r], j) \in R \cup {NilPointer}
  /\ \A o \in Pointers : IsChunk(m.ot[o]) => Plain(m.ot[o])

(* The entries of T are still to be rectified.                               *)
Marks(R, T) == [p \in Pointers |-> IF p \in R /\ p \in T THEN 1 ELSE 0]
SlotsIn(T) == {x \in Slots : x[1] \in T}
ChunksIn(ot, T) == {p \in T : IsChunk(ot[p])}

Rectifying(m, x, R, T) ==
  /\ Shape(x, ChunksIn(m.ot, T)) /\ Tiled(x.ot)
  /\ Exact(x.ot, Marks(R, T), NilPointer, SlotsIn(T))
  /\ \A p \in R \cup T : SameBody(m.ot[p], x.ot[p])
  /\ \A p \in Pointers \ R : x.ot[p].count = 0 /\ (p \notin T => x.ot[p].class = NilPointer)
  /\ x.failed = m.failed /\ x.currentSegment = m.currentSegment

NoLists == [seg \in 1..Segments |-> [size \in ChunkSizes |-> <<>>]]
Unlisted(m) == [m EXCEPT !.freeChunks = NoLists]

LEMMA RectifyingStarts ==
  ASSUME NEW m, NEW R, Collectable(m, R), NEW x, x = Unlisted(MarkedFrom(m, R)), NEW T, T = Pointers
  PROVE  Rectifying(m, x, R, T)
<1>1. PICK ot : ot = [o \in Pointers |-> [m.ot[o] EXCEPT !.count = IF o \in R THEN 1 ELSE 0]]
  OBVIOUS
<1>2. /\ m \in Memory /\ m.ot \in [Pointers -> Entry] /\ \A o \in Pointers : EntryOK(m.ot[o])
      /\ PointersListed(m.ot, m.freePointers)
  BY ShapeIs DEF Collectable
<1>3. x = [m EXCEPT !.ot = ot, !.freeChunks = NoLists]
  BY <1>1, <1>2 DEF Unlisted, MarkedFrom, Memory
<1>4. ASSUME NEW o \in Pointers
      PROVE  /\ ot[o] \in Entry /\ SameBody(m.ot[o], ot[o]) /\ EntryOK(ot[o])
             /\ ot[o].count = IF o \in R THEN 1 ELSE 0
  <2>1. PICK c, e, y : c = (IF o \in R THEN 1 ELSE 0) /\ e = m.ot[o] /\ y = [e EXCEPT !.count = c]
    OBVIOUS
  <2>2. c \in 0..StickyCount /\ e \in Entry /\ EntryOK(e)
    BY <1>2, <2>1, ConstantsAre
  <2>3. ot[o] = y
    BY <1>1, <2>1
  <2>4. y \in Entry /\ y.count = c /\ SameBody(e, y)
    BY <2>1, <2>2 DEF Entry, SameBody
  <2>5. e.class = NilPointer => c = 0
    BY <2>1 DEF Collectable
  <2>6. Space(y) = Space(e)
    BY <2>4, BodiesExtent
  <2>7. e.free => y = FreeEntry
    <3>1. ASSUME e.free PROVE y = FreeEntry
      <4>1. e = FreeEntry /\ c = 0
        BY <2>2, <2>5, <3>1, FreeEntryIs DEF EntryOK
      <4>2. y = [FreeEntry EXCEPT !.count = 0]
        BY <2>1, <4>1
      <4> QED
        BY <4>2 DEF FreeEntry
    <3> QED
      BY <3>1
  <2>8. EntryOK(y)
    BY <2>2, <2>4, <2>5, <2>6, <2>7 DEF EntryOK, SameBody
  <2> QED
    BY <2>1, <2>3, <2>4, <2>8
<1>5. ot \in [Pointers -> Entry] /\ Entries(ot)
  BY <1>1, <1>4 DEF Entries
<1>6. NoLists \in Lists
  BY EmptyIs DEF NoLists, Lists
<1>7. /\ x \in Memory /\ x.ot = ot /\ x.freeChunks = NoLists /\ x.freePointers = m.freePointers
      /\ x.currentSegment = m.currentSegment /\ x.failed = m.failed
  BY <1>2, <1>3, <1>5, <1>6 DEF Memory, Lists
<1>8. PointersListed(ot, m.freePointers)
  BY <1>2, <1>4 DEF PointersListed, SameBody
<1>9. ChunksListed(ot, NoLists, ChunksIn(m.ot, T))
  <2>1. \A seg \in 1..Segments, size \in ChunkSizes : NoLists[seg][size] = <<>>
    BY DEF NoLists
  <2>2. ToSet(<<>>) = {} /\ IsInjective(<<>>)
    BY EmptyIs
  <2>3. \A seg \in 1..Segments, size \in ChunkSizes : ToSet(NoLists[seg][size]) = {} /\ IsInjective(NoLists[seg][size])
    BY <2>1, <2>2
  <2>4. \A o \in Pointers : IsChunk(ot[o]) => o \in ChunksIn(m.ot, T)
    BY <1>4 DEF ChunksIn, SameBody, IsChunk
  <2> QED
    BY <2>3, <2>4 DEF ChunksListed, ListSound
<1>10. Shape(x, ChunksIn(m.ot, T))
  BY <1>5, <1>7, <1>8, <1>9 DEF Shape
<1>11. Tiled(ot)
  <2>1. SameExtents(m.ot, ot)
    BY <1>4, BodiesExtent DEF SameExtents
  <2> QED
    BY <2>1, StaysTiled DEF Collectable
<1>12. Exact(ot, Marks(R, T), NilPointer, SlotsIn(T))
  <2>1. SlotsIn(T) = Slots
    BY DEF SlotsIn, Slots
  <2>2. Marks(R, T) \in [Pointers -> Nat]
    BY DEF Marks
  <2>3. ASSUME NEW o \in Pointers PROVE CountOK(ot, Marks(R, T), NilPointer, SlotsIn(T), o)
    <3>1. PICK N : N = Refs(ot, SlotsIn(T), o)
      OBVIOUS
    <3>2. N = {}
      BY <2>1, <3>1 DEF Refs
    <3>3. Cardinality(N) = 0
      BY <3>2, FS_EmptySet
    <3>4. Extra(NilPointer, o) = 0
      BY ConstantsAre DEF Extra
    <3>5. Marks(R, T)[o] = IF o \in R THEN 1 ELSE 0
      BY DEF Marks
    <3>6. PICK c, k : c = ot[o].count /\ k = Marks(R, T)[o]
      OBVIOUS
    <3>7. c \in Nat /\ k = c
      BY <1>4, <3>5, <3>6
    <3>8. c + 0 = 0 + k
      BY <3>7
    <3> QED
      BY <3>1, <3>3, <3>4, <3>6, <3>8 DEF CountOK
  <2> QED
    BY <2>1, <2>2, <2>3 DEF Exact
<1> QED
  BY <1>4, <1>7, <1>10, <1>11, <1>12 DEF Rectifying, Collectable

(* A free entry.                                                             *)
LEMMA RectifyFree ==
  ASSUME NEW m, NEW R, Collectable(m, R), NEW x, NEW T \in SUBSET Pointers, Rectifying(m, x, R, T),
         NEW o \in T, NEW U, U = T \ {o}, x.ot[o].free
  PROVE  Rectifying(m, x, R, U)
<1>1. SameBody(m.ot[o], x.ot[o]) /\ o \in Pointers
  BY DEF Rectifying
<1>2. m.ot[o].free /\ EntryOK(m.ot[o])
  BY <1>1, ShapeIs DEF SameBody, Collectable
<1>3. m.ot[o].class = NilPointer /\ m.ot[o].field = <<>> /\ x.ot[o].class = NilPointer /\ x.ot[o].field = <<>>
  BY <1>1, <1>2, FreeEntryIs DEF EntryOK, SameBody
<1>4. o \notin R
  BY <1>3 DEF Collectable
<1>5. Marks(R, U) = Marks(R, T)
  BY <1>4 DEF Marks
<1>6. ChunksIn(m.ot, U) = ChunksIn(m.ot, T)
  BY <1>2 DEF ChunksIn, IsChunk
<1>7. SameRefs(x.ot, SlotsIn(T), x.ot, SlotsIn(U))
  <2>1. DOMAIN <<>> = {}
    OBVIOUS
  <2>2. \A j : Holds(x.ot[o], j) = NilPointer
    BY <1>3, <2>1 DEF Holds
  <2> QED
    BY <2>2, ConstantsAre DEF SameRefs, SlotsIn
<1>8. SlotsIn(U) \in SUBSET Slots
  BY DEF SlotsIn
<1>9. Exact(x.ot, Marks(R, U), NilPointer, SlotsIn(U))
  BY <1>5, <1>7, <1>8, StaysExact DEF Rectifying
<1> QED
  BY <1>3, <1>6, <1>9 DEF Rectifying

(* A free chunk, or garbage.                                                 *)
Swept2(x, o) == [deallocate(x, o) EXCEPT !.freeWords = @ + spaceOccupiedBy(x.ot[o])]

LEMMA RectifyGarbage ==
  ASSUME NEW m, NEW R, Collectable(m, R), NEW x, NEW T \in SUBSET Pointers, Rectifying(m, x, R, T),
         NEW o \in T, NEW U, U = T \ {o}, ~x.ot[o].free, o \notin R, NEW y, y = Swept2(x, o)
  PROVE  Rectifying(m, y, R, U)
<1>1. PICK K, d, n, b : K = ChunksIn(m.ot, T) /\ d = deallocate(x, o) /\ n = y /\ b = x.ot[o]
  OBVIOUS
<1>2. /\ Shape(x, K) /\ Tiled(x.ot) /\ SameBody(m.ot[o], b) /\ b.count = 0 /\ o \in Pointers /\ EntryOK(b)
      /\ b \in Entry
  BY <1>1, ShapeIs DEF Rectifying, EntryOK
<1>3. Discardable(b)
  <2>1. spaceOccupiedBy(b) = Space(b)
    <3>1. CASE b.class # NilPointer
      BY <3>1 DEF Space
    <3>2. CASE b.class = NilPointer
      <4>1. IsChunk(m.ot[o])
        BY <1>1, <1>2, <3>2 DEF IsChunk, SameBody
      <4>2. Plain(m.ot[o])
        BY <1>2, <4>1 DEF Collectable
      <4> QED
        BY <1>2, <3>2, <4>2 DEF Plain, Space, spaceOccupiedBy, SameBody
    <3> QED
      BY <3>1, <3>2
  <2> QED
    BY <1>1, <1>2, <2>1 DEF Discardable
<1>4. IsChunk(b) => o \in K
  BY <1>1, <1>2 DEF IsChunk, SameBody, ChunksIn
<1>5. Deallocated(x, d, o, K)
  BY <1>1, <1>2, <1>3, <1>4, Deallocate
<1>6. /\ Shape(d, K \ {o}) /\ Tiled(d.ot) /\ EmptiedFrom(b, d.ot[o])
      /\ \A p \in Pointers : p # o => d.ot[p] = x.ot[p]
      /\ d.currentSegment = x.currentSegment /\ d.failed = x.failed
      /\ d \in Memory /\ d.freeWords \in Int
  BY <1>1, <1>2, <1>5, ShapeIs, MemoryIs DEF Deallocated, SameRegisters
<1>7. PICK w : w = d.freeWords + spaceOccupiedBy(b)
  OBVIOUS
<1>8. w \in Int
  <2>1. spaceOccupiedBy(b) \in Nat
    BY <1>2, EntryIs
  <2>2. PICK i, j : i = d.freeWords /\ j = spaceOccupiedBy(b)
    OBVIOUS
  <2>3. i \in Int /\ j \in Int
    BY <1>6, <2>1, <2>2
  <2>4. i + j \in Int
    BY <2>3
  <2> QED
    BY <1>7, <2>2, <2>4
<1>9. n = [d EXCEPT !.freeWords = w]
  BY <1>1, <1>7 DEF Swept2
<1>10. /\ n \in Memory /\ n.ot = d.ot /\ n.freeChunks = d.freeChunks /\ n.freePointers = d.freePointers
       /\ n.currentSegment = d.currentSegment /\ n.failed = d.failed
  BY <1>6, <1>8, <1>9 DEF Memory
<1>11. Shape(n, K \ {o})
  BY <1>6, <1>10 DEF Shape
<1>12. K \ {o} = ChunksIn(m.ot, U)
  BY <1>1 DEF ChunksIn
<1>13. n.ot[o].class = NilPointer /\ n.ot[o].count = 0 /\ n.ot[o].field = <<>>
  BY <1>6, <1>10 DEF EmptiedFrom, IsChunk
<1>14. Marks(R, U) = Marks(R, T)
  BY DEF Marks
<1>15. SameRefs(x.ot, SlotsIn(T), n.ot, SlotsIn(U))
  <2>1. DOMAIN <<>> = {}
    OBVIOUS
  <2>2. \A j : Holds(n.ot[o], j) = NilPointer
    BY <1>13, <2>1 DEF Holds
  <2>3. ASSUME NEW z \in Slots, NEW q \in Pointers
        PROVE  (z \notin SlotsIn(T) /\ Holds(x.ot[z[1]], z[2]) = q) <=> (z \notin SlotsIn(U) /\ Holds(n.ot[z[1]], z[2]) = q)
    <3>1. CASE z[1] = o
      BY <2>2, <3>1, ConstantsAre DEF SlotsIn
    <3>2. CASE z[1] # o
      <4>1. z[1] \in Pointers
        BY DEF Slots
      <4>2. n.ot[z[1]] = x.ot[z[1]]
        BY <1>6, <1>10, <3>2, <4>1
      <4> QED
        BY <3>2, <4>2 DEF SlotsIn
    <3> QED
      BY <3>1, <3>2
  <2> QED
    BY <2>3 DEF SameRefs
<1>16. \A p \in Pointers : n.ot[p].count = x.ot[p].count
  BY <1>1, <1>2, <1>6, <1>10, <1>13
<1>17. Exact(n.ot, Marks(R, U), NilPointer, SlotsIn(U))
  <2>1. SlotsIn(U) \in SUBSET Slots
    BY DEF SlotsIn
  <2> QED
    BY <1>14, <1>15, <1>16, <2>1, StaysExact DEF Rectifying
<1>18. \A p \in R \cup U : p \in Pointers /\ p # o /\ SameBody(m.ot[p], n.ot[p])
  BY <1>6, <1>10 DEF Rectifying, Collectable
<1>19. \A p \in Pointers \ R : n.ot[p].count = 0 /\ (p \notin U => n.ot[p].class = NilPointer)
  BY <1>6, <1>10, <1>13 DEF Rectifying
<1>20. Shape(n, ChunksIn(m.ot, U)) /\ Tiled(n.ot) /\ n.failed = m.failed /\ n.currentSegment = m.currentSegment
  BY <1>6, <1>10, <1>11, <1>12 DEF Rectifying
<1> QED
  BY <1>1, <1>17, <1>18, <1>19, <1>20 DEF Rectifying

(* What is marked loses the mark and counts its pointers up.                 *)
LEMMA RectifyMarked ==
  ASSUME NEW m, NEW R, Collectable(m, R), NEW x, NEW T \in SUBSET Pointers, Rectifying(m, x, R, T),
         NEW o \in T, NEW U, U = T \ {o}, o \in R,
         NEW n, n = decreaseReferencesTo(x, o), NEW y, y = countUpAll(n, PointersIn(x.ot[o]))
  PROVE  Rectifying(m, y, R, U)
<1>1. PICK K, e, D, c, F, s : K = ChunksIn(m.ot, T) /\ e = Marks(R, T) /\ D = SlotsIn(T) /\ c = Minus(e, o)
                              /\ F = SlotsIn(U) /\ s = PointersIn(x.ot[o])
  OBVIOUS
<1>2. Shape(x, K) /\ Tiled(x.ot) /\ Exact(x.ot, e, NilPointer, D) /\ o \in Pointers
  BY <1>1 DEF Rectifying
<1>3. Held(x.ot, NilPointer, D) /\ e[o] >= 1
  BY <1>1 DEF Held, Marks
<1>4. /\ Recounted(x, n, K) /\ Exact(n.ot, c, NilPointer, D)
      /\ \A p \in Pointers : p # o => n.ot[p] = x.ot[p]
  BY <1>1, <1>2, <1>3, OneLess
<1>5. c = Marks(R, U)
  BY <1>1 DEF Minus, Marks
<1>6. Shape(n, K) /\ SameBodies(x.ot, n.ot)
  BY <1>4 DEF Recounted
<1>7. \A r \in R : r \in Pointers /\ SameBody(m.ot[r], n.ot[r]) /\ n.ot[r].class # NilPointer
  BY <1>6 DEF Rectifying, Collectable, SameBodies, SameBody
<1>8. s = PointersIn(n.ot[o])
  BY <1>1, <1>2, <1>6 DEF SameBodies, SameBody, PointersIn
<1>9. \A k \in 1..Len(s) : s[k] \in R \cup {NilPointer}
  <2>1. EntryOK(n.ot[o]) /\ n.ot[o].class # NilPointer
    BY <1>2, <1>6, <1>7, ShapeIs
  <2>2. ASSUME NEW k \in 1..Len(s) PROVE s[k] \in R \cup {NilPointer}
    <3>1. k \in 1..SegmentWords /\ s[k] = Holds(n.ot[o], k)
      <4>1. Len(s) \in 1..SegmentWords /\ \A i \in 1..Len(s) : s[i] = Holds(n.ot[o], i)
        BY <1>8, <2>1, PointersOf
      <4>2. k \in 1..SegmentWords
        BY <4>1, ConstantsAre
      <4> QED
        BY <4>1, <4>2
    <3>2. Holds(n.ot[o], k) = Holds(m.ot[o], k)
      BY <1>7, BodiesExtent
    <3> QED
      BY <3>1, <3>2 DEF Collectable
  <2> QED
    BY <2>2
<1>10. SlotsOf(o) \subseteq D /\ F = D \ SlotsOf(o)
  BY <1>1 DEF SlotsOf, SlotsIn
<1>11. R \in SUBSET Pointers
  BY DEF Collectable
<1>12. /\ Recounted(n, y, K) /\ Exact(y.ot, c, NilPointer, F)
       /\ \A q \in Pointers \ R : y.ot[q] = n.ot[q]
  <2>1. Exact(n.ot, c, NilPointer, D) /\ n.ot[o].class # NilPointer /\ AllObjects(n.ot, R) /\ InR(s, R)
    BY <1>4, <1>7, <1>9, <1>11 DEF AllObjects, InR
  <2>2. CountedAll(n, countUpAll(n, s), c, F, K, R)
    BY <1>2, <1>6, <1>8, <1>10, <2>1, CountPointers
  <2>3. y = countUpAll(n, s)
    BY <1>1
  <2> QED
    BY <2>2, <2>3 DEF CountedAll
<1>13. Recounted(x, y, K)
  BY <1>4, <1>12, RecountedTrans
<1>14. /\ Shape(y, K) /\ Tiled(y.ot) /\ SameBodies(x.ot, y.ot)
       /\ y.failed = x.failed /\ y.currentSegment = x.currentSegment
  BY <1>2, <1>13 DEF Recounted, SameRegisters
<1>15. K = ChunksIn(m.ot, U)
  BY <1>1 DEF ChunksIn, IsChunk, Collectable
<1>16. \A p \in R \cup U : SameBody(m.ot[p], y.ot[p])
  <2>1. \A p \in R \cup U : p \in Pointers /\ SameBody(m.ot[p], x.ot[p]) /\ SameBody(x.ot[p], y.ot[p])
    BY <1>11, <1>14 DEF Rectifying, SameBodies
  <2> QED
    BY <2>1 DEF SameBody
<1>17. \A p \in Pointers \ R : y.ot[p] = x.ot[p]
  BY <1>4, <1>12
<1>18. \A p \in Pointers \ R : y.ot[p].count = 0 /\ (p \notin U => y.ot[p].class = NilPointer)
  BY <1>17 DEF Rectifying
<1> QED
  BY <1>1, <1>5, <1>12, <1>14, <1>15, <1>16, <1>18 DEF Rectifying

LEMMA RectifyKeeps ==
  ASSUME NEW m, NEW R, Collectable(m, R), NEW x, NEW T \in SUBSET Pointers, Rectifying(m, x, R, T),
         NEW o \in T, NEW U, U = T \ {o}
  PROVE  Rectifying(m, rectify(x, o), R, U)
<1>1. /\ EntryOK(x.ot[o]) /\ x.ot[o] \in Entry /\ o \in Pointers /\ SameBody(m.ot[o], x.ot[o])
      /\ x.ot[o].count \in Nat
  BY ShapeIs, EntryIs DEF Rectifying, EntryOK
<1>2. CASE x.ot[o].free
  <2>1. rectify(x, o) = x
    BY <1>2 DEF rectify
  <2> QED
    BY <1>2, <2>1, RectifyFree
<1>3. CASE ~x.ot[o].free /\ o \notin R
  <2>1. x.ot[o].count = 0
    BY <1>1, <1>3 DEF Rectifying
  <2>2. rectify(x, o) = Swept2(x, o)
    BY <1>3, <2>1 DEF rectify, Swept2
  <2>3. PICK y : y = Swept2(x, o)
    OBVIOUS
  <2>4. Rectifying(m, y, R, U)
    BY <1>3, <2>3, RectifyGarbage
  <2> QED
    BY <2>2, <2>3, <2>4
<1>4. CASE ~x.ot[o].free /\ o \in R
  <2>1. x.ot[o].count # 0
    <3>1. PICK e, D : e = Marks(R, T) /\ D = SlotsIn(T)
      OBVIOUS
    <3>2. Exact(x.ot, e, NilPointer, D) /\ Entries(x.ot) /\ Held(x.ot, NilPointer, D) /\ e[o] >= 1
      BY <1>1, <1>4, <3>1, ShapeIs DEF Rectifying, Held, Marks
    <3>3. x.ot[o].count >= 1
      BY <1>1, <3>2, Referenced
    <3> QED
      BY <3>3
  <2>2. PICK n, y : n = decreaseReferencesTo(x, o) /\ y = countUpAll(n, PointersIn(x.ot[o]))
    OBVIOUS
  <2>3. n = IF x.ot[o].count < StickyCount THEN [x EXCEPT !.ot[o].count = @ - 1] ELSE x
    <3>1. x.ot[o].count <= StickyCount
      BY <1>1, EntryIs
    <3>2. PICK c : c = x.ot[o].count
      OBVIOUS
    <3>3. c < StickyCount <=> c # StickyCount
      BY <1>1, <3>1, <3>2, ConstantsAre
    <3> QED
      BY <2>1, <2>2, <3>2, <3>3 DEF decreaseReferencesTo
  <2>4. rectify(x, o) = y
    BY <1>4, <2>1, <2>2, <2>3 DEF rectify
  <2>5. Rectifying(m, y, R, U)
    BY <1>4, <2>2, RectifyMarked
  <2> QED
    BY <2>4, <2>5
<1> QED
  BY <1>2, <1>3, <1>4

----------------------------------------------------------------------------
(* All entries of the table.                                                 *)

LEMMA MaxIs ==
  ASSUME NEW S \in SUBSET Nat, IsFiniteSet(S), S # {}
  PROVE  Max(S) \in S /\ \A n \in S : n <= Max(S)
<1> DEFINE below(x) == {y \in S : y <= x}
           ranks == {Cardinality(S) - Cardinality(below(x)) : x \in S}
<1>1. Cardinality(S) \in Nat
  BY FS_CardinalityType
<1>2. ASSUME NEW x \in S
      PROVE  /\ IsFiniteSet(below(x)) /\ Cardinality(below(x)) \in Nat
             /\ Cardinality(S) - Cardinality(below(x)) \in Nat
  <2>1. below(x) \subseteq S
    OBVIOUS
  <2> HIDE DEF below
  <2>2. IsFiniteSet(below(x)) /\ Cardinality(below(x)) \in Nat /\ Cardinality(below(x)) <= Cardinality(S)
    BY <2>1, FS_Subset, FS_CardinalityType
  <2>3. PICK a, b : a = Cardinality(S) /\ b = Cardinality(below(x))
    OBVIOUS
  <2>4. a - b \in Nat
    BY <1>1, <2>2, <2>3
  <2> QED
    BY <2>2, <2>3, <2>4
<1>3. ranks \in SUBSET Nat /\ ranks # {}
  <2> HIDE DEF below
  <2> QED
    BY <1>2
<1>4. PICK r \in ranks : \A q \in ranks : r <= q
  <2> HIDE DEF ranks
  <2> QED
    BY <1>3, HasLeast
<1>5. PICK x \in S : r = Cardinality(S) - Cardinality(below(x))
  OBVIOUS
<1>6. ASSUME NEW z \in S, ~(z <= x) PROVE FALSE
  <2>0. /\ x \in Nat /\ z \in Nat /\ z <= z /\ x < z
        /\ \A y \in S : y \in Nat /\ (y <= x => y <= z)
    BY <1>6
  <2>1. below(x) \subseteq below(z) /\ z \in below(z) /\ z \notin below(x)
    BY <1>6, <2>0, Zenon
  <2>2. r <= Cardinality(S) - Cardinality(below(z))
    BY <1>4
  <2> HIDE DEF below, ranks
  <2>3. PICK A, B : A = below(x) /\ B = below(z)
    OBVIOUS
  <2>4. IsFiniteSet(B) /\ Cardinality(A) \in Nat /\ Cardinality(B) \in Nat
    BY <1>2, <2>3
  <2>5. A \subseteq B \ {z} /\ z \in B
    BY <2>1, <2>3
  <2>6. IsFiniteSet(B \ {z}) /\ Cardinality(B \ {z}) = Cardinality(B) - 1
    BY <2>4, <2>5, FS_RemoveElement
  <2>7. Cardinality(A) <= Cardinality(B \ {z})
    BY <2>5, <2>6, FS_Subset
  <2>8. PICK a, b, s : a = Cardinality(A) /\ b = Cardinality(B) /\ s = Cardinality(S)
    OBVIOUS
  <2>9. a \in Nat /\ b \in Nat /\ s \in Nat /\ a <= b - 1 /\ s - a <= s - b
    BY <1>1, <1>5, <2>2, <2>3, <2>4, <2>6, <2>7, <2>8
  <2> QED
    BY <2>9
<1>7. \A z \in S : x >= z
  <2>1. x \in Nat /\ \A z \in S : z \in Nat /\ z <= x
    BY <1>6
  <2> QED
    BY <2>1
<1>8. \E g \in S : \A z \in S : g >= z
  BY <1>7
<1>9. Max(S) \in S /\ \A z \in S : Max(S) >= z
  BY <1>8 DEF Max
<1> QED
  BY <1>9

LEMMA LastPointerIs ==
  LastPointer \in Nat /\ \A o \in Pointers : o \in 0..LastPointer /\ o # 0
<1>1. Pointers \in SUBSET Nat /\ IsFiniteSet(Pointers) /\ Pointers # {}
  BY ConstantsAre
<1>2. Max(Pointers) \in Pointers /\ \A n \in Pointers : n <= Max(Pointers)
  BY <1>1, MaxIs
<1>3. LastPointer = Max(Pointers)
  BY DEF LastPointer
<1>4. PICK k : k = LastPointer
  OBVIOUS
<1>5. k \in Nat /\ \A n \in Pointers : n <= k /\ n \in Nat /\ n # 0
  BY <1>1, <1>2, <1>3, <1>4, ConstantsAre
<1> QED
  BY <1>4, <1>5

rectifying(m, f) ==
  [o \in 0..LastPointer |->
     CASE o = 0 -> [m EXCEPT !.freeChunks = [seg \in 1..Segments |-> [size \in ChunkSizes |-> <<>>]]]
       [] o \in Pointers -> rectify(f[o - 1], o)
       [] OTHER -> f[o - 1]]
rectified(m) == CHOOSE f : f = rectifying(m, f)

LEMMA RectifyingOn ==
  ASSUME NEW m
  PROVE  rectified(m) = rectifying(m, rectified(m))
<1> DEFINE N == LastPointer
           step(f, o) ==
             CASE o = 0 -> [m EXCEPT !.freeChunks = [seg \in 1..Segments |-> [size \in ChunkSizes |-> <<>>]]]
               [] o \in Pointers -> rectify(f[o - 1], o)
               [] OTHER -> f[o - 1]
           E == {k \in Nat : \E f : f = [i \in 0..k |-> step(f, i)]}
<1>0. \A f, g, i : i \in Nat /\ (i # 0 => f[i - 1] = g[i - 1]) => step(f, i) = step(g, i)
  <2>1. SUFFICES ASSUME NEW f, NEW g, NEW i \in Nat, i # 0 => f[i - 1] = g[i - 1]
                 PROVE  step(f, i) = step(g, i)
    OBVIOUS
  <2>2. 0 \notin Pointers
    BY ConstantsAre
  <2>3. PICK a, b : a = f[i - 1] /\ b = g[i - 1]
    OBVIOUS
  <2>4. CASE i = 0
    BY <2>2, <2>4
  <2>5. CASE i # 0 /\ i \in Pointers
    <3>1. step(f, i) = rectify(a, i) /\ step(g, i) = rectify(b, i)
      BY <2>3, <2>5
    <3>2. a = b
      BY <2>1, <2>3, <2>5
    <3> QED
      BY <3>1, <3>2
  <2>6. CASE i # 0 /\ i \notin Pointers
    <3>1. step(f, i) = a /\ step(g, i) = b
      BY <2>3, <2>6
    <3>2. a = b
      BY <2>1, <2>3, <2>6
    <3> QED
      BY <3>1, <3>2
  <2> QED
    BY <2>4, <2>5, <2>6
<1>1. 0 \in E
  <2>1. PICK z : z = [m EXCEPT !.freeChunks = [seg \in 1..Segments |-> [size \in ChunkSizes |-> <<>>]]]
    OBVIOUS
  <2>2. \A f : step(f, 0) = z
    BY <2>1, ConstantsAre
  <2> HIDE DEF step
  <2>3. [i \in 0..0 |-> z] = [i \in 0..0 |-> step([j \in 0..0 |-> z], i)]
    BY <2>2
  <2> QED
    BY <2>3
<1>2. ASSUME NEW k \in 0..N - 1, k \in E PROVE k + 1 \in E
  <2>1. PICK f : f = [i \in 0..k |-> step(f, i)]
    BY <1>2
  <2> DEFINE g == [i \in 0..k + 1 |-> step(f, i)]
  <2>2. k \in Nat /\ k + 1 \in Nat
    OBVIOUS
  <2>3. \A i \in 0..k : g[i] = f[i]
    <3> HIDE DEF step
    <3> QED
      BY <2>1, <2>2
  <2>4. \A i \in 0..k + 1 : step(f, i) = step(g, i)
    <3> HIDE DEF g, step
    <3>1. \A i \in 0..k + 1 : i \in Nat /\ (i # 0 => i - 1 \in 0..k)
      BY <2>2
    <3>2. \A i \in 0..k + 1 : i \in Nat /\ (i # 0 => f[i - 1] = g[i - 1])
      BY <2>3, <3>1
    <3> QED
      BY <1>0, <3>2
  <2>5. g = [i \in 0..k + 1 |-> step(g, i)]
    <3>1. g = [i \in 0..k + 1 |-> g[i]]
      <4> HIDE DEF step
      <4> QED
        BY Zenon
    <3>2. \A i \in 0..k + 1 : g[i] = step(f, i)
      BY Zenon
    <3> HIDE DEF g, step
    <3> QED
      BY <2>4, <3>1, <3>2
  <2> HIDE DEF g, step
  <2> QED
    BY <2>2, <2>5
<1>3. N \in E
  <2> HIDE DEF E, N
  <2>1. N \in Nat
    BY LastPointerIs DEF N
  <2>2. 0..N \subseteq E
    BY <1>1, <1>2, <2>1, InductionTo
  <2> QED
    BY <2>1, <2>2
<1>4. PICK f : f = rectifying(m, f)
  BY <1>3, Zenon DEF rectifying
<1> QED
  BY <1>4, Zenon DEF rectified

(* When every entry has been rectified, no counts are left over: what is     *)
(* reachable has as many as it has references, the rest are free.            *)
Above(k) == {p \in Pointers : p > k}

LEMMA RectifyingEnds ==
  ASSUME NEW m, NEW R, Collectable(m, R)
  PROVE  Rectifying(m, rectifyCountsAndDeallocateGarbage(MarkedFrom(m, R)), R, {})
<1>1. PICK n, f, N : n = MarkedFrom(m, R) /\ f = rectified(n) /\ N = LastPointer
  OBVIOUS
<1>2. f = rectifying(n, f)
  BY <1>1, RectifyingOn
<1>3. \A o \in 0..N : f[o] = CASE o = 0 -> Unlisted(n)
                               [] o \in Pointers -> rectify(f[o - 1], o)
                               [] OTHER -> f[o - 1]
  BY <1>1, <1>2 DEF rectifying, Unlisted, NoLists
<1>4. N \in Nat /\ \A o \in Pointers : o \in 0..N /\ o # 0 /\ o \in Nat
  BY <1>1, LastPointerIs, ConstantsAre
<1> DEFINE E == {k \in Nat : Rectifying(m, f[k], R, Above(k))}
<1>5. 0 \in E
  <2>1. f[0] = Unlisted(n) /\ Above(0) = Pointers
    BY <1>3, <1>4 DEF Above
  <2>2. PICK x, T : x = Unlisted(MarkedFrom(m, R)) /\ T = Pointers
    OBVIOUS
  <2>3. Rectifying(m, x, R, T)
    BY <2>2, RectifyingStarts
  <2> QED
    BY <1>1, <2>1, <2>2, <2>3
<1>6. ASSUME NEW k \in 0..N - 1, k \in E PROVE k + 1 \in E
  <2>1. PICK i, x, y, T, U : i = k + 1 /\ x = f[k] /\ y = f[i] /\ T = Above(k) /\ U = Above(i)
    OBVIOUS
  <2>2. i \in 0..N /\ i # 0 /\ i - 1 = k /\ i \in Nat /\ k \in Nat
    BY <1>4, <2>1
  <2>3. y = IF i \in Pointers THEN rectify(x, i) ELSE x
    BY <1>3, <2>1, <2>2
  <2>4. Rectifying(m, x, R, T)
    BY <1>6, <2>1
  <2>5. U = T \ {i} /\ (i \in Pointers => i \in T) /\ T \in SUBSET Pointers
    <3>1. \A p \in Pointers : p > i <=> p > k /\ p # i
      BY <1>4, <2>1, <2>2
    <3>2. i > k
      BY <2>1, <2>2
    <3> QED
      BY <2>1, <3>1, <3>2 DEF Above
  <2>6. Rectifying(m, y, R, U)
    <3>1. CASE i \in Pointers
      BY <2>3, <2>4, <2>5, <3>1, RectifyKeeps
    <3>2. CASE i \notin Pointers
      BY <2>3, <2>4, <2>5, <3>2
    <3> QED
      BY <3>1, <3>2
  <2> QED
    BY <2>1, <2>2, <2>6
<1>7. Rectifying(m, f[N], R, Above(N))
  <2> HIDE DEF E
  <2>1. 0..N \subseteq E
    BY <1>4, <1>5, <1>6, InductionTo
  <2>2. N \in E
    BY <1>4, <2>1
  <2> QED
    BY <2>2 DEF E
<1>8. Above(N) = {}
  <2>1. \A p \in Pointers : ~(p > N)
    BY <1>4
  <2> QED
    BY <2>1 DEF Above
<1>9. rectifyCountsAndDeallocateGarbage(n) = f[N]
  BY <1>1, Zenon DEF rectifyCountsAndDeallocateGarbage, rectified, rectifying
<1> QED
  BY <1>1, <1>7, <1>8, <1>9

----------------------------------------------------------------------------
(* What can be reached, as a set closed under slots.                         *)

SlotClosed(ot, S) == \A o \in S, j \in 1..SegmentWords : Holds(ot[o], j) \in S \cup {NilPointer}

Reached(ot, R) ==
  /\ R \in SUBSET Pointers /\ Roots \subseteq R /\ SlotClosed(ot, R)
  /\ \A S \in SUBSET Pointers : Roots \subseteq S /\ SlotClosed(ot, S) => R \subseteq S

LEMMA SlotsOfEntry ==
  ASSUME NEW e, EntryOK(e), NEW S
  PROVE  ToSet(PointersIn(e)) \subseteq S \cup {NilPointer} <=>
           \A j \in 1..SegmentWords : Holds(e, j) \in S \cup {NilPointer}
<1>1. CASE e.class # NilPointer
  <2>1. PICK s, N : s = PointersIn(e) /\ N = Len(s)
    OBVIOUS
  <2>2. /\ N \in 1..SegmentWords /\ DOMAIN s = 1..N
        /\ \A k \in 1..N : s[k] = Holds(e, k)
        /\ \A k \in 1..SegmentWords : k > N => Holds(e, k) = NilPointer
    BY <1>1, <2>1, PointersOf
  <2>3. ToSet(s) = {s[k] : k \in 1..N}
    BY <2>2 DEF ToSet
  <2>4. \A k \in 1..N : k \in 1..SegmentWords
    BY <2>2, ConstantsAre
  <2>5. \A k \in 1..SegmentWords : k \in 1..N \/ k > N
    BY <2>2, ConstantsAre
  <2>6. (\A j \in 1..SegmentWords : Holds(e, j) \in S \cup {NilPointer}) <=>
           \A k \in 1..N : s[k] \in S \cup {NilPointer}
    BY <2>2, <2>4, <2>5
  <2> QED
    BY <2>1, <2>3, <2>6
<1>2. CASE e.class = NilPointer
  <2>1. e.field = <<>>
    BY <1>2 DEF EntryOK
  <2>2. PointersIn(e) = <<NilPointer>>
    BY <1>2, <2>1 DEF PointersIn
  <2>3. ToSet(<<NilPointer>>) = {NilPointer}
    BY DEF ToSet
  <2>4. \A j \in 1..SegmentWords : Holds(e, j) = NilPointer
    BY <1>2, HoldsIs
  <2> QED
    BY <2>2, <2>3, <2>4
<1> QED
  BY <1>1, <1>2

LEMMA ReachableIs ==
  ASSUME NEW m, Entries(m.ot), NEW R, R = Reachable(m, Roots)
  PROVE  Reached(m.ot, R)
<1>1. ASSUME NEW S \in SUBSET Pointers PROVE Closed(m, S) <=> SlotClosed(m.ot, S)
  <2>1. \A o \in S : ToSet(PointersIn(m.ot[o])) \subseteq S \cup {NilPointer} <=>
           \A j \in 1..SegmentWords : Holds(m.ot[o], j) \in S \cup {NilPointer}
    <3>1. ASSUME NEW o \in S
          PROVE ToSet(PointersIn(m.ot[o])) \subseteq S \cup {NilPointer} <=>
                \A j \in 1..SegmentWords : Holds(m.ot[o], j) \in S \cup {NilPointer}
      <4>1. EntryOK(m.ot[o])
        BY DEF Entries
      <4> QED
        BY <4>1, SlotsOfEntry
    <3> QED
      BY <3>1
  <2> QED
    BY <2>1 DEF Closed, SlotClosed
<1>2. PICK C : C = {S \in SUBSET Pointers : Roots \subseteq S /\ Closed(m, S)}
  OBVIOUS
<1>3. R = {o \in Pointers : \A S \in C : o \in S}
  BY <1>2, Zenon DEF Reachable
<1>4. C = {S \in SUBSET Pointers : Roots \subseteq S /\ SlotClosed(m.ot, S)}
  BY <1>1, <1>2
<1>5. Roots \subseteq Pointers
  BY ConstantsAre DEF Roots, Special
<1>6. ASSUME NEW o \in R, NEW j \in 1..SegmentWords PROVE Holds(m.ot[o], j) \in R \cup {NilPointer}
  <2>1. o \in Pointers /\ EntryOK(m.ot[o])
    BY <1>3 DEF Entries
  <2>2. Holds(m.ot[o], j) \in Pointers \cup {NilPointer}
    BY <2>1, HoldsIs
  <2>3. \A S \in C : Holds(m.ot[o], j) \in S \cup {NilPointer}
    BY <1>3, <1>4 DEF SlotClosed
  <2> QED
    BY <1>3, <2>2, <2>3
<1> QED
  BY <1>3, <1>4, <1>5, <1>6 DEF Reached, SlotClosed

(* The objects are closed under slots: what is reached are objects.          *)
LEMMA ObjectsReached ==
  ASSUME NEW m, NEW e, NEW u, NEW Z, Settled(m, e, u, Z), NEW R, Reached(m.ot, R)
  PROVE  \A r \in R : r \in Pointers /\ m.ot[r].class # NilPointer
<1>1. PICK N, S : N = {} /\ S = {o \in Pointers : m.ot[o].class # NilPointer}
  OBVIOUS
<1>2. Entries(m.ot) /\ Exact(m.ot, e, u, N) /\ Rooted(m.ot, e, u, N)
  BY <1>1, ShapeIs DEF Settled
<1>3. Roots \subseteq S /\ Held(m.ot, u, N)
  BY <1>1, <1>2, RootsCounted
<1>4. ASSUME NEW o \in S, NEW j \in 1..SegmentWords PROVE Holds(m.ot[o], j) \in S \cup {NilPointer}
  <2>1. PICK v, x : v = Holds(m.ot[o], j) /\ x = <<o, j>>
    OBVIOUS
  <2>2. x \in Slots /\ x[1] = o /\ x[2] = j /\ EntryOK(m.ot[o])
    BY <1>1, <1>2, <2>1 DEF Slots, Entries
  <2>3. v \in Pointers \cup {NilPointer}
    BY <2>1, <2>2, HoldsIs
  <2>4. CASE v \in Pointers
    <3>1. x \in Refs(m.ot, N, v)
      BY <1>1, <2>1, <2>2 DEF Refs
    <3>2. m.ot[v].class # NilPointer
      BY <1>2, <1>3, <2>4, <3>1, Referenced
    <3> QED
      BY <1>1, <2>1, <2>4, <3>2
  <2> QED
    BY <2>1, <2>3, <2>4
<1>5. R \subseteq S
  BY <1>1, <1>3, <1>4 DEF Reached, SlotClosed
<1> QED
  BY <1>1, <1>5

LEMMA ReachedCollectable ==
  ASSUME NEW m, NEW e, NEW u, NEW Z, Settled(m, e, u, Z), NEW R, Reached(m.ot, R),
         \A o \in Pointers : IsChunk(m.ot[o]) => Plain(m.ot[o])
  PROVE  Collectable(m, R)
BY ObjectsReached DEF Collectable, Settled, Reached, SlotClosed

----------------------------------------------------------------------------
(* The end of a collection.                                                  *)

One == [o \in Pointers |-> IF o = ActiveContext THEN 1 ELSE 0]

Reclaimed(m, n, R) ==
  /\ Settled(n, One, NilPointer, {})
  /\ n.uncounted = NilPointer /\ n.failed = m.failed
  /\ n.freeOops - Cardinality(Blank(n.ot)) \in {0, 1}
  /\ \A p \in R : SameBody(m.ot[p], n.ot[p])

(* Only the context may be an object without a count, for it is what the     *)
(* register refers to.                                                       *)
LEMMA ReachedCounted ==
  ASSUME NEW m, NEW R, Reached(m.ot, R), NEW ot, NEW e, NEW N, N = {}, Entries(ot),
         Exact(ot, e, NilPointer, N), Anchored(ot), \A p \in R : SameBody(m.ot[p], ot[p]),
         NEW o \in R, o # ActiveContext
  PROVE  ot[o].count >= 1
<1> SUFFICES ASSUME ~(ot[o].count >= 1) PROVE FALSE
  OBVIOUS
<1>1. Held(ot, NilPointer, N) /\ R \in SUBSET Pointers /\ Roots \subseteq R /\ SlotClosed(m.ot, R)
  BY DEF Held, Reached
<1>2. Refs(ot, N, o) = {}
  BY <1>1, Referenced
<1>3. o # InitialClass
  <2>1. PICK x : x = <<ActiveContext, 1>>
    OBVIOUS
  <2>2. x \in Slots /\ Holds(ot[x[1]], x[2]) = InitialClass
    BY <2>1, ConstantsAre DEF Slots, Anchored, Holds
  <2>3. x \in Refs(ot, N, InitialClass)
    BY <2>2 DEF Refs
  <2> QED
    BY <1>2, <2>3
<1>4. PICK S : S = R \ {o}
  OBVIOUS
<1>5. Roots \subseteq S
  BY <1>1, <1>3, <1>4 DEF Roots, Special
<1>6. ASSUME NEW p \in S, NEW j \in 1..SegmentWords PROVE Holds(m.ot[p], j) \in S \cup {NilPointer}
  <2>1. PICK x, v : x = <<p, j>> /\ v = Holds(m.ot[p], j)
    OBVIOUS
  <2>2. x \in Slots /\ x[1] = p /\ x[2] = j
    BY <1>1, <1>4, <2>1 DEF Slots
  <2>3. Holds(ot[p], j) = v
    BY <1>4, <2>1, BodiesExtent
  <2>4. v # o
    BY <1>2, <2>2, <2>3 DEF Refs
  <2>5. v \in R \cup {NilPointer}
    BY <1>1, <1>4, <2>1 DEF SlotClosed
  <2> QED
    BY <1>4, <2>1, <2>4, <2>5
<1>7. R \subseteq S
  BY <1>1, <1>4, <1>5, <1>6 DEF Reached, SlotClosed
<1> QED
  BY <1>4, <1>7

(* The memory with every entry rectified and the registers set.              *)
Audited(x) == [x EXCEPT !.freeOops = auditFreeOops(x), !.uncounted = NilPointer]

Uncounted(ot) == {o \in Pointers : ~hasObject(ot[o])}

LEMMA AuditCounts ==
  ASSUME NEW ot, Entries(ot), \A o \in Pointers : ot[o].class # NilPointer /\ ot[o].count = 0 => o = ActiveContext
  PROVE  /\ Cardinality(Uncounted(ot)) \in Nat
         /\ Cardinality(Uncounted(ot)) - Cardinality(Blank(ot)) \in {0, 1}
<1>1. PICK A, B : A = Uncounted(ot) /\ B = Blank(ot)
  OBVIOUS
<1>2. ASSUME NEW o \in Pointers PROVE /\ (o \in B => o \in A)
                                      /\ (o \in A => o \in B \/ o = ActiveContext)
  <2>1. EntryOK(ot[o])
    BY DEF Entries
  <2>2. ot[o].free => ot[o].class = NilPointer
    BY <2>1, FreeEntryIs DEF EntryOK
  <2>3. ot[o].class = NilPointer => ot[o].count = 0
    BY <2>1 DEF EntryOK
  <2> QED
    BY <1>1, <2>2, <2>3 DEF Uncounted, Blank, hasObject
<1>3. A \in SUBSET Pointers /\ B \in SUBSET Pointers
  BY <1>1 DEF Uncounted, Blank
<1>4. IsFiniteSet(A) /\ IsFiniteSet(B) /\ Cardinality(A) \in Nat /\ Cardinality(B) \in Nat
  BY <1>3, ConstantsAre, FS_Subset, FS_CardinalityType
<1>5. A = B \/ (A = B \cup {ActiveContext} /\ ActiveContext \notin B)
  BY <1>2, <1>3
<1>6. CASE A = B
  <2>1. PICK a : a = Cardinality(A)
    OBVIOUS
  <2> QED
    BY <1>1, <1>4, <1>6, <2>1
<1>7. CASE A = B \cup {ActiveContext} /\ ActiveContext \notin B
  <2>1. Cardinality(A) = Cardinality(B) + 1
    BY <1>4, <1>7, FS_AddElement
  <2>2. PICK b : b = Cardinality(B)
    OBVIOUS
  <2>3. b \in Nat /\ (b + 1) - b = 1 /\ b + 1 \in Nat
    BY <1>4, <2>2
  <2> QED
    BY <1>1, <2>1, <2>2, <2>3
<1> QED
  BY <1>5, <1>6, <1>7

LEMMA Reclaim ==
  ASSUME NEW m, NEW e, NEW u, NEW Z, Settled(m, e, u, Z),
         \A o \in Pointers : IsChunk(m.ot[o]) => Plain(m.ot[o]),
         NEW R, R = Reachable(m, Roots), NEW n, n = reclaimInaccessibleObjects(m)
  PROVE  Reclaimed(m, n, R) /\ Reached(m.ot, R)
<1>1. Entries(m.ot) /\ Anchored(m.ot)
  BY ShapeIs DEF Settled, Rooted
<1>2. Reached(m.ot, R)
  BY <1>1, ReachableIs
<1>3. Collectable(m, R)
  BY <1>2, ReachedCollectable
<1>4. PICK x, y, N, z : x = rectifyCountsAndDeallocateGarbage(MarkedFrom(m, R)) /\ y = Audited(x) /\ N = {}
                        /\ z = Marks(R, N)
  OBVIOUS
<1>5. Rectifying(m, x, R, N)
  BY <1>3, <1>4, RectifyingEnds
<1>6. n = countUp(y, ActiveContext)
  BY <1>4, Zenon DEF reclaimInaccessibleObjects, Audited
<1>7. ChunksIn(m.ot, N) = N /\ SlotsIn(N) = N
  BY <1>4 DEF ChunksIn, SlotsIn
<1>8. /\ Shape(x, N) /\ Tiled(x.ot) /\ Exact(x.ot, z, NilPointer, N)
      /\ \A p \in R : SameBody(m.ot[p], x.ot[p])
      /\ \A p \in Pointers \ R : x.ot[p].count = 0 /\ x.ot[p].class = NilPointer
      /\ x.failed = m.failed /\ x.currentSegment = m.currentSegment
  BY <1>4, <1>5, <1>7 DEF Rectifying
<1>9. Entries(x.ot) /\ x \in Memory
  BY <1>8, ShapeIs
<1>10. R \in SUBSET Pointers /\ InitialClass \in R /\ ActiveContext \in R
  BY <1>2 DEF Reached, Roots, Special
<1>11. Anchored(x.ot) /\ x.ot[ActiveContext].class # NilPointer
  BY <1>1, <1>8, <1>10, ConstantsAre DEF Anchored, SameBody
<1>12. \A o \in Pointers : x.ot[o].class # NilPointer /\ x.ot[o].count = 0 => o = ActiveContext
  <2>1. ASSUME NEW o \in R, o # ActiveContext PROVE x.ot[o].count # 0
    <3>1. x.ot[o].count >= 1
      BY <1>2, <1>4, <1>8, <1>9, <1>11, <2>1, ReachedCounted
    <3>2. PICK c : c = x.ot[o].count
      OBVIOUS
    <3>3. c >= 1
      BY <3>1, <3>2
    <3> QED
      BY <3>2, <3>3
  <2> QED
    BY <1>8, <2>1
<1>13. PICK a : a = auditFreeOops(x)
  OBVIOUS
<1>14. a = Cardinality(Uncounted(x.ot))
  BY <1>13, Zenon DEF auditFreeOops, Uncounted
<1>15. a \in Nat /\ a - Cardinality(Blank(x.ot)) \in {0, 1}
  BY <1>9, <1>12, <1>14, AuditCounts
<1>16. y = [x EXCEPT !.freeOops = a, !.uncounted = NilPointer]
  BY <1>4, <1>13 DEF Audited
<1>17. /\ y \in Memory /\ y.ot = x.ot /\ y.freeChunks = x.freeChunks /\ y.freePointers = x.freePointers
       /\ y.failed = x.failed /\ y.freeOops = a /\ y.uncounted = NilPointer
  <2>1. a \in Int /\ NilPointer \in Pointers \cup {NilPointer}
    BY <1>15
  <2> QED
    BY <1>9, <1>16, <2>1 DEF Memory
<1>18. Shape(y, N) /\ Exact(y.ot, z, NilPointer, N)
  BY <1>8, <1>17 DEF Shape
<1>19. PICK v : v = ActiveContext
  OBVIOUS
<1>20. /\ Recounted(y, countUp(y, v), N) /\ Exact(countUp(y, v).ot, Plus(z, v), NilPointer, N)
       /\ v \in Pointers => countUp(y, v).ot[v].count >= 1
       /\ \A o \in Pointers : o # v => countUp(y, v).ot[o] = y.ot[o]
  <2>1. v \in Pointers \cup {NilPointer} /\ (v # NilPointer => y.ot[v].class # NilPointer)
    BY <1>11, <1>17, <1>19, ConstantsAre
  <2> QED
    BY <1>18, <2>1, CountUp
<1>21. /\ Recounted(y, n, N) /\ Exact(n.ot, Plus(z, v), NilPointer, N) /\ n.ot[v].count >= 1
       /\ \A o \in Pointers : o # v => n.ot[o] = y.ot[o]
  BY <1>6, <1>19, <1>20, ConstantsAre
<1>22. Plus(z, v) = One
  <2>1. \A p \in Pointers : z[p] = 0
    BY <1>4 DEF Marks
  <2> QED
    BY <1>19, <2>1 DEF Plus, One
<1>23. Shape(n, N) /\ Tiled(n.ot) /\ SameBodies(x.ot, n.ot) /\ SameRegisters(y, n)
  BY <1>8, <1>17, <1>21 DEF Recounted
<1>24. Anchored(n.ot) /\ Blank(n.ot) = Blank(x.ot)
  <2>1. \A o \in Pointers : n.ot[o].class = x.ot[o].class
    BY <1>23 DEF SameBodies, SameBody
  <2> QED
    BY <1>11, <2>1, ConstantsAre DEF Anchored, Blank
<1>25. Rooted(n.ot, One, NilPointer, N)
  <2>1. One[ActiveContext] = 1
    BY ConstantsAre DEF One
  <2> QED
    BY <1>4, <1>24, <2>1 DEF Rooted
<1>26. Counted(n.ot, N)
  <2>1. ASSUME NEW o \in Pointers, n.ot[o].class # NilPointer, n.ot[o].count = 0 PROVE FALSE
    <3>1. o # v
      <4>1. PICK c : c = n.ot[v].count
        OBVIOUS
      <4>2. c >= 1 /\ c # 0
        BY <1>21, <4>1
      <4> QED
        BY <2>1, <4>1, <4>2
    <3>2. n.ot[o] = x.ot[o]
      BY <1>17, <1>21, <3>1
    <3> QED
      BY <1>12, <1>19, <2>1, <3>1, <3>2
  <2> QED
    BY <2>1 DEF Counted
<1>27. Settled(n, One, NilPointer, N)
  BY <1>4, <1>21, <1>22, <1>23, <1>25, <1>26 DEF Settled
<1>28. ASSUME NEW p \in R PROVE SameBody(m.ot[p], n.ot[p])
  <2>1. SameBody(m.ot[p], x.ot[p]) /\ SameBody(x.ot[p], n.ot[p])
    BY <1>8, <1>10, <1>23 DEF SameBodies
  <2> QED
    BY <2>1 DEF SameBody
<1>29. n.uncounted = NilPointer /\ n.failed = m.failed /\ n.freeOops = a
  BY <1>8, <1>17, <1>23 DEF SameRegisters
<1>30. n.freeOops - Cardinality(Blank(n.ot)) \in {0, 1}
  BY <1>15, <1>24, <1>29
<1> QED
  BY <1>2, <1>4, <1>27, <1>28, <1>29, <1>30 DEF Reclaimed

----------------------------------------------------------------------------
(* Allocation: a chunk is found, or found after a collection, or not at all. *)

Context(m) == Len(m.ot[ActiveContext].field) = ContextLength
Tallied(m) == m.freeOops - Cardinality(Blank(m.ot)) \in {0, 1}

Contented(m, e, u) ==
  /\ Exact(m.ot, e, u, {}) /\ Rooted(m.ot, e, u, {}) /\ Counted(m.ot, {})
  /\ Context(m) /\ Tallied(m)

Readied(m, e, u) == Shape(m, {}) /\ Tiled(m.ot) /\ Contented(m, e, u)

(* The memory between two operations of the interpreter.                     *)
Sound(m) == Readied(m, One, m.uncounted)

Provided(n, o, size, e, u) ==
  /\ o \in Pointers /\ IsChunk(n.ot[o]) /\ n.ot[o].size = size
  /\ Shape(n, {o}) /\ Tiled(n.ot) /\ Contented(n, e, u)

AllPlain(m) == \A o \in Pointers : IsChunk(m.ot[o]) => Plain(m.ot[o])

LEMMA ContentedKeeps ==
  ASSUME NEW m, NEW e, NEW u, Contented(m, e, u), NEW n, SameContents(m.ot, n.ot), n.freeOops = m.freeOops
  PROVE  Contented(n, e, u)
<1>1. PICK N : N = {}
  OBVIOUS
<1>2. \A o \in Pointers : SameContent(m.ot[o], n.ot[o])
  BY DEF SameContents
<1>3. \A j : \A o \in Pointers : Holds(n.ot[o], j) = Holds(m.ot[o], j)
  BY <1>2 DEF SameContent, Holds
<1>4. SameRefs(m.ot, N, n.ot, N)
  <2>1. \A x \in Slots : x[1] \in Pointers
    BY DEF Slots
  <2> QED
    BY <1>3, <2>1 DEF SameRefs
<1>5. Exact(m.ot, e, u, N) /\ N \in SUBSET Slots /\ \A o \in Pointers : n.ot[o].count = m.ot[o].count
  BY <1>1, <1>2 DEF Contented, SameContent
<1>6. Exact(n.ot, e, u, N)
  BY <1>4, <1>5, StaysExact
<1>7. Rooted(n.ot, e, u, N) /\ Counted(n.ot, {}) /\ Blank(n.ot) = Blank(m.ot)
  BY <1>1, <1>2, ConstantsAre DEF Contented, Rooted, Anchored, Counted, SameContent, Blank
<1>8. Context(n) /\ Tallied(n)
  BY <1>2, <1>7, ConstantsAre DEF Contented, Context, Tallied, SameContent
<1> QED
  BY <1>1, <1>6, <1>7, <1>8 DEF Contented

Attempt(m, t, size, e, u) ==
  \/ \E x, o : t = Found(x, o) /\ Provided(x, o, size, e, u) /\ x.uncounted = m.uncounted
  \/ \E x : t = NotFound(x) /\ Readied(x, e, u) /\ AllPlain(x) /\ x.uncounted = m.uncounted

LEMMA AttemptIs ==
  ASSUME NEW m, NEW e, NEW u, Readied(m, e, u), NEW size \in Nat, size >= 2
  PROVE  Attempt(m, attemptToAllocateChunk(m, size), size, e, u)
<1>1. PICK t : t = attemptToAllocateChunk(m, size)
  OBVIOUS
<1>2. Attempted(m, t, size)
  BY <1>1, AttemptToAllocateChunk DEF Readied
<1>3. CASE \E x, o : t = Found(x, o) /\ Taken(m, x, o, size)
  <2>1. PICK x, o : t = Found(x, o) /\ Taken(m, x, o, size)
    BY <1>3
  <2>2. Contented(x, e, u) /\ x.uncounted = m.uncounted
    BY <2>1, ContentedKeeps DEF Taken, Readied, SameRegisters
  <2>3. Provided(x, o, size, e, u)
    BY <2>1, <2>2 DEF Taken, Provided
  <2> QED
    BY <1>1, <2>1, <2>2, <2>3 DEF Attempt
<1>4. CASE ~\E x, o : t = Found(x, o) /\ Taken(m, x, o, size)
  <2>1. PICK x : /\ t = NotFound(x)
                 /\ Shape(x, {}) /\ Tiled(x.ot) /\ SameContents(m.ot, x.ot) /\ SameRegisters(m, x)
                 /\ \A o \in Pointers : IsChunk(x.ot[o]) => Plain(x.ot[o])
    BY <1>2, <1>4 DEF Attempted
  <2>2. Contented(x, e, u) /\ x.uncounted = m.uncounted
    BY <2>1, ContentedKeeps DEF Readied, SameRegisters
  <2>3. Readied(x, e, u) /\ AllPlain(x)
    BY <2>1, <2>2 DEF Readied, AllPlain
  <2> QED
    BY <1>1, <2>1, <2>2, <2>3 DEF Attempt
<1> QED
  BY <1>3, <1>4

(* The collection in between forgets what the class was counted up for.      *)
LEMMA ReclaimReadies ==
  ASSUME NEW m, NEW e, NEW u, Readied(m, e, u), AllPlain(m), NEW n, n = reclaimInaccessibleObjects(m)
  PROVE  Readied(n, One, NilPointer) /\ n.uncounted = NilPointer /\ n.failed = m.failed
<1>1. PICK R, Z : R = Reachable(m, Roots) /\ Z = {}
  OBVIOUS
<1>2. Settled(m, e, u, Z)
  BY <1>1 DEF Settled, Readied, Contented
<1>3. Reclaimed(m, n, R) /\ Reached(m.ot, R)
  BY <1>1, <1>2, Reclaim DEF AllPlain
<1>4. SameBody(m.ot[ActiveContext], n.ot[ActiveContext])
  BY <1>3 DEF Reclaimed, Reached, Roots
<1>5. Context(n) /\ Tallied(n)
  BY <1>3, <1>4 DEF Readied, Contented, Context, SameBody, Reclaimed, Tallied
<1> QED
  BY <1>3, <1>5 DEF Reclaimed, Readied, Settled, Contented

(* The words taken from the free ones, and the failure, are in registers of  *)
(* their own.                                                                *)
Rewritten(x, w) == [x EXCEPT !.freeWords = w]

LEMMA Charging ==
  ASSUME NEW x, NEW K, Shape(x, K), NEW w \in Int, NEW n, n = Rewritten(x, w) \/ n = [x EXCEPT !.failed = TRUE]
  PROVE  /\ Shape(n, K) /\ n.ot = x.ot /\ n.freeOops = x.freeOops /\ n.uncounted = x.uncounted
         /\ \A e, u : Contented(x, e, u) => Contented(n, e, u)
<1>1. x \in Memory
  BY ShapeIs
<1>2. /\ n \in Memory /\ n.ot = x.ot /\ n.freeChunks = x.freeChunks /\ n.freePointers = x.freePointers
      /\ n.freeOops = x.freeOops /\ n.uncounted = x.uncounted
  <2>1. CASE n = Rewritten(x, w)
    BY <1>1, <2>1 DEF Memory, Rewritten
  <2>2. CASE n = [x EXCEPT !.failed = TRUE]
    BY <1>1, <2>2 DEF Memory
  <2> QED
    BY <2>1, <2>2
<1>3. \A e, u : Contented(x, e, u) => Contented(n, e, u)
  BY <1>2 DEF Contented, Context, Tallied
<1> QED
  BY <1>2, <1>3 DEF Shape

Late(n, o) == [found |-> TRUE, oop |-> o, mem |-> n, collected |-> TRUE]
None(n) == [found |-> FALSE, oop |-> NilPointer, mem |-> n, collected |-> TRUE]

Supplied(m, t, size, e, u, late) ==
  \/ \E n, o : t = Found(n, o) /\ Provided(n, o, size, e, u) /\ n.uncounted = m.uncounted
  \/ \E n, o : t = Late(n, o) /\ Provided(n, o, size, One, NilPointer) /\ late
  \/ \E n : t = None(n) /\ Sound(n) /\ late

Charged(t, size) ==
  IF t.found THEN [t EXCEPT !.mem.freeWords = IF @ >= size THEN @ - size ELSE @]
  ELSE [t EXCEPT !.mem.failed = TRUE]
Retried(t, size) ==
  IF t.found THEN t
  ELSE [attemptToAllocateChunk(reclaimInaccessibleObjects(t.mem), size) EXCEPT !.collected = TRUE]

(* A chunk that is found is charged for.                                     *)
ChargedFor(t, size, x, o, e, u, b) ==
  \E n : /\ Charged(t, size) = [found |-> TRUE, oop |-> o, mem |-> n, collected |-> b]
         /\ Provided(n, o, size, e, u) /\ n.uncounted = x.uncounted

LEMMA ChargeFound ==
  ASSUME NEW x, NEW o, NEW size \in Nat, NEW e, NEW u, Provided(x, o, size, e, u), NEW b,
         NEW t, t = [found |-> TRUE, oop |-> o, mem |-> x, collected |-> b]
  PROVE  ChargedFor(t, size, x, o, e, u, b)
<1>1. PICK v : v = x.freeWords
  OBVIOUS
<1>2. PICK w : w = IF v >= size THEN v - size ELSE v
  OBVIOUS
<1>3. PICK K : K = {o}
  OBVIOUS
<1>4. Shape(x, K) /\ x \in Memory
  BY <1>3, ShapeIs DEF Provided
<1>5. v \in Int /\ w \in Int
  BY <1>1, <1>2, <1>4, MemoryIs
<1>6. PICK n : n = Rewritten(x, w)
  OBVIOUS
<1>7. Shape(n, K) /\ n.ot = x.ot /\ n.uncounted = x.uncounted /\ (Contented(x, e, u) => Contented(n, e, u))
  BY <1>4, <1>5, <1>6, Charging
<1>8. Provided(n, o, size, e, u)
  BY <1>3, <1>7 DEF Provided
<1>9. Charged(t, size) = [found |-> TRUE, oop |-> o, mem |-> n, collected |-> b]
  <2>1. t.found /\ t.mem = x /\ t.mem.freeWords = v
    BY <1>1
  <2>2. Charged(t, size) = [t EXCEPT !.mem = [t.mem EXCEPT !.freeWords = w]]
    BY <1>2, <2>1 DEF Charged
  <2> QED
    BY <1>6, <2>1, <2>2 DEF Rewritten
<1> QED
  BY <1>7, <1>8, <1>9 DEF ChargedFor

LEMMA ChargeNone ==
  ASSUME NEW x, Sound(x), NEW size, NEW t, t = None(x)
  PROVE  \E n : Charged(t, size) = None(n) /\ Sound(n)
<1>1. PICK n, N : n = [x EXCEPT !.failed = TRUE] /\ N = {}
  OBVIOUS
<1>2. Shape(x, N)
  BY <1>1 DEF Sound, Readied
<1>3. Shape(n, N) /\ n.ot = x.ot /\ n.uncounted = x.uncounted /\ \A e, u : Contented(x, e, u) => Contented(n, e, u)
  BY <1>1, <1>2, 0 \in Int, Charging
<1>4. Sound(n)
  BY <1>1, <1>3 DEF Sound, Readied
<1>5. Charged(t, size) = None(n)
  <2>1. ~t.found /\ t.mem = x
    BY DEF None
  <2>2. Charged(t, size) = [t EXCEPT !.mem = [t.mem EXCEPT !.failed = TRUE]]
    BY <2>1 DEF Charged
  <2> QED
    BY <1>1, <2>1, <2>2 DEF None
<1> QED
  BY <1>4, <1>5

LEMMA AllocateChunk ==
  ASSUME NEW m, NEW e, NEW u, Readied(m, e, u), NEW size \in Nat, size >= 2
  PROVE  Supplied(m, allocateChunk(m, size), size, e, u, ~attemptToAllocateChunk(m, size).found)
<1>1. PICK t, s, late : t = attemptToAllocateChunk(m, size) /\ s = allocateChunk(m, size) /\ late = (~t.found)
  OBVIOUS
<1>2. s = Charged(Retried(t, size), size)
  BY <1>1, Zenon DEF allocateChunk, Charged, Retried
<1>3. Attempt(m, t, size, e, u)
  BY <1>1, AttemptIs
<1>4. CASE \E x, o : t = Found(x, o) /\ Provided(x, o, size, e, u) /\ x.uncounted = m.uncounted
  <2>1. PICK x, o : t = Found(x, o) /\ Provided(x, o, size, e, u) /\ x.uncounted = m.uncounted
    BY <1>4
  <2>2. PICK b : b = FALSE
    OBVIOUS
  <2>3. t = [found |-> TRUE, oop |-> o, mem |-> x, collected |-> b] /\ Retried(t, size) = t
    BY <2>1, <2>2 DEF Found, Retried
  <2>4. PICK n : /\ Charged(t, size) = [found |-> TRUE, oop |-> o, mem |-> n, collected |-> b]
                 /\ Provided(n, o, size, e, u) /\ n.uncounted = x.uncounted
    <3>1. ChargedFor(t, size, x, o, e, u, b)
      BY <2>1, <2>3, ChargeFound
    <3> QED
      BY <3>1 DEF ChargedFor
  <2>5. s = Found(n, o)
    BY <1>2, <2>2, <2>3, <2>4 DEF Found
  <2> QED
    BY <1>1, <2>1, <2>4, <2>5 DEF Supplied
<1>5. CASE ~\E x, o : t = Found(x, o) /\ Provided(x, o, size, e, u) /\ x.uncounted = m.uncounted
  <2>1. PICK x : t = NotFound(x) /\ Readied(x, e, u) /\ AllPlain(x)
    BY <1>3, <1>5 DEF Attempt
  <2>2. late /\ t.mem = x /\ ~t.found
    <3>1. t.mem = x /\ t.found = FALSE
      BY <2>1 DEF NotFound
    <3>2. late = TRUE
      BY <1>1, <3>1
    <3> QED
      BY <3>1, <3>2
  <2>3. PICK r, a, k : /\ r = reclaimInaccessibleObjects(x) /\ a = attemptToAllocateChunk(r, size)
                       /\ k = Retried(t, size)
    OBVIOUS
  <2>4. Readied(r, One, NilPointer) /\ r.uncounted = NilPointer
    BY <2>1, <2>3, ReclaimReadies
  <2>5. k = [a EXCEPT !.collected = TRUE]
    BY <2>2, <2>3 DEF Retried
  <2>6. Attempt(r, a, size, One, NilPointer)
    BY <2>3, <2>4, AttemptIs
  <2>7. CASE \E y, o : a = Found(y, o) /\ Provided(y, o, size, One, NilPointer) /\ y.uncounted = r.uncounted
    <3>1. PICK y, o : a = Found(y, o) /\ Provided(y, o, size, One, NilPointer)
      BY <2>7
    <3>2. PICK b : b = TRUE
      OBVIOUS
    <3>3. k = [found |-> TRUE, oop |-> o, mem |-> y, collected |-> b]
      BY <2>5, <3>1, <3>2 DEF Found
    <3>4. PICK n : /\ Charged(k, size) = [found |-> TRUE, oop |-> o, mem |-> n, collected |-> b]
                   /\ Provided(n, o, size, One, NilPointer)
      <4>1. PICK f, v : f = One /\ v = NilPointer
        OBVIOUS
      <4>2. Provided(y, o, size, f, v)
        BY <3>1, <4>1
      <4>3. ChargedFor(k, size, y, o, f, v, b)
        BY <3>3, <4>2, ChargeFound
      <4> QED
        BY <4>1, <4>3 DEF ChargedFor
    <3>5. s = Late(n, o)
      BY <1>2, <2>3, <3>2, <3>4 DEF Late
    <3> QED
      BY <1>1, <2>2, <3>4, <3>5 DEF Supplied
  <2>8. CASE ~\E y, o : a = Found(y, o) /\ Provided(y, o, size, One, NilPointer) /\ y.uncounted = r.uncounted
    <3>1. PICK y : a = NotFound(y) /\ Readied(y, One, NilPointer) /\ y.uncounted = r.uncounted
      BY <2>6, <2>8 DEF Attempt
    <3>2. k = None(y) /\ Sound(y)
      BY <2>4, <2>5, <3>1 DEF NotFound, None, Sound
    <3>3. PICK n : Charged(k, size) = None(n) /\ Sound(n)
      BY <3>2, ChargeNone
    <3> QED
      BY <1>1, <1>2, <2>2, <2>3, <3>3 DEF Supplied
  <2> QED
    BY <2>7, <2>8
<1> QED
  BY <1>4, <1>5

(* The header and the fields of a new object.                                *)
Body(e, class, request) ==
  [e EXCEPT !.pointer = request[2], !.class = class, !.size = SizeOf(request),
            !.field = IF request[2] THEN NilFields(request[1]) ELSE <<>>]

BodyOf(e, y, class) ==
  /\ EntryOK(y) /\ ~y.free /\ ~IsChunk(y) /\ SameExtent(e, y) /\ y.count = e.count
  /\ y.class = class /\ Holds(y, 1) = class
  /\ \A j \in 1..SegmentWords : j # 1 => Holds(y, j) = NilPointer

LEMMA NilFieldsAre ==
  ASSUME NEW n \in Nat
  PROVE  /\ NilFields(n) \in Seq(Pointers \cup {NilPointer}) /\ Len(NilFields(n)) = n
         /\ \A i \in DOMAIN NilFields(n) : NilFields(n)[i] = NilPointer
<1>1. PICK f : f = [i \in 1..n |-> NilPointer]
  OBVIOUS
<1>2. f \in Seq(Pointers \cup {NilPointer}) /\ Len(f) = n /\ \A i \in 1..n : f[i] = NilPointer
  BY <1>1
<1>3. PICK g : g = <<>> \o f
  OBVIOUS
<1>4. g \in Seq(Pointers \cup {NilPointer}) /\ Len(g) = n /\ DOMAIN g = 1..n /\ \A i \in 1..n : g[i] = f[i]
  BY <1>2, <1>3
<1>5. NilFields(n) = g
  BY <1>1, <1>3 DEF NilFields
<1> QED
  BY <1>2, <1>4, <1>5

LEMMA BodyIs ==
  ASSUME NEW e, EntryOK(e), IsChunk(e), NEW request \in (0..SegmentWords) \X BOOLEAN,
         e.size = WordsFor(request), NEW class \in Pointers
  PROVE  BodyOf(e, Body(e, class, request), class)
<1>1. PICK n, b, f, s, y : n = request[1] /\ b = request[2] /\ f = (IF b THEN NilFields(n) ELSE <<>>)
                           /\ s = SizeOf(request) /\ y = Body(e, class, request)
  OBVIOUS
<1>2. n \in Nat /\ b \in BOOLEAN /\ s = 2 + n /\ s \in Nat
  BY <1>1, ConstantsAre DEF SizeOf
<1>3. /\ f \in Seq(Pointers \cup {NilPointer}) /\ Len(f) \in Nat /\ Len(f) <= n
      /\ \A i \in DOMAIN f : f[i] = NilPointer
  <2>1. CASE b
    BY <1>1, <1>2, <2>1, NilFieldsAre
  <2>2. CASE ~b
    <3>1. f = <<>> /\ Len(<<>>) = 0 /\ DOMAIN <<>> = {}
      BY <1>1, <2>2
    <3>2. f \in Seq(Pointers \cup {NilPointer})
      BY <3>1, EmptyIs
    <3> QED
      BY <1>2, <3>1, <3>2
  <2> QED
    BY <2>1, <2>2
<1>4. PICK w : w = WordsFor(request)
  OBVIOUS
<1>5. w = IF b /\ s >= HugeSize THEN s + 1 ELSE s
  <2>1. PICK x : x = ExtraWord(request)
    OBVIOUS
  <2>2. w = s + x
    BY <1>1, <1>4, <2>1 DEF WordsFor
  <2>3. CASE b /\ s >= HugeSize
    <3>1. x = 1
      BY <1>1, <2>1, <2>3 DEF ExtraWord
    <3> QED
      BY <2>2, <2>3, <3>1
  <2>4. CASE ~(b /\ s >= HugeSize)
    <3>1. x = 0
      BY <1>1, <2>1, <2>4 DEF ExtraWord
    <3> QED
      BY <1>2, <2>2, <2>4, <3>1
  <2> QED
    BY <2>3, <2>4
<1>6. e \in Entry /\ e.size = w /\ w <= SegmentWords /\ s <= w /\ e.location + w <= SegmentWords
      /\ Space(e) = w
  <2>1. e \in Entry /\ e.size = w /\ Space(e) = w /\ e.size <= SegmentWords
    BY <1>4, EntryIs DEF EntryOK, IsChunk, Space
  <2>2. e.location + Space(e) <= SegmentWords
    BY DEF EntryOK, IsChunk
  <2>3. s <= w
    BY <1>2, <1>5
  <2> QED
    BY <2>1, <2>2, <2>3
<1>7. y = [e EXCEPT !.pointer = b, !.class = class, !.size = s, !.field = f]
  BY <1>1 DEF Body
<1>8. s \in 0..SegmentWords
  <2>1. w \in Nat
    BY <1>2, <1>5
  <2> QED
    BY <1>2, <1>6, <2>1, ConstantsAre
<1>9. /\ y \in Entry /\ y.pointer = b /\ y.class = class /\ y.size = s /\ y.field = f
      /\ y.free = e.free /\ y.count = e.count /\ y.segment = e.segment /\ y.location = e.location
  BY <1>2, <1>3, <1>6, <1>7, <1>8 DEF Entry
<1>10. class # NilPointer
  BY ConstantsAre
<1>11. Space(y) = w
  <2>1. Space(y) = IF s < HugeSize \/ ~b THEN s ELSE s + 1
    BY <1>9, <1>10 DEF Space, spaceOccupiedBy
  <2>2. s < HugeSize <=> ~(s >= HugeSize)
    BY <1>2, ConstantsAre
  <2> QED
    BY <1>5, <2>1, <2>2
<1>12. ~y.free /\ ~IsChunk(y) /\ SameExtent(e, y)
  BY <1>6, <1>9, <1>10, <1>11 DEF IsChunk, SameExtent
<1>13. EntryOK(y)
  <2>1. 2 + Len(f) <= s /\ s >= 2
    BY <1>2, <1>3
  <2>2. y.location + Space(y) <= SegmentWords
    BY <1>6, <1>9, <1>11
  <2>3. y.segment \in 1..Segments
    BY <1>9 DEF EntryOK, IsChunk
  <2> QED
    BY <1>9, <1>10, <1>12, <2>1, <2>2, <2>3 DEF EntryOK, HeaderSize
<1>14. Holds(y, 1) = class
  BY <1>9 DEF Holds
<1>15. \A j \in 1..SegmentWords : j # 1 => Holds(y, j) = NilPointer
  BY <1>3, <1>9 DEF Holds
<1> QED
  BY <1>1, <1>9, <1>12, <1>13, <1>14, <1>15 DEF BodyOf

(* A reference that goes uncounted.                                          *)
LEMMA Uncount ==
  ASSUME NEW ot, Entries(ot), NEW e, NEW D, Exact(ot, e, NilPointer, D), NEW c \in Pointers
  PROVE  Exact(ot, Plus(e, c), c, D)
<1>1. e \in [Pointers -> Nat] /\ D \in SUBSET Slots /\ Plus(e, c) \in [Pointers -> Nat]
  BY PlusIs DEF Exact
<1>2. ASSUME NEW o \in Pointers PROVE CountOK(ot, Plus(e, c), c, D, o)
  <2>1. PICK a, b, d, y : a = ot[o].count /\ b = Cardinality(Refs(ot, D, o)) /\ d = e[o] /\ y = Plus(e, c)[o]
    OBVIOUS
  <2>2. d \in Nat /\ b \in Nat /\ y = (IF o = c THEN d + 1 ELSE d)
    BY <1>1, <2>1, RefsFinite DEF Plus
  <2>3. Extra(NilPointer, o) = 0 /\ Extra(c, o) = IF o = c THEN 1 ELSE 0
    BY ConstantsAre DEF Extra
  <2>4. a = StickyCount \/ a + 0 = b + d
    <3>1. CountOK(ot, e, NilPointer, D, o)
      BY DEF Exact
    <3> QED
      BY <2>1, <2>3, <3>1 DEF CountOK
  <2>5. CASE a = StickyCount
    BY <2>1, <2>5 DEF CountOK
  <2>6. CASE a # StickyCount
    <3>1. EntryOK(ot[o])
      BY DEF Entries
    <3>2. a \in Nat
      BY <2>1, <3>1, EntryIs DEF EntryOK
    <3>3. a + Extra(c, o) = b + y
      BY <2>2, <2>3, <2>4, <2>6, <3>2
    <3> QED
      BY <2>1, <3>3 DEF CountOK
  <2> QED
    BY <2>5, <2>6
<1> QED
  BY <1>1, <1>2 DEF Exact

(* The new object: the slot of its class is set aside until it is written.   *)
LEMMA FillCounts ==
  ASSUME NEW ot, NEW o \in Pointers, IsChunk(ot[o]), Entries(ot), NEW y, NEW class \in Pointers,
         BodyOf(ot[o], y, class), NEW ot2, ot2[o] = y, \A p \in Pointers : p # o => ot2[p] = ot[p],
         NEW e \in [Pointers -> Nat], NEW d, d = Plus(e, class),
         NEW u, NEW N, N = {}, Exact(ot, d, u, N)
  PROVE  Exact(ot2, e, u, N)
<1>1. PICK x, D : x = <<o, 1>> /\ D = {x}
  OBVIOUS
<1>2. x \in Slots /\ x[1] = o /\ x[2] = 1 /\ D \in SUBSET Slots
  BY <1>1, ConstantsAre DEF Slots
<1>3. SameRefs(ot, N, ot2, D)
  <2>1. ASSUME NEW z \in Slots, NEW q \in Pointers
        PROVE  Holds(ot[z[1]], z[2]) = q <=> (z \notin D /\ Holds(ot2[z[1]], z[2]) = q)
    <3>1. z[1] \in Pointers /\ z[2] \in 1..SegmentWords /\ z = <<z[1], z[2]>>
      BY DEF Slots
    <3>2. CASE z[1] # o
      BY <1>1, <1>2, <3>1, <3>2
    <3>3. CASE z[1] = o
      <4>1. Holds(ot[o], z[2]) = NilPointer
        <5>1. EntryOK(ot[o]) /\ ot[o].class = NilPointer
          BY DEF Entries, IsChunk
        <5> QED
          BY <3>1, <5>1, HoldsIs
      <4>2. z \in D \/ Holds(ot2[o], z[2]) = NilPointer
        BY <1>1, <3>1, <3>3 DEF BodyOf
      <4> QED
        BY <3>3, <4>1, <4>2, ConstantsAre
    <3> QED
      BY <3>2, <3>3
  <2> QED
    BY <2>1 DEF SameRefs
<1>4. \A p \in Pointers : ot2[p].count = ot[p].count
  BY DEF BodyOf
<1>5. Exact(ot2, d, u, D)
  BY <1>2, <1>3, <1>4, StaysExact
<1>6. class = Holds(ot2[x[1]], x[2]) /\ N = D \ {x} /\ x \in D
  BY <1>1, <1>2 DEF BodyOf
<1>7. d[class] >= 1
  <2>1. d[class] = e[class] + 1 /\ e[class] \in Nat
    BY DEF Plus
  <2> QED
    BY <2>1
<1>8. Exact(ot2, Minus(d, class), u, N)
  BY <1>5, <1>6, <1>7, PutBack
<1>9. Minus(d, class) = e
  BY PlusIs
<1> QED
  BY <1>8, <1>9

OneIs == One \in [Pointers -> Nat] /\ One[ActiveContext] >= 1

LEMMA OneCounts == OneIs
BY ConstantsAre DEF OneIs, One

NewObject(z, o) ==
  /\ o \in Pointers /\ z.ot[o].class # NilPointer
  /\ Settled(z, One, z.uncounted, {o}) /\ Context(z) /\ Tallied(z)

Filled(n, o, class, request, u) ==
  [Refill(n, o, Body(n.ot[o], class, request)) EXCEPT !.freeOops = @ - 1, !.uncounted = u]

LEMMA FillIs ==
  ASSUME NEW n, NEW o, NEW request \in (0..SegmentWords) \X BOOLEAN, NEW d, NEW w,
         Provided(n, o, WordsFor(request), d, w), NEW class \in Pointers,
         NEW u \in {NilPointer, InitialClass}, Exact(n.ot, Plus(One, class), u, {})
  PROVE  NewObject(Filled(n, o, class, request, u), o)
<1>1. PICK K, N, b, y, x, c, k, z : /\ K = {o} /\ N = {} /\ b = n.ot[o] /\ y = Body(n.ot[o], class, request)
                                 /\ x = Refill(n, o, y) /\ c = Plus(One, class)
                                 /\ k = x.freeOops - 1 /\ z = Filled(n, o, class, request, u)
  OBVIOUS
<1>2. /\ o \in Pointers /\ IsChunk(b) /\ b.size = WordsFor(request) /\ Shape(n, K) /\ Tiled(n.ot)
      /\ Rooted(n.ot, d, w, N) /\ Counted(n.ot, N) /\ Context(n) /\ Tallied(n) /\ Entries(n.ot)
      /\ EntryOK(b) /\ n \in Memory
  BY <1>1, ShapeIs DEF Provided, Contented
<1>3. BodyOf(b, y, class)
  BY <1>1, <1>2, BodyIs
<1>4. EntryOK(y) /\ ~y.free /\ ~IsChunk(y) /\ SameExtent(b, y) /\ y.class = class /\ y.count = b.count
  BY <1>3 DEF BodyOf
<1>5. Refilled(n, x, o, y, K)
  BY <1>1, <1>2, <1>4, RefillIs DEF IsChunk
<1>6. /\ Shape(x, N) /\ x.ot[o] = y /\ \A p \in Pointers : p # o => x.ot[p] = n.ot[p]
      /\ Tiled(x.ot) /\ x.freeOops = n.freeOops
  BY <1>1, <1>2, <1>4, <1>5 DEF Refilled, SameRegisters
<1>7. x \in Memory /\ k \in Int
  <2>1. x \in Memory
    BY <1>6, ShapeIs
  <2>2. PICK j : j = x.freeOops
    OBVIOUS
  <2>3. j \in Int
    BY <2>1, <2>2, MemoryIs
  <2>4. j - 1 \in Int
    BY <2>3
  <2> QED
    BY <1>1, <2>1, <2>2, <2>4
<1>8. z = [x EXCEPT !.freeOops = k, !.uncounted = u]
  BY <1>1 DEF Filled
<1>9. /\ z \in Memory /\ z.ot = x.ot /\ z.freeChunks = x.freeChunks /\ z.freePointers = x.freePointers
      /\ z.freeOops = k /\ z.uncounted = u
  BY <1>7, <1>8, ConstantsAre DEF Memory
<1>10. Shape(z, N) /\ Tiled(z.ot)
  BY <1>6, <1>9 DEF Shape
<1>11. Exact(z.ot, One, u, N)
  <2>1. BodyOf(n.ot[o], y, class) /\ IsChunk(n.ot[o]) /\ z.ot[o] = y
        /\ \A p \in Pointers : p # o => z.ot[p] = n.ot[p]
    BY <1>1, <1>2, <1>3, <1>6, <1>9
  <2>2. Exact(n.ot, c, u, N) /\ One \in [Pointers -> Nat]
    BY <1>1, OneCounts DEF OneIs
  <2>3. PICK e, ot, ot2 : e = One /\ ot = n.ot /\ ot2 = z.ot
    OBVIOUS
  <2>4. /\ o \in Pointers /\ IsChunk(ot[o]) /\ Entries(ot) /\ BodyOf(ot[o], y, class) /\ ot2[o] = y
        /\ \A p \in Pointers : p # o => ot2[p] = ot[p]
    BY <1>2, <2>1, <2>3
  <2>5. e \in [Pointers -> Nat] /\ c = Plus(e, class) /\ N = {} /\ Exact(ot, c, u, N)
    BY <1>1, <2>2, <2>3
  <2>6. Exact(ot2, e, u, N)
    BY <2>4, <2>5, FillCounts
  <2> QED
    BY <2>3, <2>6
<1>12. o # ActiveContext /\ o # InitialClass
  BY <1>1, <1>2, ConstantsAre DEF Rooted, Anchored, IsChunk
<1>13. Rooted(z.ot, One, u, N)
  <2>1. Anchored(z.ot)
    BY <1>2, <1>6, <1>9, <1>12, ConstantsAre DEF Rooted, Anchored
  <2> QED
    BY <1>1, <2>1, OneCounts DEF Rooted, OneIs
<1>14. Counted(z.ot, K)
  BY <1>1, <1>2, <1>6, <1>9 DEF Counted
<1>15. Context(z)
  BY <1>2, <1>6, <1>9, <1>12, ConstantsAre DEF Context
<1>16. Tallied(z)
  <2>1. PICK A, B : A = Blank(n.ot) /\ B = Blank(z.ot)
    OBVIOUS
  <2>2. A \in SUBSET Pointers /\ o \in A /\ B = A \ {o}
    <3>1. z.ot[o].class # NilPointer /\ n.ot[o].class = NilPointer
      BY <1>1, <1>2, <1>4, <1>6, <1>9, ConstantsAre DEF IsChunk
    <3>2. \A p \in Pointers : p # o => z.ot[p].class = n.ot[p].class
      BY <1>6, <1>9
    <3> QED
      BY <1>2, <2>1, <3>1, <3>2 DEF Blank
  <2>3. IsFiniteSet(A) /\ Cardinality(A) \in Nat
    BY <2>2, ConstantsAre, FS_Subset, FS_CardinalityType
  <2>4. Cardinality(B) = Cardinality(A) - 1
    BY <2>2, <2>3, FS_RemoveElement
  <2>5. PICK a, b1, i, j : a = Cardinality(A) /\ b1 = Cardinality(B) /\ i = n.freeOops /\ j = z.freeOops
    OBVIOUS
  <2>6. i \in Int /\ a \in Nat /\ b1 = a - 1 /\ j = i - 1 /\ i - a \in {0, 1}
    BY <1>1, <1>2, <1>6, <1>9, <2>1, <2>3, <2>4, <2>5, MemoryIs DEF Tallied
  <2>7. j - b1 \in {0, 1}
    BY <2>6
  <2> QED
    BY <2>1, <2>5, <2>7 DEF Tallied
<1>17. z.ot[o].class # NilPointer
  BY <1>4, <1>6, <1>9, ConstantsAre
<1> QED
  BY <1>1, <1>2, <1>9, <1>10, <1>11, <1>13, <1>14, <1>15, <1>16, <1>17 DEF NewObject, Settled

(* A new object, or none, and the machine stops.                             *)
Allocated(t) ==
  \/ \E z, o, b : t = [found |-> TRUE, oop |-> o, mem |-> z, collected |-> b] /\ NewObject(z, o)
  \/ \E n : t = None(n) /\ Sound(n)

LateFor(m, class, request) == ~Ready(m, class, request)

LEMMA Allocate ==
  ASSUME NEW m, Sound(m), NEW class \in Pointers, m.ot[class].class # NilPointer,
         NEW request \in (0..SegmentWords) \X BOOLEAN,
         LateFor(m, class, request) => class = InitialClass
  PROVE  Allocated(allocate(m, class, request))
<1>1. PICK N, n, size, d, u, t, late : /\ N = {} /\ n = countUp(m, class) /\ size = WordsFor(request)
                             /\ d = Plus(One, class) /\ u = m.uncounted
                             /\ t = allocateChunk(n, size)
                             /\ late = LateFor(m, class, request)
  OBVIOUS
<1>2. /\ Shape(m, N) /\ Tiled(m.ot) /\ Exact(m.ot, One, u, N) /\ Rooted(m.ot, One, u, N)
      /\ Counted(m.ot, N) /\ Context(m) /\ Tallied(m)
  BY <1>1 DEF Sound, Readied, Contented
<1>3. /\ Recounted(m, n, N) /\ Exact(n.ot, d, u, N) /\ n.ot[class].count >= 1
      /\ \A o \in Pointers : o # class => n.ot[o] = m.ot[o]
  <2>1. class \in Pointers \cup {NilPointer}
    OBVIOUS
  <2>2. PICK e : e = One
    OBVIOUS
  <2>3. Exact(m.ot, e, u, N)
    BY <1>2, <2>2
  <2>4. /\ Recounted(m, countUp(m, class), N) /\ Exact(countUp(m, class).ot, Plus(e, class), u, N)
        /\ countUp(m, class).ot[class].count >= 1
        /\ \A o \in Pointers : o # class => countUp(m, class).ot[o] = m.ot[o]
    BY <1>2, <2>1, <2>3, CountUp
  <2> QED
    BY <1>1, <2>2, <2>4
<1>4. /\ Shape(n, N) /\ Tiled(n.ot) /\ n.uncounted = u /\ n.freeOops = m.freeOops
      /\ \A o \in Pointers : SameBody(m.ot[o], n.ot[o])
  BY <1>1, <1>2, <1>3 DEF Recounted, SameRegisters, SameBodies
<1>5. Context(n) /\ Tallied(n) /\ Anchored(n.ot)
  <2>1. Blank(n.ot) = Blank(m.ot)
    BY <1>4 DEF Blank, SameBody
  <2> QED
    BY <1>2, <1>4, <2>1, ConstantsAre DEF Context, Tallied, SameBody, Rooted, Anchored
<1>6. Rooted(n.ot, d, u, N)
  <2>1. d[ActiveContext] >= 1
    <3>1. PICK i, j : i = One[ActiveContext] /\ j = d[ActiveContext]
      OBVIOUS
    <3>2. i \in Nat /\ i >= 1 /\ (j = i \/ j = i + 1)
      BY <1>1, <3>1, OneCounts, ConstantsAre DEF OneIs, Plus
    <3>3. j >= 1
      BY <3>2
    <3> QED
      BY <3>1, <3>3
  <2> QED
    BY <1>2, <1>5, <2>1 DEF Rooted
<1>7. Counted(n.ot, N)
  <2>1. ASSUME NEW o \in Pointers, n.ot[o].class # NilPointer, n.ot[o].count = 0 PROVE FALSE
    <3>1. CASE o = class
      <4>1. PICK c : c = n.ot[o].count
        OBVIOUS
      <4>2. c >= 1 /\ c = 0
        BY <1>3, <2>1, <3>1, <4>1
      <4> QED
        BY <4>2
    <3>2. CASE o # class
      <4>1. n.ot[o] = m.ot[o]
        BY <1>3, <3>2
      <4> QED
        BY <1>1, <1>2, <2>1, <4>1 DEF Counted
    <3> QED
      BY <3>1, <3>2
  <2> QED
    BY <2>1 DEF Counted
<1>8. Readied(n, d, u)
  BY <1>1, <1>3, <1>4, <1>5, <1>6, <1>7 DEF Readied, Contented
<1>9. size \in Nat /\ size >= 2
  <2>1. request[1] \in Nat
    OBVIOUS
  <2>2. PICK i, j : i = request[1] /\ j = ExtraWord(request)
    OBVIOUS
  <2>3. i \in Nat /\ j \in {0, 1} /\ size = 2 + i + j
    BY <1>1, <2>1, <2>2 DEF WordsFor, SizeOf, ExtraWord, HeaderSize
  <2> QED
    BY <2>3
<1>10. Supplied(n, t, size, d, u, ~attemptToAllocateChunk(n, size).found)
  BY <1>1, <1>8, <1>9, AllocateChunk
<1>11. late <=> ~attemptToAllocateChunk(n, size).found
  BY <1>1, Zenon DEF LateFor, Ready
<1>12. PICK r : r = allocate(m, class, request)
  OBVIOUS
<1>13. r = IF ~t.found THEN t
           ELSE [t EXCEPT
                  !.mem.ot[t.oop] =
                     [@ EXCEPT !.pointer = request[2], !.class = class, !.size = SizeOf(request),
                               !.field = IF request[2] THEN NilFields(request[1]) ELSE <<>>],
                  !.mem.freeOops = @ - 1,
                  !.mem.uncounted = IF t.collected THEN class ELSE @]
  BY <1>1, <1>12, Zenon DEF allocate
<1>14. ASSUME NEW x, NEW o, NEW b, t = [found |-> TRUE, oop |-> o, mem |-> x, collected |-> b], b \in BOOLEAN,
              NEW e, NEW w, Provided(x, o, size, e, w), NEW v, v = (IF b THEN class ELSE x.uncounted),
              v \in {NilPointer, InitialClass}, Exact(x.ot, Plus(One, class), v, N)
       PROVE  Allocated(r)
  <2>1. PICK y, z, k : y = Body(x.ot[o], class, request) /\ z = Filled(x, o, class, request, v) /\ k = x.freeOops - 1
    OBVIOUS
  <2>2. NewObject(z, o)
    BY <1>1, <1>14, <2>1, FillIs
  <2>3. t.found = TRUE /\ t.oop = o /\ t.mem = x /\ t.collected = b
    BY <1>14
  <2>4. r = [t EXCEPT !.mem = [x EXCEPT !.ot[o] = y, !.freeOops = k, !.uncounted = v]]
    <3>1. x \in Memory /\ o \in Pointers
      BY <1>14, ShapeIs DEF Provided
    <3> QED
      BY <1>13, <1>14, <2>1, <2>3, <3>1 DEF Body, Memory
  <2>5. z = [x EXCEPT !.ot[o] = y, !.freeOops = k, !.uncounted = v]
    <3>1. x \in Memory /\ o \in Pointers
      BY <1>14, ShapeIs DEF Provided
    <3> QED
      BY <2>1, <3>1 DEF Filled, Refill, Memory
  <2>6. r = [found |-> TRUE, oop |-> o, mem |-> z, collected |-> b]
    BY <1>14, <2>4, <2>5
  <2> QED
    BY <2>2, <2>6 DEF Allocated
<1>15. CASE \E x, o : t = Found(x, o) /\ Provided(x, o, size, d, u) /\ x.uncounted = n.uncounted
  <2>1. PICK x, o : t = Found(x, o) /\ Provided(x, o, size, d, u) /\ x.uncounted = n.uncounted
    BY <1>15
  <2>2. PICK b, v : b = FALSE /\ v = x.uncounted
    OBVIOUS
  <2>3. t = [found |-> TRUE, oop |-> o, mem |-> x, collected |-> b] /\ b \in BOOLEAN
        /\ v = (IF b THEN class ELSE x.uncounted)
    BY <2>1, <2>2 DEF Found
  <2>4. v = u /\ v \in {NilPointer, InitialClass}
    BY <1>2, <1>4, <2>1, <2>2 DEF Rooted
  <2>5. Exact(x.ot, Plus(One, class), v, N)
    BY <1>1, <2>1, <2>4 DEF Provided, Contented
  <2>6. Allocated(r)
    BY <1>14, <2>1, <2>3, <2>4, <2>5
  <2> QED
    BY <1>12, <2>6
<1>16. CASE \E x, o : t = Late(x, o) /\ Provided(x, o, size, One, NilPointer) /\ late
  <2>1. PICK x, o : t = Late(x, o) /\ Provided(x, o, size, One, NilPointer) /\ late
    BY <1>16
  <2>2. PICK b, v : b = TRUE /\ v = class
    OBVIOUS
  <2>3. t = [found |-> TRUE, oop |-> o, mem |-> x, collected |-> b] /\ b \in BOOLEAN
        /\ v = (IF b THEN class ELSE x.uncounted)
    BY <2>1, <2>2 DEF Late
  <2>4. v \in {NilPointer, InitialClass}
    BY <1>1, <2>1, <2>2
  <2>5. Exact(x.ot, Plus(One, class), v, N)
    <3>1. Exact(x.ot, One, NilPointer, N) /\ Entries(x.ot)
      BY <1>1, <2>1, ShapeIs DEF Provided, Contented
    <3> QED
      BY <2>2, <3>1, Uncount
  <2>6. Allocated(r)
    BY <1>14, <2>1, <2>3, <2>4, <2>5
  <2> QED
    BY <1>12, <2>6
<1>17. CASE \E x : t = None(x) /\ Sound(x)
  <2>1. PICK x : t = None(x) /\ Sound(x)
    BY <1>17
  <2>2. r = t
    <3>1. t.found = FALSE
      BY <2>1 DEF None
    <3> QED
      BY <1>13, <3>1
  <2> QED
    BY <1>12, <2>1, <2>2 DEF Allocated
<1>18. \/ \E x, o : t = Found(x, o) /\ Provided(x, o, size, d, u) /\ x.uncounted = n.uncounted
       \/ \E x, o : t = Late(x, o) /\ Provided(x, o, size, One, NilPointer) /\ late
       \/ \E x : t = None(x) /\ Sound(x)
  BY <1>10, <1>11 DEF Supplied
<1> QED
  BY <1>15, <1>16, <1>17, <1>18

----------------------------------------------------------------------------
(* The operations of the interpreter keep the memory sound.                  *)

LEMMA SoundIs ==
  ASSUME NEW m, Sound(m), NEW N, N = {}
  PROVE  /\ Shape(m, N) /\ Tiled(m.ot) /\ Entries(m.ot) /\ Settled(m, One, m.uncounted, N)
         /\ Exact(m.ot, One, m.uncounted, N) /\ Rooted(m.ot, One, m.uncounted, N) /\ Counted(m.ot, N)
         /\ Context(m) /\ Tallied(m)
BY ShapeIs DEF Sound, Readied, Contented, Settled

LEMMA AccessibleAre ==
  ASSUME NEW m, Sound(m), NEW R, R = Reachable(m, {ActiveContext, InitialClass})
  PROVE  Reached(m.ot, R) /\ \A r \in R : r \in Pointers /\ m.ot[r].class # NilPointer
<1>1. {ActiveContext, InitialClass} = Roots
  BY DEF Roots, Special
<1>2. Entries(m.ot)
  BY SoundIs
<1>3. R = Reachable(m, Roots)
  BY <1>1
<1>4. Reached(m.ot, R)
  BY <1>2, <1>3, ReachableIs
<1>5. PICK Z, e, u : Z = {} /\ e = One /\ u = m.uncounted
  OBVIOUS
<1>6. Settled(m, e, u, Z)
  BY <1>5, SoundIs
<1> QED
  BY <1>4, <1>6, ObjectsReached

LEMMA StoredSound ==
  ASSUME NEW m, Context(m), Tallied(m), NEW n, NEW o, NEW i, NEW v, NEW e, e = One, NEW u, u = m.uncounted,
         NEW Z, Z \subseteq {v}, Stored(m, n, o, i, v, e, u, Z)
  PROVE  Sound(n)
<1>1. Settled(n, One, u, {}) /\ Kept(m, n)
  <2>1. Z \ {v} = {}
    OBVIOUS
  <2> QED
    BY <2>1 DEF Stored
<1>2. n.uncounted = u /\ Tallied(n)
  BY <1>1 DEF Kept, Tallied
<1>3. Context(n)
  <2>1. n.ot[ActiveContext].class # NilPointer
    BY <1>1, ConstantsAre DEF Settled, Rooted, Anchored
  <2> QED
    BY <1>1, <2>1, ConstantsAre DEF Kept, Context
<1> QED
  BY <1>1, <1>2, <1>3 DEF Sound, Readied, Contented, Settled

(* A new object goes into a field of the context.                            *)
LEMMA Instantiate ==
  ASSUME NEW m, NEW o, NewObject(m, o), NEW i \in 1..ContextLength
  PROVE  Sound(storePointer(m, ActiveContext, i, o))
<1>1. PICK Z, a, C, e, u, n : /\ Z = {o} /\ a = ActiveContext /\ C = {<<a, i + 1>>} /\ e = One /\ u = m.uncounted
                              /\ n = storePointer(m, a, i, o)
  OBVIOUS
<1>2. Settled(m, e, u, Z) /\ o \in Pointers /\ m.ot[o].class # NilPointer /\ Context(m) /\ Tallied(m)
  BY <1>1 DEF NewObject
<1>3. a \in Pointers /\ i \in DOMAIN m.ot[a].field
  <2>1. EntryOK(m.ot[a]) /\ a \in Pointers
    BY <1>1, <1>2, ConstantsAre, ShapeIs DEF Settled
  <2>2. PICK f : f = m.ot[a].field
    OBVIOUS
  <2>3. f \in Seq(Pointers \cup {NilPointer}) /\ Len(f) = ContextLength
    BY <1>1, <1>2, <2>1, <2>2, EntryIs DEF EntryOK, Context
  <2>4. i \in DOMAIN f
    BY <2>3
  <2> QED
    BY <2>1, <2>2, <2>4
<1>4. Survivor(m.ot, C, a)
  BY <1>1 DEF Survivor, Roots
<1>5. Stored(m, storePointer(m, a, i, o), a, i, o, e, u, Z)
  <2>1. o \in Pointers \cup {NilPointer} /\ (o # NilPointer => m.ot[o].class # NilPointer)
    BY <1>2
  <2> QED
    BY <1>1, <1>2, <1>3, <1>4, <2>1, Store
<1>6. Stored(m, n, a, i, o, e, u, Z) /\ Z \subseteq {o}
  BY <1>1, <1>5
<1>7. Sound(n)
  BY <1>1, <1>2, <1>6, StoredSound
<1> QED
  BY <1>1, <1>7

(* A pointer of what is reached is stored in a field of what is reached.     *)
LEMMA StoreKeeps ==
  ASSUME NEW m, Sound(m), NEW R, Reached(m.ot, R), NEW o \in R, NEW v \in R \cup {NilPointer},
         NEW i \in DOMAIN m.ot[o].field
  PROVE  Sound(storePointer(m, o, i, v))
<1>1. PICK Z, C, e, u, n : /\ Z = {} /\ C = {<<o, i + 1>>} /\ e = One /\ u = m.uncounted
                           /\ n = storePointer(m, o, i, v)
  OBVIOUS
<1>2. Settled(m, e, u, Z) /\ Context(m) /\ Tallied(m) /\ Entries(m.ot)
  BY <1>1, SoundIs
<1>3. o \in Pointers /\ v \in Pointers \cup {NilPointer} /\ (v # NilPointer => m.ot[v].class # NilPointer)
  BY <1>2, ObjectsReached
<1>4. Survivor(m.ot, C, o)
  <2>1. ASSUME NEW S \in SUBSET Pointers, Roots \subseteq S, ClosedBut(m.ot, S, o) PROVE o \in S
    <3> SUFFICES ASSUME o \notin S PROVE FALSE
      OBVIOUS
    <3>1. ASSUME NEW p \in S, NEW j \in 1..SegmentWords PROVE Holds(m.ot[p], j) \in S \cup {NilPointer}
      <4>1. PICK x : x = <<p, j>>
        OBVIOUS
      <4>2. x \in Slots /\ x[1] = p /\ x[2] = j /\ p # o
        BY <4>1 DEF Slots
      <4>3. Holds(m.ot[p], j) \in Pointers \cup {NilPointer}
        <5>1. EntryOK(m.ot[p])
          BY <1>2 DEF Entries
        <5> QED
          BY <5>1, HoldsIs
      <4> QED
        BY <2>1, <4>2, <4>3 DEF ClosedBut
    <3>2. R \subseteq S
      BY <2>1, <3>1 DEF Reached, SlotClosed
    <3> QED
      BY <3>2
  <2>2. \A x \in C : x[1] = o
    BY <1>1
  <2> QED
    BY <2>1, <2>2 DEF Survivor
<1>5. Stored(m, storePointer(m, o, i, v), o, i, v, e, u, Z)
  BY <1>1, <1>2, <1>3, <1>4, Store
<1>6. Stored(m, n, o, i, v, e, u, Z) /\ Z \subseteq {v}
  BY <1>1, <1>5
<1>7. Sound(n)
  BY <1>1, <1>2, <1>6, StoredSound
<1> QED
  BY <1>1, <1>7

LEMMA CollectKeeps ==
  ASSUME NEW m, Sound(m), GrowingChunks(m) = {}
  PROVE  Sound(reclaimInaccessibleObjects(m))
<1>1. PICK e, u, n : e = One /\ u = m.uncounted /\ n = reclaimInaccessibleObjects(m)
  OBVIOUS
<1>2. Readied(m, e, u)
  BY <1>1 DEF Sound
<1>3. AllPlain(m)
  BY DEF AllPlain, GrowingChunks, Plain, IsChunk
<1>4. Readied(n, One, NilPointer) /\ n.uncounted = NilPointer
  BY <1>1, <1>2, <1>3, ReclaimReadies
<1> QED
  BY <1>1, <1>4 DEF Sound

----------------------------------------------------------------------------
(* primitiveBecome: two entries exchange their chunks, not their counts.     *)

Swap(m, a, b) ==
  [m EXCEPT !.ot[a] = [m.ot[b] EXCEPT !.count = m.ot[a].count],
            !.ot[b] = [m.ot[a] EXCEPT !.count = m.ot[b].count]]

Other(a, b, p) == IF p = a THEN b ELSE IF p = b THEN a ELSE p

(* The table after the exchange: each entry has the chunk of its partner.    *)
Exchanged(ot, ot2, a, b) ==
  \A p \in Pointers : SameBody(ot[Other(a, b, p)], ot2[p]) /\ ot2[p].count = ot[p].count

LEMMA OtherIs ==
  ASSUME NEW a \in Pointers, NEW b \in Pointers, NEW p \in Pointers
  PROVE  Other(a, b, p) \in Pointers /\ Other(a, b, Other(a, b, p)) = p
BY DEF Other

LEMMA SwapTiles ==
  ASSUME NEW ot, NEW ot2, NEW a \in Pointers, NEW b \in Pointers, Tiled(ot), Exchanged(ot, ot2, a, b)
  PROVE  Tiled(ot2)
<1> SUFFICES ASSUME NEW seg \in 1..Segments, NEW w \in HeapWords PROVE TiledAt(ot2, seg, w)
  BY DEF Tiled
<1>1. ASSUME NEW p \in Pointers PROVE Occupies(ot2[p], seg, w) <=> Occupies(ot[Other(a, b, p)], seg, w)
  <2>1. PICK x, y : x = ot[Other(a, b, p)] /\ y = ot2[p]
    OBVIOUS
  <2>2. SameBody(x, y)
    BY <2>1 DEF Exchanged
  <2>3. Space(y) = Space(x)
    BY <2>2, BodiesExtent
  <2>4. Occupies(y, seg, w) <=> Occupies(x, seg, w)
    BY <2>2, <2>3 DEF SameBody, Occupies
  <2> QED
    BY <2>1, <2>4
<1>2. PICK o \in Pointers : /\ Occupies(ot[o], seg, w)
                            /\ \A p \in Pointers : Occupies(ot[p], seg, w) => p = o
  BY DEF Tiled, TiledAt
<1>3. PICK q : q = Other(a, b, o)
  OBVIOUS
<1>4. q \in Pointers /\ Other(a, b, q) = o
  BY <1>3, OtherIs
<1>5. Occupies(ot2[q], seg, w)
  BY <1>1, <1>2, <1>4
<1>6. ASSUME NEW p \in Pointers, Occupies(ot2[p], seg, w) PROVE p = q
  <2>1. Other(a, b, p) \in Pointers /\ Other(a, b, Other(a, b, p)) = p
    BY OtherIs
  <2>2. Other(a, b, p) = o
    BY <1>1, <1>2, <1>6, <2>1
  <2> QED
    BY <1>3, <2>1, <2>2
<1> QED
  BY <1>4, <1>5, <1>6 DEF TiledAt

(* The references are as many as before.                                     *)
LEMMA SwapRefs ==
  ASSUME NEW ot, NEW ot2, NEW a \in Pointers, NEW b \in Pointers,
         \A j : \A p \in Pointers : Holds(ot2[p], j) = Holds(ot[Other(a, b, p)], j), NEW o
  PROVE  Cardinality(Refs(ot2, {}, o)) <= Cardinality(Refs(ot, {}, o))
<1>1. PICK N, S, T : N = {} /\ S = Refs(ot2, N, o) /\ T = Refs(ot, N, o)
  OBVIOUS
<1>2. S \in SUBSET Slots /\ T \in SUBSET Slots /\ IsFiniteSet(T) /\ IsFiniteSet(S)
  BY <1>1, RefsFinite
<1> DEFINE h == [x \in S |-> <<Other(a, b, x[1]), x[2]>>]
<1>3. ASSUME NEW x \in S PROVE h[x] \in T
  <2>1. PICK p, j, y : p = x[1] /\ j = x[2] /\ y = <<Other(a, b, x[1]), x[2]>>
    OBVIOUS
  <2>2. p \in Pointers /\ j \in 1..SegmentWords
    BY <1>2, <2>1 DEF Slots
  <2>3. y \in Slots /\ y[1] = Other(a, b, p) /\ y[2] = j
    BY <2>1, <2>2, OtherIs DEF Slots
  <2>4. Holds(ot2[p], j) = o
    BY <1>1, <2>1 DEF Refs
  <2>5. y \in T
    BY <1>1, <2>2, <2>3, <2>4 DEF Refs
  <2> QED
    BY <2>1, <2>5
<1>4. ASSUME NEW x \in S, NEW y \in S, h[x] = h[y] PROVE x = y
  <2>1. x = <<x[1], x[2]>> /\ y = <<y[1], y[2]>> /\ x[1] \in Pointers /\ y[1] \in Pointers
    BY <1>2 DEF Slots
  <2>2. Other(a, b, x[1]) = Other(a, b, y[1]) /\ x[2] = y[2]
    BY <1>4
  <2>3. x[1] = y[1]
    BY <2>1, <2>2, OtherIs
  <2> QED
    BY <2>1, <2>2, <2>3
<1>5. h \in Injection(S, T)
  <2>1. h \in [S -> T]
    <3>1. h = [x \in S |-> h[x]]
      OBVIOUS
    <3> HIDE DEF h
    <3> QED
      BY <1>3, <3>1
  <2> HIDE DEF h
  <2> QED
    BY <1>4, <2>1 DEF Injection, IsInjective
<1>6. Cardinality(S) <= Cardinality(T)
  <2> HIDE DEF h
  <2> QED
    BY <1>2, <1>5, FS_Injection
<1> QED
  BY <1>1, <1>6

LEMMA SwapCounts ==
  ASSUME NEW ot, NEW ot2, NEW a \in Pointers, NEW b \in Pointers, Exchanged(ot, ot2, a, b),
         NEW e, NEW u, NEW N, N = {}, Exact(ot, e, u, N)
  PROVE  Exact(ot2, e, u, N)
<1>1. \A j : \A p \in Pointers : Holds(ot2[p], j) = Holds(ot[Other(a, b, p)], j)
  BY BodiesExtent DEF Exchanged
<1>2. \A j : \A p \in Pointers : Holds(ot[p], j) = Holds(ot2[Other(a, b, p)], j)
  BY <1>1, OtherIs
<1>3. ASSUME NEW o \in Pointers PROVE CountOK(ot2, e, u, N, o)
  <2>1. Cardinality(Refs(ot2, {}, o)) <= Cardinality(Refs(ot, {}, o))
    BY <1>1, SwapRefs
  <2>2. Cardinality(Refs(ot, {}, o)) <= Cardinality(Refs(ot2, {}, o))
    BY <1>2, SwapRefs
  <2>3. PICK i, j : i = Cardinality(Refs(ot, N, o)) /\ j = Cardinality(Refs(ot2, N, o))
    OBVIOUS
  <2>4. i \in Nat /\ j \in Nat
    BY <2>3, RefsFinite
  <2>5. i = j
    BY <2>1, <2>2, <2>3, <2>4
  <2>6. CountOK(ot, e, u, N, o) /\ ot2[o].count = ot[o].count
    BY DEF Exact, Exchanged
  <2> QED
    BY <2>3, <2>5, <2>6 DEF CountOK
<1> QED
  BY <1>3 DEF Exact

LEMMA BodyWithCount ==
  ASSUME NEW x, EntryOK(x), NEW c \in Nat, c <= StickyCount, x.class # NilPointer,
         NEW y, y = [x EXCEPT !.count = c]
  PROVE  EntryOK(y) /\ ~y.free /\ ~IsChunk(y) /\ ~x.free /\ ~IsChunk(x) /\ SameBody(x, y) /\ y.count = c
<1>1. x \in Entry /\ ~x.free
  BY FreeEntryIs DEF EntryOK
<1>2. c \in 0..StickyCount
  BY ConstantsAre
<1>3. y \in Entry /\ SameBody(x, y) /\ y.count = c
  BY <1>1, <1>2 DEF Entry, SameBody
<1>4. Space(y) = Space(x)
  BY <1>3, BodiesExtent
<1>5. EntryOK(y)
  BY <1>1, <1>3, <1>4 DEF EntryOK, SameBody
<1> QED
  BY <1>1, <1>3, <1>5 DEF SameBody, IsChunk

LEMMA SwapKeeps ==
  ASSUME NEW m, Sound(m), NEW a \in Pointers \ Roots, NEW b \in Pointers \ Roots, a # b,
         m.ot[a].class # NilPointer, m.ot[b].class # NilPointer
  PROVE  Sound(Swap(m, a, b))
<1>1. PICK N, x, y, c, d, xx, yy, k, n : /\ N = {} /\ x = m.ot[a] /\ y = m.ot[b] /\ c = x.count /\ d = y.count
             /\ xx = [y EXCEPT !.count = c] /\ yy = [x EXCEPT !.count = d]
             /\ k = Refill(m, a, xx) /\ n = Refill(k, b, yy)
  OBVIOUS
<1>2. /\ Shape(m, N) /\ Tiled(m.ot) /\ Entries(m.ot) /\ Exact(m.ot, One, m.uncounted, N)
      /\ Rooted(m.ot, One, m.uncounted, N) /\ Counted(m.ot, N) /\ Context(m) /\ Tallied(m)
  BY <1>1, SoundIs
<1>3. EntryOK(x) /\ EntryOK(y) /\ x.class # NilPointer /\ y.class # NilPointer
  BY <1>1, <1>2 DEF Entries
<1>4. c \in Nat /\ c <= StickyCount /\ d \in Nat /\ d <= StickyCount
  BY <1>1, <1>3, EntryIs DEF EntryOK
<1>5. EntryOK(xx) /\ ~xx.free /\ ~IsChunk(xx) /\ ~y.free /\ ~IsChunk(y) /\ SameBody(y, xx) /\ xx.count = c
  BY <1>1, <1>3, <1>4, BodyWithCount
<1>6. EntryOK(yy) /\ ~yy.free /\ ~IsChunk(yy) /\ ~x.free /\ ~IsChunk(x) /\ SameBody(x, yy) /\ yy.count = d
  BY <1>1, <1>3, <1>4, BodyWithCount
<1>7. Refilled(m, k, a, xx, N)
  BY <1>1, <1>2, <1>5, <1>6, RefillIs
<1>8. /\ Shape(k, N) /\ k.ot[a] = xx /\ \A o \in Pointers : o # a => k.ot[o] = m.ot[o]
      /\ SameRegisters(m, k)
  <2>1. N \ {a} = N
    BY <1>1
  <2> QED
    BY <1>7, <2>1 DEF Refilled
<1>9. Refilled(k, n, b, yy, N)
  <2>1. k.ot[b] = y
    BY <1>1, <1>8
  <2>2. ~IsChunk(k.ot[b]) /\ ~k.ot[b].free
    BY <1>5, <2>1
  <2> QED
    BY <1>1, <1>6, <1>8, <2>2, RefillIs
<1>10. /\ Shape(n, N) /\ n.ot[b] = yy /\ n.ot[a] = xx /\ SameRegisters(m, n)
       /\ \A o \in Pointers : o # a /\ o # b => n.ot[o] = m.ot[o]
  <2>1. N \ {b} = N
    BY <1>1
  <2> QED
    BY <1>8, <1>9, <2>1, RegistersTrans DEF Refilled
<1>11. n = Swap(m, a, b)
  <2>1. m \in Memory /\ m.ot \in [Pointers -> Entry]
    BY <1>2, ShapeIs
  <2>2. k = [m EXCEPT !.ot[a] = xx] /\ n = [k EXCEPT !.ot[b] = yy]
    BY <1>1 DEF Refill
  <2>3. Swap(m, a, b) = [m EXCEPT !.ot[a] = xx, !.ot[b] = yy]
    BY <1>1 DEF Swap
  <2> QED
    BY <2>1, <2>2, <2>3 DEF Memory
<1>12. Exchanged(m.ot, n.ot, a, b)
  <2>1. ASSUME NEW p \in Pointers PROVE SameBody(m.ot[Other(a, b, p)], n.ot[p]) /\ n.ot[p].count = m.ot[p].count
    <3>1. CASE p = a
      BY <1>1, <1>5, <1>10, <3>1 DEF Other
    <3>2. CASE p = b
      BY <1>1, <1>6, <1>10, <3>2 DEF Other
    <3>3. CASE p # a /\ p # b
      BY <1>10, <3>3 DEF Other, SameBody
    <3> QED
      BY <3>1, <3>2, <3>3
  <2> QED
    BY <2>1 DEF Exchanged
<1>13. Tiled(n.ot)
  BY <1>2, <1>12, SwapTiles
<1>14. PICK e, u : e = One /\ u = m.uncounted
  OBVIOUS
<1>15. Exact(n.ot, e, u, N)
  <2>1. Exact(m.ot, e, u, N)
    BY <1>2, <1>14
  <2> QED
    BY <1>1, <1>12, <2>1, SwapCounts
<1>16. n.ot[ActiveContext] = m.ot[ActiveContext] /\ n.ot[InitialClass] = m.ot[InitialClass]
  BY <1>10, ConstantsAre DEF Roots, Special
<1>17. Rooted(n.ot, e, u, N) /\ Context(n)
  BY <1>2, <1>14, <1>16 DEF Rooted, Anchored, Context
<1>18. ASSUME NEW p \in Pointers PROVE n.ot[p].class # NilPointer <=> m.ot[p].class # NilPointer
  <2>1. xx.class # NilPointer /\ yy.class # NilPointer
    BY <1>3, <1>5, <1>6 DEF SameBody
  <2>2. CASE p = a \/ p = b
    <3>1. m.ot[a].class # NilPointer /\ m.ot[b].class # NilPointer
      OBVIOUS
    <3>2. n.ot[a].class # NilPointer /\ n.ot[b].class # NilPointer
      BY <1>10, <2>1
    <3> QED
      BY <2>2, <3>1, <3>2
  <2>3. CASE p # a /\ p # b
    BY <1>10, <2>3
  <2> QED
    BY <2>2, <2>3
<1>19. Counted(n.ot, N)
  BY <1>2, <1>12, <1>18 DEF Counted, Exchanged
<1>20. Tallied(n)
  <2>1. Blank(n.ot) = Blank(m.ot)
    BY <1>18 DEF Blank
  <2> QED
    BY <1>2, <1>10, <2>1 DEF Tallied, SameRegisters
<1>21. Sound(n)
  <2>1. n.uncounted = u
    BY <1>10, <1>14 DEF SameRegisters
  <2> QED
    BY <1>1, <1>10, <1>13, <1>14, <1>15, <1>17, <1>19, <1>20, <2>1 DEF Sound, Readied, Contented
<1> QED
  BY <1>11, <1>21

----------------------------------------------------------------------------
(* The snapshot that is loaded.                                              *)

LEMMA SequenceOf ==
  ASSUME NEW S, IsFiniteSet(S)
  PROVE  /\ SetToSeq(S) \in Seq(S) /\ IsInjective(SetToSeq(S)) /\ ToSet(SetToSeq(S)) = S
         /\ Len(SetToSeq(S)) = Cardinality(S)
<1>1. PICK n : n \in Nat /\ ExistsBijection(1..n, S)
  BY FS_NatBijection
<1>2. n = Cardinality(S)
  BY <1>1, FS_CountingElements
<1>3. \E f \in [1..n -> S] : IsInjective(f)
  BY <1>1 DEF ExistsBijection, Bijection, Injection
<1>4. PICK f : f = SetToSeq(S)
  OBVIOUS
<1>5. f \in [1..n -> S] /\ IsInjective(f)
  BY <1>2, <1>3, <1>4 DEF SetToSeq
<1>6. f \in Injection(1..n, S)
  BY <1>5 DEF Injection
<1>7. Cardinality(1..n) = n /\ IsFiniteSet(1..n)
  <2>1. 1 \in Int /\ n \in Int
    BY <1>1
  <2>2. IF 1 > n THEN n = 0 ELSE ~(1 > n)
    BY <1>1
  <2>3. CASE 1 > n
    <3>1. 1..n = {} /\ n = 0
      BY <1>1, <2>3
    <3> QED
      BY <3>1, FS_EmptySet
  <2>4. CASE ~(1 > n)
    BY <2>1, <2>4, FS_Interval
  <2> QED
    BY <2>3, <2>4
<1>8. f \in Surjection(1..n, S)
  BY <1>2, <1>6, <1>7, FS_Injection
<1>9. f \in Seq(S) /\ Len(f) = n /\ DOMAIN f = 1..n
  BY <1>1, <1>5
<1>10. ToSet(f) = S
  BY <1>5, <1>8, <1>9 DEF ToSet, Surjection
<1> QED
  BY <1>2, <1>4, <1>5, <1>9, <1>10

classEntry ==
  [FreeEntry EXCEPT !.free = FALSE, !.count = 2, !.pointer = TRUE,
                    !.segment = 1, !.size = HeaderSize, !.class = InitialClass]
contextEntry ==
  [FreeEntry EXCEPT !.free = FALSE, !.count = 1, !.pointer = TRUE,
                    !.segment = 1, !.location = HeaderSize,
                    !.size = HeaderSize + ContextLength, !.class = InitialClass,
                    !.field = NilFields(ContextLength)]
loaded == HeaderSize + contextEntry.size
unused == SetToSeq(Pointers \ {InitialClass, ActiveContext})
bare ==
  [ot |-> [o \in Pointers |-> IF o = InitialClass THEN classEntry
                              ELSE IF o = ActiveContext THEN contextEntry
                              ELSE FreeEntry],
   freeChunks |-> [seg \in 1..Segments |-> [size \in ChunkSizes |-> <<>>]],
   freePointers |-> unused, currentSegment |-> 1,
   freeWords |-> Segments * SegmentWords - loaded,
   freeOops |-> Len(unused), uncounted |-> NilPointer, failed |-> FALSE]
Used(seg) == IF seg = 1 THEN loaded ELSE 0
restOf(m, seg) ==
  deallocate(obtainPointer_location([m EXCEPT !.currentSegment = seg],
                                    SegmentWords - Used(seg), Used(seg)),
             Head(m.freePointers))
loading(f) == [seg \in 0..Segments |-> IF seg = 0 THEN bare ELSE restOf(f[seg - 1], seg)]
loads == CHOOSE f : f = loading(f)

LEMMA InitIs ==
  Init => om = [loads[Segments] EXCEPT !.currentSegment = 1]
BY Zenon DEF Init, loads, loading, restOf, Used, bare, unused, loaded, contextEntry, classEntry

LEMMA Loading ==
  loads = loading(loads)
<1> DEFINE N == Segments
           step(f, i) == IF i = 0 THEN bare ELSE restOf(f[i - 1], i)
           E == {k \in Nat : \E f : f = [i \in 0..k |-> step(f, i)]}
<1>1. 0 \in E
  <2>1. [i \in 0..0 |-> bare] = [i \in 0..0 |-> step([j \in 0..0 |-> bare], i)]
    OBVIOUS
  <2> QED
    BY <2>1
<1>2. ASSUME NEW k \in 0..N - 1, k \in E PROVE k + 1 \in E
  <2>1. PICK f : f = [i \in 0..k |-> step(f, i)]
    BY <1>2
  <2> DEFINE g == [i \in 0..k + 1 |-> step(f, i)]
  <2>2. k \in Nat /\ k + 1 \in Nat
    OBVIOUS
  <2>3. \A i \in 0..k : g[i] = f[i]
    <3> HIDE DEF step
    <3> QED
      BY <2>1, <2>2
  <2>4. \A i \in 0..k + 1 : step(f, i) = step(g, i)
    <3> HIDE DEF g
    <3> QED
      BY <2>2, <2>3
  <2>5. g = [i \in 0..k + 1 |-> step(g, i)]
    <3>1. g = [i \in 0..k + 1 |-> g[i]]
      <4> HIDE DEF step
      <4> QED
        BY Zenon
    <3>2. \A i \in 0..k + 1 : g[i] = step(f, i)
      BY Zenon
    <3> HIDE DEF g, step
    <3> QED
      BY <2>4, <3>1, <3>2
  <2> HIDE DEF g, step
  <2> QED
    BY <2>2, <2>5
<1>3. N \in E
  <2> HIDE DEF E, N
  <2>1. N \in Nat
    BY ConstantsAre DEF N
  <2>2. 0..N \subseteq E
    BY <1>1, <1>2, <2>1, InductionTo
  <2> QED
    BY <2>1, <2>2
<1>4. PICK f : f = loading(f)
  BY <1>3, Zenon DEF loading
<1> QED
  BY <1>4, Zenon DEF loads

(* The objects of the snapshot.                                              *)
LoadedObjects ==
  /\ EntryOK(classEntry) /\ ~classEntry.free /\ classEntry.class = InitialClass
  /\ classEntry.count = 2 /\ classEntry.field = <<>> /\ classEntry.segment = 1
  /\ classEntry.location = 0 /\ Space(classEntry) = 2
  /\ EntryOK(contextEntry) /\ ~contextEntry.free /\ contextEntry.class = InitialClass
  /\ contextEntry.count = 1 /\ contextEntry.field = NilFields(ContextLength)
  /\ contextEntry.segment = 1 /\ contextEntry.location = 2
  /\ Space(contextEntry) = 2 + ContextLength
  /\ loaded = 4 + ContextLength /\ loaded \in Nat /\ loaded + 2 <= SegmentWords
  /\ ContextLength \in Nat /\ ContextLength >= 1

LEMMA LoadedObjectsAre == LoadedObjects
<1>1. /\ ContextLength \in Nat /\ ContextLength >= 1 /\ 2 + ContextLength < HugeSize
      /\ 2 + 2 + ContextLength + 2 <= SegmentWords
  BY ConstantsOK DEF HeaderSize
<1>2. PICK f, c : f = NilFields(ContextLength) /\ c = ContextLength
  OBVIOUS
<1>3. f \in Seq(Pointers \cup {NilPointer}) /\ Len(f) = c /\ c \in Nat
  BY <1>1, <1>2, NilFieldsAre
<1>4. /\ contextEntry = [FreeEntry EXCEPT !.free = FALSE, !.count = 1, !.pointer = TRUE,
                    !.segment = 1, !.location = 2, !.size = 2 + c, !.class = InitialClass, !.field = f]
      /\ classEntry = [FreeEntry EXCEPT !.free = FALSE, !.count = 2, !.pointer = TRUE,
                    !.segment = 1, !.size = 2, !.class = InitialClass]
  BY <1>2 DEF contextEntry, classEntry, HeaderSize
<1>5. PICK x, y : x = classEntry /\ y = contextEntry
  OBVIOUS
<1>6. /\ x.free = FALSE /\ x.count = 2 /\ x.pointer = TRUE /\ x.segment = 1 /\ x.location = 0
      /\ x.size = 2 /\ x.class = InitialClass /\ x.field = <<>>
  BY <1>4, <1>5 DEF FreeEntry
<1>7. /\ y.free = FALSE /\ y.count = 1 /\ y.pointer = TRUE /\ y.segment = 1 /\ y.location = 2
      /\ y.size = 2 + c /\ y.class = InitialClass /\ y.field = f
  BY <1>4, <1>5 DEF FreeEntry
<1>8. x \in Entry /\ y \in Entry
  <2>1. /\ 1 \in 0..StickyCount /\ 2 \in 0..StickyCount /\ 1 \in 0..Segments /\ 0 \in 0..HeapSpaceStop
        /\ 2 \in 0..HeapSpaceStop /\ 2 \in 0..SegmentWords /\ 2 + c \in 0..SegmentWords
    BY <1>1, <1>2, ConstantsAre
  <2>2. InitialClass \in Pointers \cup {NilPointer} /\ <<>> \in Seq(Pointers \cup {NilPointer})
    BY ConstantsAre
  <2> QED
    BY <1>3, <1>4, <1>5, <2>1, <2>2 DEF Entry, FreeEntry
<1>9. InitialClass # NilPointer
  BY ConstantsAre
<1>10. Space(x) = 2 /\ Space(y) = 2 + c
  BY <1>1, <1>2, <1>6, <1>7, <1>9, ConstantsAre DEF Space, spaceOccupiedBy
<1>11. 1 \in 1..Segments /\ Len(<<>>) = 0
  BY ConstantsAre
<1>12. EntryOK(x)
  <2>1. x.location + Space(x) <= SegmentWords /\ x.size >= 2 /\ 2 + Len(x.field) <= x.size
    <3>1. 0 + 2 <= SegmentWords /\ 2 + 0 <= 2
      BY ConstantsAre
    <3> QED
      BY <1>6, <1>10, <1>11, <3>1
  <2> QED
    BY <1>6, <1>8, <1>9, <1>11, <2>1 DEF EntryOK, HeaderSize
<1>13. EntryOK(y)
  <2>1. y.location + Space(y) <= SegmentWords /\ y.size >= 2 /\ 2 + Len(y.field) <= y.size
    <3>1. 2 + (2 + c) <= SegmentWords /\ 2 + c >= 2 /\ 2 + c <= 2 + c
      BY <1>1, <1>2, ConstantsAre
    <3> QED
      BY <1>3, <1>7, <1>10, <3>1
  <2> QED
    BY <1>7, <1>8, <1>9, <1>11, <2>1 DEF EntryOK, HeaderSize
<1>14. loaded = 4 + c
  BY <1>3, <1>5, <1>7 DEF loaded, HeaderSize
<1> QED
  BY <1>1, <1>2, <1>5, <1>6, <1>7, <1>10, <1>12, <1>13, <1>14 DEF LoadedObjects

(* The first k segments have their free chunk, behind the objects.           *)
Others == Pointers \ {InitialClass, ActiveContext}
FreeOf(ot) == {o \in Pointers : ot[o].free}

Rests(e, k) ==
  /\ e.class = NilPointer
  /\ ~e.free => /\ e.segment \in 1..k /\ e.location = Used(e.segment)
                /\ Space(e) = SegmentWords - Used(e.segment)

LoadedTo(m, k) ==
  /\ Shape(m, {})
  /\ m.ot[InitialClass] = classEntry /\ m.ot[ActiveContext] = contextEntry
  /\ \A o \in Others : Rests(m.ot[o], k)
  /\ \A o, p \in Others : ~m.ot[o].free /\ ~m.ot[p].free /\ m.ot[o].segment = m.ot[p].segment => o = p
  /\ \A seg \in 1..k : \E o \in Others : ~m.ot[o].free /\ m.ot[o].segment = seg
  /\ Cardinality(FreeOf(m.ot)) + k = Cardinality(Others)
  /\ m.freeOops = Cardinality(Others) /\ m.uncounted = NilPointer

LEMMA OthersAre ==
  /\ Others \in SUBSET Pointers /\ IsFiniteSet(Others) /\ Cardinality(Others) \in Nat
  /\ Cardinality(Others) >= Segments
<1>1. PICK a, b, P, A, B : a = InitialClass /\ b = ActiveContext /\ P = Pointers /\ A = P \ {a} /\ B = A \ {b}
  OBVIOUS
<1>2. IsFiniteSet(P) /\ Cardinality(P) \in Nat /\ a \in P /\ b \in A
  BY <1>1, ConstantsAre, FS_CardinalityType
<1>3. IsFiniteSet(A) /\ Cardinality(A) = Cardinality(P) - 1
  BY <1>1, <1>2, FS_RemoveElement
<1>4. IsFiniteSet(B) /\ Cardinality(B) = Cardinality(A) - 1
  BY <1>1, <1>2, <1>3, FS_RemoveElement
<1>5. PICK i, j, k : i = Cardinality(P) /\ j = Cardinality(A) /\ k = Cardinality(B)
  OBVIOUS
<1>6. i \in Nat /\ j = i - 1 /\ k = j - 1 /\ i >= Segments + 2
  BY <1>1, <1>2, <1>3, <1>4, <1>5, ConstantsOK
<1>7. k \in Nat /\ k >= Segments
  BY <1>6, ConstantsAre
<1>8. B = Others
  BY <1>1 DEF Others
<1> QED
  BY <1>1, <1>4, <1>5, <1>7, <1>8

LEMMA BareIs == LoadedTo(bare, 0)
<1>1. PICK N, m, ot, list, S : /\ N = {} /\ m = bare /\ ot = bare.ot /\ list = unused /\ S = Others
  OBVIOUS
<1>2. /\ S \in SUBSET Pointers /\ IsFiniteSet(S) /\ Cardinality(S) \in Nat
  BY <1>1, OthersAre
<1>3. list \in Seq(S) /\ IsInjective(list) /\ ToSet(list) = S /\ Len(list) = Cardinality(S)
  BY <1>1, <1>2, SequenceOf DEF unused, Others
<1>4. list \in Seq(Pointers)
  BY <1>2, <1>3
<1>5. /\ ot = [o \in Pointers |-> IF o = InitialClass THEN classEntry
                                  ELSE IF o = ActiveContext THEN contextEntry ELSE FreeEntry]
      /\ m.freeChunks = NoLists /\ m.freePointers = list /\ m.currentSegment = 1
      /\ m.freeOops = Len(list) /\ m.uncounted = NilPointer /\ m.failed = FALSE
      /\ m.ot = ot
  BY <1>1 DEF bare, NoLists
<1>6. ot[InitialClass] = classEntry /\ ot[ActiveContext] = contextEntry /\ \A o \in S : ot[o] = FreeEntry
  BY <1>1, <1>5, ConstantsAre DEF Others
<1>7. /\ EntryOK(classEntry) /\ ~classEntry.free /\ EntryOK(contextEntry) /\ ~contextEntry.free
      /\ classEntry.class # NilPointer /\ contextEntry.class # NilPointer
      /\ EntryOK(FreeEntry) /\ FreeEntry.free = TRUE /\ FreeEntry.class = NilPointer
      /\ classEntry \in Entry /\ contextEntry \in Entry /\ FreeEntry \in Entry
  BY LoadedObjectsAre, FreeEntryIs, ConstantsAre DEF LoadedObjects, EntryOK
<1>8. \A o \in Pointers : ot[o] \in {classEntry, contextEntry, FreeEntry}
  BY <1>5
<1>9. ot \in [Pointers -> Entry] /\ Entries(ot)
  BY <1>5, <1>7, <1>8 DEF Entries
<1>10. PICK w, c : w = Segments * SegmentWords - loaded /\ c = NoLists
  OBVIOUS
<1>11. w \in Int
  <2>1. PICK j : j = loaded
    OBVIOUS
  <2>2. j \in Nat
    BY <2>1, LoadedObjectsAre DEF LoadedObjects
  <2> QED
    BY <1>10, <2>1, <2>2, ConstantsAre
<1>12. c \in Lists
  BY <1>10, EmptyIs DEF NoLists, Lists
<1>13. m = [ot |-> ot, freeChunks |-> c, freePointers |-> list, currentSegment |-> 1, freeWords |-> w,
            freeOops |-> Len(list), uncounted |-> NilPointer, failed |-> FALSE]
  BY <1>1, <1>5, <1>10 DEF bare, NoLists
<1>14. Len(list) \in Int /\ 1 \in 1..Segments
  BY <1>2, <1>3, ConstantsAre
<1>15. m \in Memory
  BY <1>4, <1>9, <1>11, <1>12, <1>13, <1>14 DEF Memory, Lists
<1>16. FreeOf(ot) = S
  BY <1>1, <1>2, <1>6, <1>7 DEF FreeOf, Others
<1>17. PointersListed(ot, list)
  BY <1>3, <1>16 DEF PointersListed, FreeOf
<1>18. ChunksListed(ot, NoLists, N)
  <2>1. \A seg \in 1..Segments, size \in ChunkSizes : NoLists[seg][size] = <<>>
    BY DEF NoLists
  <2>2. ToSet(<<>>) = {} /\ IsInjective(<<>>)
    BY EmptyIs
  <2>3. \A seg \in 1..Segments, size \in ChunkSizes : ToSet(NoLists[seg][size]) = {} /\ IsInjective(NoLists[seg][size])
    BY <2>1, <2>2
  <2>4. \A o \in Pointers : ~IsChunk(ot[o])
    BY <1>7, <1>8 DEF IsChunk
  <2> QED
    BY <2>3, <2>4 DEF ChunksListed, ListSound
<1>19. Shape(m, N)
  BY <1>5, <1>9, <1>15, <1>17, <1>18 DEF Shape
<1>20. \A o \in S : ot[o].free /\ Rests(ot[o], 0)
  BY <1>6, <1>7 DEF Rests
<1>21. Cardinality(FreeOf(ot)) + 0 = Cardinality(S)
  <2>1. PICK k : k = Cardinality(S)
    OBVIOUS
  <2> QED
    BY <1>2, <1>16, <2>1
<1>22. \A seg \in 1..0 : FALSE
  OBVIOUS
<1> QED
  BY <1>1, <1>3, <1>5, <1>6, <1>19, <1>20, <1>21, <1>22 DEF LoadedTo

LEMMA UsedIs ==
  ASSUME NEW seg
  PROVE  /\ Used(seg) \in Nat /\ SegmentWords - Used(seg) \in Nat /\ SegmentWords - Used(seg) >= 2
         /\ Used(seg) + (SegmentWords - Used(seg)) <= SegmentWords
<1>1. PICK j : j = loaded
  OBVIOUS
<1>2. j \in Nat /\ j + 2 <= SegmentWords
  BY <1>1, LoadedObjectsAre DEF LoadedObjects
<1>3. PICK k : k = Used(seg)
  OBVIOUS
<1>4. k = j \/ k = 0
  BY <1>1, <1>3 DEF Used
<1>5. k \in Nat /\ SegmentWords - k \in Nat /\ SegmentWords - k >= 2 /\ k + (SegmentWords - k) <= SegmentWords
  BY <1>2, <1>4, ConstantsAre
<1> QED
  BY <1>3, <1>5

(* What is left of a segment becomes a free chunk.                           *)
LEMMA RestIs ==
  ASSUME NEW m, NEW k \in Nat, LoadedTo(m, k), NEW seg, seg = k + 1, seg \in 1..Segments
  PROVE  LoadedTo(restOf(m, seg), seg)
<1>1. PICK N, l, a, s, p, x, n, K : /\ N = {} /\ l = [m EXCEPT !.currentSegment = seg] /\ a = Used(seg)
                    /\ s = SegmentWords - Used(seg) /\ p = Head(l.freePointers)
                    /\ x = obtainPointer_location(l, s, a) /\ n = deallocate(x, p) /\ K = {p}
  OBVIOUS
<1>2. Shape(m, N) /\ m \in Memory
  BY <1>1, ShapeIs DEF LoadedTo
<1>3. /\ l \in Memory /\ l.ot = m.ot /\ l.freeChunks = m.freeChunks /\ l.freePointers = m.freePointers
      /\ l.currentSegment = seg /\ SameRegisters(m, l)
  BY <1>1, <1>2 DEF Memory, SameRegisters
<1>4. Shape(l, N)
  BY <1>2, <1>3 DEF Shape
<1>5. a \in Nat /\ s \in Nat /\ s >= 2 /\ a + s <= SegmentWords
  BY <1>1, UsedIs
<1>6. FreeOf(m.ot) # {} /\ IsFiniteSet(FreeOf(m.ot)) /\ Cardinality(FreeOf(m.ot)) \in Nat
  <2>1. PICK F : F = FreeOf(m.ot)
    OBVIOUS
  <2>2. F \in SUBSET Pointers
    BY <2>1 DEF FreeOf
  <2>3. IsFiniteSet(F) /\ Cardinality(F) \in Nat
    BY <2>2, ConstantsAre, FS_Subset, FS_CardinalityType
  <2>4. PICK i, j : i = Cardinality(F) /\ j = Cardinality(Others)
    OBVIOUS
  <2>5. i \in Nat /\ j \in Nat /\ j >= Segments /\ i + k = j
    BY <2>1, <2>3, <2>4, OthersAre DEF LoadedTo
  <2>6. i # 0
    BY <2>5, ConstantsAre
  <2>7. F # {}
    BY <2>4, <2>6, FS_EmptySet
  <2> QED
    BY <2>1, <2>3, <2>7
<1>7. l.freePointers # <<>>
  <2>1. ToSet(l.freePointers) = FreeOf(m.ot)
    BY <1>3, <1>4 DEF Shape, PointersListed, FreeOf
  <2> QED
    BY <1>6, <2>1, EmptyIs
<1>8. Obtained(l, x, p, s, a, N)
  BY <1>1, <1>4, <1>5, <1>7, ObtainPointer
<1>9. /\ p \in Pointers /\ m.ot[p].free /\ Shape(x, K) /\ x.ot[p] = NewEntry(seg, a, s)
      /\ \A q \in Pointers : q # p => x.ot[q] = m.ot[q]
      /\ SameRegisters(l, x)
  <2>1. N \cup {p} = K
    BY <1>1
  <2> QED
    BY <1>3, <1>8, <2>1 DEF Obtained
<1>10. PICK e : e = NewEntry(seg, a, s)
  OBVIOUS
<1>11. Discardable(e) /\ IsChunk(e) /\ e.segment = seg /\ e.location = a /\ Space(e) = s
  BY <1>5, <1>10, NewEntryIs
<1>12. Deallocated(x, n, p, K)
  <2>1. Discardable(x.ot[p]) /\ p \in K
    BY <1>1, <1>9, <1>10, <1>11
  <2> QED
    BY <1>1, <1>9, <2>1, Deallocate
<1>13. PICK y : y = n.ot[p]
  OBVIOUS
<1>14. /\ Shape(n, N) /\ IsChunk(y) /\ y.segment = seg /\ y.location = a /\ Space(y) = s
       /\ \A q \in Pointers : q # p => n.ot[q] = m.ot[q]
       /\ SameRegisters(m, n)
  <2>1. K \ {p} = N
    BY <1>1
  <2>2. EmptiedFrom(e, y) /\ Shape(n, N) /\ SameRegisters(x, n) /\ \A q \in Pointers : q # p => n.ot[q] = x.ot[q]
    BY <1>9, <1>10, <1>12, <1>13, <2>1 DEF Deallocated
  <2>3. SameRegisters(m, n)
    BY <1>3, <1>9, <2>2, RegistersTrans
  <2> QED
    BY <1>9, <1>11, <2>2, <2>3 DEF EmptiedFrom
<1>15. n = restOf(m, seg)
  BY <1>1, <1>3 DEF restOf
<1>16. p # InitialClass /\ p # ActiveContext /\ p \in Others
  <2>1. ~m.ot[InitialClass].free /\ ~m.ot[ActiveContext].free
    BY LoadedObjectsAre DEF LoadedTo, LoadedObjects
  <2> QED
    BY <1>9, <2>1 DEF Others
<1>17. n.ot[InitialClass] = classEntry /\ n.ot[ActiveContext] = contextEntry
  BY <1>14, <1>16, ConstantsAre DEF LoadedTo
<1>18. ASSUME NEW o \in Others PROVE Rests(n.ot[o], seg)
  <2>1. CASE o = p
    <3>1. seg \in 1..seg
      BY <1>5
    <3> QED
      BY <1>1, <1>13, <1>14, <2>1, <3>1 DEF Rests, IsChunk
  <2>2. CASE o # p
    <3>1. n.ot[o] = m.ot[o] /\ Rests(m.ot[o], k)
      BY <1>14, <2>2, OthersAre DEF LoadedTo
    <3>2. \A i \in 1..k : i \in 1..seg
      OBVIOUS
    <3> QED
      BY <3>1, <3>2 DEF Rests
  <2> QED
    BY <2>1, <2>2
<1>19. \A o \in Others : o # p => n.ot[o] = m.ot[o] /\ (~n.ot[o].free => n.ot[o].segment # seg)
  <2>1. ASSUME NEW o \in Others, o # p PROVE n.ot[o] = m.ot[o] /\ (~n.ot[o].free => n.ot[o].segment # seg)
    <3>1. n.ot[o] = m.ot[o] /\ Rests(m.ot[o], k)
      BY <1>14, <2>1, OthersAre DEF LoadedTo
    <3>2. seg \notin 1..k
      OBVIOUS
    <3> QED
      BY <3>1, <3>2 DEF Rests
  <2> QED
    BY <2>1
<1>20. \A o, q \in Others : ~n.ot[o].free /\ ~n.ot[q].free /\ n.ot[o].segment = n.ot[q].segment => o = q
  <2>1. ASSUME NEW o \in Others, NEW q \in Others, ~n.ot[o].free, ~n.ot[q].free, n.ot[o].segment = n.ot[q].segment
        PROVE  o = q
    <3>1. CASE o = p \/ q = p
      BY <1>13, <1>14, <1>19, <2>1, <3>1
    <3>2. CASE o # p /\ q # p
      BY <1>19, <2>1, <3>2 DEF LoadedTo
    <3> QED
      BY <3>1, <3>2
  <2> QED
    BY <2>1
<1>21. ASSUME NEW i \in 1..seg PROVE \E o \in Others : ~n.ot[o].free /\ n.ot[o].segment = i
  <2>1. CASE i = seg
    BY <1>13, <1>14, <1>16, <2>1 DEF IsChunk
  <2>2. CASE i # seg
    <3>1. i \in 1..k
      BY <2>2
    <3>2. PICK o \in Others : ~m.ot[o].free /\ m.ot[o].segment = i
      BY <3>1 DEF LoadedTo
    <3>3. o # p
      BY <1>9, <3>2
    <3> QED
      BY <1>19, <3>2, <3>3
  <2> QED
    BY <2>1, <2>2
<1>22. Cardinality(FreeOf(n.ot)) + seg = Cardinality(Others)
  <2>1. PICK F, G : F = FreeOf(m.ot) /\ G = FreeOf(n.ot)
    OBVIOUS
  <2>2. G = F \ {p} /\ p \in F
    <3>1. ~n.ot[p].free /\ m.ot[p].free /\ p \in Pointers /\ \A q \in Pointers : q # p => n.ot[q].free = m.ot[q].free
      BY <1>9, <1>13, <1>14 DEF IsChunk
    <3> QED
      BY <2>1, <3>1 DEF FreeOf
  <2>3. Cardinality(G) = Cardinality(F) - 1
    BY <1>6, <2>1, <2>2, FS_RemoveElement
  <2>4. PICK i, j, h : i = Cardinality(F) /\ j = Cardinality(G) /\ h = Cardinality(Others)
    OBVIOUS
  <2>5. i \in Nat /\ j = i - 1 /\ i + k = h
    BY <1>6, <2>1, <2>3, <2>4 DEF LoadedTo
  <2>6. j + seg = h
    BY <2>5
  <2> QED
    BY <2>1, <2>4, <2>6
<1>23. n.freeOops = Cardinality(Others) /\ n.uncounted = NilPointer
  BY <1>14 DEF LoadedTo, SameRegisters
<1>24. LoadedTo(n, seg)
  BY <1>1, <1>14, <1>17, <1>18, <1>20, <1>21, <1>22, <1>23 DEF LoadedTo
<1> QED
  BY <1>15, <1>24

LEMMA LoadedAll == LoadedTo(loads[Segments], Segments)
<1> DEFINE E == {k \in Nat : LoadedTo(loads[k], k)}
<1>1. PICK f, n : f = loads /\ n = Segments
  OBVIOUS
<1>2. f = [seg \in 0..n |-> IF seg = 0 THEN bare ELSE restOf(f[seg - 1], seg)]
  BY <1>1, Loading DEF loading
<1>3. n \in Nat /\ n >= 1
  BY <1>1, ConstantsAre
<1>4. f[0] = bare
  <2>1. 0 \in 0..n
    BY <1>3
  <2> QED
    BY <1>2, <2>1, Zenon
<1>5. 0 \in E
  BY <1>1, <1>4, BareIs
<1>6. ASSUME NEW k \in 0..n - 1, k \in E PROVE k + 1 \in E
  <2>1. PICK seg : seg = k + 1
    OBVIOUS
  <2>2. seg \in 0..n /\ seg # 0 /\ seg - 1 = k /\ seg \in 1..Segments /\ k \in Nat /\ seg \in Nat
    BY <1>1, <1>3, <2>1
  <2>3. f[seg] = IF seg = 0 THEN bare ELSE restOf(f[seg - 1], seg)
    BY <1>2, <2>2, Zenon
  <2>4. f[seg] = restOf(f[k], seg)
    BY <2>2, <2>3
  <2>5. LoadedTo(f[k], k)
    BY <1>1, <1>6
  <2>6. LoadedTo(restOf(f[k], seg), seg)
    BY <2>1, <2>2, <2>5, RestIs
  <2> QED
    BY <1>1, <2>1, <2>2, <2>4, <2>6
<1>7. n \in E
  <2> HIDE DEF E
  <2>1. 0..n \subseteq E
    BY <1>3, <1>5, <1>6, InductionTo
  <2> QED
    BY <1>3, <2>1
<1> QED
  BY <1>1, <1>7

(* Which chunk a word is in.                                                 *)
LoadedWord(ot, p, seg, w) ==
  \/ p = InitialClass /\ seg = 1 /\ w < 2
  \/ p = ActiveContext /\ seg = 1 /\ w >= 2 /\ w < loaded
  \/ p \in Others /\ ~ot[p].free /\ ot[p].segment = seg /\ w >= Used(seg)

LEMMA LoadedWords ==
  ASSUME NEW m, LoadedTo(m, Segments), NEW p \in Pointers, NEW seg \in 1..Segments, NEW w \in HeapWords
  PROVE  Occupies(m.ot[p], seg, w) <=> LoadedWord(m.ot, p, seg, w)
<1>1. PICK e, l, c : e = m.ot[p] /\ l = loaded /\ c = ContextLength
  OBVIOUS
<1>2. l = 4 + c /\ l \in Nat /\ c \in Nat /\ w \in Nat /\ w < SegmentWords /\ SegmentWords \in Nat
  <2>1. w \in Nat /\ w < SegmentWords
    BY ConstantsAre DEF HeapWords
  <2> QED
    BY <1>1, <2>1, LoadedObjectsAre, ConstantsAre DEF LoadedObjects
<1>3. CASE p = InitialClass
  <2>1. /\ e = classEntry /\ ~e.free /\ e.segment = 1 /\ e.location = 0 /\ Space(e) = 2
    BY <1>1, <1>3, LoadedObjectsAre DEF LoadedTo, LoadedObjects
  <2>2. Occupies(e, seg, w) <=> seg = 1 /\ w < 2
    BY <1>2, <2>1 DEF Occupies
  <2>3. p # ActiveContext /\ p \notin Others
    BY <1>3, ConstantsAre DEF Others
  <2> QED
    BY <1>1, <1>3, <2>2, <2>3 DEF LoadedWord
<1>4. CASE p = ActiveContext
  <2>1. /\ ~e.free /\ e.segment = 1 /\ e.location = 2 /\ Space(e) = 2 + c
    BY <1>1, <1>4, LoadedObjectsAre DEF LoadedTo, LoadedObjects
  <2>2. Occupies(e, seg, w) <=> seg = 1 /\ w >= 2 /\ w < l
    BY <1>2, <2>1 DEF Occupies
  <2>3. p # InitialClass /\ p \notin Others
    BY <1>4, ConstantsAre DEF Others
  <2> QED
    BY <1>1, <1>4, <2>2, <2>3 DEF LoadedWord
<1>5. CASE p \in Others
  <2>1. p # InitialClass /\ p # ActiveContext
    BY <1>5 DEF Others
  <2>2. Rests(e, Segments)
    BY <1>1, <1>5 DEF LoadedTo
  <2>3. PICK u : u = Used(seg)
    OBVIOUS
  <2>4. u \in Nat /\ SegmentWords - u \in Nat
    BY <2>3, UsedIs
  <2>5. ASSUME ~e.free, e.segment = seg PROVE e.location = u /\ Space(e) = SegmentWords - u
    BY <2>2, <2>3, <2>5 DEF Rests
  <2>6. Occupies(e, seg, w) <=> ~e.free /\ e.segment = seg /\ w >= u
    <3>1. CASE ~e.free /\ e.segment = seg
      <4>1. e.location = u /\ Space(e) = SegmentWords - u
        BY <2>5, <3>1
      <4>2. u <= w /\ w < u + (SegmentWords - u) <=> w >= u
        BY <1>2, <2>4
      <4> QED
        BY <3>1, <4>1, <4>2 DEF Occupies
    <3>2. CASE ~(~e.free /\ e.segment = seg)
      BY <3>2 DEF Occupies
    <3> QED
      BY <3>1, <3>2
  <2> QED
    BY <1>1, <1>5, <2>1, <2>3, <2>6 DEF LoadedWord
<1> QED
  BY <1>3, <1>4, <1>5 DEF Others

LEMMA LoadedTiled ==
  ASSUME NEW m, LoadedTo(m, Segments)
  PROVE  Tiled(m.ot)
<1>1. SUFFICES ASSUME NEW seg \in 1..Segments, NEW w \in HeapWords PROVE TiledAt(m.ot, seg, w)
  BY DEF Tiled
<1>2. PICK ot, l : ot = m.ot /\ l = loaded
  OBVIOUS
<1>3. \A p \in Pointers : Occupies(ot[p], seg, w) <=> LoadedWord(ot, p, seg, w)
  BY <1>2, LoadedWords
<1>4. SUFFICES \E o \in Pointers : /\ LoadedWord(ot, o, seg, w)
                                   /\ \A p \in Pointers : LoadedWord(ot, p, seg, w) => p = o
  BY <1>2, <1>3 DEF TiledAt
<1>5. w \in Nat /\ l \in Nat /\ l >= 4
  <2>1. w \in Nat
    BY ConstantsAre DEF HeapWords
  <2>2. PICK c : c = ContextLength
    OBVIOUS
  <2>3. c \in Nat /\ l = 4 + c
    BY <1>2, <2>2, LoadedObjectsAre DEF LoadedObjects
  <2> QED
    BY <2>1, <2>3
<1>6. PICK u : u = Used(seg)
  OBVIOUS
<1>7. u \in Nat /\ (seg = 1 => u = l) /\ (seg # 1 => u = 0)
  BY <1>2, <1>5, <1>6 DEF Used
<1>8. CASE seg = 1 /\ w < 2
  <2>1. LoadedWord(ot, InitialClass, seg, w)
    BY <1>8 DEF LoadedWord
  <2>2. ASSUME NEW p \in Pointers, LoadedWord(ot, p, seg, w) PROVE p = InitialClass
    <3>1. ~(w >= 2) /\ ~(w >= u)
      BY <1>5, <1>7, <1>8
    <3> QED
      BY <1>6, <2>2, <3>1 DEF LoadedWord
  <2> QED
    BY <2>1, <2>2, ConstantsAre
<1>9. CASE seg = 1 /\ w >= 2 /\ w < l
  <2>1. LoadedWord(ot, ActiveContext, seg, w)
    BY <1>2, <1>9 DEF LoadedWord
  <2>2. ASSUME NEW p \in Pointers, LoadedWord(ot, p, seg, w) PROVE p = ActiveContext
    <3>1. ~(w < 2) /\ ~(w >= u)
      BY <1>5, <1>7, <1>9
    <3> QED
      BY <1>6, <2>2, <3>1 DEF LoadedWord
  <2> QED
    BY <2>1, <2>2, ConstantsAre
<1>10. CASE w >= u
  <2>1. PICK o \in Others : ~ot[o].free /\ ot[o].segment = seg
    BY <1>2 DEF LoadedTo
  <2>2. LoadedWord(ot, o, seg, w) /\ o \in Pointers
    BY <1>6, <1>10, <2>1 DEF LoadedWord, Others
  <2>3. ASSUME NEW p \in Pointers, LoadedWord(ot, p, seg, w) PROVE p = o
    <3>1. ~(seg = 1 /\ w < 2) /\ ~(seg = 1 /\ w < l)
      BY <1>5, <1>7, <1>10
    <3>2. p \in Others /\ ~ot[p].free /\ ot[p].segment = seg
      BY <1>2, <2>3, <3>1 DEF LoadedWord
    <3> QED
      BY <1>2, <2>1, <3>2 DEF LoadedTo
  <2> QED
    BY <2>2, <2>3
<1>11. (seg = 1 /\ w < 2) \/ (seg = 1 /\ w >= 2 /\ w < l) \/ w >= u
  BY <1>5, <1>7
<1> QED
  BY <1>8, <1>9, <1>10, <1>11

(* What refers to what in the snapshot: the two classes.                     *)
LEMMA LoadedRefs ==
  ASSUME NEW m, LoadedTo(m, Segments), NEW N, N = {}, NEW o \in Pointers
  PROVE  Refs(m.ot, N, o) = IF o = InitialClass THEN Anchors ELSE {}
<1>1. PICK ot, c, f : ot = m.ot /\ c = InitialClass /\ f = NilFields(ContextLength)
  OBVIOUS
<1>2. \A i \in DOMAIN f : f[i] = NilPointer
  BY <1>1, NilFieldsAre, LoadedObjectsAre DEF LoadedObjects
<1>3. NilPointer \notin Pointers /\ c \in Pointers /\ ActiveContext \in Pointers /\ c # ActiveContext
  BY <1>1, ConstantsAre
<1>4. ASSUME NEW x \in Slots, Holds(ot[x[1]], x[2]) = o PROVE x \in Anchors /\ o = c
  <2>1. PICK p, j : p = x[1] /\ j = x[2]
    OBVIOUS
  <2>2. p \in Pointers /\ x = <<p, j>>
    BY <2>1 DEF Slots
  <2>3. Holds(ot[p], j) = o /\ o # NilPointer
    BY <1>3, <1>4, <2>1
  <2>4. CASE p = InitialClass
    <3>1. ot[p].class = c /\ ot[p].field = <<>>
      BY <1>1, <2>4, LoadedObjectsAre DEF LoadedTo, LoadedObjects
    <3>2. j = 1 /\ o = c
      BY <2>3, <3>1 DEF Holds
    <3> QED
      BY <2>2, <2>4, <3>2 DEF Anchors
  <2>5. CASE p = ActiveContext
    <3>1. ot[p].class = c /\ ot[p].field = f
      BY <1>1, <2>5, LoadedObjectsAre DEF LoadedTo, LoadedObjects
    <3>2. j = 1 /\ o = c
      BY <1>2, <2>3, <3>1 DEF Holds
    <3> QED
      BY <2>2, <2>5, <3>2 DEF Anchors
  <2>6. CASE p \in Others
    <3>1. EntryOK(ot[p]) /\ ot[p].class = NilPointer
      BY <1>1, <2>2, <2>6, ShapeIs DEF LoadedTo, Rests, Entries
    <3>2. ot[p].field = <<>>
      BY <3>1 DEF EntryOK
    <3>3. Holds(ot[p], j) = NilPointer
      BY <3>1, <3>2 DEF Holds
    <3> QED
      BY <2>3, <3>3
  <2> QED
    BY <2>2, <2>4, <2>5, <2>6 DEF Others
<1>5. ASSUME o = c PROVE Anchors \subseteq Refs(ot, N, o)
  <2>1. ot[c].class = c /\ ot[ActiveContext].class = c
    BY <1>1, LoadedObjectsAre DEF LoadedTo, LoadedObjects
  <2>2. 1 \in 1..SegmentWords
    BY ConstantsAre
  <2>3. <<c, 1>> \in Slots /\ <<ActiveContext, 1>> \in Slots
    BY <1>3, <2>2 DEF Slots
  <2>4. Holds(ot[c], 1) = c /\ Holds(ot[ActiveContext], 1) = c
    BY <2>1 DEF Holds
  <2> QED
    BY <1>1, <1>5, <2>3, <2>4 DEF Refs, Anchors
<1>6. Refs(ot, N, o) \subseteq Anchors
  BY <1>4 DEF Refs
<1>7. o # c => Refs(ot, N, o) = {}
  BY <1>4 DEF Refs
<1> QED
  BY <1>1, <1>5, <1>6, <1>7

LEMMA TwoAnchors == Cardinality(Anchors) = 2 /\ Cardinality({}) = 0
<1>1. PICK a, b, S : a = <<InitialClass, 1>> /\ b = <<ActiveContext, 1>> /\ S = {a}
  OBVIOUS
<1>2. a # b /\ Anchors = S \cup {b} /\ b \notin S
  BY <1>1, ConstantsAre DEF Anchors
<1>3. IsFiniteSet(S) /\ Cardinality(S) = 1
  BY <1>1, FS_Singleton
<1>4. Cardinality(S \cup {b}) = Cardinality(S) + 1
  BY <1>2, <1>3, FS_AddElement
<1> QED
  BY <1>2, <1>3, <1>4, FS_EmptySet

LEMMA LoadedExact ==
  ASSUME NEW m, LoadedTo(m, Segments), NEW N, N = {}, NEW e, e = One
  PROVE  Exact(m.ot, e, NilPointer, N)
<1>1. e \in [Pointers -> Nat] /\ N \in SUBSET Slots
  BY OneCounts DEF OneIs
<1>2. ASSUME NEW o \in Pointers PROVE CountOK(m.ot, e, NilPointer, N, o)
  <2>1. PICK c, k : c = m.ot[o].count /\ k = Cardinality(Refs(m.ot, N, o))
    OBVIOUS
  <2>2. Extra(NilPointer, o) = 0
    BY ConstantsAre DEF Extra
  <2>3. CASE o = InitialClass
    <3>1. c = 2
      BY <2>1, <2>3, LoadedObjectsAre DEF LoadedTo, LoadedObjects
    <3>2. Refs(m.ot, N, o) = Anchors
      BY <2>3, LoadedRefs, ConstantsAre
    <3>3. k = 2
      BY <2>1, <3>2, TwoAnchors
    <3>4. e[o] = 0
      BY <2>3, ConstantsAre DEF One
    <3> QED
      BY <2>1, <2>2, <3>1, <3>3, <3>4 DEF CountOK
  <2>4. CASE o = ActiveContext
    <3>1. c = 1
      BY <2>1, <2>4, LoadedObjectsAre DEF LoadedTo, LoadedObjects
    <3>2. Refs(m.ot, N, o) = {}
      BY <2>4, LoadedRefs, ConstantsAre
    <3>3. k = 0
      BY <2>1, <3>2, TwoAnchors
    <3>4. e[o] = 1
      BY <2>4, ConstantsAre DEF One
    <3> QED
      BY <2>1, <2>2, <3>1, <3>3, <3>4 DEF CountOK
  <2>5. CASE o \in Others
    <3>1. k = 0 /\ e[o] = 0
      BY <2>1, <2>5, LoadedRefs, TwoAnchors, ConstantsAre DEF One, Others
    <3>2. EntryOK(m.ot[o]) /\ m.ot[o].class = NilPointer
      BY <2>5, ShapeIs DEF LoadedTo, Rests, Entries
    <3>3. c = 0
      BY <2>1, <3>2 DEF EntryOK
    <3> QED
      BY <2>1, <2>2, <3>1, <3>3 DEF CountOK
  <2> QED
    BY <2>3, <2>4, <2>5 DEF Others
<1> QED
  BY <1>1, <1>2 DEF Exact

(* The memory the machine starts with.                                       *)
LEMMA InitSound == Init => Sound(om)
<1>1. PICK m, N, e, n : /\ m = loads[Segments] /\ N = {} /\ e = One
                        /\ n = [loads[Segments] EXCEPT !.currentSegment = 1]
  OBVIOUS
<1>2. LoadedTo(m, Segments)
  BY <1>1, LoadedAll
<1>3. Shape(m, N) /\ m \in Memory
  BY <1>1, <1>2, ShapeIs DEF LoadedTo
<1>4. 1 \in 1..Segments
  BY ConstantsAre
<1>5. /\ n \in Memory /\ n.ot = m.ot /\ n.freeChunks = m.freeChunks /\ n.freePointers = m.freePointers
      /\ n.freeOops = m.freeOops /\ n.uncounted = m.uncounted
  BY <1>1, <1>3, <1>4 DEF Memory
<1>6. Shape(n, N)
  BY <1>3, <1>5 DEF Shape
<1>7. Tiled(n.ot)
  BY <1>2, <1>5, LoadedTiled
<1>8. Exact(m.ot, e, NilPointer, N)
  BY <1>1, <1>2, LoadedExact
<1>9. n.uncounted = NilPointer
  BY <1>2, <1>5 DEF LoadedTo
<1>10. Rooted(m.ot, e, NilPointer, N)
  <2>1. m.ot[InitialClass].class = InitialClass /\ m.ot[ActiveContext].class = InitialClass
    BY <1>2, LoadedObjectsAre DEF LoadedTo, LoadedObjects
  <2>2. e[ActiveContext] >= 1
    BY <1>1, OneCounts DEF OneIs
  <2> QED
    BY <1>1, <2>1, <2>2 DEF Rooted, Anchored
<1>11. Counted(m.ot, N)
  <2>1. \A o \in Others : m.ot[o].class = NilPointer
    BY <1>2 DEF LoadedTo, Rests
  <2>2. m.ot[InitialClass].count = 2 /\ m.ot[ActiveContext].count = 1
    BY <1>2, LoadedObjectsAre DEF LoadedTo, LoadedObjects
  <2> QED
    BY <2>1, <2>2 DEF Counted, Others
<1>12. Context(m)
  <2>1. m.ot[ActiveContext].field = NilFields(ContextLength) /\ ContextLength \in Nat
    BY <1>2, LoadedObjectsAre DEF LoadedTo, LoadedObjects
  <2> QED
    BY <2>1, NilFieldsAre DEF Context
<1>13. Tallied(m)
  <2>1. \A o \in Others : m.ot[o].class = NilPointer
    BY <1>2 DEF LoadedTo, Rests
  <2>2. m.ot[InitialClass].class # NilPointer /\ m.ot[ActiveContext].class # NilPointer
    BY <1>2, LoadedObjectsAre, ConstantsAre DEF LoadedTo, LoadedObjects
  <2>3. Blank(m.ot) = Others
    BY <2>1, <2>2 DEF Blank, Others
  <2>4. PICK k, j : k = Cardinality(Others) /\ j = m.freeOops
    OBVIOUS
  <2>5. k \in Nat /\ j = k
    BY <1>2, <2>4, OthersAre DEF LoadedTo
  <2>6. j - k = 0
    BY <2>5
  <2> QED
    BY <2>3, <2>4, <2>6 DEF Tallied
<1>14. Context(n) /\ Tallied(n)
  BY <1>5, <1>12, <1>13 DEF Context, Tallied
<1>15. Sound(n)
  BY <1>1, <1>5, <1>6, <1>7, <1>8, <1>9, <1>10, <1>11, <1>14 DEF Sound, Readied, Contented
<1> QED
  BY <1>1, <1>15, InitIs

----------------------------------------------------------------------------
(* The specification.                                                        *)

(* An allocation that collects forgets that the class was counted up         *)
(* (allocate_odd_pointer_extra_class counts it before it looks for a chunk). *)
(* The reference that is then not counted does no harm when the class is     *)
(* InitialClass, which the special objects hold; any other class is freed    *)
(* while the object lives, once its other references are gone.  So this is   *)
(* what the theorems assume of every step: when the object is one of any     *)
(* other class, its chunk is found without a collection.                     *)
ForgetsInitialClassOnly ==
  \A class \in Accessible \cap ClassPointers, request \in Requests, i \in 1..ContextLength :
    instantiateClass(class, request, i) => Ready(om, class, request) \/ class = InitialClass

(* instantiateClass_withPointers, _withWords and _withBytes.                 *)
LEMMA InstantiateKeeps ==
  ASSUME Sound(om), ForgetsInitialClassOnly, NEW class \in Accessible \cap ClassPointers, NEW request \in Requests,
         NEW i \in 1..ContextLength, instantiateClass(class, request, i)
  PROVE  Sound(om')
<1>1. PICK m, t, R : m = om /\ t = allocate(om, class, request) /\ R = Accessible
  OBVIOUS
<1>2. R = Reachable(m, {ActiveContext, InitialClass}) /\ class \in R /\ Sound(m)
  BY <1>1 DEF Accessible
<1>3. class \in Pointers /\ m.ot[class].class # NilPointer
  BY <1>2, AccessibleAre
<1>4. LateFor(m, class, request) => class = InitialClass
  BY <1>1 DEF LateFor, ForgetsInitialClassOnly
<1>5. request \in (0..SegmentWords) \X BOOLEAN
  BY ConstantsOK
<1>6. Allocated(t)
  <2>1. Allocated(allocate(m, class, request))
    BY <1>2, <1>3, <1>4, <1>5, Allocate
  <2> QED
    BY <1>1, <2>1
<1>7. om' = IF t.found THEN storePointer(t.mem, ActiveContext, i, t.oop) ELSE t.mem
  BY <1>1, Zenon DEF instantiateClass
<1>8. CASE \E z, o, b : t = [found |-> TRUE, oop |-> o, mem |-> z, collected |-> b] /\ NewObject(z, o)
  <2>1. PICK z, o, b : t = [found |-> TRUE, oop |-> o, mem |-> z, collected |-> b] /\ NewObject(z, o)
    BY <1>8
  <2>2. t.found = TRUE /\ t.mem = z /\ t.oop = o
    BY <2>1
  <2>3. om' = storePointer(z, ActiveContext, i, o)
    BY <1>7, <2>2
  <2> QED
    BY <2>1, <2>3, Instantiate
<1>9. CASE \E n : t = None(n) /\ Sound(n)
  <2>1. PICK n : t = None(n) /\ Sound(n)
    BY <1>9
  <2>2. t.found = FALSE /\ t.mem = n
    BY <2>1 DEF None
  <2>3. om' = n
    BY <1>7, <2>2
  <2> QED
    BY <2>1, <2>3
<1> QED
  BY <1>6, <1>8, <1>9 DEF Allocated

(* Every operation keeps the memory sound.                                   *)
LEMMA NextKeeps ==
  ASSUME Sound(om), ForgetsInitialClassOnly, ChunksPlain, Next
  PROVE  Sound(om')
<1>1. PICK m, R : m = om /\ R = Accessible
  OBVIOUS
<1>2. R = Reachable(m, {ActiveContext, InitialClass}) /\ Sound(m)
  BY <1>1 DEF Accessible
<1>3. Reached(m.ot, R) /\ \A r \in R : r \in Pointers /\ m.ot[r].class # NilPointer
  BY <1>2, AccessibleAre
<1>4. ASSUME NEW class \in Accessible \cap ClassPointers, NEW request \in Requests,
             NEW i \in 1..ContextLength, instantiateClass(class, request, i)
      PROVE  Sound(om')
  BY <1>4, InstantiateKeeps
<1>5. ASSUME NEW o \in Accessible, NEW v \in Accessible \cup {NilPointer}, NEW i \in DOMAIN om.ot[o].field,
             storePointer_ofObject_withValue(i, o, v)
      PROVE  Sound(om')
  <2>1. o \in R /\ v \in R \cup {NilPointer} /\ i \in DOMAIN m.ot[o].field
    BY <1>1
  <2>2. om' = storePointer(m, o, i, v)
    BY <1>1, <1>5 DEF storePointer_ofObject_withValue
  <2> QED
    BY <1>2, <1>3, <2>1, <2>2, StoreKeeps
<1>6. CASE garbageCollect
  <2>1. om' = reclaimInaccessibleObjects(m) /\ GrowingChunks(m) = {}
    BY <1>1, <1>6 DEF garbageCollect
  <2> QED
    BY <1>2, <2>1, CollectKeeps
<1>7. ASSUME NEW a \in Accessible \ Roots, NEW b \in Accessible \ Roots, a # b, swapPointersOf_and(a, b)
      PROVE  Sound(om')
  <2>1. /\ a \in Pointers \ Roots /\ b \in Pointers \ Roots
        /\ m.ot[a].class # NilPointer /\ m.ot[b].class # NilPointer
    BY <1>1, <1>3
  <2>2. om' = Swap(m, a, b)
    BY <1>1, <1>7, Zenon DEF swapPointersOf_and, Swap
  <2> QED
    BY <1>2, <1>7, <2>1, <2>2, SwapKeeps
<1>8. CASE Stopped
  BY <1>8 DEF Stopped
<1> QED
  BY <1>4, <1>5, <1>6, <1>7, <1>8, Zenon DEF Next

(* What a sound memory is.                                                   *)
LEMMA SoundLists == Sound(om) => FreeListsSound
<1> SUFFICES ASSUME Sound(om) PROVE FreeListsSound
  OBVIOUS
<1>1. PICK m, N, ot, c : m = om /\ N = {} /\ ot = om.ot /\ c = om.freeChunks
  OBVIOUS
<1>2. Shape(m, N) /\ Counted(ot, N) /\ Tallied(m) /\ Entries(ot)
  BY <1>1, SoundIs
<1>3. m \in Memory /\ PointersListed(ot, m.freePointers) /\ c \in Lists /\ ChunksListed(ot, c, N)
  BY <1>1, <1>2, ShapeIs
<1>4. \A seg \in 1..Segments : /\ IsInjective(freeChunksOf(m, seg))
                               /\ ToSet(freeChunksOf(m, seg)) = {o \in Pointers : IsChunk(ot[o]) /\ ot[o].segment = seg}
  <2>1. ASSUME NEW seg \in 1..Segments
        PROVE  /\ IsInjective(freeChunksOf(m, seg))
               /\ ToSet(freeChunksOf(m, seg)) =
                     {o \in Pointers : IsChunk(m.ot[o]) /\ m.ot[o].segment = seg /\ o \notin N}
    BY <1>2, FreeChunksAre
  <2> QED
    BY <1>1, <2>1
<1>5. \A o \in Pointers : EntryOK(ot[o])
  BY <1>2 DEF Entries
<1>6. FreeChunks = {o \in Pointers : IsChunk(ot[o])}
  <2>1. \A o \in Pointers : IsChunk(ot[o]) => ot[o].segment \in 1..Segments
    BY <1>5 DEF EntryOK, IsChunk
  <2> QED
    BY <1>1, <1>4, <2>1 DEF FreeChunks, ListedChunks
<1>7. ASSUME NEW seg \in 1..Segments, NEW size \in ChunkSizes, NEW o, o \in ToSet(c[seg][size])
      PROVE  ot[o].segment = seg /\ ot[o].size >= HeaderSize /\ (size < BigSize => ot[o].size = size)
  <2>1. o \in Pointers
    BY <1>3, <1>7, ListIs
  <2>2. ListedAt(ot[o], seg, size)
    BY <1>3, <1>7, ListedIs
  <2>3. EntryOK(ot[o])
    BY <1>5, <2>1
  <2> QED
    BY <2>2, <2>3 DEF ListedAt, IsChunk, EntryOK
<1>8. om.freeOops - auditFreeOops(om) \in {0, 1}
  <2>1. \A o \in Pointers : hasObject(ot[o]) <=> ot[o].class # NilPointer
    <3>1. ASSUME NEW o \in Pointers PROVE hasObject(ot[o]) <=> ot[o].class # NilPointer
      <4>1. EntryOK(ot[o]) /\ (ot[o].class # NilPointer => ot[o].count # 0)
        BY <1>1, <1>2, <1>5 DEF Counted
      <4>2. (ot[o].free => ot[o].class = NilPointer) /\ (ot[o].class = NilPointer => ot[o].count = 0)
        BY <4>1, FreeEntryIs DEF EntryOK
      <4> QED
        BY <4>1, <4>2 DEF hasObject
    <3> QED
      BY <3>1
  <2>2. {o \in Pointers : ~hasObject(ot[o])} = Blank(ot)
    BY <2>1 DEF Blank
  <2>3. auditFreeOops(om) = Cardinality(Blank(ot))
    BY <1>1, <2>2 DEF auditFreeOops
  <2> QED
    BY <1>1, <1>2, <2>3 DEF Tallied
<1>9. TypeOK
  BY <1>1, <1>3 DEF TypeOK
<1>10. IsInjective(om.freePointers) /\ ToSet(om.freePointers) = {o \in Pointers : om.ot[o].free}
  BY <1>1, <1>3 DEF PointersListed
<1>11. FreeChunks = {o \in Pointers : InUse(o) /\ om.ot[o].class = NilPointer}
  BY <1>1, <1>6 DEF IsChunk, InUse
<1>12. \A seg \in 1..Segments : IsInjective(freeChunksOf(om, seg))
  BY <1>1, <1>4
<1> QED
  BY <1>1, <1>7, <1>8, <1>9, <1>10, <1>11, <1>12 DEF FreeListsSound

LEMMA SoundTiled == Sound(om) => HeapTiled
<1> SUFFICES ASSUME Sound(om) PROVE HeapTiled
  OBVIOUS
<1>1. PICK ot : ot = om.ot
  OBVIOUS
<1>2. Tiled(ot) /\ Entries(ot)
  BY <1>1, SoundIs
<1>3. ASSUME NEW seg \in 1..Segments, NEW o \in Pointers, InUse(o), ot[o].segment = seg, NEW w
      PROVE  w \in Words(o) <=> w \in HeapWords /\ Occupies(ot[o], seg, w)
  <2>1. EntryOK(ot[o]) /\ ~ot[o].free
    BY <1>1, <1>2, <1>3 DEF Entries, InUse
  <2>2. PICK a, b : a = ot[o].location /\ b = Space(ot[o])
    OBVIOUS
  <2>3. a \in Nat /\ b \in Nat /\ a + b <= SegmentWords
    BY <2>1, <2>2, ChunkLies
  <2>4. Words(o) = a..a + b - 1
    BY <1>1, <2>2 DEF Words, WordsOf
  <2>5. Occupies(ot[o], seg, w) <=> a <= w /\ w < a + b
    BY <1>3, <2>1, <2>2 DEF Occupies
  <2>6. w \in a..a + b - 1 <=> w \in 0..SegmentWords - 1 /\ a <= w /\ w < a + b
    BY <2>3, ConstantsAre
  <2> QED
    BY <2>4, <2>5, <2>6, ConstantsAre DEF HeapWords
<1>4. ASSUME NEW seg \in 1..Segments, NEW C, C = {o \in Pointers : InUse(o) /\ ot[o].segment = seg}
      PROVE  /\ \A a, b \in C : a # b => Words(a) \cap Words(b) = {}
             /\ UNION {Words(o) : o \in C} = HeapWords
  <2>1. ASSUME NEW a \in C, NEW b \in C, NEW w, w \in Words(a), w \in Words(b) PROVE a = b
    <3>1. w \in HeapWords /\ Occupies(ot[a], seg, w) /\ Occupies(ot[b], seg, w)
      BY <1>3, <1>4, <2>1
    <3>2. TiledAt(ot, seg, w)
      BY <1>2, <3>1 DEF Tiled
    <3> QED
      BY <1>4, <3>1, <3>2 DEF TiledAt
  <2>2. \A o \in C : Words(o) \subseteq HeapWords
    BY <1>3, <1>4
  <2>3. ASSUME NEW w \in HeapWords PROVE \E o \in C : w \in Words(o)
    <3>1. PICK o \in Pointers : Occupies(ot[o], seg, w)
      BY <1>2 DEF Tiled, TiledAt
    <3>2. o \in C
      BY <1>1, <1>4, <3>1 DEF Occupies, InUse
    <3> QED
      BY <1>3, <1>4, <3>1, <3>2
  <2> QED
    BY <2>1, <2>2, <2>3
<1> QED
  BY <1>1, <1>4 DEF HeapTiled, HeapWords

LEMMA SoundCounts == Sound(om) => CountsExact
<1> SUFFICES ASSUME Sound(om) PROVE CountsExact
  OBVIOUS
<1>1. PICK N, ot, e, u : N = {} /\ ot = om.ot /\ e = One /\ u = om.uncounted
  OBVIOUS
<1>2. Exact(ot, e, u, N) /\ Entries(ot)
  BY <1>1, SoundIs
<1>3. ASSUME NEW o \in Pointers PROVE References(om, o) = Refs(ot, N, o)
  <2>1. References(om, o) = {x \in Slots : /\ x[2] \in DOMAIN PointersIn(ot[x[1]])
                                           /\ PointersIn(ot[x[1]])[x[2]] = o}
    BY <1>1 DEF References, Slots
  <2>2. ASSUME NEW x \in Slots
        PROVE  x[2] \in DOMAIN PointersIn(ot[x[1]]) /\ PointersIn(ot[x[1]])[x[2]] = o <=>
               Holds(ot[x[1]], x[2]) = o
    <3>1. PICK y, j : y = ot[x[1]] /\ j = x[2]
      OBVIOUS
    <3>2. EntryOK(y) /\ j \in 1..SegmentWords
      BY <1>2, <3>1 DEF Slots, Entries
    <3>3. o # NilPointer
      BY ConstantsAre
    <3>4. CASE y.class # NilPointer
      <4>1. PICK s, n : s = PointersIn(y) /\ n = Len(PointersIn(y))
        OBVIOUS
      <4>2. /\ n \in 1..SegmentWords /\ DOMAIN s = 1..n
            /\ \A k \in 1..n : s[k] = Holds(y, k)
            /\ \A k \in 1..SegmentWords : k > n => Holds(y, k) = NilPointer
        BY <3>2, <3>4, <4>1, PointersOf
      <4>3. j \in 1..n \/ j > n
        BY <3>2, <4>2
      <4>4. ~(j \in 1..n /\ j > n)
        BY <3>2, <4>2
      <4> QED
        BY <3>1, <3>2, <3>3, <4>1, <4>2, <4>3, <4>4
    <3>5. CASE y.class = NilPointer
      <4>1. y.field = <<>> /\ Holds(y, j) = NilPointer
        BY <3>2, <3>5, HoldsIs DEF EntryOK
      <4>2. PointersIn(y) = <<NilPointer>>
        BY <3>5, <4>1 DEF PointersIn
      <4>3. \A k \in DOMAIN PointersIn(y) : PointersIn(y)[k] = NilPointer
        BY <4>2
      <4> QED
        BY <3>1, <3>3, <4>1, <4>3
    <3> QED
      BY <3>4, <3>5
  <2>3. Refs(ot, N, o) = {x \in Slots : Holds(ot[x[1]], x[2]) = o}
    BY <1>1 DEF Refs
  <2> QED
    BY <2>1, <2>2, <2>3
<1>4. ASSUME NEW o \in Objects(om)
      PROVE  \/ om.ot[o].count = StickyCount
             \/ om.ot[o].count + (IF o = om.uncounted THEN 1 ELSE 0) =
                   Cardinality(References(om, o)) + (IF o = ActiveContext THEN 1 ELSE 0)
  <2>1. o \in Pointers
    BY DEF Objects
  <2>2. CountOK(ot, e, u, N, o) /\ References(om, o) = Refs(ot, N, o)
    BY <1>2, <1>3, <2>1 DEF Exact
  <2>3. e[o] = IF o = ActiveContext THEN 1 ELSE 0
    BY <1>1, <2>1 DEF One
  <2> QED
    BY <1>1, <2>2, <2>3 DEF CountOK, Extra
<1> QED
  BY <1>4 DEF CountsExact

LEMMA SoundReaches == Sound(om) => NoDangling
<1>1. ASSUME Sound(om), NEW o \in Accessible PROVE o \in Objects(om)
  <2>1. PICK m, R : m = om /\ R = Accessible
    OBVIOUS
  <2>2. Sound(m) /\ R = Reachable(m, {ActiveContext, InitialClass}) /\ o \in R
    BY <1>1, <2>1 DEF Accessible
  <2>3. o \in Pointers /\ m.ot[o].class # NilPointer
    BY <2>2, AccessibleAre
  <2> QED
    BY <2>1, <2>3 DEF Objects
<1> QED
  BY <1>1 DEF NoDangling

(* The inductive invariant: the lists, the chunks, the counts, the context   *)
(* and the number of free oops agree after every primitiveNew, store, become *)
(* and collection, one that an allocation makes in between included.  A      *)
(* collection that starts with a free chunk that grows, and a collection     *)
(* that forgets a class other than InitialClass, are what the hypotheses     *)
(* leave out.                                                                *)
THEOREM MemoryStaysSound ==
  ASSUME ChunksPlain
  PROVE  Spec /\ [][ForgetsInitialClassOnly]_om => []Sound(om)
<1>1. Init => Sound(om)
  BY InitSound
<1>2. Sound(om) /\ [Next]_om /\ [ForgetsInitialClassOnly]_om => Sound(om)'
  <2>1. ASSUME Sound(om), Next, ForgetsInitialClassOnly PROVE Sound(om')
    BY <2>1, NextKeeps
  <2>2. ASSUME Sound(om), UNCHANGED om PROVE Sound(om')
    BY <2>2
  <2>3. Sound(om)' <=> Sound(om')
    OBVIOUS
  <2> QED
    BY <2>1, <2>2, <2>3
<1> QED
  BY <1>1, <1>2, PTL DEF Spec

(* Every pointer is in one place: once on the list of free pointers, once on *)
(* a list of free chunks of its segment and its size, or the entry of an     *)
(* object; and freeOops is what auditFreeOops counts, or one more.  So long  *)
(* as no collection forgets a class other than InitialClass.                 *)
THEOREM FreeListsStaySound ==
  ASSUME ChunksPlain
  PROVE  Spec /\ [][ForgetsInitialClassOnly]_om => []FreeListsSound
<1>1. Spec /\ [][ForgetsInitialClassOnly]_om => []Sound(om)
  BY MemoryStaysSound
<1> QED
  BY <1>1, SoundLists, PTL

(* No sequence of splits, releases, sweeps and collections leaves a word of  *)
(* the heap in two chunks or in none, so long as no collection forgets a     *)
(* class other than InitialClass.                                            *)
THEOREM HeapStaysTiled ==
  ASSUME ChunksPlain
  PROVE  Spec /\ [][ForgetsInitialClassOnly]_om => []HeapTiled
<1>1. Spec /\ [][ForgetsInitialClassOnly]_om => []Sound(om)
  BY MemoryStaysSound
<1> QED
  BY <1>1, SoundTiled, PTL

(* A count that has not stuck is the number of references, but for the one   *)
(* reference to InitialClass that the last allocation may have forgotten:    *)
(* countDown frees an object when nothing refers to it, and no earlier, so   *)
(* long as no collection forgets another class.                              *)
THEOREM CountsStayExact ==
  ASSUME ChunksPlain
  PROVE  Spec /\ [][ForgetsInitialClassOnly]_om => []CountsExact
<1>1. Spec /\ [][ForgetsInitialClassOnly]_om => []Sound(om)
  BY MemoryStaysSound
<1> QED
  BY <1>1, SoundCounts, PTL

(* What the interpreter reaches from the context and the special objects is  *)
(* an object, if no creation of an object of a class other than InitialClass *)
(* collects.  Without this it is false: such a class has one reference less  *)
(* than objects, and the countDown of the last one that is counted frees it  *)
(* under its instance.                                                       *)
THEOREM NothingDangles ==
  ASSUME ChunksPlain
  PROVE  Spec /\ [][ForgetsInitialClassOnly]_om => []NoDangling
<1>1. Spec /\ [][ForgetsInitialClassOnly]_om => []Sound(om)
  BY MemoryStaysSound
<1> QED
  BY <1>1, SoundReaches, PTL
===============================================================================
