----------------------------- MODULE MCHeapWalk -----------------------------
(***************************************************************************)
(* Instances of HeapWalk for TLC, and the comparison with ObjectMemory,    *)
(* which takes traversal and compaction by their effect.                   *)
(*                                                                         *)
(* There are a small pointer object (2), a huge one (4), an object of      *)
(* bytes or a method (6), the class CompiledMethod (10), a free chunk (8)  *)
(* and a free pointer (12).                                                *)
(***************************************************************************)
EXTENDS HeapWalk, TLC

MCOops == {2, 4, 6, 8, 10, 12}
Objects == {2, 4, 6, 10}

(* What the chunks hold after the size, given the slots of the objects; the  *)
(* header of the method says one literal, and 7 is its bytecode.             *)
Contents(slot, o) ==
  CASE o = 2 -> <<slot.class2, slot.field2>>
    [] o = 4 -> <<slot.class4, slot.first4, 5, slot.middle4, slot.last4>>
    [] o = 6 -> <<slot.class6, 3, slot.literal6, 7>>
    [] o = 8 -> <<4>>
    [] o = 10 -> <<10, 1, 1>>

SizeOf(o) == CASE o = 2 -> 3 [] o = 4 -> 6 [] o = 6 -> 5 [] o = 8 -> 2 [] o = 10 -> 4
SpaceOf(o) == IF o = 4 THEN 7 ELSE SizeOf(o)

(* The words of a chunk: an object (its extra word is not initialised) or a  *)
(* free chunk that links to link.                                            *)
ChunkWords(slot, o, free, link) ==
  IF free THEN <<SpaceOf(o), link>> \o [i \in 1..(SpaceOf(o) - 2) |-> 1]
  ELSE <<SizeOf(o)>> \o Contents(slot, o) \o (IF o = 4 THEN <<1>> ELSE <<>>)

ListOf(o) == Smaller(SpaceOf(o), BigSize)

(* The free chunks on the lists, in the order given. *)
NextFree(frees, i) ==
  LET later == {j \in (i + 1)..Len(frees) : ListOf(frees[j]) = ListOf(frees[i])}
  IN IF later = {} THEN NonPointer
     ELSE frees[CHOOSE j \in later : \A k \in later : j <= k]

HeadOf(frees, size) ==
  LET there == {j \in DOMAIN frees : ListOf(frees[j]) = size}
  IN IF there = {} THEN NonPointer ELSE frees[CHOOSE j \in there : \A k \in there : j <= k]

(* The memory with the chunks laid out one after the other, the chunks of    *)
(* the sequence frees on the lists, and counts as given.                     *)
Laid(slot, layout, frees, count) ==
  LET Free(o) == o \in ToSet(frees)
      Link(o) == IF Free(o) THEN NextFree(frees, CHOOSE i \in DOMAIN frees : frees[i] = o)
                 ELSE NonPointer
      heap == FoldLeft(LAMBDA acc, o : acc \o ChunkWords(slot, o, Free(o), Link(o)), <<>>, layout)
      At(o) == FoldLeft(LAMBDA acc, q : acc + SpaceOf(q), 0,
                        SubSeq(layout, 1, (CHOOSE i \in DOMAIN layout : layout[i] = o) - 1))
  IN [heap |-> [w \in 0..HeapSpaceStop |-> heap[w + 1]],
      ot |-> [o \in Oops |->
                IF o = 12 THEN [free |-> TRUE, pointer |-> FALSE, count |-> 0,
                                location |-> NonPointer]
                ELSE [free |-> FALSE, pointer |-> o \in {2, 4, 10},
                      count |-> IF Free(o) THEN 0 ELSE count[o], location |-> At(o)]],
      freeChunks |-> [size \in ChunkSizes |-> HeadOf(frees, size)],
      freePointers |-> 12, freeWords |-> 0, freeOops |-> 0]

----------------------------------------------------------------------------
(* All small graphs: classes and fields of the three objects. *)
Slots == [class2 : {4, 10}, field2 : {1, 2, 4, 6},
          class4 : {10}, first4 : {1, 2, 6}, middle4 : {2, 4, 10}, last4 : {1, 6},
          class6 : {4, 10}, literal6 : {1, 2, 4, 6}]

WalkLayout == <<2, 8, 4, 6, 10>>
ZeroCounts == [o \in Objects |-> 0]

PointersOf(slot, o) ==
  IF o = 6 /\ slot.class6 # MethodClass THEN <<slot.class6>>
  ELSE IF o = 6 THEN <<slot.class6, slot.literal6>>
  ELSE SelectSeq(Contents(slot, o), LAMBDA w : ~isIntegerObject(w))

RefsTo(slot, o) ==
  FoldLeft(LAMBDA n, q : n + Cardinality({i \in DOMAIN PointersOf(slot, q) :
                                            PointersOf(slot, q)[i] = o}), 0, <<2, 4, 6, 10>>)

MarkStarts ==
  {[mem |-> Laid(slot, WalkLayout, <<8>>, ZeroCounts), task |-> "mark",
    roots |-> r, objects |-> Objects] : slot \in Slots, r \in {<<2>>, <<6, 2>>}}

(* Exact counts: the root has one reference from outside, the one that is    *)
(* dropped; either all others have one as well or none, and no object has a  *)
(* count of zero.                                                            *)
CountsOf(slot, root, others) ==
  [o \in Objects |-> RefsTo(slot, o) + (IF o = root THEN 1 ELSE others)]

CountStarts ==
  {[mem |-> Laid(g[1], WalkLayout, <<8>>,
                 [o \in Objects |-> Smaller(StickyCount, CountsOf(g[1], g[2], g[3])[o])]),
    task |-> "countDown", roots |-> <<g[2]>>, objects |-> Objects] :
     g \in {h \in Slots \X (Objects \ {10}) \X {0, 1} :
              \A o \in Objects : CountsOf(h[1], h[2], h[3])[o] > 0}}

(* Every order of the chunks, with several orders of the free ones.          *)
OneSlot == [class2 |-> 10, field2 |-> 4, class4 |-> 10, first4 |-> 6, middle4 |-> 4,
            last4 |-> 1, class6 |-> 10, literal6 |-> 4]
Layouts == {p \in [1..5 -> MCOops \ {12}] : \A i, j \in 1..5 : p[i] = p[j] => i = j}
CompactStarts ==
  {[mem |-> Laid(OneSlot, p, frees, [o \in MCOops |-> 1]), task |-> "compact",
    roots |-> <<>>, objects |-> MCOops \ (ToSet(frees) \cup {12})] :
     p \in Layouts, frees \in {<<>>, <<8, 10>>, <<10, 8>>, <<10, 4>>, <<6, 8, 4, 10>>, <<2, 8, 10>>}}

MCStarts == MarkStarts \cup CountStarts \cup CompactStarts

----------------------------------------------------------------------------
(* The memory of ObjectMemory that a memory of this module stands for, when  *)
(* nothing is in progress.  Integers and bytes are no pointers there.        *)
OM == INSTANCE ObjectMemory
        WITH Pointers <- MCOops, Segments <- 1, SegmentWords <- SegmentWords,
             ActiveContext <- 4, InitialClass <- 2, ClassPointers <- {2},
             ContextLength <- 1, Requests <- {}, MayCollect <- FALSE, MaxFreeWords <- 0,
             ChunksPlain <- TRUE, om <- 0

ListFrom(m, head) ==
  LET list[n \in 0..Cardinality(Oops)] ==
        IF n = 0 THEN <<head>>
        ELSE IF Last(list[n - 1]) = NonPointer THEN list[n - 1]
        ELSE Append(list[n - 1], classBitsOf(m, Last(list[n - 1])))
  IN Front(list[Cardinality(Oops)])

FreePointersFrom(m, head) ==
  LET list[n \in 0..Cardinality(Oops)] ==
        IF n = 0 THEN <<head>>
        ELSE IF Last(list[n - 1]) = NonPointer THEN list[n - 1]
        ELSE Append(list[n - 1], m.ot[Last(list[n - 1])].location)
  IN Front(list[Cardinality(Oops)])

Pointer(w) == IF isIntegerObject(w) THEN OM!NilPointer ELSE w

Abstract(m) ==
  LET lists == [size \in ChunkSizes |-> ListFrom(m, m.freeChunks[size])]
      listed == UNION {ToSet(lists[size]) : size \in ChunkSizes}
      Entry(o) ==
        [free |-> FALSE, count |-> m.ot[o].count, pointer |-> m.ot[o].pointer, segment |-> 1,
         location |-> m.ot[o].location, size |-> sizeBitsOf(m, o),
         class |-> IF o \in listed THEN OM!NilPointer ELSE classBitsOf(m, o),
         field |-> IF o \in listed THEN <<>>
                   ELSE [i \in 1..(lastPointerOf(m, o) - HeaderSize) |->
                           Pointer(heapChunkOf_word(m, o, HeaderSize + i - 1))]]
  IN [ot |-> [o \in MCOops |-> IF m.ot[o].free THEN OM!FreeEntry ELSE Entry(o)],
      freeChunks |-> [seg \in 1..1 |-> lists],
      freePointers |-> FreePointersFrom(m, m.freePointers), currentSegment |-> 1,
      freeWords |-> m.freeWords, freeOops |-> m.freeOops,
      uncounted |-> OM!NilPointer, failed |-> FALSE]

(* What ObjectMemory says the task does to the memory it started with. *)
Expected ==
  LET m == Abstract(before.mem)
  IN CASE task = "mark" -> OM!MarkedFrom(m, OM!Reachable(m, ToSet(before.roots)))
       [] task = "countDown" -> OM!countDown(m, before.roots[1])
       [] task = "compact" -> OM!compactCurrentSegment(m)

RawWords(m, o) ==
  [w \in lastPointerOf(m, o)..(sizeBitsOf(m, o) - 1) |-> heapChunkOf_word(m, o, w)]

(* The loops over the words have the effect that ObjectMemory gives them:    *)
(* pointer reversal marks what is reachable and nothing else, or frees what  *)
(* loses its last reference in the order in which ObjectMemory frees it, and *)
(* compaction slides the chunks together.  The words that are no pointers    *)
(* stay with their object.                                                   *)
AgreesWithObjectMemory ==
  phase = "done" =>
    /\ Abstract(mem) = Expected
    /\ \A o \in before.objects : (task = "countDown" => mem.ot[o].count > 0) =>
         RawWords(mem, o) = RawWords(before.mem, o)

=============================================================================
