----------------------------- MODULE ObjectMemory -----------------------------
(***************************************************************************)
(* The object memory (objmemory.cpp): the object table, the heap segments  *)
(* cut into chunks, the lists of free chunks and free pointers, reference  *)
(* counting, compaction and the marking collector.                         *)
(*                                                                         *)
(* The heap is modelled by the extent of its chunks.  What a chunk holds   *)
(* is its class and its pointer fields; words that hold no pointers are    *)
(* left out.  An operation maps a memory m, a record, to the memory it     *)
(* leaves, in the order of the code, so that one handler is one action.    *)
(* The traversal by pointer reversal and the words moved by a compaction   *)
(* are taken here by their effect.                                         *)
(***************************************************************************)
EXTENDS Integers, Sequences, FiniteSets, FiniteSetsExt, SequencesExt

CONSTANTS Pointers,        \* object pointers: an interval of naturals
          Segments,        \* number of heap segments (15)
          SegmentWords,    \* words of heap in a segment (HeapSpaceStop + 1)
          BigSize,         \* chunks at least this big share one list (20)
          HugeSize,        \* pointer objects this big have an extra word (256)
          StickyCount,     \* a count that reaches this stays (128)
          ActiveContext,   \* the context in the interpreter's register
          InitialClass,    \* class of the objects of the snapshot, and one of them
          ClassPointers,   \* pointers of the objects used as classes
          ContextLength,   \* number of fields of the context
          Requests,        \* <<length, pointerBit>> of the objects created
          MayCollect,      \* an allocation may find no chunk and collect
          MaxFreeWords,    \* bound: no collection above this much freeWords
          ChunksPlain      \* no collection starts with a free chunk that grows

NilPointer == 0
HeaderSize == 2
HeapSpaceStop == SegmentWords - 1
ChunkSizes == HeaderSize..BigSize

(* The special objects, roots of marking, that the snapshot has.             *)
Special == {InitialClass}

ASSUME ConstantsOK ==
  /\ Pointers \subseteq Nat \ {NilPointer} /\ IsFiniteSet(Pointers)
  /\ Segments \in Nat \ {0}
  /\ BigSize \in Nat /\ BigSize > HeaderSize
  /\ HugeSize \in Nat /\ HugeSize > BigSize
  /\ SegmentWords \in Nat /\ SegmentWords > BigSize
  /\ Cardinality(Pointers) >= Segments + 2
  /\ StickyCount \in Nat /\ StickyCount > 1
  /\ InitialClass \in Pointers /\ ActiveContext \in Pointers
  /\ InitialClass # ActiveContext
  /\ ClassPointers \subseteq Pointers
  /\ ContextLength \in Nat \ {0} /\ HeaderSize + ContextLength < HugeSize
  /\ HeaderSize + HeaderSize + ContextLength + HeaderSize <= SegmentWords
  /\ Requests \subseteq (0..SegmentWords) \X BOOLEAN
  /\ MayCollect \in BOOLEAN /\ MaxFreeWords \in Nat /\ ChunksPlain \in BOOLEAN

VARIABLE om   \* the object memory: see Memory

(* An entry of the object table with the header and the pointers of its      *)
(* chunk.  The class field of a free chunk is the link of the list it is on. *)
Entry == [free : BOOLEAN, count : 0..StickyCount, pointer : BOOLEAN,
          segment : 0..Segments, location : 0..HeapSpaceStop, size : 0..SegmentWords,
          class : Pointers \cup {NilPointer}, field : Seq(Pointers \cup {NilPointer})]

Memory == [ot : [Pointers -> Entry],
           freeChunks : [1..Segments -> [ChunkSizes -> Seq(Pointers)]],
           freePointers : Seq(Pointers),
           currentSegment : 1..Segments,
           freeWords : Int,
           freeOops : Int,
           uncounted : Pointers \cup {NilPointer},   \* auxiliary: see allocate
           failed : BOOLEAN]      \* hal->error: a failed check, or no memory left

FreeEntry == [free |-> TRUE, count |-> 0, pointer |-> FALSE, segment |-> 0, location |-> 0,
              size |-> 0, class |-> NilPointer, field |-> <<>>]

(* Pointers whose entries hold an object, and all the references it has.     *)
Objects(m) == {o \in Pointers : m.ot[o].class # NilPointer}
PointersIn(e) == <<e.class>> \o e.field

(* Marking: everything reachable from the roots (markObjectsAccessibleFrom), *)
(* which is the least set that has the roots and what its members point to.  *)
Closed(m, S) == \A o \in S : ToSet(PointersIn(m.ot[o])) \subseteq S \cup {NilPointer}
Reachable(m, roots) ==
  LET closed == {S \in SUBSET Pointers : roots \subseteq S /\ Closed(m, S)}
  IN {o \in Pointers : \A S \in closed : o \in S}

Roots == Special \cup {ActiveContext}

----------------------------------------------------------------------------
(* Chunks. *)

spaceOccupiedBy(e) == IF e.size < HugeSize \/ ~e.pointer THEN e.size ELSE e.size + 1

(* The words of the heap that a chunk takes.                                 *)
Space(e) == IF e.class = NilPointer THEN e.size ELSE spaceOccupiedBy(e)
WordsOf(e) == e.location..(e.location + Space(e) - 1)

deallocate(m, o) ==
  LET e == m.ot[o]
      space == spaceOccupiedBy(e)
      index == IF space < BigSize THEN space ELSE BigSize
  IN [m EXCEPT !.ot[o] = [e EXCEPT !.size = space, !.class = NilPointer, !.field = <<>>],
               !.freeChunks[e.segment][index] = <<o>> \o @]

(* The memory after the head of the free pointers gets an entry for a chunk; *)
(* not defined when there is none.                                           *)
obtainPointer_location(m, size, location) ==
  [m EXCEPT !.ot[Head(m.freePointers)] =
                [FreeEntry EXCEPT !.free = FALSE, !.segment = m.currentSegment,
                                  !.location = location, !.size = size],
            !.freePointers = Tail(@)]

(* A search that fails, in memory m. *)
NotFound(m) == [found |-> FALSE, oop |-> NilPointer, mem |-> m, collected |-> FALSE]
Found(m, o) == [found |-> TRUE, oop |-> o, mem |-> m, collected |-> FALSE]

(* A big chunk of exactly the size, or that leaves a usable chunk. *)
fits(e, size) == e.size = size \/ e.size - size >= HeaderSize

attemptToAllocateChunkInCurrentSegment(m, size) ==
  LET seg == m.currentSegment
      exact == IF size < BigSize THEN m.freeChunks[seg][size] ELSE <<>>
      big == m.freeChunks[seg][BigSize]
      usable == {i \in DOMAIN big : fits(m.ot[big[i]], size)}
      Take(i) == Found([m EXCEPT !.freeChunks[seg][BigSize] = RemoveAt(@, i)], big[i])
      Split(o, excess) ==
        Found([obtainPointer_location(m, size, m.ot[o].location + excess)
                 EXCEPT !.ot[o].size = excess], Head(m.freePointers))
      Use(i) == IF m.ot[big[i]].size = size THEN Take(i)
                ELSE IF m.freePointers = <<>> THEN NotFound(m)
                ELSE Split(big[i], m.ot[big[i]].size - size)
  IN IF exact # <<>> THEN Found([m EXCEPT !.freeChunks[seg][size] = Tail(@)], Head(exact))
     ELSE IF usable = {} THEN NotFound(m)
     ELSE Use(Min(usable))

----------------------------------------------------------------------------
(* Compaction. *)

(* The free chunks of a segment in the order in which they are abandoned.    *)
freeChunksOf(m, seg) ==
  LET upTo[size \in (HeaderSize - 1)..BigSize] ==
        IF size < HeaderSize THEN <<>> ELSE upTo[size - 1] \o m.freeChunks[seg][size]
  IN upTo[BigSize]

releasePointer(m, o) ==
  [m EXCEPT !.ot[o] = FreeEntry, !.freePointers = <<o>> \o @]

releasePointers(m, chunks) ==
  LET after[n \in 0..Len(chunks)] ==
        IF n = 0 THEN m ELSE releasePointer(after[n - 1], chunks[n])
  IN after[Len(chunks)]

M_abandonKeepsLists(m, seg) == releasePointers(m, freeChunksOf(m, seg))

abandonFreeChunksInSegment(m, seg) ==
  [releasePointers(m, freeChunksOf(m, seg))
     EXCEPT !.freeChunks[seg] = [size \in ChunkSizes |-> <<>>]]

lowWaterMark(m, seg) ==
  Min({HeapSpaceStop} \cup {m.ot[o].location : o \in ToSet(freeChunksOf(m, seg))})

(* reverseHeapPointersAbove and sweepCurrentSegmentFrom: the chunks in use   *)
(* above the mark slide down over the gaps, in the order they lie in.        *)
Swept(m, mark) ==
  {o \in Pointers : /\ ~m.ot[o].free /\ m.ot[o].segment = m.currentSegment
                    /\ m.ot[o].location >= mark}

(* The words in use above the mark. *)
WordsAbove(m, mark) == UNION {WordsOf(m.ot[o]) : o \in Swept(m, mark)}

M_slideCountsItself(m, mark) ==
  LET swept == Swept(m, mark)
      words == WordsAbove(m, mark)
      slid(o) == mark + Cardinality(words \cap (mark..m.ot[o].location))
  IN [m EXCEPT !.ot = [o \in Pointers |->
        IF o \in swept THEN [m.ot[o] EXCEPT !.location = slid(o)] ELSE m.ot[o]]]

sweepCurrentSegmentFrom(m, mark) ==
  LET swept == Swept(m, mark)
      words == WordsAbove(m, mark)
      slid(o) == mark + Cardinality(words \cap (mark..(m.ot[o].location - 1)))
  IN [m EXCEPT !.ot = [o \in Pointers |->
        IF o \in swept THEN [m.ot[o] EXCEPT !.location = slid(o)] ELSE m.ot[o]]]

bigSpace(m, mark) == mark + Cardinality(WordsAbove(m, mark))

compactCurrentSegment(m) ==
  LET Join(swept, big) ==
        deallocate(obtainPointer_location(swept, HeapSpaceStop + 1 - big, big),
                   Head(swept.freePointers))
      Compact(abandoned, mark) ==
        IF mark >= HeapSpaceStop THEN abandoned
        ELSE Join(sweepCurrentSegmentFrom(abandoned, mark), bigSpace(abandoned, mark))
  IN Compact(abandonFreeChunksInSegment(m, m.currentSegment),
             lowWaterMark(m, m.currentSegment))

NextSegment(seg) == IF seg = Segments THEN 1 ELSE seg + 1

(* The current segment first, then every segment in turn, compacted. *)
attemptToAllocateChunk(m, size) ==
  LET InNext(t) ==
        IF t.found THEN t
        ELSE attemptToAllocateChunkInCurrentSegment(
               compactCurrentSegment([t.mem EXCEPT !.currentSegment = NextSegment(@)]), size)
      tried[n \in 0..Segments] ==
        IF n = 0 THEN attemptToAllocateChunkInCurrentSegment(m, size) ELSE InNext(tried[n - 1])
  IN tried[Segments]

----------------------------------------------------------------------------
(* Reference counts. *)

countUp(m, o) ==
  IF o = NilPointer \/ m.ot[o].count = StickyCount THEN m
  ELSE [m EXCEPT !.ot[o].count = @ + 1]

Freed(m, o) ==
  [deallocate(m, o) EXCEPT !.freeWords = @ + spaceOccupiedBy(m.ot[o]), !.freeOops = @ + 1]

decreaseReferencesTo(m, o) ==
  CASE m.ot[o].count = 0 -> [m EXCEPT !.failed = TRUE]
    [] m.ot[o].count = StickyCount -> m
    [] OTHER -> [m EXCEPT !.ot[o].count = @ - 1]

(* forAllObjectsAccessibleFrom_suchThat_do takes one reference from an       *)
(* object.  An object that loses its last one is put on the path, with the   *)
(* place of its last pointer.                                                *)
Visit(r, o) ==
  IF o = NilPointer THEN r
  ELSE [mem |-> decreaseReferencesTo(r.mem, o),
        path |-> IF r.mem.ot[o].count = 1
                 THEN <<[oop |-> o, next |-> Len(PointersIn(r.mem.ot[o]))]>> \o r.path
                 ELSE r.path]

(* One turn: the object the path ends at gives up its next pointer, from the *)
(* last field to the class, and is freed when none is left.                  *)
Turn(r) ==
  LET top == Head(r.path)
  IN CASE r.path = <<>> -> r
       [] r.path # <<>> /\ top.next = 0 ->
            [mem |-> Freed(r.mem, top.oop), path |-> Tail(r.path)]
       [] OTHER -> Visit([r EXCEPT !.path[1].next = @ - 1],
                         PointersIn(r.mem.ot[top.oop])[top.next])

(* A turn for every word of the heap is enough.                              *)
Turns == Segments * SegmentWords

countDown(m, o) ==
  LET first == Visit([mem |-> m, path |-> <<>>], o)
      after[n \in 0..Turns] == IF n = 0 THEN first ELSE Turn(after[n - 1])
  IN IF first.path = <<>> THEN first.mem ELSE after[Turns].mem

M_storeDownFirst(m, o, i, v) ==
  countUp([countDown(m, m.ot[o].field[i]) EXCEPT !.ot[o].field[i] = v], v)

storePointer(m, o, i, v) ==
  [countDown(countUp(m, v), m.ot[o].field[i]) EXCEPT !.ot[o].field[i] = v]

----------------------------------------------------------------------------
(* The marking collector. *)

(* zeroReferenceCounts and marking: the count is the mark. *)
MarkedFrom(m, marked) ==
  [m EXCEPT !.ot = [o \in Pointers |-> [m.ot[o] EXCEPT !.count = IF o \in marked THEN 1 ELSE 0]]]

countUpAll(m, pointers) ==
  LET after[n \in 0..Len(pointers)] ==
        IF n = 0 THEN m ELSE countUp(after[n - 1], pointers[n])
  IN after[Len(pointers)]

M_rectifyKeepsMark(m, o) ==
  LET e == m.ot[o]
  IN CASE e.free -> m
       [] ~e.free /\ e.count = 0 ->
            [deallocate(m, o) EXCEPT !.freeWords = @ + spaceOccupiedBy(e)]
       [] OTHER -> countUpAll(m, PointersIn(e))

(* One entry of the object table: garbage is deallocated; an object that is  *)
(* marked loses the mark and counts its pointers up.                         *)
rectify(m, o) ==
  LET e == m.ot[o]
      unmarked == IF e.count < StickyCount THEN [m EXCEPT !.ot[o].count = @ - 1] ELSE m
  IN CASE e.free -> m
       [] ~e.free /\ e.count = 0 ->
            [deallocate(m, o) EXCEPT !.freeWords = @ + spaceOccupiedBy(e)]
       [] OTHER -> countUpAll(unmarked, PointersIn(e))

LastPointer == Max(Pointers)

(* All entries of the table, in order.                                       *)
rectifyCountsAndDeallocateGarbage(m) ==
  LET upTo[o \in 0..LastPointer] ==
        CASE o = 0 -> [m EXCEPT !.freeChunks =
                         [seg \in 1..Segments |-> [size \in ChunkSizes |-> <<>>]]]
          [] o \in Pointers -> rectify(upTo[o - 1], o)
          [] OTHER -> upTo[o - 1]
  IN upTo[LastPointer]

hasObject(e) == ~e.free /\ e.count # 0

auditFreeOops(m) == Cardinality({o \in Pointers : ~hasObject(m.ot[o])})

(* Marking is from the special objects and the active context; the register  *)
(* that holds the context counts as one reference to it.                     *)
reclaimInaccessibleObjects(m) ==
  LET rectified == rectifyCountsAndDeallocateGarbage(MarkedFrom(m, Reachable(m, Roots)))
  IN countUp([rectified EXCEPT !.freeOops = auditFreeOops(rectified), !.uncounted = NilPointer],
             ActiveContext)

----------------------------------------------------------------------------
(* Allocation. *)

allocateChunk(m, size) ==
  LET Retry(t) == IF t.found THEN t
                  ELSE [attemptToAllocateChunk(reclaimInaccessibleObjects(t.mem), size)
                          EXCEPT !.collected = TRUE]
      Charge(t) == IF t.found
                   THEN [t EXCEPT !.mem.freeWords = IF @ >= size THEN @ - size ELSE @]
                   ELSE [t EXCEPT !.mem.failed = TRUE]
  IN Charge(Retry(attemptToAllocateChunk(m, size)))

NilFields(n) == <<>> \o [i \in 1..n |-> NilPointer]

(* A request is <<length, pointerBit>>. *)
SizeOf(request) == HeaderSize + request[1]
ExtraWord(request) == IF request[2] /\ SizeOf(request) >= HugeSize THEN 1 ELSE 0

WordsFor(request) == SizeOf(request) + ExtraWord(request)

(* A collection in between forgets that the class was counted up: one        *)
(* reference to it, that of the new object, stays uncounted.                 *)
allocate(m, class, request) ==
  LET Fill(chunk) ==
        IF ~chunk.found THEN chunk
        ELSE [chunk EXCEPT
                !.mem.ot[chunk.oop] =
                   [@ EXCEPT !.pointer = request[2], !.class = class, !.size = SizeOf(request),
                             !.field = IF request[2] THEN NilFields(request[1]) ELSE <<>>],
                !.mem.freeOops = @ - 1,
                !.mem.uncounted = IF chunk.collected THEN class ELSE @]
  IN Fill(allocateChunk(countUp(m, class), WordsFor(request)))

(* The request is met without a collection. *)
Ready(m, class, request) ==
  attemptToAllocateChunk(countUp(m, class), WordsFor(request)).found

----------------------------------------------------------------------------
(* The snapshot as loadObjects leaves it: a class that is its own class, a   *)
(* context, and what is left of every segment as one free chunk.             *)

Init ==
  LET classEntry == [FreeEntry EXCEPT !.free = FALSE, !.count = 2, !.pointer = TRUE,
                       !.segment = 1, !.size = HeaderSize, !.class = InitialClass]
      contextEntry == [FreeEntry EXCEPT !.free = FALSE, !.count = 1, !.pointer = TRUE,
                         !.segment = 1, !.location = HeaderSize,
                         !.size = HeaderSize + ContextLength, !.class = InitialClass,
                         !.field = NilFields(ContextLength)]
      loaded == HeaderSize + contextEntry.size
      unused == SetToSeq(Pointers \ {InitialClass, ActiveContext})
      bare == [ot |-> [o \in Pointers |-> IF o = InitialClass THEN classEntry
                                          ELSE IF o = ActiveContext THEN contextEntry
                                          ELSE FreeEntry],
               freeChunks |-> [seg \in 1..Segments |-> [size \in ChunkSizes |-> <<>>]],
               freePointers |-> unused, currentSegment |-> 1,
               freeWords |-> Segments * SegmentWords - loaded,
               freeOops |-> Len(unused), uncounted |-> NilPointer, failed |-> FALSE]
      Rest(m, seg) ==
        LET used == IF seg = 1 THEN loaded ELSE 0
            pointed == obtainPointer_location([m EXCEPT !.currentSegment = seg],
                                              SegmentWords - used, used)
        IN deallocate(pointed, Head(m.freePointers))
      upTo[seg \in 0..Segments] == IF seg = 0 THEN bare ELSE Rest(upTo[seg - 1], seg)
  IN om = [upTo[Segments] EXCEPT !.currentSegment = 1]

(* What the interpreter can get at. *)
Accessible == Reachable(om, {ActiveContext, InitialClass})

(* instantiateClass_withPointers, _withWords and _withBytes as primitiveNew  *)
(* and primitiveNewWithArg call them: the object goes on the stack.          *)
instantiateClass(class, request, i) ==
  LET Push(new) == IF new.found THEN storePointer(new.mem, ActiveContext, i, new.oop)
                   ELSE new.mem
  IN /\ ~om.failed
     /\ Ready(om, class, request) \/ (MayCollect /\ om.freeWords <= MaxFreeWords)
     /\ om' = Push(allocate(om, class, request))

storePointer_ofObject_withValue(i, o, v) ==
  /\ ~om.failed
  /\ om' = storePointer(om, o, i, v)

(* A free chunk whose entry has kept the pointer bit of a huge object would  *)
(* be given another word by deallocate.                                      *)
GrowingChunks(m) ==
  {o \in Pointers : m.ot[o].class = NilPointer /\ spaceOccupiedBy(m.ot[o]) # m.ot[o].size}

garbageCollect ==
  /\ ~om.failed
  /\ ChunksPlain => GrowingChunks(om) = {}
  /\ om.freeWords <= MaxFreeWords
  /\ om' = reclaimInaccessibleObjects(om)

(* primitiveBecome: the entries exchange their chunks and keep their counts. *)
swapPointersOf_and(a, b) ==
  /\ ~om.failed
  /\ om' = [om EXCEPT !.ot[a] = [om.ot[b] EXCEPT !.count = om.ot[a].count],
                      !.ot[b] = [om.ot[a] EXCEPT !.count = om.ot[b].count]]

(* createActualMessage, for one argument in field i of the context, which is *)
(* the top of the stack: an array for it, then a message for the selector    *)
(* and the array, which takes its place.                                     *)
ArgumentsRequest == <<1, TRUE>>
MessageRequest == <<2, TRUE>>

createActualMessage(messageSelector, i) ==
  LET argument == om.ot[ActiveContext].field[i]
      Transfer(m, array) == IF array \in Objects(m) THEN storePointer(m, array, 1, argument)
                            ELSE countUp(m, argument)   \* into the words of a free chunk
      Join(m, message, array) ==
        storePointer(storePointer(m, message, 1, messageSelector), message, 2, array)
      Push(m, message) ==
        storePointer(storePointer(m, ActiveContext, i, NilPointer), ActiveContext, i, message)
      Finish(message, array) ==
        IF ~message.found THEN message.mem
        ELSE Push(Transfer(Join(message.mem, message.oop, array), array), message.oop)
      Message(array) ==
        IF ~array.found THEN array.mem
        ELSE Finish(allocate(array.mem, InitialClass, MessageRequest), array.oop)
  IN /\ ~om.failed
     /\ MayCollect /\ om.freeWords <= MaxFreeWords
     /\ om' = Message(allocate(om, InitialClass, ArgumentsRequest))

(* The machine has stopped with an error. *)
Stopped == om.failed /\ UNCHANGED om

Next ==
  \/ \E class \in Accessible \cap ClassPointers, request \in Requests, i \in 1..ContextLength :
        instantiateClass(class, request, i)
  \/ \E o \in Accessible, v \in Accessible \cup {NilPointer} :
        \E i \in DOMAIN om.ot[o].field : storePointer_ofObject_withValue(i, o, v)
  \/ garbageCollect
  \/ \E a, b \in Accessible \ Roots : a # b /\ swapPointersOf_and(a, b)
  \/ Stopped

Spec == Init /\ [][Next]_om

(* With the sends that are not understood. *)
MessageNext ==
  \/ Next
  \/ \E s \in Special, i \in 1..ContextLength : createActualMessage(s, i)

MessageSpec == Init /\ [][MessageNext]_om

----------------------------------------------------------------------------
(* Properties. *)

TypeOK == om \in Memory

InUse(o) == ~om.ot[o].free
Words(o) == WordsOf(om.ot[o])
ListedChunks(seg) == ToSet(freeChunksOf(om, seg))
FreeChunks == UNION {ListedChunks(seg) : seg \in 1..Segments}

(* No word of the heap is in two chunks, none is in no chunk, and every      *)
(* chunk lies in its segment, whatever sequence of splits, releases, sweeps  *)
(* and collections the chunks have been through.                             *)
HeapTiled ==
  \A seg \in 1..Segments :
    LET chunks == {o \in Pointers : InUse(o) /\ om.ot[o].segment = seg}
    IN /\ \A a, b \in chunks : a # b => Words(a) \cap Words(b) = {}
       /\ UNION {Words(o) : o \in chunks} = 0..HeapSpaceStop

(* A pointer is in one place only: free and once on the list of pointers, or *)
(* the entry of a free chunk and once on the lists of its segment, under its *)
(* size or among the big ones, or the entry of an object.  The number that   *)
(* primitiveFreeOops reports is that of the free pointers, or one more: a    *)
(* collection counts before the context's register does.                     *)
FreeListsSound ==
  /\ TypeOK
  /\ IsInjective(om.freePointers)
  /\ ToSet(om.freePointers) = {o \in Pointers : om.ot[o].free}
  /\ FreeChunks = {o \in Pointers : InUse(o) /\ om.ot[o].class = NilPointer}
  /\ \A seg \in 1..Segments :
       /\ IsInjective(freeChunksOf(om, seg))
       /\ \A size \in ChunkSizes : \A o \in ToSet(om.freeChunks[seg][size]) :
            /\ om.ot[o].segment = seg
            /\ om.ot[o].size >= HeaderSize
            /\ size < BigSize => om.ot[o].size = size
  /\ om.freeOops - auditFreeOops(om) \in {0, 1}

(* The places that refer to o: 1 is the class, the fields follow. *)
References(m, o) ==
  {r \in Pointers \X (1..SegmentWords) :
     /\ r[2] \in DOMAIN PointersIn(m.ot[r[1]])
     /\ PointersIn(m.ot[r[1]])[r[2]] = o}

(* An object's count is the number of pointers to it, that of the register   *)
(* to the active context included, unless it has stuck; only the reference   *)
(* that an allocation forgot when it collected is missing, and only until    *)
(* the next collection.  It is what makes it right to free an object the     *)
(* moment its count is zero.                                                 *)
CountsExact ==
  \A o \in Objects(om) :
    \/ om.ot[o].count = StickyCount
    \/ om.ot[o].count + (IF o = om.uncounted THEN 1 ELSE 0) =
          Cardinality(References(om, o)) + (IF o = ActiveContext THEN 1 ELSE 0)

(* Everything the interpreter can reach is an object, never a free chunk or  *)
(* a free entry.                                                             *)
NoDangling == Accessible \subseteq Objects(om)

=============================================================================
