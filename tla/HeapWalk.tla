------------------------------ MODULE HeapWalk ------------------------------
(***************************************************************************)
(* The algorithms of objmemory.cpp that damage the heap while they run: the *)
(* traversal by pointer reversal that marks objects and counts them down,  *)
(* and the compaction that exchanges sizes and object pointers.  Here the  *)
(* heap is the words of one segment and the object table its fields, and   *)
(* an action is one turn of a loop of the code; reverseHeapPointersAbove,  *)
(* whose turns do not touch each other, is one action.                     *)
(*                                                                         *)
(* An even number is an object pointer, an odd number a SmallInteger.      *)
(***************************************************************************)
EXTENDS Integers, Sequences, FiniteSets, SequencesExt

CONSTANTS Oops,          \* the object pointers of the object table
          SegmentWords,  \* words of heap in the segment
          BigSize,       \* chunks at least this big share one list (20)
          HugeSize,      \* pointer objects this big have an extra word (256)
          StickyCount,   \* a count that reaches this stays (128)
          MethodClass,   \* ClassCompiledMethod
          NonPointer,    \* end of a list, and of the reversed chain (65535)
          Starts         \* the memories and tasks the machine may start with

HeaderSize == 2
HeapSpaceStop == SegmentWords - 1
NilPointer == 0
ChunkSizes == HeaderSize..BigSize

ASSUME WalkConstantsOK ==
  /\ IsFiniteSet(Oops) /\ Oops \subseteq {o \in Nat \ {NilPointer} : o % 2 = 0}
  /\ SegmentWords \in Nat \ {0} /\ SegmentWords <= NonPointer
  /\ BigSize \in Nat /\ BigSize > HeaderSize
  /\ HugeSize \in Nat /\ HugeSize > BigSize
  /\ StickyCount \in 1..(HugeSize - 1)
  /\ NonPointer \in Nat /\ NonPointer % 2 = 1 /\ \A o \in Oops : o < NonPointer
  /\ MethodClass \in Oops

VARIABLES mem,     \* the object memory: see Memory
          task,    \* "mark", "countDown" or "compact"
          phase,   \* where the code is
          roots,   \* the object pointers still to start a traversal from
          reg,     \* the local variables of the code
          before   \* the memory and the roots at the start (for the properties)

vars == <<mem, task, phase, roots, reg, before>>

(* A location field may hold a size, or a link of the list of free pointers. *)
Links == Oops \cup {NonPointer}
Memory == [heap : [0..HeapSpaceStop -> 0..NonPointer],
           ot : [Oops -> [free : BOOLEAN, pointer : BOOLEAN, count : 0..(HugeSize - 1),
                          location : 0..(HeapSpaceStop + 1) \cup Links]],
           freeChunks : [ChunkSizes -> Links],
           freePointers : Links,
           freeWords : Int, freeOops : Int]

Tasks == {"mark", "countDown", "compact"}
NoRegisters == [prior |-> NonPointer, current |-> NilPointer, offset |-> 0, size |-> 0]

(* The words of an object's chunk. *)
heapChunkOf_word(m, o, w) == m.heap[m.ot[o].location + w]
heapChunkOf_word_put(m, o, w, v) == [m EXCEPT !.heap[m.ot[o].location + w] = v]
sizeBitsOf(m, o) == heapChunkOf_word(m, o, 0)
sizeBitsOf_put(m, o, v) == heapChunkOf_word_put(m, o, 0, v)
classBitsOf(m, o) == heapChunkOf_word(m, o, 1)
classBitsOf_put(m, o, v) == heapChunkOf_word_put(m, o, 1, v)
isIntegerObject(w) == w % 2 = 1

literalCount(header) == (header % 128) \div 2

(* The words of an object up to its last pointer: methods hold pointers in   *)
(* front of their bytecodes.                                                 *)
lastPointerOf(m, o) ==
  IF m.ot[o].pointer THEN sizeBitsOf(m, o)
  ELSE IF classBitsOf(m, o) = MethodClass
       THEN HeaderSize + 1 + literalCount(heapChunkOf_word(m, o, HeaderSize))
       ELSE HeaderSize

spaceOccupiedBy(m, o) ==
  IF sizeBitsOf(m, o) < HugeSize \/ ~m.ot[o].pointer THEN sizeBitsOf(m, o)
  ELSE sizeBitsOf(m, o) + 1

Smaller(a, b) == IF a < b THEN a ELSE b

toFreeChunkList_add(m, size, o) ==
  [classBitsOf_put(m, o, m.freeChunks[size]) EXCEPT !.freeChunks[size] = o]

deallocate(m, o) ==
  LET space == spaceOccupiedBy(m, o)
  IN toFreeChunkList_add(sizeBitsOf_put(m, o, space), Smaller(space, BigSize), o)

(* The list of free pointers is linked through the location field. *)
releasePointer(m, o) ==
  [m EXCEPT !.ot[o] = [@ EXCEPT !.free = TRUE, !.location = m.freePointers],
            !.freePointers = o]

obtainPointer_location(m, size, location) ==
  LET o == m.freePointers
      taken == [m EXCEPT !.freePointers = m.ot[o].location,
                         !.ot[o] = [free |-> FALSE, pointer |-> FALSE, count |-> 0,
                                    location |-> location]]
  IN sizeBitsOf_put(taken, o, size)

----------------------------------------------------------------------------
(* The traversal. *)

CountedDown(m, o) ==
  LET count == m.ot[o].count - 1
  IN [holds |-> count = 0,
      mem |-> IF count < StickyCount - 1 THEN [m EXCEPT !.ot[o].count = count] ELSE m]

M_predicateMarksAlways(m, o) ==
  IF task = "countDown" THEN CountedDown(m, o)
  ELSE [holds |-> m.ot[o].count = 0, mem |-> [m EXCEPT !.ot[o].count = 1]]

M_predicateTestsOnly(m, o) ==
  IF task = "countDown" THEN CountedDown(m, o)
  ELSE [holds |-> m.ot[o].count = 0, mem |-> m]

(* The predicate decides whether o is entered, and changes its count: an     *)
(* unmarked object is marked; a count goes down, unless it has stuck.        *)
predicate(m, o) ==
  IF task = "countDown" THEN CountedDown(m, o)
  ELSE IF m.ot[o].count = 0 THEN [holds |-> TRUE, mem |-> [m EXCEPT !.ot[o].count = 1]]
  ELSE [holds |-> FALSE, mem |-> m]

(* The action on an object all of whose pointers have been followed. *)
action(m, o) ==
  IF task = "mark" THEN [m EXCEPT !.ot[o].count = 1]
  ELSE deallocate([m EXCEPT !.ot[o].count = 0, !.freeWords = @ + spaceOccupiedBy(m, o),
                            !.freeOops = @ + 1], o)

(* An object that is left keeps its offset in the count field or, from       *)
(* HugeSize on, in the extra word.                                           *)
saveOffset(m, o, size, offset) ==
  IF size < HugeSize THEN [m EXCEPT !.ot[o].count = offset]
  ELSE heapChunkOf_word_put(m, o, size, offset)

savedOffset(m, o) ==
  IF lastPointerOf(m, o) < HugeSize THEN m.ot[o].count
  ELSE heapChunkOf_word(m, o, lastPointerOf(m, o))

Enter(o, m, prior) ==
  reg' = [prior |-> prior, current |-> o,
          offset |-> lastPointerOf(m, o), size |-> lastPointerOf(m, o)]

(* forAllObjectsAccessibleFrom_suchThat_do on the next root. *)
startRoot ==
  /\ phase = "root" /\ roots # <<>>
  /\ LET tried == predicate(mem, Head(roots))
     IN /\ mem' = tried.mem
        /\ roots' = Tail(roots)
        /\ IF tried.holds THEN phase' = "walk" /\ Enter(Head(roots), tried.mem, NonPointer)
                          ELSE UNCHANGED <<phase, reg>>
  /\ UNCHANGED <<task, before>>

noMoreRoots ==
  /\ phase = "root" /\ roots = <<>>
  /\ phase' = "done"
  /\ UNCHANGED <<mem, task, roots, reg, before>>

walkVars == <<task, roots, before>>
offset == reg.offset - 1
next == heapChunkOf_word(mem, reg.current, offset)

(* The class has not been passed and the word is an integer, or an object    *)
(* that the predicate turns down.                                            *)
skipPointer ==
  /\ phase = "walk" /\ offset > 0
  /\ \/ isIntegerObject(next) /\ UNCHANGED mem
     \/ /\ ~isIntegerObject(next) /\ ~predicate(mem, next).holds
        /\ mem' = predicate(mem, next).mem
  /\ reg' = [reg EXCEPT !.offset = offset]
  /\ UNCHANGED <<phase, walkVars>>

(* The word is an object to enter: it is overwritten with the way back. *)
followPointer ==
  /\ phase = "walk" /\ offset > 0
  /\ ~isIntegerObject(next) /\ predicate(mem, next).holds
  /\ LET c == reg.current
         reversed == heapChunkOf_word_put(predicate(mem, next).mem, c, offset, reg.prior)
         saved == saveOffset(reversed, c, reg.size, offset)
     IN mem' = saved /\ Enter(next, saved, c)
  /\ UNCHANGED <<phase, walkVars>>

(* All pointers of the current object have been followed: the action, and    *)
(* back to the object it was entered from.                                   *)
leaveObject ==
  /\ phase = "walk" /\ offset <= 0
  /\ LET acted == action(mem, reg.current)
         back == reg.prior
         at == savedOffset(acted, back)
     IN IF back = NonPointer
        THEN mem' = acted /\ phase' = "root" /\ reg' = NoRegisters
        ELSE /\ mem' = heapChunkOf_word_put(acted, back, at, reg.current)
             /\ reg' = [prior |-> heapChunkOf_word(acted, back, at), current |-> back,
                        offset |-> at, size |-> lastPointerOf(acted, back)]
             /\ UNCHANGED phase
  /\ UNCHANGED walkVars

----------------------------------------------------------------------------
(* Compaction.  The registers are those of the loop that runs. *)

(* One chunk: set apart for the sweep, its pointer released. *)
abandon(m, o) == releasePointer(classBitsOf_put(m, o, NonPointer), o)

(* A turn of the loops of abandonFreeChunksInSegment: a chunk of the list,   *)
(* or the next size.                                                         *)
abandonFreeChunk ==
  /\ phase = "abandon" /\ reg.objectPointer # NonPointer
  /\ mem' = abandon(mem, reg.objectPointer)
  /\ reg' = [reg EXCEPT !.objectPointer = classBitsOf(mem, reg.objectPointer),
                        !.lowWaterMark = Smaller(@, mem.ot[reg.objectPointer].location)]
  /\ UNCHANGED <<phase, walkVars>>

resetFreeChunkList ==
  /\ phase = "abandon" /\ reg.objectPointer = NonPointer
  /\ mem' = [mem EXCEPT !.freeChunks[reg.size] = NonPointer]
  /\ IF reg.size < BigSize
     THEN /\ reg' = [reg EXCEPT !.size = @ + 1, !.objectPointer = mem.freeChunks[reg.size + 1]]
          /\ UNCHANGED phase
     ELSE /\ phase' = IF reg.lowWaterMark < HeapSpaceStop THEN "reverse" ELSE "done"
          /\ UNCHANGED reg
  /\ UNCHANGED walkVars

(* The object pointers that reverseHeapPointersAbove changes. *)
swept(m, mark) == {o \in Oops : ~m.ot[o].free /\ m.ot[o].location >= mark}

(* Size and object pointer change places: the size word of every object to   *)
(* be swept names the object, its entry has the size.                        *)
reverseHeapPointersAbove ==
  /\ phase = "reverse"
  /\ LET above == swept(mem, reg.lowWaterMark)
     IN mem' = [mem EXCEPT
                  !.heap = [w \in 0..HeapSpaceStop |->
                              IF \E o \in above : mem.ot[o].location = w
                              THEN CHOOSE o \in above : mem.ot[o].location = w
                              ELSE mem.heap[w]],
                  !.ot = [o \in Oops |->
                            IF o \in above
                            THEN [mem.ot[o] EXCEPT !.location = sizeBitsOf(mem, o)]
                            ELSE mem.ot[o]]]
  /\ reg' = [si |-> reg.lowWaterMark, di |-> reg.lowWaterMark]
  /\ phase' = "sweep"
  /\ UNCHANGED walkVars

skipChunk ==
  /\ phase = "sweep" /\ reg.si < HeapSpaceStop
  /\ mem.heap[reg.si + 1] = NonPointer
  /\ reg' = [reg EXCEPT !.si = @ + mem.heap[reg.si]]
  /\ UNCHANGED <<mem, phase, walkVars>>

M_moveWordsFromLast(m, from, to, n) ==
  [m EXCEPT !.heap = FoldLeft(LAMBDA heap, i : [heap EXCEPT ![to + n - i] = heap[from + n - i]],
                              @, [i \in 1..n |-> i])]

(* n words move down, the first one first: the places may overlap. *)
moveWords(m, from, to, n) ==
  [m EXCEPT !.heap = FoldLeft(LAMBDA heap, i : [heap EXCEPT ![to + i - 1] = heap[from + i - 1]],
                              @, [i \in 1..n |-> i])]

(* An object: location and size go where they belong, and the rest of the    *)
(* chunk moves to the new place.                                             *)
moveChunk ==
  /\ phase = "sweep" /\ reg.si < HeapSpaceStop
  /\ mem.heap[reg.si + 1] # NonPointer
  /\ LET o == mem.heap[reg.si]
         size == mem.ot[o].location
         placed == sizeBitsOf_put([mem EXCEPT !.ot[o].location = reg.di], o, size)
         limit == spaceOccupiedBy(placed, o)
     IN /\ mem' = moveWords(placed, reg.si + 1, reg.di + 1, limit - 1)
        /\ reg' = [si |-> reg.si + limit, di |-> reg.di + limit]
  /\ UNCHANGED <<phase, walkVars>>

(* What is left of the segment becomes one free chunk. *)
joinFreeSpace ==
  /\ phase = "sweep" /\ reg.si >= HeapSpaceStop
  /\ LET obtained == obtainPointer_location(mem, HeapSpaceStop + 1 - reg.di, reg.di)
     IN mem' = deallocate(obtained, mem.freePointers)
  /\ phase' = "done" /\ reg' = NoRegisters
  /\ UNCHANGED walkVars

----------------------------------------------------------------------------
Init ==
  \E s \in Starts :
    /\ mem = s.mem /\ task = s.task /\ before = s
    /\ IF s.task = "compact"
       THEN /\ phase = "abandon" /\ roots = <<>>
            /\ reg = [objectPointer |-> s.mem.freeChunks[HeaderSize], size |-> HeaderSize,
                      lowWaterMark |-> HeapSpaceStop]
       ELSE phase = "root" /\ roots = s.roots /\ reg = NoRegisters

Finished == phase = "done" /\ UNCHANGED vars

Step ==
  \/ startRoot \/ noMoreRoots \/ skipPointer \/ followPointer \/ leaveObject
  \/ abandonFreeChunk \/ resetFreeChunkList
  \/ reverseHeapPointersAbove \/ skipChunk \/ moveChunk \/ joinFreeSpace

Next == Step \/ Finished

(* The code runs to its end without giving up the processor. *)
Spec == Init /\ [][Next]_vars /\ WF_vars(Step)

----------------------------------------------------------------------------
(* Properties. *)

Registers ==
  [prior : Links, current : Oops \cup {NilPointer},
   offset : 0..(HeapSpaceStop + 1), size : 0..(HeapSpaceStop + 1)]
  \cup [objectPointer : Links, size : ChunkSizes, lowWaterMark : 0..HeapSpaceStop]
  \cup [si : 0..(HeapSpaceStop + 1), di : 0..(HeapSpaceStop + 1)]

(* Counts stay within their field, whatever offset is put there, and no      *)
(* count is brought below zero (RUNTIME_CHECK(count >= 0)).                  *)
TypeOK ==
  /\ mem \in Memory /\ task \in Tasks /\ reg \in Registers
  /\ phase \in {"root", "walk", "abandon", "reverse", "sweep", "done"}
  /\ roots \in Seq(Oops)

(* The chain of reversed pointers: the objects entered and not yet left.     *)
Chain ==
  LET back[n \in 0..Cardinality(Oops)] ==
        IF n = 0 THEN reg.prior
        ELSE IF back[n - 1] = NonPointer THEN NonPointer
        ELSE heapChunkOf_word(mem, back[n - 1], savedOffset(mem, back[n - 1]))
  IN back

(* During a traversal the pointers that are overwritten can be found and put *)
(* right: the chain goes back from the current object to the root, without   *)
(* meeting an object twice, each object on it has a saved offset, and with   *)
(* the words at those offsets put back the objects not yet freed are what    *)
(* they were at the start.                                                   *)
PointersRecoverable ==
  phase = "walk" =>
    LET back == Chain
        steps == {n \in DOMAIN back : back[n] # NonPointer}
        onChain == {back[n] : n \in steps}
        After(n) == IF n = 0 THEN reg.current ELSE back[n - 1]
        NotFreed(o) == task = "mark" \/ mem.ot[o].count > 0 \/ o \in onChain \cup {reg.current}
        Unreversed(o, w) ==
          IF \E n \in steps : back[n] = o /\ savedOffset(mem, o) = w
          THEN After(CHOOSE n \in steps : back[n] = o)
          ELSE heapChunkOf_word(mem, o, w)
    IN /\ back[Cardinality(Oops)] = NonPointer
       /\ reg.current \notin onChain
       /\ Cardinality(onChain) = Cardinality(steps)
       /\ \A o \in before.objects : NotFreed(o) =>
            \A w \in 0..(sizeBitsOf(before.mem, o) - 1) :
              Unreversed(o, w) = heapChunkOf_word(before.mem, o, w)

(* At no step is the heap damaged: counts, offsets and positions stay within *)
(* their fields, and the overwritten pointers can be put back.               *)
HeapRecoverable == TypeOK /\ PointersRecoverable

(* Every traversal and every compaction comes to an end, whatever cycles the *)
(* objects form.                                                             *)
WalkEnds == <>(phase = "done")

=============================================================================
