----------------------------- MODULE MCSnapshot -----------------------------
(* Instances of the files and the snapshots for TLC. *)
EXTENDS Snapshot

(* A memory with the objects given by pointer, <<count, pointer, segment,    *)
(* location, words>>; a count of 0 is a free chunk.                          *)
MemoryOf(objects) ==
  LET Entry(o) == [free |-> FALSE, count |-> objects[o][1], pointer |-> objects[o][2],
                   segment |-> objects[o][3], location |-> objects[o][4]]
      Holds(o, s, w) == /\ objects[o][3] = s
                         /\ w \in objects[o][4]..(objects[o][4] + Len(objects[o][5]) - 1)
      Word(s, w) == IF \E o \in DOMAIN objects : Holds(o, s, w)
                    THEN LET o == CHOOSE q \in DOMAIN objects : Holds(q, s, w)
                         IN objects[o][5][w - objects[o][4] + 1]
                    ELSE 0
  IN [ot |-> [o \in Oops |-> IF o \in DOMAIN objects THEN Entry(o) ELSE freeEntry],
      heap |-> [s \in AllSegments |-> [w \in 0..HeapSpaceStop |-> Word(s, w)]]]

Objects3(a, b, c, x, y, z) ==
  [o \in {a, b, c} |-> IF o = a THEN x ELSE IF o = b THEN y ELSE z]

(* A huge object that fills the first segment with another; a free chunk.    *)
HugeMemory ==
  MemoryOf(Objects3(2, 4, 8, <<2, TRUE, 1, 2, <<5, 2, 8, 9, 2>> >>,
                             <<0, FALSE, 0, 6, <<3, NonPointer, 0>> >>,
                             <<1, TRUE, 0, 0, <<3, 2, 7>> >>))

(* A rest of one word in the first segment. *)
RestMemory ==
  MemoryOf(Objects3(2, 6, 8, <<3, TRUE, 0, 0, <<3, 2, 6>> >>,
                             <<1, FALSE, 0, 3, <<5, 2, 1, 2, 3>> >>,
                             <<1, FALSE, 1, 5, <<2, 2>> >>))

MCMemories == {HugeMemory, RestMemory}
=============================================================================
