------------------------------ MODULE Snapshot ------------------------------
(***************************************************************************)
(* Saving the object memory to a file and loading it again (loadSnapshot   *)
(* and saveSnapshot of objmemory.cpp, primitiveSnapshot and                *)
(* primitiveBeSnapshotFile), on the file system of module Files, with a    *)
(* card that may be full and power that may fail.                          *)
(*                                                                         *)
(* A save is a list of writes, one action for each.  Loading is from the   *)
(* card: boot mode 1 reads the file piece by piece, mode 2, the shipped    *)
(* one, as a whole into the buffer of the built-in image, which mode 0     *)
(* runs and this module does not.  A cell of the file is a word; the       *)
(* lengths in the header, 32 bits each, are a cell as well.                *)
(***************************************************************************)
EXTENDS Files, SequencesExt

CONSTANTS ObjectTableSize,  \* object pointers are the even numbers below it
          HeapSegmentCount, \* number of heap segments
          HeapSpaceStop,    \* last word of the heap of a segment
          HugeSize,         \* pointer objects this big have an extra word
          BigSize,          \* chunks at least this big share one list
          NonPointer,       \* end of a list
          BootName,         \* the image that the kernel starts
          ImageNames,       \* names that the image gives to snapshot files
          Memories,         \* object memories that the image may get to
          BootModes,        \* 1 and 2, or one of them: the kernel's command line
          BufferSize,       \* mode 2: cells of the buffer (1,000,000 bytes)
          BuiltInLength     \* mode 2: table length of the image in the buffer (0xfd54)

HeaderSize == 2
PointerCount == (ObjectTableSize - 1) \div 2
Oops == {2 * i : i \in 1..PointerCount}
AllSegments == 0..(HeapSegmentCount - 1)
SegmentHeapSpaceSize == HeapSpaceStop + 1
ObjectSpaceBaseInImage == PageSize

ASSUME SnapshotConstantsOK ==
  /\ ObjectTableSize \in Nat \ {0} /\ HeapSegmentCount \in Nat \ {0}
  /\ HeapSpaceStop \in Nat /\ HugeSize > BigSize /\ BigSize > HeaderSize
  /\ PageSize > 3            \* the header is within the first page
  /\ BootName \in ImageNames /\ ImageNames \subseteq Names
  /\ ImageNames \cap UserNames = {}
  /\ BootModes \subseteq {1, 2} /\ BufferSize \in Nat /\ BuiltInLength \in Nat \ {0, 1}

VARIABLES om,         \* the object memory, or what is left of it
          imageName,  \* the name of the image (hal->get_image_name)
          mode,       \* "running", "saving", "off" or "failed"
          fd,         \* the handle of saveSnapshot
          writes,     \* the writes that saveObjects has still to do
          saved       \* by name, the memory whose save has succeeded last

snapshotVars == <<om, imageName, mode, fd, writes, saved>>
vars == <<filesVars, snapshotVars>>

----------------------------------------------------------------------------
(* A memory: the object table and the words of the segments.                 *)
freeEntry == [free |-> TRUE, count |-> 0, pointer |-> FALSE, segment |-> 0, location |-> 0]

word(m, o, w) == m.heap[m.ot[o].segment][m.ot[o].location + w]
sizeOf(m, o) == word(m, o, 0)
hasObject(m, o) == ~m.ot[o].free /\ m.ot[o].count # 0
ObjectWords(m, o) == [i \in 1..sizeOf(m, o) |-> word(m, o, i - 1)]

(* The objects of a memory, wherever they lie: the image's view of it. *)
ObjectsIn(m) ==
  [o \in {q \in Oops : hasObject(m, q)} |->
     [count |-> m.ot[o].count, pointer |-> m.ot[o].pointer, words |-> ObjectWords(m, o)]]

(* Words in memory: with the extra word, which is not on the file. *)
spaceFor(size, pointer) == IF size < HugeSize \/ ~pointer THEN size ELSE size + 1

----------------------------------------------------------------------------
(* saveObjects. *)

Write(cells) == [cells |-> cells, at |-> NoHandle, checked |-> TRUE]
Rewrite(cells, at) == [cells |-> cells, at |-> at, checked |-> FALSE]

Saved(m) == {o \in Oops : hasObject(m, o)}
storedObjectTableLength(m) == IF Saved(m) = {} THEN NonPointer + 2 ELSE Max(Saved(m)) + 2

(* The words of the objects among the first pointers of the table. *)
wordsUpTo(m) ==
  LET words[i \in 0..PointerCount] ==
        IF i = 0 THEN 0
        ELSE words[i - 1] + (IF hasObject(m, 2 * i) THEN sizeOf(m, 2 * i) ELSE 0)
  IN words

objectSpaceLength(m) == wordsUpTo(m)[PointerCount]

padToPage(length) == [i \in 1..((PageSize - (length % PageSize)) % PageSize) |-> Write(<<0>>)]

(* One write for size and class of an object and one for every other word.   *)
objectWrites(m, o) ==
  <<Write(SubSeq(ObjectWords(m, o), 1, HeaderSize))>>
    \o [i \in 1..(sizeOf(m, o) - HeaderSize) |-> Write(<<word(m, o, HeaderSize + i - 1)>>)]

M_imageWordAddressWithExtra(m, o) ==
  wordsUpTo(m)[o \div 2 - 1]
    + Cardinality({q \in Saved(m) : q < o /\ m.ot[q].pointer /\ sizeOf(m, q) >= HugeSize})

(* Objects follow each other on the file, in the order of their pointers. *)
objectImageWordAddress(m, o) == wordsUpTo(m)[o \div 2 - 1]

(* The first word of an entry, as it is packed; every address fits into the  *)
(* location, and the bits of the segment stay 0.                             *)
otWord(free, count, pointer) ==
  count * 256 + (IF pointer THEN 64 ELSE 0) + (IF free THEN 32 ELSE 0)
countBits(w) == w \div 256
pointerBit(w) == (w \div 64) % 2 = 1
freeBit(w) == (w \div 32) % 2 = 1

(* An entry as it is on the file; that of a free chunk becomes a free entry. *)
entryWrite(m, o) ==
  IF hasObject(m, o)
  THEN Write(<<otWord(FALSE, m.ot[o].count, m.ot[o].pointer), objectImageWordAddress(m, o)>>)
  ELSE Write(<<otWord(TRUE, 0, FALSE), 0>>)

(* The entry of object pointer 0 is written as it is. *)
tableWrites(m) ==
  [i \in 1..(storedObjectTableLength(m) \div 2) |->
     IF i = 1 THEN Write(<<otWord(TRUE, 0, FALSE), 0>>) ELSE entryWrite(m, 2 * (i - 1))]

objectSpaceWrites(m) ==
  FlattenSeq([i \in 1..PointerCount |->
                IF hasObject(m, 2 * i) THEN objectWrites(m, 2 * i) ELSE <<>>])
    \o padToPage(objectSpaceLength(m))

(* The header comes last, over the zeros that hold its place, and its writes *)
(* are not checked.                                                          *)
imageWrites(m) ==
  <<Write(<<0, 0>>), Write(<<0>>)>> \o padToPage(3) \o objectSpaceWrites(m) \o tableWrites(m)

headerWrites(m) ==
  <<Rewrite(<<objectSpaceLength(m)>>, 0), Rewrite(<<storedObjectTableLength(m)>>, 1)>>

saveObjects(m) == imageWrites(m) \o headerWrites(m)

----------------------------------------------------------------------------
(* loadObjectTable and loadObjects, on the cells of a file. *)

LoadFailed == [ok |-> FALSE]

(* The entries, from the end of the file; the rest of the table is free. *)
loadedTable(data, length) ==
  LET base == Len(data) - length
  IN [o \in Oops |->
        IF o >= length THEN freeEntry
        ELSE [free |-> freeBit(data[base + o + 1]), count |-> countBits(data[base + o + 1]),
              pointer |-> pointerBit(data[base + o + 1]), segment |-> 0,
              location |-> data[base + o + 2]]]

(* A position in the heap: a segment, and the words of it that are taken.    *)
M_placeAcross(at, space) ==
  [at EXCEPT !.segment = @ + (at.word + space - 1) \div SegmentHeapSpaceSize]

(* Where the next object goes: no object is split across segments.           *)
place(at, space) ==
  IF at.word + space <= SegmentHeapSpaceSize THEN at
  ELSE [segment |-> at.segment + 1, word |-> 0]

placeAfter(at, space) == [place(at, space) EXCEPT !.word = @ + space]

(* The places of the objects, each of which takes so many words of memory.   *)
placesOf(space) ==
  LET upTo[i \in 0..PointerCount] ==
        IF i = 0 THEN [segment |-> 0, word |-> 0]
        ELSE IF 2 * i \notin DOMAIN space THEN upTo[i - 1]
        ELSE placeAfter(upTo[i - 1], space[2 * i])
  IN [o \in DOMAIN space |-> place(upTo[o \div 2 - 1], space[o])]

(* What is left of a segment is a free chunk, if it can hold a header.  The  *)
(* free pointers are taken in ascending order.                               *)
freeChunks(extents, free) ==
  LET Used(s) == Max({0} \cup {x.location + x.space : x \in {e \in extents : e.segment = s}})
      Left(s) == SegmentHeapSpaceSize - Used(s)
      taken[s \in 0..HeapSegmentCount] ==
        IF s = 0 THEN {}
        ELSE IF Left(s - 1) < HeaderSize THEN taken[s - 1]
        ELSE taken[s - 1] \cup {Min(free \ taken[s - 1])}
  IN {[oop |-> Min(free \ taken[s]), segment |-> s, size |-> Left(s), location |-> Used(s)] :
        s \in {r \in AllSegments : Left(r) >= HeaderSize}}

Covers(x, s, w) == x.segment = s /\ w \in x.location..(x.location + x.size - 1)

(* The memory with the objects and the free chunks at their places. *)
assemble(data, table, extents, chunks) ==
  LET Placed(e, x) == [e EXCEPT !.free = FALSE, !.segment = x.segment, !.location = x.location]
      Entry(o, here) == IF here = {} THEN table[o] ELSE Placed(table[o], CHOOSE x \in here : TRUE)
      ChunkWord(x, w) == IF w = x.location THEN x.size ELSE NonPointer
      Word(w, objects, frees) ==
        IF objects # {} THEN LET x == CHOOSE x \in objects : TRUE IN data[x.base + 1 + w - x.location]
        ELSE IF frees # {} THEN ChunkWord(CHOOSE x \in frees : TRUE, w)
        ELSE 0
  IN [ok |-> TRUE, chunks |-> {x.oop : x \in chunks},
      m |-> [ot |-> [o \in Oops |-> Entry(o, {x \in extents : x.oop = o} \cup {x \in chunks : x.oop = o})],
             heap |-> [s \in AllSegments |->
                         [w \in 0..HeapSpaceStop |->
                            Word(w, {x \in extents : Covers(x, s, w)},
                                    {x \in chunks : Covers(x, s, w)})]]]]

loadObjects(data, table) ==
  LET free == {o \in Oops : table[o].free}
      base(o) == ObjectSpaceBaseInImage + table[o].location
      objectSize(o) == data[base(o) + 1]
      space == [o \in Oops \ free |-> spaceFor(objectSize(o), table[o].pointer)]
      places == placesOf(space)
      extents == {[oop |-> o, segment |-> places[o].segment, location |-> places[o].word,
                   base |-> base(o), size |-> objectSize(o), space |-> space[o]] : o \in Oops \ free}
  IN IF \E x \in extents : x.segment >= HeapSegmentCount THEN LoadFailed
     ELSE assemble(data, table, extents, freeChunks(extents, free))

HasHeader(data) == Len(data) >= 2

(* A larger file is not read into the buffer. *)
TooLarge(b, data) == b = 2 /\ Len(data) > BufferSize

(* A file without a header leaves the length that is in the buffer.          *)
objectTableLength(data) == IF HasHeader(data) THEN data[2] ELSE BuiltInLength

(* The table starts before the file: mode 1 cannot go there, mode 2 copies   *)
(* what lies before the buffer.                                              *)
TableOutside(data) == objectTableLength(data) > Len(data)
ReadsOutside(b, data) == b = 2 /\ ~TooLarge(b, data) /\ TableOutside(data)

loadSnapshot(b, data) ==
  IF TooLarge(b, data) \/ (b = 1 /\ ~HasHeader(data)) \/ TableOutside(data) THEN LoadFailed
  ELSE loadObjects(data, loadedTable(data, objectTableLength(data)))

----------------------------------------------------------------------------
(* The initial image is on the card, saved and complete. *)
CellsOf(list) == FlattenSeq([i \in DOMAIN list |-> list[i].cells])

FileOf(m) ==
  [CellsOf(imageWrites(m)) EXCEPT ![1] = objectSpaceLength(m), ![2] = storedObjectTableLength(m)]

(* What the theorems need to know of an image: it has an object, objects     *)
(* have a header, and when they are placed again one after the other, there  *)
(* is room for them and there are pointers for the free chunks.              *)
IsImage(objects) ==
  /\ objects # NoFile /\ DOMAIN objects # {}
  /\ \A o \in DOMAIN objects :
       /\ objects[o] \in [count : Nat \ {0}, pointer : BOOLEAN, words : Seq(Nat)]
       /\ Len(objects[o].words) >= HeaderSize

spacesOf(objects) ==
  [o \in DOMAIN objects |-> spaceFor(Len(objects[o].words), objects[o].pointer)]

FitsInHeap(objects) ==
  /\ \A o \in DOMAIN objects :
       /\ spacesOf(objects)[o] <= SegmentHeapSpaceSize
       /\ placesOf(spacesOf(objects))[o].segment < HeapSegmentCount
  /\ Cardinality(Oops \ DOMAIN objects) >= HeapSegmentCount

ASSUME MemoriesOK ==
  \A m \in Memories : /\ IsImage(ObjectsIn(m)) /\ FitsInHeap(ObjectsIn(m))
                       /\ PagesOf(FileOf(m)) <= CardPages

Init ==
  \E m \in Memories :
    /\ FilesInit([n \in Names |-> IF n = BootName THEN FileOf(m) ELSE NoFile])
    /\ om = m /\ imageName = BootName /\ mode = "off" /\ fd = NoHandle /\ writes = <<>>
    /\ saved = [n \in ImageNames |-> IF n = BootName THEN ObjectsIn(m) ELSE NoFile]

(* The file system after a load: a file that is too large stays open.  Mode  *)
(* 1 seeks behind the first length, which makes a file longer that has none. *)
filesAfterLoad(b, data, opened) ==
  IF opened.fd = NoHandle \/ TooLarge(b, data) THEN opened.fs
  ELSE close_file(IF b = 1 THEN seek_to(opened.fs, opened.fd, 1) ELSE opened.fs, opened.fd)

Runs(memory) == mode' = "running" /\ om' = memory
DoesNotRun == mode' = "failed" /\ UNCHANGED om

(* Interpreter::init.  The image forgets the handles of an earlier session.  *)
(* A file without objects loads, and leaves nothing to run.  What lies       *)
(* before the buffer may be no memory, or any.                               *)
boot(b) ==
  LET data == fs.card[BootName]
      opened == open_file(fs, BootName)
      loaded == loadSnapshot(b, data)
  IN /\ mode = "off"
     /\ imageName' = BootName
     /\ fs' = filesAfterLoad(b, data, opened)
     /\ IF opened.fd # NoHandle /\ ReadsOutside(b, data)
        THEN DoesNotRun \/ \E memory \in Memories : Runs(memory)
        ELSE IF opened.fd = NoHandle \/ ~loaded.ok \/ DOMAIN ObjectsIn(loaded.m) = {}
        THEN DoesNotRun
        ELSE Runs(loaded.m)
     /\ UNCHANGED <<fileName, descriptor, fd, writes, saved>>

(* The image at work: it opens, reads and writes files, and changes memory.  *)
workOnFiles == mode = "running" /\ FileOperation /\ UNCHANGED snapshotVars

workInMemory ==
  /\ mode = "running"
  /\ om' \in Memories
  /\ UNCHANGED <<filesVars, imageName, mode, fd, writes, saved>>

primitiveBeSnapshotFile(n) ==
  /\ mode = "running"
  /\ imageName' = n
  /\ UNCHANGED <<filesVars, om, mode, fd, writes, saved>>

(* The file is created anew before a handle is looked for, so that without a *)
(* free handle the old contents are gone and nothing is saved.               *)
saveSnapshot ==
  LET created == create_file(fs, imageName)
  IN /\ mode = "running"
     /\ fs' = created.fs
     /\ saved' = [saved EXCEPT ![imageName] = NoFile]
     /\ IF created.fd = NoHandle THEN UNCHANGED <<mode, fd, writes>>
        ELSE mode' = "saving" /\ fd' = created.fd /\ writes' = saveObjects(om)
     /\ UNCHANGED <<fileName, descriptor, om, imageName>>

EndSave(files) ==
  /\ fs' = close_file(files, fd)
  /\ mode' = "running" /\ fd' = NoHandle /\ writes' = <<>>

(* One write of saveObjects; the first that is cut short ends the save. *)
saveWrite ==
  /\ mode = "saving" /\ writes # <<>>
  /\ LET w == Head(writes)
         done == write(IF w.at = NoHandle THEN fs ELSE seek_to(fs, fd, w.at), fd, w.cells)
     IN IF w.checked /\ done.written # Len(w.cells)
        THEN EndSave(done.fs)
        ELSE fs' = done.fs /\ writes' = Tail(writes) /\ UNCHANGED <<mode, fd>>
  /\ UNCHANGED <<fileName, descriptor, om, imageName, saved>>

saveSucceeds ==
  /\ mode = "saving" /\ writes = <<>>
  /\ EndSave(fs)
  /\ saved' = [saved EXCEPT ![imageName] = ObjectsIn(om)]
  /\ UNCHANGED <<fileName, descriptor, om, imageName>>

Off ==
  /\ mode' = "off" /\ fd' = NoHandle /\ writes' = <<>>
  /\ UNCHANGED <<om, imageName, saved>>

(* signal_quit ends the machine in order; power fails at any time.           *)
quit == mode = "running" /\ quitFiles /\ Off
powerFails == mode # "off" /\ loseFiles /\ Off

Next ==
  \/ \E b \in BootModes : boot(b)
  \/ workOnFiles \/ workInMemory \/ saveSnapshot \/ saveWrite \/ saveSucceeds
  \/ \E n \in ImageNames : primitiveBeSnapshotFile(n)
  \/ quit \/ powerFails

Spec == Init /\ [][Next]_vars

----------------------------------------------------------------------------
(* Properties. *)

TypeOK ==
  /\ FilesTypeOK
  /\ mode \in {"running", "saving", "off", "failed"}
  /\ imageName \in ImageNames /\ fd \in Handles \cup {NoHandle}

(* An image whose save has reported success is on the card and loads as the  *)
(* memory that was saved, object by object, whatever happens after: power    *)
(* failures, a full card, other files and other images ("This file can be    *)
(* resumed in exactly the same way").  In mode 2 that is so only of a file   *)
(* that is not TooLarge: no save looks at the size.  As the power may fail   *)
(* at any time, it is enough to look when the machine is off.                *)
SavedImageLoads ==
  mode = "off" =>
    \A n \in ImageNames, b \in BootModes : saved[n] # NoFile /\ ~TooLarge(b, fs.card[n]) =>
      LET loaded == loadSnapshot(b, fs.card[n])
      IN loaded.ok /\ ObjectsIn(loaded.m) = saved[n]

(* A file left behind by a save that did not succeed is no mixture of the    *)
(* old image and the new: a load fails, or finds no objects at all, or, in   *)
(* mode 2 and when not even the header is there, takes the length of the     *)
(* built-in image and reads outside the buffer.                              *)
NoHalfImage ==
  /\ TypeOK
  /\ mode = "off" =>
       \A n \in ImageNames, b \in BootModes : saved[n] = NoFile /\ fs.card[n] # NoFile =>
         LET loaded == loadSnapshot(b, fs.card[n])
         IN /\ loaded.ok => DOMAIN ObjectsIn(loaded.m) = {}
            /\ ReadsOutside(b, fs.card[n]) => ~HasHeader(fs.card[n])

(* The heap that a load leaves is tiled: every word of a segment is in one   *)
(* object, in the free chunk at the end, or in a rest too small for a chunk. *)
LoadTilesHeap ==
  LET Space(l, o) == IF o \in l.chunks THEN sizeOf(l.m, o)
                     ELSE spaceFor(sizeOf(l.m, o), l.m.ot[o].pointer)
      Extent(l, o) == l.m.ot[o].location..(l.m.ot[o].location + Space(l, o) - 1)
      Tiled(extents) ==
        /\ \A o, q \in DOMAIN extents : o # q => extents[o] \cap extents[q] = {}
        /\ \A o \in DOMAIN extents : extents[o] \subseteq 0..HeapSpaceStop
        /\ Cardinality((0..HeapSpaceStop) \ UNION {extents[o] : o \in DOMAIN extents}) < HeaderSize
      AllTiled(l) ==
        \A s \in AllSegments :
          Tiled([o \in {q \in Oops : ~l.m.ot[q].free /\ l.m.ot[q].segment = s} |-> Extent(l, o)])
  IN mode = "off" =>
       \A n \in ImageNames, b \in BootModes :
         LET loaded == loadSnapshot(b, fs.card[n])
         IN saved[n] # NoFile /\ loaded.ok => AllTiled(loaded)

=============================================================================
