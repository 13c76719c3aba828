-------------------------------- MODULE Files --------------------------------
(***************************************************************************)
(* The files of the virtual machine: the table of open files of            *)
(* FatST80FileSystem (fatfilesystem.h) over the FatFs library, and the     *)
(* primitives with which the image works on PosixFile objects              *)
(* (primitivePosixFileOperation and primitivePosixDirectoryOperation).     *)
(*                                                                         *)
(* FatFs is external.  It is modelled by what the code above relies on: a  *)
(* directory entry on the card, with the size and so the contents of the   *)
(* file as of the last f_open with FA_CREATE_ALWAYS or f_close; a FIL with *)
(* the contents as the program sees them; a card that can be full.         *)
(* f_truncate gives pages back at once, before f_close notes the size, so  *)
(* the file on the card is cut off as well.  The contents of a file are a  *)
(* sequence of cells.                                                      *)
(***************************************************************************)
EXTENDS Integers, Sequences, FiniteSets, FiniteSetsExt

CONSTANTS Names,           \* names of files
          PosixFiles,      \* PosixFile objects of the image
          UserNames,       \* the names the image uses for them
          Bytes,           \* numbers of cells in a page that the image writes
          MAX_OPEN_FILES,  \* 64
          PageSize,        \* cells in a page (512)
          MaxPages,        \* bound: pages of a file of the image
          CardPages,       \* pages that the card can hold
          NoFile,          \* no directory entry
          NO_FIL,          \* no open file
          NilPointer,      \* nil
          Undefined        \* a cell that was never written

Cells == Nat \cup {Undefined}  \* what a file holds

ASSUME FilesConstantsOK ==
  /\ IsFiniteSet(Names) /\ UserNames \subseteq Names
  /\ MAX_OPEN_FILES \in Nat \ {0} /\ PageSize \in Nat \ {0}
  /\ MaxPages \in Nat /\ CardPages \in Nat
  /\ Bytes \subseteq 1..PageSize
  /\ NoFile \notin Seq(Cells)
  /\ NO_FIL \notin [name : Names, pos : Nat, data : Seq(Cells)]
  /\ NilPointer \notin 0..(MAX_OPEN_FILES - 1)

VARIABLES fs,          \* the file system: see FileSystem
          fileName,    \* the fileName field of the PosixFile objects
          descriptor   \* their fd field: a handle, or nil

Handles == 0..(MAX_OPEN_FILES - 1)
NoHandle == -1

----------------------------------------------------------------------------
(* FatFs. *)

PagesOf(data) == (Len(data) + PageSize - 1) \div PageSize

(* The contents of a file as the program sees them. *)
Live(s, n) ==
  LET open == {h \in Handles : s.fdtofil[h] # NO_FIL /\ s.fdtofil[h].name = n}
  IN IF open # {} THEN s.fdtofil[CHOOSE h \in open : TRUE].data
     ELSE IF s.card[n] = NoFile THEN <<>> ELSE s.card[n]

FreePages(s) == CardPages - MapThenSumSet(LAMBDA n : PagesOf(Live(s, n)), Names)

(* How far the data of a FIL can reach. *)
Room(s, data) == (PagesOf(data) + FreePages(s)) * PageSize

(* Beyond the end a file opened for writing grows, as far as the card goes.  *)
f_lseek(s, fil, position) ==
  LET at == Min({position, Max({Len(fil.data), Room(s, fil.data)})})
      grown == [i \in 1..Max({at, Len(fil.data)}) |->
                  IF i <= Len(fil.data) THEN fil.data[i] ELSE Undefined]
  IN [fil EXCEPT !.pos = at, !.data = grown]

(* The FIL after the cells that fit have been written, and their number.     *)
f_write(s, fil, cells) ==
  LET n == Min({Len(cells), Max({Len(fil.data), Room(s, fil.data)}) - fil.pos})
      end == fil.pos + n
  IN [written |-> n,
      fil |-> [fil EXCEPT !.pos = end,
                 !.data = [i \in 1..Max({end, Len(fil.data)}) |->
                             IF i \in (fil.pos + 1)..end THEN cells[i - fil.pos]
                             ELSE fil.data[i]]]]

f_read(fil, n) ==
  SubSeq(fil.data, fil.pos + 1, Min({fil.pos + n, Len(fil.data)}))

(* The pages behind the position are free from now on.                       *)
f_truncate(s, h) ==
  LET fil == s.fdtofil[h]
      data == SubSeq(fil.data, 1, fil.pos)
  IN [s EXCEPT !.fdtofil[h].data = data,
               !.card[fil.name] = SubSeq(@, 1, Min({Len(@), PagesOf(data) * PageSize}))]

f_close(s, h) == [s EXCEPT !.card[s.fdtofil[h].name] = s.fdtofil[h].data, !.fdtofil[h] = NO_FIL]

----------------------------------------------------------------------------
(* FatST80FileSystem.  An operation answers the file system and a result.    *)

M_getfdFirstLoop(s) ==
  LET free == {h \in Handles : s.fdtofil[h] = NO_FIL}
      ahead == {h \in free : h >= s.curfd}
  IN IF ahead # {} THEN [fd |-> Min(ahead), curfd |-> Min(ahead) + 1]
     ELSE [fd |-> NoHandle, curfd |-> s.curfd]

(* The next free handle from curfd on, or else the first before it. *)
getfd(s) ==
  LET free == {h \in Handles : s.fdtofil[h] = NO_FIL}
      ahead == {h \in free : h >= s.curfd}
  IN IF ahead # {} THEN [fd |-> Min(ahead), curfd |-> Min(ahead) + 1]
     ELSE IF free # {} THEN [fd |-> Min(free), curfd |-> Min(free) + 1]
     ELSE [fd |-> NoHandle, curfd |-> s.curfd]

(* A FIL that finds no handle stays open and out of reach; the store to      *)
(* fdtofil[-1] falls on unused bytes of the root directory's string.         *)
Handle(s, n, data) ==
  LET got == getfd(s)
      fil == [name |-> n, pos |-> 0, data |-> data]
  IN [fd |-> got.fd,
      fs |-> IF got.fd = NoHandle THEN [s EXCEPT !.curfd = got.curfd]
             ELSE [s EXCEPT !.curfd = got.curfd, !.fdtofil[got.fd] = fil]]

open_file(s, n) ==
  IF s.card[n] = NoFile THEN [fd |-> NoHandle, fs |-> s] ELSE Handle(s, n, s.card[n])

M_create_fileKeepsOld(s, n) ==
  LET old == IF s.card[n] = NoFile THEN <<>> ELSE s.card[n]
  IN Handle([s EXCEPT !.card[n] = old], n, old)

create_file(s, n) == Handle([s EXCEPT !.card[n] = <<>>], n, <<>>)

M_close_fileKeepsHandle(s, h) ==
  IF s.fdtofil[h] = NO_FIL THEN s
  ELSE [s EXCEPT !.card[s.fdtofil[h].name] = s.fdtofil[h].data]

close_file(s, h) == IF s.fdtofil[h] = NO_FIL THEN s ELSE f_close(s, h)

seek_to(s, h, position) == [s EXCEPT !.fdtofil[h] = f_lseek(s, @, position)]

write(s, h, cells) ==
  LET done == f_write(s, s.fdtofil[h], cells)
  IN [fs |-> [s EXCEPT !.fdtofil[h] = done.fil], written |-> done.written]

truncate_to(s, h, length) == f_truncate(seek_to(s, h, length), h)

rename_file(s, old, new) ==
  [s EXCEPT !.card[new] = s.card[old], !.card[old] = NoFile]

CanRename(s, old, new) == s.card[old] # NoFile /\ s.card[new] = NoFile

(* The virtual machine is destroyed: every file in the table is closed. *)
shutdown(s) ==
  LET closed[i \in 0..MAX_OPEN_FILES] ==
        IF i = 0 THEN s ELSE close_file(closed[i - 1], i - 1)
  IN [closed[MAX_OPEN_FILES] EXCEPT !.curfd = 0]

----------------------------------------------------------------------------
(* The primitives.  The image opens a file once at a time, as FatFs without  *)
(* file locks requires, and deletes files that are closed.                   *)

filesVars == <<fs, fileName, descriptor>>

FilesInit(card) ==
  /\ fs = [card |-> card, fdtofil |-> [h \in Handles |-> NO_FIL],
           curfd |-> 0]
  /\ fileName \in [PosixFiles -> UserNames]
  /\ IsInjective(fileName)
  /\ descriptor = [f \in PosixFiles |-> NilPointer]

InUse(n) == \E f \in PosixFiles : fileName[f] = n /\ descriptor[f] # NilPointer
MayOpen(f) == descriptor[f] = NilPointer /\ ~InUse(fileName[f])

Opened(f, result) ==
  /\ fs' = result.fs
  /\ descriptor' = [descriptor EXCEPT ![f] = IF result.fd = NoHandle THEN NilPointer
                                             ELSE result.fd]
  /\ UNCHANGED fileName

openFile(f) == MayOpen(f) /\ Opened(f, open_file(fs, fileName[f]))

(* The primitive answers the handle, the image stores it in the PosixFile. *)
createFile(f) == MayOpen(f) /\ Opened(f, create_file(fs, fileName[f]))

closeFile(f) ==
  /\ descriptor[f] # NilPointer
  /\ fs' = close_file(fs, descriptor[f])
  /\ descriptor' = [descriptor EXCEPT ![f] = NilPointer]
  /\ UNCHANGED fileName

(* The pages of the image: its numbers start at 1, and it reads no page that *)
(* begins behind the end of the file.                                        *)
PositionOf(page) == (page - 1) * PageSize
Pages(f) == 1..Min({MaxPages, PagesOf(fs.fdtofil[descriptor[f]].data) + 1})
Starts(f, page) == PositionOf(page) <= Len(fs.fdtofil[descriptor[f]].data)

readPage(f, page) ==
  /\ descriptor[f] # NilPointer
  /\ page \in Pages(f) /\ Starts(f, page)
  /\ LET sought == seek_to(fs, descriptor[f], PositionOf(page))
         bytesInPage == Len(f_read(sought.fdtofil[descriptor[f]], PageSize))
     IN fs' = [sought EXCEPT !.fdtofil[descriptor[f]].pos = @ + bytesInPage]
  /\ UNCHANGED <<fileName, descriptor>>

(* What a page holds does not matter here. *)
writePage(f, page, bytesInPage) ==
  /\ descriptor[f] # NilPointer
  /\ page \in Pages(f)
  /\ fs' = write(seek_to(fs, descriptor[f], PositionOf(page)), descriptor[f],
                 [i \in 1..bytesInPage |-> 1]).fs
  /\ UNCHANGED <<fileName, descriptor>>

truncatePage(f, page, bytesInPage) ==
  /\ descriptor[f] # NilPointer
  /\ page \in Pages(f)
  /\ fs' = truncate_to(fs, descriptor[f], PositionOf(page) + bytesInPage)
  /\ UNCHANGED <<fileName, descriptor>>

deleteFile(n) ==
  /\ fs.card[n] # NoFile /\ ~InUse(n)
  /\ fs' = [fs EXCEPT !.card[n] = NoFile]
  /\ UNCHANGED <<fileName, descriptor>>

M_renameForgetsPosition(s, n, position) == open_file(s, n)

(* The file is opened again, under the name that it has, at the old position. *)
reopen(s, n, position) ==
  LET opened == open_file(s, n)
  IN IF opened.fd = NoHandle THEN opened
     ELSE [opened EXCEPT !.fs = seek_to(opened.fs, opened.fd, position)]

(* An open file is closed first and opened again, whether or not it could be *)
(* renamed.                                                                  *)
renameFile(f, new) ==
  LET old == fileName[f]
      wasOpen == descriptor[f] # NilPointer
      closed == IF wasOpen THEN close_file(fs, descriptor[f]) ELSE fs
      renamed == CanRename(closed, old, new)
      moved == IF renamed THEN rename_file(closed, old, new) ELSE closed
      opened == reopen(moved, IF renamed THEN new ELSE old, fs.fdtofil[descriptor[f]].pos)
  IN /\ wasOpen \/ ~InUse(old)
     /\ fileName' = IF renamed THEN [fileName EXCEPT ![f] = new] ELSE fileName
     /\ IF ~wasOpen THEN fs' = moved /\ UNCHANGED descriptor
        ELSE /\ fs' = opened.fs
             /\ descriptor' = [descriptor EXCEPT ![f] = IF opened.fd = NoHandle THEN NilPointer
                                                        ELSE opened.fd]

FileOperation ==
  \/ \E f \in PosixFiles : openFile(f) \/ createFile(f) \/ closeFile(f)
  \/ \E f \in PosixFiles, page \in 1..MaxPages : readPage(f, page)
  \/ \E f \in PosixFiles, page \in 1..MaxPages, n \in Bytes :
        writePage(f, page, n) \/ truncatePage(f, page, n)
  \/ \E n \in UserNames : deleteFile(n)
  \/ \E f \in PosixFiles, new \in UserNames : renameFile(f, new)

(* The virtual machine ends and its file system shuts down; the image starts *)
(* again without handles.                                                    *)
NoDescriptors == descriptor' = [f \in PosixFiles |-> NilPointer] /\ UNCHANGED fileName

quitFiles == fs' = shutdown(fs) /\ NoDescriptors

(* What was in a FIL and not closed is gone. *)
powerLoss(s) == [s EXCEPT !.fdtofil = [h \in Handles |-> NO_FIL], !.curfd = 0]
loseFiles == fs' = powerLoss(fs) /\ NoDescriptors

FilesSpec ==
  /\ FilesInit([n \in Names |-> NoFile])
  /\ [][FileOperation \/ quitFiles \/ loseFiles]_filesVars

----------------------------------------------------------------------------
(* Properties. *)

FilesTypeOK ==
  /\ fs.curfd \in 0..MAX_OPEN_FILES
  /\ \A h \in Handles : \/ fs.fdtofil[h] = NO_FIL
                        \/ /\ fs.fdtofil[h].name \in Names
                           /\ fs.fdtofil[h].pos \in 0..Len(fs.fdtofil[h].data)
  /\ FreePages(fs) >= 0
  /\ descriptor \in [PosixFiles -> Handles \cup {NilPointer}]
  /\ fileName \in [PosixFiles -> UserNames]

(* Every handle that a PosixFile holds is open on the file that it names, no *)
(* two of them hold the same handle, and the table keeps no handle open that *)
(* nobody holds: what is written to one file never gets into another, and no *)
(* entry of the table is lost for good.                                      *)
HandlesOwned ==
  LET held == {f \in PosixFiles : descriptor[f] # NilPointer}
  IN /\ FilesTypeOK
     /\ \A f \in held : /\ fs.fdtofil[descriptor[f]] # NO_FIL
                        /\ fs.fdtofil[descriptor[f]].name = fileName[f]
     /\ \A f, g \in held : descriptor[f] = descriptor[g] => f = g
     /\ {h \in Handles : fs.fdtofil[h] # NO_FIL} = {descriptor[f] : f \in held}

(* A file is refused only when all handles are in use, wherever the search   *)
(* for one last stopped.                                                     *)
FoundUnlessFull ==
  getfd(fs).fd = NoHandle => \A h \in Handles : fs.fdtofil[h] # NO_FIL

(* Renaming an open file leaves it open, under the new name, with the same   *)
(* contents and at the same position, and a rename that fails leaves it open *)
(* as it was.                                                                *)
RenameKeepsFile ==
  [][\A f \in PosixFiles, new \in UserNames :
       renameFile(f, new) /\ descriptor[f] # NilPointer =>
         /\ descriptor'[f] # NilPointer
         /\ fs'.fdtofil[descriptor'[f]] =
              [fs.fdtofil[descriptor[f]] EXCEPT !.name = fileName'[f]]]_filesVars

=============================================================================
