# A TLA+ model of the Smalltalk-80 virtual machine for the Raspberry Pi

The repository is a bare-metal Smalltalk-80: the virtual machine of the Blue Book
(Goldberg & Robson, "G&R") in C++ (`smalltalk/src`), a kernel that gives it a screen,
a keyboard, a mouse and a clock (`smalltalk/raspberry`), and the Circle library
(`circle`, third party). This directory holds TLA+ modules for the parts where order,
concurrency and memory management decide whether the machine works, TLC
configurations that check them on small instances, and proofs for the scheduler in both its
forms, the object memory, the timer, the input events, the files, the snapshots and the contexts.

## 1. Inventory

| Component | State | Operations | What is hard |
|---|---|---|---|
| Process scheduler (`interpreter.cpp`) | one linked list per priority, one per semaphore with `excessSignals`, `ActiveProcess`, the registers `newProcessWaiting`, `newProcess`, `semaphoreList`, the contexts | `primitiveWait`, `primitiveSignal`, `primitiveResume`, `primitiveSuspend`, `asynchronousSignal`, `checkProcessSwitch` | a switch is only noted by a primitive and made at the next cycle; more signals may come in between; every link is reference counted by hand |
| Object memory (`objmemory.cpp`) | object table, heap segments cut into chunks, free chunk lists, free pointer list, `currentSegment`, `freeWords`, `freeOops` | allocation, stores with reference counting, deallocation, compaction, marking collection, become | an allocation may compact and collect in the middle of a primitive; recursion through whole structures; counts that stick at 128; the extra word of huge objects |
| Timer (`smalltalk.cpp`, `kernel.cpp`) | `scheduled_semaphore`, `scheduled_time`, the clock | `signal_at`, `check_scheduled_semaphore`, `primitiveTickWordsInto`, `primitiveSignalAtTick` | the clock rolls over and its values are compared as numbers; requests replace each other; the timer is looked at once per frame |
| Input events (`smalltalk.cpp`, `kernel.cpp`) | key buffer, buttons, `mouse_oldmb`, `input_queue`, `last_event_time`, `event_count` | USB handlers, `process_events`, `queue_input_*`, `primitiveInputWord` | handlers interrupt `process_events`; one signal per word; time differences that do not fit 12 bits; two clocks, of which an interrupt counts one and NTP corrects it |
| Snapshot load and save (`objmemory.cpp`, `interpreter.cpp`) | the image file, its name, the handle | `loadSnapshot`, `saveSnapshot`, `primitiveSnapshot`, `primitiveBeSnapshotFile` | two boot modes read the file in different ways; the file is replaced in place, write by write; the card may be full, the power may fail; addresses on the file leave out the extra words of huge objects |
| Bytecodes, contexts, method lookup and cache (`interpreter.cpp`) | the contexts, their stacks, the registers, `methodCache` | pushes, stores, sends, activation, returns, blocks, `perform:` | references are counted by hand in an order that must never free what is still needed; blocks outlive their homes; the cache must be flushed |
| Arithmetic and storage primitives (`interpreter.cpp`) | none of their own | about 100 primitives | 16-bit boundaries |
| BitBlt (`bitblt.cpp`) | none between calls | `copyBits`, `scanCharacters` | clipping, masks and skew at word boundaries, copies within one form |
| Display and cursor (`smalltalk.cpp`) | the display form, `dirty_rect`, `texture_needs_update`, offsets, the cursor's last place, the screen | `primitiveBeDisplay`, `primitiveBeCursor`, `display_changed`, `set_display_size`, `update_texture`, `render` | several changes become one rectangle; the cursor restores what it covered; the display changes its size between two frames |
| File system (`fatfilesystem.h`, `interpreter.cpp`) | table of open files `fdtofil`, `curfd`, the descriptors of the `PosixFile` objects | open, create, close, read and write a page, truncate, rename, delete | error paths, handles that are shared or lost |
| Kernel boot (`kernel.cpp`, `main.cpp`) | devices | `Initialize`, `Run` | none after the start |

How they interact. `VirtualMachine::run` repeats a frame: `process_events` (which queues
input words and calls `asynchronousSignal` once for each), `check_scheduled_semaphore`
(which may call it too), a note to check for low memory, and then a fixed number of
`Interpreter::cycle`s. A cycle starts with `checkProcessSwitch`, which gives the signals
to their semaphores and makes a pending switch, and then executes one bytecode. The
primitives are bytecodes. Any of them may allocate and so compact or collect. The USB
handlers are the only code that runs concurrently: they interrupt the frame at any point
and write the key buffer and the button state.

## 2. Modules

| Module | Models | Notes |
|---|---|---|
| `Scheduler` | the scheduler, a linked list being a sequence of processes | the abstract specification |
| `SchedulerLinks` | the same primitives as stores into `FirstLink`, `LastLink`, `NextLink` and `ActiveProcess`, with reference counts | implements `Scheduler` (`ImplementsScheduler`) |
| `SchedulerProofs` | | theorems and proofs for `Scheduler` |
| `LeastNumber` | | induction over natural numbers, for the proofs about links, the object memory, files, snapshots and contexts |
| `SchedulerLinksProofs` | | theorems and proofs for `SchedulerLinks`, the refinement among them |
| `ObjectMemory` | the object memory | traversal and compaction by their effect |
| `ObjectMemoryProofs` | | theorems and proofs for `ObjectMemory` |
| `HeapWalk` | the two algorithms in which `objmemory.cpp` changes the heap while it walks over it: the traversal by pointer reversal and the compaction of a segment, one turn of a loop at a time | compared with the operators of `ObjectMemory` (`AgreesWithObjectMemory`) |
| `Timer` | clock and timer | |
| `TimerProofs` | | theorems and proofs for `Timer` |
| `InputEvents` | interrupts, `process_events`, queue and reader | |
| `InputEventsProofs` | | theorems and proofs for `InputEvents` |
| `Files` | the table of open files, the `PosixFile` primitives, and a FAT card as far as they use it | external: FatFs, power failure |
| `Snapshot` | saving, loading and booting an image; EXTENDS `Files` | |
| `SnapshotProofs` | | theorems and proofs for `Files` and for `Snapshot`, which use them |
| `Contexts` | contexts, stacks, message sending, the method cache, blocks and returns, with reference counts | |
| `ContextsProofs` | | theorems and proofs for `Contexts` |
| `BitBlt` | `copyBits` and `scanCharacters` in words | operators, no state |
| `Display` | the display form, dirty rectangle, rendering and cursor; EXTENDS `BitBlt` | |
| `MC...` | the small instances | |

A definition has the name of the function it models. A definition whose name starts with
`M_` stands just before the one it is a mutation of and is a plausible mistake in that
code; nothing uses it, and replacing the definition by it must make a property fail.

### Scheduler

The variables are the fields and registers of the inventory. `pc` says where the
interpreter is: between cycles (`boundary`, where the machine may add to
`semaphoreList`), inside the loop of `checkProcessSwitch` (`drain`), or about to execute a
bytecode. One round of the loop is one action, because each round sees the switch that the
last one has left pending. `lastContext` is auxiliary: it records where a process last
executed, and `ContextsPreserved` compares the contexts in memory with it. A context is a
process and a bit, which is enough to tell a stale context from a current one.

Assumptions about the image, which the code relies on and does not check: there is a
background process (`Idle`) of the lowest priority that never waits and is never
suspended, and only processes that are in no list and not active are resumed. Both are
guards of the actions. When `excessSignals` is at its limit the code also fails the
primitive; the send that follows is the action `newActiveContext`.

### SchedulerLinks

`mem` holds the pointer slots, the reference count of each process, and the set of
processes that were freed. `storePointer` counts the new value up and the old one down, in
that order, and a process whose count reaches zero is freed at once and gives up its own
`NextLink`, which may free the next one: `freedBy` is the set of all that go. `held` is the set of processes that other objects of the image refer to; the
actions `holdActiveProcess` and `dropReference` change it, so that the links and registers
are sometimes all that keeps a process alive. `ListOf` follows the links; with it as
refinement mapping every behaviour is one of `Scheduler!Spec`.

### ObjectMemory

`om` is one record, the whole memory, and every routine of `objmemory.cpp` is an operator
from memories to memories that follows the order of the code; an action applies the
routines that one primitive calls. Chunks are extents in their segments. Object contents
are the class and the pointer fields; integers and bytes are left out, nil is 0 and is never
counted (its count sticks). The special objects are `Special`, and the active context is
the stack.

Left to their effect: the pointer reversal of the traversal (`Reachable` is the least closed set with the
roots; `countDown` keeps a path of objects and goes in turns, in the order in which the code visits) and the sweep
of a compaction (`sweepCurrentSegmentFrom`: what is above the mark slides down in order). Compiled methods,
which mix pointers and bytes, are pointer objects or not pointer objects here.

Three constants restrict the environment, and each run says which it uses. `MayCollect =
FALSE` leaves out allocations that would have to collect. `MaxFreeWords` is the bound on
`freeWords` above which no collection starts (`freeWords` grows for ever otherwise, see
section 4). With `ChunksPlain`, `garbageCollect` starts only when no free chunk is one that would
grow (the finding of the run `growing_chunk`).
The field `uncounted` is auxiliary: the class whose reference an allocation forgot because it
collected in between (section 4); it says by how much `CountsExact` is off until the next collection.

### HeapWalk

`mem` is a small object memory with words: each heap word is a pointer or `NonPointer`,
headers, extra words of huge objects and the bytes of methods included. A behaviour first
takes one of the `Starts` (a graph of objects, or a segment with free chunks) and one `task`:
`mark` (`markObjectsAccessibleFrom`), `count` (`countDown`) or `compact`
(`compactCurrentSegment`). The action `forAllOtherObjectsAccessibleFrom` is one turn of the
traversal's loop, `reverseHeapPointersAbove` and `sweepCurrentSegmentFrom` are one chunk each. `before` keeps the
memory at the start. `AgreesWithObjectMemory` compares the outcome with the operators by
which `ObjectMemory` describes the same routines, so that what is abstracted there is
checked here.

### Files and Snapshot

`fs` has the card (contents by name), the table `fdtofil` with the position of each open
file, and `curfd`. `descriptor` and `fileName` are the fields of the `PosixFile` objects.
The card is a FAT volume of `CardPages` pages: a write that finds no page fails. Truncating
gives pages back at once, and the entry on the card is cut off with them, while growth
reaches the entry at the close.
FatFs is external and modelled as the code uses it, with `FF_FS_LOCK` 0: the image
opens a file once, which is a guard. Every primitive is one action, since nothing interrupts it.

In `Snapshot`, `saveSnapshot` is a sequence of writes (`saveWrite`) that the action `powerFails`, or a full card,
may end anywhere. `saved` is auxiliary: the memory that a save which reported success has
written, by name, or `NoFile`. `imageWrites` and `headerWrites` are the writes of `saveObjects` in their order;
a write has cells (words; a length of 32 bits is one cell, too), and those of the header also a
place and no check. What a write that follows a seek past the end leaves in a cell is `Undefined`.
`FileOf` is what the file has when all writes are done. `loadSnapshot` reads the table from the end of a file
(`loadedTable`) and gives the objects places in the heap in the order of their pointers (`placesOf`, `place`: no object is
split across segments); what is left of a segment becomes a free chunk (`freeChunks`). The two boot modes differ in how they come to the
cells. Mode 1 reads the file piece by piece: it fails if the header or the table is not there. Mode 2, the shipped one
(`sdboot/cmdline.txt`), reads the file into the buffer of the built-in image. It refuses a file that is `TooLarge` for
that (`objmemory.cpp:296-298`) and leaves it open, so its handle is not free in this session (`filesAfterLoad`); it does not look whether there is a header, so an
empty file takes the table length that the built-in image has in the buffer (`BuiltInLength`, `:86`); and when the
table would start before the file it copies what lies before the buffer (`ReadsOutside`, `:105` and `:116`), after which
the machine may run with anything or not at all: `boot` then takes any memory, or none. A file whose size is one to
seven bytes would leave a length that is part file and part built-in; a save cannot leave one, because the place of the header is the first that is written and
lies in one page. Where the code works with a loop and a
running address, the model has a recursive function of the number of pointers done (`wordsUpTo`, `upTo`,
`taken`). The properties look at the card when the machine is `off`, which it may be at any moment.

The images that occur are `Memories`, and `MemoriesOK` says what is assumed of them: there is an object,
objects have at least a header, the objects of the image fit when they are placed again one after the other and leave a free
pointer for each segment, and the file fits on the card. TLC evaluates it. The real image has all these by
a wide margin. The save checks none of them; the load checks that there is a next segment when it needs one
(`objmemory.cpp:193`) and, in mode 2, the size of the file (`:296`), and fails otherwise. A file may be larger than the buffer (`MemoriesOK` does not
exclude it): the properties say what they say of mode 2 with the size as a condition. A memory that is nearly full but fragmented differently over its
segments could be saved and refused by the load, and `SavedImageLoads` is not about such a memory.

### Contexts

`vm` has the objects (contexts, messages, and nothing else; their fields, instruction
pointer nil or not, stack pointer and count), the registers `activeContext` and `stackPointer`, and one
instance variable (`variable`) through which contexts and blocks stay alive. `vm` is
one record and the routines are operators from one to the next, in the order of the code.
`methodCache` and `dictionary` are variables of their own. A context executes any bytecode
that leaves and finds on its stack what a compiler would put there; jumps are not needed for
that. A method is compiled into a class at any time
(`Installs`), followed by the flush as in the image.

Assumptions about the image: a block is not entered again while it is active, and stacks do not
overflow except where the code itself pushes. A method takes as many arguments as its selector has,
`doesNotUnderstand:` and `cannotReturn:` are implemented without a primitive and `perform:` with its own
(`EntryOK`), probing finds every entry of a dictionary (`DictionaryOK`), and every class understands
`doesNotUnderstand:` (`ImageOK`): these are assumptions on constants, which TLC evaluates. `ResultsHeld` says that a returned value is also referred to from elsewhere; see
section 4 for what happens otherwise.

### BitBlt and Display

A form is a sequence of words of `W` bits, a word being the set of its bits. `copyBits` is
translated function by function (`clipRange`, `computeMasks`, `checkOverlap`,
`calculateOffsets`, `copyLoop`). `drawn` is auxiliary: the pixels that should be black,
computed pixel by pixel from the request. `painted` is auxiliary as well: the pixels of the
display to which the image has copied. `screen` is the texture on the screen. The cursor is
drawn by `render` at the end of a frame, at any mouse position.
Uninitialised fields (`screen_initialized`, `dirty_rect`) have any value in `Init`.

Three things are left out, as guards with names: `OneWordToTheRight`, `InPlace` and `ClipOnForm` (section 4).

### Timer and InputEvents

`now` is real time and `get_msclock` what the program sees of it: it starts again after
`Period`. In `Timer`, the image reads the clock and asks for a signal some time after its
reading; `due` and `readAt` are auxiliary and hold the real times it meant. In
`Timer`, time passes at any moment, but no more than `MaxFrame` between two looks of the run loop: that is an assumption, which the code
justifies by the fixed number of cycles of a frame.
`InputEvents` has the second clock too. An event reads the millisecond clock
(`smalltalk.cpp:376`) in one step and, in a later one, the seconds (`:393`), if it needs them; `secondPasses` is the interrupt that counts them
(`circle/lib/timer.cpp:533-537`) and may fall between the two, or be as late as `MaxLate`,
which stands for ticks that it misses, too ("time may drift", `timer.cpp:507`). `SetTime` is NTP, whose task runs
only where the run loop gives up the processor, at the end of a frame (`smalltalk.cpp:583-592`); the clock starts
in 1970 (`timer.cpp:57`), so corrections are forward from there (`Corrections`). In
`InputEvents` the handlers of the kernel are actions that may come between any two steps
of `process_events`; the copy and the clear of `GetCookedKeyboardKey` are two steps.
Words are their types with the parameters that matter. A key whose second character is
above 3 is one of the escape sequences that `handle_cooked_keyboard_key` ignores. Time may
not pass for a whole period without an event: there are two events in every frame.

## 3. Runs

Passing runs (TLC finishes with no error):

| Run | Bounds | Shows |
|---|---|---|
| `scheduler` | 4 processes, 3 priorities, 2 semaphores (1 external), `MaxExcess` 2, `MaxPending` 2 | the safety properties, order of arrival, and `UrgentProcessRuns` under weak fairness of `cycle` |
| `scheduler_links` | the same with 1 and 1 | counts exact, no process freed in use, refinement |
| `object_memory` | 6 pointers, 2 segments of 9 words, `BigSize` 4, `HugeSize` 5, counts stick at 3, allocations may collect | heap, lists, counts and `freeOops` with stores, become, compaction, collections inside and outside an allocation, down to an exhausted memory |
| `heap_walk` | segments of 21 words, `BigSize` 4, `HugeSize` 5, counts stick at 3; every graph of a small object, a huge one and a byte object or method | the overwritten pointers can be put back at every step, every walk ends, the outcome is the one of `ObjectMemory` |
| `timer` | period 6, horizon 13, frames of at most 2, delays 0, 1 and 3 | `NeverEarly` and `NotLate` over two rollovers |
| `input_events` | period 3 from a clock of 2, horizon 3, seconds of 2, a correction by 2 seconds, `MaxDelta` 1, 2 buttons, 1 keystroke | the six properties of the input stream |
| `files` | 3 files and names, 2 handles, card of 3 pages, files of up to two pages; names and files symmetric | handles are owned, none is lost, renaming keeps the file |
| `snapshot` | 2 image names, 1 user file, 1 handle, card of 13 pages of 4 cells, 2 memories, boot modes 1 and 2, a buffer of 24 cells, which one of the two images does not fit | `SavedImageLoads`, `NoHalfImage`, `LoadTilesHeap` |
| `contexts` | 3 object pointers, stacks of 2, one cache entry for all sends, 3 classes, 7 selectors | counts, no dangling pointer, returns, cache, stacks |
| `display` | 3 bits in a word, forms of 7x3 and 4x2, screen of 10x5; every copy as the first and only event, else at most 6 events of 3 requests, a scan, new displays, cursors, extents, and frames with 3 mouse positions | words against pixels, copies reach the screen |

In all modules but `Scheduler` the type invariant (`TypeOK`, `FilesTypeOK`) is a conjunct of one of the properties.

Why the bounds are enough for what they are for. Two processes of one priority and one of
a higher one are what preemption, its reversal before the switch, and order of arrival
need; two pending signals make one drain signal twice. Segments of 9 words with headers of
2 have room for exact fits, splits, remainders of one word, and chunks on the shared list;
six pointers run out before the words do and after them, depending on the sizes. An object of 5 words is huge and
takes 6, and the second segment has room for objects that a compaction moves. The horizon of `timer` is past two periods, and four values
of the clock are a frame and more before the rollover; requests nearer to it do wait for a later period in this run, and are
what `NotLate` leaves out. `input_events` starts just before a rollover and has time for one second
boundary at any step. `PendingBounded` has the largest number
of words one frame can queue within the horizon (17) as its bound, so that a signal left
over from the frame before would break it; in the program a frame can queue 21 words and the
buffer has 4096 entries. `heap_walk` has an object of every kind the predicate and
the scan of fields distinguish (pointers, bytes, a method with both, a huge object with its
extra word), and all ways in which three of them can refer to each other, themselves included; three
free chunks in a segment are what it takes to have one before, between and behind objects.
Two handles for three files make `getfd` search from the middle, go round, and fail; three
pages for files of two make growing fail after another file was truncated. Names and
`PosixFile` objects are symmetric in `files`: no action tells them apart and no liveness is checked. The card
of `snapshot` has room for one image and half another. Three contexts are a caller, a method, and the block or message
that it makes. Words of three bits and forms of two or three words in a line have first, middle and last words,
merged masks, every skew and preload; events are bounded by six because a change of the display, a copy,
a frame, another copy and another frame come to five.

Two runs are expected to find a violation, of a statement quoted in `PROJECT.json`.
`message_arguments`: `createActualMessage` does not protect the array of the arguments from a
collection in its second allocation. `growing_chunk`: the free chunk of a huge pointer object keeps the
pointer bit, so a collection that no compaction has preceded, as `primitiveSnapshot` or the low-memory check
starts it, adds the extra word again, and the chunk overlaps the one behind it.

Fairness. `WF(cycle)`: the run loop calls `cycle` for ever, and a cycle always has a step.
`HeapWalk`: weak fairness of its one process, which is a loop without waiting. Nothing is assumed of the image: it need not wait, signal or read.

## 4. What the models left out or met on the way

These follow from the code and were met while modelling. They have no run: either no
sentence of the repository says otherwise, or they are the reason for a named guard.

Object memory.
- A collection inside an allocation adds the chunks that were free already to `freeWords` (`objmemory.cpp:847`)
  and forgets that the new object's class was counted up (`:990`), which `uncounted` records. Nothing comes of it for a class
  that something else keeps. Any other class has one counted reference less than it has references, and is freed under its last instance: with
  other classes than `InitialClass` in `ClassPointers`, TLC finds `NoDangling` violated after a few steps.
- A collection leaves `freeOops` one too high, because `auditFreeOops` runs before the
  register counts for the active context; `FreeListsSound` shows that this is all it is off by.

Timer.
- `check_scheduled_semaphore` signals when the clock is greater than the scheduled time,
  where the comment on `primitiveSignalAtTick` says "reaches".
- The clock rolls over after 4294967 ms (`kernel.cpp:392`), and times are compared as numbers (`smalltalk.cpp:75`). A request for a
  time past the largest value is never signalled. One for a time within a frame of it may be missed in every period, and one that the image
  makes after the rollover for a time before it waits for a whole period. `NotLate` is about all other requests.

Input events.
- The seconds are read after the milliseconds, so an absolute time may be ahead of its event by the time in between, and is behind it by up
  to a second; every difference after it adds to that. `TimesAddUp` has these bounds.
- A correction by NTP is told by the next absolute time only, which comes when no event has come for more than
  four seconds; the mouse position is queued every frame, so in practice that is the exception.

Contexts.
- Without `ResultsHeld`, `NoDangling` fails: on the way to `cannotReturn:` (`interpreter.cpp:1499`)
  the active context is pushed over the place that held the only counted reference to the
  popped result, which is freed and then pushed.
- `perform:` of a method whose primitive fails activates the method twice; a failing
  `primitivePerform` leaves `newMethod` as it looked it up.
- A return out of a block marks only the block's context, not the home it returns from, so a home can be returned
  from again; `NeverResumesReturned` is about the contexts that were marked.

Files and snapshots.
- A nil page in the truncating primitive fails, although its comment says that it "means truncate to zero
  bytes"; the result of truncating is not looked at; a close with a nil descriptor fails and yet closes handle 0;
  a failing read stores -1 as the number of bytes and answers true.
- With a full table `open_file` leaks its `FIL` and writes `fdtofil[-1]`.
- `saveSnapshot` truncates the old image before it has written the new one, does not check the writes of the header, and
  `primitiveSnapshot` ignores the result. After a full card the file has a zero header and loads as an
  empty memory; `NoHalfImage` allows for that. After a power failure there is no old image to go back to.
- Boot mode 2 (section 2): a save whose file is larger than the 1,000,000 bytes of the buffer reports success and cannot be loaded in that mode,
  which `SavedImageLoads` leaves out; a file without a header, as a power failure leaves it, makes the loader read before the buffer, which
  `NoHalfImage` allows for such files and no others; and a file that is too large stays open. `docs/Changelog.txt:30` lists the missing
  fallback to the built-in image as "Nice to have".
- `loadObjects` ignores read errors.

BitBlt and display.
- `OneWordToTheRight`: a copy within one form, to the right on the same lines, into a single word is
  wrong, because `checkOverlap` exchanges the masks that `computeMasks` has merged (`bitblt.cpp:480-531`).
- `InPlace`: what is copied in the frame in which the display changes its size is drawn at
  the offset of the frame before and stays there (`smalltalk.cpp:564`).
- `ClipOnForm`: `primitiveScanCharacters` reports the clipping rectangle as it is, and
  `display_changed` asserts that it lies on the display.
- `set_display_size` marks the whole display as dirty but asks for no update, so what a new display
  shows already appears only when it is copied to; `CopiesReachScreen` is about copies.
- A screen that is not ready drops the rectangle of that frame.

## 5. What is proved

`SchedulerProofs` proves, for all sets of processes and semaphores, all priorities and all
bounds that satisfy `ConstantsOK` (the only assumption: priorities are in range, the
background process is the least urgent, semaphores and priorities are distinct lists, the
limits are positive):

- `TypeCorrect`: `Spec => []TypeOK`
- `ProcessInOnePlace`: `Spec => []OnePlace`
- `PriorityScheduling`: `Spec => []MostUrgentIsActive`
- `SomeProcessToWake`: `Spec => []IdleReady`
- `WakeupsKept`: `Spec => []NoLostWakeup`
- `ContextsKept`: `Spec => []ContextsPreserved`
- `ServedInOrder`: `Spec => FirstComeFirstServed`

The argument. The inductive invariant `IInv` is the conjunction of these with
`ReadyAtOwnPriority` and `RegistersAgree`. `MostUrgentIsActive` is not inductive alone:
`suspendActive` takes the head of the highest list that is not empty, and only
`ReadyAtOwnPriority` says that this process has that priority, and only `IdleReady` that
there is one. `OnePlace` needs the registers to agree, since the active process is the new
process while a switch is pending. `AddLast` and `RemoveFirst` say what the two list
operations do to uniqueness, absence and membership; `SleepStep`, `ResumeStep` and
`SuspendStep` lift them to the routines; `SignalStep` covers the two callers of
`synchronousSignal`; `NextInv` has one step per action.

`ServedInOrder` is an action property and has an argument of its own: every step leaves the list of a
semaphore as it is, appends one process or takes the head off (`StepMoves`), and such a step
keeps the order of those who stay (`OrderKept`, which needs `OnePlace`).

`TimerProofs` proves `SignalsNotEarly`, `Spec => []NeverEarly`, and `DelaysEnd`, `Spec => []NotLate`, for every period, horizon, length of a
frame and set of delays that satisfies `TimerConstantsOK`. The assumption that matters is that a clock value
plus a delay still fits the number (`Period + delay <= TimeRange`); in the program a period is
4294967 ms and the numbers have 32 bits. The inductive
invariant adds to `NeverEarly` what a waiting request means: its scheduled time is the clock
at some earlier reading plus a delay, and `due` the real time of that reading plus the same delay
(`RequestMeant`). `ClockBehind` then says that a clock that is ahead of a value it had before has really
advanced by that much, rollover or not; that is why the signal may be late but not early. For `DelaysEnd` it adds that a request in
time that still waits was due no earlier than the last look of the run loop (`NotYetPassed`): the clock at that look was not greater than the scheduled
time and had not rolled over since (`ClockAhead`, `NotPassedYet`), and the look is not longer ago than a frame.

`InputEventsProofs` proves the six properties of the run `input_events` for every period, rate
of events, set of modifiers and length of the queue that satisfies `InputConstantsOK` (a period and the
largest difference together fit the number, again by far so in the program):
`OneSignalPerWord`, `StreamIsDecodable`, `TimesAreRight`, `KeystrokesOnce`, `ButtonsAreReported`, and
`SignalsFit`, which assumes `MaxPending >= 21` where the program has 4096. `TimesAreRight` holds for seconds of any length, any lateness of
the second clock and any corrections. The inductive invariant
adds that the queue ends with a whole event (`EventsComplete`, without which the next word
could follow a half-written time), that `last_event_time` is the clock at the last event and that this is
less than a period ago (`ClockAtEvent`, without which the unsigned difference could be that of
another turn of the clock), that a keystroke being copied is not counted twice (`KeyCopied`), and how
many words each part of a frame may have queued (`WordsSoFar`).

`SchedulerLinksProofs` proves, for all processes, semaphores and bounds that satisfy
`LinksConstantsOK` (`ConstantsOK`, with finitely many processes and semaphores and a nil that is
not a process):

- `ReferencesCounted`: `Spec => []CountsExact`
- `NoneFreedInUse`: `Spec => []NoDanglingProcess`
- `LinksImplementScheduler`: `Spec => ImplementsScheduler`, that is, `Scheduler!Spec` with `ListOf`
  as refinement mapping

The inductive invariant `Inv` is `Represents` (the links spell a sequence for every list, `LastLink`
is its last element, a process in no list has no `NextLink`, and the count of a process is the number of
slots that hold it plus what registers and other objects hold) together with the whole
`IInv` of `Scheduler`, taken over through INSTANCE. The latter is needed: `addLastLink_toList` stores into
the `NextLink` of the last process and overwrites what is there, which is harmless only because a process
is in one list at most, and that is `OnePlace`. The first half of the module shows that a chain of links spells
one sequence (`ListOfIs`, by induction over its length in the form of a least counterexample, for
which `LeastNumber` is there), and what one store does to counts and to what
is freed. A store never frees a chain: a process that loses a reference is either still
counted elsewhere, or it is in no list and has no `NextLink`. Each routine then gets one
lemma that says which sequences the links spell afterwards, which is the step of `Scheduler`.

`ObjectMemoryProofs` proves, for any object pointers, any number and size of segments, any `BigSize`,
`HugeSize` and sticky count, any requests and any length of the context that satisfy `ConstantsOK`
(finitely many pointers, two more than segments, and room for the objects of the snapshot in the first segment):

- `MemoryStaysSound`: `Spec => []Sound(om)`, the inductive invariant
- `FreeListsStaySound`: `Spec => []FreeListsSound`
- `HeapStaysTiled`: `Spec => []HeapTiled`
- `CountsStayExact`: `Spec => []CountsExact`
- `NothingDangles`: `Spec => []NoDangling`

Each has two hypotheses, and is false without either. `ChunksPlain`: no collection from outside an allocation starts with a
free chunk that would grow (without it `HeapTiled` fails, the run `growing_chunk`). A collection inside an
allocation needs no such hypothesis, because the search for a chunk has compacted all segments before, and
the proof shows that no such chunk is left then (`AllPlain`). `[][ForgetsInitialClassOnly]_om`: a creation that has to collect is one of an object of
`InitialClass`, which stands for the classes that the special objects hold; a creation that finds its chunk without collecting may be of
any class. An allocation that collects forgets one reference to the class (`objmemory.cpp:990`), and another class could then be
freed while its last instance lives (without the hypothesis `NoDangling` fails, section 4). The hypothesis is about the steps that
happen, not about the constants: behaviours with any mixture of classes, full memories and collections are covered up to the first
creation that would forget another class.
`MaxFreeWords` restricts what TLC explores; the proof makes no use of it. The theorems are
about `Spec`, so `createActualMessage`, which is wrong (the run `message_arguments`), is not in them.

`Sound` says of a memory: `Shape` (free entries are blank, every other entry has a chunk that lies in its
segment, and the lists have every free pointer and every free chunk once, the chunks
in the segment and under the size they belong to), `Tiled` (every word is in one chunk), `Exact` (counts are
references, one to `InitialClass` left out while it is in `uncounted`), `Rooted` (the first class and the active context are
objects of that class, and a register holds the context), `Counted` (no object has a count of zero), and what ties `freeOops` and the
length of the context to the table. None of the four properties is inductive alone: the lists are right only if a
chunk is freed once, which needs exact counts; counts stay exact only if what is freed is what nothing
refers to; and the heap stays tiled because the chunks on the lists are the ones that are in the table.

The lemmas follow the routines. `Shape(m, K)` and `Exact(ot, e, u, D)` allow for what is under way: `K` are chunks that are taken
off a list and not yet filled, or the other way round, `D` are slots whose references
have been given up, and `e` is what registers and local variables hold. `Deallocate`, `ObtainPointer` and `SplitChunk`
are about one chunk. `CompactTiles` shows that sliding the chunks above the mark down
by the number of free words below them leaves no gap and no overlap, from lemmas about the number of elements below
a word (`CountMonotone`, `CountInjective`, `CountOnto`), and that the rest is large enough for a free chunk; `AttemptToAllocateChunk`
goes through all the segments. `VisitKeeps`, `TurnKeeps` and `WalkEnds` are about `countDown`: the objects on the path
have lost their last reference and have given up the slots after `next`, and `Left`, the number of turns that remain, gets smaller.
The objects on the path are the ones that no root reaches, so the object stored into survives (`Survives`), which is what
`storePointer` needs when it writes the field after the old value is counted down. `RectifyKeeps` is one entry of the
table in `rectifyCountsAndDeallocateGarbage`: the counts of the entries done are references from those entries, and a mark
is a reference that is taken back when the entry's turn comes. `Reclaim`, `AllocateChunk` and `Allocate` put these together, `NextKeeps` has one
case per operation, and `InitSound` shows that the snapshot as loaded is sound, by induction over its
segments. Whatever the model computes by a recursive function (the turns, the segments
tried, the pointers counted, the entries of the table) first gets the equation of that function
(`Turning`, `Trying`, `Counting`, `Loading`), and then an induction with `InductionTo`.

`SnapshotProofs` proves about `Files`, for all names, `PosixFile` objects, sizes of table, page and card that satisfy
`FilesConstantsOK` (finitely many names, at least one handle, a cell in a page, and that the
values for "no file", "no open file" and "nil" are none of the values they stand apart from):

- `HandlesAreOwned`: `FilesSpec => []HandlesOwned`
- `HandleIsFound`: `FilesSpec => []FoundUnlessFull`
- `RenamingKeepsFiles`: `FilesSpec => RenameKeepsFile`

The inductive invariant `FilesInv` adds to `HandlesOwned` that the file system is `Sound`: an open
file is on the card, no name is open twice, the entry on the card takes no more pages than the
open file, and the card is not overfull (`FreePages(fs) >= 0`). The first two are what
makes reopening work: after a rename the entry is found, and it holds what the close wrote. The
other two are about each other: a full card is why a write is cut short and `f_lseek`
stops early, and a file that comes back after a power failure must not need pages that others
were given. The proof attempt showed that an earlier form of `f_truncate` broke this, in which the pages
were given to other files while the old entry still claimed them; TLC then found the
overfull card with files of two pages, and the model now cuts the entry as FatFs frees the clusters.
`FreePages` is a sum over the names; `PagesOfStep` says how it changes when one file changes,
by induction over the number of names (`LeastNumber`). `EntryChanges` and `FilChanges` then give each
FatFs operation its lemma (`Written`, `Truncated`, `Closed`, `Sought`, `ShutDown`, `PowerLost`), each
routine of the code one on top (`Handled`, `NewHandle`, `Reopened`), and `NextInv` has one step per
primitive.

`SnapshotProofs` proves about `Snapshot`, for all names, tables, heaps, thresholds, pages, cards and handles that satisfy `FilesConstantsOK`
and `SnapshotConstantsOK` and all memories that satisfy `MemoriesOK` (section 2):

- `SavedImagesLoad`: `Spec => []SavedImageLoads`
- `NoImageIsHalf`: `Spec => []NoHalfImage`
- `LoadsTileTheHeap`: `Spec => []LoadTilesHeap`
- `SnapshotInvariance`: `Spec => []SnapshotInv`, the inductive invariant, and `SnapshotTypesOK`: `Spec => []TypeOK`

`SnapshotInv` says what is on the card at any moment, not only when the machine is off. A file of an image whose
save has succeeded holds that image (`IsFileOf`, `Image`). Any other has nothing at all, or a header that tells an empty
table (`Harmless`): this cannot be loaded or has no objects, or is an empty file, which mode 2 reads from outside the buffer. When that or a
file that is too large is what is booted, the machine does not run, or in the first case runs with some memory, and the invariant holds all the same. While an image is saved, its entry on the card is empty,
because what is written gets there only at the close; the handle of `saveSnapshot` is one that no
`PosixFile` holds; and the open file is a prefix of the cells of the image with zeros in the header
(`Appending`), the same with the first cell of the header put in (`EndingHeader`), or the finished file (`Complete`). So the second
header cell, the length of the table, is what makes a file an image, and it is the last cell written. A power failure
leaves the empty entry, a full card the zero header. When no save is under way, the invariant of
`Files` holds, which gives what the open, the close and the writes do; a lemma for each operation of the image's own files
(`OpenKeeps`, `PageKeeps`, `TruncateKeeps`, `RenameKeeps`) says that it changes no entry of an image.

The largest part is not about steps but about what the operators compute. `FlattenIs` gives the equation of the recursion
under `FlattenSeq`, from which follow the places of the parts in a joined sequence (`PlacesOf`). `ObjectWritesIs`,
`ObjectSpaceIs`, `TableIs` and `ImageIs` put together where on the file each word of each object and each entry is;
`WordDecodes` says that flags and count come back from the packed word; `ImageOnFile` that the file of a memory holds its
image. `ObjectsWellPlaced` says that the placement keeps objects within segments and apart, by
comparing positions (`NotAfter`) along the recursion, and `FreeChunksAre` that each segment with room gets a pointer of its own.
`ImageLoads` follows: a file that holds an image loads in mode 1, and in mode 2 if it is not too large (`LoadSnapshotIs`), and its memory has the same objects with the
same words. `LoadTiles` adds that nothing of a segment is left between objects (`NoGap`: an object starts at the
beginning of a segment or where another ends), so that what no object and no chunk covers is less than a header.

`ContextsProofs` proves, for all finite sets of object pointers, any size of stack, any classes,
selectors, methods, dictionaries and hashes that satisfy `ContextsConstantsOK` and `ImageOK`, and
provided `ResultsHeld` (without it `NoDangling` is false, section 4):

- `CountsStayExact`: `Spec => []CountsExact`
- `NothingDangles`: `Spec => []NoDangling`
- `ReturnedStaysReturned`: `Spec => []NeverResumesReturned`
- `CacheStaysCoherent`: `Spec => []CacheCoherent`
- `WaitingStacksStay`: `Spec => WaitingStackKept`

The inductive invariant `IInv` has three parts. `DictionariesOK` and `CacheOK` are `ImageOK` and
`CacheCoherent` with types. `Good(vm)` says that counts are exact, that nothing is in use with
a count of zero, that the active context has an instruction pointer, and three things that
these properties need and do not say. A context that waits has a free place on its stack, which
the push of a result in `returnValue_to` relies on. The sender of a context is a context
and the home of a block is a method. And there is a rank, an order of age, in which a method is younger
than its sender and a block than its home (`Linked`). The senders of blocks may form a cycle, since a block is
entered from contexts younger than itself; but a method's sender is never itself or a context
it has created, and that is why the context returned to is another one than the context that is left and
survives it.

The lemmas follow the routines. `Exact(m, e, D)` is the accounting: the count of an object is the number of
slots outside `D` that hold it, plus `e`, what registers and local variables of the code hold at
this point. Every routine gets a lemma about how it changes `e` and `D`; a step
such as `returnToActiveContext`, in which the counts are wrong for a while, is a chain of them. `countDown`
frees in turns, and `Turns` and `ReleaseStep` show by induction (`LeastNumber`) that
what is left after as many turns as there are objects is exact again. `transfer` has the same form
(`Moves`). Lookup is `FoundInDictionary` (probing finds what a dictionary has, wherever the hash starts) and
`Lookup` (the method found is the one `Understood` names); `Send` puts lookup, cache and
activation together; and `NextKeeps` has one case per bytecode.

`WaitingStackKept` follows from the same invariant. `Waits(s, t)` is what it says of one step. The chain of
senders is a union built up from the active context, and `ChainStays` shows, by induction over its length, that it is
the same before and after anything that leaves the active context and the links alone, such as a push, and that
nothing in it is freed: each context of it is held by the one before. So the pushes and pops a bytecode begins
with are `Undisturbed`, and its last part (an activation, a return, a store into the home context)
needs a single look at which slots it changes. A return writes one slot, the first above the
stack of the context returned to, and a store into the home context writes a temporary; both lie outside what a waiting
context left on its stack. The code may free part of the chain, as a return past several contexts does when nothing else holds
them, and the property allows it.

Only model-checked: liveness (`UrgentProcessRuns`, `WalkEnds`), the rest of what is said of
`HeapWalk`, and `Display`. `AgreesWithObjectMemory` compares two ways of walking over any graph of objects, and
`DrawnAsAsked` two ways of computing a picture from words and masks with their bits. TLC does these for all the small cases.

## 6. Plan

Done: all modules of section 2 and the proofs of section 5. What could follow: the copies of `Display` as
theorems; the arithmetic primitives against a reference over 16-bit values; the composition of `Contexts` with
`Scheduler`, in which a process switch may come between any two bytecodes.

## 7. Not modelled

- Jumps, sends to super and extended bytecodes: other encodings of the same steps. `value`
  and `perform:` with an array of arguments.
- Arithmetic and storage primitives: functions of 16-bit integers, floats and single fields
  that keep no state; the stores they make are those of `ObjectMemory`.
- Enumerating the directory and asking for the size of a file, which change nothing.
- Hardware initialisation (`kernel.cpp`), which happens once and fails by stopping.
- The Circle library, FatFs, the graphics add-ons, firmware files and the built-in image
  (`snapshot.h`). They are third-party or data and make up almost all of the 308 thousand lines of
  the repository; the program itself, `smalltalk/src` without `snapshot.h` and
  `smalltalk/raspberry`, has thirteen thousand, comments and debugging code included.
  The share of all lines that the modules stand for is small for that reason.
- Oops that the machine keeps outside the object memory (the input and timer semaphores, the
  method cache) are not roots of the collector; whether the image always keeps them otherwise
  reachable cannot be seen from the repository.

## 8. Running

    tlc -workers 2 -config Scheduler.cfg MCScheduler
    tlapm SchedulerProofs.tla
    tlapm LeastNumber.tla
    tlapm SchedulerLinksProofs.tla
    tlapm ObjectMemoryProofs.tla
    tlapm TimerProofs.tla
    tlapm InputEventsProofs.tla
    tlapm SnapshotProofs.tla
    tlapm ContextsProofs.tla
