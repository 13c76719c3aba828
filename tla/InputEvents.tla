----------------------------- MODULE InputEvents -----------------------------
(***************************************************************************)
(* Input: the keyboard and mouse handlers of kernel.cpp, which interrupt   *)
(* the machine at any moment; process_events, once per frame of the run    *)
(* loop, which turns what they left into words of the input queue and      *)
(* signals the input semaphore once per word; and a process of the image   *)
(* that waits for the semaphore and takes one word.                        *)
(*                                                                         *)
(* An event reads two clocks, one after the other: the millisecond clock,  *)
(* which runs freely, and, if the difference does not fit a word, the      *)
(* seconds, which an interrupt counts and which NTP may set.               *)
(*                                                                         *)
(* A word is its type; the button of a button word is kept, coordinates    *)
(* and key are not, and what the times come to is in stamp.                *)
(***************************************************************************)
EXTENDS Integers, Sequences, FiniteSets

CONSTANTS Period,      \* the millisecond clock rolls over
          ClockStart,  \* what it shows when the second clock starts
          TimeRange,   \* unsigned 32-bit arithmetic on times (2^32)
          Horizon,     \* bound: time stops
          MsPerSecond, \* milliseconds of a second (1000)
          MaxLate,     \* how late the second clock may be, ticks it misses included
          Corrections, \* seconds that NTP may have set that clock forward
          MaxDelta,    \* largest time that fits a type 0 word (4095)
          Buttons,     \* 1, 2 and 4
          CtrlStates,  \* second character of a keystroke: 0..3 are modifiers
          MaxKeys,     \* bound: keystrokes
          MaxQueue,    \* bound: a frame starts with at most so many words queued
          MaxPending   \* length of semaphoreList (4096)

ASSUME InputConstantsOK ==
  /\ Period \in Nat \ {0} /\ TimeRange \in Nat /\ Period <= TimeRange /\ ClockStart \in Nat
  /\ MaxDelta \in Nat /\ Period + MaxDelta <= TimeRange
  /\ Horizon \in Nat /\ MaxKeys \in Nat /\ MaxQueue \in Nat /\ MaxPending \in Nat
  /\ MsPerSecond \in Nat \ {0} /\ MaxLate \in Nat /\ Corrections \subseteq Nat
  /\ Buttons \subseteq {1, 2, 4} /\ CtrlStates \subseteq Nat

NoKey == -1
HighWord == 16   \* not types: the two words of an absolute time, 16 bits each
LowWord == 17

VARIABLES
  now,              \* milliseconds since the second clock started
  m_nTime,          \* timer: the seconds
  corrected,        \* auxiliary: how many of them are NTP's
  m_CookedKeySeq,   \* kernel: the last keystroke, or NoKey
  m_nButtons,       \* kernel: the buttons that are down
  typed,            \* auxiliary: number of keystrokes
  pc,               \* where VirtualMachine::run is
  keySeq,           \* local of process_events
  mouse_mb,         \* local of process_events: the buttons of this frame
  mouse_oldmb,      \* static of process_events: the buttons of the frame before
  clock,            \* local now of queue_input_time_words
  readAt,           \* auxiliary: the real time of that reading
  input_queue,      \* words, the oldest first
  semaphoreList,    \* number of signals not yet given to the semaphore
  excessSignals,    \* signals of the semaphore
  reader,           \* the process: waiting, or after its wait
  event_count,      \* whether there has been an event
  last_event_time,  \* the clock at the last event
  delivered,        \* auxiliary: keystrokes put on the queue
  reported,         \* auxiliary: buttons down according to the words
  unseen,           \* auxiliary: buttons whose last change no word told of
  stamp,            \* auxiliary: time of the last event according to the words
  lastEvent,        \* auxiliary: real time of the last event
  known,            \* auxiliary: the corrections in the last absolute time
  lag               \* auxiliary: the time between the readings of its clocks

clockVars == <<now, m_nTime, corrected>>
kernelVars == <<clockVars, m_CookedKeySeq, m_nButtons, typed>>
locals == <<keySeq, mouse_mb, clock, readAt>>
timeVars == <<event_count, last_event_time, stamp, lastEvent, known, lag>>
queueVars == <<input_queue, semaphoreList, timeVars>>
vars == <<kernelVars, pc, locals, mouse_oldmb, queueVars, excessSignals, reader, delivered,
          reported, unseen>>

Words == [type : {0, 1, 3, 4, 5, HighWord, LowWord}, parameter : Nat]

TypeOK ==
  /\ now \in 0..Horizon /\ typed \in 0..MaxKeys
  /\ m_nTime \in Nat /\ corrected \in 0..m_nTime
  /\ m_CookedKeySeq \in CtrlStates \cup {NoKey}
  /\ m_nButtons \subseteq Buttons
  /\ pc \in {"key", "clear", "keyTime", "button", "buttonTime", "moveX", "moveXTime", "moveY",
             "moveYTime", "cycle", "cycles"}
  /\ keySeq \in CtrlStates \cup {NoKey}
  /\ mouse_mb \subseteq Buttons /\ mouse_oldmb \subseteq Buttons
  /\ reported \subseteq Buttons /\ unseen \subseteq Buttons
  /\ clock \in 0..Period - 1 /\ readAt \in 0..Horizon
  /\ input_queue \in Seq(Words)
  /\ semaphoreList \in Nat /\ excessSignals \in Nat /\ delivered \in Nat
  /\ reader \in {"waiting", "signalled"}
  /\ event_count \in BOOLEAN
  /\ last_event_time \in 0..Period - 1
  /\ stamp \in Nat /\ lastEvent \in 0..Horizon /\ known \in Nat /\ lag \in Nat

get_msclock == (ClockStart + now) % Period

(* The origin of the seconds does not matter here. *)
get_smalltalk_epoch_time == m_nTime

----------------------------------------------------------------------------
(* Interrupts and NTP. *)

(* Where the next second starts. *)
nextSecond == MsPerSecond * (m_nTime - corrected + 1)

(* Time passes, less than a period of the clock from one event to the next:  *)
(* there are two in every frame.  The interrupt that counts the seconds is   *)
(* not later than MaxLate.                                                   *)
tick ==
  /\ now < Horizon
  /\ now - lastEvent < Period - 1
  /\ now < nextSecond + MaxLate
  /\ now' = now + 1
  /\ UNCHANGED <<m_nTime, corrected, m_CookedKeySeq, m_nButtons, typed, pc, locals, mouse_oldmb,
                 queueVars, excessSignals, reader, delivered, reported, unseen>>

secondPasses ==
  /\ now >= nextSecond
  /\ m_nTime' = m_nTime + 1
  /\ UNCHANGED <<now, corrected, m_CookedKeySeq, m_nButtons, typed, pc, locals, mouse_oldmb,
                 queueVars, excessSignals, reader, delivered, reported, unseen>>

(* The NTP task runs when the run loop gives up the processor, between two   *)
(* frames.                                                                   *)
SetTime(seconds) ==
  /\ pc = "key"
  /\ corrected' = seconds
  /\ m_nTime' = m_nTime - corrected + seconds
  /\ UNCHANGED <<now, m_CookedKeySeq, m_nButtons, typed, pc, locals, mouse_oldmb, queueVars,
                 excessSignals, reader, delivered, reported, unseen>>

KeyPressedHandler(ctrl) ==
  /\ typed < MaxKeys
  /\ typed' = typed + 1
  /\ m_CookedKeySeq' = ctrl
  /\ UNCHANGED <<clockVars, m_nButtons, pc, locals, mouse_oldmb, queueVars, excessSignals, reader,
                 delivered, reported, unseen>>

Changed(old, new) == (old \ new) \cup (new \ old)

(* The user presses or releases a button. *)
MouseEventHandler(b) ==
  /\ m_nButtons' = Changed(m_nButtons, {b})
  /\ UNCHANGED <<clockVars, m_CookedKeySeq, typed, pc, locals, mouse_oldmb, queueVars,
                 excessSignals, reader, delivered, reported, unseen>>

----------------------------------------------------------------------------
(* The queue. *)

Word(type, parameter) == [type |-> type, parameter |-> parameter]

M_signalOncePerEvent(words) ==
  /\ input_queue' = input_queue \o words
  /\ semaphoreList' = semaphoreList + 1

(* queue_input_word for each of the words: a signal goes with every word.    *)
queue_input_word(words) ==
  /\ input_queue' = input_queue \o words
  /\ semaphoreList' = semaphoreList + Len(words)

(* queue_input_time_words first reads the millisecond clock. *)
readClock == clock' = get_msclock /\ readAt' = now

(* Unsigned subtraction; zero for the first event. *)
delta_time == IF event_count THEN (clock - last_event_time) % TimeRange ELSE 0

(* It goes on with a difference or, reading the seconds, an absolute time.   *)
isAbsolute == delta_time > MaxDelta

M_timeWordsHalf ==
  IF ~isAbsolute THEN <<Word(0, 0)>>
  ELSE <<Word(5, 0), Word(LowWord, 0)>>

(* A difference in one word, or the time in two words of 16 bits.            *)
timeWords ==
  IF ~isAbsolute THEN <<Word(0, 0)>>
  ELSE <<Word(5, 0), Word(HighWord, 0), Word(LowWord, 0)>>

(* The time that one who adds up the words has after an event; the first     *)
(* event is where he starts.                                                 *)
timeAfter ==
  IF ~event_count THEN readAt + MsPerSecond * corrected
  ELSE IF isAbsolute THEN MsPerSecond * get_smalltalk_epoch_time
  ELSE stamp + delta_time

(* What he knows the time from. *)
newTime ==
  /\ lastEvent' = readAt
  /\ stamp' = timeAfter
  /\ known' = IF event_count /\ ~isAbsolute THEN known ELSE corrected
  /\ lag' = IF isAbsolute THEN now - readAt ELSE lag

M_eventForgetsTime ==
  /\ event_count' = TRUE
  /\ last_event_time' = IF isAbsolute THEN last_event_time ELSE clock
  /\ newTime

(* What queue_input_time_words leaves for the next event. *)
queue_input_time ==
  /\ event_count' = TRUE
  /\ last_event_time' = clock
  /\ newTime

keyWords(ctrl) ==
  LET mods == (IF ctrl % 2 = 1 THEN <<138>> ELSE <<>>)
                \o (IF ctrl \div 2 = 1 THEN <<136>> ELSE <<>>)
      downs == [i \in 1..Len(mods) |-> Word(3, mods[i])]
      ups == [i \in 1..Len(mods) |-> Word(4, mods[Len(mods) + 1 - i])]
  IN timeWords \o (downs \o <<Word(3, 0), Word(4, 0)>> \o ups)

buttonWords(b, down) == timeWords \o <<Word(IF down THEN 3 ELSE 4, b)>>

----------------------------------------------------------------------------
(* The run loop.  GetCookedKeyboardKey copies the keystroke and then clears  *)
(* it: a keystroke may come in between.                                      *)

copyKey ==
  /\ pc = "key"
  /\ Len(input_queue) <= MaxQueue
  /\ keySeq' = m_CookedKeySeq
  /\ pc' = "clear"
  /\ UNCHANGED <<kernelVars, mouse_mb, clock, readAt, mouse_oldmb, queueVars, excessSignals,
                 reader, delivered, reported, unseen>>

NotAnEvent == keySeq = NoKey \/ keySeq > 3

(* A key that is an event reads the clock next; another is dropped.          *)
afterKey ==
  IF NotAnEvent THEN pc' = "button" /\ keySeq' = NoKey /\ UNCHANGED <<clock, readAt>>
  ELSE pc' = "keyTime" /\ readClock /\ UNCHANGED keySeq

M_keyNotCleared ==
  /\ pc = "clear"
  /\ afterKey
  /\ UNCHANGED <<kernelVars, mouse_mb, mouse_oldmb, queueVars, excessSignals, reader, delivered,
                 reported, unseen>>

clearKey ==
  /\ pc = "clear"
  /\ m_CookedKeySeq' = NoKey
  /\ afterKey
  /\ UNCHANGED <<clockVars, m_nButtons, typed, mouse_mb, mouse_oldmb, queueVars, excessSignals,
                 reader, delivered, reported, unseen>>

handle_cooked_keyboard_key ==
  /\ pc = "keyTime"
  /\ pc' = "button"
  /\ queue_input_word(keyWords(keySeq))
  /\ queue_input_time
  /\ delivered' = delivered + 1
  /\ keySeq' = NoKey
  /\ UNCHANGED <<kernelVars, mouse_mb, clock, readAt, mouse_oldmb, excessSignals, reader, reported,
                 unseen>>

(* Buttons that have changed are an event, which reads the clock next.       *)
GetMouseState ==
  /\ pc = "button"
  /\ mouse_mb' = m_nButtons
  /\ IF m_nButtons = mouse_oldmb
     THEN pc' = "moveX" /\ UNCHANGED <<clock, readAt>>
     ELSE pc' = "buttonTime" /\ readClock
  /\ UNCHANGED <<kernelVars, keySeq, mouse_oldmb, queueVars, excessSignals, reader, delivered,
                 reported, unseen>>

(* The last of the buttons that changed is reported.                         *)
changedButton == CHOOSE b \in Changed(mouse_oldmb, mouse_mb) :
                   \A c \in Changed(mouse_oldmb, mouse_mb) : c <= b

M_mouseOldKept ==
  /\ pc = "buttonTime"
  /\ pc' = "moveX"
  /\ mouse_oldmb' = mouse_oldmb \cup mouse_mb
  /\ queue_input_word(buttonWords(changedButton, changedButton \in mouse_mb))
  /\ queue_input_time
  /\ reported' = IF changedButton \in mouse_mb
                 THEN reported \cup {changedButton} ELSE reported \ {changedButton}
  /\ unseen' = (unseen \cup Changed(mouse_oldmb, mouse_mb)) \ {changedButton}
  /\ UNCHANGED <<kernelVars, locals, excessSignals, reader, delivered>>

handle_mouse_button_event ==
  /\ pc = "buttonTime"
  /\ pc' = "moveX"
  /\ mouse_oldmb' = mouse_mb
  /\ queue_input_word(buttonWords(changedButton, changedButton \in mouse_mb))
  /\ queue_input_time
  /\ reported' = IF changedButton \in mouse_mb
                 THEN reported \cup {changedButton} ELSE reported \ {changedButton}
  /\ unseen' = (unseen \cup Changed(mouse_oldmb, mouse_mb)) \ {changedButton}
  /\ UNCHANGED <<kernelVars, locals, excessSignals, reader, delivered>>

(* The position, every frame: two events, with a time each. *)
readMovementClock ==
  /\ pc \in {"moveX", "moveY"}
  /\ pc' = IF pc = "moveX" THEN "moveXTime" ELSE "moveYTime"
  /\ readClock
  /\ UNCHANGED <<kernelVars, keySeq, mouse_mb, mouse_oldmb, queueVars, excessSignals, reader,
                 delivered, reported, unseen>>

handle_mouse_movement_event ==
  /\ pc \in {"moveXTime", "moveYTime"}
  /\ pc' = IF pc = "moveXTime" THEN "moveY" ELSE "cycle"
  /\ queue_input_word(timeWords \o <<Word(1, 0)>>)
  /\ queue_input_time
  /\ UNCHANGED <<kernelVars, locals, mouse_oldmb, excessSignals, reader, delivered, reported,
                 unseen>>

M_drainLeavesOne ==
  /\ pc = "cycle"
  /\ pc' = "cycles"
  /\ excessSignals' = excessSignals + semaphoreList - 1
  /\ semaphoreList' = 1
  /\ UNCHANGED <<kernelVars, locals, mouse_oldmb, input_queue, timeVars, reader, delivered,
                 reported, unseen>>

(* The first cycle of the frame signals all that is in semaphoreList.        *)
checkProcessSwitch ==
  /\ pc = "cycle"
  /\ pc' = "cycles"
  /\ excessSignals' = excessSignals + semaphoreList
  /\ semaphoreList' = 0
  /\ UNCHANGED <<kernelVars, locals, mouse_oldmb, input_queue, timeVars, reader, delivered,
                 reported, unseen>>

primitiveWait ==
  /\ pc = "cycles"
  /\ reader = "waiting" /\ excessSignals > 0
  /\ excessSignals' = excessSignals - 1
  /\ reader' = "signalled"
  /\ UNCHANGED <<kernelVars, pc, locals, mouse_oldmb, queueVars, delivered, reported, unseen>>

(* primitiveInputWord; it fails when the queue is empty. *)
primitiveInputWord ==
  /\ pc = "cycles"
  /\ reader = "signalled"
  /\ input_queue # <<>>
  /\ input_queue' = Tail(input_queue)
  /\ reader' = "waiting"
  /\ UNCHANGED <<kernelVars, pc, locals, mouse_oldmb, semaphoreList, excessSignals, timeVars,
                 delivered, reported, unseen>>

endOfFrame ==
  /\ pc = "cycles"
  /\ pc' = "key"
  /\ UNCHANGED <<kernelVars, locals, mouse_oldmb, queueVars, excessSignals, reader, delivered,
                 reported, unseen>>

Init ==
  /\ now = 0 /\ m_nTime = 0 /\ corrected = 0 /\ m_CookedKeySeq = NoKey /\ m_nButtons = {} /\ typed = 0
  /\ pc = "key" /\ keySeq = NoKey /\ mouse_mb = {} /\ clock = 0 /\ readAt = 0
  /\ mouse_oldmb = {} /\ reported = {} /\ unseen = {}
  /\ input_queue = <<>> /\ semaphoreList = 0 /\ excessSignals = 0
  /\ reader = "waiting" /\ event_count = FALSE /\ last_event_time = 0
  /\ delivered = 0 /\ stamp = 0 /\ lastEvent = 0 /\ known = 0 /\ lag = 0

Next ==
  \/ tick \/ secondPasses
  \/ \E seconds \in Corrections : SetTime(seconds)
  \/ \E ctrl \in CtrlStates : KeyPressedHandler(ctrl)
  \/ \E b \in Buttons : MouseEventHandler(b)
  \/ copyKey \/ clearKey \/ handle_cooked_keyboard_key
  \/ GetMouseState \/ handle_mouse_button_event
  \/ readMovementClock \/ handle_mouse_movement_event
  \/ checkProcessSwitch
  \/ primitiveWait
  \/ primitiveInputWord
  \/ endOfFrame

Spec == Init /\ [][Next]_vars

----------------------------------------------------------------------------
(* Properties. *)

(* "The semaphore will be signaled once for every word placed in the input   *)
(* buffer": the signals on their way, those given and the one the process    *)
(* has taken are as many as the words, so that primitiveInputWord "sent just *)
(* after the input semaphore finished a wait" never fails.                   *)
SignalPerWord ==
  semaphoreList + excessSignals + (IF reader = "signalled" THEN 1 ELSE 0) = Len(input_queue)

(* The words can be told apart from any point between two events: the two    *)
(* words of an absolute time come after a word of type 5 and nowhere else,   *)
(* and an event starts with its time.                                        *)
Follows(w, v) ==
  /\ v.type = HighWord <=> w.type = 5
  /\ v.type = LowWord <=> w.type = HighWord
  /\ w.type = 0 => v.type \in {1, 3, 4}
StreamDecodes ==
  \A i \in 1..Len(input_queue) - 1 : Follows(input_queue[i], input_queue[i + 1])

(* The times in the words add up: one who starts from the first event, adds  *)
(* every difference and takes over every absolute time is ahead of the last  *)
(* event by no more than the time between the two readings of clocks for the *)
(* last absolute time, and behind it by no more than a second and the delay  *)
(* of the second clock, but for what NTP has corrected since.  All of this   *)
(* although the clock rolls over and the differences do not fit.             *)
TimesAddUp ==
  event_count => lastEvent + MsPerSecond * known - stamp \in -lag..(MsPerSecond + MaxLate)

(* A keystroke is put on the queue at most once. *)
KeysOnce ==
  delivered + (IF m_CookedKeySeq # NoKey /\ pc # "clear" THEN 1 ELSE 0)
            + (IF pc = "keyTime" THEN 1 ELSE 0) <= typed

(* The words tell of every button the frames have seen go down or up, except *)
(* a button whose last change fell into the same frame as another's.         *)
ButtonsReported == Changed(reported, mouse_oldmb) \subseteq unseen

(* asynchronousSignal never runs past the end of semaphoreList: a frame      *)
(* signals at most MaxPending times before the first cycle drains them.      *)
PendingBounded == TypeOK /\ semaphoreList <= MaxPending
=============================================================================
