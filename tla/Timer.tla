-------------------------------- MODULE Timer --------------------------------
(***************************************************************************)
(* The millisecond clock and the one timer of the virtual machine: the     *)
(* scheduled semaphore of smalltalk.cpp, looked at once per frame of the   *)
(* run loop, and the primitives by which the image reads the clock and     *)
(* asks to be signalled.  Time passes at any moment.                       *)
(*                                                                         *)
(* now is real time; the clock that the program reads is CKernel::GetTicks *)
(* and starts again from zero after Period milliseconds.                   *)
(***************************************************************************)
EXTENDS Integers

CONSTANTS Period,      \* the clock rolls over (4294967: 2^32 microseconds / 1000)
          TimeRange,   \* times are unsigned numbers of so many values (2^32)
          MaxFrame,    \* the longest time from one look of run to the next
          Horizon,     \* bound: time stops
          Delays,      \* waits the image asks for
          Semaphores   \* object pointers of semaphores, none of them zero

ASSUME TimerConstantsOK ==
  /\ Period \in Nat \ {0} /\ TimeRange \in Nat /\ Period <= TimeRange
  /\ MaxFrame \in Nat /\ Horizon \in Nat /\ Delays \subseteq Nat
  /\ 0 \notin Semaphores
  /\ \A delay \in Delays : Period + delay <= TimeRange   \* the image waits no longer

VARIABLES
  now,                  \* milliseconds since the machine started
  scheduled_semaphore,  \* the semaphore to signal, or 0
  scheduled_time,       \* and when, as a value of the clock
  due,                  \* auxiliary: the real time that the image meant
  read,                 \* the clock as the image last read it
  readAt,               \* auxiliary: the real time of that reading
  asked,                \* auxiliary: the real time of the last request
  checkedAt,            \* auxiliary: the real time run last looked
  fired,                \* auxiliary: the last signal, when, and when it was due
  pc                    \* where VirtualMachine::run is

vars == <<now, scheduled_semaphore, scheduled_time, due, read, readAt, asked, checkedAt, fired,
          pc>>

NoSignal == [semaphore |-> 0, at |-> 1, due |-> 0]

TypeOK ==
  /\ now \in 0..Horizon
  /\ scheduled_semaphore \in Semaphores \cup {0}
  /\ scheduled_time \in 0..TimeRange - 1
  /\ due \in Nat
  /\ read \in 0..Period - 1
  /\ readAt \in 0..Horizon /\ asked \in 0..Horizon /\ checkedAt \in 0..Horizon
  /\ fired \in [semaphore : Semaphores \cup {0}, at : Nat, due : Nat]
  /\ pc \in {"check", "cycles"}

get_msclock == now % Period

(* Time passes, but a frame has a fixed number of cycles: it takes no longer *)
(* than MaxFrame, whatever primitives it calls.                              *)
tick ==
  /\ now < Horizon
  /\ now - checkedAt < MaxFrame
  /\ now' = now + 1
  /\ UNCHANGED <<scheduled_semaphore, scheduled_time, due, read, readAt, asked, checkedAt,
                 fired, pc>>

M_passedExactly(time) == get_msclock = time + 1

(* The time has passed. *)
passed(time) == get_msclock > time

(* check_scheduled_semaphore with semaphore and time as they are: it signals *)
(* and forgets the request, or leaves it.                                    *)
CheckScheduled(semaphore, time, dueTime) ==
  IF semaphore # 0 /\ passed(time)
  THEN /\ fired' = [semaphore |-> semaphore, at |-> now, due |-> dueTime]
       /\ scheduled_semaphore' = 0
  ELSE /\ fired' = fired
       /\ scheduled_semaphore' = semaphore

check_scheduled_semaphore ==
  /\ pc = "check"
  /\ pc' = "cycles"
  /\ CheckScheduled(scheduled_semaphore, scheduled_time, due)
  /\ checkedAt' = now
  /\ UNCHANGED <<now, scheduled_time, due, read, readAt, asked>>

M_signal_atKeepsTime(semaphore, time, dueTime) ==
  /\ scheduled_time' = IF scheduled_semaphore # 0 THEN scheduled_time ELSE time
  /\ due' = dueTime
  /\ CheckScheduled(semaphore, scheduled_time', dueTime)

(* A new request replaces the old one; with no semaphore it cancels it.      *)
signal_at(semaphore, time, dueTime) ==
  /\ scheduled_time' = time
  /\ due' = dueTime
  /\ CheckScheduled(semaphore, time, dueTime)

(* Cycles of the interpreter. *)

primitiveTickWordsInto ==
  /\ pc = "cycles"
  /\ read' = get_msclock
  /\ readAt' = now
  /\ UNCHANGED <<now, scheduled_semaphore, scheduled_time, due, asked, checkedAt, fired, pc>>

(* The image asks for delay milliseconds after its reading of the clock.     *)
primitiveSignalAtTick(semaphore, delay) ==
  /\ pc = "cycles"
  /\ signal_at(semaphore, (read + delay) % TimeRange, readAt + delay)
  /\ asked' = now
  /\ UNCHANGED <<now, read, readAt, checkedAt, pc>>

endOfFrame ==
  /\ pc = "cycles"
  /\ pc' = "check"
  /\ UNCHANGED <<now, scheduled_semaphore, scheduled_time, due, read, readAt, asked, checkedAt,
                 fired>>

Init ==
  /\ now = 0
  /\ scheduled_semaphore = 0 /\ scheduled_time = 0 /\ due = 0
  /\ read = 0 /\ readAt = 0 /\ asked = 0 /\ checkedAt = 0
  /\ fired = NoSignal
  /\ pc = "check"

Next ==
  \/ tick
  \/ check_scheduled_semaphore
  \/ primitiveTickWordsInto
  \/ \E s \in Semaphores \cup {0}, delay \in Delays : primitiveSignalAtTick(s, delay)
  \/ endOfFrame

Spec == Init /\ [][Next]_vars

----------------------------------------------------------------------------
(* Properties. *)

(* No semaphore is signalled before the time the image meant, although the   *)
(* image may have read the clock long before it asked, a request may replace *)
(* another at any moment, and the clock rolls over; the times on their way   *)
(* stay those of the clock (TypeOK).                                         *)
NeverEarly == TypeOK /\ fired.at > fired.due

(* A delay ends: a request waits no longer than a frame after its time,      *)
(* however the looks of run, the readings of the clock and the requests that *)
(* replace each other fall ("Will signal immediate if scheduled time has     *)
(* passed", at signal_at).  Two kinds of request are left out, because       *)
(* check_scheduled_semaphore compares a clock that rolls over as a number:   *)
(* one for a value that no look of run need find exceeded before the clock   *)
(* starts again, and one that the image makes after the clock has done so.   *)
(* These may wait for a later period, or for ever.                           *)
NotLate ==
  /\ scheduled_semaphore # 0
  /\ scheduled_time + MaxFrame < Period
  /\ asked \div Period = due \div Period
  => now <= due + MaxFrame
=============================================================================
