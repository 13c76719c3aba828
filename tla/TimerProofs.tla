----------------------------- MODULE TimerProofs -----------------------------
(* No signal comes early and none later than a frame, for any period of the  *)
(* clock, any delays and any length of a frame.                              *)
EXTENDS Timer, TLAPS

(* A request that waits was made for a time that is delay after a reading of *)
(* the clock, and has the value of the clock at that reading plus delay.     *)
Meant(reading, delay) ==
  /\ due = reading + delay
  /\ scheduled_time = (reading % Period) + delay

RequestMeant ==
  scheduled_semaphore # 0 => \E reading \in 0..now, delay \in Nat : Meant(reading, delay)

ReadBefore == readAt <= now /\ read = readAt % Period

(* A request that one frame can serve: see NotLate. *)
InTime == scheduled_time + MaxFrame < Period /\ asked \div Period = due \div Period

(* Such a request is still there because its time had not come when run last *)
(* looked, which is not longer ago than a frame.                             *)
NotYetPassed ==
  /\ checkedAt <= now /\ now <= checkedAt + MaxFrame
  /\ scheduled_semaphore # 0 /\ InTime => checkedAt <= due

IInv == TypeOK /\ fired.at > fired.due /\ RequestMeant /\ ReadBefore /\ NotYetPassed

(* A clock that has rolled over shows less than the time that has passed:    *)
(* when it is ahead of an old value by more than d, more than d has passed.  *)
LEMMA ClockBehind ==
  ASSUME NEW p \in Nat \ {0}, NEW a \in Nat, NEW b \in Nat, NEW d \in Nat,
         a <= b, b % p > (a % p) + d
  PROVE  b > a + d
<1> DEFINE r == a \div p
           q == b \div p
<1>1. r \in Nat /\ q \in Nat /\ a % p \in 0..p - 1 /\ b % p \in 0..p - 1
  OBVIOUS
<1>2. a = p * r + (a % p) /\ b = p * q + (b % p)
  OBVIOUS
<1> HIDE DEF r, q
<1>3. q >= r
  <2>1. SUFFICES ASSUME q < r PROVE FALSE
    BY <1>1
  <2>2. p * q + p <= p * r
    BY <1>1, <2>1
  <2> QED
    BY <1>1, <1>2, <2>2
<1>4. p * q >= p * r
  BY <1>1, <1>3
<1> QED
  BY <1>1, <1>2, <1>4

LEMMA InitInv == Init => IInv
<1>1. 0 % Period = 0
  BY TimerConstantsOK
<1> QED
  BY <1>1, TimerConstantsOK
  DEF Init, IInv, TypeOK, RequestMeant, ReadBefore, NotYetPassed, NoSignal

(* The request that waits, if it is signalled now, is not early.             *)
LEMMA PassedIsLate ==
  ASSUME now \in Nat, NEW reading \in 0..now, NEW delay \in Nat,
         passed((reading % Period) + delay)
  PROVE  now > reading + delay
<1>1. reading \in Nat /\ reading <= now
  OBVIOUS
<1>2. Period \in Nat \ {0}
  BY TimerConstantsOK
<1>3. now % Period > (reading % Period) + delay
  BY DEF passed, get_msclock
<1> QED
  BY <1>1, <1>2, <1>3, ClockBehind

(* A time and a later one, before which the clock has not rolled over.       *)
LEMMA ClockAhead ==
  ASSUME NEW p \in Nat \ {0}, NEW a \in Nat, NEW b \in Nat, a <= b,
         (a % p) + (b - a) < p
  PROVE  b % p = (a % p) + (b - a) /\ a \div p = b \div p
<1> DEFINE q == a \div p
           r == b \div p
<1>1. q \in Nat /\ r \in Nat /\ a % p \in 0..p - 1 /\ b % p \in 0..p - 1
  OBVIOUS
<1>2. a = p * q + (a % p) /\ b = p * r + (b % p)
  OBVIOUS
<1> HIDE DEF q, r
<1>3. ASSUME r < q PROVE FALSE
  <2>1. p * r + p <= p * q
    BY <1>1, <1>3
  <2> QED
    BY <1>1, <1>2, <2>1
<1>4. ASSUME q < r PROVE FALSE
  <2>1. p * q + p <= p * r
    BY <1>1, <1>4
  <2> QED
    BY <1>1, <1>2, <2>1
<1>5. q = r
  BY <1>1, <1>3, <1>4
<1>6. b % p = (a % p) + (b - a)
  BY <1>1, <1>2, <1>5
<1> QED
  BY <1>5, <1>6 DEF q, r

(* The value of the clock that a request in time waits for is the one at its *)
(* time.                                                                     *)
LEMMA DueOnClock ==
  ASSUME NEW reading \in Nat, NEW delay \in Nat, (reading % Period) + delay < Period
  PROVE  (reading + delay) % Period = (reading % Period) + delay
<1>1. Period \in Nat \ {0}
  BY TimerConstantsOK
<1>2. reading + delay \in Nat /\ reading <= reading + delay /\ (reading + delay) - reading = delay
  OBVIOUS
<1> QED
  BY <1>1, <1>2, ClockAhead

(* When the clock shows no more than the value it has at a time, and has not *)
(* rolled over since that time, the time has not passed.                     *)
LEMMA NotPassedYet ==
  ASSUME NEW p \in Nat \ {0}, NEW t \in Nat, NEW d \in Nat, ~(t % p > d % p),
         t \div p = d \div p
  PROVE  t <= d
<1> DEFINE q == t \div p
<1>1. q \in Nat /\ t % p \in 0..p - 1 /\ d % p \in 0..p - 1
  OBVIOUS
<1>2. t = p * q + (t % p) /\ d = p * q + (d % p)
  OBVIOUS
<1> HIDE DEF q
<1> QED
  BY <1>1, <1>2

(* The same, when at most so much time has gone by that the clock cannot     *)
(* have rolled over.                                                         *)
LEMMA NotPassedSoon ==
  ASSUME NEW p \in Nat \ {0}, NEW t \in Nat, NEW d \in Nat, NEW f \in Nat,
         ~(t % p > d % p), t <= d + f, (d % p) + f < p
  PROVE  t <= d
<1>1. SUFFICES ASSUME d < t PROVE FALSE
  OBVIOUS
<1>2. d % p \in 0..p - 1 /\ t % p \in 0..p - 1
  OBVIOUS
<1>3. d <= t /\ (d % p) + (t - d) < p
  BY <1>1, <1>2
<1>4. t % p = (d % p) + (t - d)
  BY <1>3, ClockAhead
<1> QED
  BY <1>1, <1>2, <1>4

(* check_scheduled_semaphore with a request made after reading the clock:    *)
(* what it signals is not early, and what it leaves is still that request.   *)
LEMMA CheckStep ==
  ASSUME TypeOK, fired.at > fired.due, UNCHANGED now,
         NEW semaphore \in Semaphores \cup {0},
         NEW reading \in 0..now, NEW delay \in Nat,
         CheckScheduled(semaphore, (reading % Period) + delay, reading + delay)
  PROVE  /\ scheduled_semaphore' \in Semaphores \cup {0}
         /\ fired' \in [semaphore : Semaphores \cup {0}, at : Nat, due : Nat]
         /\ (fired.at > fired.due)'
<1>0. now \in Nat /\ reading \in Nat
  BY TimerConstantsOK DEF TypeOK
<1>1. CASE semaphore # 0 /\ passed((reading % Period) + delay)
  <2>1. now > reading + delay
    BY <1>0, <1>1, PassedIsLate
  <2>2. fired' = [semaphore |-> semaphore, at |-> now, due |-> reading + delay]
    BY <1>1 DEF CheckScheduled
  <2> QED
    BY <1>0, <1>1, <2>1, <2>2 DEF CheckScheduled
<1>2. CASE ~(semaphore # 0 /\ passed((reading % Period) + delay))
  BY <1>2 DEF CheckScheduled, TypeOK
<1> QED
  BY <1>1, <1>2

LEMMA NextInv == IInv /\ [Next]_vars => IInv'
<1> SUFFICES ASSUME IInv, [Next]_vars PROVE IInv'
  OBVIOUS
<1> USE DEF IInv
<1>0. /\ TypeOK /\ RequestMeant /\ ReadBefore /\ fired.at > fired.due /\ NotYetPassed
      /\ Period \in Nat \ {0} /\ now \in Nat /\ Horizon \in Nat /\ MaxFrame \in Nat
      /\ checkedAt \in Nat /\ due \in Nat /\ asked \in Nat /\ scheduled_time \in Nat
  BY TimerConstantsOK DEF TypeOK
<1>1. CASE tick
  <2>1. TypeOK' /\ (fired.at > fired.due)' /\ ReadBefore'
    BY <1>0, <1>1 DEF tick, TypeOK, ReadBefore
  <2>2. ASSUME scheduled_semaphore' # 0
        PROVE  \E reading \in 0..now', delay \in Nat : Meant(reading, delay)'
    <3>1. PICK reading \in 0..now, delay \in Nat : Meant(reading, delay)
      BY <1>0, <1>1, <2>2 DEF tick, RequestMeant
    <3>2. reading \in 0..now'
      BY <1>0, <1>1 DEF tick
    <3>3. Meant(reading, delay)'
      BY <1>1, <3>1 DEF tick, Meant
    <3> QED
      BY <3>2, <3>3
  <2>3. NotYetPassed'
    BY <1>0, <1>1 DEF tick, NotYetPassed, InTime
  <2> QED
    BY <2>1, <2>2, <2>3 DEF RequestMeant
<1>2. CASE check_scheduled_semaphore
  <2>1. CASE scheduled_semaphore = 0
    BY <1>0, <1>2, <2>1
    DEF check_scheduled_semaphore, CheckScheduled, TypeOK, RequestMeant, ReadBefore, NotYetPassed
  <2>2. CASE scheduled_semaphore # 0
    <3>1. PICK reading \in 0..now, delay \in Nat : Meant(reading, delay)
      BY <1>0, <2>2 DEF RequestMeant
    <3>2. CheckScheduled(scheduled_semaphore, (reading % Period) + delay, reading + delay)
      BY <1>2, <3>1 DEF check_scheduled_semaphore, Meant
    <3>3. /\ scheduled_semaphore' \in Semaphores \cup {0}
          /\ fired' \in [semaphore : Semaphores \cup {0}, at : Nat, due : Nat]
          /\ (fired.at > fired.due)'
      BY <1>0, <1>2, <3>2, CheckStep DEF check_scheduled_semaphore, TypeOK
    <3>4. RequestMeant'
      BY <1>0, <1>2, <3>1 DEF check_scheduled_semaphore, RequestMeant, Meant
    <3>5. ASSUME scheduled_semaphore' # 0, InTime PROVE now <= due
      <4>1. ~(now % Period > scheduled_time)
        BY <1>2, <2>2, <3>5
        DEF check_scheduled_semaphore, CheckScheduled, passed, get_msclock
      <4>2. reading \in Nat /\ (reading % Period) + delay = scheduled_time /\ due = reading + delay
        BY <1>0, <3>1 DEF Meant
      <4>3. scheduled_time + MaxFrame < Period
        BY <3>5 DEF InTime
      <4>4. due % Period = scheduled_time
        <5>1. (reading % Period) + delay < Period
          BY <1>0, <4>2, <4>3
        <5>2. (reading + delay) % Period = (reading % Period) + delay
          BY <4>2, <5>1, DueOnClock
        <5> QED
          BY <4>2, <5>2, Zenon
      <4>5. now <= due + MaxFrame
        BY <1>0, <2>2, <3>5 DEF NotYetPassed
      <4> QED
        BY <1>0, <4>1, <4>3, <4>4, <4>5, NotPassedSoon
    <3>6. NotYetPassed'
      BY <1>0, <1>2, <3>5 DEF check_scheduled_semaphore, NotYetPassed, InTime
    <3> QED
      BY <1>0, <1>2, <3>3, <3>4, <3>6 DEF check_scheduled_semaphore, TypeOK, ReadBefore
  <2> QED
    BY <2>1, <2>2
<1>3. CASE primitiveTickWordsInto
  <2>1. TypeOK' /\ (fired.at > fired.due)' /\ ReadBefore'
    BY <1>0, <1>3 DEF primitiveTickWordsInto, get_msclock, TypeOK, ReadBefore
  <2>2. RequestMeant'
    BY <1>0, <1>3 DEF primitiveTickWordsInto, RequestMeant, Meant
  <2>3. NotYetPassed'
    BY <1>0, <1>3 DEF primitiveTickWordsInto, NotYetPassed, InTime
  <2> QED
    BY <2>1, <2>2, <2>3
<1>4. ASSUME NEW s \in Semaphores \cup {0}, NEW delay \in Delays,
             primitiveSignalAtTick(s, delay)
      PROVE  IInv'
  <2>1. delay \in Nat /\ readAt \in 0..now /\ read \in 0..Period - 1 /\ read = readAt % Period
    BY <1>0, TimerConstantsOK DEF TypeOK, ReadBefore
  <2>2. (read + delay) % TimeRange = read + delay
    <3>1. Period + delay <= TimeRange /\ TimeRange \in Nat
      BY TimerConstantsOK
    <3>2. read + delay \in 0..TimeRange - 1
      BY <1>0, <2>1, <3>1
    <3> QED
      BY <3>1, <3>2
  <2>3. /\ scheduled_time' = (readAt % Period) + delay
        /\ due' = readAt + delay
        /\ CheckScheduled(s, (readAt % Period) + delay, readAt + delay)
        /\ asked' = now
        /\ UNCHANGED <<now, read, readAt, checkedAt, pc>>
    BY <1>4, <2>1, <2>2 DEF primitiveSignalAtTick, signal_at
  <2>4. /\ scheduled_semaphore' \in Semaphores \cup {0}
        /\ fired' \in [semaphore : Semaphores \cup {0}, at : Nat, due : Nat]
        /\ (fired.at > fired.due)'
    BY <1>0, <2>1, <2>3, CheckStep
  <2>5. RequestMeant'
    BY <2>1, <2>3 DEF RequestMeant, Meant
  <2>6. scheduled_time' \in 0..TimeRange - 1
    BY <1>0, <2>1, <2>3, TimerConstantsOK
  <2>7. ASSUME scheduled_semaphore' # 0, InTime' PROVE now <= due'
    <3>1. ~(now % Period > (readAt % Period) + delay)
      BY <2>3, <2>7 DEF CheckScheduled, passed, get_msclock
    <3>2. scheduled_time' + MaxFrame < Period /\ now \div Period = due' \div Period
      BY <2>3, <2>7 DEF InTime
    <3>3. readAt \in Nat /\ (readAt % Period) + delay < Period /\ due' \in Nat
      BY <1>0, <2>1, <2>3, <3>2
    <3>4. due' % Period = (readAt % Period) + delay
      BY <2>1, <2>3, <3>3, DueOnClock
    <3> QED
      BY <1>0, <3>1, <3>2, <3>3, <3>4, NotPassedYet
  <2>8. NotYetPassed'
    <3>1. due' \in Nat
      BY <1>0, <2>1, <2>3
    <3> QED
      BY <1>0, <2>3, <2>7, <3>1 DEF NotYetPassed
  <2> QED
    BY <1>0, <2>1, <2>3, <2>4, <2>5, <2>6, <2>8 DEF TypeOK, ReadBefore
<1>5. CASE endOfFrame
  BY <1>0, <1>5 DEF endOfFrame, TypeOK, RequestMeant, Meant, ReadBefore, NotYetPassed, InTime
<1>6. CASE UNCHANGED vars
  BY <1>0, <1>6 DEF vars, TypeOK, RequestMeant, Meant, ReadBefore, NotYetPassed, InTime
<1> QED
  BY <1>1, <1>2, <1>3, <1>4, <1>5, <1>6 DEF Next

(* No semaphore is signalled before the time the image meant, for any period *)
(* and any delays that fit (check_scheduled_semaphore and signal_at).        *)
THEOREM SignalsNotEarly == Spec => []NeverEarly
<1>1. IInv => NeverEarly
  BY DEF IInv, NeverEarly
<1> QED
  BY <1>1, InitInv, NextInv, PTL DEF Spec

(* No request in time for a frame waits longer than a frame, for any length  *)
(* of a frame, any period and any delays (check_scheduled_semaphore and      *)
(* signal_at).                                                               *)
THEOREM DelaysEnd == Spec => []NotLate
<1>1. IInv => NotLate
  <2>1. SUFFICES ASSUME IInv, scheduled_semaphore # 0, InTime PROVE now <= due + MaxFrame
    BY DEF NotLate, InTime
  <2>2. /\ now \in Nat /\ checkedAt \in Nat /\ due \in Nat /\ MaxFrame \in Nat
        /\ now <= checkedAt + MaxFrame /\ checkedAt <= due
    BY <2>1, TimerConstantsOK DEF IInv, TypeOK, NotYetPassed
  <2> QED
    BY <2>2
<1> QED
  BY <1>1, InitInv, NextInv, PTL DEF Spec
=============================================================================
