-------------------------- MODULE InputEventsProofs --------------------------
(* The stream of input words, for any rate of events, any number of signals  *)
(* and any period of the clock.                                              *)
EXTENDS InputEvents, SequenceTheorems, TLAPS

(* The last word of an event. *)
LastWords == {1, 3, 4}

(* The queue ends with an event. *)
EventsComplete == input_queue # <<>> => input_queue[Len(input_queue)].type \in LastWords

(* The reading of the clock is that of the last event, which is less than a  *)
(* period ago.                                                               *)
ClockAtEvent ==
  /\ lastEvent <= now /\ now - lastEvent < Period
  /\ event_count => last_event_time = (ClockStart + lastEvent) % Period

(* An event has read the clock, and its words are not yet queued. *)
EventPcs == {"keyTime", "buttonTime", "moveXTime", "moveYTime"}

(* Between its reading of the clock and its words, an event has the reading  *)
(* of a moment since the last event.                                         *)
ClockRead ==
  pc \in EventPcs =>
    /\ lastEvent <= readAt /\ readAt <= now
    /\ clock = (ClockStart + readAt) % Period

(* The seconds, but for NTP's, are not ahead and not later than MaxLate.     *)
SecondsCounted ==
  /\ MsPerSecond * (m_nTime - corrected) <= now
  /\ now <= nextSecond + MaxLate

(* The keystroke that is copied is not yet counted. *)
KeyCopied ==
  /\ pc = "clear" /\ keySeq # NoKey => delivered + 1 <= typed
  /\ pc = "keyTime" => keySeq \in 0..3

(* An event of the buttons is one of a button that changed. *)
ButtonsChanged == pc = "buttonTime" => mouse_mb # mouse_oldmb

(* The words that a frame has queued so far: nine for a keystroke with two   *)
(* modifiers and four for each of the button and the two coordinates, if all *)
(* the times are absolute.                                                   *)
WordsSoFar ==
  semaphoreList <= CASE pc \in {"button", "buttonTime"} -> 9
                     [] pc \in {"moveX", "moveXTime"} -> 13
                     [] pc \in {"moveY", "moveYTime"} -> 17
                     [] pc = "cycle" -> 21
                     [] OTHER -> 0

IInv ==
  /\ TypeOK /\ SignalPerWord /\ StreamDecodes /\ EventsComplete
  /\ TimesAddUp /\ ClockAtEvent /\ ClockRead /\ SecondsCounted
  /\ KeysOnce /\ KeyCopied /\ ButtonsReported /\ ButtonsChanged /\ WordsSoFar

----------------------------------------------------------------------------
(* The words of an event. *)

LEMMA TimeTypes ==
  ASSUME TypeOK
  PROVE  /\ get_msclock \in 0..Period - 1 /\ delta_time \in Nat
         /\ timeWords \in Seq(Words) /\ Len(timeWords) \in {1, 3}
<1>1. get_msclock \in 0..Period - 1
  BY InputConstantsOK DEF TypeOK, get_msclock
<1>2. delta_time \in Nat
  BY <1>1, InputConstantsOK DEF TypeOK, delta_time
<1>3. \A t \in {0, 1, 3, 4, 5, HighWord, LowWord}, n \in Nat : Word(t, n) \in Words
  BY DEF Word, Words
<1>4. timeWords \in Seq(Words) /\ Len(timeWords) \in {1, 3}
  BY <1>3 DEF timeWords
<1> QED
  BY <1>1, <1>2, <1>4

(* What an event consists of: its time, and words of the types 1, 3 and 4.   *)
WellFormed(ws) ==
  /\ ws \in Seq(Words) /\ ws # <<>>
  /\ ws[1].type \in {0, 5}
  /\ ws[Len(ws)].type \in LastWords
  /\ \A i \in 1..Len(ws) - 1 : Follows(ws[i], ws[i + 1])

LEMMA EventShape ==
  ASSUME TypeOK, NEW ws \in Seq(Words), ws # <<>>,
         \A i \in 1..Len(ws) : ws[i].type \in LastWords
  PROVE  /\ WellFormed(timeWords \o ws)
         /\ Len(timeWords \o ws) <= 3 + Len(ws)
<1> DEFINE all == timeWords \o ws
<1>1. /\ all \in Seq(Words) /\ Len(all) = Len(timeWords) + Len(ws)
      /\ Len(ws) \in Nat \ {0} /\ Len(timeWords) \in {1, 3}
  BY TimeTypes
<1>2. \A i \in 1..Len(timeWords) : all[i] = timeWords[i]
  BY TimeTypes
<1>3. \A i \in 1..Len(ws) : all[Len(timeWords) + i] = ws[i]
  BY TimeTypes
<1> HIDE DEF all
<1>4. SUFFICES WellFormed(all) /\ Len(all) <= 3 + Len(ws)
  BY DEF all
<1>5. CASE ~isAbsolute
  <2>1. Len(timeWords) = 1 /\ timeWords[1].type = 0
    BY <1>5 DEF timeWords, Word
  <2>2. all[1].type = 0
    BY <1>2, <2>1
  <2>3. \A i \in 2..Len(all) : all[i].type \in LastWords
    <3>1. TAKE i \in 2..Len(all)
    <3>2. i - 1 \in 1..Len(ws) /\ all[1 + (i - 1)] = ws[i - 1]
      BY <1>1, <1>3, <2>1
    <3> QED
      BY <3>2
  <2>4. ASSUME NEW i \in 1..Len(all) - 1 PROVE Follows(all[i], all[i + 1])
    <3>1. all[i + 1].type \in LastWords /\ (i = 1 \/ all[i].type \in LastWords)
      BY <1>1, <2>1, <2>3
    <3> QED
      BY <2>2, <3>1 DEF Follows, LastWords, HighWord, LowWord
  <2>5. Len(all) \in 2..Len(all) /\ all # <<>>
    BY <1>1, <2>1
  <2> QED
    BY <1>1, <2>1, <2>2, <2>3, <2>4, <2>5 DEF WellFormed
<1>6. CASE isAbsolute
  <2>1. /\ Len(timeWords) = 3 /\ timeWords[1].type = 5
        /\ timeWords[2].type = HighWord /\ timeWords[3].type = LowWord
    BY <1>6 DEF timeWords, Word
  <2>2. all[1].type = 5 /\ all[2].type = HighWord /\ all[3].type = LowWord
    <3>1. 1 \in 1..3 /\ 2 \in 1..3 /\ 3 \in 1..3
      OBVIOUS
    <3> QED
      BY <1>2, <2>1, <3>1
  <2>3. \A i \in 4..Len(all) : all[i].type \in LastWords
    <3>1. TAKE i \in 4..Len(all)
    <3>2. i - 3 \in 1..Len(ws) /\ all[3 + (i - 3)] = ws[i - 3]
      BY <1>1, <1>3, <2>1
    <3> QED
      BY <3>2
  <2>4. ASSUME NEW i \in 1..Len(all) - 1 PROVE Follows(all[i], all[i + 1])
    <3>1. CASE i \in {1, 2}
      BY <2>2, <3>1 DEF Follows, HighWord, LowWord
    <3>2. CASE i >= 3
      <4>1. all[i + 1].type \in LastWords /\ (i = 3 \/ all[i].type \in LastWords)
        BY <1>1, <2>1, <2>3, <3>2
      <4> QED
        BY <2>2, <4>1 DEF Follows, LastWords, HighWord, LowWord
    <3> QED
      BY <1>1, <3>1, <3>2
  <2>5. Len(all) \in 4..Len(all) /\ all # <<>>
    BY <1>1, <2>1
  <2> QED
    BY <1>1, <2>1, <2>2, <2>3, <2>4, <2>5 DEF WellFormed
<1> QED
  BY <1>5, <1>6

LEMMA KeyWordsShape ==
  ASSUME TypeOK, NEW ctrl \in 0..3
  PROVE  WellFormed(keyWords(ctrl)) /\ Len(keyWords(ctrl)) <= 9
<1> DEFINE mods == (IF ctrl % 2 = 1 THEN <<138>> ELSE <<>>)
                     \o (IF ctrl \div 2 = 1 THEN <<136>> ELSE <<>>)
           downs == [i \in 1..Len(mods) |-> Word(3, mods[i])]
           ups == [i \in 1..Len(mods) |-> Word(4, mods[Len(mods) + 1 - i])]
           pair == <<Word(3, 0), Word(4, 0)>>
           stroke == downs \o pair \o ups
           Strokes == [type : LastWords, parameter : Nat]
<1>0. keyWords(ctrl) = timeWords \o stroke
  BY Zenon DEF keyWords
<1>1. mods \in Seq(Nat) /\ Len(mods) \in 0..2
  OBVIOUS
<1> HIDE DEF mods
<1>2. \A n \in Nat : Word(3, n) \in Strokes /\ Word(4, n) \in Strokes
  BY DEF Word, LastWords
<1>3. \A w \in Strokes : w \in Words /\ w.type \in LastWords
  BY DEF Words, LastWords
<1> HIDE DEF Strokes
<1>4. downs \in Seq(Strokes) /\ Len(downs) = Len(mods)
  <2>1. ASSUME NEW i \in 1..Len(mods) PROVE Word(3, mods[i]) \in Strokes
    <3>1. mods[i] \in Nat
      BY <1>1
    <3> QED
      BY <1>2, <3>1
  <2> QED
    BY <1>1, <2>1
<1>5. ups \in Seq(Strokes) /\ Len(ups) = Len(mods)
  <2>1. ASSUME NEW i \in 1..Len(mods) PROVE Word(4, mods[Len(mods) + 1 - i]) \in Strokes
    <3>1. Len(mods) + 1 - i \in 1..Len(mods)
      BY <1>1
    <3>2. mods[Len(mods) + 1 - i] \in Nat
      BY <1>1, <3>1
    <3> QED
      BY <1>2, <3>2
  <2> QED
    BY <1>1, <2>1
<1>6. pair \in Seq(Strokes) /\ Len(pair) = 2
  <2>1. Word(3, 0) \in Strokes /\ Word(4, 0) \in Strokes
    BY <1>2
  <2> QED
    BY <2>1
<1> HIDE DEF downs, ups, pair
<1>7. downs \o pair \in Seq(Strokes) /\ Len(downs \o pair) = Len(downs) + Len(pair)
  BY <1>4, <1>6, ConcatProperties, Zenon
<1>8. stroke \in Seq(Strokes) /\ Len(stroke) \in 2..6
  <2>1. stroke \in Seq(Strokes) /\ Len(stroke) = Len(downs \o pair) + Len(ups)
    BY <1>5, <1>7, ConcatProperties, Zenon
  <2>2. Len(stroke) = (Len(mods) + 2) + Len(mods)
    BY <1>4, <1>5, <1>6, <1>7, <2>1, Zenon
  <2>3. PICK n \in 0..2 : Len(mods) = n
    BY <1>1, Zenon
  <2>4. Len(stroke) = (n + 2) + n
    BY <2>2, <2>3, Zenon
  <2>5. (n + 2) + n \in 2..6
    OBVIOUS
  <2> QED
    BY <2>1, <2>4, <2>5, Zenon
<1> HIDE DEF stroke
<1>9. ASSUME NEW i \in 1..Len(stroke) PROVE stroke[i] \in Words /\ stroke[i].type \in LastWords
  <2>1. stroke[i] \in Strokes
    BY <1>8
  <2> QED
    BY <1>3, <2>1
<1>10. stroke \in Seq(Words) /\ stroke # <<>>
  <2>1. Strokes \subseteq Words
    BY <1>3, Zenon
  <2>2. stroke \in Seq(Words)
    BY <1>8, <2>1
  <2>3. PICK n \in 2..6 : Len(stroke) = n
    BY <1>8, Zenon
  <2>4. stroke # <<>>
    BY <2>3
  <2> QED
    BY <2>2, <2>4, Zenon
<1>11. /\ WellFormed(timeWords \o stroke)
       /\ Len(timeWords \o stroke) <= 3 + Len(stroke)
  BY <1>9, <1>10, EventShape
<1>12. Len(keyWords(ctrl)) \in Nat /\ Len(keyWords(ctrl)) <= 3 + Len(stroke)
  BY <1>0, <1>11 DEF WellFormed
<1>13. PICK n \in 2..6 : Len(stroke) = n
  BY <1>8, Zenon
<1>14. Len(keyWords(ctrl)) <= 3 + n
  BY <1>12, <1>13, Zenon
<1>15. Len(keyWords(ctrl)) <= 9
  BY <1>12, <1>14
<1> QED
  BY <1>0, <1>11, <1>15, Zenon

LEMMA OneWordShape ==
  ASSUME TypeOK, NEW type \in LastWords, NEW parameter \in Nat
  PROVE  /\ WellFormed(timeWords \o <<Word(type, parameter)>>)
         /\ Len(timeWords \o <<Word(type, parameter)>>) <= 4
<1> DEFINE ws == <<Word(type, parameter)>>
<1>1. /\ ws \in Seq(Words) /\ ws # <<>> /\ Len(ws) = 1
      /\ \A i \in 1..Len(ws) : ws[i].type \in LastWords
  BY DEF Word, Words, LastWords
<1> HIDE DEF ws
<1>2. WellFormed(timeWords \o ws) /\ Len(timeWords \o ws) <= 3 + Len(ws)
  BY <1>1, EventShape
<1>3. Len(timeWords \o ws) <= 4
  BY <1>1, <1>2, TimeTypes
<1> QED
  BY <1>2, <1>3 DEF ws

(* The queue stays decodable when a whole event is put at its end.           *)
LEMMA EventQueued ==
  ASSUME TypeOK, StreamDecodes, EventsComplete, NEW ws, WellFormed(ws),
         input_queue' = input_queue \o ws
  PROVE  /\ input_queue' \in Seq(Words)
         /\ Len(input_queue') = Len(input_queue) + Len(ws)
         /\ StreamDecodes' /\ EventsComplete'
<1> DEFINE q == input_queue
           all == q \o ws
<1>1. /\ q \in Seq(Words) /\ ws \in Seq(Words) /\ Len(q) \in Nat /\ Len(ws) \in Nat \ {0}
      /\ all \in Seq(Words) /\ Len(all) = Len(q) + Len(ws)
  BY DEF TypeOK, WellFormed
<1>2. /\ \A i \in 1..Len(q) : all[i] = q[i]
      /\ \A i \in 1..Len(ws) : all[Len(q) + i] = ws[i]
  BY <1>1
<1> HIDE DEF all
<1>3. ASSUME NEW i \in 1..Len(all) - 1
      PROVE  Follows(all[i], all[i + 1])
  <2>1. CASE i < Len(q)
    <3>1. i \in 1..Len(q) - 1 /\ all[i] = q[i] /\ all[i + 1] = q[i + 1]
      <4>1. i \in 1..Len(q) - 1 /\ i \in 1..Len(q) /\ i + 1 \in 1..Len(q)
        BY <1>1, <2>1
      <4> QED
        BY <1>2, <4>1, Zenon
    <3> QED
      BY <3>1 DEF StreamDecodes
  <2>2. CASE i = Len(q)
    <3>1. all[i] = q[Len(q)] /\ all[i + 1] = ws[1] /\ q # <<>>
      BY <1>1, <1>2, <2>2
    <3>2. q[Len(q)].type \in LastWords /\ ws[1].type \in {0, 5}
      BY <3>1 DEF EventsComplete, WellFormed
    <3> QED
      BY <3>1, <3>2 DEF Follows, LastWords, HighWord, LowWord
  <2>3. CASE i > Len(q)
    <3>1. /\ i - Len(q) \in 1..Len(ws) - 1 /\ all[i] = ws[i - Len(q)]
          /\ all[i + 1] = ws[(i - Len(q)) + 1]
      <4>1. i - Len(q) \in 1..Len(ws) - 1 /\ (i - Len(q)) + 1 \in 1..Len(ws)
        BY <1>1, <2>3
      <4>2. Len(q) + (i - Len(q)) = i /\ Len(q) + ((i - Len(q)) + 1) = i + 1
        BY <1>1
      <4>3. i - Len(q) \in 1..Len(ws)
        BY <1>1, <4>1
      <4>4. all[Len(q) + (i - Len(q))] = ws[i - Len(q)]
        BY <1>2, <4>3
      <4>5. all[Len(q) + ((i - Len(q)) + 1)] = ws[(i - Len(q)) + 1]
        BY <1>2, <4>1
      <4> QED
        BY <4>1, <4>2, <4>4, <4>5
    <3> QED
      BY <3>1 DEF WellFormed
  <2> QED
    BY <1>1, <2>1, <2>2, <2>3
<1>4. all[Len(all)].type \in LastWords
  <2>1. all[Len(all)] = ws[Len(ws)]
    BY <1>1, <1>2
  <2> QED
    BY <2>1 DEF WellFormed
<1>5. input_queue' = all
  BY DEF all
<1> QED
  BY <1>1, <1>3, <1>4, <1>5 DEF StreamDecodes, EventsComplete

----------------------------------------------------------------------------
(* The times of the events. *)

LEMMA ClockWithinPeriod ==
  ASSUME NEW p \in Nat \ {0}, NEW a \in Nat, NEW b \in Nat,
         a <= b, b - a < p, a % p <= b % p
  PROVE  b - a = (b % p) - (a % p)
<1> DEFINE r == a \div p
           q == b \div p
<1>1. r \in Nat /\ q \in Nat /\ a % p \in 0..p - 1 /\ b % p \in 0..p - 1
  OBVIOUS
<1>2. a = p * r + (a % p) /\ b = p * q + (b % p)
  OBVIOUS
<1> HIDE DEF r, q
<1>3. ASSUME q < r PROVE FALSE
  <2>1. p * q + p <= p * r
    BY <1>1, <1>3
  <2> QED
    BY <1>1, <1>2, <2>1
<1>4. ASSUME r < q PROVE FALSE
  <2>1. p * r + p <= p * q
    BY <1>1, <1>4
  <2> QED
    BY <1>1, <1>2, <2>1
<1>5. q = r
  BY <1>1, <1>3, <1>4
<1> QED
  BY <1>1, <1>2, <1>5

(* Unsigned arithmetic: what a negative difference becomes.                  *)
LEMMA UnsignedNegative ==
  ASSUME NEW t \in Nat \ {0}, NEW x \in Int, x < 0, x + t >= 0
  PROVE  x % t = x + t
<1> DEFINE q == x \div t
           m == x % t
<1>1. q \in Int /\ m \in 0..t - 1 /\ x = t * q + m
  OBVIOUS
<1> HIDE DEF q, m
<1>2. ASSUME q >= 0 PROVE FALSE
  <2>1. t * q >= 0
    BY <1>1, <1>2
  <2> QED
    BY <1>1, <2>1
<1>3. ASSUME q <= -2 PROVE FALSE
  <2>1. t * q <= t * (-2)
    BY <1>1, <1>3
  <2> QED
    BY <1>1, <2>1
<1>4. q = -1
  BY <1>1, <1>2, <1>3
<1>5. m = x + t
  BY <1>1, <1>4
<1> QED
  BY <1>5 DEF m

(* A difference that fits a word is the time that has passed, although the   *)
(* clock may have rolled over since: the unsigned difference is then large.  *)
LEMMA DeltaExact ==
  ASSUME TypeOK, ClockAtEvent, lastEvent <= readAt, readAt <= now,
         clock = (ClockStart + readAt) % Period, event_count, ~isAbsolute
  PROVE  delta_time = readAt - lastEvent
<1> DEFINE a == ClockStart + lastEvent
           b == ClockStart + readAt
           new == b % Period
           old == a % Period
<1>1. /\ Period \in Nat \ {0} /\ TimeRange \in Nat /\ MaxDelta \in Nat
      /\ Period + MaxDelta <= TimeRange /\ Period <= TimeRange
      /\ a \in Nat /\ b \in Nat /\ a <= b /\ b - a < Period
      /\ readAt - lastEvent = b - a
  BY InputConstantsOK DEF TypeOK, ClockAtEvent
<1>2. delta_time = (new - old) % TimeRange /\ delta_time <= MaxDelta
  <2>1. delta_time = (new - old) % TimeRange
    BY DEF delta_time, ClockAtEvent
  <2>2. delta_time \in Nat
    BY TimeTypes
  <2> QED
    BY <1>1, <2>1, <2>2 DEF isAbsolute
<1> HIDE DEF a, b
<1>3. new \in 0..Period - 1 /\ old \in 0..Period - 1
  BY <1>1
<1>4. CASE old <= new
  <2>1. b - a = new - old
    BY <1>1, <1>4, ClockWithinPeriod
  <2> HIDE DEF new, old
  <2>2. new - old \in 0..TimeRange - 1
    BY <1>1, <1>3, <1>4
  <2>3. (new - old) % TimeRange = new - old
    BY <1>1, <2>2
  <2> QED
    BY <1>1, <1>2, <2>1, <2>3
<1>5. CASE new < old
  <2> HIDE DEF new, old
  <2>1. new - old + TimeRange \in MaxDelta + 1..TimeRange - 1
    BY <1>1, <1>3, <1>5
  <2>2. (new - old) % TimeRange = new - old + TimeRange
    <3>1. new - old \in Int /\ new - old < 0 /\ new - old + TimeRange >= 0
      BY <1>1, <1>3, <1>5, <2>1
    <3>2. TimeRange \in Nat \ {0}
      BY <1>1
    <3> QED
      BY <3>1, <3>2, UnsignedNegative
  <2> QED
    BY <1>1, <1>2, <1>3, <2>1, <2>2
<1> QED
  BY <1>3, <1>4, <1>5

(* What one adds up after an event: with a difference it is as far from the  *)
(* time of the event as before, with an absolute time as far as the second   *)
(* clock was, which may have counted a second since the event read the       *)
(* millisecond clock.                                                        *)
LEMMA TimeQueued ==
  ASSUME TypeOK, TimesAddUp, ClockAtEvent, SecondsCounted, queue_input_time,
         lastEvent <= readAt, readAt <= now, clock = (ClockStart + readAt) % Period,
         UNCHANGED clockVars
  PROVE  /\ event_count' \in BOOLEAN /\ last_event_time' \in 0..Period - 1
         /\ stamp' \in Nat /\ lastEvent' \in 0..Horizon /\ known' \in Nat /\ lag' \in Nat
         /\ TimesAddUp' /\ ClockAtEvent'
<1>1. /\ Period \in Nat \ {0} /\ MsPerSecond \in Nat \ {0} /\ MaxLate \in Nat
      /\ now \in Nat /\ readAt \in 0..Horizon /\ readAt \in Nat
      /\ stamp \in Nat /\ lastEvent \in Nat /\ known \in Nat /\ lag \in Nat
      /\ m_nTime \in Nat /\ corrected \in Nat /\ corrected <= m_nTime
      /\ event_count \in BOOLEAN /\ clock \in 0..Period - 1
  BY InputConstantsOK DEF TypeOK
<1>2. /\ event_count' = TRUE /\ last_event_time' = clock
      /\ lastEvent' = readAt /\ stamp' = timeAfter /\ now' = now
      /\ known' = IF event_count /\ ~isAbsolute THEN known ELSE corrected
      /\ lag' = IF isAbsolute THEN now - readAt ELSE lag
  BY DEF queue_input_time, newTime, clockVars
<1>3. ClockAtEvent'
  <2>1. now - readAt < Period
    BY <1>1, InputConstantsOK DEF ClockAtEvent, TypeOK
  <2> QED
    BY <1>1, <1>2, <2>1 DEF ClockAtEvent
<1>4. known' \in Nat /\ lag' \in Nat
  BY <1>1, <1>2
<1>5. MsPerSecond * corrected \in Nat /\ MsPerSecond * m_nTime \in Nat
      /\ MsPerSecond * known \in Nat
  BY <1>1
<1>6. timeAfter \in Nat /\ TimesAddUp'
  <2>1. CASE ~event_count
    <3>1. delta_time = 0
      BY <2>1 DEF delta_time
    <3>2. known' = corrected /\ lag' = lag /\ timeAfter = readAt + MsPerSecond * corrected
      BY <1>2, <2>1, <3>1, InputConstantsOK DEF isAbsolute, timeAfter
    <3> QED
      BY <1>1, <1>2, <1>5, <3>2 DEF TimesAddUp
  <2>2. CASE event_count /\ ~isAbsolute
    <3>1. timeAfter = stamp + delta_time /\ known' = known /\ lag' = lag
      BY <1>2, <2>2 DEF timeAfter
    <3>2. delta_time = readAt - lastEvent
      BY <2>2, DeltaExact
    <3>3. lastEvent + MsPerSecond * known - stamp \in -lag..(MsPerSecond + MaxLate)
      BY <2>2 DEF TimesAddUp
    <3>4. /\ timeAfter \in Nat
          /\ readAt + MsPerSecond * known - timeAfter
               = lastEvent + MsPerSecond * known - stamp
      BY <1>1, <1>5, <3>1, <3>2
    <3>5. readAt + MsPerSecond * known - timeAfter \in -lag..(MsPerSecond + MaxLate)
      BY <3>3, <3>4
    <3> QED
      BY <1>2, <3>1, <3>4, <3>5 DEF TimesAddUp
  <2>3. CASE event_count /\ isAbsolute
    <3>1. /\ timeAfter = MsPerSecond * m_nTime /\ known' = corrected
          /\ lag' = now - readAt
      BY <1>2, <2>3 DEF timeAfter, get_smalltalk_epoch_time
    <3>2. /\ MsPerSecond * (m_nTime - corrected) = MsPerSecond * m_nTime - MsPerSecond * corrected
          /\ nextSecond = MsPerSecond * (m_nTime - corrected) + MsPerSecond
      BY <1>1 DEF nextSecond
    <3>3. /\ MsPerSecond * m_nTime - MsPerSecond * corrected <= now
          /\ now <= MsPerSecond * m_nTime - MsPerSecond * corrected + MsPerSecond + MaxLate
      BY <3>2 DEF SecondsCounted
    <3>4. readAt + MsPerSecond * corrected - MsPerSecond * m_nTime
            \in -(now - readAt)..(MsPerSecond + MaxLate)
      BY <1>1, <1>5, <3>3
    <3> QED
      BY <1>2, <1>5, <3>1, <3>4 DEF TimesAddUp
  <2> QED
    BY <1>1, <2>1, <2>2, <2>3
<1> QED
  BY <1>1, <1>2, <1>3, <1>4, <1>6

----------------------------------------------------------------------------
(* The invariant. *)

(* What the variables of the queue are after an event.                       *)
QueueOK ==
  /\ input_queue \in Seq(Words) /\ semaphoreList \in Nat
  /\ event_count \in BOOLEAN /\ last_event_time \in 0..Period - 1
  /\ stamp \in Nat /\ lastEvent \in 0..Horizon /\ known \in Nat /\ lag \in Nat
  /\ SignalPerWord /\ StreamDecodes /\ EventsComplete /\ TimesAddUp /\ ClockAtEvent

LEMMA EventStep ==
  ASSUME IInv, NEW ws, NEW n \in Nat, WellFormed(ws), Len(ws) <= n,
         queue_input_word(ws), queue_input_time,
         pc \in EventPcs,
         UNCHANGED <<clockVars, excessSignals, reader>>
  PROVE  QueueOK' /\ semaphoreList' <= semaphoreList + n
<1>0. TypeOK /\ SignalPerWord /\ StreamDecodes /\ EventsComplete /\ TimesAddUp /\ ClockAtEvent
      /\ SecondsCounted /\ ClockRead
  BY DEF IInv
<1>1. input_queue' = input_queue \o ws /\ semaphoreList' = semaphoreList + Len(ws)
  BY DEF queue_input_word
<1>2. /\ input_queue' \in Seq(Words) /\ Len(input_queue') = Len(input_queue) + Len(ws)
      /\ StreamDecodes' /\ EventsComplete'
  BY <1>0, <1>1, EventQueued
<1>3. /\ event_count' \in BOOLEAN /\ last_event_time' \in 0..Period - 1
      /\ stamp' \in Nat /\ lastEvent' \in 0..Horizon /\ known' \in Nat /\ lag' \in Nat
      /\ TimesAddUp' /\ ClockAtEvent'
  <2>1. lastEvent <= readAt /\ readAt <= now /\ clock = (ClockStart + readAt) % Period
    BY <1>0 DEF ClockRead
  <2> QED
    BY <1>0, <2>1, TimeQueued
<1>4. /\ Len(ws) \in Nat /\ semaphoreList \in Nat /\ excessSignals \in Nat
      /\ Len(input_queue) \in Nat
  BY <1>0 DEF WellFormed, TypeOK
<1>5. semaphoreList' \in Nat /\ semaphoreList' <= semaphoreList + n
  BY <1>1, <1>4
<1>6. SignalPerWord'
  <2>1. reader' = reader /\ excessSignals' = excessSignals
    OBVIOUS
  <2>2. PICK t \in {0, 1} : t = IF reader = "signalled" THEN 1 ELSE 0
    OBVIOUS
  <2>3. semaphoreList + excessSignals + t = Len(input_queue)
    BY <1>0, <2>2 DEF SignalPerWord
  <2>4. PICK k \in Nat, l \in Nat : Len(ws) = k /\ Len(input_queue) = l
    BY <1>4, Zenon
  <2>5. semaphoreList' = semaphoreList + k /\ Len(input_queue') = l + k
    BY <1>1, <1>2, <2>4, Zenon
  <2>6. semaphoreList + excessSignals + t = l
    BY <2>3, <2>4, Zenon
  <2>7. semaphoreList + k + excessSignals + t = l + k
    BY <1>4, <2>2, <2>6
  <2>8. semaphoreList' + excessSignals' + t = Len(input_queue')
    BY <2>1, <2>5, <2>7, Zenon
  <2> QED
    BY <2>1, <2>2, <2>8, Zenon DEF SignalPerWord
<1> QED
  BY <1>2, <1>3, <1>5, <1>6 DEF QueueOK

LEMMA QueueKept ==
  ASSUME IInv, UNCHANGED <<queueVars, now, excessSignals, reader>>
  PROVE  QueueOK'
BY DEF IInv, queueVars, timeVars, QueueOK, TypeOK, SignalPerWord, StreamDecodes, EventsComplete,
       TimesAddUp, ClockAtEvent

LEMMA ButtonChanged ==
  ASSUME TypeOK, mouse_mb # mouse_oldmb
  PROVE  changedButton \in Changed(mouse_oldmb, mouse_mb) /\ changedButton \in Buttons
<1> DEFINE S == Changed(mouse_oldmb, mouse_mb)
<1>1. S \subseteq Buttons /\ S \subseteq {1, 2, 4} /\ S # {}
  BY InputConstantsOK DEF TypeOK, Changed
<1>2. \E b \in S : \A c \in S : c <= b
  <2> HIDE DEF S
  <2>1. CASE 4 \in S
    <3>1. \A c \in S : c <= 4
      BY <1>1
    <3> QED
      BY <2>1, <3>1
  <2>2. CASE 4 \notin S /\ 2 \in S
    <3>1. \A c \in S : c <= 2
      BY <1>1, <2>2
    <3> QED
      BY <2>2, <3>1
  <2>3. CASE 4 \notin S /\ 2 \notin S
    <3>1. \A c \in S : c = 1
      BY <1>1, <2>3
    <3>2. PICK b \in S : TRUE
      BY <1>1
    <3> QED
      BY <3>1, <3>2
  <2> QED
    BY <2>1, <2>2, <2>3
<1>3. changedButton \in S
  BY <1>2 DEF changedButton
<1> QED
  BY <1>1, <1>3

(* The rest of the invariant: the clocks, the clock reading of an event, the *)
(* keyboard, the mouse and the frame.                                        *)
ClocksOK ==
  /\ now \in 0..Horizon /\ m_nTime \in Nat /\ corrected \in 0..m_nTime
  /\ SecondsCounted

ReadOK == clock \in 0..Period - 1 /\ readAt \in 0..Horizon /\ ClockRead

KeysOK ==
  /\ typed \in 0..MaxKeys /\ delivered \in Nat
  /\ m_CookedKeySeq \in CtrlStates \cup {NoKey} /\ keySeq \in CtrlStates \cup {NoKey}
  /\ KeysOnce /\ KeyCopied

MouseOK ==
  /\ m_nButtons \subseteq Buttons /\ mouse_mb \subseteq Buttons /\ mouse_oldmb \subseteq Buttons
  /\ reported \subseteq Buttons /\ unseen \subseteq Buttons
  /\ ButtonsReported /\ ButtonsChanged

FrameOK ==
  /\ pc \in {"key", "clear", "button", "moveX", "moveY", "cycle", "cycles"} \cup EventPcs
  /\ excessSignals \in Nat /\ reader \in {"waiting", "signalled"}
  /\ WordsSoFar

AllOK == QueueOK /\ ClocksOK /\ ReadOK /\ KeysOK /\ MouseOK /\ FrameOK

LEMMA Parts == (IInv <=> AllOK) /\ (IInv' <=> AllOK')
BY DEF IInv, AllOK, QueueOK, ClocksOK, ReadOK, KeysOK, MouseOK, FrameOK, TypeOK, EventPcs

LEMMA InitInv == Init => IInv
<1>1. 0 \in 0..Period - 1 /\ 0 \in 0..Horizon /\ 0 \in 0..MaxKeys /\ 0 < Period
  BY InputConstantsOK
<1> SUFFICES ASSUME Init PROVE IInv
  OBVIOUS
<1>2. QueueOK
  <2>1. input_queue \in Seq(Words) /\ Len(input_queue) = 0
    BY DEF Init
  <2>2. SignalPerWord /\ StreamDecodes /\ EventsComplete
    BY <2>1 DEF Init, SignalPerWord, StreamDecodes, EventsComplete
  <2>3. TimesAddUp /\ ClockAtEvent
    BY <1>1 DEF Init, TimesAddUp, ClockAtEvent
  <2> QED
    BY <1>1, <2>1, <2>2, <2>3 DEF Init, QueueOK
<1>3. ClocksOK
  <2>1. MsPerSecond * (0 - 0) = 0 /\ 0 <= MsPerSecond * (0 - 0 + 1) + MaxLate
    BY InputConstantsOK
  <2> QED
    BY <1>1, <2>1 DEF Init, ClocksOK, SecondsCounted, nextSecond
<1>4. ReadOK /\ FrameOK
  BY <1>1 DEF Init, ReadOK, ClockRead, EventPcs, FrameOK, WordsSoFar
<1>5. KeysOK /\ MouseOK
  BY <1>1
  DEF Init, KeysOK, KeysOnce, KeyCopied, MouseOK, ButtonsReported, Changed, ButtonsChanged
<1> QED
  BY <1>2, <1>3, <1>4, <1>5, Parts DEF AllOK

(* What a step keeps that leaves the variables of a part alone.              *)

LEMMA ClocksKept ==
  ASSUME IInv, UNCHANGED clockVars
  PROVE  ClocksOK'
BY Parts DEF AllOK, ClocksOK, SecondsCounted, nextSecond, clockVars

LEMMA ReadKept ==
  ASSUME IInv, UNCHANGED <<now, clock, readAt, lastEvent>>, pc' = pc \/ pc' \notin EventPcs
  PROVE  ReadOK'
BY Parts DEF AllOK, ReadOK, ClockRead, EventPcs

LEMMA ReadDone ==
  ASSUME IInv, UNCHANGED <<clock, readAt>>, pc' \notin EventPcs
  PROVE  ReadOK'
BY Parts DEF AllOK, ReadOK, ClockRead, EventPcs

(* An event reads the clock. *)
LEMMA ReadStarts ==
  ASSUME IInv, readClock, UNCHANGED <<now, lastEvent>>
  PROVE  ReadOK'
<1>1. get_msclock \in 0..Period - 1
  BY TimeTypes DEF IInv
<1>2. now \in 0..Horizon /\ now \in Nat /\ lastEvent <= now
  BY Parts, InputConstantsOK DEF AllOK, ClocksOK, QueueOK, ClockAtEvent
<1> QED
  BY <1>1, <1>2 DEF readClock, ReadOK, ClockRead, get_msclock

LEMMA KeysKept ==
  ASSUME IInv, UNCHANGED <<typed, delivered, m_CookedKeySeq, keySeq>>,
         pc' = pc \/ {pc, pc'} \cap {"clear", "keyTime"} = {}
  PROVE  KeysOK'
BY Parts DEF AllOK, KeysOK, KeysOnce, KeyCopied

LEMMA MouseKept ==
  ASSUME IInv, UNCHANGED <<m_nButtons, mouse_mb, mouse_oldmb, reported, unseen>>,
         pc' = pc \/ pc' # "buttonTime"
  PROVE  MouseOK'
BY Parts DEF AllOK, MouseOK, ButtonsReported, Changed, ButtonsChanged

LEMMA FrameKept ==
  ASSUME IInv, UNCHANGED <<pc, semaphoreList, excessSignals, reader>>
  PROVE  FrameOK'
BY Parts DEF AllOK, FrameOK, WordsSoFar

LEMMA ClockStep ==
  ASSUME IInv, tick \/ secondPasses \/ \E seconds \in Corrections : SetTime(seconds)
  PROVE  IInv'
<1>0. AllOK
  BY Parts
<1>1. /\ now \in Nat /\ m_nTime \in Nat /\ corrected \in Nat /\ corrected <= m_nTime
      /\ MsPerSecond \in Nat \ {0} /\ MaxLate \in Nat /\ Horizon \in Nat /\ SecondsCounted
  BY <1>0, InputConstantsOK DEF AllOK, ClocksOK
<1>2. CASE tick
  <2>1. /\ now' = now + 1 /\ now < Horizon /\ now - lastEvent < Period - 1
        /\ now < nextSecond + MaxLate
        /\ UNCHANGED <<m_nTime, corrected, m_CookedKeySeq, m_nButtons, typed, pc, locals,
                       mouse_oldmb, queueVars, excessSignals, reader, delivered, reported, unseen>>
    BY <1>2 DEF tick
  <2>2. ClocksOK'
    <3>1. MsPerSecond * (m_nTime - corrected) \in Int /\ nextSecond \in Int
      BY <1>1 DEF nextSecond
    <3>2. nextSecond' = nextSecond
      BY <2>1 DEF nextSecond
    <3> QED
      BY <1>0, <1>1, <2>1, <3>1, <3>2 DEF AllOK, ClocksOK, SecondsCounted
  <2>3. ClockAtEvent'
    BY <1>0, <1>1, <2>1, InputConstantsOK DEF AllOK, QueueOK, ClockAtEvent, queueVars, timeVars
  <2>4. QueueOK'
    BY <1>0, <2>1, <2>3
    DEF AllOK, QueueOK, queueVars, timeVars, SignalPerWord, StreamDecodes, EventsComplete, TimesAddUp
  <2>5. ReadOK'
    BY <1>0, <1>1, <2>1, InputConstantsOK
    DEF AllOK, ReadOK, ClockRead, locals, queueVars, timeVars
  <2>6. KeysOK' /\ MouseOK' /\ FrameOK'
    BY <2>1, KeysKept, MouseKept, FrameKept DEF locals, queueVars
  <2> QED
    BY <2>2, <2>4, <2>5, <2>6, Parts DEF AllOK
<1>3. CASE secondPasses
  <2>1. /\ now >= nextSecond /\ m_nTime' = m_nTime + 1
        /\ UNCHANGED <<now, corrected, m_CookedKeySeq, m_nButtons, typed, pc, locals,
                       mouse_oldmb, queueVars, excessSignals, reader, delivered, reported, unseen>>
    BY <1>3 DEF secondPasses
  <2>2. ClocksOK'
    <3>1. PICK k \in Nat : m_nTime = corrected + k
      <4>1. m_nTime - corrected \in Nat /\ m_nTime = corrected + (m_nTime - corrected)
        BY <1>1
      <4> QED
        BY <4>1
    <3>2. m_nTime - corrected = k /\ m_nTime' - corrected' = k + 1 /\ m_nTime' \in Nat
      BY <1>1, <2>1, <3>1
    <3>3. MsPerSecond * (k + 1) <= now /\ now <= MsPerSecond * (k + 1) + MaxLate
      BY <1>1, <2>1, <3>2 DEF SecondsCounted, nextSecond
    <3>4. MsPerSecond * (k + 1) \in Nat /\ MsPerSecond * (k + 1 + 1) = MsPerSecond * (k + 1) + MsPerSecond
      BY <1>1
    <3>5. now <= MsPerSecond * (k + 1 + 1) + MaxLate
      BY <1>1, <3>3, <3>4
    <3> QED
      BY <1>0, <1>1, <2>1, <3>2, <3>3, <3>5 DEF AllOK, ClocksOK, SecondsCounted, nextSecond
  <2>3. QueueOK'
    BY <2>1, QueueKept
  <2>4. ReadOK' /\ KeysOK' /\ MouseOK' /\ FrameOK'
    BY <2>1, ReadKept, KeysKept, MouseKept, FrameKept DEF locals, queueVars, timeVars
  <2> QED
    BY <2>2, <2>3, <2>4, Parts DEF AllOK
<1>4. ASSUME NEW seconds \in Corrections, SetTime(seconds) PROVE IInv'
  <2>1. /\ corrected' = seconds /\ m_nTime' = m_nTime - corrected + seconds
        /\ UNCHANGED <<now, m_CookedKeySeq, m_nButtons, typed, pc, locals, mouse_oldmb, queueVars,
                       excessSignals, reader, delivered, reported, unseen>>
    BY <1>4 DEF SetTime
  <2>2. ClocksOK'
    <3>1. seconds \in Nat
      BY InputConstantsOK
    <3>2. /\ m_nTime' - corrected' = m_nTime - corrected
          /\ m_nTime' \in Nat /\ corrected' \in 0..m_nTime'
      BY <1>1, <2>1, <3>1
    <3> QED
      BY <1>0, <2>1, <3>2 DEF AllOK, ClocksOK, SecondsCounted, nextSecond
  <2>3. QueueOK'
    BY <2>1, QueueKept
  <2>4. ReadOK' /\ KeysOK' /\ MouseOK' /\ FrameOK'
    BY <2>1, ReadKept, KeysKept, MouseKept, FrameKept DEF locals, queueVars, timeVars
  <2> QED
    BY <2>2, <2>3, <2>4, Parts DEF AllOK
<1> QED
  BY <1>2, <1>3, <1>4

LEMMA InterruptStep ==
  ASSUME IInv,
         \/ \E ctrl \in CtrlStates : KeyPressedHandler(ctrl)
         \/ \E b \in Buttons : MouseEventHandler(b)
  PROVE  IInv'
<1>0. AllOK
  BY Parts
<1>1. ASSUME NEW ctrl \in CtrlStates, KeyPressedHandler(ctrl) PROVE IInv'
  <2>1. /\ typed < MaxKeys /\ typed' = typed + 1 /\ m_CookedKeySeq' = ctrl
        /\ UNCHANGED <<clockVars, m_nButtons, pc, locals, mouse_oldmb, queueVars, excessSignals,
                       reader, delivered, reported, unseen>>
    BY <1>1 DEF KeyPressedHandler
  <2>2. QueueOK' /\ ClocksOK'
    BY <2>1, QueueKept, ClocksKept DEF clockVars
  <2>3. ReadOK' /\ MouseOK' /\ FrameOK'
    BY <2>1, ReadKept, MouseKept, FrameKept DEF clockVars, locals, queueVars, timeVars
  <2>4. KeysOK'
    <3>1. typed \in Nat /\ typed' \in 0..MaxKeys /\ delivered \in Nat
      BY <1>0, <2>1, InputConstantsOK DEF AllOK, KeysOK
    <3> QED
      BY <1>0, <2>1, <3>1 DEF AllOK, KeysOK, KeysOnce, KeyCopied, locals
  <2> QED
    BY <2>2, <2>3, <2>4, Parts DEF AllOK
<1>2. ASSUME NEW b \in Buttons, MouseEventHandler(b) PROVE IInv'
  <2>1. /\ m_nButtons' = Changed(m_nButtons, {b})
        /\ UNCHANGED <<clockVars, m_CookedKeySeq, typed, pc, locals, mouse_oldmb, queueVars,
                       excessSignals, reader, delivered, reported, unseen>>
    BY <1>2 DEF MouseEventHandler
  <2>2. QueueOK' /\ ClocksOK'
    BY <2>1, QueueKept, ClocksKept DEF clockVars
  <2>3. ReadOK' /\ KeysOK' /\ FrameOK'
    BY <2>1, ReadKept, KeysKept, FrameKept DEF clockVars, locals, queueVars, timeVars
  <2>4. MouseOK'
    BY <1>0, <2>1 DEF AllOK, MouseOK, ButtonsReported, ButtonsChanged, Changed, locals
  <2> QED
    BY <2>2, <2>3, <2>4, Parts DEF AllOK
<1> QED
  BY <1>1, <1>2

LEMMA KeyStep ==
  ASSUME IInv, copyKey \/ clearKey \/ handle_cooked_keyboard_key
  PROVE  IInv'
<1>0. AllOK
  BY Parts
<1>1. CASE copyKey
  <2>1. /\ pc = "key" /\ pc' = "clear" /\ keySeq' = m_CookedKeySeq
        /\ UNCHANGED <<kernelVars, mouse_mb, clock, readAt, mouse_oldmb, queueVars, excessSignals,
                       reader, delivered, reported, unseen>>
    BY <1>1 DEF copyKey
  <2>2. QueueOK' /\ ClocksOK'
    BY <2>1, QueueKept, ClocksKept DEF kernelVars, clockVars
  <2>3. ReadOK' /\ MouseOK'
    BY <2>1, ReadDone, MouseKept DEF EventPcs, kernelVars
  <2>4. KeysOK' /\ FrameOK'
    BY <1>0, <2>1
    DEF AllOK, KeysOK, FrameOK, EventPcs, kernelVars, queueVars, KeysOnce, KeyCopied, WordsSoFar
  <2> QED
    BY <2>2, <2>3, <2>4, Parts DEF AllOK
<1>2. CASE clearKey
  <2>1. /\ pc = "clear" /\ m_CookedKeySeq' = NoKey /\ afterKey
        /\ UNCHANGED <<clockVars, m_nButtons, typed, mouse_mb, mouse_oldmb, queueVars,
                       excessSignals, reader, delivered, reported, unseen>>
    BY <1>2 DEF clearKey
  <2>2. QueueOK' /\ ClocksOK'
    BY <2>1, QueueKept, ClocksKept DEF clockVars
  <2>3. semaphoreList \in Nat /\ semaphoreList <= 0
    BY <1>0, <2>1 DEF AllOK, QueueOK, FrameOK, WordsSoFar
  <2>4. CASE NotAnEvent
    <3>1. pc' = "button" /\ keySeq' = NoKey /\ UNCHANGED <<clock, readAt>>
      BY <2>1, <2>4 DEF afterKey
    <3>2. ReadOK' /\ MouseOK'
      BY <2>1, <3>1, ReadDone, MouseKept DEF EventPcs
    <3>3. KeysOK' /\ FrameOK'
      BY <1>0, <2>1, <2>3, <3>1
      DEF AllOK, KeysOK, FrameOK, EventPcs, queueVars, KeysOnce, KeyCopied, WordsSoFar
    <3> QED
      BY <2>2, <3>2, <3>3, Parts DEF AllOK
  <2>5. CASE ~NotAnEvent
    <3>1. pc' = "keyTime" /\ readClock /\ UNCHANGED keySeq
      BY <2>1, <2>5 DEF afterKey
    <3>2. ReadOK'
      BY <2>1, <3>1, ReadStarts DEF clockVars, queueVars, timeVars
    <3>3. MouseOK'
      BY <2>1, <3>1, MouseKept
    <3>4. keySeq # NoKey /\ keySeq \in 0..3
      BY <1>0, <2>5, InputConstantsOK DEF AllOK, KeysOK, NotAnEvent
    <3>5. KeysOK' /\ FrameOK'
      BY <1>0, <2>1, <2>3, <3>1, <3>4
      DEF AllOK, KeysOK, FrameOK, EventPcs, queueVars, KeysOnce, KeyCopied, WordsSoFar
    <3> QED
      BY <2>2, <3>2, <3>3, <3>5, Parts DEF AllOK
  <2> QED
    BY <2>4, <2>5
<1>3. CASE handle_cooked_keyboard_key
  <2>1. /\ pc = "keyTime" /\ pc' = "button" /\ delivered' = delivered + 1 /\ keySeq' = NoKey
        /\ queue_input_word(keyWords(keySeq)) /\ queue_input_time
        /\ UNCHANGED <<kernelVars, mouse_mb, clock, readAt, mouse_oldmb, excessSignals, reader,
                       reported, unseen>>
    BY <1>3 DEF handle_cooked_keyboard_key
  <2>2. semaphoreList \in Nat /\ semaphoreList <= 0 /\ keySeq \in 0..3
    BY <1>0, <2>1 DEF AllOK, QueueOK, FrameOK, WordsSoFar, KeysOK, KeyCopied
  <2>3. WellFormed(keyWords(keySeq)) /\ Len(keyWords(keySeq)) <= 9
    BY <2>2, KeyWordsShape DEF IInv
  <2>4. QueueOK' /\ semaphoreList' <= semaphoreList + 9
    <3>1. 9 \in Nat /\ UNCHANGED clockVars /\ pc \in EventPcs
      BY <2>1 DEF EventPcs, kernelVars
    <3> QED
      BY <2>1, <2>3, <3>1, EventStep
  <2>5. ClocksOK' /\ ReadOK' /\ MouseOK'
    BY <2>1, ClocksKept, ReadDone, MouseKept DEF EventPcs, kernelVars
  <2>6. KeysOK'
    BY <1>0, <2>1 DEF AllOK, KeysOK, KeysOnce, KeyCopied, kernelVars
  <2>7. FrameOK'
    <3>1. semaphoreList' \in Nat /\ semaphoreList' <= 9
      BY <2>2, <2>4 DEF QueueOK
    <3> QED
      BY <1>0, <2>1, <3>1 DEF AllOK, FrameOK, EventPcs, WordsSoFar
  <2> QED
    BY <2>4, <2>5, <2>6, <2>7, Parts DEF AllOK
<1> QED
  BY <1>1, <1>2, <1>3

LEMMA MouseStep ==
  ASSUME IInv, \/ GetMouseState \/ handle_mouse_button_event
               \/ readMovementClock \/ handle_mouse_movement_event
  PROVE  IInv'
<1>0. AllOK /\ TypeOK
  BY Parts DEF IInv
<1>1. CASE GetMouseState
  <2>1. /\ pc = "button" /\ mouse_mb' = m_nButtons /\ pc' \in {"moveX", "buttonTime"}
        /\ pc' = "buttonTime" => m_nButtons # mouse_oldmb
        /\ (pc' = "moveX" /\ UNCHANGED <<clock, readAt>>) \/ readClock
        /\ UNCHANGED <<kernelVars, keySeq, mouse_oldmb, queueVars, excessSignals, reader,
                       delivered, reported, unseen>>
    BY <1>1 DEF GetMouseState
  <2>2. QueueOK' /\ ClocksOK'
    BY <2>1, QueueKept, ClocksKept DEF kernelVars, clockVars
  <2>3. ReadOK'
    BY <2>1, ReadDone, ReadStarts DEF EventPcs, kernelVars, clockVars, queueVars, timeVars
  <2>4. KeysOK'
    BY <2>1, KeysKept DEF kernelVars
  <2>5. MouseOK'
    BY <1>0, <2>1 DEF AllOK, MouseOK, ButtonsReported, ButtonsChanged, Changed, kernelVars
  <2>6. FrameOK'
    <3>1. semaphoreList \in Nat /\ semaphoreList <= 9
      BY <1>0, <2>1 DEF AllOK, QueueOK, FrameOK, WordsSoFar
    <3> QED
      BY <1>0, <2>1, <3>1 DEF AllOK, FrameOK, EventPcs, queueVars, WordsSoFar
  <2> QED
    BY <2>2, <2>3, <2>4, <2>5, <2>6, Parts DEF AllOK
<1>2. CASE handle_mouse_button_event
  <2> DEFINE b == changedButton
  <2>1. /\ pc = "buttonTime" /\ pc' = "moveX" /\ mouse_oldmb' = mouse_mb
        /\ queue_input_word(buttonWords(b, b \in mouse_mb)) /\ queue_input_time
        /\ reported' = IF b \in mouse_mb THEN reported \cup {b} ELSE reported \ {b}
        /\ unseen' = (unseen \cup Changed(mouse_oldmb, mouse_mb)) \ {b}
        /\ UNCHANGED <<kernelVars, locals, excessSignals, reader, delivered>>
    BY <1>2 DEF handle_mouse_button_event
  <2>2. mouse_mb # mouse_oldmb /\ semaphoreList \in Nat /\ semaphoreList <= 9
    BY <1>0, <2>1 DEF AllOK, MouseOK, ButtonsChanged, QueueOK, FrameOK, WordsSoFar
  <2>3. b \in Changed(mouse_oldmb, mouse_mb) /\ b \in Buttons /\ b \in Nat
    <3>1. b \in Changed(mouse_oldmb, mouse_mb) /\ b \in Buttons
      BY <1>0, <2>2, ButtonChanged, Zenon
    <3> HIDE DEF b
    <3>2. b \in {1, 2, 4}
      BY <3>1, InputConstantsOK
    <3> QED
      BY <3>1, <3>2
  <2> HIDE DEF b
  <2>4. PICK type \in LastWords : buttonWords(b, b \in mouse_mb) = timeWords \o <<Word(type, b)>>
    BY DEF buttonWords, LastWords
  <2>5. WellFormed(timeWords \o <<Word(type, b)>>) /\ Len(timeWords \o <<Word(type, b)>>) <= 4
    BY <1>0, <2>3, OneWordShape
  <2>6. QueueOK' /\ semaphoreList' <= semaphoreList + 4
    <3>1. 4 \in Nat /\ UNCHANGED clockVars /\ pc \in EventPcs
      BY <2>1 DEF EventPcs, kernelVars
    <3> QED
      BY <2>1, <2>4, <2>5, <3>1, EventStep, Zenon
  <2>7. ClocksOK' /\ ReadOK' /\ KeysOK'
    BY <2>1, ClocksKept, ReadDone, KeysKept DEF EventPcs, kernelVars, locals
  <2>8. MouseOK'
    <3>1. ButtonsReported'
      BY <1>0, <2>1, <2>3 DEF AllOK, MouseOK, ButtonsReported, Changed
    <3>2. reported' \subseteq Buttons /\ unseen' \subseteq Buttons
      BY <1>0, <2>1, <2>3 DEF AllOK, MouseOK, Changed
    <3> QED
      BY <1>0, <2>1, <3>1, <3>2 DEF AllOK, MouseOK, ButtonsChanged, kernelVars, locals
  <2>9. FrameOK'
    <3>1. semaphoreList' \in Nat /\ semaphoreList' <= 13
      BY <2>2, <2>6 DEF QueueOK
    <3> QED
      BY <1>0, <2>1, <3>1 DEF AllOK, FrameOK, WordsSoFar
  <2> QED
    BY <2>6, <2>7, <2>8, <2>9, Parts DEF AllOK
<1>3. CASE readMovementClock
  <2>1. /\ pc \in {"moveX", "moveY"} /\ pc' = IF pc = "moveX" THEN "moveXTime" ELSE "moveYTime"
        /\ readClock
        /\ UNCHANGED <<kernelVars, keySeq, mouse_mb, mouse_oldmb, queueVars, excessSignals, reader,
                       delivered, reported, unseen>>
    BY <1>3 DEF readMovementClock
  <2>2. QueueOK' /\ ClocksOK'
    BY <2>1, QueueKept, ClocksKept DEF kernelVars, clockVars
  <2>3. ReadOK'
    BY <2>1, ReadStarts DEF kernelVars, clockVars, queueVars, timeVars
  <2>4. KeysOK' /\ MouseOK'
    BY <2>1, KeysKept, MouseKept DEF kernelVars
  <2>5. FrameOK'
    BY <1>0, <2>1 DEF AllOK, FrameOK, EventPcs, queueVars, WordsSoFar
  <2> QED
    BY <2>2, <2>3, <2>4, <2>5, Parts DEF AllOK
<1>4. CASE handle_mouse_movement_event
  <2>1. /\ pc \in {"moveXTime", "moveYTime"}
        /\ pc' = IF pc = "moveXTime" THEN "moveY" ELSE "cycle"
        /\ queue_input_word(timeWords \o <<Word(1, 0)>>) /\ queue_input_time
        /\ UNCHANGED <<kernelVars, locals, mouse_oldmb, excessSignals, reader, delivered,
                       reported, unseen>>
    BY <1>4 DEF handle_mouse_movement_event
  <2>2. /\ semaphoreList \in Nat
        /\ pc = "moveXTime" => semaphoreList <= 13
        /\ pc = "moveYTime" => semaphoreList <= 17
    BY <1>0 DEF AllOK, QueueOK, FrameOK, WordsSoFar
  <2>3. WellFormed(timeWords \o <<Word(1, 0)>>) /\ Len(timeWords \o <<Word(1, 0)>>) <= 4
    <3>1. 1 \in LastWords /\ 0 \in Nat
      BY DEF LastWords
    <3> QED
      BY <1>0, <3>1, OneWordShape
  <2>4. QueueOK' /\ semaphoreList' <= semaphoreList + 4
    <3>1. 4 \in Nat /\ UNCHANGED clockVars /\ pc \in EventPcs
      BY <2>1 DEF EventPcs, kernelVars
    <3> QED
      BY <2>1, <2>3, <3>1, EventStep, Zenon
  <2>5. ClocksOK' /\ ReadOK' /\ KeysOK' /\ MouseOK'
    BY <2>1, ClocksKept, ReadDone, KeysKept, MouseKept DEF EventPcs, kernelVars, locals
  <2>6. FrameOK'
    <3>1. semaphoreList' \in Nat
      BY <2>4 DEF QueueOK
    <3>2. WordsSoFar'
      BY <2>1, <2>2, <2>4, <3>1 DEF WordsSoFar
    <3> QED
      BY <1>0, <2>1, <3>2 DEF AllOK, FrameOK
  <2> QED
    BY <2>4, <2>5, <2>6, Parts DEF AllOK
<1> QED
  BY <1>1, <1>2, <1>3, <1>4

LEMMA CycleStep ==
  ASSUME IInv, checkProcessSwitch \/ primitiveWait \/ primitiveInputWord \/ endOfFrame
  PROVE  IInv'
<1>0. AllOK
  BY Parts
<1>1. CASE checkProcessSwitch
  <2>1. /\ excessSignals' = excessSignals + semaphoreList /\ semaphoreList' = 0
        /\ semaphoreList \in Nat /\ excessSignals \in Nat
        /\ UNCHANGED <<kernelVars, locals, mouse_oldmb, input_queue, timeVars, reader, delivered,
                       reported, unseen>>
        /\ pc = "cycle" /\ pc' = "cycles"
    BY <1>0, <1>1 DEF checkProcessSwitch, AllOK, QueueOK, FrameOK
  <2>2. SignalPerWord'
    BY <1>0, <2>1 DEF AllOK, QueueOK, SignalPerWord
  <2>3. QueueOK'
    BY <1>0, <2>1, <2>2
    DEF AllOK, QueueOK, kernelVars, clockVars, timeVars, StreamDecodes, EventsComplete, TimesAddUp,
        ClockAtEvent
  <2>4. ClocksOK' /\ ReadOK' /\ KeysOK' /\ MouseOK'
    BY <2>1, ClocksKept, ReadDone, KeysKept, MouseKept DEF EventPcs, kernelVars, locals
  <2>5. FrameOK'
    BY <1>0, <2>1 DEF AllOK, FrameOK, WordsSoFar
  <2> QED
    BY <2>3, <2>4, <2>5, Parts DEF AllOK
<1>2. CASE primitiveWait
  <2>1. /\ reader = "waiting" /\ reader' = "signalled" /\ excessSignals' = excessSignals - 1
        /\ excessSignals \in Nat \ {0} /\ semaphoreList \in Nat
        /\ UNCHANGED <<kernelVars, pc, locals, mouse_oldmb, queueVars, delivered, reported, unseen>>
    BY <1>0, <1>2 DEF primitiveWait, AllOK, QueueOK, FrameOK
  <2>2. SignalPerWord'
    BY <1>0, <2>1 DEF AllOK, QueueOK, SignalPerWord, queueVars
  <2>3. QueueOK'
    BY <1>0, <2>1, <2>2
    DEF AllOK, QueueOK, kernelVars, clockVars, queueVars, timeVars, StreamDecodes, EventsComplete,
        TimesAddUp, ClockAtEvent
  <2>4. ClocksOK' /\ ReadOK'
    BY <2>1, ClocksKept, ReadKept DEF kernelVars, clockVars, locals, queueVars, timeVars
  <2>5. KeysOK' /\ MouseOK'
    BY <2>1, KeysKept, MouseKept DEF kernelVars, locals
  <2>6. FrameOK'
    BY <1>0, <2>1 DEF AllOK, FrameOK, queueVars, WordsSoFar
  <2> QED
    BY <2>3, <2>4, <2>5, <2>6, Parts DEF AllOK
<1>3. CASE primitiveInputWord
  <2>1. /\ reader = "signalled" /\ reader' = "waiting"
        /\ input_queue # <<>> /\ input_queue' = Tail(input_queue) /\ input_queue \in Seq(Words)
        /\ UNCHANGED <<kernelVars, pc, locals, mouse_oldmb, semaphoreList, excessSignals,
                       timeVars, delivered, reported, unseen>>
    BY <1>0, <1>3 DEF primitiveInputWord, AllOK, QueueOK
  <2>2. PICK l \in Nat : Len(input_queue) = l + 1
    <3>1. Len(input_queue) \in Nat \ {0}
      BY <2>1
    <3>2. Len(input_queue) - 1 \in Nat /\ Len(input_queue) = (Len(input_queue) - 1) + 1
      BY <3>1
    <3> QED
      BY <3>2
  <2>3. /\ input_queue' \in Seq(Words) /\ Len(input_queue') = l
        /\ \A i \in 1..l : input_queue'[i] = input_queue[i + 1]
    BY <2>1, <2>2
  <2>4. SignalPerWord'
    <3>1. semaphoreList \in Nat /\ excessSignals \in Nat /\ semaphoreList + excessSignals + 1 = l + 1
      BY <1>0, <2>1, <2>2 DEF AllOK, QueueOK, FrameOK, SignalPerWord
    <3>2. semaphoreList + excessSignals + 0 = l
      BY <3>1
    <3> QED
      BY <2>1, <2>3, <3>2 DEF SignalPerWord
  <2>5. StreamDecodes'
    <3>1. ASSUME NEW i \in 1..l - 1
          PROVE  Follows(input_queue'[i], input_queue'[i + 1])
      <4>1. i \in 1..l /\ i + 1 \in 1..l /\ i + 1 \in 1..(l + 1) - 1
        OBVIOUS
      <4>2. Follows(input_queue[i + 1], input_queue[(i + 1) + 1])
        BY <1>0, <2>2, <4>1 DEF AllOK, QueueOK, StreamDecodes
      <4> QED
        BY <2>3, <4>1, <4>2
    <3> QED
      BY <2>3, <3>1 DEF StreamDecodes, Follows
  <2>6. EventsComplete'
    <3>1. ASSUME input_queue' # <<>> PROVE input_queue'[l] = input_queue[l + 1]
      <4>1. l \in 1..l
        BY <2>3, <3>1
      <4> QED
        BY <2>3, <4>1
    <3> QED
      BY <1>0, <2>1, <2>2, <2>3, <3>1 DEF AllOK, QueueOK, EventsComplete
  <2>7. QueueOK'
    BY <1>0, <2>1, <2>3, <2>4, <2>5, <2>6
    DEF AllOK, QueueOK, kernelVars, clockVars, timeVars, TimesAddUp, ClockAtEvent
  <2>8. ClocksOK' /\ ReadOK'
    BY <2>1, ClocksKept, ReadKept DEF kernelVars, clockVars, locals, timeVars
  <2>9. KeysOK' /\ MouseOK'
    BY <2>1, KeysKept, MouseKept DEF kernelVars, locals
  <2>10. FrameOK'
    BY <1>0, <2>1 DEF AllOK, FrameOK, WordsSoFar
  <2> QED
    BY <2>7, <2>8, <2>9, <2>10, Parts DEF AllOK
<1>4. CASE endOfFrame
  <2>1. /\ pc = "cycles" /\ pc' = "key"
        /\ UNCHANGED <<kernelVars, locals, mouse_oldmb, queueVars, excessSignals, reader,
                       delivered, reported, unseen>>
    BY <1>4 DEF endOfFrame
  <2>2. QueueOK' /\ ClocksOK'
    BY <2>1, QueueKept, ClocksKept DEF kernelVars, clockVars
  <2>3. ReadOK' /\ KeysOK' /\ MouseOK'
    BY <2>1, ReadDone, KeysKept, MouseKept DEF EventPcs, kernelVars, locals
  <2>4. FrameOK'
    BY <1>0, <2>1 DEF AllOK, FrameOK, queueVars, WordsSoFar
  <2> QED
    BY <2>2, <2>3, <2>4, Parts DEF AllOK
<1> QED
  BY <1>1, <1>2, <1>3, <1>4

LEMMA NextInv == IInv /\ [Next]_vars => IInv'
<1> SUFFICES ASSUME IInv, [Next]_vars PROVE IInv'
  OBVIOUS
<1>1. ASSUME UNCHANGED vars PROVE IInv'
  <2>1. QueueOK' /\ ClocksOK'
    BY <1>1, QueueKept, ClocksKept DEF vars, kernelVars, clockVars
  <2>2. ReadOK' /\ KeysOK'
    BY <1>1, ReadKept, KeysKept DEF vars, kernelVars, clockVars, locals, queueVars, timeVars
  <2>3. MouseOK' /\ FrameOK'
    BY <1>1, MouseKept, FrameKept DEF vars, kernelVars, locals, queueVars
  <2> QED
    BY <2>1, <2>2, <2>3, Parts DEF AllOK
<1> QED
  BY <1>1, ClockStep, InterruptStep, KeyStep, MouseStep, CycleStep DEF Next

LEMMA Invariant == Spec => []IInv
BY InitInv, NextInv, PTL DEF Spec

----------------------------------------------------------------------------
(* The results. *)

(* The signals given and on their way are as many as the words in the queue  *)
(* (queue_input_word, primitiveInputWord).                                   *)
THEOREM OneSignalPerWord == Spec => []SignalPerWord
<1>1. IInv => SignalPerWord
  BY DEF IInv
<1> QED
  BY <1>1, Invariant, PTL

(* The words can be told apart (queue_input_time_words).                     *)
THEOREM StreamIsDecodable == Spec => []StreamDecodes
<1>1. IInv => StreamDecodes
  BY DEF IInv
<1> QED
  BY <1>1, Invariant, PTL

(* The times of the words add up over rollovers of the clock, for any period *)
(* that leaves room for a difference, any delay between the readings of the  *)
(* two clocks, any lateness of the second clock and any corrections of it    *)
(* (queue_input_time_words).                                                 *)
THEOREM TimesAreRight == Spec => []TimesAddUp
<1>1. IInv => TimesAddUp
  BY DEF IInv
<1> QED
  BY <1>1, Invariant, PTL

(* No keystroke is delivered twice (handle_cooked_keyboard_key).             *)
THEOREM KeystrokesOnce == Spec => []KeysOnce
<1>1. IInv => KeysOnce
  BY DEF IInv
<1> QED
  BY <1>1, Invariant, PTL

(* The words tell of all buttons but those hidden by another one             *)
(* (handle_mouse_button_event).                                              *)
THEOREM ButtonsAreReported == Spec => []ButtonsReported
<1>1. IInv => ButtonsReported
  BY DEF IInv
<1> QED
  BY <1>1, Invariant, PTL

(* A semaphoreList with room for 21 signals never overflows: it has 4096     *)
(* entries in interpreter.h, and its bound is checked by asynchronousSignal. *)
THEOREM SignalsFit == ASSUME MaxPending >= 21 PROVE Spec => []PendingBounded
<1>1. IInv => PendingBounded
  <2>1. SUFFICES ASSUME IInv PROVE PendingBounded
    OBVIOUS
  <2>2. TypeOK /\ semaphoreList \in Nat /\ MaxPending \in Nat
    BY <2>1, InputConstantsOK DEF IInv, TypeOK
  <2>3. semaphoreList <= 21
    BY <2>1, <2>2 DEF IInv, WordsSoFar
  <2> QED
    BY <2>2, <2>3 DEF PendingBounded
<1> QED
  BY <1>1, Invariant, PTL
=============================================================================
