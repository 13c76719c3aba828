---------------------------- MODULE SchedulerProofs ----------------------------
(* Proofs about Scheduler, for every set of processes and semaphores, every  *)
(* assignment of priorities and every bound.                                 *)
EXTENDS Scheduler, SequenceTheorems, TLAPS

(* The inductive invariant: each safety property leans on the others.        *)
IInv ==
  /\ TypeOK
  /\ RegistersAgree
  /\ OnePlace
  /\ ReadyAtOwnPriority
  /\ MostUrgentIsActive
  /\ IdleReady
  /\ NoLostWakeup
  /\ ContextsPreserved

(* The part of the invariant that speaks of the lists, stated of a list      *)
(* function and an active process, so that it can be cited before and after  *)
(* each list operation.                                                      *)
Unique(lst) ==
  \A l, m \in Lists :
     \A i \in 1..Len(lst[l]), j \in 1..Len(lst[m]) :
        lst[l][i] = lst[m][j] => l = m /\ i = j

Absent(lst, p) == \A l \in Lists : \A i \in 1..Len(lst[l]) : lst[l][i] # p

OwnPriority(lst) ==
  \A pri \in Priorities : \A i \in 1..Len(lst[pri]) : Priority[lst[pri][i]] = pri

NoneAbove(lst, n) == \A pri \in Priorities : pri > n => lst[pri] = <<>>

Ready(lst, p) == \E i \in 1..Len(lst[Priority[p]]) : lst[Priority[p]][i] = p

----------------------------------------------------------------------------
(* Adding a process that is in no list (addLastLink_toList). *)
LEMMA AddLast ==
  ASSUME NEW lst \in [Lists -> Seq(Processes)], NEW p \in Processes, NEW l \in Lists,
         Unique(lst), Absent(lst, p)
  PROVE  LET new == addLastLink_toList(lst, p, l)
         IN /\ new \in [Lists -> Seq(Processes)]
            /\ Unique(new)
            /\ \A q \in Processes : q # p /\ Absent(lst, q) => Absent(new, q)
            /\ \A m \in Lists \ {l} : new[m] = lst[m]
            /\ new[l] = Append(lst[l], p)
            /\ \A q \in Processes : Ready(lst, q) => Ready(new, q)
<1> DEFINE new == addLastLink_toList(lst, p, l)
<1>1. new \in [Lists -> Seq(Processes)]
  BY DEF addLastLink_toList
<1>2. /\ \A m \in Lists \ {l} : new[m] = lst[m]
      /\ new[l] = Append(lst[l], p)
  BY DEF addLastLink_toList
<1>3. /\ lst[l] \in Seq(Processes)
      /\ Len(new[l]) = Len(lst[l]) + 1
      /\ \A i \in 1..Len(lst[l]) : new[l][i] = lst[l][i]
      /\ new[l][Len(lst[l]) + 1] = p
  BY <1>2
<1> HIDE DEF new
<1>4. Unique(new)
  <2> SUFFICES ASSUME NEW k \in Lists, NEW m \in Lists,
                      NEW i \in 1..Len(new[k]), NEW j \in 1..Len(new[m]),
                      new[k][i] = new[m][j]
               PROVE  k = m /\ i = j
    BY DEF Unique
  <2>1. CASE k = l /\ m = l
    <3>1. CASE i <= Len(lst[l]) /\ j <= Len(lst[l])
      BY <1>3, <2>1, <3>1 DEF Unique
    <3>2. CASE i = Len(lst[l]) + 1 \/ j = Len(lst[l]) + 1
      BY <1>3, <2>1, <3>2 DEF Absent
    <3>3. QED
      BY <1>3, <2>1, <3>1, <3>2
  <2>2. CASE k = l /\ m # l
    <3>1. j \in 1..Len(lst[m]) /\ new[k][i] = lst[m][j]
      BY <1>2, <2>2
    <3>2. CASE i \in 1..Len(lst[l])
      <4>1. lst[l][i] = lst[m][j]
        BY <1>3, <2>2, <3>1, <3>2
      <4>2. QED
        BY <2>2, <3>1, <3>2, <4>1 DEF Unique
    <3>3. CASE i = Len(lst[l]) + 1
      BY <1>3, <2>2, <3>1, <3>3 DEF Absent
    <3>4. QED
      BY <1>3, <2>2, <3>2, <3>3
  <2>3. CASE k # l /\ m = l
    <3>1. i \in 1..Len(lst[k]) /\ new[m][j] = lst[k][i]
      BY <1>2, <2>3
    <3>2. CASE j \in 1..Len(lst[l])
      <4>1. lst[l][j] = lst[k][i]
        BY <1>3, <2>3, <3>1, <3>2
      <4>2. QED
        BY <2>3, <3>1, <3>2, <4>1 DEF Unique
    <3>3. CASE j = Len(lst[l]) + 1
      BY <1>3, <2>3, <3>1, <3>3 DEF Absent
    <3>4. QED
      BY <1>3, <2>3, <3>2, <3>3
  <2>4. CASE k # l /\ m # l
    BY <1>2, <2>4 DEF Unique
  <2>5. QED
    BY <2>1, <2>2, <2>3, <2>4
<1>5. ASSUME NEW q \in Processes, q # p, Absent(lst, q)
      PROVE  Absent(new, q)
  <2> SUFFICES ASSUME NEW m \in Lists, NEW i \in 1..Len(new[m])
               PROVE  new[m][i] # q
    BY DEF Absent
  <2>1. CASE m # l
    BY <1>2, <1>5, <2>1 DEF Absent
  <2>2. CASE m = l /\ i \in 1..Len(lst[l])
    <3>1. new[m][i] = lst[l][i]
      BY <1>3, <2>2
    <3>2. QED
      BY <1>5, <2>2, <3>1 DEF Absent
  <2>3. CASE m = l /\ i = Len(lst[l]) + 1
    BY <1>3, <1>5, <2>3
  <2>4. QED
    BY <1>3, <2>1, <2>2, <2>3
<1>6. ASSUME NEW q \in Processes, Ready(lst, q)
      PROVE  Ready(new, q)
  <2>1. Priority[q] \in Lists
    BY ConstantsOK DEF Lists
  <2>2. CASE Priority[q] = l
    BY <1>3, <1>6, <2>2 DEF Ready
  <2>3. CASE Priority[q] # l
    BY <1>2, <1>6, <2>1, <2>3 DEF Ready
  <2>4. QED
    BY <2>2, <2>3
<1>7. QED
  BY <1>1, <1>2, <1>4, <1>5, <1>6 DEF new

(* Taking the first process of a list (removeFirstLinkOfList). *)
LEMMA RemoveFirst ==
  ASSUME NEW lst \in [Lists -> Seq(Processes)], NEW l \in Lists,
         lst[l] # <<>>, Unique(lst)
  PROVE  LET new == removeFirstLinkOfList(lst, l)
             p == Head(lst[l])
         IN /\ new \in [Lists -> Seq(Processes)]
            /\ p \in Processes
            /\ Unique(new)
            /\ Absent(new, p)
            /\ \A q \in Processes : Absent(lst, q) => Absent(new, q)
            /\ \A m \in Lists \ {l} : new[m] = lst[m]
            /\ new[l] = Tail(lst[l])
            /\ OwnPriority(lst) => OwnPriority(new)
            /\ \A q \in Processes \ {p} : Ready(lst, q) => Ready(new, q)
<1> DEFINE new == removeFirstLinkOfList(lst, l)
           p == Head(lst[l])
<1>1. lst[l] \in Seq(Processes) /\ Len(lst[l]) >= 1
  OBVIOUS
<1>2. /\ new \in [Lists -> Seq(Processes)]
      /\ \A m \in Lists \ {l} : new[m] = lst[m]
      /\ new[l] = Tail(lst[l])
  BY <1>1 DEF removeFirstLinkOfList
<1>3. /\ p \in Processes /\ p = lst[l][1]
      /\ Len(new[l]) = Len(lst[l]) - 1
      /\ \A i \in 1..Len(new[l]) : i + 1 \in 1..Len(lst[l]) /\ new[l][i] = lst[l][i + 1]
  BY <1>1, <1>2
<1> HIDE DEF new, p
<1>4. Unique(new)
  <2> SUFFICES ASSUME NEW k \in Lists, NEW m \in Lists,
                      NEW i \in 1..Len(new[k]), NEW j \in 1..Len(new[m]),
                      new[k][i] = new[m][j]
               PROVE  k = m /\ i = j
    BY DEF Unique
  <2>1. CASE k = l /\ m = l
    <3>1. /\ i + 1 \in 1..Len(lst[l]) /\ j + 1 \in 1..Len(lst[l])
          /\ lst[l][i + 1] = lst[l][j + 1]
      BY <1>3, <2>1
    <3>2. i + 1 = j + 1
      BY <3>1 DEF Unique
    <3>3. QED
      BY <2>1, <3>2
  <2>2. CASE k = l /\ m # l
    <3>1. /\ i + 1 \in 1..Len(lst[l]) /\ j \in 1..Len(lst[m])
          /\ lst[l][i + 1] = lst[m][j]
      BY <1>2, <1>3, <2>2
    <3>2. QED
      BY <2>2, <3>1 DEF Unique
  <2>3. CASE k # l /\ m = l
    <3>1. /\ i \in 1..Len(lst[k]) /\ j + 1 \in 1..Len(lst[l])
          /\ lst[k][i] = lst[l][j + 1]
      BY <1>2, <1>3, <2>3
    <3>2. QED
      BY <2>3, <3>1 DEF Unique
  <2>4. CASE k # l /\ m # l
    BY <1>2, <2>4 DEF Unique
  <2>5. QED
    BY <2>1, <2>2, <2>3, <2>4
<1>5. Absent(new, p)
  <2> SUFFICES ASSUME NEW k \in Lists, NEW i \in 1..Len(new[k]), new[k][i] = p
               PROVE  FALSE
    BY DEF Absent
  <2>1. 1 \in 1..Len(lst[l])
    BY <1>1
  <2>2. CASE k = l
    <3>1. lst[l][i + 1] = lst[l][1] /\ i + 1 \in 1..Len(lst[l])
      BY <1>3, <2>2
    <3>2. i + 1 = 1
      BY <2>1, <3>1 DEF Unique
    <3>3. QED
      BY <2>2, <3>2
  <2>3. CASE k # l
    BY <1>2, <1>3, <2>1, <2>3 DEF Unique
  <2>4. QED
    BY <2>2, <2>3
<1>6. ASSUME NEW q \in Processes, Absent(lst, q)
      PROVE  Absent(new, q)
  BY <1>2, <1>3, <1>6 DEF Absent
<1>7. OwnPriority(lst) => OwnPriority(new)
  <2> SUFFICES ASSUME OwnPriority(lst), NEW pri \in Priorities, NEW i \in 1..Len(new[pri])
               PROVE  Priority[new[pri][i]] = pri
    BY DEF OwnPriority
  <2>1. CASE pri = l
    BY <1>3, <2>1 DEF OwnPriority
  <2>2. CASE pri # l
    BY <1>2, <2>2 DEF OwnPriority, Lists
  <2>3. QED
    BY <2>1, <2>2
<1>8. ASSUME NEW q \in Processes \ {p}, Ready(lst, q)
      PROVE  Ready(new, q)
  <2>1. Priority[q] \in Lists
    BY ConstantsOK DEF Lists
  <2>2. CASE Priority[q] = l
    <3>1. PICK i \in 1..Len(lst[l]) : lst[l][i] = q
      BY <1>8, <2>2 DEF Ready
    <3>2. i # 1
      BY <1>3, <3>1
    <3>3. i - 1 \in 1..Len(new[l]) /\ new[l][i - 1] = lst[l][i]
      BY <1>1, <1>3, <3>2
    <3>4. QED
      BY <2>2, <3>1, <3>3 DEF Ready
  <2>3. CASE Priority[q] # l
    BY <1>2, <1>8, <2>1, <2>3 DEF Ready
  <2>4. QED
    BY <2>2, <2>3
<1>9. QED
  BY <1>2, <1>3, <1>4, <1>5, <1>6, <1>7, <1>8 DEF new, p

----------------------------------------------------------------------------
(* What the invariant says of the lists when a is the active process. *)
ListInv(lst, a) ==
  /\ Unique(lst)
  /\ Absent(lst, a)
  /\ OwnPriority(lst)
  /\ NoneAbove(lst, Priority[a])
  /\ a # Idle => Ready(lst, Idle)

Registers ==
  /\ scheduled \in Processes
  /\ newProcessWaiting \in BOOLEAN
  /\ newProcess \in Processes \cup {NilPointer}
  /\ newProcessWaiting <=> newProcess # NilPointer

(* The priority of a process is one of the priorities, so it has a list.     *)
LEMMA PriorityType ==
  /\ \A p \in Processes : Priority[p] \in Priorities /\ Priority[p] \in Lists
                          /\ Priority[p] \in Int
  /\ \A s \in Semaphores : s \in Lists /\ s \notin Priorities
  /\ \A pri \in Priorities : pri \in Lists /\ pri \notin Semaphores /\ pri \in Int
  BY ConstantsOK DEF Lists, Priorities

(* activeProcess answers a process when the registers agree. *)
LEMMA ActiveType ==
  ASSUME Registers
  PROVE  activeProcess \in Processes
  BY DEF Registers, activeProcess

(* sleep keeps the invariant of the lists when the process may not run: p    *)
(* is in no list and no more urgent than a.                                  *)
LEMMA SleepStep ==
  ASSUME NEW lst \in [Lists -> Seq(Processes)],
         NEW p \in Processes, NEW a \in Processes, NEW b \in Processes,
         Unique(lst), OwnPriority(lst), NoneAbove(lst, Priority[b]),
         Absent(lst, p), Absent(lst, a), p # a,
         Priority[p] <= Priority[a], Priority[b] <= Priority[a],
         Ready(lst, Idle) \/ a = Idle \/ p = Idle
  PROVE  LET new == sleep(lst, p)
         IN /\ new \in [Lists -> Seq(Processes)]
            /\ ListInv(new, a)
            /\ \A s \in Semaphores : new[s] = lst[s]
<1> DEFINE new == sleep(lst, p)
           l == Priority[p]
<1> USE PriorityType
<1>1. l \in Lists
  OBVIOUS
<1>2. /\ new \in [Lists -> Seq(Processes)]
      /\ Unique(new)
      /\ Absent(new, a)
      /\ \A m \in Lists \ {l} : new[m] = lst[m]
      /\ new[l] = Append(lst[l], p)
      /\ \A q \in Processes : Ready(lst, q) => Ready(new, q)
  BY <1>1, AddLast DEF sleep
<1>3. /\ lst[l] \in Seq(Processes)
      /\ Len(new[l]) = Len(lst[l]) + 1
      /\ \A i \in 1..Len(lst[l]) : new[l][i] = lst[l][i]
      /\ new[l][Len(lst[l]) + 1] = p
  BY <1>1, <1>2
<1> HIDE DEF new
<1>4. OwnPriority(new)
  <2> SUFFICES ASSUME NEW pri \in Priorities, NEW i \in 1..Len(new[pri])
               PROVE  Priority[new[pri][i]] = pri
    BY DEF OwnPriority
  <2>1. CASE pri = l /\ i \in 1..Len(lst[l])
    <3>1. new[pri][i] = lst[pri][i] /\ i \in 1..Len(lst[pri])
      BY <1>3, <2>1
    <3>2. QED
      BY <3>1 DEF OwnPriority
  <2>2. CASE pri = l /\ i = Len(lst[l]) + 1
    <3>1. new[pri][i] = p
      BY <1>3, <2>2
    <3>2. QED
      BY <2>2, <3>1
  <2>3. CASE pri # l
    BY <1>2, <2>3 DEF OwnPriority
  <2>4. QED
    BY <1>3, <2>1, <2>2, <2>3
<1>5. NoneAbove(new, Priority[a])
  <2> SUFFICES ASSUME NEW pri \in Priorities, pri > Priority[a]
               PROVE  new[pri] = <<>>
    BY DEF NoneAbove
  <2>1. pri # l /\ pri > Priority[b]
    OBVIOUS
  <2>2. QED
    BY <1>2, <2>1 DEF NoneAbove
<1>6. a # Idle => Ready(new, Idle)
  <2>1. CASE p = Idle
    <3>1. Len(lst[l]) + 1 \in 1..Len(new[l]) /\ new[l][Len(lst[l]) + 1] = Idle
      BY <1>3, <2>1
    <3>2. QED
      BY <2>1, <3>1 DEF Ready
  <2>2. QED
    BY <1>2, <2>1, ConstantsOK
<1>7. \A s \in Semaphores : new[s] = lst[s]
  BY <1>2
<1>8. QED
  BY <1>2, <1>4, <1>5, <1>6, <1>7 DEF new, ListInv

(* resume, of a process that is in no list and is not active. *)
LEMMA ResumeStep ==
  ASSUME NEW lst \in [Lists -> Seq(Processes)], NEW p \in Processes,
         Registers, scheduled' = scheduled,
         ListInv(lst, activeProcess), Absent(lst, p), p # activeProcess,
         resume(lst, p)
  PROVE  /\ list' \in [Lists -> Seq(Processes)]
         /\ Registers'
         /\ ListInv(list', activeProcess')
         /\ \A s \in Semaphores : list'[s] = lst[s]
<1> DEFINE a == activeProcess
<1> USE PriorityType
<1>1. a \in Processes
  BY ActiveType
<1>2. CASE Priority[p] > Priority[a] /\ list' = sleep(lst, a) /\ transferTo(p)
  <2>1. Registers' /\ activeProcess' = p
    BY <1>2, ConstantsOK DEF transferTo, Registers, activeProcess
  <2>2. Unique(lst) /\ OwnPriority(lst) /\ NoneAbove(lst, Priority[a])
        /\ Absent(lst, a) /\ (Ready(lst, Idle) \/ a = Idle)
    BY DEF ListInv
  <2>3. Priority[a] <= Priority[p]
    BY <1>1, <1>2
  <2> HIDE DEF a
  <2>4. /\ sleep(lst, a) \in [Lists -> Seq(Processes)]
        /\ ListInv(sleep(lst, a), p)
        /\ \A s \in Semaphores : sleep(lst, a)[s] = lst[s]
    <3>1. a # p
      BY DEF a
    <3>2. QED
      BY <1>1, <2>2, <2>3, <3>1, SleepStep
  <2>5. QED
    BY <1>2, <2>1, <2>4
<1>3. CASE /\ Priority[p] <= Priority[a] /\ list' = sleep(lst, p)
           /\ UNCHANGED <<newProcessWaiting, newProcess>>
  <2>1. Registers' /\ activeProcess' = a
    BY <1>3 DEF Registers, activeProcess
  <2>2. Unique(lst) /\ OwnPriority(lst) /\ NoneAbove(lst, Priority[a])
        /\ Absent(lst, a) /\ (Ready(lst, Idle) \/ a = Idle)
    BY DEF ListInv
  <2>3. Priority[a] <= Priority[a] /\ p # a
    BY <1>1
  <2> HIDE DEF a
  <2>4. /\ sleep(lst, p) \in [Lists -> Seq(Processes)]
        /\ ListInv(sleep(lst, p), a)
        /\ \A s \in Semaphores : sleep(lst, p)[s] = lst[s]
    BY <1>1, <1>3, <2>2, <2>3, SleepStep
  <2>5. QED
    BY <1>3, <2>1, <2>4
<1>4. QED
  BY <1>2, <1>3 DEF resume

(* suspendActive, once the active process is out of the way. *)
LEMMA SuspendStep ==
  ASSUME NEW lst \in [Lists -> Seq(Processes)],
         Registers, scheduled' = scheduled,
         Unique(lst), OwnPriority(lst), Ready(lst, Idle),
         suspendActive(lst)
  PROVE  /\ list' \in [Lists -> Seq(Processes)]
         /\ Registers'
         /\ ListInv(list', activeProcess')
         /\ \A s \in Semaphores : list'[s] = lst[s]
<1> USE PriorityType
<1>1. PICK pri \in Priorities :
        /\ wakeHighestPriority(lst, pri)
        /\ list' = removeFirstLinkOfList(lst, pri)
        /\ transferTo(Head(lst[pri]))
  BY DEF suspendActive
<1> DEFINE p == Head(lst[pri])
<1>2. /\ list' \in [Lists -> Seq(Processes)]
      /\ p \in Processes
      /\ Unique(list')
      /\ Absent(list', p)
      /\ \A m \in Lists \ {pri} : list'[m] = lst[m]
      /\ OwnPriority(list')
      /\ \A q \in Processes \ {p} : Ready(lst, q) => Ready(list', q)
  <2>1. pri \in Lists /\ lst[pri] # <<>>
    BY <1>1 DEF wakeHighestPriority, isEmptyList
  <2>2. QED
    BY <1>1, <2>1, RemoveFirst
<1>3. Registers' /\ activeProcess' = p
  BY <1>1, <1>2, ConstantsOK DEF transferTo, Registers, activeProcess
<1>4. Priority[p] = pri
  <2>1. lst[pri] \in Seq(Processes) /\ lst[pri] # <<>>
    BY <1>1 DEF wakeHighestPriority, isEmptyList
  <2>2. p = lst[pri][1] /\ 1 \in 1..Len(lst[pri])
    BY <2>1
  <2>3. QED
    BY <2>2 DEF OwnPriority
<1> HIDE DEF p
<1>5. NoneAbove(list', Priority[p])
  BY <1>1, <1>2, <1>4 DEF NoneAbove, wakeHighestPriority, isEmptyList
<1>6. p # Idle => Ready(list', Idle)
  BY <1>2, ConstantsOK
<1>7. QED
  BY <1>2, <1>3, <1>5, <1>6 DEF ListInv

----------------------------------------------------------------------------
(* The invariant in terms of ListInv and Registers. *)
LEMMA IInvParts ==
  IInv <=>
    /\ TypeOK
    /\ Registers
    /\ pc = "bytecode" => ~newProcessWaiting
    /\ ListInv(list, activeProcess)
    /\ NoLostWakeup
    /\ ContextsPreserved
  BY DEF IInv, TypeOK, Registers, RegistersAgree, ListInv, Unique, Absent, OwnPriority,
         NoneAbove, Ready, OnePlace, ReadyAtOwnPriority, MostUrgentIsActive, IdleReady

(* synchronousSignal preserves the invariant; it is called by                *)
(* primitiveSignal and by the loop of checkProcessSwitch.                    *)
LEMMA SignalStep ==
  ASSUME IInv, NEW s \in Semaphores, scheduled' = scheduled, synchronousSignal(s)
  PROVE  /\ list' \in [Lists -> Seq(Processes)]
         /\ excessSignals' \in [Semaphores -> 0..MaxExcess]
         /\ Registers'
         /\ ListInv(list', activeProcess')
         /\ NoLostWakeup'
<1> USE PriorityType
<1>0. TypeOK /\ Registers /\ ListInv(list, activeProcess) /\ NoLostWakeup
  BY IInvParts
<1>1. CASE /\ isEmptyList(list, s)
           /\ excessSignals' = [excessSignals EXCEPT ![s] = storeExcess(@ + 1)]
           /\ UNCHANGED <<list, newProcessWaiting, newProcess>>
  <2>1. storeExcess(excessSignals[s] + 1) \in 0..MaxExcess
    BY <1>0, ConstantsOK DEF storeExcess, TypeOK
  <2>2. excessSignals' \in [Semaphores -> 0..MaxExcess]
    BY <1>0, <1>1, <2>1 DEF TypeOK
  <2>3. Registers' /\ activeProcess' = activeProcess
    BY <1>0, <1>1 DEF Registers, activeProcess
  <2>4. ListInv(list', activeProcess')
    BY <1>0, <1>1, <2>3
  <2>5. NoLostWakeup'
    BY <1>0, <1>1 DEF NoLostWakeup, isEmptyList, TypeOK
  <2>6. QED
    BY <1>0, <1>1, <2>2, <2>3, <2>4, <2>5 DEF TypeOK
<1>2. CASE /\ ~isEmptyList(list, s)
           /\ resume(removeFirstLinkOfList(list, s), Head(list[s]))
           /\ UNCHANGED excessSignals
  <2> DEFINE lst == removeFirstLinkOfList(list, s)
             p == Head(list[s])
  <2>1. /\ list \in [Lists -> Seq(Processes)] /\ list[s] \in Seq(Processes)
        /\ list[s] # <<>> /\ Unique(list)
        /\ activeProcess \in Processes
    BY <1>0, <1>2, ActiveType DEF TypeOK, isEmptyList, ListInv
  <2>2. /\ lst \in [Lists -> Seq(Processes)]
        /\ p \in Processes
        /\ Unique(lst)
        /\ Absent(lst, p)
        /\ \A q \in Processes : Absent(list, q) => Absent(lst, q)
        /\ \A m \in Lists \ {s} : lst[m] = list[m]
        /\ lst[s] = Tail(list[s])
        /\ OwnPriority(list) => OwnPriority(lst)
    BY <2>1, RemoveFirst
  <2>3. p # activeProcess
    <3>1. p = list[s][1] /\ 1 \in 1..Len(list[s])
      BY <2>1
    <3>2. QED
      BY <1>0, <3>1 DEF ListInv, Absent
  <2>4. resume(lst, p)
    BY <1>2
  <2> HIDE DEF lst, p
  <2>5. ListInv(lst, activeProcess)
    <3>1. \A pri \in Priorities : lst[pri] = list[pri]
      BY <2>2
    <3>2. /\ NoneAbove(list, Priority[activeProcess]) => NoneAbove(lst, Priority[activeProcess])
          /\ Ready(list, Idle) => Ready(lst, Idle)
      BY <3>1, ConstantsOK DEF NoneAbove, Ready
    <3>3. QED
      BY <1>0, <2>1, <2>2, <3>2 DEF ListInv
  <2>6. /\ list' \in [Lists -> Seq(Processes)]
        /\ Registers'
        /\ ListInv(list', activeProcess')
        /\ \A t \in Semaphores : list'[t] = lst[t]
    BY <1>0, <2>2, <2>3, <2>4, <2>5, ResumeStep
  <2>7. NoLostWakeup'
    <3> SUFFICES ASSUME NEW t \in Semaphores, excessSignals[t] > 0
                 PROVE  list'[t] = <<>>
      BY <1>2 DEF NoLostWakeup
    <3>1. list[t] = <<>> /\ t # s
      BY <1>0, <2>1 DEF NoLostWakeup
    <3>2. QED
      BY <2>2, <2>6, <3>1
  <2>8. QED
    BY <1>0, <1>2, <2>6, <2>7 DEF TypeOK
<1>3. QED
  BY <1>1, <1>2 DEF synchronousSignal

(* The invariant holds in the initial states. *)
LEMMA InitInv == Init => IInv
<1> SUFFICES ASSUME Init PROVE IInv
  OBVIOUS
<1> USE PriorityType
<1>1. TypeOK
  <2>1. list \in [Lists -> Seq(Processes)]
    <3>1. <<Idle>> \in Seq(Processes) /\ <<>> \in Seq(Processes)
      BY ConstantsOK
    <3>2. QED
      BY <3>1 DEF Init
  <2>2. suspendedContext \in [Processes -> Contexts]
    BY DEF Init, Contexts
  <2>3. activeContext \in Contexts /\ lastContext \in [Processes -> Contexts]
    BY <2>2 DEF Init
  <2>4. excessSignals \in [Semaphores -> 0..MaxExcess]
    BY ConstantsOK DEF Init
  <2>5. semaphoreList \in Seq(Semaphores) /\ Len(semaphoreList) <= MaxPending
    BY ConstantsOK DEF Init
  <2>6. pc \in Places /\ newProcessWaiting \in BOOLEAN /\ scheduled \in Processes
        /\ newProcess \in Processes \cup {NilPointer}
    BY DEF Init, Places
  <2>7. QED
    BY <2>1, <2>2, <2>3, <2>4, <2>5, <2>6 DEF TypeOK
<1>2. Registers /\ activeProcess = scheduled
  BY ConstantsOK DEF Init, Registers, activeProcess
<1>3. ListInv(list, scheduled)
  <2>1. scheduled \in Processes
    BY DEF Init
  <2>2. CASE scheduled = Idle
    <3>1. \A l \in Lists : list[l] = <<>>
      BY <2>2 DEF Init
    <3>2. QED
      BY <2>2, <3>1 DEF ListInv, Unique, Absent, OwnPriority, NoneAbove
  <2>3. CASE scheduled # Idle
    <3> DEFINE r == Priority[Idle]
    <3>0. r \in Lists
      BY ConstantsOK
    <3>1. list[r] = <<Idle>> /\ \A l \in Lists \ {r} : list[l] = <<>>
      BY <2>3, <3>0 DEF Init
    <3>2. Len(list[r]) = 1 /\ list[r][1] = Idle
      BY <3>1
    <3>3. ASSUME NEW l \in Lists, NEW i \in 1..Len(list[l])
          PROVE  l = r /\ i = 1 /\ list[l][i] = Idle
      <4>1. l = r
        <5>1. SUFFICES ASSUME l # r PROVE FALSE
          OBVIOUS
        <5>2. Len(list[l]) = 0
          BY <3>1, <5>1
        <5>3. QED
          BY <5>2
      <4>2. i = 1
        BY <3>2, <4>1
      <4>3. QED
        BY <3>2, <4>1, <4>2
    <3>4. Unique(list) /\ Absent(list, scheduled) /\ OwnPriority(list) /\ Ready(list, Idle)
      <4>1. Unique(list)
        BY <3>3 DEF Unique
      <4>2. Absent(list, scheduled)
        BY <2>3, <3>3 DEF Absent
      <4>3. OwnPriority(list)
        BY <3>3 DEF OwnPriority
      <4>4. Ready(list, Idle)
        BY <3>2 DEF Ready
      <4>5. QED
        BY <4>1, <4>2, <4>3, <4>4
    <3>5. NoneAbove(list, Priority[scheduled])
      <4> SUFFICES ASSUME NEW pri \in Priorities, pri > Priority[scheduled]
                   PROVE  list[pri] = <<>>
        BY DEF NoneAbove
      <4>1. r <= Priority[scheduled]
        BY <2>1, ConstantsOK
      <4>2. pri # r
        BY <2>1, <4>1, ConstantsOK
      <4>3. QED
        BY <3>1, <4>2
    <3>6. QED
      BY <3>4, <3>5 DEF ListInv
  <2>4. QED
    BY <2>2, <2>3
<1>4. NoLostWakeup
  BY DEF Init, NoLostWakeup
<1>5. ContextsPreserved
  BY DEF Init, ContextsPreserved
<1>6. QED
  BY <1>1, <1>2, <1>3, <1>4, <1>5, IInvParts DEF Init

----------------------------------------------------------------------------
(* Every step preserves the invariant. *)
LEMMA NextInv == IInv /\ [Next]_vars => IInv'
<1> SUFFICES ASSUME IInv, [Next]_vars PROVE IInv'
  OBVIOUS
<1> USE PriorityType
<1>0. /\ TypeOK /\ Registers /\ ListInv(list, activeProcess)
      /\ NoLostWakeup /\ ContextsPreserved
      /\ pc = "bytecode" => ~newProcessWaiting
      /\ activeProcess \in Processes
  BY IInvParts, ActiveType
<1>a. ASSUME TypeOK', Registers', (pc = "bytecode" => ~newProcessWaiting)',
             ListInv(list', activeProcess'), NoLostWakeup', ContextsPreserved'
      PROVE  IInv'
  BY <1>a DEF IInv, RegistersAgree, Registers, ListInv, Unique, Absent, OwnPriority,
         NoneAbove, Ready, OnePlace, ReadyAtOwnPriority, MostUrgentIsActive, IdleReady
<1>1. ASSUME NEW s \in External, asynchronousSignal(s) PROVE IInv'
  <2>1. semaphoreList' \in Seq(Semaphores) /\ Len(semaphoreList') <= MaxPending
    BY <1>0, <1>1, ConstantsOK DEF asynchronousSignal, TypeOK
  <2>2. TypeOK'
    BY <1>0, <1>1, <2>1 DEF asynchronousSignal, contextVars, TypeOK
  <2>3. /\ Registers' /\ activeProcess' = activeProcess
        /\ (pc = "bytecode" => ~newProcessWaiting)'
        /\ NoLostWakeup' /\ ContextsPreserved'
    BY <1>0, <1>1 DEF asynchronousSignal, contextVars, Registers, activeProcess, NoLostWakeup,
                      ContextsPreserved
  <2>4. ListInv(list', activeProcess')
    BY <1>0, <1>1, <2>3 DEF asynchronousSignal
  <2>5. QED
    BY <1>a, <2>2, <2>3, <2>4
<1>2. CASE drainSemaphoreList
  <2> DEFINE n == Len(semaphoreList)
  <2>1. /\ semaphoreList \in Seq(Semaphores) /\ semaphoreList # <<>>
        /\ scheduled' = scheduled
    BY <1>0, <1>2 DEF drainSemaphoreList, signalsLeft, TypeOK
  <2>2. n \in Nat \ {0} /\ semaphoreList[n] \in Semaphores
    BY <2>1
  <2>3. /\ SubSeq(semaphoreList, 1, n - 1) \in Seq(Semaphores)
        /\ Len(SubSeq(semaphoreList, 1, n - 1)) = n - 1
    <3>1. 1 \in Int /\ n - 1 \in Int /\ \A i \in 1..(n - 1) : semaphoreList[i] \in Semaphores
      BY <2>1, <2>2
    <3> HIDE DEF n
    <3>2. QED
      BY <2>2, <3>1, SubSeqProperties
  <2>4. /\ list' \in [Lists -> Seq(Processes)]
        /\ excessSignals' \in [Semaphores -> 0..MaxExcess]
        /\ Registers' /\ ListInv(list', activeProcess') /\ NoLostWakeup'
    BY <1>2, <2>1, <2>2, SignalStep DEF drainSemaphoreList
  <2>5. semaphoreList' \in Seq(Semaphores) /\ Len(semaphoreList') <= MaxPending
    <3>1. n <= MaxPending /\ MaxPending \in Nat
      BY <1>0, ConstantsOK DEF TypeOK
    <3>2. semaphoreList' = SubSeq(semaphoreList, 1, n - 1)
      BY <1>2 DEF drainSemaphoreList
    <3>3. QED
      BY <2>2, <2>3, <3>1, <3>2
  <2>6. TypeOK'
    BY <1>0, <1>2, <2>4, <2>5
       DEF drainSemaphoreList, contextVars, TypeOK, Registers, Places
  <2>7. (pc = "bytecode" => ~newProcessWaiting)' /\ ContextsPreserved'
    BY <1>0, <1>2 DEF drainSemaphoreList, contextVars, ContextsPreserved
  <2>8. QED
    BY <1>a, <2>4, <2>6, <2>7
<1>3. CASE switchProcess
  <2>1. newProcessWaiting /\ newProcess \in Processes /\ activeProcess = newProcess
    BY <1>0, <1>3 DEF switchProcess, Registers, activeProcess
  <2>2. /\ suspendedContext' \in [Processes -> Contexts]
        /\ activeContext' \in Contexts
    BY <1>0, <1>3, <2>1 DEF switchProcess, TypeOK
  <2>3. TypeOK'
    BY <1>0, <1>3, <2>1, <2>2 DEF switchProcess, TypeOK, Places
  <2>4. Registers' /\ activeProcess' = activeProcess
    BY <1>0, <1>3, <2>1 DEF switchProcess, Registers, activeProcess
  <2>5. ListInv(list', activeProcess')
    BY <1>0, <1>3, <2>4 DEF switchProcess
  <2>6. NoLostWakeup' /\ (pc = "bytecode" => ~newProcessWaiting)'
    BY <1>0, <1>3 DEF switchProcess, NoLostWakeup
  <2>7. ContextsPreserved'
    <3>1. \A p \in Processes : suspendedContext'[p] = lastContext[p]
      BY <1>0, <1>3 DEF switchProcess, ContextsPreserved, TypeOK
    <3>2. QED
      BY <1>3, <2>1, <3>1 DEF switchProcess, ContextsPreserved
  <2>8. QED
    BY <1>a, <2>3, <2>4, <2>5, <2>6, <2>7
<1>4. CASE noSwitch
  <2>1. TypeOK'
    BY <1>0, <1>4 DEF noSwitch, contextVars, TypeOK, Places
  <2>2. /\ Registers' /\ activeProcess' = activeProcess
        /\ (pc = "bytecode" => ~newProcessWaiting)'
        /\ NoLostWakeup' /\ ContextsPreserved'
    BY <1>0, <1>4 DEF noSwitch, contextVars, Registers, activeProcess, NoLostWakeup,
                      ContextsPreserved
  <2>3. ListInv(list', activeProcess')
    BY <1>0, <1>4, <2>2 DEF noSwitch
  <2>4. QED
    BY <1>a, <2>1, <2>2, <2>3
<1>5. CASE newActiveContext
  <2>1. activeContext' \in Contexts /\ lastContext' \in [Processes -> Contexts]
    BY <1>0, <1>5 DEF newActiveContext, TypeOK, Contexts
  <2>2. TypeOK'
    BY <1>0, <1>5, <2>1 DEF newActiveContext, atBytecode, TypeOK, Places
  <2>3. /\ Registers' /\ activeProcess' = activeProcess
        /\ (pc = "bytecode" => ~newProcessWaiting)'
        /\ NoLostWakeup'
    BY <1>0, <1>5 DEF newActiveContext, atBytecode, Registers, activeProcess, NoLostWakeup
  <2>4. ContextsPreserved'
    BY <1>0, <1>5 DEF newActiveContext, ContextsPreserved, TypeOK
  <2>5. ListInv(list', activeProcess')
    BY <1>0, <1>5, <2>3 DEF newActiveContext
  <2>6. QED
    BY <1>a, <2>2, <2>3, <2>4, <2>5
<1>6. ASSUME NEW s \in Semaphores, primitiveSignal(s) PROVE IInv'
  <2>1. /\ list' \in [Lists -> Seq(Processes)]
        /\ excessSignals' \in [Semaphores -> 0..MaxExcess]
        /\ Registers' /\ ListInv(list', activeProcess') /\ NoLostWakeup'
    BY <1>6, SignalStep DEF primitiveSignal
  <2>2. TypeOK' /\ (pc = "bytecode" => ~newProcessWaiting)' /\ ContextsPreserved'
    BY <1>0, <1>6, <2>1 DEF primitiveSignal, atBytecode, contextVars, TypeOK, Registers, Places,
                            ContextsPreserved
  <2>3. QED
    BY <1>a, <2>1, <2>2
<1>7. ASSUME NEW s \in Semaphores, primitiveWait(s) PROVE IInv'
  <2>0. pc = "bytecode" /\ pc' = "boundary" /\ activeProcess # Idle
        /\ UNCHANGED <<scheduled, semaphoreList, contextVars>>
    BY <1>7 DEF primitiveWait, atBytecode
  <2>1. CASE /\ excessSignals[s] > 0
             /\ excessSignals' = [excessSignals EXCEPT ![s] = @ - 1]
             /\ UNCHANGED <<list, newProcessWaiting, newProcess>>
    <3>1. excessSignals' \in [Semaphores -> 0..MaxExcess]
      BY <1>0, <2>1, ConstantsOK DEF TypeOK
    <3>2. TypeOK'
      BY <1>0, <2>0, <2>1, <3>1 DEF TypeOK, contextVars, Places
    <3>3. /\ Registers' /\ activeProcess' = activeProcess
          /\ (pc = "bytecode" => ~newProcessWaiting)' /\ ContextsPreserved'
      BY <1>0, <2>0, <2>1 DEF Registers, activeProcess, contextVars, ContextsPreserved
    <3>4. NoLostWakeup'
      BY <1>0, <2>1 DEF NoLostWakeup, TypeOK
    <3>5. ListInv(list', activeProcess')
      BY <1>0, <2>1, <3>3
    <3>6. QED
      BY <1>a, <3>2, <3>3, <3>4, <3>5
  <2>2. CASE /\ excessSignals[s] = 0
             /\ suspendActive(addLastLink_toList(list, activeProcess, s))
             /\ UNCHANGED excessSignals
    <3> DEFINE lst == addLastLink_toList(list, activeProcess, s)
    <3>1. /\ lst \in [Lists -> Seq(Processes)]
          /\ Unique(lst)
          /\ \A m \in Lists \ {s} : lst[m] = list[m]
          /\ \A q \in Processes : Ready(list, q) => Ready(lst, q)
      <4>1. /\ list \in [Lists -> Seq(Processes)] /\ s \in Lists
            /\ Unique(list) /\ Absent(list, activeProcess) /\ activeProcess \in Processes
        BY <1>0 DEF TypeOK, ListInv
      <4>2. QED
        BY <4>1, AddLast
    <3>2. suspendActive(lst)
      BY <2>2
    <3> HIDE DEF lst
    <3>3. OwnPriority(lst)
      BY <1>0, <3>1 DEF ListInv, OwnPriority
    <3>4. Ready(lst, Idle)
      BY <1>0, <2>0, <3>1, ConstantsOK DEF ListInv
    <3>5. /\ list' \in [Lists -> Seq(Processes)]
          /\ Registers' /\ ListInv(list', activeProcess')
          /\ \A t \in Semaphores : list'[t] = lst[t]
      BY <1>0, <2>0, <3>1, <3>2, <3>3, <3>4, SuspendStep
    <3>6. TypeOK' /\ (pc = "bytecode" => ~newProcessWaiting)' /\ ContextsPreserved'
      BY <1>0, <2>0, <2>2, <3>5 DEF TypeOK, contextVars, Registers, Places, ContextsPreserved
    <3>7. NoLostWakeup'
      <4> SUFFICES ASSUME NEW t \in Semaphores, excessSignals[t] > 0
                   PROVE  list'[t] = <<>>
        BY <2>2 DEF NoLostWakeup
      <4>1. t # s /\ list[t] = <<>>
        BY <1>0, <2>2 DEF NoLostWakeup
      <4>2. QED
        BY <3>1, <3>5, <4>1
    <3>8. QED
      BY <1>a, <3>5, <3>6, <3>7
  <2>3. QED
    BY <1>7, <2>1, <2>2 DEF primitiveWait
<1>8. ASSUME NEW p \in Processes, primitiveResume(p) PROVE IInv'
  <2>1. Absent(list, p)
    BY <1>8 DEF primitiveResume, Queued, Absent
  <2>2. /\ list' \in [Lists -> Seq(Processes)]
        /\ Registers' /\ ListInv(list', activeProcess')
        /\ \A t \in Semaphores : list'[t] = list[t]
    BY <1>0, <1>8, <2>1, ResumeStep DEF primitiveResume, TypeOK
  <2>3. TypeOK' /\ (pc = "bytecode" => ~newProcessWaiting)' /\ ContextsPreserved'
    BY <1>0, <1>8, <2>2 DEF primitiveResume, atBytecode, TypeOK, contextVars, Registers, Places,
                            ContextsPreserved
  <2>4. NoLostWakeup'
    BY <1>0, <1>8, <2>2 DEF primitiveResume, NoLostWakeup
  <2>5. QED
    BY <1>a, <2>2, <2>3, <2>4
<1>9. CASE primitiveSuspend
  <2>1. /\ list' \in [Lists -> Seq(Processes)]
        /\ Registers' /\ ListInv(list', activeProcess')
        /\ \A t \in Semaphores : list'[t] = list[t]
    BY <1>0, <1>9, SuspendStep DEF primitiveSuspend, TypeOK, ListInv
  <2>2. TypeOK' /\ (pc = "bytecode" => ~newProcessWaiting)' /\ ContextsPreserved'
    BY <1>0, <1>9, <2>1 DEF primitiveSuspend, atBytecode, TypeOK, contextVars, Registers, Places,
                            ContextsPreserved
  <2>3. NoLostWakeup'
    BY <1>0, <1>9, <2>1 DEF primitiveSuspend, NoLostWakeup
  <2>4. QED
    BY <1>a, <2>1, <2>2, <2>3
<1>10. CASE UNCHANGED vars
  BY <1>0, <1>10 DEF vars, IInv, TypeOK, RegistersAgree, OnePlace, ReadyAtOwnPriority,
         MostUrgentIsActive, IdleReady, NoLostWakeup, ContextsPreserved, activeProcess
<1>11. QED
  BY <1>1, <1>2, <1>3, <1>4, <1>5, <1>6, <1>7, <1>8, <1>9, <1>10
     DEF Next, cycle, checkProcessSwitch, dispatch

(* The inductive invariant holds in every reachable state of the scheduler.  *)
THEOREM Invariance == Spec => []IInv
<1>1. QED
  BY InitInv, NextInv, PTL DEF Spec

(* interpreter.cpp keeps its registers and lists well formed: the types.     *)
THEOREM TypeCorrect == Spec => []TypeOK
<1>1. IInv => TypeOK
  BY DEF IInv
<1>2. QED
  BY <1>1, Invariance, PTL

(* A process is linked into at most one list, once, and the active process   *)
(* into none, whatever signals arrive in whatever order (addLastLink_toList, *)
(* removeFirstLinkOfList).                                                   *)
THEOREM ProcessInOnePlace == Spec => []OnePlace
<1>1. IInv => OnePlace
  BY DEF IInv
<1>2. QED
  BY <1>1, Invariance, PTL

(* resume and suspendActive always leave the most urgent process active.     *)
THEOREM PriorityScheduling == Spec => []MostUrgentIsActive
<1>1. IInv => MostUrgentIsActive
  BY DEF IInv
<1>2. QED
  BY <1>1, Invariance, PTL

(* The assertion of wakeHighestPriority cannot fail while the background     *)
(* process does not block.                                                   *)
THEOREM SomeProcessToWake == Spec => []IdleReady
<1>1. IInv => IdleReady
  BY DEF IInv
<1>2. QED
  BY <1>1, Invariance, PTL

(* primitiveWait and synchronousSignal lose no wakeup. *)
THEOREM WakeupsKept == Spec => []NoLostWakeup
<1>1. IInv => NoLostWakeup
  BY DEF IInv
<1>2. QED
  BY <1>1, Invariance, PTL

(* checkProcessSwitch loses the execution state of no process.               *)
THEOREM ContextsKept == Spec => []ContextsPreserved
<1>1. IInv => ContextsPreserved
  BY DEF IInv
<1>2. QED
  BY <1>1, Invariance, PTL

----------------------------------------------------------------------------
(* The order in which semaphores serve. *)

(* What a step may do to the list of a semaphore. *)
QueueMoves(s) ==
  \/ list'[s] = list[s]
  \/ \E p \in Processes : list'[s] = Append(list[s], p)
  \/ list[s] # <<>> /\ list'[s] = Tail(list[s])

(* sleep, resume and suspendActive leave the lists of semaphores alone.      *)
LEMMA SemaphoresKept ==
  ASSUME NEW lst \in [Lists -> Seq(Processes)], NEW s \in Semaphores
  PROVE  /\ \A p \in Processes : sleep(lst, p)[s] = lst[s]
         /\ \A p \in Processes : activeProcess \in Processes /\ resume(lst, p) => list'[s] = lst[s]
         /\ suspendActive(lst) => list'[s] = lst[s]
<1> USE PriorityType
<1>1. \A p \in Processes : sleep(lst, p)[s] = lst[s]
  BY DEF sleep, addLastLink_toList
<1>2. ASSUME NEW p \in Processes, activeProcess \in Processes, resume(lst, p)
      PROVE  list'[s] = lst[s]
  BY <1>1, <1>2 DEF resume
<1>3. ASSUME suspendActive(lst) PROVE list'[s] = lst[s]
  BY <1>3 DEF suspendActive, removeFirstLinkOfList
<1> QED
  BY <1>1, <1>2, <1>3

LEMMA SignalMoves ==
  ASSUME list \in [Lists -> Seq(Processes)], activeProcess \in Processes,
         NEW r \in Semaphores, synchronousSignal(r), NEW s \in Semaphores
  PROVE  QueueMoves(s)
<1> USE PriorityType
<1>1. CASE list' = list
  BY <1>1 DEF QueueMoves
<1>2. CASE list[r] # <<>> /\ resume(removeFirstLinkOfList(list, r), Head(list[r]))
  <2> DEFINE lst == removeFirstLinkOfList(list, r)
  <2>1. lst \in [Lists -> Seq(Processes)] /\ Head(list[r]) \in Processes
    BY <1>2 DEF removeFirstLinkOfList
  <2>2. lst[s] = IF s = r THEN Tail(list[s]) ELSE list[s]
    BY DEF removeFirstLinkOfList
  <2>3. list'[s] = lst[s]
    BY <1>2, <2>1, SemaphoresKept
  <2> QED
    BY <1>2, <2>2, <2>3 DEF QueueMoves
<1> QED
  BY <1>1, <1>2 DEF synchronousSignal, isEmptyList

LEMMA StepMoves ==
  ASSUME IInv, [Next]_vars, NEW s \in Semaphores
  PROVE  QueueMoves(s)
<1> USE PriorityType
<1>0. list \in [Lists -> Seq(Processes)] /\ semaphoreList \in Seq(Semaphores) /\ activeProcess \in Processes
  BY IInvParts, ActiveType DEF TypeOK
<1>1. CASE drainSemaphoreList
  <2>1. semaphoreList[Len(semaphoreList)] \in Semaphores
    BY <1>0, <1>1 DEF drainSemaphoreList, signalsLeft
  <2> QED
    BY <1>0, <1>1, <2>1, SignalMoves DEF drainSemaphoreList
<1>2. ASSUME NEW r \in Semaphores, primitiveSignal(r) PROVE QueueMoves(s)
  BY <1>0, <1>2, SignalMoves DEF primitiveSignal
<1>3. ASSUME NEW r \in Semaphores, primitiveWait(r) PROVE QueueMoves(s)
  <2>1. CASE list' = list
    BY <2>1 DEF QueueMoves
  <2>2. CASE suspendActive(addLastLink_toList(list, activeProcess, r))
    <3> DEFINE lst == addLastLink_toList(list, activeProcess, r)
    <3>1. lst \in [Lists -> Seq(Processes)]
      BY <1>0 DEF addLastLink_toList
    <3>2. lst[s] = IF s = r THEN Append(list[s], activeProcess) ELSE list[s]
      BY <1>0 DEF addLastLink_toList
    <3>3. list'[s] = lst[s]
      BY <2>2, <3>1, SemaphoresKept
    <3> QED
      BY <1>0, <3>2, <3>3 DEF QueueMoves
  <2> QED
    BY <1>3, <2>1, <2>2 DEF primitiveWait
<1>4. ASSUME NEW p \in Processes, primitiveResume(p) PROVE QueueMoves(s)
  <2>1. resume(list, p)
    BY <1>4 DEF primitiveResume
  <2>2. list'[s] = list[s]
    BY <1>0, <2>1, SemaphoresKept
  <2> QED
    BY <2>2 DEF QueueMoves
<1>5. CASE primitiveSuspend
  <2>1. list'[s] = list[s]
    BY <1>0, <1>5, SemaphoresKept DEF primitiveSuspend
  <2> QED
    BY <2>1 DEF QueueMoves
<1>6. ASSUME UNCHANGED list PROVE QueueMoves(s)
  BY <1>6 DEF QueueMoves
<1> QED
  BY <1>1, <1>2, <1>3, <1>4, <1>5, <1>6
  DEF Next, cycle, checkProcessSwitch, dispatch, asynchronousSignal, switchProcess, noSwitch,
      newActiveContext, vars

(* A list that changes at its ends only keeps the order of those who stay,   *)
(* and who comes is behind them.                                             *)
LEMMA OrderKept ==
  ASSUME IInv, NEW s \in Semaphores, QueueMoves(s), NEW p \in Processes, NEW q \in Processes,
         Waiting(p, s), Waiting(p, s)',
         Ahead(p, q, s) \/ (~Waiting(q, s) /\ Waiting(q, s)')
  PROVE  Ahead(p, q, s)'
<1> DEFINE old == list[s]
           new == list'[s]
<1>0. old \in Seq(Processes) /\ Len(old) \in Nat
  BY PriorityType DEF IInv, TypeOK
<1>1. CASE new = old
  BY <1>1 DEF Waiting, Ahead
<1>2. ASSUME NEW a \in Processes, new = Append(old, a) PROVE Ahead(p, q, s)'
  <2>1. /\ Len(new) = Len(old) + 1 /\ new[Len(old) + 1] = a
        /\ \A i \in 1..Len(old) : new[i] = old[i]
    BY <1>0, <1>2
  <2> HIDE DEF new, old
  <2>2. CASE Ahead(p, q, s)
    <3>1. PICK i, j \in 1..Len(old) : i < j /\ old[i] = p /\ old[j] = q
      BY <2>2 DEF Ahead, old
    <3>2. i \in 1..Len(new) /\ j \in 1..Len(new) /\ new[i] = p /\ new[j] = q
      BY <1>0, <2>1, <3>1
    <3> QED
      BY <3>1, <3>2 DEF Ahead, new
  <2>3. CASE ~Waiting(q, s) /\ Waiting(q, s)'
    <3>1. PICK i \in 1..Len(old) : old[i] = p
      BY DEF Waiting, old
    <3>2. PICK j \in 1..Len(new) : new[j] = q
      BY <2>3 DEF Waiting, new
    <3>3. \A k \in 1..Len(old) : old[k] # q
      BY <2>3 DEF Waiting, old
    <3>4. j = Len(old) + 1
      BY <1>0, <2>1, <3>2, <3>3
    <3>5. i \in 1..Len(new) /\ new[i] = p /\ i < j
      BY <1>0, <2>1, <3>1, <3>4
    <3> QED
      BY <3>2, <3>5 DEF Ahead, new
  <2> QED
    BY <2>2, <2>3
<1>3. CASE old # <<>> /\ new = Tail(old)
  <2>1. /\ Len(old) \in Nat \ {0} /\ Len(new) = Len(old) - 1
        /\ \A i \in 1..Len(new) : new[i] = old[i + 1]
    BY <1>0, <1>3
  <2> HIDE DEF new, old
  <2>2. PICK k \in 1..Len(new) : new[k] = p
    BY DEF Waiting, new
  <2>3. k + 1 \in 1..Len(old) /\ old[k + 1] = p
    BY <2>1, <2>2
  <2>4. ~Waiting(q, s) => ~Waiting(q, s)'
    <3>1. ASSUME Waiting(q, s)' PROVE Waiting(q, s)
      <4>1. PICK j \in 1..Len(new) : new[j] = q
        BY <3>1 DEF Waiting, new
      <4>2. j + 1 \in 1..Len(old) /\ old[j + 1] = q
        BY <2>1, <4>1
      <4> QED
        BY <4>2 DEF Waiting, old
    <3> QED
      BY <3>1
  <2>5. PICK i, j \in 1..Len(old) : i < j /\ old[i] = p /\ old[j] = q
    BY <2>4 DEF Ahead, old
  <2>6. i = k + 1
    BY <2>3, <2>5, PriorityType DEF IInv, OnePlace, old
  <2>7. j - 1 \in 1..Len(new) /\ new[j - 1] = q /\ k < j - 1
    <3>1. j - 1 \in 1..Len(new) /\ k < j - 1 /\ (j - 1) + 1 = j
      BY <2>1, <2>2, <2>5, <2>6
    <3> QED
      BY <2>1, <2>5, <3>1
  <2> QED
    BY <2>2, <2>7 DEF Ahead, new
<1> QED
  BY <1>1, <1>2, <1>3 DEF QueueMoves

(* A semaphore serves in order of arrival: no step of any primitive lets a   *)
(* process overtake one that waits (addLastLink_toList,                      *)
(* removeFirstLinkOfList).                                                   *)
THEOREM ServedInOrder == Spec => FirstComeFirstServed
<1>1. IInv /\ [Next]_vars =>
        [\A s \in Semaphores, p, q \in Processes :
           /\ Waiting(p, s) /\ Waiting(p, s)'
           /\ Ahead(p, q, s) \/ (~Waiting(q, s) /\ Waiting(q, s)')
           => Ahead(p, q, s)']_vars
  BY StepMoves, OrderKept
<1> QED
  BY <1>1, Invariance, PTL DEF Spec, FirstComeFirstServed
=============================================================================
