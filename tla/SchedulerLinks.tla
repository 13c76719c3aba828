---------------------------- MODULE SchedulerLinks ----------------------------
(***************************************************************************)
(* The scheduler of interpreter.cpp at the level of its pointer fields.    *)
(* A LinkedList has a FirstLink and a LastLink, a Process a NextLink, the  *)
(* ProcessorScheduler an ActiveProcess; each is a slot of the object       *)
(* memory that holds a process or nil.  Every store counts a reference up  *)
(* and another down, in the order of storePointer_ofObject_withValue, and  *)
(* a process whose count reaches zero is freed on the spot, even in the    *)
(* middle of a primitive.  The counts decide whether increaseReferencesTo  *)
(* and decreaseReferencesTo are called where they must be.                 *)
(*                                                                         *)
(* The module implements Scheduler, where a list is a sequence.            *)
(***************************************************************************)
EXTENDS Integers, Sequences, FiniteSets, TLC

CONSTANTS Processes, Semaphores, External, MaxPriority, Priority, Idle, NilPointer,
          MaxExcess, MaxPending

ASSUME LinksConstantsOK ==
  /\ MaxPriority \in Nat \ {0}
  /\ Priority \in [Processes -> 1..MaxPriority]
  /\ Idle \in Processes
  /\ \A p \in Processes : Priority[Idle] <= Priority[p]
  /\ External \subseteq Semaphores
  /\ Semaphores \cap 1..MaxPriority = {}
  /\ NilPointer \notin Processes
  /\ MaxExcess \in Nat \ {0}
  /\ MaxPending \in Nat \ {0}
  /\ IsFiniteSet(Processes) /\ IsFiniteSet(Semaphores)

Priorities == 1..MaxPriority
Lists == Priorities \cup Semaphores
Contexts == Processes \X {0, 1}

FirstLink(l) == <<"FirstLink", l>>
LastLink(l) == <<"LastLink", l>>
NextLink(p) == <<"NextLink", p>>
ActiveProcess == <<"ActiveProcess", NilPointer>>
Slots == {FirstLink(l) : l \in Lists} \cup {LastLink(l) : l \in Lists}
           \cup {NextLink(p) : p \in Processes} \cup {ActiveProcess}

VARIABLES
  mem,                \* object memory: slots, reference counts, freed processes
  held,               \* processes that the image's own objects refer to
  excessSignals, newProcessWaiting, newProcess, semaphoreList,
  suspendedContext, activeContext, lastContext, pc

vars == <<mem, held, excessSignals, newProcessWaiting, newProcess, semaphoreList,
          suspendedContext, activeContext, lastContext, pc>>

contextVars == <<suspendedContext, activeContext, lastContext>>

TypeOK ==
  /\ mem.slot \in [Slots -> Processes \cup {NilPointer}]
  /\ mem.count \in [Processes -> Nat]
  /\ mem.freed \subseteq Processes
  /\ held \subseteq Processes
  /\ excessSignals \in [Semaphores -> 0..MaxExcess]
  /\ newProcessWaiting \in BOOLEAN
  /\ newProcess \in Processes \cup {NilPointer}
  /\ semaphoreList \in Seq(Semaphores)
  /\ suspendedContext \in [Processes -> Contexts]
  /\ activeContext \in Contexts
  /\ lastContext \in [Processes -> Contexts]
  /\ pc \in {"boundary", "drain", "bytecode"}

----------------------------------------------------------------------------
(* The object memory.  An operation maps a memory m to the one it leaves.    *)

countUp(m, p) == IF p = NilPointer THEN m ELSE [m EXCEPT !.count[p] = @ + 1]

(* A count that reaches zero frees the process, which gives up its own       *)
(* reference to the next link, whose count may so reach zero in its turn:    *)
(* the processes that the recursion frees when p loses a reference.          *)
freedBy(m, p) ==
  LET isLast(q) == q # NilPointer /\ m.count[q] <= 1
      closed(S) == /\ isLast(p) => p \in S
                   /\ \A q \in S : isLast(m.slot[NextLink(q)]) => m.slot[NextLink(q)] \in S
  IN {q \in Processes : isLast(p) /\ \A S \in SUBSET Processes : closed(S) => q \in S}

countDown(m, p) ==
  LET freed == freedBy(m, p)
      released == {p} \cup {m.slot[NextLink(q)] : q \in freed}
  IN [slot |-> m.slot,
      count |-> [q \in Processes |-> IF q \in freed THEN 0
                                     ELSE IF q \in released THEN m.count[q] - 1
                                     ELSE m.count[q]],
      freed |-> m.freed \cup freed]

storePointer(m, s, v) == [countDown(countUp(m, v), m.slot[s]) EXCEPT !.slot[s] = v]

isEmptyList(m, l) == m.slot[FirstLink(l)] = NilPointer

M_removeFirstLinkUnprotected(m, l) ==
  LET first == m.slot[FirstLink(l)]
      unlinked ==
        IF m.slot[LastLink(l)] = first
        THEN storePointer(storePointer(m, FirstLink(l), NilPointer),
                          LastLink(l), NilPointer)
        ELSE storePointer(m, FirstLink(l), m.slot[NextLink(first)])
  IN countUp(storePointer(unlinked, NextLink(first), NilPointer), first)

M_removeFirstLinkKeepsNext(m, l) ==
  LET first == m.slot[FirstLink(l)]
      protected == countUp(m, first)
  IN IF protected.slot[LastLink(l)] = first
     THEN storePointer(storePointer(protected, FirstLink(l), NilPointer),
                       LastLink(l), NilPointer)
     ELSE storePointer(protected, FirstLink(l), m.slot[NextLink(first)])

(* The memory after the first link is taken out.  The link itself is         *)
(* returned with its count increased: the caller must decrease it.           *)
removeFirstLinkOfList(m, l) ==
  LET first == m.slot[FirstLink(l)]
      protected == countUp(m, first)
      unlinked ==
        IF protected.slot[LastLink(l)] = first
        THEN storePointer(storePointer(protected, FirstLink(l), NilPointer),
                          LastLink(l), NilPointer)
        ELSE storePointer(protected, FirstLink(l), m.slot[NextLink(first)])
  IN storePointer(unlinked, NextLink(first), NilPointer)

addLastLink_toList(m, p, l) ==
  LET linked == IF isEmptyList(m, l)
                THEN storePointer(m, FirstLink(l), p)
                ELSE storePointer(m, NextLink(m.slot[LastLink(l)]), p)
  IN storePointer(linked, LastLink(l), p)

sleep(m, p) == addLastLink_toList(m, p, Priority[p])

activeProcess == IF newProcessWaiting THEN newProcess ELSE mem.slot[ActiveProcess]

(* transferTo: what it does to the memory, and to the registers. *)
transferTo(m, p) == countUp(countDown(m, newProcess), p)

switchTo(p) ==
  /\ newProcessWaiting' = TRUE
  /\ newProcess' = p

wakeHighestPriority(m, pri) ==
  /\ ~isEmptyList(m, pri)
  /\ \A q \in Priorities : q > pri => isEmptyList(m, q)

M_suspendActiveLeaks(m) ==
  \E pri \in Priorities :
    LET p == m.slot[FirstLink(pri)]
    IN /\ wakeHighestPriority(m, pri)
       /\ mem' = transferTo(removeFirstLinkOfList(m, pri), p)
       /\ switchTo(p)

suspendActive(m) ==
  \E pri \in Priorities :
    LET p == m.slot[FirstLink(pri)]
    IN /\ wakeHighestPriority(m, pri)
       /\ mem' = countDown(transferTo(removeFirstLinkOfList(m, pri), p), p)
       /\ switchTo(p)

(* The memory and the registers after resume: p, for a caller that then      *)
(* releases the references to release.                                       *)
resume(m, p, release) ==
  \/ /\ Priority[p] > Priority[activeProcess]
     /\ mem' = countDown(transferTo(sleep(m, activeProcess), p), release)
     /\ switchTo(p)
  \/ /\ Priority[p] <= Priority[activeProcess]
     /\ mem' = countDown(sleep(m, p), release)
     /\ UNCHANGED <<newProcessWaiting, newProcess>>

storeExcess(n) == IF n <= MaxExcess THEN n ELSE MaxExcess

synchronousSignal(s) ==
  \/ /\ isEmptyList(mem, s)
     /\ excessSignals' = [excessSignals EXCEPT ![s] = storeExcess(@ + 1)]
     /\ UNCHANGED <<mem, newProcessWaiting, newProcess>>
  \/ /\ ~isEmptyList(mem, s)
     /\ LET p == mem.slot[FirstLink(s)]
        IN resume(removeFirstLinkOfList(mem, s), p, p)
     /\ UNCHANGED excessSignals

----------------------------------------------------------------------------
(* checkProcessSwitch, and the virtual machine between two cycles. *)

asynchronousSignal(s) ==
  /\ pc = "boundary"
  /\ Len(semaphoreList) < MaxPending
  /\ semaphoreList' = Append(semaphoreList, s)
  /\ UNCHANGED <<mem, held, excessSignals, newProcessWaiting, newProcess, contextVars, pc>>

drainSemaphoreList ==
  /\ pc \in {"boundary", "drain"}
  /\ semaphoreList # <<>>
  /\ synchronousSignal(semaphoreList[Len(semaphoreList)])
  /\ semaphoreList' = SubSeq(semaphoreList, 1, Len(semaphoreList) - 1)
  /\ pc' = "drain"
  /\ UNCHANGED <<held, contextVars>>

switchProcess ==
  /\ pc \in {"boundary", "drain"}
  /\ semaphoreList = <<>>
  /\ newProcessWaiting
  /\ suspendedContext' = [suspendedContext EXCEPT ![mem.slot[ActiveProcess]] = activeContext]
  /\ activeContext' = suspendedContext'[newProcess]
  /\ mem' = countDown(storePointer(mem, ActiveProcess, newProcess), newProcess)
  /\ newProcessWaiting' = FALSE
  /\ newProcess' = NilPointer
  /\ pc' = "bytecode"
  /\ UNCHANGED <<held, excessSignals, semaphoreList, lastContext>>

noSwitch ==
  /\ pc \in {"boundary", "drain"}
  /\ semaphoreList = <<>>
  /\ ~newProcessWaiting
  /\ pc' = "bytecode"
  /\ UNCHANGED <<mem, held, excessSignals, newProcessWaiting, newProcess, semaphoreList,
                 contextVars>>

----------------------------------------------------------------------------
(* Bytecodes. *)

atBytecode ==
  /\ pc = "bytecode"
  /\ pc' = "boundary"

newActiveContext ==
  /\ atBytecode
  /\ activeContext' = <<activeContext[1], 1 - activeContext[2]>>
  /\ lastContext' = [lastContext EXCEPT ![mem.slot[ActiveProcess]] = activeContext']
  /\ UNCHANGED <<mem, held, excessSignals, newProcessWaiting, newProcess, semaphoreList,
                 suspendedContext>>

primitiveSignal(s) ==
  /\ atBytecode
  /\ synchronousSignal(s)
  /\ UNCHANGED <<held, semaphoreList, contextVars>>

primitiveWait(s) ==
  /\ atBytecode
  /\ activeProcess # Idle
  /\ \/ /\ excessSignals[s] > 0
        /\ excessSignals' = [excessSignals EXCEPT ![s] = @ - 1]
        /\ UNCHANGED <<mem, newProcessWaiting, newProcess>>
     \/ /\ excessSignals[s] = 0
        /\ suspendActive(addLastLink_toList(mem, activeProcess, s))
        /\ UNCHANGED excessSignals
  /\ UNCHANGED <<held, semaphoreList, contextVars>>

Queued(p) ==
  \/ \E l \in Lists : mem.slot[FirstLink(l)] = p
  \/ \E q \in Processes : mem.slot[NextLink(q)] = p

(* The receiver is on the stack of the active context: the image holds it.   *)
primitiveResume(p) ==
  /\ atBytecode
  /\ p \in held
  /\ p # activeProcess
  /\ ~Queued(p)
  /\ resume(mem, p, NilPointer)
  /\ UNCHANGED <<held, excessSignals, semaphoreList, contextVars>>

primitiveSuspend ==
  /\ atBytecode
  /\ activeProcess # Idle
  /\ suspendActive(mem)
  /\ UNCHANGED <<held, excessSignals, semaphoreList, contextVars>>

(* The image stores the active process in an object of its own, or drops the *)
(* reference it has to a process.                                            *)
holdActiveProcess ==
  /\ pc = "bytecode"
  /\ activeProcess \notin held
  /\ held' = held \cup {activeProcess}
  /\ mem' = countUp(mem, activeProcess)
  /\ UNCHANGED <<excessSignals, newProcessWaiting, newProcess, semaphoreList, contextVars, pc>>

dropReference(p) ==
  /\ pc = "bytecode"
  /\ p \in held
  /\ held' = held \ {p}
  /\ mem' = countDown(mem, p)
  /\ UNCHANGED <<excessSignals, newProcessWaiting, newProcess, semaphoreList, contextVars, pc>>

----------------------------------------------------------------------------
References(slot, hold, p) ==
  Cardinality({s \in Slots : slot[s] = p}) + (IF p \in hold THEN 1 ELSE 0)

(* A snapshot: its counts are exact, and every suspended process is one that *)
(* the image refers to.                                                      *)
Init ==
  \E active \in Processes :
    LET slot == [s \in Slots |->
                   IF s = ActiveProcess THEN active
                   ELSE IF active # Idle /\ s \in {FirstLink(Priority[Idle]),
                                                   LastLink(Priority[Idle])} THEN Idle
                   ELSE NilPointer]
    IN /\ held = Processes \ {active, Idle}
       /\ mem = [slot |-> slot,
                 count |-> [p \in Processes |-> References(slot, held, p)],
                 freed |-> {}]
       /\ excessSignals = [s \in Semaphores |-> 0]
       /\ newProcessWaiting = FALSE
       /\ newProcess = NilPointer
       /\ semaphoreList = <<>>
       /\ suspendedContext = [p \in Processes |-> <<p, 0>>]
       /\ activeContext = suspendedContext[active]
       /\ lastContext = suspendedContext
       /\ pc = "boundary"

Next ==
  \/ \E s \in External : asynchronousSignal(s)
  \/ drainSemaphoreList
  \/ switchProcess
  \/ noSwitch
  \/ newActiveContext
  \/ \E s \in Semaphores : primitiveSignal(s)
  \/ \E s \in Semaphores : primitiveWait(s)
  \/ \E p \in Processes : primitiveResume(p)
  \/ primitiveSuspend
  \/ holdActiveProcess
  \/ \E p \in Processes : dropReference(p)

Spec == Init /\ [][Next]_vars

----------------------------------------------------------------------------
(* The count of every process is the number of references to it: nothing     *)
(* leaks, and nothing is freed early.  The newProcess register counts.       *)
CountsExact ==
  /\ TypeOK
  /\ \A p \in Processes :
       mem.count[p] = References(mem.slot, held, p) + (IF newProcess = p THEN 1 ELSE 0)

(* No list, register or object of the image refers to a process that was     *)
(* freed, not even one freed in the middle of a primitive and linked again.  *)
NoDanglingProcess ==
  \A p \in mem.freed :
    /\ p # newProcess
    /\ p \notin held
    /\ \A s \in Slots : mem.slot[s] # p

(* The processes that the NextLinks pass through, over at most n links and   *)
(* from any process.                                                         *)
linksFrom(slot) ==
  LET from[n \in 0..Cardinality(Processes)] ==
        [p \in Processes \cup {NilPointer} |->
           IF p = NilPointer \/ n = 0 THEN <<>>
           ELSE <<p>> \o from[n - 1][slot[NextLink(p)]]]
  IN from

(* The sequence of processes that a LinkedList stands for. *)
ListOf(slot, l) == linksFrom(slot)[Cardinality(Processes)][slot[FirstLink(l)]]

Abstract == INSTANCE Scheduler WITH
              list <- [l \in Lists |-> ListOf(mem.slot, l)],
              scheduled <- mem.slot[ActiveProcess]

(* The linked lists behave as the sequences of Scheduler: every operation on *)
(* links is the operation on sequences, for lists of any length it reaches.  *)
ImplementsScheduler == Abstract!Spec
=============================================================================
