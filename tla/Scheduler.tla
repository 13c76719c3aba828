------------------------------ MODULE Scheduler ------------------------------
(***************************************************************************)
(* Process scheduling of the interpreter (interpreter.cpp): the primitives *)
(* wait, signal, resume and suspend, the semaphores that the virtual       *)
(* machine signals asynchronously, and checkProcessSwitch, which runs at   *)
(* the start of every bytecode cycle.                                      *)
(*                                                                         *)
(* A LinkedList (a Semaphore, or the list of one priority in the           *)
(* ProcessorScheduler) is the sequence of the processes linked into it;    *)
(* SchedulerLinks models the links themselves and their reference counts   *)
(* and implements this module.  An execution state is a Context; its       *)
(* second component only tells an older context from a newer one.          *)
(***************************************************************************)
EXTENDS Integers, Sequences

CONSTANTS Processes,      \* instances of Process
          Semaphores,     \* instances of Semaphore
          External,       \* the semaphores the virtual machine may signal
          MaxPriority,    \* length of the ProcessLists array
          Priority,       \* the priority field of each process
          Idle,           \* the image's background process: it never blocks
          NilPointer,
          MaxExcess,      \* largest excessSignals (16383, the SmallInteger limit)
          MaxPending      \* length of semaphoreList (4096 entries)

Priorities == 1..MaxPriority
Lists == Priorities \cup Semaphores
Contexts == Processes \X {0, 1}

ASSUME ConstantsOK ==
  /\ MaxPriority \in Nat \ {0}
  /\ Priority \in [Processes -> Priorities]
  /\ Idle \in Processes
  /\ \A p \in Processes : Priority[Idle] <= Priority[p]
  /\ External \subseteq Semaphores
  /\ Semaphores \cap Priorities = {}
  /\ NilPointer \notin Processes
  /\ MaxExcess \in Nat \ {0}
  /\ MaxPending \in Nat \ {0}

VARIABLES
  list,               \* the processes linked into each LinkedList, first to last
  excessSignals,      \* the ExcessSignals field of each semaphore
  scheduled,          \* the ActiveProcess field of the ProcessorScheduler
  newProcessWaiting,  \* register: a process switch is called for
  newProcess,         \* register: the process to switch to
  semaphoreList,      \* register: semaphores waiting to be signalled
  suspendedContext,   \* the SuspendedContext field of each process
  activeContext,      \* register: the context that is executing
  lastContext,        \* auxiliary: where each process last executed
  pc                  \* where the interpreter is in Interpreter::cycle

vars == <<list, excessSignals, scheduled, newProcessWaiting, newProcess,
          semaphoreList, suspendedContext, activeContext, lastContext, pc>>

contextVars == <<suspendedContext, activeContext, lastContext>>

(* The interpreter is between two cycles, inside the signalling loop of      *)
(* checkProcessSwitch, or about to dispatch a bytecode.                      *)
Places == {"boundary", "drain", "bytecode"}

TypeOK ==
  /\ list \in [Lists -> Seq(Processes)]
  /\ excessSignals \in [Semaphores -> 0..MaxExcess]
  /\ scheduled \in Processes
  /\ newProcessWaiting \in BOOLEAN
  /\ newProcess \in Processes \cup {NilPointer}
  /\ semaphoreList \in Seq(Semaphores)
  /\ Len(semaphoreList) <= MaxPending
  /\ suspendedContext \in [Processes -> Contexts]
  /\ activeContext \in Contexts
  /\ lastContext \in [Processes -> Contexts]
  /\ pc \in Places

----------------------------------------------------------------------------
(* Operations on the linked lists. *)

isEmptyList(lst, l) == lst[l] = <<>>

M_addFirstLink(lst, p, l) == [lst EXCEPT ![l] = <<p>> \o @]

addLastLink_toList(lst, p, l) ==
  [k \in Lists |-> IF k = l THEN Append(lst[l], p) ELSE lst[k]]

removeFirstLinkOfList(lst, l) == [k \in Lists |-> IF k = l THEN Tail(lst[l]) ELSE lst[k]]

sleep(lst, p) == addLastLink_toList(lst, p, Priority[p])

(* While a switch is pending, the process that is about to run counts as     *)
(* the active one.                                                           *)
activeProcess == IF newProcessWaiting THEN newProcess ELSE scheduled

transferTo(p) ==
  /\ newProcessWaiting' = TRUE
  /\ newProcess' = p

M_resumeDropsActive(lst, p) ==
  \/ /\ Priority[p] > Priority[activeProcess]
     /\ list' = lst
     /\ transferTo(p)
  \/ /\ Priority[p] <= Priority[activeProcess]
     /\ list' = sleep(lst, p)
     /\ UNCHANGED <<newProcessWaiting, newProcess>>

(* A more urgent process preempts the active one, which goes to the end of   *)
(* its own priority's list; any other process waits its turn.                *)
resume(lst, p) ==
  \/ /\ Priority[p] > Priority[activeProcess]
     /\ list' = sleep(lst, activeProcess)
     /\ transferTo(p)
  \/ /\ Priority[p] <= Priority[activeProcess]
     /\ list' = sleep(lst, p)
     /\ UNCHANGED <<newProcessWaiting, newProcess>>

M_wakeLowestPriority(lst, pri) ==
  /\ ~isEmptyList(lst, pri)
  /\ \A q \in Priorities : q < pri => isEmptyList(lst, q)

(* pri is the priority whose list wakeHighestPriority takes a process from.  *)
wakeHighestPriority(lst, pri) ==
  /\ ~isEmptyList(lst, pri)
  /\ \A q \in Priorities : q > pri => isEmptyList(lst, q)

M_suspendActiveKeepsLink(lst) ==
  \E pri \in Priorities :
    /\ wakeHighestPriority(lst, pri)
    /\ list' = lst
    /\ transferTo(Head(lst[pri]))

suspendActive(lst) ==
  \E pri \in Priorities :
    /\ wakeHighestPriority(lst, pri)
    /\ list' = removeFirstLinkOfList(lst, pri)
    /\ transferTo(Head(lst[pri]))

M_storeExcessUnchecked(n) == n

(* storeInteger: a value outside the SmallInteger range is not stored.       *)
storeExcess(n) == IF n <= MaxExcess THEN n ELSE MaxExcess

M_signalAlwaysCounts(s) ==
  /\ excessSignals' = [excessSignals EXCEPT ![s] = storeExcess(@ + 1)]
  /\ UNCHANGED <<list, newProcessWaiting, newProcess>>

synchronousSignal(s) ==
  \/ /\ isEmptyList(list, s)
     /\ excessSignals' = [excessSignals EXCEPT ![s] = storeExcess(@ + 1)]
     /\ UNCHANGED <<list, newProcessWaiting, newProcess>>
  \/ /\ ~isEmptyList(list, s)
     /\ resume(removeFirstLinkOfList(list, s), Head(list[s]))
     /\ UNCHANGED excessSignals

----------------------------------------------------------------------------
(* The virtual machine: process_events, check_scheduled_semaphore and the    *)
(* low-space check append to semaphoreList between two cycles.               *)
asynchronousSignal(s) ==
  /\ pc = "boundary"
  /\ Len(semaphoreList) < MaxPending
  /\ semaphoreList' = Append(semaphoreList, s)
  /\ UNCHANGED <<list, excessSignals, scheduled, newProcessWaiting, newProcess,
                 contextVars, pc>>

M_signalsLeftOffByOne == Len(semaphoreList) > 1

(* The loop condition semaphoreIndex >= 0 of checkProcessSwitch. *)
signalsLeft == semaphoreList # <<>>

(* One round of the loop of checkProcessSwitch: newest entry first. *)
drainSemaphoreList ==
  /\ pc \in {"boundary", "drain"}
  /\ signalsLeft
  /\ synchronousSignal(semaphoreList[Len(semaphoreList)])
  /\ semaphoreList' = SubSeq(semaphoreList, 1, Len(semaphoreList) - 1)
  /\ pc' = "drain"
  /\ UNCHANGED <<scheduled, contextVars>>

M_switchFetchesFirst ==
  /\ pc \in {"boundary", "drain"}
  /\ ~signalsLeft
  /\ newProcessWaiting
  /\ newProcessWaiting' = FALSE
  /\ activeContext' = suspendedContext[newProcess]
  /\ suspendedContext' = [suspendedContext EXCEPT ![scheduled] = activeContext]
  /\ scheduled' = newProcess
  /\ newProcess' = NilPointer
  /\ pc' = "bytecode"
  /\ UNCHANGED <<list, excessSignals, semaphoreList, lastContext>>

(* The rest of checkProcessSwitch.  The context of the process that stops is *)
(* stored before the context of the one that starts is fetched: the two may  *)
(* be the same process.                                                      *)
switchProcess ==
  /\ pc \in {"boundary", "drain"}
  /\ ~signalsLeft
  /\ newProcessWaiting
  /\ newProcessWaiting' = FALSE
  /\ suspendedContext' = [suspendedContext EXCEPT ![scheduled] = activeContext]
  /\ scheduled' = newProcess
  /\ activeContext' = suspendedContext'[newProcess]
  /\ newProcess' = NilPointer
  /\ pc' = "bytecode"
  /\ UNCHANGED <<list, excessSignals, semaphoreList, lastContext>>

noSwitch ==
  /\ pc \in {"boundary", "drain"}
  /\ ~signalsLeft
  /\ ~newProcessWaiting
  /\ pc' = "bytecode"
  /\ UNCHANGED <<list, excessSignals, scheduled, newProcessWaiting, newProcess,
                 semaphoreList, contextVars>>

----------------------------------------------------------------------------
(* Bytecodes of the active process. *)

atBytecode ==
  /\ pc = "bytecode"
  /\ pc' = "boundary"

(* A send, a block activation or a return; a primitive that fails is a send. *)
newActiveContext ==
  /\ atBytecode
  /\ activeContext' = <<activeContext[1], 1 - activeContext[2]>>
  /\ lastContext' = [lastContext EXCEPT ![scheduled] = activeContext']
  /\ UNCHANGED <<list, excessSignals, scheduled, newProcessWaiting, newProcess,
                 semaphoreList, suspendedContext>>

primitiveSignal(s) ==
  /\ atBytecode
  /\ synchronousSignal(s)
  /\ UNCHANGED <<scheduled, semaphoreList, contextVars>>

primitiveWait(s) ==
  /\ atBytecode
  /\ activeProcess # Idle
  /\ \/ /\ excessSignals[s] > 0
        /\ excessSignals' = [excessSignals EXCEPT ![s] = @ - 1]
        /\ UNCHANGED <<list, newProcessWaiting, newProcess>>
     \/ /\ excessSignals[s] = 0
        /\ suspendActive(addLastLink_toList(list, activeProcess, s))
        /\ UNCHANGED excessSignals
  /\ UNCHANGED <<scheduled, semaphoreList, contextVars>>

(* p is in a LinkedList. *)
Queued(p) == \E l \in Lists : \E i \in 1..Len(list[l]) : list[l][i] = p

(* The image resumes only processes that are suspended: primitiveResume does *)
(* not look.                                                                 *)
primitiveResume(p) ==
  /\ atBytecode
  /\ p # activeProcess
  /\ ~Queued(p)
  /\ resume(list, p)
  /\ UNCHANGED <<excessSignals, scheduled, semaphoreList, contextVars>>

(* The receiver is the active process; for any other the primitive fails.    *)
primitiveSuspend ==
  /\ atBytecode
  /\ activeProcess # Idle
  /\ suspendActive(list)
  /\ UNCHANGED <<excessSignals, scheduled, semaphoreList, contextVars>>

----------------------------------------------------------------------------
(* Interpreter::init on a snapshot: firstContext leaves no switch pending.   *)
Init ==
  /\ scheduled \in Processes
  /\ list = [l \in Lists |->
               IF l = Priority[Idle] /\ scheduled # Idle THEN <<Idle>> ELSE <<>>]
  /\ excessSignals = [s \in Semaphores |-> 0]
  /\ newProcessWaiting = FALSE
  /\ newProcess = NilPointer
  /\ semaphoreList = <<>>
  /\ suspendedContext = [p \in Processes |-> <<p, 0>>]
  /\ activeContext = suspendedContext[scheduled]
  /\ lastContext = suspendedContext
  /\ pc = "boundary"

checkProcessSwitch == drainSemaphoreList \/ switchProcess \/ noSwitch

dispatch ==
  \/ newActiveContext
  \/ \E s \in Semaphores : primitiveSignal(s)
  \/ \E s \in Semaphores : primitiveWait(s)
  \/ \E p \in Processes : primitiveResume(p)
  \/ primitiveSuspend

cycle == checkProcessSwitch \/ dispatch

Next ==
  \/ \E s \in External : asynchronousSignal(s)
  \/ cycle

Spec == Init /\ [][Next]_vars

(* The run loop of the virtual machine calls cycle for ever. *)
FairSpec == Spec /\ WF_vars(cycle)

----------------------------------------------------------------------------
(* Properties. *)

(* A process is linked into at most one list, at one place, and the process  *)
(* that is (or is about to be) active into none: addLastLink has one         *)
(* NextLink to give, so a second link would splice two lists together.       *)
OnePlace ==
  /\ \A l, m \in Lists :
       \A i \in 1..Len(list[l]), j \in 1..Len(list[m]) :
          list[l][i] = list[m][j] => l = m /\ i = j
  /\ \A l \in Lists : \A i \in 1..Len(list[l]) : list[l][i] # activeProcess

(* Every ready process is in the list of its own priority. *)
ReadyAtOwnPriority ==
  \A pri \in Priorities : \A i \in 1..Len(list[pri]) : Priority[list[pri][i]] = pri

(* No ready process is more urgent than the active one, through any mixture  *)
(* of pending signals and preemptions.                                       *)
MostUrgentIsActive ==
  \A pri \in Priorities : pri > Priority[activeProcess] => list[pri] = <<>>

(* The background process is active or ready, so that the search of          *)
(* wakeHighestPriority, with its assert(priority > 0), finds a process       *)
(* whenever another process blocks.                                          *)
IdleReady ==
  activeProcess # Idle =>
    \E i \in 1..Len(list[Priority[Idle]]) : list[Priority[Idle]][i] = Idle

(* No wakeup is lost: a process never waits on a semaphore that has signals  *)
(* to give.                                                                  *)
NoLostWakeup == \A s \in Semaphores : excessSignals[s] > 0 => list[s] = <<>>

(* The registers newProcessWaiting and newProcess agree, and no switch is    *)
(* pending when a bytecode is dispatched.                                    *)
RegistersAgree ==
  /\ newProcessWaiting <=> newProcess # NilPointer
  /\ pc = "bytecode" => ~newProcessWaiting

(* No switch loses or confuses the execution state of a process: the active  *)
(* process executes, and every other is suspended, where it last executed.   *)
ContextsPreserved ==
  /\ activeContext = lastContext[scheduled]
  /\ \A p \in Processes \ {scheduled} : suspendedContext[p] = lastContext[p]

(* Semaphores serve in order of arrival: while p waits, a process that came  *)
(* later, or comes now, stays in the list and behind p.                      *)
Waiting(p, s) == \E i \in 1..Len(list[s]) : list[s][i] = p

Ahead(p, q, s) ==
  \E i, j \in 1..Len(list[s]) : i < j /\ list[s][i] = p /\ list[s][j] = q

FirstComeFirstServed ==
  [][\A s \in Semaphores, p, q \in Processes :
       /\ Waiting(p, s) /\ Waiting(p, s)'
       /\ Ahead(p, q, s) \/ (~Waiting(q, s) /\ Waiting(q, s)')
       => Ahead(p, q, s)']_vars

(* The signal of an external event reaches the process that waits for it: if *)
(* that process is the most urgent of all, it becomes active.                *)
MostUrgent(p) == \A q \in Processes \ {p} : Priority[q] < Priority[p]

Signalled(p) ==
  \E s \in Semaphores :
    /\ list[s] # <<>> /\ list[s][1] = p
    /\ \E i \in 1..Len(semaphoreList) : semaphoreList[i] = s

UrgentProcessRuns ==
  \A p \in Processes : MostUrgent(p) /\ Signalled(p) ~> scheduled = p
=============================================================================
