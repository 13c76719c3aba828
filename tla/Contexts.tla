------------------------------- MODULE Contexts -------------------------------
(***************************************************************************)
(* How the interpreter sends messages and returns from them                *)
(* (interpreter.cpp): contexts and their stacks, the method cache and the  *)
(* lookup behind it, blocks, and returns out of methods and blocks, with   *)
(* the reference counts that decide when a context is freed.               *)
(*                                                                         *)
(* The method being run is not fixed: at every step the active context     *)
(* executes any bytecode that a compiler could have put there.  So an      *)
(* instruction pointer is only nil or not nil.  Objects are contexts, and  *)
(* the messages that createActualMessage makes (with their argument array, *)
(* as one object); there is one other object, Self, with one variable.     *)
(***************************************************************************)
EXTENDS Integers, Sequences, FiniteSets, FiniteSetsExt

CONSTANTS Oops,        \* object pointers for contexts and messages: numbers
          StackSize,   \* fields of a context behind the receiver (12 or 32)
          Self,        \* the receiver of the first method
          NilPointer,  \* nil
          Selectors,   \* message selectors
          Classes,     \* the classes
          superclassOf, \* the superclass of a class, or nil
          classOf,     \* the class of Self and of each kind of object
          Methods,     \* methods: see MethodOK
          Dictionary,  \* message dictionaries of the classes at the start
          Arity,       \* the number of arguments of a selector
          Hash,        \* the hash of a selector
          CacheHash,   \* the slot of a selector and a class in the cache
          Installs,    \* classes and selectors that the image may compile
          NewMethod,   \* and the method that it gives to them
          DoesNotUnderstandSelector, CannotReturnSelector, PerformSelector,
          Performed,   \* selectors that the image only performs
          BlockArguments, \* numbers of arguments of its blocks
          ResultsHeld  \* the image returns out of a dead context only what is
                       \* referred to from elsewhere: see LosesResult

Kinds == {"method", "block", "message"}

MethodOK(m) ==
  /\ m.argumentCount \in 0..m.temporaryCount /\ m.temporaryCount \in 0..StackSize
  /\ m.primitive \in {"none", "value", "perform", "quickReturnSelf"}

(* An entry of a message dictionary: a method takes the arguments of its     *)
(* selector, and the image implements the selectors that the interpreter     *)
(* itself knows as the interpreter expects.                                  *)
Entries == [selector : Selectors, method : Methods]
EntryOK(e) ==
  /\ e \in Entries
  /\ e.method.argumentCount = Arity[e.selector]
  /\ e.selector \in {DoesNotUnderstandSelector, CannotReturnSelector} => e.method.primitive = "none"
  /\ e.selector = PerformSelector => e.method.primitive = "perform"

ASSUME ContextsConstantsOK ==
  /\ Oops \subseteq Nat /\ Oops # {} /\ IsFiniteSet(Oops)
  /\ ({Self, NilPointer} \cup Selectors) \cap Oops = {}
  /\ ResultsHeld \in BOOLEAN /\ StackSize \in Nat \ {0}
  /\ NilPointer \notin Classes /\ IsFiniteSet(Classes) /\ NilPointer \notin Entries \cup Methods
  /\ superclassOf \in [Classes -> Classes \cup {NilPointer}]
  /\ classOf \in [Kinds \cup {"self"} -> Classes]
  /\ \A m \in Methods : MethodOK(m)
  /\ {DoesNotUnderstandSelector, CannotReturnSelector, PerformSelector} \cup Performed \subseteq Selectors
  /\ Arity \in [Selectors -> 0..StackSize] /\ Hash \in [Selectors -> Nat]
  /\ \A s \in {DoesNotUnderstandSelector, CannotReturnSelector, PerformSelector} : Arity[s] = 1
  /\ DOMAIN CacheHash = Selectors \X Classes
  /\ BlockArguments \subseteq 0..StackSize
  /\ Installs \subseteq Classes \X Selectors
  /\ \A x \in Installs : EntryOK([selector |-> x[2], method |-> NewMethod])

VARIABLES vm,           \* object memory and registers: see TypeOK
          methodCache,  \* by slot, selector, class and method, or nil
          dictionary    \* the message dictionary of each class

vars == <<vm, methodCache, dictionary>>

(* Fields of a context.  A block has its home where a method has its         *)
(* receiver; temporaries start at 1.                                         *)
SenderIndex == -1
ReceiverIndex == 0
Fields == SenderIndex..StackSize

(* The kind of an object, its reference count and its fields.  The integer   *)
(* fields of a context are apart: whether it has an instruction pointer, the *)
(* stack pointer, the temporaries of its method or arguments of its block.   *)
Nothing == [kind |-> "free", count |-> 0, f |-> [i \in Fields |-> NilPointer],
            ip |-> FALSE, sp |-> 0, temporaryCount |-> 0, blockArgumentCount |-> 0]

----------------------------------------------------------------------------
(* The object memory, by what its operations do. *)

countUp(s, v) == IF v \in Oops THEN [s EXCEPT !.obj[v].count = @ + 1] ELSE s

(* The number of references from the objects of a set to o.                  *)
References(t, from, o) == Cardinality({x \in from \X Fields : t[x[1]].f[x[2]] = o})

(* The objects of a set are freed, and with them the references they hold.   *)
without(t, gone) ==
  [o \in Oops |-> IF o \in gone THEN Nothing
                  ELSE [t[o] EXCEPT !.count = @ - References(t, gone, o)]]

(* The next to go are those whose count became zero.                         *)
release(at) ==
  LET left == without(at.obj, at.gone)
  IN [obj |-> left,
      gone |-> {o \in Oops : left[o].kind # "free" /\ left[o].count = 0 /\ at.obj[o].count # 0}]

(* An object whose count has become zero is freed, and with it what only it  *)
(* referred to, and so on: there are at most as many turns as objects.       *)
countDown(s, v) ==
  LET first == [s.obj EXCEPT ![v].count = @ - 1]
      freed[i \in 0..Cardinality(Oops)] ==
        IF i = 0 THEN [obj |-> first, gone |-> {v}] ELSE release(freed[i - 1])
  IN IF v \notin Oops THEN s
     ELSE IF s.obj[v].count # 1 THEN [s EXCEPT !.obj = first]
     ELSE [s EXCEPT !.obj = freed[Cardinality(Oops)].obj]

(* The new value is counted up before the old one is counted down. *)
storePointer(s, i, o, v) ==
  [countDown(countUp(s, v), s.obj[o].f[i]) EXCEPT !.obj[o].f[i] = v]

storeVariable(s, v) == [countDown(countUp(s, v), s.variable) EXCEPT !.variable = v]

Free(s) == {o \in Oops : s.obj[o].kind = "free"}

(* A step that runs out of object pointers is not taken: their number is a   *)
(* bound.                                                                    *)
Fresh(s) == IF Free(s) = {} THEN Max(Oops) ELSE Min(Free(s))
instantiate(s, kind) ==
  [s EXCEPT !.obj[Fresh(s)].kind = kind, !.full = @ \/ Free(s) = {}]

(* Fields from, from + 1 ... of one object go to fields to, to + 1 ... of    *)
(* another.                                                                  *)
transfer(s, n, from, x, to, y) ==
  LET moved[i \in 0..n] ==
        IF i = 0 THEN s
        ELSE storePointer(moved[i - 1], to + i - 1, y, moved[i - 1].obj[x].f[from + i - 1])
  IN moved[n]

----------------------------------------------------------------------------
(* Registers and the stack. *)

push(s, v) == [storePointer(s, s.stackPointer + 1, s.activeContext, v) EXCEPT !.stackPointer = @ + 1]
pop(s, n) == [s EXCEPT !.stackPointer = @ - n]
stackValue(s, n) == s.obj[s.activeContext].f[s.stackPointer - n]

isBlockContext(s, o) == s.obj[o].kind = "block"
homeOf(s, o) == IF isBlockContext(s, o) THEN s.obj[o].f[ReceiverIndex] ELSE o
homeContext(s) == homeOf(s, s.activeContext)
receiver(s) == s.obj[homeContext(s)].f[ReceiverIndex]
sender(s) == s.obj[homeContext(s)].f[SenderIndex]
caller(s) == s.obj[s.activeContext].f[SenderIndex]

storeContextRegisters(s) ==
  [s EXCEPT !.obj[s.activeContext].ip = TRUE, !.obj[s.activeContext].sp = s.stackPointer]
fetchContextRegisters(s) == [s EXCEPT !.stackPointer = s.obj[s.activeContext].sp]

newActiveContext(s, o) ==
  LET stored == storeContextRegisters(s)
  IN fetchContextRegisters(
       countUp([countDown(stored, s.activeContext) EXCEPT !.activeContext = o], o))

----------------------------------------------------------------------------
(* Lookup. *)

(* Probing starts at the hash and ends at the selector, at nil, or when the  *)
(* end of the dictionary comes for the second time.  The association found,  *)
(* or nil.                                                                   *)
Probe(d, start, k) == d[((start + k) % Len(d)) + 1]

lookupMethodInDictionary(d, selector) ==
  LET length == Len(d)
      start == Hash[selector] % length
      stops == {k \in 0..(2 * length - start - 1) :
                  Probe(d, start, k) = NilPointer \/ Probe(d, start, k).selector = selector}
  IN IF stops = {} THEN NilPointer ELSE Probe(d, start, Min(stops))

(* The classes from a class upwards. *)
Chain ==
  LET Up(class, up) == IF superclassOf[class] = NilPointer THEN <<class>>
                       ELSE <<class>> \o up[superclassOf[class]]
      chains[n \in 0..Cardinality(Classes)] ==
        IF n = 0 THEN [c \in Classes |-> <<>>]
        ELSE [c \in Classes |-> Up(c, chains[n - 1])]
  IN chains[Cardinality(Classes)]

(* The method of the first class in the chain that has one, or nil. *)
lookupMethodInClass(class, selector) ==
  LET entry(i) == lookupMethodInDictionary(dictionary[Chain[class][i]], selector)
      found == {i \in DOMAIN Chain[class] : entry(i) # NilPointer}
  IN IF found = {} THEN NilPointer ELSE entry(Min(found)).method

(* Every selector in a dictionary is found there, and every class            *)
(* understands doesNotUnderstand:.                                           *)
DictionaryOK(d) ==
  /\ d \in Seq(Entries \cup {NilPointer}) /\ d # <<>>
  /\ \A i \in DOMAIN d : d[i] # NilPointer =>
       EntryOK(d[i]) /\ lookupMethodInDictionary(d, d[i].selector) = d[i]
  /\ \A i, j \in DOMAIN d :
       d[i] # NilPointer /\ d[j] # NilPointer /\ d[i].selector = d[j].selector => i = j

DefinesIn(d, selector) == \E j \in DOMAIN d : d[j] # NilPointer /\ d[j].selector = selector

ASSUME ImageOK ==
  /\ DOMAIN Dictionary = Classes
  /\ \A c \in Classes : DictionaryOK(Dictionary[c])
  /\ \A c \in Classes : \E i \in DOMAIN Chain[c] :
       DefinesIn(Dictionary[Chain[c][i]], DoesNotUnderstandSelector)

(* The arguments go from the stack into a message. *)
createActualMessage(s, argumentCount) ==
  LET message == Fresh(s)
      made == instantiate(s, "message")
      filled == transfer(made, argumentCount, s.stackPointer - (argumentCount - 1), s.activeContext,
                         ReceiverIndex, message)
  IN push(pop(filled, argumentCount), message)

(* What a lookup that may end in doesNotUnderstand: leaves: the machine, the *)
(* selector and the number of arguments then in use, and the method.         *)
lookUp(s, class, selector, argumentCount) ==
  LET method == lookupMethodInClass(class, selector)
  IN IF method # NilPointer
     THEN [s |-> s, selector |-> selector, argumentCount |-> argumentCount, method |-> method]
     ELSE [s |-> createActualMessage(s, argumentCount),
           selector |-> DoesNotUnderstandSelector, argumentCount |-> 1,
           method |-> lookupMethodInClass(class, DoesNotUnderstandSelector)]

M_cacheUnderFirstSelector(class, selector, found) ==
  [methodCache EXCEPT ![CacheHash[<<selector, class>>]] =
     [selector |-> selector, class |-> class, method |-> found.method]]

(* The slot is that of the selector that was sent, the entry that of the     *)
(* selector that was found.                                                  *)
cached(class, selector, found) ==
  [methodCache EXCEPT ![CacheHash[<<selector, class>>]] =
     [selector |-> found.selector, class |-> class, method |-> found.method]]

Hit(class, selector) ==
  LET entry == methodCache[CacheHash[<<selector, class>>]]
  IN entry # NilPointer /\ entry.selector = selector /\ entry.class = class

findNewMethodInClass(s, class, selector, argumentCount) ==
  IF Hit(class, selector)
  THEN [s |-> s, selector |-> selector, argumentCount |-> argumentCount,
        method |-> methodCache[CacheHash[<<selector, class>>]].method]
  ELSE lookUp(s, class, selector, argumentCount)

----------------------------------------------------------------------------
(* Activation. *)

activateNewMethod(s, method, argumentCount) ==
  LET o == Fresh(s)
      made == storePointer(instantiate(s, "method"), SenderIndex, o, s.activeContext)
      started == [made EXCEPT !.obj[o].ip = TRUE, !.obj[o].sp = method.temporaryCount,
                             !.obj[o].temporaryCount = method.temporaryCount]
      given == transfer(started, argumentCount + 1, s.stackPointer - argumentCount,
                        s.activeContext, ReceiverIndex, o)
  IN newActiveContext(pop(given, argumentCount + 1), o)

ActiveChain(s) ==
  LET chain[i \in 0..Cardinality(Oops)] ==
        IF i = 0 THEN {s.activeContext}
        ELSE chain[i - 1] \cup ({s.obj[x].f[SenderIndex] : x \in chain[i - 1]} \ {NilPointer})
  IN chain[Cardinality(Oops)]

(* A block cannot be entered again before it has returned; the image does    *)
(* not try.                                                                  *)
MayEnter(s, block) == block \in Oops /\ isBlockContext(s, block) /\ block \notin ActiveChain(s)

M_primitiveValueGoesOn(s, argumentCount) ==
  LET block == stackValue(s, argumentCount)
      given == pop(transfer(s, argumentCount, s.stackPointer - argumentCount + 1, s.activeContext,
                            ReceiverIndex + 1, block), argumentCount + 1)
      ready == [given EXCEPT !.obj[block].sp = argumentCount]
  IN newActiveContext(storePointer(ready, SenderIndex, block, s.activeContext), block)

primitiveValue(s, argumentCount) ==
  LET block == stackValue(s, argumentCount)
      given == pop(transfer(s, argumentCount, s.stackPointer - argumentCount + 1, s.activeContext,
                            ReceiverIndex + 1, block), argumentCount + 1)
      ready == [given EXCEPT !.obj[block].ip = TRUE, !.obj[block].sp = argumentCount]
  IN newActiveContext(storePointer(ready, SenderIndex, block, s.activeContext), block)

fetchClassOf(s, v) == IF v \in Oops THEN classOf[s.obj[v].kind] ELSE classOf["self"]

executePlain(s, method, argumentCount) ==
  IF method.primitive = "quickReturnSelf" THEN s
  ELSE IF /\ method.primitive = "value"
          /\ s.obj[stackValue(s, argumentCount)].blockArgumentCount = argumentCount
       THEN primitiveValue(s, argumentCount)
       ELSE activateNewMethod(s, method, argumentCount)

(* The lookup does not go through the cache, and its method stays newMethod  *)
(* if the primitive fails, so that it is activated with the selector as an   *)
(* argument.  The methods performed are not perform: itself and have no      *)
(* primitive that fails.                                                     *)
primitivePerform(s, argumentCount) ==
  LET Found(l) ==
        IF l.method.argumentCount = l.argumentCount - 1
        THEN LET at == l.s.stackPointer - l.argumentCount + 1
                 moved == transfer(l.s, l.argumentCount - 1, at + 1, l.s.activeContext,
                                   at, l.s.activeContext)
             IN executePlain(pop(moved, 1), l.method, l.argumentCount - 1)
        ELSE activateNewMethod(l.s, l.method, l.argumentCount)
  IN Found(lookUp(s, fetchClassOf(s, stackValue(s, argumentCount)),
                  stackValue(s, argumentCount - 1), argumentCount))

(* A method without a primitive, or with one that fails, is activated. *)
executeNewMethod(s, method, argumentCount) ==
  IF method.primitive = "perform" THEN primitivePerform(s, argumentCount)
  ELSE executePlain(s, method, argumentCount)

(* The method found is executed. *)
sendSelectorToClass(class, selector, found) ==
  /\ vm' = executeNewMethod(found.s, found.method, found.argumentCount)
  /\ ~vm'.full
  /\ methodCache' = IF Hit(class, selector) THEN methodCache ELSE cached(class, selector, found)
  /\ UNCHANGED dictionary

sendSelector(s, selector, argumentCount) ==
  LET class == fetchClassOf(s, stackValue(s, argumentCount))
  IN sendSelectorToClass(class, selector, findNewMethodInClass(s, class, selector, argumentCount))

----------------------------------------------------------------------------
(* Returns. *)

M_nilContextFieldsUncounted(s) ==
  [s EXCEPT !.obj[s.activeContext].ip = FALSE, !.obj[s.activeContext].f[SenderIndex] = NilPointer]

nilContextFields(s) ==
  [storePointer(s, SenderIndex, s.activeContext, NilPointer) EXCEPT !.obj[s.activeContext].ip = FALSE]

M_returnCountsLate(s, o) ==
  LET left == nilContextFields(s)
  IN fetchContextRegisters(
       countUp([countDown(left, s.activeContext) EXCEPT !.activeContext = o], o))

M_returnKeepsStackPointer(s, o) ==
  LET left == nilContextFields(countUp(s, o))
  IN [countDown(left, s.activeContext) EXCEPT !.activeContext = o]

(* The context is counted up before the one that refers to it may go. *)
returnToActiveContext(s, o) ==
  LET left == nilContextFields(countUp(s, o))
  IN fetchContextRegisters([countDown(left, s.activeContext) EXCEPT !.activeContext = o])

cannotReturn(s, o) == o = NilPointer \/ ~s.obj[o].ip

(* A result popped from the stack is counted for its old place only, which   *)
(* the push of the active context overwrites.                                *)
LosesResult(s, result) == result \in Oops /\ s.obj[result].count = 1 /\ result # s.activeContext

returnValue_to(s, result, o, popped) ==
  IF cannotReturn(s, o)
  THEN /\ s.stackPointer + 2 <= StackSize
       /\ ResultsHeld => ~(popped /\ LosesResult(s, result))
       /\ sendSelector(push(push(s, s.activeContext), result), CannotReturnSelector, 1)
  ELSE /\ vm' = countDown(push(returnToActiveContext(countUp(s, result), o), result), result)
       /\ UNCHANGED <<methodCache, dictionary>>

----------------------------------------------------------------------------
(* Bytecodes.  The stack of a method starts behind its temporaries; what     *)
(* they take from it and add to it fits, as the compiler provides.  Integers *)
(* and other constants, which have no count, are Self; a value that nobody   *)
(* uses is stored into the variable, not popped.                             *)

Base(s) == IF isBlockContext(s, s.activeContext) THEN 0 ELSE s.obj[s.activeContext].temporaryCount
Has(n) == vm.stackPointer - n >= Base(vm)
temporaries(s) == 1..s.obj[homeContext(s)].temporaryCount

Pushable ==
  ({receiver(vm), vm.variable} \cup {vm.obj[homeContext(vm)].f[i] : i \in temporaries(vm)})
    \ {NilPointer}

pushBytecode(v) ==
  /\ vm.stackPointer < StackSize
  /\ vm' = push(vm, v)
  /\ UNCHANGED <<methodCache, dictionary>>

storeAndPopTemporaryVariableBytecode(i) ==
  /\ Has(1)
  /\ vm' = storePointer(pop(vm, 1), i, homeContext(vm), stackValue(vm, 0))
  /\ UNCHANGED <<methodCache, dictionary>>

storeAndPopReceiverVariableBytecode ==
  /\ Has(1)
  /\ receiver(vm) = Self
  /\ vm' = storeVariable(pop(vm, 1), stackValue(vm, 0))
  /\ UNCHANGED <<methodCache, dictionary>>

(* The compiler pushes the context and the number of arguments and sends     *)
(* blockCopy:, a special selector that always ends in its primitive.  An     *)
(* integer on the stack is like Self there.                                  *)
primitiveBlockCopy(s, blockArgumentCount) ==
  LET o == Fresh(s)
      context == stackValue(s, 1)
      made == [instantiate(pop(s, 2), "block") EXCEPT
                 !.obj[o].ip = TRUE, !.obj[o].blockArgumentCount = blockArgumentCount]
  IN push(storePointer(made, ReceiverIndex, o, homeOf(s, context)), o)

blockCopyBytecodes(blockArgumentCount) ==
  /\ vm.stackPointer + 2 <= StackSize
  /\ vm' = primitiveBlockCopy(push(push(vm, vm.activeContext), Self), blockArgumentCount)
  /\ ~vm'.full
  /\ UNCHANGED <<methodCache, dictionary>>

(* What the image does: it does not enter a block again.  A message that is  *)
(* not understood takes a place on the stack.                                *)
MaySendTo(to, method, argumentCount) ==
  IF method = NilPointer THEN vm.stackPointer - argumentCount < StackSize
  ELSE /\ method.primitive # "perform"
       /\ method.primitive = "value" => MayEnter(vm, to)

ImageSends(selector, argumentCount) ==
  LET to == stackValue(vm, argumentCount)
  IN MaySendTo(to, lookupMethodInClass(fetchClassOf(vm, to), selector), argumentCount)

sendBytecode(selector) ==
  /\ Has(Arity[selector] + 1)
  /\ stackValue(vm, Arity[selector]) \in Oops \cup {Self}
  /\ ImageSends(selector, Arity[selector])
  /\ sendSelector(vm, selector, Arity[selector])

PlainMethods == {m \in Methods : m.primitive = "none"}

(* The selector, a literal, is pushed as the argument of perform:. *)
performBytecodes(selector) ==
  /\ Has(1) /\ vm.stackPointer < StackSize
  /\ stackValue(vm, 0) \in Oops \cup {Self}
  /\ lookupMethodInClass(fetchClassOf(vm, stackValue(vm, 0)), selector) \in PlainMethods \cup {NilPointer}
  /\ sendSelector(push(vm, selector), PerformSelector, 1)

(* Out of the method, from a block too.  Returning true, false or nil is like *)
(* returning Self.                                                           *)
returnReceiver == returnValue_to(vm, receiver(vm), sender(vm), FALSE)
returnTop == Has(1) /\ returnValue_to(pop(vm, 1), stackValue(vm, 0), sender(vm), TRUE)

(* Out of the block only. *)
blockReturnTop ==
  /\ isBlockContext(vm, vm.activeContext) /\ Has(1)
  /\ returnValue_to(pop(vm, 1), stackValue(vm, 0), caller(vm), TRUE)

primitiveFlushCache(cache) == [h \in DOMAIN cache |-> NilPointer]

(* The image compiles a method: it stores the selector at the first place    *)
(* that probing finds empty and flushes the cache.                           *)
install(class, selector) ==
  LET d == dictionary[class]
      start == Hash[selector] % Len(d)
      empty == {k \in 0..(Len(d) - 1) : Probe(d, start, k) = NilPointer}
  IN /\ empty # {} /\ lookupMethodInDictionary(d, selector) = NilPointer
     /\ dictionary' = [dictionary EXCEPT ![class][((start + Min(empty)) % Len(d)) + 1] =
                         [selector |-> selector, method |-> NewMethod]]
     /\ methodCache' = primitiveFlushCache(methodCache)
     /\ UNCHANGED vm

----------------------------------------------------------------------------
Init ==
  /\ vm = [obj |-> [o \in Oops |-> IF o # Min(Oops) THEN Nothing
                      ELSE [Nothing EXCEPT !.kind = "method", !.count = 1, !.ip = TRUE,
                                           !.f[ReceiverIndex] = Self]],
            full |-> FALSE, variable |-> Self, activeContext |-> Min(Oops), stackPointer |-> 0]
  /\ methodCache = [h \in {CacheHash[x] : x \in DOMAIN CacheHash} |-> NilPointer]
  /\ dictionary = Dictionary

Next ==
  \/ \E v \in Pushable : pushBytecode(v)
  \/ \E i \in temporaries(vm) : storeAndPopTemporaryVariableBytecode(i)
  \/ storeAndPopReceiverVariableBytecode
  \/ \E n \in BlockArguments : blockCopyBytecodes(n)
  \/ \E selector \in Selectors \ Performed : sendBytecode(selector)
  \/ returnReceiver \/ returnTop \/ blockReturnTop
  \/ \E selector \in Performed : performBytecodes(selector)
  \/ \E x \in Installs : install(x[1], x[2])

Spec == Init /\ [][Next]_vars

----------------------------------------------------------------------------
(* Properties. *)

InUse(v) == v \in Oops => vm.obj[v].kind # "free"
ContextOops == {o \in Oops : vm.obj[o].kind \in {"method", "block"}}

TypeOK ==
  /\ vm.activeContext \in Oops
  /\ vm.stackPointer \in 0..StackSize
  /\ \A o \in Oops : vm.obj[o].sp \in 0..StackSize /\ vm.obj[o].count \in Nat

(* No pointer leads to an object that has been freed: not the register, not  *)
(* a field of a context or a message, not the variable of Self.  A result,   *)
(* the sender it goes to and the block being entered survive the context     *)
(* that is left.                                                             *)
NoDangling ==
  /\ vm.activeContext \in ContextOops
  /\ InUse(vm.variable)
  /\ \A o \in Oops, i \in Fields : InUse(vm.obj[o].f[i])

(* The count of an object is the number of pointers to it, those in stack    *)
(* places above the stack pointer included: no context is leaked but in a    *)
(* cycle.                                                                    *)
CountsExact ==
  /\ TypeOK
  /\ \A o \in Oops :
       vm.obj[o].count = References(vm.obj, Oops, o)
                         + (IF vm.activeContext = o THEN 1 ELSE 0)
                         + (IF vm.variable = o THEN 1 ELSE 0)

(* A context that has returned is never continued, whoever still holds it or *)
(* a block inside it: its instruction pointer is nil, and the return that    *)
(* would reach it becomes cannotReturn:.  Only the context that is left gets *)
(* such a pointer: when a block returns for its home, that is the block, and *)
(* the home is not marked.                                                   *)
NeverResumesReturned == vm.obj[vm.activeContext].ip

(* Whatever is in the cache is what a lookup would find now, also after      *)
(* messages that were not understood and after methods have been compiled.   *)
Understood(class, selector) ==
  LET Method(d) == (CHOOSE e \in {d[j] : j \in DOMAIN d} :
                      e # NilPointer /\ e.selector = selector).method
      at == {i \in DOMAIN Chain[class] : DefinesIn(dictionary[Chain[class][i]], selector)}
  IN IF at = {} THEN NilPointer ELSE Method(dictionary[Chain[class][Min(at)]])

CacheCoherent ==
  \A h \in DOMAIN methodCache : methodCache[h] # NilPointer =>
    methodCache[h].method = Understood(methodCache[h].class, methodCache[h].selector)

(* A context that waits for a message or a block to return keeps its stack:  *)
(* no step of the contexts above it changes its stack pointer or the fields  *)
(* behind its temporaries, and when it is returned to it finds its stack as  *)
(* it was, with the result on top.  Returning out of a block may free it.    *)
WaitingStackKept ==
  [][\A o \in ActiveChain(vm) \ {vm.activeContext} :
       LET before == vm.obj[o]
           after == vm'.obj[o]
       IN \/ after.kind = "free"
          \/ /\ after.sp = before.sp
             /\ \A i \in (before.temporaryCount + 1)..before.sp : after.f[i] = before.f[i]
             /\ vm'.activeContext = o => vm'.stackPointer = before.sp + 1]_vars

=============================================================================
