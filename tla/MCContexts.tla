------------------------------ MODULE MCContexts ------------------------------
(* Instances of the contexts for TLC. *)
EXTENDS Contexts

CONSTANTS Object, ContextPart, BlockContext,
          run, value, valueWith, perform, zork, dnu, cannot

MCMethod(arguments, temps, primitive) ==
  [argumentCount |-> arguments, temporaryCount |-> temps, primitive |-> primitive]

Plain0 == MCMethod(0, 0, "none")
Plain1 == MCMethod(1, 1, "none")
Quick == MCMethod(0, 0, "quickReturnSelf")
MCMethods == {Plain0, Plain1, Quick, MCMethod(0, 0, "value"),
              MCMethod(1, 1, "value"), MCMethod(1, 1, "perform")}

MCSelectors == {run, value, valueWith, perform, zork, dnu, cannot}
MCClasses == {Object, ContextPart, BlockContext}
MCsuperclassOf == [c \in MCClasses |-> IF c = BlockContext THEN ContextPart
                                       ELSE IF c = ContextPart THEN Object ELSE NilPointer]
MCclassOf == [k \in {"self", "message", "method", "block"} |->
                IF k = "block" THEN BlockContext ELSE IF k = "method" THEN ContextPart ELSE Object]

Entry(selector, method) == [selector |-> selector, method |-> method]

(* The hashes collide and wrap around, and one dictionary is full. *)
MCHash == [s \in MCSelectors |-> IF s \in {run, cannot} THEN 3 ELSE IF s = perform THEN 1 ELSE 0]
MCDictionary ==
  [c \in MCClasses |->
     IF c = Object
     THEN <<Entry(dnu, Plain1), Entry(perform, MCMethod(1, 1, "perform")), NilPointer,
            Entry(run, Plain0)>>
     ELSE IF c = ContextPart THEN <<NilPointer, Entry(cannot, Plain1)>>
     ELSE <<Entry(valueWith, MCMethod(1, 1, "value")), Entry(value, MCMethod(0, 0, "value"))>>]

MCInstalls == {<<Object, zork>>}

MCArity == [s \in MCSelectors |-> IF s \in {run, value, zork} THEN 0 ELSE 1]

(* All sends share one place in the cache. *)
MCCacheHash == [x \in MCSelectors \X MCClasses |-> 0]
===============================================================================
