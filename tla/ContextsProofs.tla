---------------------------- MODULE ContextsProofs ----------------------------
(***************************************************************************)
(* Theorems about Contexts: reference counts are exact and nothing that is *)
(* freed is used, whatever methods and blocks the image runs; a context    *)
(* that has returned is never continued; the method cache is coherent.     *)
(*                                                                         *)
(* The lemmas go from the object memory (countDown, storePointer,          *)
(* transfer) through stack, activation and return to the bytecodes.        *)
(***************************************************************************)
EXTENDS Contexts, LeastNumber, FiniteSetTheorems

Values == Oops \cup {Self, NilPointer} \cup Selectors

Objects ==
  [kind : Kinds \cup {"free"}, count : Nat, f : [Fields -> Values], ip : BOOLEAN,
   sp : 0..StackSize, temporaryCount : 0..StackSize, blockArgumentCount : 0..StackSize]

----------------------------------------------------------------------------
(* References and counts.                                                    *)

(* The slots that hold o, those of D left aside.                             *)
Refs(m, D, o) == {x \in (Oops \X Fields) \ D : m[x[1]].f[x[2]] = o}

(* The counts are the references from the slots that are not in D, and those *)
(* that e says are held elsewhere.                                           *)
Exact(m, e, D) ==
  /\ m \in [Oops -> Objects]
  /\ e \in [Oops -> Nat]
  /\ D \subseteq Oops \X Fields
  /\ \A o \in Oops : m[o].kind = "free" => m[o] = Nothing
  /\ \A o \in Oops : m[o].count = Cardinality(Refs(m, D, o)) + e[o]

(* No object but those of Z is in use without a reference.                   *)
Counted(m, Z) == \A o \in Oops : m[o].kind # "free" /\ m[o].count = 0 => o \in Z

(* From m to n objects are freed, and otherwise only counts and the slots of *)
(* W change.                                                                 *)
SameBut(x, y, o, W) ==
  /\ y.kind = x.kind /\ y.ip = x.ip /\ y.sp = x.sp
  /\ y.temporaryCount = x.temporaryCount /\ y.blockArgumentCount = x.blockArgumentCount
  /\ \A i \in Fields : <<o, i>> \notin W => y.f[i] = x.f[i]
Changes(m, n, W) == \A o \in Oops : n[o] = Nothing \/ SameBut(m[o], n[o], o, W)

Plus(e, v) == [o \in Oops |-> IF o = v THEN e[o] + 1 ELSE e[o]]
Minus(e, v) == [o \in Oops |-> IF o = v THEN e[o] - 1 ELSE e[o]]

LEMMA FieldsAre ==
  /\ StackSize \in Nat /\ StackSize >= 1
  /\ Fields = -1..StackSize /\ SenderIndex \in Fields /\ ReceiverIndex \in Fields
  /\ SenderIndex = -1 /\ ReceiverIndex = 0
  /\ IsFiniteSet(Fields)
<1>1. StackSize \in Nat /\ StackSize >= 1
  BY ContextsConstantsOK
<1>2. IsFiniteSet(-1..StackSize)
  BY <1>1, FS_Interval
<1> QED
  BY <1>1, <1>2 DEF Fields, SenderIndex, ReceiverIndex

LEMMA NilIsNoOop == NilPointer \notin Oops /\ Self \notin Oops /\ NilPointer \in Values
BY ContextsConstantsOK DEF Values

LEMMA NothingIs ==
  /\ Nothing \in Objects
  /\ Nothing.kind = "free" /\ Nothing.count = 0
  /\ \A i \in Fields : Nothing.f[i] = NilPointer
BY FieldsAre, NilIsNoOop DEF Nothing, Objects

LEMMA SlotsFinite ==
  ASSUME NEW S \in SUBSET (Oops \X Fields)
  PROVE  IsFiniteSet(S) /\ Cardinality(S) \in Nat
<1>1. IsFiniteSet(Oops \X Fields)
  BY FieldsAre, ContextsConstantsOK, FS_Product
<1>2. IsFiniteSet(S)
  BY <1>1, FS_Subset
<1> QED
  BY <1>2, FS_CardinalityType

LEMMA RefsFinite ==
  ASSUME NEW m, NEW D, NEW o
  PROVE  /\ Refs(m, D, o) \in SUBSET (Oops \X Fields)
         /\ IsFiniteSet(Refs(m, D, o)) /\ Cardinality(Refs(m, D, o)) \in Nat
BY SlotsFinite DEF Refs

(* What is referred to has a count, and what has a count is not free.        *)
LEMMA Referenced ==
  ASSUME NEW m, NEW e, NEW D, Exact(m, e, D), NEW o \in Oops,
         e[o] >= 1 \/ Refs(m, D, o) # {}
  PROVE  m[o].count >= 1 /\ m[o].kind # "free"
<1>1. Cardinality(Refs(m, D, o)) \in Nat /\ e[o] \in Nat
  BY RefsFinite DEF Exact
<1>2. Refs(m, D, o) # {} => Cardinality(Refs(m, D, o)) # 0
  BY RefsFinite, FS_EmptySet
<1>3. m[o].count >= 1
  BY <1>1, <1>2 DEF Exact
<1> QED
  BY <1>3, NothingIs DEF Exact

(* The same, for one slot.                                                   *)
LEMMA HeldBySlot ==
  ASSUME NEW m, NEW e, NEW D, Exact(m, e, D), NEW x \in Oops, NEW i \in Fields,
         <<x, i>> \notin D, m[x].f[i] \in Oops
  PROVE  m[m[x].f[i]].count >= 1 /\ m[m[x].f[i]].kind # "free"
<1>1. <<x, i>> \in Refs(m, D, m[x].f[i])
  BY DEF Refs
<1> QED
  BY <1>1, Referenced

LEMMA HeldByField ==
  ASSUME NEW m, NEW e, Exact(m, e, {}), NEW x \in Oops, NEW i \in Fields, m[x].f[i] \in Oops
  PROVE  m[m[x].f[i]].count >= 1 /\ m[m[x].f[i]].kind # "free"
<1>1. PICK D : D = {}
  OBVIOUS
<1>2. <<x, i>> \notin D /\ Exact(m, e, D)
  BY <1>1
<1> QED
  BY <1>2, HeldBySlot

(* Objects without references go, and those they held lose these references. *)
LEMMA Without ==
  ASSUME NEW m, NEW e, NEW D, Exact(m, e, D), NEW gone \in SUBSET Oops,
         \A g \in gone : m[g].kind # "free" /\ m[g].count = 0,
         \A d \in D : e[d[1]] >= 1
  PROVE  /\ Exact(without(m, gone), e, D)
         /\ Changes(m, without(m, gone), {})
         /\ \A o \in Oops : without(m, gone)[o].kind = "free" <=> m[o].kind = "free" \/ o \in gone
<1> DEFINE n == without(m, gone)
           R(o) == {x \in gone \X Fields : m[x[1]].f[x[2]] = o}
<1>1. \A o \in Oops : /\ o \in gone => n[o] = Nothing
                      /\ o \notin gone => n[o] = [m[o] EXCEPT !.count = m[o].count - Cardinality(R(o))]
  BY DEF without, References
<1>2. ASSUME NEW g \in gone, NEW i \in Fields PROVE <<g, i>> \notin D
  <2>1. m[g].count = 0
    OBVIOUS
  <2>2. ~(e[g] >= 1)
    BY <2>1, Referenced
  <2>3. <<g, i>>[1] = g
    OBVIOUS
  <2> QED
    BY <2>2, <2>3
<1>3. ASSUME NEW o \in Oops, o \notin gone
      PROVE  /\ n[o].count = Cardinality(Refs(m, D, o)) - Cardinality(R(o)) + e[o]
             /\ Cardinality(Refs(n, D, o)) = Cardinality(Refs(m, D, o)) - Cardinality(R(o))
             /\ n[o] \in Objects
             /\ SameBut(m[o], n[o], o, {})
  <2>1. R(o) \subseteq Refs(m, D, o)
    BY <1>2 DEF Refs
  <2>2. Refs(n, D, o) = Refs(m, D, o) \ R(o)
    <3>1. ASSUME NEW x \in Oops \X Fields, x[1] \in gone PROVE n[x[1]].f[x[2]] # o
      <4>1. x[1] \in Oops /\ x[2] \in Fields
        OBVIOUS
      <4>2. n[x[1]] = Nothing
        BY <1>1, <3>1, <4>1
      <4> HIDE DEF n
      <4> QED
        BY <4>1, <4>2, NothingIs, NilIsNoOop
    <3>2. ASSUME NEW x \in Oops \X Fields, x[1] \notin gone
          PROVE  n[x[1]].f[x[2]] = m[x[1]].f[x[2]] /\ x \notin R(o)
      <4>1. m[x[1]] \in Objects
        BY DEF Exact
      <4> QED
        BY <1>1, <3>2, <4>1 DEF Objects
    <3>3. ASSUME NEW x \in Oops \X Fields, x[1] \in gone, m[x[1]].f[x[2]] = o PROVE x \in R(o)
      <4>1. x = <<x[1], x[2]>> /\ x[2] \in Fields
        OBVIOUS
      <4> QED
        BY <3>3, <4>1
    <3> HIDE DEF n, R
    <3> QED
      BY <3>1, <3>2, <3>3 DEF Refs
  <2>3. Cardinality(Refs(m, D, o) \ R(o)) = Cardinality(Refs(m, D, o)) - Cardinality(Refs(m, D, o) \cap R(o))
    BY RefsFinite, FS_Difference
  <2>4. Refs(m, D, o) \cap R(o) = R(o)
    BY <2>1
  <2>5. Cardinality(Refs(n, D, o)) = Cardinality(Refs(m, D, o)) - Cardinality(R(o))
    BY <2>2, <2>3, <2>4
  <2>6. Cardinality(R(o)) \in Nat /\ Cardinality(Refs(m, D, o)) \in Nat /\ Cardinality(Refs(n, D, o)) \in Nat
    <3>1. R(o) \in SUBSET (Oops \X Fields)
      BY <2>1 DEF Refs
    <3> QED
      BY <3>1, SlotsFinite, RefsFinite
  <2>7. m[o] \in Objects /\ m[o].count = Cardinality(Refs(m, D, o)) + e[o] /\ e[o] \in Nat
    BY DEF Exact
  <2>8. n[o] = [m[o] EXCEPT !.count = m[o].count - Cardinality(R(o))]
    BY <1>1, <1>3
  <2>9. m[o].count - Cardinality(R(o)) \in Nat
    BY <2>5, <2>6, <2>7
  <2> HIDE DEF n, R
  <2>10. n[o] \in Objects /\ n[o].count = m[o].count - Cardinality(R(o)) /\ SameBut(m[o], n[o], o, {})
    BY <2>7, <2>8, <2>9 DEF Objects, SameBut
  <2> QED
    BY <2>5, <2>6, <2>7, <2>10
<1>4. ASSUME NEW o \in gone
      PROVE  n[o].count = 0 /\ e[o] = 0 /\ Cardinality(Refs(n, D, o)) = 0 /\ n[o] \in Objects
  <2>1. m[o].count = 0 /\ o \in Oops
    OBVIOUS
  <2>2. e[o] = 0 /\ Refs(m, D, o) = {}
    <3>1. e[o] \in Nat
      BY <2>1 DEF Exact
    <3>2. ~(e[o] >= 1) /\ Refs(m, D, o) = {}
      BY <2>1, Referenced
    <3> QED
      BY <3>1, <3>2
  <2>3. Refs(n, D, o) = {}
    <3>1. ASSUME NEW x \in Oops \X Fields, n[x[1]].f[x[2]] = o PROVE m[x[1]].f[x[2]] = o
      <4>1. x[1] \notin gone
        <5>1. x[1] \in Oops /\ x[2] \in Fields
          OBVIOUS
        <5>2. x[1] \in gone => n[x[1]] = Nothing
          BY <1>1, <5>1
        <5> HIDE DEF n
        <5> QED
          BY <3>1, <2>1, <5>1, <5>2, NothingIs, NilIsNoOop
      <4>2. m[x[1]] \in Objects
        BY DEF Exact
      <4> QED
        BY <1>1, <3>1, <4>1, <4>2 DEF Objects
    <3> HIDE DEF n
    <3> QED
      BY <2>2, <3>1 DEF Refs
  <2>4. n[o] = Nothing
    BY <1>1
  <2> QED
    BY <2>2, <2>3, <2>4, NothingIs, FS_EmptySet
<1>5. n = [o \in Oops |-> n[o]]
  BY DEF without
<1>6. e \in [Oops -> Nat]
  BY DEF Exact
<1>7. \A o \in Oops : m[o].kind = "free" => m[o] = Nothing
  BY DEF Exact
<1>8. ASSUME NEW o \in Oops, n[o].kind = "free" PROVE n[o] = Nothing
  <2>1. CASE o \in gone
    BY <1>1, <2>1
  <2>2. CASE o \notin gone
    <3>1. m[o] = Nothing
      BY <1>3, <1>7, <1>8, <2>2 DEF SameBut
    <3>2. n[o] \in Objects /\ SameBut(m[o], n[o], o, {})
      BY <1>3, <2>2
    <3>3. n[o].count = 0
      <4>1. n[o].count = m[o].count - Cardinality(R(o)) /\ n[o].count \in Nat /\ m[o].count = 0
        <5>1. m[o] \in Objects
          BY DEF Exact
        <5> QED
          BY <1>1, <2>2, <3>1, <3>2, <5>1, NothingIs DEF Objects
      <4>2. Cardinality(R(o)) \in Nat
        <5>1. R(o) \in SUBSET (Oops \X Fields)
          OBVIOUS
        <5> QED
          BY <5>1, SlotsFinite
      <4> QED
        BY <4>1, <4>2
    <3>4. n[o] = [m[o] EXCEPT !.count = 0]
      <4>1. n[o] = [m[o] EXCEPT !.count = m[o].count - Cardinality(R(o))]
        BY <1>1, <2>2
      <4>2. m[o].count - Cardinality(R(o)) = 0
        <5>1. m[o] \in Objects
          BY DEF Exact
        <5> QED
          BY <3>3, <4>1, <5>1 DEF Objects
      <4> QED
        BY <4>1, <4>2
    <3> QED
      BY <3>1, <3>4, NothingIs DEF Nothing
  <2> QED
    BY <2>1, <2>2
<1>9. \A o \in Oops : n[o].count = Cardinality(Refs(n, D, o)) + e[o]
  <2> HIDE DEF n, R
  <2> QED
    BY <1>3, <1>4
<1>10. Exact(n, e, D)
  <2>1. \A o \in Oops : n[o] \in Objects
    BY <1>3, <1>4
  <2> HIDE DEF n
  <2> QED
    BY <2>1, <1>5, <1>6, <1>8, <1>9 DEF Exact
<1>11. Changes(m, n, {})
  <2> HIDE DEF n
  <2> QED
    BY <1>1, <1>3 DEF Changes
<1>12. \A o \in Oops : n[o].kind = "free" <=> m[o].kind = "free" \/ o \in gone
  BY <1>1, <1>3, NothingIs DEF SameBut
<1> QED
  BY <1>10, <1>11, <1>12

----------------------------------------------------------------------------
(* countDown.                                                                *)

Machines ==
  [obj : [Oops -> Objects], full : BOOLEAN, variable : Values, activeContext : Oops,
   stackPointer : 0..StackSize]

With(s, m) == [s EXCEPT !.obj = m]

(* What a routine on the object memory has to show: t is s after changes of  *)
(* W, the counts agree with e, and only objects of Z are not counted.        *)
Leads(s, t, e, D, Z, W) ==
  /\ t = With(s, t.obj)
  /\ Exact(t.obj, e, D)
  /\ Counted(t.obj, Z)
  /\ Changes(s.obj, t.obj, W)

LEMMA WithIs ==
  ASSUME NEW s \in Machines, NEW m
  PROVE  /\ With(s, m).obj = m
         /\ With(s, m) = [obj |-> m, full |-> s.full, variable |-> s.variable,
                          activeContext |-> s.activeContext, stackPointer |-> s.stackPointer]
         /\ m \in [Oops -> Objects] => With(s, m) \in Machines
BY DEF With, Machines

LEMMA ChangesRefl ==
  ASSUME NEW m, NEW W
  PROVE  Changes(m, m, W)
BY DEF Changes, SameBut

LEMMA ChangesTrans ==
  ASSUME NEW l, NEW m, NEW n, NEW V, NEW W, NEW U, Changes(l, m, V), Changes(m, n, W),
         V \subseteq U, W \subseteq U,
         \A o \in Oops : n[o].kind = "free" => n[o] = Nothing
  PROVE  Changes(l, n, U)
<1> SUFFICES ASSUME NEW o \in Oops, n[o] # Nothing PROVE SameBut(l[o], n[o], o, U)
  BY DEF Changes
<1>1. SameBut(m[o], n[o], o, W) /\ n[o].kind # "free"
  BY DEF Changes
<1>2. m[o] # Nothing
  BY <1>1, NothingIs DEF SameBut
<1>3. SameBut(l[o], m[o], o, V)
  BY <1>2 DEF Changes
<1> QED
  BY <1>1, <1>3 DEF SameBut

(* One count less.                                                           *)
LEMMA OneLess ==
  ASSUME NEW m, NEW e, NEW D, Exact(m, e, D), NEW v \in Oops, e[v] >= 1
  PROVE  LET n == [m EXCEPT ![v].count = @ - 1]
         IN  /\ Exact(n, Minus(e, v), D)
             /\ Changes(m, n, {})
             /\ n[v].count = m[v].count - 1 /\ n[v].kind # "free" /\ m[v].count >= 1
             /\ \A o \in Oops : o # v => n[o] = m[o]
<1> DEFINE n == [m EXCEPT ![v].count = @ - 1]
<1>1. m[v].count >= 1 /\ m[v].kind # "free" /\ m[v] \in Objects
  BY Referenced DEF Exact
<1>2. m \in [Oops -> Objects] /\ e \in [Oops -> Nat]
  BY DEF Exact
<1>3. n[v] = [m[v] EXCEPT !.count = m[v].count - 1] /\ \A o \in Oops : o # v => n[o] = m[o]
  BY <1>2
<1>4. n = [o \in Oops |-> n[o]]
  BY <1>2
<1> HIDE DEF n
<1>5. n[v] \in Objects /\ n[v].count = m[v].count - 1 /\ SameBut(m[v], n[v], v, {})
  BY <1>1, <1>3 DEF Objects, SameBut
<1>6. n[v].kind # "free"
  BY <1>1, <1>5 DEF SameBut
<1>7. \A o \in Oops : n[o] \in Objects
  BY <1>2, <1>3, <1>5
<1>8. \A o \in Oops : \A i \in Fields : n[o].f[i] = m[o].f[i]
  BY <1>3, <1>5 DEF SameBut
<1>9. \A o \in Oops : Refs(n, D, o) = Refs(m, D, o)
  BY <1>8 DEF Refs
<1>10. Minus(e, v) \in [Oops -> Nat]
  BY <1>2 DEF Minus
<1>11. \A o \in Oops : n[o].count = Cardinality(Refs(n, D, o)) + Minus(e, v)[o]
  <2>1. \A o \in Oops : m[o].count = Cardinality(Refs(m, D, o)) + e[o] /\ Cardinality(Refs(m, D, o)) \in Nat
    BY RefsFinite DEF Exact
  <2>2. \A o \in Oops : Minus(e, v)[o] = IF o = v THEN e[o] - 1 ELSE e[o]
    BY DEF Minus
  <2>3. ASSUME NEW o \in Oops PROVE n[o].count = Cardinality(Refs(n, D, o)) + Minus(e, v)[o]
    <3>1. m[o].count = Cardinality(Refs(m, D, o)) + e[o] /\ Cardinality(Refs(m, D, o)) \in Nat
          /\ e[o] \in Nat /\ Refs(n, D, o) = Refs(m, D, o)
      BY <1>2, <1>9, <2>1
    <3>2. CASE o = v
      BY <1>5, <2>2, <3>1, <3>2
    <3>3. CASE o # v
      BY <1>3, <2>2, <3>1, <3>3
    <3> QED
      BY <3>2, <3>3
  <2> QED
    BY <2>3
<1>12. \A o \in Oops : n[o].kind = "free" => n[o] = Nothing
  BY <1>3, <1>6 DEF Exact
<1>13. Exact(n, Minus(e, v), D)
  BY <1>4, <1>7, <1>10, <1>11, <1>12 DEF Exact
<1>14. Changes(m, n, {})
  BY <1>3, <1>5 DEF Changes, SameBut
<1> QED
  BY <1>1, <1>3, <1>5, <1>6, <1>13, <1>14 DEF n

(* The turns of countDown.                                                   *)
freeing(s, v, f) ==
  [i \in 0..Cardinality(Oops) |->
     IF i = 0 THEN [obj |-> [s.obj EXCEPT ![v].count = @ - 1], gone |-> {v}] ELSE release(f[i - 1])]
turns(s, v) == CHOOSE f : f = freeing(s, v, f)

LEMMA Turns ==
  ASSUME NEW s, NEW v
  PROVE  turns(s, v) = freeing(s, v, turns(s, v))
<1> DEFINE N == Cardinality(Oops)
           first == [obj |-> [s.obj EXCEPT ![v].count = @ - 1], gone |-> {v}]
           step(f, i) == IF i = 0 THEN first ELSE release(f[i - 1])
           E == {k \in Nat : \E f : f = [i \in 0..k |-> step(f, i)]}
<1>1. N \in Nat
  BY ContextsConstantsOK, FS_CardinalityType
<1>2. 0 \in E
  <2>1. [i \in 0..0 |-> first] = [i \in 0..0 |-> step([j \in 0..0 |-> first], i)]
    OBVIOUS
  <2> QED
    BY <2>1
<1>3. ASSUME NEW k \in 0..N - 1, k \in E PROVE k + 1 \in E
  <2>1. PICK f : f = [i \in 0..k |-> step(f, i)]
    BY <1>3
  <2> DEFINE g == [i \in 0..k + 1 |-> step(f, i)]
  <2>2. k \in Nat /\ k + 1 \in Nat
    OBVIOUS
  <2>3. \A i \in 0..k : g[i] = f[i]
    <3> HIDE DEF step
    <3> QED
      BY <2>1, <2>2
  <2>4. \A i \in 0..k + 1 : step(f, i) = step(g, i)
    <3> HIDE DEF g, first
    <3> QED
      BY <2>2, <2>3
  <2>5. g = [i \in 0..k + 1 |-> step(g, i)]
    <3>1. g = [i \in 0..k + 1 |-> g[i]]
      BY Zenon
    <3>2. \A i \in 0..k + 1 : g[i] = step(f, i)
      BY Zenon
    <3> HIDE DEF g, step
    <3> QED
      BY <2>4, <3>1, <3>2
  <2> HIDE DEF g, step
  <2> QED
    BY <2>2, <2>5
<1>4. N \in E
  <2> HIDE DEF E, N
  <2>1. 0..N \subseteq E
    BY <1>1, <1>2, <1>3, InductionTo
  <2> QED
    BY <1>1, <2>1
<1>5. PICK f : f = freeing(s, v, f)
  BY <1>4, Zenon DEF freeing
<1> QED
  BY <1>5, Zenon DEF turns

Vacant(m) == {o \in Oops : m[o].kind = "free"}

(* After i turns: the counts are exact, what has lost its last reference is  *)
(* about to go, and as long as something is, at least i objects are free.    *)
Freeing(m, at, e, D, Z, i) ==
  /\ Exact(at.obj, e, D)
  /\ at.gone \in SUBSET Oops
  /\ \A g \in at.gone : at.obj[g].kind # "free" /\ at.obj[g].count = 0
  /\ Counted(at.obj, Z \cup at.gone)
  /\ Changes(m, at.obj, {})
  /\ at.gone # {} => Cardinality(Vacant(at.obj)) >= i

LEMMA ReleaseStep ==
  ASSUME NEW m, NEW at, NEW e, NEW D, NEW Z, NEW i \in Nat, Freeing(m, at, e, D, Z, i),
         \A d \in D : e[d[1]] >= 1
  PROVE  Freeing(m, release(at), e, D, Z, i + 1)
<1> DEFINE n == without(at.obj, at.gone)
           next == {o \in Oops : n[o].kind # "free" /\ n[o].count = 0 /\ at.obj[o].count # 0}
<1>1. release(at).obj = n /\ release(at).gone = next
  BY DEF release
<1>2. /\ Exact(n, e, D) /\ Changes(at.obj, n, {})
      /\ \A o \in Oops : n[o].kind = "free" <=> at.obj[o].kind = "free" \/ o \in at.gone
  BY Without DEF Freeing
<1> HIDE DEF n
<1>3. Changes(m, n, {})
  <2>1. \A o \in Oops : n[o].kind = "free" => n[o] = Nothing
    BY <1>2 DEF Exact
  <2>2. Changes(m, at.obj, {})
    BY DEF Freeing
  <2> QED
    BY <1>2, <2>1, <2>2, ChangesTrans
<1>4. Counted(n, Z \cup next)
  BY <1>2 DEF Freeing, Counted
<1>5. ASSUME next # {} PROVE Cardinality(Vacant(n)) >= i + 1
  <2>1. at.gone # {}
    <3> SUFFICES ASSUME at.gone = {} PROVE FALSE
      OBVIOUS
    <3>1. PICK o \in next : TRUE
      BY <1>5
    <3>2. o \in Oops /\ n[o].kind # "free" /\ n[o].count = 0 /\ at.obj[o].count # 0
      OBVIOUS
    <3>3. ASSUME NEW x \in Oops, NEW j \in Fields PROVE n[x].f[j] = at.obj[x].f[j]
      <4>1. CASE n[x].kind = "free"
        BY <1>2, <4>1 DEF Freeing, Exact
      <4>2. CASE n[x].kind # "free"
        BY <1>2, <4>2, NothingIs DEF Changes, SameBut
      <4> QED
        BY <4>1, <4>2
    <3>4. Refs(n, D, o) = Refs(at.obj, D, o)
      BY <3>3 DEF Refs
    <3> QED
      BY <1>2, <3>2, <3>4 DEF Freeing, Exact
  <2>2. Vacant(at.obj) \subseteq Vacant(n) /\ Vacant(n) \in SUBSET Oops
    BY <1>2 DEF Vacant
  <2>3. Vacant(at.obj) # Vacant(n)
    BY <1>2, <2>1 DEF Vacant, Freeing
  <2>4. IsFiniteSet(Vacant(n)) /\ IsFiniteSet(Vacant(at.obj))
    BY <2>2, ContextsConstantsOK, FS_Subset
  <2>5. Cardinality(Vacant(at.obj)) <= Cardinality(Vacant(n)) /\ Cardinality(Vacant(n)) # Cardinality(Vacant(at.obj))
    BY <2>2, <2>3, <2>4, FS_Subset
  <2>6. Cardinality(Vacant(at.obj)) \in Nat /\ Cardinality(Vacant(n)) \in Nat
    BY <2>4, FS_CardinalityType
  <2>7. Cardinality(Vacant(at.obj)) >= i
    BY <2>1 DEF Freeing
  <2> QED
    BY <2>5, <2>6, <2>7
<1>6. next \in SUBSET Oops /\ \A g \in next : n[g].kind # "free" /\ n[g].count = 0
  OBVIOUS
<1> HIDE DEF next
<1> QED
  BY <1>1, <1>2, <1>3, <1>4, <1>5, <1>6 DEF Freeing

(* A reference that was held is given up: counts stay exact, and all that    *)
(* goes with it goes, but nothing that is still referred to.                 *)
LEMMA CountDown ==
  ASSUME NEW s \in Machines, NEW e, NEW D, NEW Z, NEW v,
         Exact(s.obj, e, D), Counted(s.obj, Z), v \in Oops => e[v] >= 1,
         \A d \in D : Minus(e, v)[d[1]] >= 1
  PROVE  Leads(s, countDown(s, v), Minus(e, v), D, Z, {})
<1>1. CASE v \notin Oops
  <2>1. countDown(s, v) = s
    BY <1>1 DEF countDown
  <2>2. Minus(e, v) = e
    BY <1>1 DEF Minus, Exact
  <2>3. s = With(s, s.obj)
    BY WithIs DEF Machines
  <2> QED
    BY <2>1, <2>2, <2>3, ChangesRefl DEF Leads
<1>2. CASE v \in Oops
  <2> DEFINE first == [s.obj EXCEPT ![v].count = @ - 1]
             N == Cardinality(Oops)
             f == turns(s, v)
             c == Minus(e, v)
  <2>1. /\ Exact(first, c, D) /\ Changes(s.obj, first, {})
        /\ first[v].count = s.obj[v].count - 1 /\ first[v].kind # "free" /\ s.obj[v].count >= 1
        /\ \A o \in Oops : o # v => first[o] = s.obj[o]
    BY <1>2, OneLess
  <2>2. s.obj[v].count \in Nat
    BY <1>2 DEF Machines, Objects
  <2>3. CASE s.obj[v].count # 1
    <3>1. countDown(s, v) = With(s, first)
      BY <1>2, <2>3 DEF countDown, With
    <3> HIDE DEF first, c
    <3>2. Counted(first, Z)
      BY <1>2, <2>1, <2>2, <2>3 DEF Counted
    <3>3. With(s, first).obj = first
      BY WithIs
    <3> QED
      BY <2>1, <3>1, <3>2, <3>3 DEF Leads, c
  <2>4. CASE s.obj[v].count = 1
    <3>1. N \in Nat
      BY ContextsConstantsOK, FS_CardinalityType
    <3>2. \A i \in 0..N : f[i] = IF i = 0 THEN [obj |-> first, gone |-> {v}] ELSE release(f[i - 1])
      <4>1. f = freeing(s, v, f)
        BY Turns
      <4> HIDE DEF f
      <4> QED
        BY <4>1 DEF freeing
    <3>3. countDown(s, v) = With(s, f[N].obj)
      BY <1>2, <2>4, Zenon DEF countDown, With, turns, freeing
    <3> HIDE DEF f, first, c, N
    <3> DEFINE E == {i \in Nat : Freeing(s.obj, f[i], c, D, Z, i)}
    <3>4. 0 \in E
      <4>1. f[0].obj = first /\ f[0].gone = {v}
        BY <3>1, <3>2
      <4>2. Counted(first, Z \cup {v})
        BY <2>1 DEF Counted
      <4>3. Cardinality(Vacant(first)) >= 0
        <5>1. IsFiniteSet(Vacant(first))
          BY ContextsConstantsOK, FS_Subset DEF Vacant
        <5> QED
          BY <5>1, FS_CardinalityType
      <4>4. \A g \in {v} : first[g].kind # "free" /\ first[g].count = 0
        BY <2>1, <2>4
      <4>5. Freeing(s.obj, f[0], c, D, Z, 0)
        BY <1>2, <2>1, <4>1, <4>2, <4>3, <4>4 DEF Freeing
      <4> QED
        BY <4>5
    <3>5. ASSUME NEW i \in 0..N - 1, i \in E PROVE i + 1 \in E
      <4>1. f[i + 1] = release(f[i])
        BY <3>1, <3>2
      <4>2. Freeing(s.obj, release(f[i]), c, D, Z, i + 1)
        BY <3>5, ReleaseStep DEF c
      <4> QED
        BY <3>5, <4>1, <4>2
    <3>6. Freeing(s.obj, f[N], c, D, Z, N)
      <4>1. 0..N \subseteq E
        <5> HIDE DEF E
        <5> QED
          BY <3>1, <3>4, <3>5, InductionTo
      <4> QED
        BY <3>1, <4>1
    <3>7. f[N].gone = {}
      <4> SUFFICES ASSUME f[N].gone # {} PROVE FALSE
        OBVIOUS
      <4>1. Vacant(f[N].obj) \in SUBSET Oops /\ Cardinality(Vacant(f[N].obj)) >= N
        BY <3>6 DEF Vacant, Freeing
      <4>2. Cardinality(Vacant(f[N].obj)) <= N /\ (N = Cardinality(Vacant(f[N].obj)) => Oops = Vacant(f[N].obj))
        BY <4>1, ContextsConstantsOK, FS_Subset DEF N
      <4>3. Cardinality(Vacant(f[N].obj)) \in Nat
        BY <4>1, ContextsConstantsOK, FS_Subset, FS_CardinalityType
      <4>4. Oops = Vacant(f[N].obj)
        BY <3>1, <4>1, <4>2, <4>3
      <4> QED
        BY <3>6, <4>4 DEF Freeing, Vacant
    <3>8. With(s, f[N].obj).obj = f[N].obj
      BY WithIs
    <3>9. Counted(f[N].obj, Z)
      BY <3>6, <3>7 DEF Freeing, Counted
    <3> QED
      BY <3>3, <3>6, <3>8, <3>9 DEF Leads, Freeing, c
  <2> QED
    BY <2>3, <2>4
<1> QED
  BY <1>1, <1>2

----------------------------------------------------------------------------
(* countUp and storePointer.                                                 *)

Keeps(m, n, W) == \A o \in Oops : SameBut(m[o], n[o], o, W)

LEMMA KeepsChanges ==
  ASSUME NEW m, NEW n, NEW W, Keeps(m, n, W)
  PROVE  Changes(m, n, W)
BY DEF Keeps, Changes

LEMMA PlusMinus ==
  ASSUME NEW e \in [Oops -> Nat], NEW v
  PROVE  /\ Plus(e, v) \in [Oops -> Nat]
         /\ Minus(Plus(e, v), v) = e
         /\ v \notin Oops => Plus(e, v) = e /\ Minus(e, v) = e
         /\ \A o \in Oops : Plus(e, v)[o] >= e[o] /\ (o = v => Plus(e, v)[o] >= 1)
         /\ (v \in Oops => e[v] >= 1) => Minus(e, v) \in [Oops -> Nat] /\ Plus(Minus(e, v), v) = e
<1>1. Plus(e, v) \in [Oops -> Nat]
  BY DEF Plus
<1>2. Minus(Plus(e, v), v) = e
  <2>1. \A o \in Oops : Minus(Plus(e, v), v)[o] = e[o]
    BY DEF Plus, Minus
  <2> QED
    BY <2>1 DEF Minus
<1>3. v \notin Oops => Plus(e, v) = e /\ Minus(e, v) = e
  BY DEF Plus, Minus
<1>4. \A o \in Oops : Plus(e, v)[o] >= e[o] /\ (o = v => Plus(e, v)[o] >= 1)
  BY DEF Plus
<1>5. ASSUME v \in Oops => e[v] >= 1
      PROVE  Minus(e, v) \in [Oops -> Nat] /\ Plus(Minus(e, v), v) = e
  <2>1. Minus(e, v) \in [Oops -> Nat]
    BY <1>5 DEF Minus
  <2>2. \A o \in Oops : Plus(Minus(e, v), v)[o] = e[o]
    BY <1>5 DEF Plus, Minus
  <2> QED
    BY <2>1, <2>2 DEF Plus
<1> QED
  BY <1>1, <1>2, <1>3, <1>4, <1>5

LEMMA CountUp ==
  ASSUME NEW s \in Machines, NEW e, NEW D, NEW Z, NEW v,
         Exact(s.obj, e, D), Counted(s.obj, Z), v \in Oops => s.obj[v].kind # "free"
  PROVE  /\ Leads(s, countUp(s, v), Plus(e, v), D, Z \ {v}, {})
         /\ Keeps(s.obj, countUp(s, v).obj, {})
<1>1. CASE v \notin Oops
  <2>1. countUp(s, v) = s /\ Plus(e, v) = e
    BY <1>1, PlusMinus DEF countUp, Exact
  <2>2. s = With(s, s.obj)
    BY WithIs DEF Machines
  <2>3. Counted(s.obj, Z \ {v})
    BY <1>1 DEF Counted
  <2>4. Keeps(s.obj, s.obj, {})
    BY DEF Keeps, SameBut
  <2> QED
    BY <2>1, <2>2, <2>3, <2>4, ChangesRefl DEF Leads
<1>2. CASE v \in Oops
  <2> DEFINE m == s.obj
             n == [m EXCEPT ![v].count = @ + 1]
  <2>1. countUp(s, v) = With(s, n) /\ With(s, n).obj = n
    BY <1>2, WithIs DEF countUp, With
  <2>2. m \in [Oops -> Objects] /\ e \in [Oops -> Nat]
    BY DEF Exact
  <2>3. n[v] = [m[v] EXCEPT !.count = m[v].count + 1] /\ \A o \in Oops : o # v => n[o] = m[o]
    BY <1>2, <2>2
  <2>4. n = [o \in Oops |-> n[o]]
    BY <2>2
  <2> HIDE DEF n
  <2>5. n[v] \in Objects /\ n[v].count = m[v].count + 1 /\ SameBut(m[v], n[v], v, {}) /\ m[v].count \in Nat
    <3>1. m[v] \in Objects
      BY <1>2, <2>2
    <3> QED
      BY <2>3, <3>1 DEF Objects, SameBut
  <2>6. Keeps(m, n, {})
    BY <2>3, <2>5 DEF Keeps, SameBut
  <2>7. \A o \in Oops : Refs(n, D, o) = Refs(m, D, o)
    BY <2>6 DEF Refs, Keeps, SameBut
  <2>8. ASSUME NEW o \in Oops PROVE n[o].count = Cardinality(Refs(n, D, o)) + Plus(e, v)[o]
    <3>1. m[o].count = Cardinality(Refs(m, D, o)) + e[o] /\ Cardinality(Refs(m, D, o)) \in Nat
          /\ e[o] \in Nat /\ Refs(n, D, o) = Refs(m, D, o)
      BY <2>2, <2>7, RefsFinite DEF Exact
    <3>2. Plus(e, v)[o] = IF o = v THEN e[o] + 1 ELSE e[o]
      BY DEF Plus
    <3> HIDE DEF m
    <3>3. CASE o = v
      BY <2>5, <3>1, <3>2, <3>3
    <3>4. CASE o # v
      BY <2>3, <3>1, <3>2, <3>4
    <3> QED
      BY <3>3, <3>4
  <2>9. \A o \in Oops : n[o].kind = "free" => n[o] = Nothing
    BY <1>2, <2>3, <2>5 DEF Exact, SameBut
  <2>10. \A o \in Oops : n[o] \in Objects
    BY <2>2, <2>3, <2>5
  <2>11. Exact(n, Plus(e, v), D)
    BY <2>2, <2>4, <2>8, <2>9, <2>10, PlusMinus DEF Exact
  <2>12. Counted(n, Z \ {v})
    <3>1. n[v].count # 0
      BY <2>5
    <3> QED
      BY <2>3, <3>1 DEF Counted
  <2> QED
    BY <2>1, <2>6, <2>11, <2>12, KeepsChanges DEF Leads
<1> QED
  BY <1>1, <1>2

(* A slot is set aside: its reference counts as held.                        *)
LEMMA SetAside ==
  ASSUME NEW m, NEW e, NEW D, Exact(m, e, D), NEW x \in Oops, NEW i \in Fields, <<x, i>> \notin D
  PROVE  Exact(m, Plus(e, m[x].f[i]), D \cup {<<x, i>>})
<1> DEFINE p == <<x, i>>
           F == D \cup {p}
           g == Plus(e, m[x].f[i])
<1>1. e \in [Oops -> Nat]
  BY DEF Exact
<1>2. ASSUME NEW o \in Oops PROVE Cardinality(Refs(m, F, o)) + g[o] = Cardinality(Refs(m, D, o)) + e[o]
  <2>1. Refs(m, F, o) = Refs(m, D, o) \ {p}
    BY DEF Refs
  <2>2. p \in Refs(m, D, o) <=> m[x].f[i] = o
    BY DEF Refs
  <2>3. Cardinality(Refs(m, D, o) \ {p}) =
          IF p \in Refs(m, D, o) THEN Cardinality(Refs(m, D, o)) - 1 ELSE Cardinality(Refs(m, D, o))
    BY RefsFinite, FS_RemoveElement
  <2>4. Cardinality(Refs(m, D, o)) \in Nat /\ e[o] \in Nat
    BY <1>1, RefsFinite
  <2>5. g[o] = IF m[x].f[i] = o THEN e[o] + 1 ELSE e[o]
    BY DEF Plus
  <2> HIDE DEF F, p, g
  <2> QED
    BY <2>1, <2>2, <2>3, <2>4, <2>5
<1>3. g \in [Oops -> Nat] /\ F \subseteq Oops \X Fields
  BY <1>1, PlusMinus DEF Exact
<1> HIDE DEF F, p, g
<1>4. Exact(m, g, F)
  BY <1>2, <1>3 DEF Exact
<1> QED
  BY <1>4 DEF F, p, g

(* And back in use: what it refers to is no longer held.                     *)
LEMMA PutBack ==
  ASSUME NEW m, NEW e, NEW D, NEW x \in Oops, NEW i \in Fields, <<x, i>> \notin D,
         Exact(m, e, D \cup {<<x, i>>}), m[x].f[i] \in Oops => e[m[x].f[i]] >= 1
  PROVE  Exact(m, Minus(e, m[x].f[i]), D)
<1> DEFINE p == <<x, i>>
           F == D \cup {p}
           g == Minus(e, m[x].f[i])
<1>1. e \in [Oops -> Nat]
  BY DEF Exact
<1>2. ASSUME NEW o \in Oops PROVE Cardinality(Refs(m, F, o)) + e[o] = Cardinality(Refs(m, D, o)) + g[o]
  <2>1. Refs(m, F, o) = Refs(m, D, o) \ {p}
    BY DEF Refs
  <2>2. p \in Refs(m, D, o) <=> m[x].f[i] = o
    BY DEF Refs
  <2>3. Cardinality(Refs(m, D, o) \ {p}) =
          IF p \in Refs(m, D, o) THEN Cardinality(Refs(m, D, o)) - 1 ELSE Cardinality(Refs(m, D, o))
    BY RefsFinite, FS_RemoveElement
  <2>4. Cardinality(Refs(m, D, o)) \in Nat /\ e[o] \in Nat
    BY <1>1, RefsFinite
  <2>5. g[o] = IF m[x].f[i] = o THEN e[o] - 1 ELSE e[o]
    BY DEF Minus
  <2> HIDE DEF F, p, g
  <2> QED
    BY <2>1, <2>2, <2>3, <2>4, <2>5
<1>3. g \in [Oops -> Nat]
  BY <1>1, PlusMinus
<1> HIDE DEF F, p, g
<1>4. Exact(m, g, D)
  BY <1>2, <1>3 DEF Exact, F, p
<1> QED
  BY <1>4 DEF g

(* A slot that is set aside may be overwritten.                              *)
Put(m, x, i, v) == [m EXCEPT ![x].f[i] = v]
Overwritten(m, n, x, i, v, e, D) ==
  /\ Exact(n, e, D)
  /\ Keeps(m, n, {<<x, i>>})
  /\ n[x].f[i] = v
  /\ \A o \in Oops : n[o].count = m[o].count

LEMMA Overwrite ==
  ASSUME NEW m, NEW e, NEW D, NEW x \in Oops, NEW i \in Fields, NEW v \in Values,
         <<x, i>> \in D, Exact(m, e, D), m[x].kind # "free"
  PROVE  Overwritten(m, Put(m, x, i, v), x, i, v, e, D)
<1> DEFINE n == Put(m, x, i, v)
<1>1. m \in [Oops -> Objects] /\ m[x] \in Objects
  BY DEF Exact
<1>2. n[x] = [m[x] EXCEPT !.f = [m[x].f EXCEPT ![i] = v]] /\ \A o \in Oops : o # x => n[o] = m[o]
  BY <1>1 DEF Put
<1>3. n = [o \in Oops |-> n[o]]
  BY <1>1 DEF Put
<1> HIDE DEF n
<1>4. n[x] \in Objects /\ n[x].f[i] = v /\ SameBut(m[x], n[x], x, {<<x, i>>}) /\ n[x].count = m[x].count
  <2>1. [m[x].f EXCEPT ![i] = v] \in [Fields -> Values]
    BY <1>1 DEF Objects
  <2>2. n[x].f = [m[x].f EXCEPT ![i] = v] /\ m[x].f \in [Fields -> Values]
    BY <1>1, <1>2 DEF Objects
  <2> QED
    BY <1>1, <1>2, <2>1, <2>2 DEF Objects, SameBut
<1>5. Keeps(m, n, {<<x, i>>})
  BY <1>2, <1>4 DEF Keeps, SameBut
<1>6. \A o \in Oops : Refs(n, D, o) = Refs(m, D, o)
  <2>1. \A y \in Oops, j \in Fields : <<y, j>> \notin D => n[y].f[j] = m[y].f[j]
    BY <1>5 DEF Keeps, SameBut
  <2> QED
    BY <2>1 DEF Refs
<1>7. \A o \in Oops : n[o].kind = "free" => n[o] = Nothing
  BY <1>2, <1>4 DEF Exact, SameBut
<1>8. \A o \in Oops : n[o] \in Objects /\ n[o].count = m[o].count
  BY <1>1, <1>2, <1>4
<1>9. Exact(n, e, D)
  BY <1>3, <1>6, <1>7, <1>8 DEF Exact
<1> QED
  BY <1>4, <1>5, <1>8, <1>9 DEF n, Overwritten

LEMMA LeadsTrans ==
  ASSUME NEW s \in Machines, NEW t, NEW u, NEW e, NEW D, NEW Z, NEW V, NEW c, NEW F, NEW Y, NEW W, NEW U,
         Leads(s, t, e, D, Z, V), Leads(t, u, c, F, Y, W), V \subseteq U, W \subseteq U
  PROVE  Leads(s, u, c, F, Y, U) /\ t \in Machines /\ u \in Machines
<1>1. t.obj \in [Oops -> Objects] /\ u.obj \in [Oops -> Objects]
  BY DEF Leads, Exact
<1>2. t = With(s, t.obj) /\ t \in Machines
  BY <1>1, WithIs DEF Leads
<1>3. u = With(t, u.obj) /\ u \in Machines
  BY <1>1, <1>2, WithIs DEF Leads
<1>4. With(t, u.obj) = With(s, u.obj)
  BY <1>2, WithIs
<1>5. \A o \in Oops : u.obj[o].kind = "free" => u.obj[o] = Nothing
  BY DEF Leads, Exact
<1>6. Changes(s.obj, u.obj, U)
  BY <1>5, ChangesTrans DEF Leads
<1> QED
  BY <1>2, <1>3, <1>4, <1>6 DEF Leads

(* What is held or referred to from a slot that did not change is not freed. *)
LEMMA Survives ==
  ASSUME NEW m, NEW n, NEW e, NEW D, NEW W, Exact(n, e, D), Changes(m, n, W), NEW o \in Oops,
         e[o] >= 1 \/ Refs(n, D, o) # {}
  PROVE  SameBut(m[o], n[o], o, W) /\ n[o].kind # "free"
BY Referenced, NothingIs DEF Changes

(* storePointer keeps the counts exact, whatever goes with the old value.    *)
Stored(s, t, i, o, v, e, D, Z) ==
  /\ Leads(s, t, e, D, Z \ {v}, {<<o, i>>})
  /\ SameBut(s.obj[o], t.obj[o], o, {<<o, i>>})
  /\ t.obj[o].f[i] = v
  /\ s.obj[o].f[i] \notin Oops => Keeps(s.obj, t.obj, {<<o, i>>})

LEMMA Store ==
  ASSUME NEW s \in Machines, NEW e, NEW D, NEW Z, NEW i \in Fields, NEW o \in Oops, NEW v \in Values,
         Exact(s.obj, e, D), Counted(s.obj, Z), \A d \in D : e[d[1]] >= 1,
         s.obj[o].kind # "free", <<o, i>> \notin D,
         s.obj[o].f[i] \in Oops => e[o] >= 1,
         v \in Oops => s.obj[v].kind # "free"
  PROVE  Stored(s, storePointer(s, i, o, v), i, o, v, e, D, Z)
<1> DEFINE old == s.obj[o].f[i]
           p == <<o, i>>
           up == countUp(s, v)
           down == countDown(up, old)
           n == Put(down.obj, o, i, v)
           c == Plus(e, v)
           F == D \cup {p}
<1>1. Leads(s, up, c, D, Z \ {v}, {}) /\ Keeps(s.obj, up.obj, {})
  BY CountUp
<1>2. up \in Machines
  BY <1>1, WithIs DEF Leads, Exact
<1>3. up.obj[o].f[i] = old /\ up.obj[o].kind = s.obj[o].kind
  BY <1>1 DEF Keeps, SameBut
<1>4. e \in [Oops -> Nat]
  BY DEF Exact
<1>5. c \in [Oops -> Nat] /\ Minus(c, v) = e /\ \A x \in Oops : c[x] >= e[x]
  BY <1>4, PlusMinus
<1>6. v \in Oops => c[v] >= 1
  BY <1>4, PlusMinus
<1>7. D \subseteq Oops \X Fields
  BY DEF Exact
<1> HIDE DEF up, c
<1>8. Exact(up.obj, Plus(c, old), F)
  <2>1. Exact(up.obj, c, D)
    BY <1>1 DEF Leads
  <2> QED
    BY <1>3, <2>1, SetAside
<1>9. Minus(Plus(c, old), old) = c /\ (old \in Oops => Plus(c, old)[old] >= 1)
  BY <1>5, PlusMinus
<1>10. /\ Leads(up, down, c, F, Z \ {v}, {})
       /\ SameBut(s.obj[o], down.obj[o], o, {}) /\ down.obj[o].kind # "free"
       /\ old \notin Oops => down = up
  <2>1. CASE old \notin Oops
    <3>1. down = up
      BY <2>1 DEF countDown
    <3>2. Plus(c, old) = c
      BY <1>5, <2>1, PlusMinus
    <3>3. up = With(up, up.obj)
      BY <1>2, WithIs DEF Machines
    <3>4. Leads(up, up, c, F, Z \ {v}, {})
      BY <1>1, <1>8, <3>2, <3>3, ChangesRefl DEF Leads
    <3> QED
      BY <1>1, <3>1, <3>4 DEF Keeps, SameBut
  <2>2. CASE old \in Oops
    <3>1. \A d \in F : c[d[1]] >= 1
      <4>1. p[1] = o
        OBVIOUS
      <4>2. e[o] >= 1 /\ e[o] \in Nat /\ c[o] \in Nat /\ c[o] >= e[o]
        BY <1>4, <1>5, <2>2
      <4>3. ASSUME NEW d \in D PROVE c[d[1]] >= 1
        <5>1. e[d[1]] >= 1 /\ d[1] \in Oops
          BY <1>7
        <5>2. e[d[1]] \in Nat /\ c[d[1]] \in Nat /\ c[d[1]] >= e[d[1]]
          BY <1>4, <1>5, <5>1
        <5> QED
          BY <5>1, <5>2
      <4> QED
        BY <4>1, <4>2, <4>3
    <3>2. Counted(up.obj, Z \ {v})
      BY <1>1 DEF Leads
    <3> HIDE DEF old, F
    <3>3. Leads(up, down, c, F, Z \ {v}, {})
      BY <1>2, <1>8, <1>9, <3>1, <3>2, CountDown
    <3>4. c[o] >= 1
      <4>1. p \in F /\ p[1] = o
        BY DEF F
      <4> QED
        BY <3>1, <4>1
    <3>5. SameBut(up.obj[o], down.obj[o], o, {}) /\ down.obj[o].kind # "free"
      BY <3>3, <3>4, Survives DEF Leads
    <3>6. SameBut(s.obj[o], up.obj[o], o, {})
      BY <1>1 DEF Keeps
    <3> QED
      BY <2>2, <3>3, <3>5, <3>6 DEF SameBut
  <2> QED
    BY <2>1, <2>2
<1>11. storePointer(s, i, o, v) = With(down, n)
  BY DEF storePointer, up, With, Put
<1>12. down \in Machines /\ With(down, n).obj = n
  <2> HIDE DEF down
  <2>1. down = With(up, down.obj) /\ down.obj \in [Oops -> Objects]
    BY <1>10 DEF Leads, Exact
  <2>2. down \in Machines
    BY <1>2, <2>1, WithIs
  <2> QED
    BY <2>2, WithIs
<1>13. /\ Exact(n, c, F) /\ Keeps(down.obj, n, {p}) /\ n[o].f[i] = v
       /\ \A x \in Oops : n[x].count = down.obj[x].count
  <2>1. p \in F
    OBVIOUS
  <2> HIDE DEF F, down, p
  <2>2. Exact(down.obj, c, F) /\ down.obj[o].kind # "free"
    BY <1>10 DEF Leads
  <2>3. <<o, i>> \in F
    BY <2>1 DEF p
  <2>4. Overwritten(down.obj, Put(down.obj, o, i, v), o, i, v, c, F)
    BY <2>2, <2>3, Overwrite
  <2> QED
    BY <2>4 DEF p, Overwritten
<1> HIDE DEF down, n
<1>14. Exact(n, e, D)
  <2>1. Exact(n, Minus(c, n[o].f[i]), D)
    BY <1>6, <1>13, PutBack
  <2> QED
    BY <1>5, <1>13, <2>1
<1>15. Counted(n, Z \ {v})
  BY <1>10, <1>13 DEF Leads, Counted, Keeps, SameBut
<1>16. Leads(down, With(down, n), e, D, Z \ {v}, {p})
  BY <1>12, <1>13, <1>14, <1>15, KeepsChanges DEF Leads
<1>17. Leads(s, down, c, F, Z \ {v}, {})
  BY <1>1, <1>10, LeadsTrans
<1>18. Leads(s, With(down, n), e, D, Z \ {v}, {p})
  BY <1>16, <1>17, LeadsTrans
<1>19. SameBut(s.obj[o], n[o], o, {p})
  BY <1>10, <1>13 DEF Keeps, SameBut
<1>20. old \notin Oops => Keeps(s.obj, n, {p})
  BY <1>1, <1>10, <1>13 DEF Keeps, SameBut
<1> QED
  BY <1>11, <1>12, <1>13, <1>18, <1>19, <1>20 DEF Stored

----------------------------------------------------------------------------
(* transfer.                                                                 *)

moving(s, n, from, x, to, y, f) ==
  [i \in 0..n |->
     IF i = 0 THEN s
     ELSE storePointer(f[i - 1], to + i - 1, y, f[i - 1].obj[x].f[from + i - 1])]
moves(s, n, from, x, to, y) == CHOOSE f : f = moving(s, n, from, x, to, y, f)

LEMMA Moves ==
  ASSUME NEW s, NEW n \in Nat, NEW from, NEW x, NEW to, NEW y
  PROVE  moves(s, n, from, x, to, y) = moving(s, n, from, x, to, y, moves(s, n, from, x, to, y))
<1> DEFINE step(f, i) ==
             IF i = 0 THEN s
             ELSE storePointer(f[i - 1], to + i - 1, y, f[i - 1].obj[x].f[from + i - 1])
           E == {k \in Nat : \E f : f = [i \in 0..k |-> step(f, i)]}
<1>2. 0 \in E
  <2>1. [i \in 0..0 |-> s] = [i \in 0..0 |-> step([j \in 0..0 |-> s], i)]
    OBVIOUS
  <2> QED
    BY <2>1
<1>3. ASSUME NEW k \in 0..n - 1, k \in E PROVE k + 1 \in E
  <2>1. PICK f : f = [i \in 0..k |-> step(f, i)]
    BY <1>3
  <2> DEFINE g == [i \in 0..k + 1 |-> step(f, i)]
  <2>2. k \in Nat /\ k + 1 \in Nat
    OBVIOUS
  <2>3. \A i \in 0..k : g[i] = f[i]
    <3> HIDE DEF step
    <3> QED
      BY <2>1, <2>2
  <2>4. \A i \in 0..k + 1 : step(f, i) = step(g, i)
    <3> HIDE DEF g
    <3> QED
      BY <2>2, <2>3
  <2>5. g = [i \in 0..k + 1 |-> step(g, i)]
    <3>1. g = [i \in 0..k + 1 |-> g[i]]
      BY Zenon
    <3>2. \A i \in 0..k + 1 : g[i] = step(f, i)
      BY Zenon
    <3> HIDE DEF g, step
    <3> QED
      BY <2>4, <3>1, <3>2
  <2> HIDE DEF g, step
  <2> QED
    BY <2>2, <2>5
<1>4. n \in E
  <2> HIDE DEF E
  <2>1. 0..n \subseteq E
    BY <1>2, <1>3, InductionTo
  <2> QED
    BY <2>1
<1>5. PICK f : f = moving(s, n, from, x, to, y, f)
  BY <1>4, Zenon DEF moving
<1> QED
  BY <1>5, Zenon DEF moves

(* What transfer may be asked to do, and what it does.                       *)
MayMove(s, n, from, x, to, y, e, D) ==
  /\ from..from + n - 1 \subseteq Fields /\ to..to + n - 1 \subseteq Fields
  /\ x # y /\ e[x] >= 1 /\ s.obj[y].kind # "free"
  /\ \A d \in D : e[d[1]] >= 1
  /\ \A j \in to..to + n - 1 : <<y, j>> \notin D
  /\ \A j \in from..from + n - 1 : <<x, j>> \notin D
  /\ e[y] >= 1 \/ \A j \in to..to + n - 1 : s.obj[y].f[j] \notin Oops

Moved(s, t, n, from, x, to, y, e, D, Z) ==
  /\ Leads(s, t, e, D, Z, {y} \X (to..to + n - 1))
  /\ SameBut(s.obj[y], t.obj[y], y, {y} \X (to..to + n - 1))
  /\ SameBut(s.obj[x], t.obj[x], x, {})
  /\ \A i \in 0..n - 1 : t.obj[y].f[to + i] = s.obj[x].f[from + i]
  /\ (\A j \in to..to + n - 1 : s.obj[y].f[j] \notin Oops) =>
       Keeps(s.obj, t.obj, {y} \X (to..to + n - 1))

LEMMA MovesOneMore ==
  ASSUME NEW s \in Machines, NEW t, NEW n \in Nat, NEW k \in 0..n - 1, NEW from \in Int, NEW to \in Int,
         NEW x \in Oops, NEW y \in Oops, NEW e, NEW D, NEW Z,
         MayMove(s, n, from, x, to, y, e, D), Moved(s, t, k, from, x, to, y, e, D, Z)
  PROVE  Moved(s, storePointer(t, to + k, y, t.obj[x].f[from + k]), k + 1, from, x, to, y, e, D, Z)
<1> DEFINE v == t.obj[x].f[from + k]
           u == storePointer(t, to + k, y, v)
           V == {y} \X (to..to + k - 1)
           W == {y} \X (to..to + k)
<1>1. k \in Nat /\ from + k \in Fields /\ to + k \in Fields /\ <<y, to + k>> \notin V
  BY DEF MayMove
<1>2. Exact(t.obj, e, D) /\ Counted(t.obj, Z) /\ Changes(s.obj, t.obj, V) /\ t \in Machines
  BY WithIs DEF Moved, Leads, Exact
<1>3. v \in Values /\ v = s.obj[x].f[from + k]
  <2>1. t.obj[x] \in Objects
    BY <1>2 DEF Exact
  <2> QED
    BY <1>1, <2>1 DEF Objects, Moved, SameBut
<1>4. v \in Oops => t.obj[v].kind # "free"
  <2>1. <<x, from + k>> \notin D
    BY DEF MayMove
  <2> QED
    BY <1>1, <1>2, <2>1, HeldBySlot
<1>5. t.obj[y].kind # "free" /\ t.obj[y].f[to + k] = s.obj[y].f[to + k]
  BY <1>1 DEF Moved, SameBut, MayMove
<1>6. t.obj[y].f[to + k] \in Oops => e[y] >= 1
  BY <1>5 DEF MayMove
<1>7. <<y, to + k>> \notin D /\ \A d \in D : e[d[1]] >= 1
  BY DEF MayMove
<1>8. Stored(t, u, to + k, y, v, e, D, Z)
  <2> HIDE DEF v
  <2> QED
    BY <1>1, <1>2, <1>3, <1>4, <1>5, <1>6, <1>7, Store
<1> HIDE DEF u, v
<1>9. V \subseteq W /\ {<<y, to + k>>} \subseteq W /\ W = {y} \X (to..to + (k + 1) - 1)
  BY <1>1
<1>10. Leads(s, u, e, D, Z, W)
  <2>1. Counted(u.obj, Z)
    BY <1>8 DEF Stored, Leads, Counted
  <2>2. Leads(t, u, e, D, Z, {<<y, to + k>>})
    BY <1>8, <2>1 DEF Stored, Leads
  <2>3. Leads(s, t, e, D, Z, V)
    BY DEF Moved
  <2> HIDE DEF V, W
  <2> QED
    BY <1>9, <2>2, <2>3, LeadsTrans
<1>11. SameBut(s.obj[y], u.obj[y], y, W)
  <2>1. SameBut(s.obj[y], t.obj[y], y, V)
    BY DEF Moved
  <2>2. SameBut(t.obj[y], u.obj[y], y, {<<y, to + k>>})
    BY <1>8 DEF Stored
  <2> HIDE DEF V, W
  <2> QED
    BY <1>9, <2>1, <2>2 DEF SameBut
<1>12. SameBut(s.obj[x], u.obj[x], x, {})
  <2>1. Changes(t.obj, u.obj, {<<y, to + k>>}) /\ Exact(u.obj, e, D)
    BY <1>8 DEF Stored, Leads
  <2>2. SameBut(t.obj[x], u.obj[x], x, {<<y, to + k>>})
    BY <2>1, Survives DEF MayMove
  <2>3. SameBut(s.obj[x], t.obj[x], x, {}) /\ x # y
    BY DEF Moved, MayMove
  <2> QED
    BY <2>2, <2>3 DEF SameBut
<1>13. ASSUME NEW i \in 0..k PROVE u.obj[y].f[to + i] = s.obj[x].f[from + i]
  <2>1. CASE i = k
    BY <1>3, <1>8, <2>1 DEF Stored
  <2>2. CASE i # k
    <3>1. i \in 0..k - 1 /\ i \in 0..n - 1 /\ to + i # to + k /\ to + i \in Fields
      BY <1>1, <2>2 DEF MayMove
    <3>2. t.obj[y].f[to + i] = s.obj[x].f[from + i]
      BY <3>1 DEF Moved
    <3>3. u.obj[y].f[to + i] = t.obj[y].f[to + i]
      BY <1>8, <3>1 DEF Stored, SameBut
    <3> QED
      BY <3>2, <3>3
  <2> QED
    BY <2>1, <2>2
<1>14. ASSUME \A j \in to..to + k : s.obj[y].f[j] \notin Oops PROVE Keeps(s.obj, u.obj, W)
  <2>1. Keeps(s.obj, t.obj, V)
    BY <1>1, <1>14 DEF Moved
  <2>2. Keeps(t.obj, u.obj, {<<y, to + k>>})
    BY <1>1, <1>5, <1>8, <1>14 DEF Stored
  <2> HIDE DEF V, W
  <2> QED
    BY <1>9, <2>1, <2>2 DEF Keeps, SameBut
<1>15. to + (k + 1) - 1 = to + k /\ (k + 1) - 1 = k
  BY <1>1
<1> HIDE DEF W
<1> QED
  BY <1>9, <1>10, <1>11, <1>12, <1>13, <1>14, <1>15 DEF Moved, u, v

LEMMA Transfer ==
  ASSUME NEW s \in Machines, NEW n \in Nat, NEW from \in Int, NEW to \in Int,
         NEW x \in Oops, NEW y \in Oops, NEW e, NEW D, NEW Z,
         MayMove(s, n, from, x, to, y, e, D), Exact(s.obj, e, D), Counted(s.obj, Z)
  PROVE  Moved(s, transfer(s, n, from, x, to, y), n, from, x, to, y, e, D, Z)
<1> DEFINE f == moves(s, n, from, x, to, y)
           E == {k \in Nat : Moved(s, f[k], k, from, x, to, y, e, D, Z)}
<1>1. \A i \in 0..n :
        f[i] = IF i = 0 THEN s
               ELSE storePointer(f[i - 1], to + i - 1, y, f[i - 1].obj[x].f[from + i - 1])
  <2>1. f = moving(s, n, from, x, to, y, f)
    BY Moves
  <2> HIDE DEF f
  <2> QED
    BY <2>1 DEF moving
<1>2. transfer(s, n, from, x, to, y) = f[n]
  BY Zenon DEF transfer, moves, moving
<1> HIDE DEF f
<1>3. 0 \in E
  <2>1. f[0] = s
    BY <1>1
  <2>2. s = With(s, s.obj)
    BY WithIs DEF Machines
  <2>3. \A o \in Oops : \A W : SameBut(s.obj[o], s.obj[o], o, W)
    BY DEF SameBut
  <2>4. Leads(s, s, e, D, Z, {y} \X (to..to + 0 - 1))
    BY <2>2, ChangesRefl DEF Leads
  <2> QED
    BY <2>1, <2>3, <2>4 DEF Moved, Keeps
<1>4. ASSUME NEW k \in 0..n - 1, k \in E PROVE k + 1 \in E
  <2>1. f[k + 1] = storePointer(f[k], to + k, y, f[k].obj[x].f[from + k])
    <3>1. k + 1 \in 0..n /\ k + 1 # 0 /\ (k + 1) - 1 = k /\ to + (k + 1) - 1 = to + k
          /\ from + (k + 1) - 1 = from + k
      OBVIOUS
    <3> QED
      BY <1>1, <3>1
  <2>2. Moved(s, f[k + 1], k + 1, from, x, to, y, e, D, Z)
    BY <1>4, <2>1, MovesOneMore
  <2> QED
    BY <2>2
<1>5. n \in E
  <2> HIDE DEF E
  <2>1. 0..n \subseteq E
    BY <1>3, <1>4, InductionTo
  <2> QED
    BY <2>1
<1> QED
  BY <1>2, <1>5

----------------------------------------------------------------------------
(* Senders and homes.                                                        *)

Contextual == {"method", "block"}

(* The sender of a context is another context; contexts of methods are       *)
(* younger than their senders and blocks younger than their homes: rank says *)
(* who is older.                                                             *)
SenderOK(m, rank, o, v) ==
  v # NilPointer =>
    v \in Oops \ {o} /\ m[v].kind \in Contextual /\ (m[o].kind = "method" => rank[v] > rank[o])
HomeOK(m, rank, o, v) == v \in Oops /\ m[v].kind = "method" /\ rank[v] > rank[o]

(* The objects of Y apart.                                                   *)
Linked(m, rank, Y) ==
  /\ rank \in [Oops -> Nat]
  /\ \A o \in Oops \ Y :
       /\ m[o].kind \in Contextual => SenderOK(m, rank, o, m[o].f[SenderIndex])
       /\ m[o].kind = "block" => HomeOK(m, rank, o, m[o].f[ReceiverIndex])

(* Links that did not change lead where they led.                            *)
LEMMA LinksKeptBut ==
  ASSUME NEW m, NEW n, NEW e, NEW D, NEW W, NEW rank, NEW Y,
         Linked(m, rank, Y), Exact(n, e, D), Changes(m, n, W),
         \A o \in Oops \ Y : <<o, SenderIndex>> \notin W /\ <<o, ReceiverIndex>> \notin W,
         \A o \in Oops \ Y : <<o, SenderIndex>> \notin D /\ <<o, ReceiverIndex>> \notin D
  PROVE  Linked(n, rank, Y)
<1> SUFFICES ASSUME NEW o \in Oops \ Y, n[o].kind \in Contextual
             PROVE  /\ SenderOK(n, rank, o, n[o].f[SenderIndex])
                    /\ n[o].kind = "block" => HomeOK(n, rank, o, n[o].f[ReceiverIndex])
  BY DEF Linked, Contextual
<1>1. n[o] # Nothing
  BY NothingIs DEF Contextual
<1>2. SameBut(m[o], n[o], o, W)
  BY <1>1 DEF Changes
<1>3. /\ m[o].kind = n[o].kind
      /\ n[o].f[SenderIndex] = m[o].f[SenderIndex] /\ n[o].f[ReceiverIndex] = m[o].f[ReceiverIndex]
  BY <1>2, FieldsAre DEF SameBut
<1>4. ASSUME NEW i \in {SenderIndex, ReceiverIndex}, n[o].f[i] \in Oops PROVE n[n[o].f[i]].kind = m[n[o].f[i]].kind
  <2>1. n[n[o].f[i]].kind # "free"
    <3>1. i \in Fields /\ <<o, i>> \notin D
      BY FieldsAre
    <3> QED
      BY <1>4, <3>1, HeldBySlot
  <2>2. n[n[o].f[i]] # Nothing
    BY <2>1, NothingIs
  <2> QED
    BY <1>4, <2>2 DEF Changes, SameBut
<1>5. SenderOK(m, rank, o, m[o].f[SenderIndex]) /\ (m[o].kind = "block" => HomeOK(m, rank, o, m[o].f[ReceiverIndex]))
  BY <1>3 DEF Linked
<1>6. SenderOK(n, rank, o, n[o].f[SenderIndex])
  BY <1>3, <1>4, <1>5, FieldsAre DEF SenderOK
<1>7. n[o].kind = "block" => HomeOK(n, rank, o, n[o].f[ReceiverIndex])
  BY <1>3, <1>4, <1>5, FieldsAre DEF HomeOK
<1> QED
  BY <1>6, <1>7

LEMMA LinksKept ==
  ASSUME NEW m, NEW n, NEW e, NEW W, NEW rank, NEW Y,
         Linked(m, rank, Y), Exact(n, e, {}), Changes(m, n, W),
         \A o \in Oops \ Y : <<o, SenderIndex>> \notin W /\ <<o, ReceiverIndex>> \notin W
  PROVE  Linked(n, rank, Y)
<1>1. PICK D : D = {}
  OBVIOUS
<1>2. Exact(n, e, D) /\ \A o \in Oops \ Y : <<o, SenderIndex>> \notin D /\ <<o, ReceiverIndex>> \notin D
  BY <1>1
<1> QED
  BY <1>2, LinksKeptBut

(* Other changes than of links do not matter.                                *)
LEMMA LinksRest ==
  ASSUME NEW m, NEW n, NEW rank, NEW Y, Linked(m, rank, Y),
         \A o \in Oops : /\ m[o].kind \in Contextual => n[o].kind = m[o].kind
                         /\ o \notin Y => n[o].kind = m[o].kind /\ \A i \in Fields : n[o].f[i] = m[o].f[i]
  PROVE  Linked(n, rank, Y)
BY FieldsAre DEF Linked, SenderOK, HomeOK, Contextual

(* What is done to o is no matter of counts.                                 *)
Marks(m, n, o) ==
  /\ n \in [Oops -> Objects]
  /\ \A x \in Oops : x # o => n[x] = m[x]
  /\ n[o].f = m[o].f /\ n[o].count = m[o].count /\ n[o].kind # "free"

LEMMA MarksExact ==
  ASSUME NEW m, NEW n, NEW e, NEW D, NEW o \in Oops, Exact(m, e, D), Marks(m, n, o)
  PROVE  Exact(n, e, D)
<1>1. \A x \in Oops : n[x].f = m[x].f /\ n[x].count = m[x].count
  BY DEF Marks
<1>2. \A x \in Oops : Refs(n, D, x) = Refs(m, D, x)
  BY <1>1 DEF Refs
<1>3. \A x \in Oops : n[x].kind = "free" => n[x] = Nothing
  BY DEF Marks, Exact
<1> QED
  BY <1>1, <1>2, <1>3 DEF Exact, Marks

LEMMA MarksCounted ==
  ASSUME NEW m, NEW n, NEW Z, NEW o \in Oops, Counted(m, Z), Marks(m, n, o)
  PROVE  Counted(n, Z \cup {o}) /\ (m[o].kind # "free" => Counted(n, Z))
BY DEF Counted, Marks

----------------------------------------------------------------------------
(* Another context becomes active.                                           *)

LEMMA PlusMinusCommute ==
  ASSUME NEW e \in [Oops -> Nat], NEW a, NEW b
  PROVE  /\ Plus(Plus(e, a), b) = Plus(Plus(e, b), a)
         /\ Minus(Plus(e, a), b) = Plus(Minus(e, b), a)
BY DEF Plus, Minus

(* A count that stays above zero is only a number.                           *)
LEMMA CountDownKeeps ==
  ASSUME NEW s \in Machines, NEW e, NEW D, NEW Z, NEW v \in Oops,
         Exact(s.obj, e, D), Counted(s.obj, Z), e[v] >= 1, s.obj[v].count # 1
  PROVE  /\ Leads(s, countDown(s, v), Minus(e, v), D, Z, {})
         /\ Keeps(s.obj, countDown(s, v).obj, {})
<1> DEFINE n == [s.obj EXCEPT ![v].count = @ - 1]
<1>1. countDown(s, v) = With(s, n)
  BY DEF countDown, With
<1>2. /\ Exact(n, Minus(e, v), D)
      /\ Changes(s.obj, n, {})
      /\ n[v].count = s.obj[v].count - 1 /\ n[v].kind # "free" /\ s.obj[v].count >= 1
      /\ \A o \in Oops : o # v => n[o] = s.obj[o]
  BY OneLess
<1>3. s.obj[v].count \in Nat
  BY DEF Exact, Objects
<1> HIDE DEF n
<1>4. With(s, n).obj = n
  BY WithIs
<1>5. n[v].count # 0
  BY <1>2, <1>3
<1>6. Counted(n, Z)
  BY <1>2, <1>5 DEF Counted
<1>7. Keeps(s.obj, n, {})
  <2>1. n[v] # Nothing
    BY <1>2, NothingIs
  <2>2. SameBut(s.obj[v], n[v], v, {})
    BY <1>2, <2>1 DEF Changes
  <2> QED
    BY <1>2, <2>2 DEF Keeps, SameBut
<1> QED
  BY <1>1, <1>2, <1>4, <1>6, <1>7 DEF Leads

Entered(s, t, o, e, D, Z) ==
  /\ t = [obj |-> t.obj, full |-> s.full, variable |-> s.variable, activeContext |-> o,
          stackPointer |-> s.obj[o].sp]
  /\ t \in Machines
  /\ Exact(t.obj, Plus(Minus(e, s.activeContext), o), D)
  /\ Counted(t.obj, Z \ {o})
  /\ \A x \in Oops \ {s.activeContext} : SameBut(s.obj[x], t.obj[x], x, {})
  /\ \A x \in Oops : t.obj[x].kind = s.obj[x].kind /\ \A i \in Fields : t.obj[x].f[i] = s.obj[x].f[i]
  /\ t.obj[s.activeContext].ip = TRUE /\ t.obj[s.activeContext].sp = s.stackPointer

LEMMA Enter ==
  ASSUME NEW s \in Machines, NEW e, NEW D, NEW Z, NEW o \in Oops,
         Exact(s.obj, e, D), Counted(s.obj, Z), e[s.activeContext] >= 1,
         s.obj[s.activeContext].count >= 2, o # s.activeContext, s.obj[o].kind # "free"
  PROVE  Entered(s, newActiveContext(s, o), o, e, D, Z)
<1> DEFINE a == s.activeContext
           m == [s.obj EXCEPT ![a].ip = TRUE, ![a].sp = s.stackPointer]
           stored == storeContextRegisters(s)
           down == countDown(stored, a)
           act == [down EXCEPT !.activeContext = o]
           up == countUp(act, o)
           t == newActiveContext(s, o)
<1>1. a \in Oops /\ s.stackPointer \in 0..StackSize /\ s.obj[a] \in Objects /\ s.obj \in [Oops -> Objects]
  BY DEF Machines, Exact
<1>2. s.obj[a].kind # "free"
  BY Referenced, <1>1
<1>3. stored = With(s, m)
  <2>1. s = [obj |-> s.obj, full |-> s.full, variable |-> s.variable,
             activeContext |-> s.activeContext, stackPointer |-> s.stackPointer]
    BY DEF Machines
  <2> QED
    BY <2>1 DEF storeContextRegisters, With
<1>4. /\ m[a] = [s.obj[a] EXCEPT !.ip = TRUE, !.sp = s.stackPointer]
      /\ \A x \in Oops : x # a => m[x] = s.obj[x]
      /\ m = [x \in Oops |-> m[x]]
  BY <1>1
<1> HIDE DEF m
<1>5. /\ m[a] \in Objects /\ m[a].f = s.obj[a].f /\ m[a].count = s.obj[a].count /\ m[a].kind = s.obj[a].kind
      /\ m[a].ip = TRUE /\ m[a].sp = s.stackPointer
      /\ m[a].temporaryCount = s.obj[a].temporaryCount
      /\ m[a].blockArgumentCount = s.obj[a].blockArgumentCount
  BY <1>1, <1>4 DEF Objects
<1>6. Marks(s.obj, m, a)
  <2>1. m \in [Oops -> Objects]
    BY <1>1, <1>4, <1>5
  <2> QED
    BY <1>2, <1>4, <1>5, <2>1 DEF Marks
<1>7. Exact(m, e, D) /\ Counted(m, Z)
  <2> HIDE DEF a
  <2>1. a \in Oops
    BY <1>1
  <2>2. Exact(m, e, D) /\ (s.obj[a].kind # "free" => Counted(m, Z))
    BY <1>6, <2>1, MarksExact, MarksCounted
  <2> QED
    BY <1>2, <2>2
<1>8. With(s, m).obj = m /\ With(s, m) \in Machines /\ With(s, m).activeContext = a
      /\ With(s, m).full = s.full /\ With(s, m).variable = s.variable
  BY <1>6, WithIs DEF Marks
<1>9. Leads(stored, down, Minus(e, a), D, Z, {}) /\ Keeps(m, down.obj, {})
  <2>1. m[a].count # 1 /\ e[a] >= 1
    BY <1>1, <1>5
  <2> HIDE DEF stored, a
  <2> QED
    BY <1>1, <1>3, <1>7, <1>8, <2>1, CountDownKeeps
<1>10. down \in Machines /\ down = [obj |-> down.obj, full |-> s.full, variable |-> s.variable,
                                    activeContext |-> a, stackPointer |-> down.stackPointer]
  <2> HIDE DEF down, stored
  <2>1. down = With(stored, down.obj) /\ down.obj \in [Oops -> Objects]
    BY <1>9 DEF Leads, Exact
  <2> QED
    BY <2>1, <1>3, <1>8, WithIs
<1>11. act \in Machines /\ act.obj = down.obj /\ act.activeContext = o
       /\ act.full = s.full /\ act.variable = s.variable
  <2> HIDE DEF down
  <2> QED
    BY <1>10 DEF Machines
<1>12. Leads(act, up, Plus(Minus(e, a), o), D, Z \ {o}, {}) /\ Keeps(act.obj, up.obj, {})
  <2>1. Exact(act.obj, Minus(e, a), D) /\ Counted(act.obj, Z)
    BY <1>9, <1>11 DEF Leads
  <2>2. act.obj[o].kind # "free"
    BY <1>4, <1>5, <1>9, <1>11 DEF Keeps, SameBut
  <2> HIDE DEF act, a
  <2> QED
    BY <1>11, <2>1, <2>2, CountUp
<1>13. up \in Machines /\ up = [obj |-> up.obj, full |-> s.full, variable |-> s.variable,
                                    activeContext |-> o, stackPointer |-> up.stackPointer]
  <2> HIDE DEF up, act
  <2>1. up = With(act, up.obj) /\ up.obj \in [Oops -> Objects]
    BY <1>12 DEF Leads, Exact
  <2> QED
    BY <2>1, <1>11, WithIs
<1>14. t = [up EXCEPT !.stackPointer = up.obj[o].sp]
  <2>1. t = fetchContextRegisters(up)
    BY Zenon DEF newActiveContext
  <2> HIDE DEF up, t
  <2> QED
    BY <1>13, <2>1 DEF fetchContextRegisters
<1>15. Exact(up.obj, Plus(Minus(e, a), o), D) /\ Counted(up.obj, Z \ {o})
  BY <1>12 DEF Leads
<1>16. Keeps(m, up.obj, {})
  BY <1>9, <1>11, <1>12 DEF Keeps, SameBut
<1> HIDE DEF up, t
<1>17. up.obj[o].sp = s.obj[o].sp /\ s.obj[o].sp \in 0..StackSize
  BY <1>1, <1>4, <1>16 DEF Keeps, SameBut, Objects
<1>18. t.obj = up.obj /\ t \in Machines
       /\ t = [obj |-> t.obj, full |-> s.full, variable |-> s.variable, activeContext |-> o,
               stackPointer |-> s.obj[o].sp]
  BY <1>13, <1>14, <1>17 DEF Machines
<1>19. \A x \in Oops \ {a} : SameBut(s.obj[x], t.obj[x], x, {})
  BY <1>4, <1>16, <1>18 DEF Keeps, SameBut
<1>20. \A x \in Oops : t.obj[x].kind = s.obj[x].kind /\ \A i \in Fields : t.obj[x].f[i] = s.obj[x].f[i]
  <2>1. t.obj[a].kind = s.obj[a].kind /\ \A i \in Fields : t.obj[a].f[i] = s.obj[a].f[i]
    BY <1>1, <1>5, <1>16, <1>18 DEF Keeps, SameBut
  <2> HIDE DEF a
  <2> QED
    BY <2>1, <1>19 DEF SameBut
<1>21. t.obj[a].ip = TRUE /\ t.obj[a].sp = s.stackPointer
  BY <1>1, <1>5, <1>16, <1>18 DEF Keeps, SameBut
<1> QED
  BY <1>15, <1>18, <1>19, <1>20, <1>21 DEF Entered, t

----------------------------------------------------------------------------
(* Machines between two steps.                                               *)

(* The references of the registers and of the variable of Self.              *)
Held(s) == Plus(Plus([o \in Oops |-> 0], s.variable), s.activeContext)

(* Contexts that wait have a place on their stack for a result.              *)
Resting(m, a) ==
  \A o \in Oops \ {a} : m[o].kind \in Contextual /\ m[o].ip = TRUE => m[o].sp < StackSize
Running(m, a) == m[a].kind \in Contextual /\ m[a].ip = TRUE

Good(s) ==
  /\ s \in Machines
  /\ Exact(s.obj, Held(s), {})
  /\ Counted(s.obj, {})
  /\ \E rank : Linked(s.obj, rank, {})
  /\ Resting(s.obj, s.activeContext)
  /\ Running(s.obj, s.activeContext)

LEMMA HeldIs ==
  ASSUME NEW s \in Machines
  PROVE  /\ Held(s) \in [Oops -> Nat]
         /\ Held(s)[s.activeContext] >= 1
         /\ s.variable \in Oops => Held(s)[s.variable] >= 1
<1> DEFINE z == [o \in Oops |-> 0]
           y == Plus(z, s.variable)
<1>1. z \in [Oops -> Nat] /\ s.activeContext \in Oops
  BY DEF Machines
<1> HIDE DEF z
<1>2. y \in [Oops -> Nat] /\ (s.variable \in Oops => y[s.variable] >= 1)
  BY <1>1, PlusMinus
<1> HIDE DEF y
<1>3. /\ Plus(y, s.activeContext) \in [Oops -> Nat]
      /\ \A o \in Oops : Plus(y, s.activeContext)[o] >= y[o]
      /\ Plus(y, s.activeContext)[s.activeContext] >= 1
  BY <1>1, <1>2, PlusMinus
<1>4. Held(s) = Plus(y, s.activeContext)
  BY DEF Held, y, z
<1>5. s.variable \in Oops => Plus(y, s.activeContext)[s.variable] >= 1
  <2>1. ASSUME s.variable \in Oops
        PROVE  Plus(y, s.activeContext)[s.variable] \in Nat /\ y[s.variable] \in Nat
    BY <1>2, <1>3, <2>1
  <2> QED
    BY <1>2, <1>3, <2>1
<1> QED
  BY <1>3, <1>4, <1>5

LEMMA MachineIs ==
  ASSUME NEW s \in Machines
  PROVE  /\ s = [obj |-> s.obj, full |-> s.full, variable |-> s.variable,
                 activeContext |-> s.activeContext, stackPointer |-> s.stackPointer]
         /\ s.obj \in [Oops -> Objects] /\ s.full \in BOOLEAN /\ s.variable \in Values
         /\ s.activeContext \in Oops /\ s.stackPointer \in 0..StackSize
         /\ s.stackPointer \in Nat /\ s.stackPointer <= StackSize
BY FieldsAre DEF Machines

(* Values in use: they may be stored.                                        *)
Usable(s, v) == v \in Values /\ (v \in Oops => s.obj[v].kind # "free")

LEMMA FieldUsable ==
  ASSUME NEW s \in Machines, NEW e, Exact(s.obj, e, {}), NEW x \in Oops, NEW i \in Fields
  PROVE  Usable(s, s.obj[x].f[i])
<1>1. s.obj[x] \in Objects
  BY DEF Exact
<1>2. s.obj[x].f[i] \in Values
  BY <1>1 DEF Objects
<1> QED
  BY <1>2, HeldByField DEF Usable

LEMMA HeldUsable ==
  ASSUME NEW s \in Machines, Exact(s.obj, Held(s), {})
  PROVE  Usable(s, s.variable) /\ Usable(s, s.activeContext)
BY HeldIs, MachineIs, Referenced DEF Usable, Values

LEMMA StoreField ==
  ASSUME NEW s \in Machines, NEW e, NEW Z, NEW i \in Fields, NEW o \in Oops, NEW v,
         Exact(s.obj, e, {}), Counted(s.obj, Z), Usable(s, v),
         s.obj[o].kind # "free", s.obj[o].f[i] \in Oops => e[o] >= 1
  PROVE  Stored(s, storePointer(s, i, o, v), i, o, v, e, {}, Z)
<1>1. PICK D : D = {}
  OBVIOUS
<1>2. <<o, i>> \notin D /\ Exact(s.obj, e, D) /\ \A d \in D : e[d[1]] >= 1
  BY <1>1
<1>3. v \in Values /\ (v \in Oops => s.obj[v].kind # "free")
  BY DEF Usable
<1>4. Stored(s, storePointer(s, i, o, v), i, o, v, e, D, Z)
  BY <1>2, <1>3, Store
<1> QED
  BY <1>1, <1>4

(* As long as the same context runs and links do not change.                 *)
LEMMA StaysGood ==
  ASSUME NEW s, Good(s), NEW t \in Machines, NEW W,
         t.activeContext = s.activeContext, Exact(t.obj, Held(t), {}), Counted(t.obj, {}),
         Changes(s.obj, t.obj, W),
         \A o \in Oops : <<o, SenderIndex>> \notin W /\ <<o, ReceiverIndex>> \notin W
  PROVE  Good(t)
<1>1. PICK rank : Linked(s.obj, rank, {})
  BY DEF Good
<1>2. Linked(t.obj, rank, {})
  BY <1>1, LinksKept
<1>3. Resting(t.obj, t.activeContext)
  BY NothingIs DEF Good, Resting, Changes, SameBut, Contextual
<1>4. Running(t.obj, t.activeContext)
  <2>1. t.activeContext \in Oops /\ Held(t)[t.activeContext] >= 1
    BY HeldIs, MachineIs
  <2>2. SameBut(s.obj[t.activeContext], t.obj[t.activeContext], t.activeContext, W)
    BY <2>1, Survives
  <2> QED
    BY <2>2 DEF Good, Running, SameBut
<1> QED
  BY <1>2, <1>3, <1>4 DEF Good

Pushed(s, t, v) ==
  /\ Good(t)
  /\ t = [obj |-> t.obj, full |-> s.full, variable |-> s.variable,
          activeContext |-> s.activeContext, stackPointer |-> s.stackPointer + 1]
  /\ Changes(s.obj, t.obj, {<<s.activeContext, s.stackPointer + 1>>})
  /\ SameBut(s.obj[s.activeContext], t.obj[s.activeContext], s.activeContext,
             {<<s.activeContext, s.stackPointer + 1>>})
  /\ t.obj[s.activeContext].f[s.stackPointer + 1] = v

LEMMA Push ==
  ASSUME NEW s, Good(s), NEW v, Usable(s, v), s.stackPointer < StackSize
  PROVE  Pushed(s, push(s, v), v)
<1> DEFINE a == s.activeContext
           i == s.stackPointer + 1
           u == storePointer(s, i, a, v)
           t == push(s, v)
<1>1. s \in Machines /\ a \in Oops /\ i \in Fields /\ i >= 1 /\ i \in 0..StackSize
  BY MachineIs, FieldsAre DEF Good
<1>2. Exact(s.obj, Held(s), {}) /\ Counted(s.obj, {}) /\ Held(s)[a] >= 1 /\ s.obj[a].kind # "free"
  BY <1>1, HeldIs, HeldUsable DEF Good, Usable
<1>3. Stored(s, u, i, a, v, Held(s), {}, {})
  <2> HIDE DEF i, a
  <2> QED
    BY <1>1, <1>2, StoreField
<1>4. t = [u EXCEPT !.stackPointer = u.stackPointer + 1]
  BY DEF push
<1> HIDE DEF u, t
<1>5. /\ u = With(s, u.obj) /\ Exact(u.obj, Held(s), {}) /\ Counted(u.obj, {} \ {v})
      /\ Changes(s.obj, u.obj, {<<a, i>>}) /\ SameBut(s.obj[a], u.obj[a], a, {<<a, i>>})
      /\ u.obj[a].f[i] = v
  BY <1>3 DEF Stored, Leads
<1>6. u.obj \in [Oops -> Objects] /\ Counted(u.obj, {})
  BY <1>5 DEF Exact, Counted
<1>7. u = [obj |-> u.obj, full |-> s.full, variable |-> s.variable,
           activeContext |-> s.activeContext, stackPointer |-> s.stackPointer]
  BY <1>1, <1>5, WithIs
<1>8. /\ t = [obj |-> u.obj, full |-> s.full, variable |-> s.variable,
              activeContext |-> s.activeContext, stackPointer |-> s.stackPointer + 1]
      /\ t.obj = u.obj /\ t.variable = s.variable /\ t.activeContext = a
  BY <1>4, <1>7
<1>9. t \in Machines /\ Held(t) = Held(s)
  BY <1>1, <1>6, <1>8, MachineIs DEF Machines, Held
<1>10. Good(t)
  <2>1. \A o \in Oops : <<o, SenderIndex>> \notin {<<a, i>>} /\ <<o, ReceiverIndex>> \notin {<<a, i>>}
    BY <1>1, FieldsAre
  <2>2. PICK W : W = {<<a, i>>}
    OBVIOUS
  <2> HIDE DEF a, i
  <2>3. /\ Changes(s.obj, t.obj, W) /\ Exact(t.obj, Held(t), {}) /\ Counted(t.obj, {})
        /\ \A o \in Oops : <<o, SenderIndex>> \notin W /\ <<o, ReceiverIndex>> \notin W
        /\ t.activeContext = s.activeContext
    BY <1>5, <1>6, <1>8, <1>9, <2>1, <2>2 DEF a
  <2> QED
    BY <1>9, <2>3, StaysGood
<1> QED
  BY <1>5, <1>8, <1>10 DEF Pushed, t

LEMMA Pop ==
  ASSUME NEW s, Good(s), NEW n \in Nat, n <= s.stackPointer
  PROVE  /\ Good(pop(s, n))
         /\ pop(s, n) = [obj |-> s.obj, full |-> s.full, variable |-> s.variable,
                         activeContext |-> s.activeContext, stackPointer |-> s.stackPointer - n]
<1> DEFINE t == pop(s, n)
<1>1. s \in Machines
  BY DEF Good
<1>2. /\ t = [obj |-> s.obj, full |-> s.full, variable |-> s.variable,
              activeContext |-> s.activeContext, stackPointer |-> s.stackPointer - n]
      /\ t.obj = s.obj /\ t.variable = s.variable /\ t.activeContext = s.activeContext
  BY <1>1, MachineIs DEF pop
<1>3. s.stackPointer - n \in 0..StackSize
  BY <1>1, MachineIs, FieldsAre
<1> HIDE DEF t
<1>4. t \in Machines /\ Held(t) = Held(s)
  BY <1>1, <1>2, <1>3 DEF Machines, Held
<1>5. Good(t)
  BY <1>2, <1>4 DEF Good
<1> QED
  BY <1>2, <1>5 DEF t

----------------------------------------------------------------------------
(* What runs out of object pointers says so to the end.                      *)

IsMachine(s) ==
  s = [obj |-> s.obj, full |-> s.full, variable |-> s.variable, activeContext |-> s.activeContext,
       stackPointer |-> s.stackPointer]
SameFull(s, t) == IsMachine(s) => IsMachine(t) /\ t.full = s.full

LEMMA SameFullWith ==
  ASSUME NEW s, NEW m
  PROVE  SameFull(s, With(s, m))
BY DEF SameFull, IsMachine, With

LEMMA SameFullTrans ==
  ASSUME NEW s, NEW t, NEW u, SameFull(s, t), SameFull(t, u)
  PROVE  SameFull(s, u)
BY DEF SameFull

LEMMA SameFullCountUp ==
  ASSUME NEW s, NEW v
  PROVE  SameFull(s, countUp(s, v))
BY DEF SameFull, IsMachine, countUp

LEMMA SameFullCountDown ==
  ASSUME NEW s, NEW v
  PROVE  SameFull(s, countDown(s, v))
<1> DEFINE first == [s.obj EXCEPT ![v].count = @ - 1]
<1>1. \E m : countDown(s, v) = s \/ countDown(s, v) = [s EXCEPT !.obj = m]
  BY Zenon DEF countDown
<1> QED
  BY <1>1 DEF SameFull, IsMachine

LEMMA SameFullStore ==
  ASSUME NEW s, NEW i, NEW o, NEW v
  PROVE  SameFull(s, storePointer(s, i, o, v))
<1> DEFINE up == countUp(s, v)
           down == countDown(up, s.obj[o].f[i])
<1>1. SameFull(s, up) /\ SameFull(up, down)
  BY SameFullCountUp, SameFullCountDown
<1>2. storePointer(s, i, o, v) = [down EXCEPT !.obj[o].f[i] = v]
  BY DEF storePointer
<1> HIDE DEF up, down
<1>3. SameFull(down, [down EXCEPT !.obj[o].f[i] = v])
  BY DEF SameFull, IsMachine
<1> QED
  BY <1>1, <1>2, <1>3 DEF SameFull

LEMMA SameFullTransfer ==
  ASSUME NEW s, NEW n \in Nat, NEW from, NEW x, NEW to, NEW y
  PROVE  SameFull(s, transfer(s, n, from, x, to, y))
<1> DEFINE f == moves(s, n, from, x, to, y)
           E == {k \in Nat : SameFull(s, f[k])}
<1>1. \A i \in 0..n :
        f[i] = IF i = 0 THEN s
               ELSE storePointer(f[i - 1], to + i - 1, y, f[i - 1].obj[x].f[from + i - 1])
  <2>1. f = moving(s, n, from, x, to, y, f)
    BY Moves
  <2> HIDE DEF f
  <2> QED
    BY <2>1 DEF moving
<1>2. transfer(s, n, from, x, to, y) = f[n]
  BY Zenon DEF transfer, moves, moving
<1> HIDE DEF f
<1>3. 0 \in E
  BY <1>1 DEF SameFull
<1>4. ASSUME NEW k \in 0..n - 1, k \in E PROVE k + 1 \in E
  <2>1. PICK i, v : f[k + 1] = storePointer(f[k], i, y, v)
    <3>1. k + 1 \in 0..n /\ k + 1 # 0 /\ (k + 1) - 1 = k
      OBVIOUS
    <3> QED
      BY <1>1, <3>1
  <2>2. SameFull(s, f[k + 1])
    BY <1>4, <2>1, SameFullStore, SameFullTrans
  <2> QED
    BY <2>2
<1>5. n \in E
  <2> HIDE DEF E
  <2>1. 0..n \subseteq E
    BY <1>3, <1>4, InductionTo
  <2> QED
    BY <2>1
<1> QED
  BY <1>2, <1>5

LEMMA SameFullPush ==
  ASSUME NEW s, NEW v
  PROVE  SameFull(s, push(s, v))
<1> DEFINE u == storePointer(s, s.stackPointer + 1, s.activeContext, v)
<1>1. SameFull(s, u)
  BY SameFullStore
<1>2. push(s, v) = [u EXCEPT !.stackPointer = @ + 1]
  BY DEF push
<1> HIDE DEF u
<1> QED
  BY <1>1, <1>2 DEF SameFull, IsMachine

LEMMA SameFullPop ==
  ASSUME NEW s, NEW n
  PROVE  SameFull(s, pop(s, n))
BY DEF SameFull, IsMachine, pop

LEMMA SameFullEnter ==
  ASSUME NEW s, NEW o
  PROVE  SameFull(s, newActiveContext(s, o))
<1> DEFINE stored == storeContextRegisters(s)
           down == countDown(stored, s.activeContext)
           act == [down EXCEPT !.activeContext = o]
           up == countUp(act, o)
<1>1. SameFull(s, stored)
  <2>1. PICK m : m = [s.obj EXCEPT ![s.activeContext].ip = TRUE, ![s.activeContext].sp = s.stackPointer]
    OBVIOUS
  <2>2. IsMachine(s) => stored = With(s, m)
    BY <2>1 DEF storeContextRegisters, IsMachine, With
  <2> QED
    BY <2>2, SameFullWith DEF SameFull
<1>2. SameFull(stored, down)
  BY SameFullCountDown
<1>3. SameFull(down, act)
  <2> HIDE DEF down
  <2> QED
    BY DEF SameFull, IsMachine
<1>4. SameFull(act, up)
  BY SameFullCountUp
<1>5. newActiveContext(s, o) = fetchContextRegisters(up)
  BY Zenon DEF newActiveContext
<1> HIDE DEF up
<1>6. SameFull(up, fetchContextRegisters(up))
  BY DEF SameFull, IsMachine, fetchContextRegisters
<1> HIDE DEF stored, down, act
<1> QED
  BY <1>1, <1>2, <1>3, <1>4, <1>5, <1>6, SameFullTrans

LEMMA Instantiated ==
  ASSUME NEW s, NEW kind, IsMachine(s)
  PROVE  LET t == instantiate(s, kind)
         IN  IsMachine(t) /\ (~t.full => ~s.full /\ Free(s) # {})
<1> DEFINE t == instantiate(s, kind)
           F == (s.full \/ Free(s) = {})
           m == [s.obj EXCEPT ![Fresh(s)].kind = kind]
<1>1. t = [s EXCEPT !.obj[Fresh(s)].kind = kind, !.full = F]
  BY Zenon DEF instantiate
<1>2. PICK b : b = F
  OBVIOUS
<1>3. t = [obj |-> m, full |-> b, variable |-> s.variable, activeContext |-> s.activeContext,
           stackPointer |-> s.stackPointer]
  <2> HIDE DEF F
  <2> QED
    BY <1>1, <1>2 DEF IsMachine
<1>4. IsMachine(t) /\ t.full = b
  <2> HIDE DEF t, m
  <2> QED
    BY <1>3 DEF IsMachine
<1>5. ~t.full => ~F
  BY <1>2, <1>4, Zenon
<1> QED
  BY <1>4, <1>5, Zenon

----------------------------------------------------------------------------
(* New objects.                                                              *)

LEMMA MinIs ==
  ASSUME NEW S \in SUBSET Nat, S # {}
  PROVE  Min(S) \in S /\ \A x \in S : Min(S) <= x
<1>1. \E n \in S : \A m \in S : n <= m
  BY HasLeast
<1> QED
  BY <1>1, Zenon DEF Min

LEMMA FreshIs ==
  ASSUME NEW s, Free(s) # {}
  PROVE  Fresh(s) \in Oops /\ s.obj[Fresh(s)].kind = "free"
<1> DEFINE F == Free(s)
<1>1. F \in SUBSET Nat
  BY ContextsConstantsOK DEF Free
<1>2. Fresh(s) = Min(F)
  BY DEF Fresh
<1> HIDE DEF F
<1>3. Fresh(s) \in F
  BY <1>1, <1>2, MinIs DEF F
<1> QED
  BY <1>3 DEF F, Free

Made(s, t, o, kind) ==
  /\ o \in Oops /\ s.obj[o] = Nothing
  /\ t = With(s, t.obj) /\ t \in Machines
  /\ Marks(s.obj, t.obj, o)
  /\ t.obj[o].kind = kind /\ t.obj[o].sp = 0

LEMMA Make ==
  ASSUME NEW s \in Machines, NEW e, NEW D, NEW kind \in Kinds, Exact(s.obj, e, D), Free(s) # {}
  PROVE  Made(s, instantiate(s, kind), Fresh(s), kind)
<1> DEFINE o == Fresh(s)
           t == instantiate(s, kind)
           F == (s.full \/ Free(s) = {})
           m == [s.obj EXCEPT ![o].kind = kind]
<1>1. o \in Oops /\ s.obj[o] = Nothing
  BY FreshIs DEF Exact
<1>2. t = [s EXCEPT !.obj[o].kind = kind, !.full = F]
  BY Zenon DEF instantiate
<1>3. F = s.full
  <2>1. s.full = TRUE \/ s.full = FALSE
    BY MachineIs
  <2>2. CASE s.full = TRUE
    BY <2>2, Zenon
  <2>3. CASE s.full = FALSE
    BY <2>3, Zenon
  <2> QED
    BY <2>1, <2>2, <2>3
<1>4. t = With(s, m)
  <2> HIDE DEF F, o
  <2> QED
    BY <1>2, <1>3, MachineIs DEF With
<1>5. m[o] = [Nothing EXCEPT !.kind = kind] /\ \A x \in Oops : x # o => m[x] = s.obj[x]
  <2> HIDE DEF o
  <2> QED
    BY <1>1, MachineIs
<1>6. m = [x \in Oops |-> m[x]]
  <2> HIDE DEF o
  <2> QED
    BY MachineIs
<1> HIDE DEF m, t, o
<1>7. m[o] \in Objects /\ m[o].kind = kind /\ kind # "free" /\ m[o].f = Nothing.f /\ m[o].count = Nothing.count
      /\ m[o].sp = 0
  <2>1. Nothing.sp = 0
    BY DEF Nothing
  <2> QED
    BY <1>5, <2>1, NothingIs DEF Objects, Kinds
<1>8. Marks(s.obj, m, o)
  <2>1. m \in [Oops -> Objects]
    BY <1>5, <1>6, <1>7, MachineIs
  <2> QED
    BY <1>1, <1>5, <1>7, <2>1 DEF Marks
<1>9. t.obj = m /\ t \in Machines
  BY <1>4, <1>8, WithIs DEF Marks
<1> QED
  BY <1>1, <1>4, <1>7, <1>8, <1>9 DEF Made, t, o

(* Nothing refers to it, and it has the other objects' links unchanged.      *)
LEMMA MadeLinks ==
  ASSUME NEW s, NEW t, NEW o, NEW kind, NEW rank, Made(s, t, o, kind), Linked(s.obj, rank, {})
  PROVE  Linked(t.obj, rank, {o})
<1>1. /\ s.obj[o].kind = "free" /\ o \in Oops
      /\ \A x \in Oops : x # o => t.obj[x] = s.obj[x]
  BY NothingIs DEF Made, Marks
<1> QED
  BY <1>1 DEF Linked, SenderOK, HomeOK, Contextual

(* A new object may be made the youngest.                                    *)
LEMMA Younger ==
  ASSUME NEW m, NEW rank, NEW o \in Oops, Linked(m, rank, {o}),
         \A x \in Oops \ {o} : m[x].kind \in Contextual => m[x].f[SenderIndex] # o,
         \A x \in Oops \ {o} : m[x].kind = "block" => m[x].f[ReceiverIndex] # o
  PROVE  \E old : Linked(m, old, {o}) /\ old[o] = 0 /\ \A x \in Oops \ {o} : old[x] > 0
<1> DEFINE old == [x \in Oops |-> IF x = o THEN 0 ELSE rank[x] + 1]
<1>1. rank \in [Oops -> Nat]
  BY DEF Linked
<1>2. old \in [Oops -> Nat] /\ old[o] = 0 /\ \A x \in Oops \ {o} : old[x] > 0 /\ old[x] = rank[x] + 1
  BY <1>1
<1> HIDE DEF old
<1>3. ASSUME NEW x \in Oops \ {o}, m[x].kind \in Contextual PROVE SenderOK(m, old, x, m[x].f[SenderIndex])
  <2>1. SenderOK(m, rank, x, m[x].f[SenderIndex]) /\ m[x].f[SenderIndex] # o
    BY <1>3 DEF Linked
  <2> QED
    BY <1>1, <1>2, <2>1 DEF SenderOK
<1>4. ASSUME NEW x \in Oops \ {o}, m[x].kind = "block" PROVE HomeOK(m, old, x, m[x].f[ReceiverIndex])
  <2>1. HomeOK(m, rank, x, m[x].f[ReceiverIndex]) /\ m[x].f[ReceiverIndex] # o
    BY <1>4 DEF Linked
  <2> QED
    BY <1>1, <1>2, <2>1 DEF HomeOK
<1>5. Linked(m, old, {o})
  BY <1>2, <1>3, <1>4 DEF Linked
<1> QED
  BY <1>2, <1>5

(* The arguments go into a message, and it takes their place.                *)
Messaged(s, t, argumentCount) ==
  /\ Good(t)
  /\ t = [obj |-> t.obj, full |-> s.full, variable |-> s.variable,
          activeContext |-> s.activeContext, stackPointer |-> s.stackPointer - argumentCount + 1]
  /\ \A x \in Oops : s.obj[x].kind # "free" =>
       t.obj[x] = Nothing \/
       SameBut(s.obj[x], t.obj[x], x, {<<s.activeContext, s.stackPointer - argumentCount + 1>>})

LEMMA Message ==
  ASSUME NEW s, Good(s), NEW argumentCount \in Nat,
         s.stackPointer - argumentCount >= 1, s.stackPointer - argumentCount < StackSize, Free(s) # {}
  PROVE  Messaged(s, createActualMessage(s, argumentCount), argumentCount)
<1> DEFINE a == s.activeContext
           o == Fresh(s)
           e == Held(s)
           from == s.stackPointer - (argumentCount - 1)
           i == s.stackPointer - argumentCount + 1
           made == instantiate(s, "message")
           filled == transfer(made, argumentCount, from, a, ReceiverIndex, o)
           popped == pop(filled, argumentCount)
           u == storePointer(popped, i, a, o)
           t == createActualMessage(s, argumentCount)
           W == {o} \X (0..0 + argumentCount - 1)
<1>1. /\ s \in Machines /\ Exact(s.obj, e, {}) /\ Counted(s.obj, {}) /\ a \in Oops
      /\ e \in [Oops -> Nat] /\ e[a] >= 1 /\ s.stackPointer \in Nat /\ s.stackPointer <= StackSize
  BY HeldIs, MachineIs DEF Good
<1>2. from \in Int /\ i \in Fields /\ i \in 1..StackSize
      /\ from..from + argumentCount - 1 \subseteq Fields /\ 0..0 + argumentCount - 1 \subseteq Fields
      /\ from = i
  BY <1>1, FieldsAre
<1>3. PICK rank : Linked(s.obj, rank, {})
  BY DEF Good
<1>4. Made(s, made, o, "message")
  BY <1>1, Make DEF Kinds
<1> HIDE DEF made, o, e
<1>5. /\ o \in Oops /\ s.obj[o] = Nothing /\ made \in Machines /\ made = With(s, made.obj)
      /\ made.obj[o].kind = "message" /\ made.obj[o].f = Nothing.f
      /\ \A x \in Oops : x # o => made.obj[x] = s.obj[x]
      /\ Marks(s.obj, made.obj, o)
  BY <1>4 DEF Made, Marks
<1>6. Exact(made.obj, e, {}) /\ Counted(made.obj, {o})
  <2>1. Counted(made.obj, {} \cup {o})
    BY <1>1, <1>5, MarksCounted
  <2>2. {} \cup {o} = {o}
    OBVIOUS
  <2> QED
    BY <1>1, <1>5, <2>1, <2>2, MarksExact
<1>7. s.obj[a].kind # "free" /\ a # o
  BY <1>1, <1>5, NothingIs DEF Good, Running, Contextual
<1>8. \A j \in 0..0 + argumentCount - 1 : made.obj[o].f[j] \notin Oops
  BY <1>2, <1>5, NothingIs, NilIsNoOop
<1>9. Moved(made, filled, argumentCount, from, a, 0, o, e, {}, {o})
  <2>1. MayMove(made, argumentCount, from, a, 0, o, e, {})
    <3> HIDE DEF from
    <3> QED
      BY <1>1, <1>2, <1>5, <1>7, <1>8 DEF MayMove
  <2>2. PICK D : D = {}
    OBVIOUS
  <2>3. filled = transfer(made, argumentCount, from, a, 0, o)
    BY FieldsAre
  <2> HIDE DEF from, a, filled
  <2>4. 0 \in Int /\ MayMove(made, argumentCount, from, a, 0, o, e, D)
        /\ Exact(made.obj, e, D) /\ Counted(made.obj, {o})
    BY <1>6, <2>1, <2>2
  <2>5. Moved(made, filled, argumentCount, from, a, 0, o, e, D, {o})
    BY <1>1, <1>2, <1>5, <2>3, <2>4, Transfer
  <2> QED
    BY <2>2, <2>5
<1> HIDE DEF filled
<1>10. Leads(made, filled, e, {}, {o}, W) /\ Keeps(made.obj, filled.obj, W)
  BY <1>8, <1>9 DEF Moved
<1>11. Exact(filled.obj, e, {}) /\ Counted(filled.obj, {o}) /\ filled.obj \in [Oops -> Objects]
  BY <1>10 DEF Leads, Exact
<1>12. filled = [obj |-> filled.obj, full |-> s.full, variable |-> s.variable, activeContext |-> a,
                 stackPointer |-> s.stackPointer]
  <2>1. filled = With(made, filled.obj)
    BY <1>10 DEF Leads
  <2> QED
    BY <1>1, <1>5, <2>1, WithIs
<1>13. /\ popped = [obj |-> filled.obj, full |-> s.full, variable |-> s.variable, activeContext |-> a,
                    stackPointer |-> i - 1]
       /\ popped.obj = filled.obj
  BY <1>1, <1>12 DEF pop
<1> HIDE DEF popped
<1>14. popped \in Machines
  <2>1. i - 1 \in 0..StackSize /\ s.full \in BOOLEAN /\ s.variable \in Values
    <3> HIDE DEF i
    <3> QED
      BY <1>1, <1>2, MachineIs, FieldsAre
  <2> HIDE DEF i, a
  <2> QED
    BY <1>1, <1>11, <1>13, <2>1 DEF Machines
<1>15. filled.obj[o].kind = "message" /\ filled.obj[a].kind = s.obj[a].kind
  BY <1>1, <1>5, <1>7, <1>10 DEF Keeps, SameBut
<1>16. Stored(popped, u, i, a, o, e, {}, {o})
  <2>1. Usable(popped, o)
    BY <1>5, <1>13, <1>15 DEF Usable, Values
  <2>2. Exact(popped.obj, e, {}) /\ Counted(popped.obj, {o}) /\ popped.obj[a].kind # "free"
    BY <1>7, <1>11, <1>13, <1>15
  <2> HIDE DEF i, a
  <2> QED
    BY <1>1, <1>2, <1>14, <2>1, <2>2, StoreField
<1> HIDE DEF u
<1>17. /\ u = With(popped, u.obj) /\ Exact(u.obj, e, {}) /\ Counted(u.obj, {})
       /\ Changes(popped.obj, u.obj, {<<a, i>>}) /\ SameBut(popped.obj[a], u.obj[a], a, {<<a, i>>})
       /\ u.obj[a].f[i] = o
  <2>1. {o} \ {o} = {}
    OBVIOUS
  <2> QED
    BY <1>16, <2>1 DEF Stored, Leads
<1>18. u.obj \in [Oops -> Objects] /\ u = [obj |-> u.obj, full |-> s.full, variable |-> s.variable,
                                          activeContext |-> a, stackPointer |-> i - 1]
  BY <1>13, <1>14, <1>17, WithIs DEF Exact
<1>19. t = [u EXCEPT !.stackPointer = u.stackPointer + 1]
  <2>1. t = push(popped, o)
    BY Zenon DEF createActualMessage, popped, filled, made, o
  <2>2. popped.stackPointer + 1 = i /\ popped.activeContext = a
    BY <1>1, <1>13
  <2> HIDE DEF t, i, a
  <2> QED
    BY <2>1, <2>2 DEF push, u
<1> HIDE DEF t
<1>20. /\ t = [obj |-> u.obj, full |-> s.full, variable |-> s.variable,
               activeContext |-> a, stackPointer |-> i]
       /\ t.obj = u.obj /\ t.variable = s.variable /\ t.activeContext = a
  <2>1. (i - 1) + 1 = i
    BY <1>1
  <2> HIDE DEF i
  <2> QED
    BY <1>18, <1>19, <2>1
<1>21. t \in Machines /\ Held(t) = e
  BY <1>1, <1>2, <1>18, <1>20, MachineIs DEF Machines, Held, e
<1>22. ASSUME NEW x \in Oops, x # o, u.obj[x] # Nothing
       PROVE  SameBut(s.obj[x], u.obj[x], x, {<<a, i>>})
  <2>1. SameBut(filled.obj[x], u.obj[x], x, {<<a, i>>})
    BY <1>13, <1>17, <1>22 DEF Changes
  <2>2. SameBut(s.obj[x], filled.obj[x], x, {})
    BY <1>5, <1>10, <1>22 DEF Keeps, SameBut
  <2> QED
    BY <2>1, <2>2 DEF SameBut
<1>23. u.obj[o].kind = "message"
  <2>1. u.obj[o].kind # "free"
    BY <1>1, <1>2, <1>5, <1>17, HeldByField
  <2>2. SameBut(filled.obj[o], u.obj[o], o, {<<a, i>>})
    BY <1>5, <1>13, <1>17, <2>1, NothingIs DEF Changes
  <2> QED
    BY <1>15, <2>2 DEF SameBut
<1>24. Linked(u.obj, rank, {})
  <2>1. Linked(made.obj, rank, {o})
    BY <1>3, <1>4, MadeLinks
  <2>2. Linked(filled.obj, rank, {o})
    <3>1. \A x \in Oops \ {o} : <<x, SenderIndex>> \notin W /\ <<x, ReceiverIndex>> \notin W
      OBVIOUS
    <3>2. Changes(made.obj, filled.obj, W)
      BY <1>10 DEF Leads
    <3> HIDE DEF W
    <3> QED
      BY <1>11, <2>1, <3>1, <3>2, LinksKept
  <2>3. Linked(u.obj, rank, {o})
    <3>1. PICK V : V = {<<a, i>>}
      OBVIOUS
    <3>2. \A x \in Oops \ {o} : <<x, SenderIndex>> \notin V /\ <<x, ReceiverIndex>> \notin V
      <4> HIDE DEF a, i
      <4> QED
        BY <1>2, <3>1, FieldsAre
    <3>3. Changes(filled.obj, u.obj, V) /\ Exact(u.obj, e, {})
      BY <1>13, <1>17, <3>1
    <3> QED
      BY <2>2, <3>2, <3>3, LinksKept
  <2> QED
    BY <1>23, <2>3 DEF Linked, Contextual
<1>25. Resting(u.obj, a)
  BY <1>22, <1>23, NothingIs DEF Good, Resting, SameBut, Contextual
<1>26. Running(u.obj, a)
  <2>1. u.obj[a] # Nothing
    BY <1>7, <1>13, <1>15, <1>17, NothingIs DEF SameBut
  <2> QED
    BY <1>1, <1>7, <1>22, <2>1 DEF Good, Running, SameBut
<1>27. Good(t)
  BY <1>17, <1>20, <1>21, <1>24, <1>25, <1>26 DEF Good
<1>28. \A x \in Oops : s.obj[x].kind # "free" =>
         t.obj[x] = Nothing \/ SameBut(s.obj[x], t.obj[x], x, {<<a, i>>})
  BY <1>5, <1>20, <1>22, NothingIs
<1> QED
  BY <1>20, <1>27, <1>28 DEF Messaged, t

----------------------------------------------------------------------------
(* Activation of a method.                                                   *)

LEMMA HeldMoves ==
  ASSUME NEW s \in Machines, NEW t, NEW o \in Oops, t.variable = s.variable, t.activeContext = o
  PROVE  Plus(Minus(Held(s), s.activeContext), o) = Held(t)
<1> DEFINE y == Plus([x \in Oops |-> 0], s.variable)
<1>1. y \in [Oops -> Nat]
  BY PlusMinus
<1>2. Held(s) = Plus(y, s.activeContext) /\ Held(t) = Plus(y, o)
  BY DEF Held
<1> HIDE DEF y
<1> QED
  BY <1>1, <1>2, PlusMinus

LEMMA TwoReferencesBut ==
  ASSUME NEW m, NEW e, NEW D, Exact(m, e, D), NEW x \in Oops, NEW i \in Fields, <<x, i>> \notin D,
         m[x].f[i] \in Oops,
         e[m[x].f[i]] >= 1
  PROVE  m[m[x].f[i]].count >= 2
<1> DEFINE o == m[x].f[i]
<1>1. <<x, i>> \in Refs(m, D, o)
  BY DEF Refs
<1>2. Cardinality(Refs(m, D, o)) # 0 /\ Cardinality(Refs(m, D, o)) \in Nat
  BY <1>1, RefsFinite, FS_EmptySet
<1>3. e[o] \in Nat /\ m[o].count = Cardinality(Refs(m, D, o)) + e[o]
  BY DEF Exact
<1> QED
  BY <1>2, <1>3

LEMMA TwoReferences ==
  ASSUME NEW m, NEW e, Exact(m, e, {}), NEW x \in Oops, NEW i \in Fields, m[x].f[i] \in Oops,
         e[m[x].f[i]] >= 1
  PROVE  m[m[x].f[i]].count >= 2
<1>1. PICK D : D = {}
  OBVIOUS
<1>2. Exact(m, e, D) /\ <<x, i>> \notin D
  BY <1>1
<1> QED
  BY <1>2, TwoReferencesBut

Activated(s, t, o, argumentCount) ==
  /\ Good(t)
  /\ t = [obj |-> t.obj, full |-> s.full, variable |-> s.variable, activeContext |-> o,
          stackPointer |-> t.stackPointer]
  /\ s.obj[o].kind = "free"
  /\ \A x \in Oops : s.obj[x].kind # "free" /\ x # s.activeContext =>
       SameBut(s.obj[x], t.obj[x], x, {})
  /\ t.obj[s.activeContext].sp = s.stackPointer - argumentCount - 1
  /\ \A i \in Fields : t.obj[s.activeContext].f[i] = s.obj[s.activeContext].f[i]
  /\ t.obj[s.activeContext].kind = s.obj[s.activeContext].kind

(* The new context, with its sender and its registers.                       *)
Started(s, t, o, e, method) ==
  /\ o \in Oops /\ s.obj[o].kind = "free" /\ t \in Machines
  /\ t = With(s, t.obj)
  /\ Exact(t.obj, e, {}) /\ Counted(t.obj, {o})
  /\ \A x \in Oops : x # o => SameBut(s.obj[x], t.obj[x], x, {})
  /\ t.obj[o].kind = "method" /\ t.obj[o].ip = TRUE /\ t.obj[o].sp = method.temporaryCount
  /\ t.obj[o].f[SenderIndex] = s.activeContext
  /\ \A i \in Fields \ {SenderIndex} : t.obj[o].f[i] = NilPointer

LEMMA Start ==
  ASSUME NEW s, Good(s), NEW method, method.temporaryCount \in 0..StackSize, Free(s) # {}
  PROVE  LET o == Fresh(s)
             made == storePointer(instantiate(s, "method"), SenderIndex, o, s.activeContext)
             started == [made EXCEPT !.obj[o].ip = TRUE, !.obj[o].sp = method.temporaryCount,
                                    !.obj[o].temporaryCount = method.temporaryCount]
         IN  Started(s, started, o, Held(s), method)
<1> DEFINE a == s.activeContext
           o == Fresh(s)
           e == Held(s)
           new == instantiate(s, "method")
           made == storePointer(new, SenderIndex, o, a)
           m == [made.obj EXCEPT ![o].ip = TRUE, ![o].sp = method.temporaryCount,
                                 ![o].temporaryCount = method.temporaryCount]
           started == [made EXCEPT !.obj[o].ip = TRUE, !.obj[o].sp = method.temporaryCount,
                                   !.obj[o].temporaryCount = method.temporaryCount]
<1>1. /\ s \in Machines /\ Exact(s.obj, e, {}) /\ Counted(s.obj, {}) /\ a \in Oops
      /\ e \in [Oops -> Nat] /\ e[a] >= 1
  BY HeldIs, MachineIs DEF Good
<1>2. Made(s, new, o, "method")
  BY <1>1, Make DEF Kinds
<1> HIDE DEF new, o, e
<1>3. /\ o \in Oops /\ s.obj[o] = Nothing /\ new \in Machines /\ new = With(s, new.obj)
      /\ new.obj[o].kind = "method" /\ new.obj[o].f = Nothing.f
      /\ \A x \in Oops : x # o => new.obj[x] = s.obj[x]
      /\ Marks(s.obj, new.obj, o)
  BY <1>2 DEF Made, Marks
<1>4. Exact(new.obj, e, {}) /\ Counted(new.obj, {o})
  <2>1. Counted(new.obj, {} \cup {o})
    BY <1>1, <1>3, MarksCounted
  <2>2. {} \cup {o} = {o}
    OBVIOUS
  <2> QED
    BY <1>1, <1>3, <2>1, <2>2, MarksExact
<1>5. s.obj[a].kind # "free" /\ a # o
  BY <1>1, <1>3, NothingIs DEF Good, Running, Contextual
<1>6. new.obj[o].f[SenderIndex] = NilPointer
  BY <1>3, NothingIs, FieldsAre
<1>7. Stored(new, made, SenderIndex, o, a, e, {}, {o})
  <2>1. Usable(new, a) /\ new.obj[o].kind # "free" /\ new.obj[o].f[SenderIndex] \notin Oops
    BY <1>1, <1>3, <1>5, <1>6, NilIsNoOop DEF Usable, Values
  <2> HIDE DEF a
  <2> QED
    BY <1>3, <1>4, <2>1, StoreField, FieldsAre
<1> HIDE DEF made
<1>8. /\ made = With(new, made.obj) /\ Exact(made.obj, e, {}) /\ Counted(made.obj, {o})
      /\ Keeps(new.obj, made.obj, {<<o, SenderIndex>>})
      /\ made.obj[o].f[SenderIndex] = a
  <2>1. {o} \ {a} = {o}
    BY <1>5
  <2> QED
    BY <1>6, <1>7, <2>1, NilIsNoOop DEF Stored, Leads
<1>9. made.obj \in [Oops -> Objects] /\ made = With(s, made.obj)
  BY <1>1, <1>3, <1>8, WithIs DEF Exact
<1>10. started = With(s, m)
  <2>1. started = With(made, m)
    <3>1. made = [obj |-> made.obj, full |-> s.full, variable |-> s.variable,
                  activeContext |-> s.activeContext, stackPointer |-> s.stackPointer]
      BY <1>1, <1>9, WithIs
    <3> QED
      BY <3>1 DEF With
  <2> HIDE DEF m, started
  <2> QED
    BY <1>1, <1>9, <2>1, WithIs
<1>11. /\ m[o] = [made.obj[o] EXCEPT !.ip = TRUE, !.sp = method.temporaryCount,
                                     !.temporaryCount = method.temporaryCount]
       /\ \A x \in Oops : x # o => m[x] = made.obj[x]
       /\ m = [x \in Oops |-> m[x]]
  BY <1>3, <1>9
<1> HIDE DEF m, started
<1>12. /\ m[o] \in Objects /\ m[o].f = made.obj[o].f /\ m[o].count = made.obj[o].count
       /\ m[o].kind = "method" /\ m[o].ip = TRUE /\ m[o].sp = method.temporaryCount
  <2>1. made.obj[o] \in Objects /\ made.obj[o].kind = "method"
    BY <1>3, <1>8, <1>9 DEF Keeps, SameBut
  <2> QED
    BY <1>11, <2>1 DEF Objects
<1>13. Marks(made.obj, m, o) /\ m \in [Oops -> Objects]
  BY <1>9, <1>11, <1>12 DEF Marks
<1>14. Exact(m, e, {}) /\ Counted(m, {o})
  <2>1. made.obj[o].kind # "free"
    BY <1>3, <1>8 DEF Keeps, SameBut
  <2> QED
    BY <1>3, <1>8, <1>13, <2>1, MarksExact, MarksCounted
<1>15. started.obj = m /\ started \in Machines
  BY <1>1, <1>10, <1>13, WithIs
<1>16. \A x \in Oops : x # o => SameBut(s.obj[x], m[x], x, {})
  BY <1>3, <1>8, <1>11 DEF Keeps, SameBut
<1>17. \A i \in Fields \ {SenderIndex} : m[o].f[i] = NilPointer
  BY <1>3, <1>8, <1>12, NothingIs DEF Keeps, SameBut
<1>18. m[o].f[SenderIndex] = a
  BY <1>8, <1>12
<1>19. Started(s, started, o, e, method)
  BY <1>3, <1>10, <1>12, <1>14, <1>15, <1>16, <1>17, <1>18, NothingIs DEF Started
<1> QED
  BY <1>19 DEF started, made, new, o, e

LEMMA StartedLinks ==
  ASSUME NEW s, Good(s), NEW t, NEW o, NEW method, Started(s, t, o, Held(s), method)
  PROVE  \E rank : Linked(t.obj, rank, {})
<1>1. PICK rank : Linked(s.obj, rank, {})
  BY DEF Good
<1>2. /\ o \in Oops /\ s.obj[o].kind = "free"
      /\ \A x \in Oops : x # o => t.obj[x].kind = s.obj[x].kind /\ \A i \in Fields : t.obj[x].f[i] = s.obj[x].f[i]
      /\ t.obj[o].kind = "method" /\ t.obj[o].f[SenderIndex] = s.activeContext
  BY DEF Started, SameBut
<1>3. \A x \in Oops \ {o} : t.obj[x].kind \in Contextual =>
        SenderOK(s.obj, rank, x, s.obj[x].f[SenderIndex]) /\ t.obj[x].f[SenderIndex] = s.obj[x].f[SenderIndex]
  BY <1>1, <1>2, FieldsAre DEF Linked
<1>4. \A x \in Oops \ {o} : t.obj[x].kind = "block" =>
        HomeOK(s.obj, rank, x, s.obj[x].f[ReceiverIndex]) /\ t.obj[x].f[ReceiverIndex] = s.obj[x].f[ReceiverIndex]
  BY <1>1, <1>2, FieldsAre DEF Linked
<1>5. rank \in [Oops -> Nat]
  BY <1>1 DEF Linked
<1>6. \A x \in Oops \ {o} : t.obj[x].kind \in Contextual => t.obj[x].f[SenderIndex] # o
  BY <1>2, <1>3, NilIsNoOop DEF SenderOK, Contextual
<1>7. \A x \in Oops \ {o} : t.obj[x].kind = "block" => t.obj[x].f[ReceiverIndex] # o
  BY <1>2, <1>4 DEF HomeOK
<1>8. Linked(t.obj, rank, {o})
  BY <1>2, <1>3, <1>4, <1>5 DEF Linked, SenderOK, HomeOK, Contextual
<1>9. PICK old : Linked(t.obj, old, {o}) /\ old[o] = 0 /\ \A x \in Oops \ {o} : old[x] > 0
  BY <1>2, <1>6, <1>7, <1>8, Younger
<1>10. SenderOK(t.obj, old, o, t.obj[o].f[SenderIndex])
  <2>1. s.activeContext \in Oops /\ s.obj[s.activeContext].kind \in Contextual
    BY MachineIs DEF Good, Running
  <2>2. s.activeContext # o
    BY <1>2, <2>1 DEF Contextual
  <2> QED
    BY <1>2, <1>9, <2>1, <2>2 DEF SenderOK
<1>11. Linked(t.obj, old, {})
  BY <1>2, <1>9, <1>10 DEF Linked
<1> QED
  BY <1>11

LEMMA Activate ==
  ASSUME NEW s, Good(s), NEW method, method.temporaryCount \in 0..StackSize,
         NEW argumentCount \in 0..StackSize, s.stackPointer - argumentCount >= 1, Free(s) # {}
  PROVE  Activated(s, activateNewMethod(s, method, argumentCount), Fresh(s), argumentCount)
<1> DEFINE a == s.activeContext
           o == Fresh(s)
           e == Held(s)
           n == argumentCount + 1
           from == s.stackPointer - argumentCount
           made == storePointer(instantiate(s, "method"), SenderIndex, o, a)
           started == [made EXCEPT !.obj[o].ip = TRUE, !.obj[o].sp = method.temporaryCount,
                                  !.obj[o].temporaryCount = method.temporaryCount]
           given == transfer(started, n, from, a, ReceiverIndex, o)
           popped == pop(given, n)
           t == activateNewMethod(s, method, argumentCount)
           W == {o} \X (0..0 + n - 1)
<1>1. /\ s \in Machines /\ Exact(s.obj, e, {}) /\ Counted(s.obj, {}) /\ a \in Oops
      /\ e \in [Oops -> Nat] /\ e[a] >= 1 /\ s.stackPointer \in Nat /\ s.stackPointer <= StackSize
  BY HeldIs, MachineIs DEF Good
<1>2. t = newActiveContext(popped, o)
  BY Zenon DEF activateNewMethod
<1>3. Started(s, started, o, e, method)
  BY Start
<1> HIDE DEF started, t, o, e
<1>4. PICK rank : Linked(started.obj, rank, {})
  BY <1>3, StartedLinks DEF e
<1>5. /\ o \in Oops /\ s.obj[o].kind = "free" /\ started \in Machines
      /\ started = With(s, started.obj)
      /\ Exact(started.obj, e, {}) /\ Counted(started.obj, {o})
      /\ \A x \in Oops : x # o => SameBut(s.obj[x], started.obj[x], x, {})
      /\ started.obj[o].kind = "method" /\ started.obj[o].ip = TRUE
      /\ started.obj[o].f[SenderIndex] = a
      /\ \A i \in Fields \ {SenderIndex} : started.obj[o].f[i] = NilPointer
  BY <1>3 DEF Started
<1>6. s.obj[a].kind # "free" /\ a # o
  BY <1>1, <1>5 DEF Good, Running, Contextual
<1>7. /\ n \in Nat /\ from \in Int /\ from..from + n - 1 \subseteq Fields
      /\ 0..0 + n - 1 \subseteq Fields \ {SenderIndex}
      /\ from - 1 \in 0..StackSize /\ from - 1 < StackSize /\ from - 1 = s.stackPointer - argumentCount - 1
      /\ s.stackPointer - n = from - 1
  BY <1>1, FieldsAre
<1>8. \A j \in 0..0 + n - 1 : started.obj[o].f[j] \notin Oops
  BY <1>5, <1>7, NilIsNoOop
<1>9. Moved(started, given, n, from, a, 0, o, e, {}, {o})
  <2>1. MayMove(started, n, from, a, 0, o, e, {})
    <3> HIDE DEF from, n
    <3> QED
      BY <1>1, <1>5, <1>6, <1>7, <1>8 DEF MayMove
  <2>2. PICK D : D = {}
    OBVIOUS
  <2>3. given = transfer(started, n, from, a, 0, o)
    BY FieldsAre
  <2> HIDE DEF from, a, n, given
  <2>4. 0 \in Int /\ MayMove(started, n, from, a, 0, o, e, D)
        /\ Exact(started.obj, e, D) /\ Counted(started.obj, {o})
    BY <1>5, <2>1, <2>2
  <2>5. Moved(started, given, n, from, a, 0, o, e, D, {o})
    BY <1>1, <1>5, <1>7, <2>3, <2>4, Transfer
  <2> QED
    BY <2>2, <2>5
<1> HIDE DEF given
<1>10. Leads(started, given, e, {}, {o}, W) /\ Keeps(started.obj, given.obj, W)
  BY <1>8, <1>9 DEF Moved
<1>11. Exact(given.obj, e, {}) /\ Counted(given.obj, {o}) /\ given.obj \in [Oops -> Objects]
  BY <1>10 DEF Leads, Exact
<1>12. given = [obj |-> given.obj, full |-> s.full, variable |-> s.variable, activeContext |-> a,
                stackPointer |-> s.stackPointer]
  <2>1. given = With(started, given.obj)
    BY <1>10 DEF Leads
  <2> QED
    BY <1>1, <1>5, <2>1, WithIs
<1>13. /\ popped = [obj |-> given.obj, full |-> s.full, variable |-> s.variable, activeContext |-> a,
                    stackPointer |-> from - 1]
       /\ popped.obj = given.obj /\ popped.activeContext = a /\ popped.stackPointer = from - 1
       /\ popped.full = s.full /\ popped.variable = s.variable
  <2> HIDE DEF from, n
  <2> QED
    BY <1>7, <1>12 DEF pop
<1> HIDE DEF popped
<1>14. popped \in Machines
  <2>1. s.full \in BOOLEAN /\ s.variable \in Values
    BY <1>1, MachineIs
  <2> HIDE DEF from, a
  <2> QED
    BY <1>1, <1>7, <1>11, <1>13, <2>1 DEF Machines, a
<1>15. /\ given.obj[o].kind = "method" /\ given.obj[o].ip = TRUE
       /\ given.obj[o].f[SenderIndex] = a
  <2>1. <<o, SenderIndex>> \notin W
    BY FieldsAre
  <2> HIDE DEF W
  <2> QED
    BY <1>5, <1>10, <2>1, FieldsAre DEF Keeps, SameBut
<1>16. ASSUME NEW x \in Oops, x # o PROVE SameBut(s.obj[x], given.obj[x], x, {})
  <2>1. \A i \in Fields : <<x, i>> \notin W
    BY <1>16
  <2> HIDE DEF W
  <2>2. SameBut(s.obj[x], started.obj[x], x, {}) /\ SameBut(started.obj[x], given.obj[x], x, W)
    BY <1>5, <1>10, <1>16 DEF Keeps
  <2> QED
    BY <2>1, <2>2 DEF SameBut
<1>17. Entered(popped, t, o, e, {}, {o})
  <2>1. popped.obj[a].count >= 2
    <3> HIDE DEF a
    <3> QED
      BY <1>1, <1>5, <1>11, <1>13, <1>15, TwoReferences, FieldsAre
  <2>2. /\ Exact(popped.obj, e, {}) /\ Counted(popped.obj, {o}) /\ o # popped.activeContext
        /\ popped.obj[o].kind # "free" /\ e[popped.activeContext] >= 1
        /\ popped.obj[popped.activeContext].count >= 2
    BY <1>1, <1>6, <1>11, <1>13, <1>15, <2>1
  <2> QED
    BY <1>2, <1>5, <1>14, <2>2, Enter
<1>18. /\ t = [obj |-> t.obj, full |-> s.full, variable |-> s.variable, activeContext |-> o,
               stackPointer |-> given.obj[o].sp]
       /\ t \in Machines
       /\ Exact(t.obj, Plus(Minus(e, a), o), {})
       /\ Counted(t.obj, {})
       /\ \A x \in Oops \ {a} : SameBut(given.obj[x], t.obj[x], x, {})
       /\ \A x \in Oops : t.obj[x].kind = given.obj[x].kind /\ \A i \in Fields : t.obj[x].f[i] = given.obj[x].f[i]
       /\ t.obj[a].sp = from - 1
  <2>1. {o} \ {o} = {}
    OBVIOUS
  <2> HIDE DEF a, from
  <2>2. /\ t = [obj |-> t.obj, full |-> popped.full, variable |-> popped.variable, activeContext |-> o,
                stackPointer |-> popped.obj[o].sp]
        /\ t \in Machines
        /\ Exact(t.obj, Plus(Minus(e, popped.activeContext), o), {})
        /\ Counted(t.obj, {o} \ {o})
        /\ \A x \in Oops \ {popped.activeContext} : SameBut(popped.obj[x], t.obj[x], x, {})
        /\ \A x \in Oops : t.obj[x].kind = popped.obj[x].kind
                            /\ \A i \in Fields : t.obj[x].f[i] = popped.obj[x].f[i]
        /\ t.obj[popped.activeContext].sp = popped.stackPointer
    BY <1>17, Zenon DEF Entered
  <2>3. /\ popped.obj = given.obj /\ popped.activeContext = a /\ popped.stackPointer = from - 1
        /\ popped.full = s.full /\ popped.variable = s.variable
    BY <1>13, Zenon
  <2>4. t = [obj |-> t.obj, full |-> s.full, variable |-> s.variable, activeContext |-> o,
             stackPointer |-> given.obj[o].sp]
    BY <2>2, <2>3, Zenon
  <2>5. Exact(t.obj, Plus(Minus(e, a), o), {}) /\ Counted(t.obj, {})
    BY <2>1, <2>2, <2>3, Zenon
  <2>6. \A x \in Oops \ {a} : SameBut(given.obj[x], t.obj[x], x, {})
    BY <2>2, <2>3, Zenon
  <2>7. \A x \in Oops : t.obj[x].kind = given.obj[x].kind /\ \A i \in Fields : t.obj[x].f[i] = given.obj[x].f[i]
    BY <2>2, <2>3, Zenon
  <2> QED
    BY <2>2, <2>3, <2>4, <2>5, <2>6, <2>7, Zenon
<1>19. t.variable = s.variable /\ t.activeContext = o /\ t.full = s.full
  BY <1>18
<1>20. Exact(t.obj, Held(t), {})
  BY <1>1, <1>5, <1>18, <1>19, HeldMoves DEF e
<1>21. Linked(t.obj, rank, {})
  <2>1. Linked(started.obj, rank, {o})
    BY <1>4 DEF Linked
  <2>2. Linked(given.obj, rank, {o})
    <3>1. \A x \in Oops \ {o} : <<x, SenderIndex>> \notin W /\ <<x, ReceiverIndex>> \notin W
      OBVIOUS
    <3>2. Changes(started.obj, given.obj, W)
      BY <1>10 DEF Leads
    <3> HIDE DEF W
    <3> QED
      BY <1>11, <2>1, <3>1, <3>2, LinksKept
  <2>3. SenderOK(given.obj, rank, o, a)
    <3>1. SenderOK(started.obj, rank, o, a)
      BY <1>4, <1>5 DEF Linked, Contextual
    <3>2. given.obj[a].kind = started.obj[a].kind /\ given.obj[o].kind = started.obj[o].kind
      BY <1>1, <1>5, <1>10 DEF Keeps, SameBut
    <3> QED
      BY <3>1, <3>2 DEF SenderOK
  <2>4. Linked(given.obj, rank, {})
    BY <1>15, <2>2, <2>3 DEF Linked
  <2> QED
    BY <1>18, <2>4, LinksRest
<1>22. Resting(t.obj, o)
  <2>1. ASSUME NEW x \in Oops \ {o}, t.obj[x].kind \in Contextual, t.obj[x].ip = TRUE
        PROVE  t.obj[x].sp < StackSize
    <3>1. CASE x = a
      BY <1>7, <1>18, <3>1
    <3>2. CASE x # a
      BY <1>16, <1>18, <2>1, <3>2 DEF Good, Resting, SameBut
    <3> QED
      BY <3>1, <3>2
  <2> QED
    BY <2>1 DEF Resting
<1>23. Running(t.obj, o)
  BY <1>5, <1>6, <1>15, <1>18 DEF Running, SameBut, Contextual
<1>24. Good(t)
  BY <1>18, <1>19, <1>20, <1>21, <1>22, <1>23 DEF Good
<1>25. \A x \in Oops : s.obj[x].kind # "free" /\ x # a => SameBut(s.obj[x], t.obj[x], x, {})
  BY <1>5, <1>16, <1>18 DEF SameBut
<1>26. /\ \A i \in Fields : t.obj[a].f[i] = s.obj[a].f[i]
       /\ t.obj[a].kind = s.obj[a].kind
  BY <1>1, <1>6, <1>16, <1>18 DEF SameBut
<1>27. t.obj[a].sp = s.stackPointer - argumentCount - 1
  BY <1>7, <1>18
<1>28. t = [obj |-> t.obj, full |-> s.full, variable |-> s.variable, activeContext |-> o,
            stackPointer |-> t.stackPointer]
  BY <1>18
<1> QED
  BY <1>5, <1>24, <1>25, <1>26, <1>27, <1>28 DEF Activated, t, o

LEMMA ActivateFull ==
  ASSUME NEW s, IsMachine(s), NEW method, NEW argumentCount \in Nat,
         ~activateNewMethod(s, method, argumentCount).full
  PROVE  ~s.full /\ Free(s) # {}
<1> DEFINE a == s.activeContext
           o == Fresh(s)
           n == argumentCount + 1
           from == s.stackPointer - argumentCount
           new == instantiate(s, "method")
           made == storePointer(new, SenderIndex, o, a)
           started == [made EXCEPT !.obj[o].ip = TRUE, !.obj[o].sp = method.temporaryCount,
                                  !.obj[o].temporaryCount = method.temporaryCount]
           given == transfer(started, n, from, a, ReceiverIndex, o)
           popped == pop(given, n)
           t == newActiveContext(popped, o)
<1>1. t = activateNewMethod(s, method, argumentCount)
  BY Zenon DEF activateNewMethod
<1>3. IsMachine(new) /\ (~new.full => ~s.full /\ Free(s) # {})
  BY Instantiated
<1> HIDE DEF new, o
<1>4. SameFull(new, made)
  BY SameFullStore
<1> HIDE DEF made
<1>5. SameFull(made, started)
  <2>1. PICK m : m = [made.obj EXCEPT ![o].ip = TRUE, ![o].sp = method.temporaryCount,
                                      ![o].temporaryCount = method.temporaryCount]
    OBVIOUS
  <2>2. IsMachine(made) => started = With(made, m)
    BY <2>1 DEF IsMachine, With
  <2> HIDE DEF started
  <2> QED
    BY <2>2, SameFullWith DEF SameFull
<1> HIDE DEF started
<1>6. n \in Nat
  OBVIOUS
<1>7. SameFull(started, given)
  <2> HIDE DEF n
  <2> QED
    BY <1>6, SameFullTransfer
<1> HIDE DEF given
<1>8. SameFull(given, popped)
  BY SameFullPop
<1> HIDE DEF popped
<1>9. SameFull(popped, t)
  BY SameFullEnter
<1> HIDE DEF t
<1>10. SameFull(new, t)
  BY <1>4, <1>5, <1>7, <1>8, <1>9, SameFullTrans
<1>11. ~new.full
  BY <1>1, <1>3, <1>10 DEF SameFull
<1> QED
  BY <1>3, <1>11

LEMMA MessageFull ==
  ASSUME NEW s, IsMachine(s), NEW argumentCount \in Nat
  PROVE  LET t == createActualMessage(s, argumentCount)
         IN  IsMachine(t) /\ (~t.full => ~s.full /\ Free(s) # {})
<1> DEFINE made == instantiate(s, "message")
           o == Fresh(s)
           filled == transfer(made, argumentCount, s.stackPointer - (argumentCount - 1), s.activeContext,
                              ReceiverIndex, o)
           popped == pop(filled, argumentCount)
           t == push(popped, o)
<1>1. t = createActualMessage(s, argumentCount)
  BY Zenon DEF createActualMessage
<1>3. IsMachine(made) /\ (~made.full => ~s.full /\ Free(s) # {})
  BY Instantiated
<1> HIDE DEF made, o
<1>4. SameFull(made, filled)
  BY SameFullTransfer
<1> HIDE DEF filled
<1>5. SameFull(filled, popped)
  BY SameFullPop
<1> HIDE DEF popped
<1>6. SameFull(popped, t)
  BY SameFullPush
<1> HIDE DEF t
<1>7. SameFull(made, t)
  BY <1>4, <1>5, <1>6, SameFullTrans
<1>8. IsMachine(t) /\ t.full = made.full
  BY <1>3, <1>7 DEF SameFull
<1> QED
  BY <1>1, <1>3, <1>8, Zenon

----------------------------------------------------------------------------
(* Activation of a block: what it held for its arguments before may go, so   *)
(* the place on the stack that holds the block is set aside.                 *)

Valued(s, t, block, argumentCount) ==
  /\ Good(t)
  /\ t = [obj |-> t.obj, full |-> s.full, variable |-> s.variable, activeContext |-> block,
          stackPointer |-> t.stackPointer]
  /\ \A x \in Oops \ {block, s.activeContext} :
       t.obj[x] = Nothing \/ SameBut(s.obj[x], t.obj[x], x, {})
  /\ t.obj[s.activeContext].sp = s.stackPointer - argumentCount - 1
  /\ \A i \in Fields : t.obj[s.activeContext].f[i] = s.obj[s.activeContext].f[i]
  /\ t.obj[s.activeContext].kind = s.obj[s.activeContext].kind

(* The block with its arguments, registers and sender, not entered yet.      *)
Entering(s, t, block, argumentCount, e, D) ==
  /\ t \in Machines
  /\ t = [obj |-> t.obj, full |-> s.full, variable |-> s.variable, activeContext |-> s.activeContext,
          stackPointer |-> s.stackPointer - argumentCount - 1]
  /\ Exact(t.obj, e, D) /\ Counted(t.obj, {})
  /\ \A x \in Oops \ {block} : t.obj[x] = Nothing \/ SameBut(s.obj[x], t.obj[x], x, {})
  /\ SameBut(s.obj[s.activeContext], t.obj[s.activeContext], s.activeContext, {})
  /\ t.obj[block].kind = "block" /\ t.obj[block].ip = TRUE
  /\ t.obj[block].f[SenderIndex] = s.activeContext
  /\ t.obj[block].f[ReceiverIndex] = s.obj[block].f[ReceiverIndex]

MayValue(s, block, argumentCount) ==
  /\ argumentCount \in Nat /\ s.stackPointer - argumentCount >= 1
  /\ block = stackValue(s, argumentCount) /\ block \in Oops \ {s.activeContext}
  /\ s.obj[block].kind = "block"

valued(s, block, argumentCount) ==
  LET given == pop(transfer(s, argumentCount, s.stackPointer - argumentCount + 1, s.activeContext,
                            ReceiverIndex + 1, block), argumentCount + 1)
      ready == [given EXCEPT !.obj[block].ip = TRUE, !.obj[block].sp = argumentCount]
  IN storePointer(ready, SenderIndex, block, s.activeContext)

LEMMA EnterBlock ==
  ASSUME NEW s, Good(s), NEW block, NEW argumentCount, MayValue(s, block, argumentCount),
         NEW D, D = {<<s.activeContext, s.stackPointer - argumentCount>>}
  PROVE  Entering(s, valued(s, block, argumentCount), block, argumentCount, Plus(Held(s), block), D)
<1> DEFINE a == s.activeContext
           h == Held(s)
           e == Plus(h, block)
           i == s.stackPointer - argumentCount
           moved == transfer(s, argumentCount, i + 1, a, 1, block)
           given == pop(moved, argumentCount + 1)
           ready == [given EXCEPT !.obj[block].ip = TRUE, !.obj[block].sp = argumentCount]
           m == [moved.obj EXCEPT ![block].ip = TRUE, ![block].sp = argumentCount]
           t == storePointer(ready, SenderIndex, block, a)
           W == {block} \X (1..1 + argumentCount - 1)
<1>1. /\ s \in Machines /\ Exact(s.obj, h, {}) /\ Counted(s.obj, {}) /\ a \in Oops
      /\ h \in [Oops -> Nat] /\ h[a] >= 1 /\ s.stackPointer \in Nat /\ s.stackPointer <= StackSize
  BY HeldIs, MachineIs DEF Good
<1>2. /\ argumentCount \in Nat /\ i \in Fields /\ i >= 1 /\ i \in Int
      /\ block = s.obj[a].f[i] /\ block \in Oops /\ block # a /\ s.obj[block].kind = "block"
  BY <1>1, FieldsAre DEF MayValue, stackValue
<1>3. t = valued(s, block, argumentCount)
  <2>1. ReceiverIndex + 1 = 1
    BY FieldsAre
  <2> QED
    BY <2>1, Zenon DEF valued
<1> HIDE DEF h, t
<1>4. e \in [Oops -> Nat] /\ e[block] >= 1 /\ e[a] >= 1 /\ e[a] \in Nat
  <2>1. e \in [Oops -> Nat] /\ e[a] >= h[a] /\ e[block] >= 1
    BY <1>1, <1>2, PlusMinus
  <2>2. e[a] \in Nat /\ h[a] \in Nat
    BY <1>1, <2>1
  <2> HIDE DEF e
  <2> QED
    BY <1>1, <2>1, <2>2
<1>5. Exact(s.obj, e, D) /\ D = {<<a, i>>}
  <2>1. PICK F : F = {}
    OBVIOUS
  <2>2. Exact(s.obj, h, F) /\ <<a, i>> \notin F /\ F \cup {<<a, i>>} = D
    BY <1>1, <2>1
  <2> HIDE DEF a, i
  <2>3. Exact(s.obj, Plus(h, s.obj[a].f[i]), F \cup {<<a, i>>})
    BY <1>1, <1>2, <2>2, SetAside
  <2> QED
    BY <1>2, <2>2, <2>3 DEF a, i
<1>6. \A d \in D : e[d[1]] >= 1
  <2> HIDE DEF a, i, e
  <2> QED
    BY <1>4, <1>5
<1> HIDE DEF e
<1>7. Moved(s, moved, argumentCount, i + 1, a, 1, block, e, D, {})
  <2>1. i + 1..i + 1 + argumentCount - 1 \subseteq Fields /\ 1..1 + argumentCount - 1 \subseteq Fields
    BY <1>1, <1>2, FieldsAre
  <2>2. \A j \in 1..1 + argumentCount - 1 : <<block, j>> \notin D
    <3> HIDE DEF a, i
    <3> QED
      BY <1>2, <1>5
  <2>3. ASSUME NEW j \in i + 1..i + 1 + argumentCount - 1 PROVE <<a, j>> \notin D
    <3>1. j # i
      BY <1>1, <1>2
    <3> HIDE DEF a, i
    <3> QED
      BY <1>5, <3>1
  <2>4. s.obj[block].kind # "free" /\ i + 1 \in Int /\ 1 \in Int
    BY <1>2
  <2> HIDE DEF a, i, moved
  <2>5. MayMove(s, argumentCount, i + 1, a, 1, block, e, D)
    BY <1>2, <1>4, <1>6, <2>1, <2>2, <2>3, <2>4 DEF MayMove
  <2> QED
    BY <1>1, <1>2, <1>5, <2>4, <2>5, Transfer DEF moved
<1> HIDE DEF moved
<1>8. /\ moved = With(s, moved.obj) /\ Exact(moved.obj, e, D) /\ Counted(moved.obj, {})
      /\ Changes(s.obj, moved.obj, W)
      /\ SameBut(s.obj[block], moved.obj[block], block, W)
      /\ SameBut(s.obj[a], moved.obj[a], a, {})
  <2> HIDE DEF a, i
  <2> QED
    BY <1>7 DEF Moved, Leads
<1>9. moved = [obj |-> moved.obj, full |-> s.full, variable |-> s.variable, activeContext |-> a,
               stackPointer |-> s.stackPointer] /\ moved.obj \in [Oops -> Objects]
  BY <1>1, <1>8, WithIs DEF Exact
<1>10. given = [obj |-> moved.obj, full |-> s.full, variable |-> s.variable, activeContext |-> a,
                stackPointer |-> i - 1] /\ i - 1 \in 0..StackSize
  <2>1. s.stackPointer - (argumentCount + 1) = i - 1 /\ i - 1 \in 0..StackSize
    BY <1>1, <1>2, FieldsAre
  <2> HIDE DEF i
  <2> QED
    BY <1>9, <2>1 DEF pop
<1> HIDE DEF given
<1>11. ready = [obj |-> m, full |-> s.full, variable |-> s.variable, activeContext |-> a,
                stackPointer |-> i - 1] /\ ready.obj = m
  <2>1. ready = With(given, m)
    <3>1. PICK k : k = i - 1
      OBVIOUS
    <3> HIDE DEF i
    <3> QED
      BY <1>10, <3>1 DEF With
  <2> HIDE DEF i, m, ready
  <2> QED
    BY <1>10, <2>1 DEF With
<1>12. /\ m[block] = [moved.obj[block] EXCEPT !.ip = TRUE, !.sp = argumentCount]
       /\ \A x \in Oops : x # block => m[x] = moved.obj[x]
       /\ m = [x \in Oops |-> m[x]]
  BY <1>2, <1>9
<1> HIDE DEF m, ready
<1>13. /\ m[block] \in Objects /\ m[block].f = moved.obj[block].f /\ m[block].count = moved.obj[block].count
       /\ m[block].kind = "block" /\ m[block].ip = TRUE
  <2>1. moved.obj[block] \in Objects /\ moved.obj[block].kind = "block"
    BY <1>2, <1>8, <1>9 DEF SameBut
  <2>2. argumentCount \in 0..StackSize
    BY <1>1, <1>2, FieldsAre
  <2> QED
    BY <1>12, <2>1, <2>2 DEF Objects
<1>14. Marks(moved.obj, m, block) /\ m \in [Oops -> Objects]
  BY <1>2, <1>9, <1>12, <1>13 DEF Marks
<1>15. Exact(m, e, D) /\ Counted(m, {})
  <2>1. moved.obj[block].kind # "free"
    BY <1>2, <1>8 DEF SameBut
  <2> QED
    BY <1>2, <1>8, <1>14, <2>1, MarksExact, MarksCounted
<1>16. ready \in Machines
  <2>1. s.full \in BOOLEAN /\ s.variable \in Values
    BY <1>1, MachineIs
  <2> HIDE DEF i, a
  <2> QED
    BY <1>1, <1>10, <1>11, <1>14, <2>1 DEF Machines
<1>17. m[a].kind # "free" /\ SameBut(s.obj[a], m[a], a, {})
  <2>1. s.obj[a].kind # "free"
    BY <1>1 DEF Good, Running, Contextual
  <2>2. m[a] = moved.obj[a]
    BY <1>1, <1>2, <1>12
  <2> HIDE DEF a
  <2> QED
    BY <1>8, <2>1, <2>2 DEF SameBut
<1>18. Stored(ready, t, SenderIndex, block, a, e, D, {})
  <2>1. a \in Values /\ <<block, SenderIndex>> \notin D /\ Exact(ready.obj, e, D) /\ Counted(ready.obj, {})
        /\ ready.obj[block].kind # "free" /\ ready.obj[a].kind # "free"
    <3>1. <<block, SenderIndex>> \notin D
      <4> HIDE DEF a, i
      <4> QED
        BY <1>2, <1>5
    <3> QED
      BY <1>1, <1>11, <1>13, <1>15, <1>17, <3>1 DEF Values
  <2> HIDE DEF a
  <2> QED
    BY <1>2, <1>4, <1>6, <1>16, <2>1, Store, FieldsAre DEF t
<1>19. /\ t = With(ready, t.obj) /\ Exact(t.obj, e, D) /\ Counted(t.obj, {})
       /\ Changes(m, t.obj, {<<block, SenderIndex>>})
       /\ SameBut(m[block], t.obj[block], block, {<<block, SenderIndex>>})
       /\ t.obj[block].f[SenderIndex] = a
  <2>1. {} \ {a} = {}
    OBVIOUS
  <2> QED
    BY <1>11, <1>18, <2>1 DEF Stored, Leads
<1>20. t \in Machines /\ t = [obj |-> t.obj, full |-> s.full, variable |-> s.variable, activeContext |-> a,
                              stackPointer |-> s.stackPointer - argumentCount - 1]
  <2>1. i - 1 = s.stackPointer - argumentCount - 1 /\ t.obj \in [Oops -> Objects]
    BY <1>19 DEF Exact
  <2> HIDE DEF i
  <2> QED
    BY <1>11, <1>16, <1>19, <2>1, WithIs
<1>21. ASSUME NEW x \in Oops \ {block}, t.obj[x] # Nothing PROVE SameBut(s.obj[x], t.obj[x], x, {})
  <2>1. SameBut(m[x], t.obj[x], x, {<<block, SenderIndex>>})
    BY <1>19, <1>21 DEF Changes
  <2>2. \A j \in Fields : t.obj[x].f[j] = m[x].f[j]
    BY <1>21, <2>1 DEF SameBut
  <2>3. t.obj[x].kind # "free"
    BY <1>19, <1>21 DEF Exact
  <2>4. m[x] # Nothing
    BY <2>1, <2>3, NothingIs DEF SameBut
  <2>5. SameBut(s.obj[x], m[x], x, W)
    BY <1>8, <1>12, <2>4 DEF Changes
  <2>6. \A j \in Fields : <<x, j>> \notin W
    OBVIOUS
  <2> HIDE DEF W
  <2> QED
    BY <2>1, <2>2, <2>5, <2>6 DEF SameBut
<1>22. SameBut(s.obj[a], t.obj[a], a, {})
  <2>1. t.obj[a].kind # "free"
    BY <1>1, <1>4, <1>19, Referenced
  <2> QED
    BY <1>1, <1>2, <1>21, <2>1, NothingIs
<1>23. t.obj[block].kind = "block" /\ t.obj[block].ip = TRUE
  BY <1>13, <1>19 DEF SameBut
<1>24. t.obj[block].f[ReceiverIndex] = s.obj[block].f[ReceiverIndex]
  <2>1. <<block, ReceiverIndex>> \notin W /\ <<block, ReceiverIndex>> \notin {<<block, SenderIndex>>}
    BY FieldsAre
  <2> HIDE DEF W
  <2> QED
    BY <1>8, <1>13, <1>19, <2>1, FieldsAre DEF SameBut
<1>25. Entering(s, t, block, argumentCount, e, D)
  BY <1>19, <1>20, <1>21, <1>22, <1>23, <1>24 DEF Entering
<1> QED
  BY <1>3, <1>25 DEF e, h

LEMMA Value ==
  ASSUME NEW s, Good(s), NEW block, NEW argumentCount, MayValue(s, block, argumentCount)
  PROVE  Valued(s, primitiveValue(s, argumentCount), block, argumentCount)
<1> DEFINE a == s.activeContext
           h == Held(s)
           e == Plus(h, block)
           i == s.stackPointer - argumentCount
           D == {<<a, i>>}
           u == valued(s, block, argumentCount)
           t == primitiveValue(s, argumentCount)
<1>1. /\ s \in Machines /\ Exact(s.obj, h, {}) /\ Counted(s.obj, {}) /\ a \in Oops
      /\ h \in [Oops -> Nat] /\ h[a] >= 1 /\ s.stackPointer \in Nat /\ s.stackPointer <= StackSize
  BY HeldIs, MachineIs DEF Good
<1>2. /\ argumentCount \in Nat /\ i \in Fields /\ i >= 1 /\ i \in Int
      /\ i - 1 < StackSize /\ i - 1 = s.stackPointer - argumentCount - 1
      /\ block = s.obj[a].f[i] /\ block \in Oops /\ block # a /\ s.obj[block].kind = "block"
  BY <1>1, FieldsAre DEF MayValue, stackValue
<1>3. t = newActiveContext(u, block)
  <2>1. block = stackValue(s, argumentCount)
    BY DEF MayValue
  <2> QED
    BY <2>1, Zenon DEF primitiveValue, valued
<1>4. Entering(s, u, block, argumentCount, e, D)
  <2> HIDE DEF u
  <2> QED
    BY EnterBlock DEF u
<1> HIDE DEF h, u, t
<1>5. e \in [Oops -> Nat] /\ e[block] >= 1 /\ e[a] >= 1 /\ e[a] \in Nat
  <2>1. e \in [Oops -> Nat] /\ e[a] >= h[a] /\ e[block] >= 1
    BY <1>1, <1>2, PlusMinus
  <2>2. e[a] \in Nat /\ h[a] \in Nat
    BY <1>1, <2>1
  <2> HIDE DEF e
  <2> QED
    BY <1>1, <2>1, <2>2
<1>6. Minus(e, a) \in [Oops -> Nat] /\ Minus(e, a) = Plus(Minus(h, a), block)
  BY <1>1, <1>5, PlusMinus, PlusMinusCommute
<1>7. <<block, SenderIndex>> \notin D /\ <<a, i>> \in D
  <2> HIDE DEF a, i
  <2> QED
    BY <1>2
<1> HIDE DEF e, D
<1>8. /\ u \in Machines
      /\ u = [obj |-> u.obj, full |-> s.full, variable |-> s.variable, activeContext |-> a,
              stackPointer |-> i - 1]
      /\ Exact(u.obj, e, D) /\ Counted(u.obj, {})
      /\ \A x \in Oops \ {block} : u.obj[x] = Nothing \/ SameBut(s.obj[x], u.obj[x], x, {})
      /\ SameBut(s.obj[a], u.obj[a], a, {})
      /\ u.obj[block].kind = "block" /\ u.obj[block].ip = TRUE
      /\ u.obj[block].f[SenderIndex] = a
      /\ u.obj[block].f[ReceiverIndex] = s.obj[block].f[ReceiverIndex]
  BY <1>2, <1>4 DEF Entering
<1>9. u.activeContext = a /\ u.stackPointer = i - 1 /\ u.variable = s.variable /\ u.full = s.full
  <2> HIDE DEF i
  <2> QED
    BY <1>8
<1>10. Entered(u, t, block, e, D, {})
  <2>1. u.obj[a].count >= 2
    <3> HIDE DEF a
    <3> QED
      BY <1>1, <1>2, <1>5, <1>7, <1>8, TwoReferencesBut, FieldsAre
  <2>2. /\ block # u.activeContext /\ u.obj[block].kind # "free"
        /\ e[u.activeContext] >= 1 /\ u.obj[u.activeContext].count >= 2
    BY <1>2, <1>5, <1>8, <1>9, <2>1
  <2> QED
    BY <1>2, <1>3, <1>8, <2>2, Enter
<1>11. /\ t = [obj |-> t.obj, full |-> s.full, variable |-> s.variable, activeContext |-> block,
               stackPointer |-> u.obj[block].sp]
       /\ t \in Machines
       /\ Exact(t.obj, Plus(Minus(e, a), block), D)
       /\ Counted(t.obj, {})
       /\ \A x \in Oops \ {a} : SameBut(u.obj[x], t.obj[x], x, {})
       /\ \A x \in Oops : t.obj[x].kind = u.obj[x].kind /\ \A j \in Fields : t.obj[x].f[j] = u.obj[x].f[j]
       /\ t.obj[a].sp = i - 1
  <2>1. {} \ {block} = {}
    OBVIOUS
  <2> HIDE DEF a, i
  <2> QED
    BY <1>9, <1>10, <2>1 DEF Entered
<1>12. t.variable = s.variable /\ t.activeContext = block /\ t.full = s.full
  BY <1>11
<1>13. t.obj[a].f[i] = block
  BY <1>1, <1>2, <1>8, <1>11 DEF SameBut
<1>14. Exact(t.obj, Held(t), {})
  <2>1. PICK F : F = {}
    OBVIOUS
  <2> DEFINE c == Plus(Minus(e, a), block)
  <2>2. c \in [Oops -> Nat] /\ Minus(c, block) = Minus(e, a) /\ c[block] >= 1
    BY <1>2, <1>6, PlusMinus
  <2>3. Plus(Minus(h, a), block) = Held(t)
    BY <1>1, <1>2, <1>12, HeldMoves DEF h
  <2> HIDE DEF c, a, i
  <2>4. Exact(t.obj, c, F \cup {<<a, i>>}) /\ <<a, i>> \notin F
    BY <1>4, <1>11, <2>1 DEF D, a, i, c
  <2>5. Exact(t.obj, Minus(c, t.obj[a].f[i]), F)
    BY <1>1, <1>2, <1>13, <2>2, <2>4, PutBack
  <2> QED
    BY <1>6, <1>13, <2>1, <2>2, <2>3, <2>5
<1>15. \E rank : Linked(t.obj, rank, {})
  <2>1. PICK rank : Linked(s.obj, rank, {})
    BY DEF Good
  <2>3. rank \in [Oops -> Nat]
    BY <2>1 DEF Linked
  <2>4. ASSUME NEW x \in Oops, t.obj[x].kind # "free" PROVE t.obj[x].kind = s.obj[x].kind
    <3>1. CASE x = block
      BY <1>2, <1>8, <1>11, <3>1
    <3>2. CASE x # block
      BY <1>8, <1>11, <2>4, <3>2, NothingIs DEF SameBut
    <3> QED
      BY <3>1, <3>2
  <2>5. ASSUME NEW x \in Oops, NEW j \in Fields, t.obj[x].f[j] \in Oops
        PROVE  t.obj[t.obj[x].f[j]].kind # "free"
    BY <1>14, <2>5, HeldByField
  <2>6. ASSUME NEW x \in Oops, x # block, t.obj[x].kind # "free"
        PROVE  \A j \in Fields : t.obj[x].f[j] = s.obj[x].f[j]
    <3>1. t.obj[x].kind = u.obj[x].kind /\ \A j \in Fields : t.obj[x].f[j] = u.obj[x].f[j]
      BY <1>11
    <3>2. u.obj[x] # Nothing
      BY <2>6, <3>1, NothingIs
    <3>3. SameBut(s.obj[x], u.obj[x], x, {})
      BY <1>8, <2>6, <3>2
    <3> QED
      BY <3>1, <3>3 DEF SameBut
  <2>7. ASSUME NEW x \in Oops, t.obj[x].kind \in Contextual
        PROVE  SenderOK(t.obj, rank, x, t.obj[x].f[SenderIndex])
    <3>1. CASE x = block
      <4>1. t.obj[x].f[SenderIndex] = a /\ t.obj[x].kind = "block"
        BY <1>2, <1>8, <1>11, <3>1, FieldsAre
      <4>2. t.obj[a].kind \in Contextual
        BY <1>1, <1>8, <1>11 DEF Good, Running, SameBut
      <4> QED
        BY <1>1, <1>2, <3>1, <4>1, <4>2 DEF SenderOK
    <3>2. CASE x # block
      <4>1. t.obj[x].kind # "free"
        BY <2>7 DEF Contextual
      <4>2. t.obj[x].kind = s.obj[x].kind /\ t.obj[x].f[SenderIndex] = s.obj[x].f[SenderIndex]
        BY <2>4, <2>6, <3>2, <4>1, FieldsAre
      <4>3. SenderOK(s.obj, rank, x, s.obj[x].f[SenderIndex])
        BY <2>1, <2>7, <4>2 DEF Linked
      <4>4. t.obj[x].f[SenderIndex] \in Oops =>
              t.obj[t.obj[x].f[SenderIndex]].kind = s.obj[t.obj[x].f[SenderIndex]].kind
        BY <2>4, <2>5, FieldsAre
      <4> QED
        BY <4>2, <4>3, <4>4 DEF SenderOK
    <3> QED
      BY <3>1, <3>2
  <2>8. ASSUME NEW x \in Oops, t.obj[x].kind = "block"
        PROVE  HomeOK(t.obj, rank, x, t.obj[x].f[ReceiverIndex])
    <3>1. t.obj[x].f[ReceiverIndex] = s.obj[x].f[ReceiverIndex]
      <4>1. CASE x = block
        BY <1>2, <1>8, <1>11, <4>1, FieldsAre
      <4>2. CASE x # block
        BY <2>6, <2>8, <4>2, FieldsAre
      <4> QED
        BY <4>1, <4>2
    <3>2. HomeOK(s.obj, rank, x, s.obj[x].f[ReceiverIndex])
      BY <2>1, <2>4, <2>8 DEF Linked
    <3>3. t.obj[x].f[ReceiverIndex] \in Oops =>
            t.obj[t.obj[x].f[ReceiverIndex]].kind = s.obj[t.obj[x].f[ReceiverIndex]].kind
      BY <2>4, <2>5, FieldsAre
    <3> QED
      BY <3>1, <3>2, <3>3 DEF HomeOK
  <2> QED
    BY <2>3, <2>7, <2>8 DEF Linked
<1>16. Resting(t.obj, block)
  <2>1. ASSUME NEW x \in Oops \ {block}, t.obj[x].kind \in Contextual, t.obj[x].ip = TRUE
        PROVE  t.obj[x].sp < StackSize
    <3>1. CASE x = a
      BY <1>2, <1>11, <3>1
    <3>2. CASE x # a
      <4>1. SameBut(u.obj[x], t.obj[x], x, {})
        BY <1>11, <3>2
      <4>2. u.obj[x] # Nothing
        BY <2>1, <4>1, NothingIs DEF SameBut, Contextual
      <4>3. SameBut(s.obj[x], u.obj[x], x, {})
        BY <1>8, <4>2
      <4> QED
        BY <2>1, <3>2, <4>1, <4>3 DEF Good, Resting, SameBut
    <3> QED
      BY <3>1, <3>2
  <2> QED
    BY <2>1 DEF Resting
<1>17. Running(t.obj, block)
  BY <1>2, <1>8, <1>11 DEF Running, SameBut, Contextual
<1>18. Good(t)
  BY <1>11, <1>12, <1>14, <1>15, <1>16, <1>17 DEF Good
<1>19. \A x \in Oops \ {block, a} : t.obj[x] = Nothing \/ SameBut(s.obj[x], t.obj[x], x, {})
  <2>1. \A x \in Oops : t.obj[x].kind = "free" => t.obj[x] = Nothing
    BY <1>11 DEF Exact
  <2> QED
    BY <1>8, <1>11, <2>1, NothingIs DEF SameBut
<1>20. /\ \A j \in Fields : t.obj[a].f[j] = s.obj[a].f[j]
       /\ t.obj[a].kind = s.obj[a].kind
  BY <1>1, <1>8, <1>11 DEF SameBut
<1>21. t.obj[a].sp = s.stackPointer - argumentCount - 1
  BY <1>2, <1>11
<1>22. t = [obj |-> t.obj, full |-> s.full, variable |-> s.variable, activeContext |-> block,
            stackPointer |-> t.stackPointer]
  BY <1>11
<1> QED
  BY <1>18, <1>19, <1>20, <1>21, <1>22 DEF Valued, t

----------------------------------------------------------------------------
(* Returns.                                                                  *)

(* Senders may become nil.                                                   *)
LEMMA LinksCut ==
  ASSUME NEW m, NEW n, NEW e, NEW rank, Linked(m, rank, {}), Exact(n, e, {}),
         \A x \in Oops : n[x].kind # "free" =>
           /\ n[x].kind = m[x].kind /\ n[x].f[ReceiverIndex] = m[x].f[ReceiverIndex]
           /\ n[x].f[SenderIndex] \in {m[x].f[SenderIndex], NilPointer}
  PROVE  Linked(n, rank, {})
<1>1. rank \in [Oops -> Nat]
  BY DEF Linked
<1>2. ASSUME NEW x \in Oops, NEW j \in Fields, n[x].f[j] \in Oops PROVE n[n[x].f[j]].kind = m[n[x].f[j]].kind
  BY <1>2, HeldByField
<1>3. ASSUME NEW x \in Oops, n[x].kind \in Contextual PROVE SenderOK(n, rank, x, n[x].f[SenderIndex])
  <2>1. n[x].f[SenderIndex] # NilPointer =>
          SenderOK(m, rank, x, m[x].f[SenderIndex]) /\ n[x].f[SenderIndex] = m[x].f[SenderIndex]
          /\ n[x].kind = m[x].kind
    BY <1>3 DEF Linked, Contextual
  <2>2. n[x].f[SenderIndex] \in Oops => n[n[x].f[SenderIndex]].kind = m[n[x].f[SenderIndex]].kind
    BY <1>2, FieldsAre
  <2> QED
    BY <2>1, <2>2 DEF SenderOK
<1>4. ASSUME NEW x \in Oops, n[x].kind = "block" PROVE HomeOK(n, rank, x, n[x].f[ReceiverIndex])
  <2>1. HomeOK(m, rank, x, m[x].f[ReceiverIndex]) /\ n[x].f[ReceiverIndex] = m[x].f[ReceiverIndex]
    BY <1>4 DEF Linked
  <2>2. n[x].f[ReceiverIndex] \in Oops => n[n[x].f[ReceiverIndex]].kind = m[n[x].f[ReceiverIndex]].kind
    BY <1>2, FieldsAre
  <2> QED
    BY <2>1, <2>2 DEF HomeOK
<1> QED
  BY <1>1, <1>3, <1>4 DEF Linked

Left(s, t, o, e) ==
  /\ t = [obj |-> t.obj, full |-> s.full, variable |-> s.variable, activeContext |-> o,
          stackPointer |-> s.obj[o].sp]
  /\ t \in Machines
  /\ Exact(t.obj, Plus(Minus(e, s.activeContext), o), {}) /\ Counted(t.obj, {})
  /\ \A x \in Oops : x # s.activeContext => t.obj[x] = Nothing \/ SameBut(s.obj[x], t.obj[x], x, {})
  /\ \/ t.obj[s.activeContext] = Nothing
     \/ /\ t.obj[s.activeContext].kind = s.obj[s.activeContext].kind
        /\ t.obj[s.activeContext].ip = FALSE
        /\ t.obj[s.activeContext].f[SenderIndex] = NilPointer
        /\ \A i \in Fields \ {SenderIndex} :
             t.obj[s.activeContext].f[i] = s.obj[s.activeContext].f[i]
  /\ SameBut(s.obj[o], t.obj[o], o, {})

LEMMA Leave ==
  ASSUME NEW s \in Machines, NEW e, NEW o \in Oops, Exact(s.obj, e, {}), Counted(s.obj, {}),
         e[s.activeContext] >= 1, o # s.activeContext, s.obj[o].kind # "free"
  PROVE  Left(s, returnToActiveContext(s, o), o, e)
<1> DEFINE a == s.activeContext
           c == Plus(e, o)
           up == countUp(s, o)
           store == storePointer(up, SenderIndex, a, NilPointer)
           m == [store.obj EXCEPT ![a].ip = FALSE]
           left == nilContextFields(up)
           down == countDown(left, a)
           act == [down EXCEPT !.activeContext = o]
           t == returnToActiveContext(s, o)
<1>1. a \in Oops /\ e \in [Oops -> Nat] /\ c \in [Oops -> Nat] /\ c[a] = e[a] /\ c[a] >= 1 /\ c[o] >= 1
  <2>1. a \in Oops /\ e \in [Oops -> Nat]
    BY MachineIs DEF Exact
  <2>2. c \in [Oops -> Nat] /\ c[o] >= 1
    BY <2>1, PlusMinus
  <2>3. c[a] = e[a]
    BY <2>1 DEF Plus
  <2> HIDE DEF a, c
  <2> QED
    BY <2>1, <2>2, <2>3 DEF a
<1>2. Leads(s, up, c, {}, {} \ {o}, {}) /\ Keeps(s.obj, up.obj, {})
  <2>1. PICK D : D = {}
    OBVIOUS
  <2>2. Leads(s, up, c, D, {} \ {o}, {}) /\ Keeps(s.obj, up.obj, {})
    <3>1. Exact(s.obj, e, D)
      BY <2>1
    <3> HIDE DEF up, c
    <3> QED
      BY <3>1, CountUp DEF up, c
  <2> QED
    BY <2>1, <2>2
<1> HIDE DEF up, c
<1>3. /\ up = With(s, up.obj) /\ Exact(up.obj, c, {}) /\ Counted(up.obj, {}) /\ up.obj \in [Oops -> Objects]
  <2>1. {} \ {o} = {}
    OBVIOUS
  <2> QED
    BY <1>2, <2>1 DEF Leads, Exact
<1>4. up \in Machines /\ up.activeContext = a
  BY <1>3, WithIs
<1>5. Stored(up, store, SenderIndex, a, NilPointer, c, {}, {})
  <2>1. up.obj[a].kind # "free"
    BY <1>1, <1>3, Referenced
  <2>2. Usable(up, NilPointer)
    BY NilIsNoOop DEF Usable
  <2> HIDE DEF a
  <2> QED
    BY <1>1, <1>3, <1>4, <2>1, <2>2, StoreField, FieldsAre
<1> HIDE DEF store
<1>6. /\ store = With(up, store.obj) /\ Exact(store.obj, c, {}) /\ Counted(store.obj, {})
      /\ store.obj \in [Oops -> Objects]
      /\ Changes(up.obj, store.obj, {<<a, SenderIndex>>})
      /\ SameBut(up.obj[a], store.obj[a], a, {<<a, SenderIndex>>})
      /\ store.obj[a].f[SenderIndex] = NilPointer
  <2>1. {} \ {NilPointer} = {}
    OBVIOUS
  <2> QED
    BY <1>5, <2>1 DEF Stored, Leads, Exact
<1>7. store = With(s, store.obj)
  BY <1>3, <1>6, WithIs
<1>8. left = With(s, m)
  <2>1. left = [store EXCEPT !.obj[a].ip = FALSE]
    BY <1>4 DEF nilContextFields, store
  <2>2. store = [obj |-> store.obj, full |-> s.full, variable |-> s.variable,
                 activeContext |-> s.activeContext, stackPointer |-> s.stackPointer]
    BY <1>6, <1>7, WithIs
  <2>3. left = With(store, m)
    <3> HIDE DEF left
    <3> QED
      BY <2>1, <2>2 DEF With
  <2> HIDE DEF left, m
  <2> QED
    BY <2>3, <1>6, <1>7, WithIs
<1> HIDE DEF left
<1>9. /\ m[a] = [store.obj[a] EXCEPT !.ip = FALSE] /\ \A x \in Oops : x # a => m[x] = store.obj[x]
      /\ m = [x \in Oops |-> m[x]]
  BY <1>1, <1>6
<1> HIDE DEF m
<1>10. /\ m[a] \in Objects /\ m[a].f = store.obj[a].f /\ m[a].count = store.obj[a].count
       /\ m[a].kind = store.obj[a].kind /\ m[a].ip = FALSE
  <2>1. store.obj[a] \in Objects
    BY <1>1, <1>6
  <2> HIDE DEF a
  <2> QED
    BY <1>9, <2>1 DEF Objects
<1>11. store.obj[a].kind # "free"
  BY <1>1, <1>6, Referenced
<1>12. Marks(store.obj, m, a) /\ m \in [Oops -> Objects]
  BY <1>6, <1>9, <1>10, <1>11 DEF Marks
<1>13. Exact(m, c, {}) /\ Counted(m, {})
  <2> HIDE DEF a
  <2> QED
    BY <1>1, <1>6, <1>11, <1>12, MarksExact, MarksCounted
<1>14. left.obj = m /\ left \in Machines /\ left.activeContext = a /\ left.full = s.full /\ left.variable = s.variable
  BY <1>8, <1>12, WithIs
<1>15. Leads(left, down, Minus(c, a), {}, {}, {})
  <2>1. PICK D : D = {}
    OBVIOUS
  <2>2. Exact(left.obj, c, D) /\ Counted(left.obj, {}) /\ \A d \in D : Minus(c, a)[d[1]] >= 1
    BY <1>13, <1>14, <2>1
  <2> HIDE DEF a, down
  <2>3. Leads(left, down, Minus(c, a), D, {}, {})
    BY <1>1, <1>14, <2>2, CountDown DEF down
  <2> QED
    BY <2>1, <2>3
<1> HIDE DEF down
<1>16. /\ down = With(left, down.obj) /\ Exact(down.obj, Minus(c, a), {}) /\ Counted(down.obj, {})
       /\ Changes(m, down.obj, {}) /\ down.obj \in [Oops -> Objects]
  BY <1>14, <1>15 DEF Leads, Exact
<1>17. Minus(c, a) = Plus(Minus(e, a), o)
  BY <1>1, PlusMinusCommute DEF c
<1>18. down = [obj |-> down.obj, full |-> s.full, variable |-> s.variable, activeContext |-> a,
               stackPointer |-> down.stackPointer] /\ down \in Machines
  BY <1>14, <1>16, WithIs
<1>19. /\ act = [obj |-> down.obj, full |-> s.full, variable |-> s.variable, activeContext |-> o,
                 stackPointer |-> down.stackPointer]
       /\ act.obj = down.obj /\ act.activeContext = o
  BY <1>18
<1>20. t = [act EXCEPT !.stackPointer = act.obj[o].sp]
  <2>1. t = fetchContextRegisters(act)
    BY Zenon DEF returnToActiveContext, act, down, left, up
  <2> HIDE DEF act, t
  <2> QED
    BY <2>1, <1>19 DEF fetchContextRegisters
<1>21. ASSUME NEW x \in Oops, x # a PROVE down.obj[x] = Nothing \/ SameBut(s.obj[x], down.obj[x], x, {})
  <2>1. SUFFICES ASSUME down.obj[x] # Nothing PROVE SameBut(s.obj[x], down.obj[x], x, {})
    OBVIOUS
  <2>2. SameBut(m[x], down.obj[x], x, {}) /\ down.obj[x].kind # "free"
    BY <1>16, <2>1 DEF Changes, Exact
  <2>3. m[x] = store.obj[x] /\ m[x] # Nothing
    BY <1>9, <1>21, <2>2, NothingIs DEF SameBut
  <2>4. SameBut(up.obj[x], store.obj[x], x, {<<a, SenderIndex>>})
    BY <1>6, <2>3 DEF Changes
  <2>5. SameBut(s.obj[x], up.obj[x], x, {})
    BY <1>2 DEF Keeps
  <2> QED
    BY <1>21, <2>2, <2>3, <2>4, <2>5 DEF SameBut
<1>22. SameBut(s.obj[o], down.obj[o], o, {})
  <2>1. Minus(c, a)[o] >= 1
    BY <1>1 DEF Minus
  <2>2. down.obj[o].kind # "free"
    BY <1>16, <2>1, Referenced
  <2> QED
    BY <1>21, <2>2, NothingIs
<1>23. \/ down.obj[a] = Nothing
       \/ /\ down.obj[a].kind = s.obj[a].kind
          /\ down.obj[a].ip = FALSE
          /\ down.obj[a].f[SenderIndex] = NilPointer
          /\ \A i \in Fields \ {SenderIndex} : down.obj[a].f[i] = s.obj[a].f[i]
  <2>1. SUFFICES ASSUME down.obj[a] # Nothing
                 PROVE  /\ down.obj[a].kind = s.obj[a].kind
                        /\ down.obj[a].ip = FALSE
                        /\ down.obj[a].f[SenderIndex] = NilPointer
                        /\ \A i \in Fields \ {SenderIndex} : down.obj[a].f[i] = s.obj[a].f[i]
    OBVIOUS
  <2>2. SameBut(m[a], down.obj[a], a, {})
    BY <1>1, <1>16, <2>1 DEF Changes
  <2>3. SameBut(s.obj[a], up.obj[a], a, {})
    BY <1>1, <1>2 DEF Keeps
  <2> HIDE DEF a
  <2>4. \A i \in Fields \ {SenderIndex} : down.obj[a].f[i] = s.obj[a].f[i]
    BY <1>6, <1>10, <2>2, <2>3 DEF SameBut
  <2>5. down.obj[a].f[SenderIndex] = NilPointer
    BY <1>6, <1>10, <2>2, FieldsAre DEF SameBut
  <2> QED
    BY <1>6, <1>10, <2>2, <2>3, <2>4, <2>5 DEF SameBut
<1>24. s.obj[o].sp \in 0..StackSize
  BY MachineIs DEF Objects
<1>25. /\ t = [obj |-> down.obj, full |-> s.full, variable |-> s.variable, activeContext |-> o,
               stackPointer |-> s.obj[o].sp]
       /\ t.obj = down.obj
  <2>1. act.obj[o].sp = s.obj[o].sp
    BY <1>19, <1>22 DEF SameBut
  <2> HIDE DEF act, t
  <2> QED
    BY <1>19, <1>20, <2>1
<1>26. t \in Machines
  <2> HIDE DEF t
  <2> QED
    BY <1>16, <1>24, <1>25, MachineIs DEF Machines
<1> HIDE DEF t
<1>27. Exact(t.obj, Plus(Minus(e, a), o), {}) /\ Counted(t.obj, {})
  BY <1>16, <1>17, <1>25
<1> QED
  BY <1>21, <1>22, <1>23, <1>25, <1>26, <1>27 DEF Left, t

(* The result is counted until it has been pushed.                           *)
ReturnedTo(s, t, o, result) ==
  /\ Good(t)
  /\ t = [obj |-> t.obj, full |-> s.full, variable |-> s.variable, activeContext |-> o,
          stackPointer |-> s.obj[o].sp + 1]
  /\ \A x \in Oops \ {s.activeContext} :
       t.obj[x] = Nothing \/ SameBut(s.obj[x], t.obj[x], x, {<<o, s.obj[o].sp + 1>>})

LEMMA Return ==
  ASSUME NEW s, Good(s), NEW v, Usable(s, v), NEW o \in Oops, o # s.activeContext,
         s.obj[o].kind \in Contextual, s.obj[o].ip = TRUE
  PROVE  ReturnedTo(s, countDown(push(returnToActiveContext(countUp(s, v), o), v), v), o, v)
<1> DEFINE a == s.activeContext
           h == Held(s)
           e == Plus(h, v)
           i == s.obj[o].sp + 1
           s0 == countUp(s, v)
           left == returnToActiveContext(s0, o)
           store == storePointer(left, i, o, v)
           pushed == push(left, v)
           t == countDown(pushed, v)
           c == Plus(Minus(e, a), o)
<1>1. /\ s \in Machines /\ Exact(s.obj, h, {}) /\ Counted(s.obj, {}) /\ a \in Oops
      /\ h \in [Oops -> Nat] /\ h[a] >= 1
  BY HeldIs, MachineIs DEF Good
<1>2. s.obj[o] \in Objects /\ s.obj[o].kind # "free" /\ i - 1 = s.obj[o].sp
      /\ s.obj[o].sp \in Nat /\ s.obj[o].sp < StackSize /\ i \in Fields /\ i >= 1 /\ i \in 0..StackSize
  <2>1. s.obj[o] \in Objects /\ s.obj[o].kind # "free"
    BY <1>1 DEF Exact, Contextual
  <2>2. s.obj[o].sp < StackSize
    BY DEF Good, Resting
  <2>3. s.obj[o].sp \in 0..StackSize
    BY <2>1 DEF Objects
  <2>4. PICK k : k = s.obj[o].sp
    OBVIOUS
  <2>5. (k + 1) - 1 = k /\ k \in Nat /\ k + 1 \in Fields /\ k + 1 >= 1 /\ k + 1 \in 0..StackSize
    BY <2>2, <2>3, <2>4, FieldsAre
  <2> QED
    BY <2>1, <2>2, <2>3, <2>4, <2>5
<1>3. /\ e \in [Oops -> Nat] /\ e[a] >= 1 /\ (v \in Oops => e[v] >= 1)
      /\ Minus(e, a) = Plus(Minus(h, a), v) /\ Minus(e, a) \in [Oops -> Nat] /\ Minus(h, a) \in [Oops -> Nat]
  <2>1. e \in [Oops -> Nat] /\ e[a] >= h[a] /\ (v \in Oops => e[v] >= 1)
    BY <1>1, PlusMinus
  <2>2. e[a] \in Nat /\ h[a] \in Nat
    BY <1>1, <2>1
  <2> HIDE DEF e
  <2>3. e[a] >= 1
    BY <1>1, <2>1, <2>2
  <2> QED
    BY <1>1, <2>1, <2>3, PlusMinus, PlusMinusCommute DEF e
<1>4. c \in [Oops -> Nat] /\ c[o] >= 1 /\ c = Plus(Plus(Minus(h, a), o), v)
      /\ (v \in Oops => c[v] >= 1) /\ Minus(c, v) = Plus(Minus(h, a), o)
  <2>1. Plus(Minus(h, a), o) \in [Oops -> Nat]
    BY <1>3, PlusMinus
  <2>2. c \in [Oops -> Nat] /\ c[o] >= 1 /\ c = Plus(Plus(Minus(h, a), o), v)
    BY <1>3, PlusMinus, PlusMinusCommute
  <2> HIDE DEF c
  <2> QED
    BY <2>1, <2>2, PlusMinus
<1>5. Leads(s, s0, e, {}, {}, {}) /\ Keeps(s.obj, s0.obj, {})
  <2>1. PICK D : D = {}
    OBVIOUS
  <2>2. {} \ {v} = {} /\ (v \in Oops => s.obj[v].kind # "free")
    BY DEF Usable
  <2>3. Exact(s.obj, h, D)
    BY <1>1, <2>1
  <2> HIDE DEF s0, e, h
  <2>4. Leads(s, s0, e, D, {} \ {v}, {}) /\ Keeps(s.obj, s0.obj, {})
    BY <1>1, <2>2, <2>3, CountUp DEF s0, e
  <2> QED
    BY <2>1, <2>2, <2>4
<1> HIDE DEF s0, e, h, c
<1>6. /\ s0 = With(s, s0.obj) /\ s0 \in Machines /\ Exact(s0.obj, e, {}) /\ Counted(s0.obj, {})
      /\ s0.activeContext = a /\ s0.full = s.full /\ s0.variable = s.variable
  <2>1. s0 = With(s, s0.obj) /\ Exact(s0.obj, e, {}) /\ Counted(s0.obj, {}) /\ s0.obj \in [Oops -> Objects]
    BY <1>5 DEF Leads, Exact
  <2> QED
    BY <1>1, <2>1, WithIs
<1>7. Left(s0, left, o, e)
  <2>1. s0.obj[o].kind # "free"
    BY <1>2, <1>5 DEF Keeps, SameBut
  <2> HIDE DEF left
  <2> QED
    BY <1>3, <1>6, <2>1, Leave DEF left
<1> HIDE DEF left
<1>8. s0.obj[o].sp = i - 1
  BY <1>2, <1>5 DEF Keeps, SameBut
<1>9. /\ left = [obj |-> left.obj, full |-> s.full, variable |-> s.variable, activeContext |-> o,
                 stackPointer |-> i - 1]
      /\ left \in Machines /\ left.activeContext = o /\ left.stackPointer = i - 1
      /\ Exact(left.obj, c, {}) /\ Counted(left.obj, {})
  <2> HIDE DEF i
  <2> QED
    BY <1>6, <1>7, <1>8 DEF Left, c
<1>10. ASSUME NEW x \in Oops, left.obj[x].kind # "free"
       PROVE  /\ x # a => SameBut(s.obj[x], left.obj[x], x, {})
              /\ x = a => /\ left.obj[x].kind = s.obj[x].kind /\ left.obj[x].ip = FALSE
                          /\ left.obj[x].f[SenderIndex] = NilPointer
                          /\ \A j \in Fields \ {SenderIndex} : left.obj[x].f[j] = s.obj[x].f[j]
  <2>1. left.obj[x] # Nothing
    BY <1>10, NothingIs
  <2>2. SameBut(s.obj[x], s0.obj[x], x, {})
    BY <1>5 DEF Keeps
  <2> HIDE DEF a
  <2> QED
    BY <1>6, <1>7, <2>1, <2>2 DEF Left, SameBut
<1>11. PICK rank : Linked(s.obj, rank, {})
  BY DEF Good
<1>12. Linked(left.obj, rank, {})
  <2>1. \A x \in Oops : left.obj[x].kind # "free" =>
           /\ left.obj[x].kind = s.obj[x].kind /\ left.obj[x].f[ReceiverIndex] = s.obj[x].f[ReceiverIndex]
           /\ left.obj[x].f[SenderIndex] \in {s.obj[x].f[SenderIndex], NilPointer}
    <3> SUFFICES ASSUME NEW x \in Oops, left.obj[x].kind # "free"
                 PROVE  /\ left.obj[x].kind = s.obj[x].kind
                        /\ left.obj[x].f[ReceiverIndex] = s.obj[x].f[ReceiverIndex]
                        /\ left.obj[x].f[SenderIndex] \in {s.obj[x].f[SenderIndex], NilPointer}
      OBVIOUS
    <3>1. ReceiverIndex \in Fields \ {SenderIndex} /\ SenderIndex \in Fields
      BY FieldsAre
    <3>2. CASE x = a
      BY <1>10, <3>1, <3>2
    <3>3. CASE x # a
      BY <1>10, <3>1, <3>3 DEF SameBut
    <3> QED
      BY <3>2, <3>3
  <2> QED
    BY <1>9, <1>11, <2>1, LinksCut
<1>13. Stored(left, store, i, o, v, c, {}, {})
  <2>1. left.obj[o].kind # "free"
    BY <1>4, <1>9, Referenced
  <2>2. Usable(left, v)
    BY <1>4, <1>9, Referenced DEF Usable
  <2> HIDE DEF i, store
  <2> QED
    BY <1>2, <1>4, <1>9, <2>1, <2>2, StoreField DEF store
<1> HIDE DEF store
<1>14. /\ store = With(left, store.obj) /\ Exact(store.obj, c, {}) /\ Counted(store.obj, {})
       /\ store.obj \in [Oops -> Objects]
       /\ Changes(left.obj, store.obj, {<<o, i>>})
  <2>1. {} \ {v} = {}
    OBVIOUS
  <2> QED
    BY <1>13, <2>1 DEF Stored, Leads, Exact, Counted
<1>15. store = [obj |-> store.obj, full |-> s.full, variable |-> s.variable, activeContext |-> o,
                stackPointer |-> i - 1]
  <2> HIDE DEF i
  <2> QED
    BY <1>9, <1>14, WithIs
<1>16. /\ pushed = [obj |-> store.obj, full |-> s.full, variable |-> s.variable, activeContext |-> o,
                    stackPointer |-> i]
       /\ pushed.obj = store.obj
  <2>1. (i - 1) + 1 = i
    BY <1>2
  <2>2. pushed = [store EXCEPT !.stackPointer = store.stackPointer + 1]
    BY <1>9, <2>1 DEF push, store
  <2> HIDE DEF i, pushed
  <2> QED
    BY <1>15, <2>1, <2>2
<1> HIDE DEF pushed
<1>17. pushed \in Machines
  <2>1. s.full \in BOOLEAN /\ s.variable \in Values
    BY <1>1, MachineIs
  <2> HIDE DEF i
  <2> QED
    BY <1>2, <1>14, <1>16, <2>1 DEF Machines
<1>18. Leads(pushed, t, Minus(c, v), {}, {}, {})
  <2>1. PICK D : D = {}
    OBVIOUS
  <2>2. Exact(pushed.obj, c, D) /\ Counted(pushed.obj, {}) /\ \A d \in D : Minus(c, v)[d[1]] >= 1
    BY <1>14, <1>16, <2>1
  <2> HIDE DEF t
  <2>3. Leads(pushed, t, Minus(c, v), D, {}, {})
    BY <1>4, <1>17, <2>2, CountDown DEF t
  <2> QED
    BY <2>1, <2>3
<1> HIDE DEF t
<1>19. /\ t = With(pushed, t.obj) /\ Exact(t.obj, Plus(Minus(h, a), o), {}) /\ Counted(t.obj, {})
       /\ Changes(store.obj, t.obj, {}) /\ t.obj \in [Oops -> Objects]
  BY <1>4, <1>16, <1>18 DEF Leads, Exact
<1>20. /\ t = [obj |-> t.obj, full |-> s.full, variable |-> s.variable, activeContext |-> o,
               stackPointer |-> i]
       /\ t \in Machines /\ t.variable = s.variable /\ t.activeContext = o
  <2> HIDE DEF i
  <2>1. t = With(pushed, t.obj) /\ t \in Machines
    BY <1>17, <1>19, WithIs
  <2>2. t = [obj |-> t.obj, full |-> s.full, variable |-> s.variable, activeContext |-> o,
             stackPointer |-> i]
    BY <1>16, <1>17, <2>1, WithIs
  <2> QED
    BY <2>1, <2>2
<1>21. Exact(t.obj, Held(t), {})
  BY <1>1, <1>19, <1>20, HeldMoves DEF h
<1>22. Changes(left.obj, t.obj, {<<o, i>>})
  <2>1. \A x \in Oops : t.obj[x].kind = "free" => t.obj[x] = Nothing
    BY <1>19 DEF Exact
  <2>2. {} \subseteq {<<o, i>>}
    OBVIOUS
  <2>3. PICK W : W = {<<o, i>>}
    OBVIOUS
  <2> HIDE DEF i
  <2> QED
    BY <1>14, <1>19, <2>1, <2>2, <2>3, ChangesTrans
<1>23. Linked(t.obj, rank, {})
  <2>1. PICK V : V = {<<o, i>>}
    OBVIOUS
  <2>2. \A x \in Oops \ {} : <<x, SenderIndex>> \notin V /\ <<x, ReceiverIndex>> \notin V
    <3> HIDE DEF i
    <3> QED
      BY <1>2, <2>1, FieldsAre
  <2>3. Changes(left.obj, t.obj, V)
    BY <1>22, <2>1
  <2> QED
    BY <1>12, <1>21, <2>2, <2>3, LinksKept
<1>24. ASSUME NEW x \in Oops, t.obj[x].kind # "free"
       PROVE  SameBut(left.obj[x], t.obj[x], x, {<<o, i>>}) /\ left.obj[x].kind # "free"
  <2>1. t.obj[x] # Nothing
    BY <1>24, NothingIs
  <2> QED
    BY <1>22, <1>24, <2>1 DEF Changes, SameBut
<1>25. Resting(t.obj, o)
  <2>1. ASSUME NEW x \in Oops \ {o}, t.obj[x].kind \in Contextual, t.obj[x].ip = TRUE
        PROVE  t.obj[x].sp < StackSize
    <3>1. left.obj[x].kind # "free" /\ SameBut(left.obj[x], t.obj[x], x, {<<o, i>>})
      BY <1>24, <2>1 DEF Contextual
    <3>2. x # a /\ SameBut(s.obj[x], left.obj[x], x, {})
      BY <1>10, <2>1, <3>1 DEF SameBut
    <3> QED
      BY <2>1, <3>1, <3>2 DEF Good, Resting, SameBut
  <2> QED
    BY <2>1 DEF Resting
<1>26. Running(t.obj, o)
  <2>1. t.obj[o].kind # "free"
    BY <1>20, <1>21, HeldIs, Referenced
  <2> QED
    BY <1>10, <1>24, <2>1 DEF Running, SameBut
<1>27. Good(t)
  BY <1>19, <1>20, <1>21, <1>23, <1>25, <1>26 DEF Good
<1>28. \A x \in Oops \ {a} : t.obj[x] = Nothing \/ SameBut(s.obj[x], t.obj[x], x, {<<o, i>>})
  <2>1. \A x \in Oops : t.obj[x].kind = "free" => t.obj[x] = Nothing
    BY <1>19 DEF Exact
  <2> SUFFICES ASSUME NEW x \in Oops \ {a}, t.obj[x] # Nothing
               PROVE  SameBut(s.obj[x], t.obj[x], x, {<<o, i>>})
    OBVIOUS
  <2>2. SameBut(left.obj[x], t.obj[x], x, {<<o, i>>}) /\ left.obj[x].kind # "free"
    BY <1>24, <2>1
  <2>3. SameBut(s.obj[x], left.obj[x], x, {})
    BY <1>10, <2>2
  <2> HIDE DEF i, a
  <2> QED
    BY <2>2, <2>3 DEF SameBut
<1> QED
  BY <1>20, <1>27, <1>28 DEF ReturnedTo, t, pushed, left, s0

----------------------------------------------------------------------------
(* Stores into temporaries and into the variable of Self; blocks.            *)

LEMMA Home ==
  ASSUME NEW s, Good(s)
  PROVE  /\ homeContext(s) \in Oops /\ s.obj[homeContext(s)].kind = "method"
         /\ \/ s.obj[s.activeContext].kind = "method" /\ homeContext(s) = s.activeContext
            \/ s.obj[s.activeContext].kind = "block"
               /\ homeContext(s) = s.obj[s.activeContext].f[ReceiverIndex]
<1>1. PICK rank : Linked(s.obj, rank, {})
  BY DEF Good
<1>2. s.activeContext \in Oops /\ s.obj[s.activeContext].kind \in {"method", "block"}
  BY MachineIs DEF Good, Running, Contextual
<1>3. s.obj[s.activeContext].kind = "block" =>
        HomeOK(s.obj, rank, s.activeContext, s.obj[s.activeContext].f[ReceiverIndex])
  BY <1>1, <1>2 DEF Linked
<1> QED
  BY <1>2, <1>3 DEF homeContext, homeOf, isBlockContext, HomeOK

StoredIn(s, t, x, i) ==
  /\ Good(t)
  /\ t = [obj |-> t.obj, full |-> s.full, variable |-> s.variable, activeContext |-> s.activeContext,
          stackPointer |-> s.stackPointer]
  /\ Changes(s.obj, t.obj, {<<x, i>>})

LEMMA StoreHome ==
  ASSUME NEW s, Good(s), NEW i \in 1..StackSize, NEW v, Usable(s, v)
  PROVE  StoredIn(s, storePointer(s, i, homeContext(s), v), homeContext(s), i)
<1> DEFINE a == s.activeContext
           x == homeContext(s)
           h == Held(s)
           t == storePointer(s, i, x, v)
<1>1. /\ s \in Machines /\ Exact(s.obj, h, {}) /\ Counted(s.obj, {}) /\ a \in Oops
      /\ h \in [Oops -> Nat] /\ h[a] >= 1
  BY HeldIs, MachineIs DEF Good
<1>2. /\ x \in Oops /\ s.obj[x].kind = "method"
      /\ x = a \/ x = s.obj[a].f[ReceiverIndex]
  BY Home
<1>3. i \in Fields /\ i # SenderIndex /\ i # ReceiverIndex
  BY FieldsAre
<1> HIDE DEF x, h, t
<1>4. /\ t = With(s, t.obj) /\ Changes(s.obj, t.obj, {<<x, i>>}) /\ Counted(t.obj, {})
      /\ Exact(t.obj, h, {})
  <2>1. {} \ {v} = {}
    OBVIOUS
  <2>2. CASE x = a
    <3>1. Stored(s, t, i, x, v, h, {}, {})
      BY <1>1, <1>2, <1>3, <2>2, StoreField DEF t
    <3> QED
      BY <2>1, <3>1 DEF Stored, Leads
  <2>3. CASE x # a /\ x = s.obj[a].f[ReceiverIndex]
    <3> DEFINE e == Plus(h, x)
               D == {<<a, ReceiverIndex>>}
    <3>1. PICK F : F = {}
      OBVIOUS
    <3>2. Exact(s.obj, e, D)
      <4>1. Exact(s.obj, h, F) /\ <<a, ReceiverIndex>> \notin F /\ F \cup {<<a, ReceiverIndex>>} = D
        BY <1>1, <3>1
      <4> HIDE DEF a, D
      <4>2. Exact(s.obj, Plus(h, s.obj[a].f[ReceiverIndex]), F \cup {<<a, ReceiverIndex>>})
        BY <1>1, <4>1, SetAside, FieldsAre
      <4> QED
        BY <2>3, <4>1, <4>2
    <3>3. e \in [Oops -> Nat] /\ e[x] >= 1 /\ e[a] >= 1 /\ Minus(e, x) = h
      <4>1. e \in [Oops -> Nat] /\ e[a] >= h[a] /\ e[x] >= 1 /\ Minus(e, x) = h
        BY <1>1, <1>2, PlusMinus
      <4>2. e[a] \in Nat /\ h[a] \in Nat
        BY <1>1, <4>1
      <4> HIDE DEF e
      <4> QED
        BY <1>1, <4>1, <4>2
    <3> HIDE DEF e
    <3>4. \A d \in D : e[d[1]] >= 1
      <4> HIDE DEF a
      <4> QED
        BY <3>3
    <3>5. <<x, i>> \notin D
      BY <1>3, FieldsAre
    <3> HIDE DEF D
    <3>6. Stored(s, t, i, x, v, e, D, {})
      <4>1. v \in Values /\ (v \in Oops => s.obj[v].kind # "free") /\ s.obj[x].kind # "free"
        BY <1>2 DEF Usable
      <4> QED
        BY <1>1, <1>2, <1>3, <3>2, <3>3, <3>4, <3>5, <4>1, Store DEF t
    <3>7. /\ t = With(s, t.obj) /\ Changes(s.obj, t.obj, {<<x, i>>}) /\ Counted(t.obj, {})
          /\ Exact(t.obj, e, D)
      BY <2>1, <3>6 DEF Stored, Leads
    <3>8. t.obj[a].f[ReceiverIndex] = x
      <4>1. t.obj[a].kind # "free"
        BY <1>1, <3>3, <3>7, Referenced
      <4>2. SameBut(s.obj[a], t.obj[a], a, {<<x, i>>})
        BY <1>1, <3>7, <4>1, NothingIs DEF Changes
      <4>3. <<a, ReceiverIndex>> \notin {<<x, i>>}
        BY <1>3
      <4> HIDE DEF a
      <4> QED
        BY <2>3, <4>2, <4>3, FieldsAre DEF SameBut
    <3>9. Exact(t.obj, h, {})
      <4> HIDE DEF a
      <4>1. Exact(t.obj, e, F \cup {<<a, ReceiverIndex>>}) /\ <<a, ReceiverIndex>> \notin F
        BY <3>1, <3>7 DEF D
      <4>2. Exact(t.obj, Minus(e, t.obj[a].f[ReceiverIndex]), F)
        BY <1>1, <3>3, <3>8, <4>1, PutBack, FieldsAre
      <4> QED
        BY <3>1, <3>3, <3>8, <4>2
    <3> QED
      BY <3>7, <3>9
  <2> QED
    BY <1>2, <2>2, <2>3
<1>5. t.obj \in [Oops -> Objects]
  BY <1>4 DEF Exact
<1>6. /\ t \in Machines
      /\ t = [obj |-> t.obj, full |-> s.full, variable |-> s.variable, activeContext |-> s.activeContext,
              stackPointer |-> s.stackPointer]
  BY <1>1, <1>4, <1>5, WithIs
<1>7. t.activeContext = s.activeContext /\ Held(t) = h
  BY <1>6 DEF Held, h
<1>8. Good(t)
  <2>1. PICK W : W = {<<x, i>>}
    OBVIOUS
  <2>2. \A o \in Oops : <<o, SenderIndex>> \notin W /\ <<o, ReceiverIndex>> \notin W
    BY <1>3, <2>1
  <2>3. Changes(s.obj, t.obj, W) /\ Exact(t.obj, Held(t), {}) /\ Counted(t.obj, {})
    BY <1>4, <1>7, <2>1
  <2> QED
    BY <1>6, <1>7, <2>2, <2>3, StaysGood
<1> QED
  BY <1>4, <1>6, <1>8 DEF StoredIn, t, x

VariableStored(s, t) ==
  /\ Good(t)
  /\ t = [obj |-> t.obj, full |-> s.full, variable |-> t.variable, activeContext |-> s.activeContext,
          stackPointer |-> s.stackPointer]
  /\ Changes(s.obj, t.obj, {})

LEMMA StoreVariable ==
  ASSUME NEW s, Good(s), NEW v, Usable(s, v)
  PROVE  VariableStored(s, storeVariable(s, v))
<1> DEFINE a == s.activeContext
           z == [o \in Oops |-> 0]
           h == Held(s)
           e == Plus(h, v)
           c == Minus(e, s.variable)
           up == countUp(s, v)
           down == countDown(up, s.variable)
           t == storeVariable(s, v)
<1>1. /\ s \in Machines /\ Exact(s.obj, h, {}) /\ Counted(s.obj, {}) /\ a \in Oops
      /\ h \in [Oops -> Nat] /\ h[a] >= 1 /\ v \in Values /\ z \in [Oops -> Nat]
  BY HeldIs, MachineIs DEF Good, Usable
<1>2. t = [down EXCEPT !.variable = v]
  BY Zenon DEF storeVariable
<1>3. h = Plus(Plus(z, s.variable), a) /\ h = Plus(Plus(z, a), s.variable)
  BY <1>1, PlusMinusCommute DEF Held
<1>4. e \in [Oops -> Nat] /\ (s.variable \in Oops => e[s.variable] >= 1)
      /\ c = Plus(Plus(z, a), v)
  <2> DEFINE y == Plus(z, a)
  <2>1. y \in [Oops -> Nat]
    BY <1>1, PlusMinus
  <2>2. h = Plus(y, s.variable)
    BY <1>3
  <2>3. e = Plus(Plus(y, v), s.variable) /\ Plus(y, v) \in [Oops -> Nat]
    <3> HIDE DEF y, h
    <3> QED
      BY <2>1, <2>2, PlusMinus, PlusMinusCommute
  <2>4. e \in [Oops -> Nat] /\ c = Plus(y, v) /\ (s.variable \in Oops => e[s.variable] >= 1)
    <3> HIDE DEF y, e
    <3> QED
      BY <2>3, PlusMinus
  <2> QED
    BY <2>4
<1> HIDE DEF up, e, h, c, z
<1>5. /\ Leads(s, up, e, {}, {}, {}) /\ Keeps(s.obj, up.obj, {})
  <2>1. PICK D : D = {}
    OBVIOUS
  <2>2. {} \ {v} = {} /\ (v \in Oops => s.obj[v].kind # "free")
    BY DEF Usable
  <2>3. Exact(s.obj, h, D)
    BY <1>1, <2>1
  <2>4. Leads(s, up, e, D, {} \ {v}, {}) /\ Keeps(s.obj, up.obj, {})
    BY <1>1, <2>2, <2>3, CountUp DEF up, e
  <2> QED
    BY <2>1, <2>2, <2>4
<1>6. up = With(s, up.obj) /\ up \in Machines /\ Exact(up.obj, e, {}) /\ Counted(up.obj, {})
  <2>1. up = With(s, up.obj) /\ Exact(up.obj, e, {}) /\ Counted(up.obj, {}) /\ up.obj \in [Oops -> Objects]
    BY <1>5 DEF Leads, Exact
  <2> QED
    BY <1>1, <2>1, WithIs
<1>7. Leads(up, down, c, {}, {}, {})
  <2>1. PICK D : D = {}
    OBVIOUS
  <2>2. Exact(up.obj, e, D) /\ Counted(up.obj, {}) /\ \A d \in D : Minus(e, s.variable)[d[1]] >= 1
    BY <1>6, <2>1
  <2> HIDE DEF down
  <2>3. Leads(up, down, Minus(e, s.variable), D, {}, {})
    BY <1>4, <1>6, <2>2, CountDown DEF down
  <2> QED
    BY <2>1, <2>3 DEF c
<1> HIDE DEF down
<1>8. /\ down = With(s, down.obj) /\ Exact(down.obj, c, {}) /\ Counted(down.obj, {})
      /\ down.obj \in [Oops -> Objects] /\ Changes(up.obj, down.obj, {})
  <2>1. down = With(up, down.obj) /\ Exact(down.obj, c, {}) /\ Counted(down.obj, {})
        /\ down.obj \in [Oops -> Objects] /\ Changes(up.obj, down.obj, {})
    BY <1>7 DEF Leads, Exact
  <2> QED
    BY <1>1, <1>6, <2>1, WithIs
<1>9. down = [obj |-> down.obj, full |-> s.full, variable |-> s.variable,
              activeContext |-> s.activeContext, stackPointer |-> s.stackPointer]
  BY <1>1, <1>8, WithIs
<1>10. /\ t = [obj |-> down.obj, full |-> s.full, variable |-> v,
               activeContext |-> s.activeContext, stackPointer |-> s.stackPointer]
       /\ t.obj = down.obj /\ t.variable = v /\ t.activeContext = s.activeContext
  <2> HIDE DEF t
  <2> QED
    BY <1>2, <1>9
<1> HIDE DEF t
<1>11. t \in Machines
  BY <1>1, <1>8, <1>10, MachineIs DEF Machines
<1>12. Held(t) = c
  <2>1. Held(t) = Plus(Plus(z, v), a)
    BY <1>10 DEF Held, z
  <2> QED
    BY <1>1, <1>4, <2>1, PlusMinusCommute
<1>13. Changes(s.obj, t.obj, {})
  <2>1. Changes(s.obj, up.obj, {})
    BY <1>5 DEF Leads
  <2>2. \A x \in Oops : down.obj[x].kind = "free" => down.obj[x] = Nothing
    BY <1>8 DEF Exact
  <2>3. PICK W : W = {}
    OBVIOUS
  <2>4. Changes(s.obj, up.obj, W) /\ Changes(up.obj, down.obj, W)
    BY <1>8, <2>1, <2>3
  <2>5. Changes(s.obj, down.obj, W)
    BY <2>2, <2>4, ChangesTrans
  <2> QED
    BY <1>10, <2>3, <2>5
<1>14. Good(t)
  <2>1. PICK W : W = {}
    OBVIOUS
  <2>2. \A o \in Oops : <<o, SenderIndex>> \notin W /\ <<o, ReceiverIndex>> \notin W
    BY <2>1
  <2>3. Changes(s.obj, t.obj, W) /\ Exact(t.obj, Held(t), {}) /\ Counted(t.obj, {})
    BY <1>8, <1>10, <1>12, <1>13, <2>1
  <2> QED
    BY <1>10, <1>11, <2>2, <2>3, StaysGood
<1> QED
  BY <1>10, <1>13, <1>14 DEF VariableStored, t

(* blockCopy: takes the active context and a number from the stack.          *)
Copied(s, t) ==
  /\ Good(t) /\ t.activeContext = s.activeContext
  /\ \A x \in Oops \ {s.activeContext} :
       s.obj[x].kind # "free" => t.obj[x] = Nothing \/ SameBut(s.obj[x], t.obj[x], x, {})

LEMMA BlockCopy ==
  ASSUME NEW s, Good(s), NEW n \in 0..StackSize, s.stackPointer >= 2,
         stackValue(s, 1) = s.activeContext, Free(s) # {}
  PROVE  Copied(s, primitiveBlockCopy(s, n))
<1> DEFINE a == s.activeContext
           h == Held(s)
           p == pop(s, 2)
           o == Fresh(s)
           i == s.stackPointer - 1
           home == homeContext(s)
           new == instantiate(p, "block")
           m == [new.obj EXCEPT ![o].ip = TRUE, ![o].blockArgumentCount = n]
           made == [new EXCEPT !.obj[o].ip = TRUE, !.obj[o].blockArgumentCount = n]
           given == storePointer(made, ReceiverIndex, o, home)
           u == storePointer(given, i, a, o)
           t == primitiveBlockCopy(s, n)
<1>1. /\ s \in Machines /\ Exact(s.obj, h, {}) /\ Counted(s.obj, {}) /\ a \in Oops
      /\ h \in [Oops -> Nat] /\ h[a] >= 1 /\ s.stackPointer \in Nat /\ s.stackPointer <= StackSize
  BY HeldIs, MachineIs DEF Good
<1>2. i \in Fields /\ i \in 1..StackSize /\ s.stackPointer - 2 = i - 1 /\ i \in Int /\ 2 <= s.stackPointer
  BY <1>1, FieldsAre
<1>3. Good(p) /\ p = [obj |-> s.obj, full |-> s.full, variable |-> s.variable, activeContext |-> a,
                      stackPointer |-> i - 1]
  <2>1. Good(p) /\ p = [obj |-> s.obj, full |-> s.full, variable |-> s.variable,
                        activeContext |-> s.activeContext, stackPointer |-> s.stackPointer - 2]
    BY <1>2, Pop
  <2> HIDE DEF p, i
  <2> QED
    BY <1>2, <2>1
<1>4. o = Fresh(p) /\ Free(p) # {}
  <2>1. Free(p) = Free(s)
    BY <1>3 DEF Free
  <2> QED
    BY <2>1 DEF Fresh
<1>5. t = push(given, o)
  BY Zenon DEF primitiveBlockCopy, homeContext
<1> HIDE DEF p, o, home, h, t
<1>6. p \in Machines /\ p.obj = s.obj /\ p.activeContext = a /\ p.stackPointer = i - 1
      /\ p.variable = s.variable /\ p.full = s.full /\ Exact(p.obj, h, {}) /\ Counted(p.obj, {})
  BY <1>1, <1>3 DEF Good
<1>7. Made(p, new, o, "block")
  BY <1>4, <1>6, Make DEF Kinds
<1> HIDE DEF new
<1>8. /\ o \in Oops /\ s.obj[o] = Nothing /\ s.obj[o].kind = "free" /\ new = With(p, new.obj) /\ new \in Machines
      /\ new.obj \in [Oops -> Objects] /\ Marks(p.obj, new.obj, o) /\ new.obj[o].kind = "block"
  BY <1>6, <1>7, NothingIs DEF Made, Marks
<1>9. made = With(new, m)
  <2>1. new = [obj |-> new.obj, full |-> new.full, variable |-> new.variable,
               activeContext |-> new.activeContext, stackPointer |-> new.stackPointer]
    BY <1>8, MachineIs
  <2> HIDE DEF made, m
  <2>2. made = [new EXCEPT !.obj = m]
    BY <2>1 DEF made, m
  <2> QED
    BY <2>2 DEF With
<1> HIDE DEF made
<1>10. m[o] = [new.obj[o] EXCEPT !.ip = TRUE, !.blockArgumentCount = n]
       /\ (\A x \in Oops : x # o => m[x] = new.obj[x]) /\ m = [x \in Oops |-> m[x]]
  BY <1>8
<1> HIDE DEF m
<1>11. Marks(s.obj, m, o) /\ m[o].kind = "block" /\ m[o].ip = TRUE
  <2>1. new.obj[o] \in Objects
    BY <1>8
  <2>2. m[o] \in Objects /\ m[o].kind = "block" /\ m[o].ip = TRUE /\ m[o].f = new.obj[o].f
        /\ m[o].count = new.obj[o].count
    BY <1>8, <1>10, <2>1 DEF Objects
  <2>3. m \in [Oops -> Objects]
    BY <1>8, <1>10, <2>2
  <2> QED
    BY <1>6, <1>8, <1>10, <2>2, <2>3 DEF Marks
<1>12. /\ made \in Machines /\ made.obj = m /\ made.activeContext = a /\ made.variable = s.variable
       /\ made.full = s.full /\ made.stackPointer = i - 1 /\ Exact(m, h, {}) /\ Counted(m, {o})
  <2>1. Exact(m, h, {}) /\ Counted(m, {} \cup {o})
    BY <1>1, <1>8, <1>11, MarksExact, MarksCounted
  <2>2. {} \cup {o} = {o}
    OBVIOUS
  <2>3. new.activeContext = a /\ new.variable = s.variable /\ new.full = s.full /\ new.stackPointer = i - 1
    <3> HIDE DEF i, a
    <3>1. With(p, new.obj) = [obj |-> new.obj, full |-> p.full, variable |-> p.variable,
                              activeContext |-> p.activeContext, stackPointer |-> p.stackPointer]
      BY <1>6, WithIs
    <3>2. new = [obj |-> new.obj, full |-> p.full, variable |-> p.variable,
                 activeContext |-> p.activeContext, stackPointer |-> p.stackPointer]
      BY <1>8, <3>1
    <3> QED
      BY <1>6, <3>2
  <2>4. m \in [Oops -> Objects]
    BY <1>11 DEF Marks
  <2> HIDE DEF i, a
  <2>5. With(new, m) = [obj |-> m, full |-> new.full, variable |-> new.variable,
                        activeContext |-> new.activeContext, stackPointer |-> new.stackPointer]
        /\ With(new, m) \in Machines
    BY <1>8, <2>4, WithIs
  <2>6. made = [obj |-> m, full |-> new.full, variable |-> new.variable,
                activeContext |-> new.activeContext, stackPointer |-> new.stackPointer]
    BY <1>9, <2>5
  <2> QED
    BY <1>9, <2>1, <2>2, <2>3, <2>5, <2>6
<1>13. home \in Oops /\ s.obj[home].kind = "method" /\ home # o /\ m[home] = s.obj[home] /\ Usable(made, home)
  <2>1. home \in Oops /\ s.obj[home].kind = "method"
    BY Home DEF home
  <2>2. home # o
    BY <1>8, <2>1
  <2>3. m[home] = s.obj[home]
    BY <1>11, <2>1, <2>2 DEF Marks
  <2> QED
    BY <1>12, <2>1, <2>2, <2>3 DEF Usable, Values
<1>14. m[o].f[ReceiverIndex] \notin Oops /\ m[o].f[SenderIndex] = NilPointer
  <2>1. m[o].f = Nothing.f
    BY <1>8, <1>11 DEF Marks
  <2> QED
    BY <2>1, NothingIs, NilIsNoOop, FieldsAre
<1>15. Stored(made, given, ReceiverIndex, o, home, h, {}, {o})
  <2>1. made.obj[o].kind # "free"
    BY <1>11, <1>12
  <2> QED
    BY <1>8, <1>12, <1>13, <1>14, <2>1, FieldsAre, StoreField
<1> HIDE DEF given
<1>16. /\ given = With(made, given.obj) /\ Exact(given.obj, h, {}) /\ Counted(given.obj, {o})
       /\ given.obj \in [Oops -> Objects] /\ given \in Machines
       /\ Keeps(m, given.obj, {<<o, ReceiverIndex>>}) /\ given.obj[o].f[ReceiverIndex] = home
  <2>1. {o} \ {home} = {o}
    BY <1>13
  <2>2. given = With(made, given.obj) /\ Exact(given.obj, h, {}) /\ Counted(given.obj, {o})
        /\ given.obj \in [Oops -> Objects]
        /\ Keeps(m, given.obj, {<<o, ReceiverIndex>>}) /\ given.obj[o].f[ReceiverIndex] = home
    BY <1>12, <1>14, <1>15, <2>1 DEF Stored, Leads, Exact
  <2> QED
    BY <1>12, <2>2, WithIs
<1>17. given = [obj |-> given.obj, full |-> s.full, variable |-> s.variable, activeContext |-> a,
                stackPointer |-> i - 1]
  <2> HIDE DEF i, a
  <2> QED
    BY <1>12, <1>16, WithIs
<1>18. ASSUME NEW x \in Oops, x # o PROVE SameBut(s.obj[x], given.obj[x], x, {})
  <2>1. m[x] = s.obj[x]
    BY <1>11, <1>18 DEF Marks
  <2>2. SameBut(m[x], given.obj[x], x, {<<o, ReceiverIndex>>})
    BY <1>16 DEF Keeps
  <2> QED
    BY <1>18, <2>1, <2>2 DEF SameBut
<1>19. given.obj[o].kind = "block" /\ given.obj[o].f[SenderIndex] = NilPointer
  <2>1. SameBut(m[o], given.obj[o], o, {<<o, ReceiverIndex>>})
    BY <1>8, <1>16 DEF Keeps
  <2> QED
    BY <1>11, <1>14, <2>1, FieldsAre DEF SameBut
<1>20. PICK rank : Linked(s.obj, rank, {})
  BY DEF Good
<1>21. Linked(given.obj, rank, {o})
  <2>1. ASSUME NEW x \in Oops, x # o
        PROVE  given.obj[x].kind = s.obj[x].kind /\ \A j \in Fields : given.obj[x].f[j] = s.obj[x].f[j]
    BY <1>18, <2>1 DEF SameBut
  <2>2. Linked(s.obj, rank, {o})
    BY <1>20 DEF Linked
  <2>3. s.obj[o].kind \notin Contextual
    BY <1>8 DEF Contextual
  <2> QED
    BY <2>1, <2>2, <2>3, LinksRest
<1>22. \A x \in Oops \ {o} : given.obj[x].kind \in Contextual => given.obj[x].f[SenderIndex] # o
  <2> SUFFICES ASSUME NEW x \in Oops \ {o}, given.obj[x].kind \in Contextual
               PROVE  given.obj[x].f[SenderIndex] # o
    OBVIOUS
  <2>1. s.obj[x].kind \in Contextual /\ given.obj[x].f[SenderIndex] = s.obj[x].f[SenderIndex]
    BY <1>18, FieldsAre DEF SameBut
  <2>2. SenderOK(s.obj, rank, x, s.obj[x].f[SenderIndex])
    BY <1>20, <2>1 DEF Linked
  <2> QED
    BY <1>8, <2>1, <2>2, NilIsNoOop DEF SenderOK, Contextual
<1>23. \A x \in Oops \ {o} : given.obj[x].kind = "block" => given.obj[x].f[ReceiverIndex] # o
  <2> SUFFICES ASSUME NEW x \in Oops \ {o}, given.obj[x].kind = "block"
               PROVE  given.obj[x].f[ReceiverIndex] # o
    OBVIOUS
  <2>1. s.obj[x].kind = "block" /\ given.obj[x].f[ReceiverIndex] = s.obj[x].f[ReceiverIndex]
    BY <1>18, FieldsAre DEF SameBut
  <2>2. HomeOK(s.obj, rank, x, s.obj[x].f[ReceiverIndex])
    BY <1>20, <2>1 DEF Linked
  <2> QED
    BY <1>8, <2>1, <2>2 DEF HomeOK
<1>24. PICK old : Linked(given.obj, old, {o}) /\ old[o] = 0 /\ \A x \in Oops \ {o} : old[x] > 0
  BY <1>8, <1>21, <1>22, <1>23, Younger
<1>25. Linked(given.obj, old, {})
  <2>1. given.obj[home].kind = "method"
    BY <1>13, <1>18 DEF SameBut
  <2>2. HomeOK(given.obj, old, o, given.obj[o].f[ReceiverIndex])
    BY <1>13, <1>16, <1>24, <2>1 DEF HomeOK
  <2>3. SenderOK(given.obj, old, o, given.obj[o].f[SenderIndex])
    BY <1>19 DEF SenderOK
  <2> QED
    BY <1>24, <2>2, <2>3 DEF Linked
<1>26. Stored(given, u, i, a, o, h, {}, {o})
  <2>1. given.obj[a].kind # "free" /\ Usable(given, o)
    BY <1>1, <1>8, <1>16, <1>19, Referenced DEF Usable, Values
  <2> HIDE DEF i, a
  <2> QED
    BY <1>1, <1>2, <1>16, <2>1, StoreField
<1> HIDE DEF u
<1>27. /\ u = With(given, u.obj) /\ Exact(u.obj, h, {}) /\ Counted(u.obj, {})
       /\ u.obj \in [Oops -> Objects] /\ Changes(given.obj, u.obj, {<<a, i>>})
  <2>1. {o} \ {o} = {}
    OBVIOUS
  <2> QED
    BY <1>26, <2>1 DEF Stored, Leads, Exact
<1>28. /\ t = [obj |-> u.obj, full |-> s.full, variable |-> s.variable, activeContext |-> a,
               stackPointer |-> i]
       /\ t.obj = u.obj /\ t.variable = s.variable /\ t.activeContext = a
  <2>1. (i - 1) + 1 = i
    BY <1>2
  <2>2. given.stackPointer + 1 = i /\ given.activeContext = a
    BY <1>17, <2>1
  <2>3. t = [u EXCEPT !.stackPointer = u.stackPointer + 1]
    BY <1>5, <2>2 DEF push, u
  <2> HIDE DEF i, a
  <2>4. u = [obj |-> u.obj, full |-> s.full, variable |-> s.variable, activeContext |-> a,
             stackPointer |-> i - 1]
    BY <1>16, <1>17, <1>27, WithIs
  <2> QED
    BY <2>1, <2>3, <2>4
<1>29. t \in Machines
  <2>1. s.full \in BOOLEAN /\ s.variable \in Values /\ i \in 0..StackSize
    BY <1>1, <1>2, MachineIs
  <2> HIDE DEF i, a
  <2> QED
    BY <1>1, <1>27, <1>28, <2>1 DEF Machines
<1>30. Held(t) = h
  BY <1>28 DEF Held, h
<1>31. Linked(t.obj, old, {})
  <2>1. PICK V : V = {<<a, i>>}
    OBVIOUS
  <2>2. \A x \in Oops \ {} : <<x, SenderIndex>> \notin V /\ <<x, ReceiverIndex>> \notin V
    <3> HIDE DEF i
    <3> QED
      BY <1>2, <2>1, FieldsAre
  <2>3. Changes(given.obj, t.obj, V) /\ Exact(t.obj, h, {})
    BY <1>27, <1>28, <2>1
  <2> QED
    BY <1>25, <2>2, <2>3, LinksKept
<1>32. ASSUME NEW x \in Oops, t.obj[x].kind # "free"
       PROVE  given.obj[x].kind # "free" /\ t.obj[x].kind = given.obj[x].kind
              /\ t.obj[x].ip = given.obj[x].ip /\ t.obj[x].sp = given.obj[x].sp
  <2>1. t.obj[x] # Nothing
    BY <1>32, NothingIs
  <2> QED
    BY <1>27, <1>28, <1>32, <2>1 DEF Changes, SameBut
<1>33. Resting(t.obj, a)
  <2>1. ASSUME NEW x \in Oops \ {a}, t.obj[x].kind \in Contextual, t.obj[x].ip = TRUE
        PROVE  t.obj[x].sp < StackSize
    <3>1. given.obj[x].kind # "free" /\ t.obj[x].kind = given.obj[x].kind
              /\ t.obj[x].ip = given.obj[x].ip /\ t.obj[x].sp = given.obj[x].sp
      BY <1>32, <2>1 DEF Contextual
    <3>2. CASE x = o
      <4>1. given.obj[o].sp = m[o].sp
        BY <1>8, <1>16 DEF Keeps, SameBut
      <4>2. m[o].sp = 0
        <5>1. new.obj[o].sp = 0
          BY <1>7 DEF Made
        <5> QED
          BY <1>10, <5>1
      <4> QED
        BY <3>1, <3>2, <4>1, <4>2, FieldsAre
    <3>3. CASE x # o
      <4>1. SameBut(s.obj[x], given.obj[x], x, {})
        BY <1>18, <3>3
      <4> QED
        BY <2>1, <3>1, <4>1 DEF Good, Resting, SameBut
    <3> QED
      BY <3>2, <3>3
  <2> QED
    BY <2>1 DEF Resting
<1>34. Running(t.obj, a)
  <2>1. t.obj[a].kind # "free"
    BY <1>1, <1>27, <1>28, Referenced
  <2>2. a # o /\ s.obj[a].kind \in Contextual /\ s.obj[a].ip = TRUE
    BY <1>8 DEF Good, Running, Contextual
  <2>3. SameBut(s.obj[a], given.obj[a], a, {})
    BY <1>1, <1>18, <2>2
  <2> QED
    BY <1>1, <1>32, <2>1, <2>2, <2>3 DEF Running, SameBut
<1>35. Good(t)
  BY <1>27, <1>28, <1>29, <1>30, <1>31, <1>33, <1>34 DEF Good
<1>36. t.activeContext = a
  BY <1>28
<1>37. ASSUME NEW x \in Oops \ {a}, s.obj[x].kind # "free"
       PROVE  t.obj[x] = Nothing \/ SameBut(s.obj[x], t.obj[x], x, {})
  <2>1. x # o
    BY <1>8, <1>37
  <2>2. SameBut(s.obj[x], given.obj[x], x, {})
    BY <1>18, <2>1
  <2>3. t.obj[x] = Nothing \/ SameBut(given.obj[x], t.obj[x], x, {<<a, i>>})
    BY <1>27, <1>28 DEF Changes
  <2> HIDE DEF a, i
  <2> QED
    BY <1>37, <2>2, <2>3 DEF SameBut
<1> QED
  BY <1>35, <1>36, <1>37 DEF t, Copied

----------------------------------------------------------------------------
(* Lookup.                                                                   *)

Up(class, up) == IF superclassOf[class] = NilPointer THEN <<class>> ELSE <<class>> \o up[superclassOf[class]]
chaining(f) ==
  [n \in 0..Cardinality(Classes) |->
     IF n = 0 THEN [c \in Classes |-> <<>>] ELSE [c \in Classes |-> Up(c, f[n - 1])]]
chainsOf == CHOOSE f : f = chaining(f)

LEMMA Chains == chainsOf = chaining(chainsOf)
<1> DEFINE N == Cardinality(Classes)
           first == [c \in Classes |-> <<>>]
           more(g) == [c \in Classes |-> Up(c, g)]
           step(f, i) == IF i = 0 THEN first ELSE more(f[i - 1])
           E == {k \in Nat : \E f : f = [i \in 0..k |-> step(f, i)]}
<1>1. N \in Nat
  BY ContextsConstantsOK, FS_CardinalityType
<1>2. 0 \in E
  <2>1. [i \in 0..0 |-> first] = [i \in 0..0 |-> step([j \in 0..0 |-> first], i)]
    <3> HIDE DEF first, more
    <3> QED
      OBVIOUS
  <2> QED
    BY <2>1
<1>3. ASSUME NEW k \in 0..N - 1, k \in E PROVE k + 1 \in E
  <2>1. PICK f : f = [i \in 0..k |-> step(f, i)]
    BY <1>3
  <2> DEFINE g == [i \in 0..k + 1 |-> step(f, i)]
  <2>2. k \in Nat /\ k + 1 \in Nat
    OBVIOUS
  <2>3. \A i \in 0..k : g[i] = f[i]
    <3> HIDE DEF step
    <3> QED
      BY <2>1, <2>2
  <2>4. \A i \in 0..k + 1 : step(f, i) = step(g, i)
    <3> HIDE DEF g, first, more
    <3> QED
      BY <2>2, <2>3
  <2>5. g = [i \in 0..k + 1 |-> step(g, i)]
    <3>1. g = [i \in 0..k + 1 |-> g[i]]
      BY Zenon
    <3>2. \A i \in 0..k + 1 : g[i] = step(f, i)
      BY Zenon
    <3> HIDE DEF g, step
    <3> QED
      BY <2>4, <3>1, <3>2
  <2> HIDE DEF g, step
  <2> QED
    BY <2>2, <2>5
<1>4. N \in E
  <2> HIDE DEF E, N
  <2>1. 0..N \subseteq E
    BY <1>1, <1>2, <1>3, InductionTo
  <2> QED
    BY <1>1, <2>1
<1>5. PICK f : f = chaining(f)
  BY <1>4, Zenon DEF chaining
<1> QED
  BY <1>5, Zenon DEF chainsOf

LEMMA ChainIs ==
  ASSUME NEW c \in Classes
  PROVE  Chain[c] \in Seq(Classes)
<1> DEFINE N == Cardinality(Classes)
           f == chainsOf
           E == {k \in Nat : f[k] \in [Classes -> Seq(Classes)]}
<1>1. N \in Nat
  BY ContextsConstantsOK, FS_CardinalityType
<1>2. \A i \in 0..N : f[i] = IF i = 0 THEN [x \in Classes |-> <<>>] ELSE [x \in Classes |-> Up(x, f[i - 1])]
  <2>1. f = chaining(f)
    BY Chains
  <2> HIDE DEF f
  <2> QED
    BY <2>1 DEF chaining
<1>3. Chain = f[N]
  BY Zenon DEF Chain, chainsOf, chaining, Up
<1> HIDE DEF f, N
<1>4. 0 \in E
  <2>1. 0 \in 0..N
    BY <1>1
  <2>2. f[0] = [x \in Classes |-> <<>>]
    BY <1>2, <2>1
  <2>3. <<>> \in Seq(Classes)
    OBVIOUS
  <2> QED
    BY <2>2, <2>3
<1>5. ASSUME NEW k \in 0..N - 1, k \in E PROVE k + 1 \in E
  <2>1. f[k + 1] = [x \in Classes |-> Up(x, f[k])]
    <3>1. k + 1 \in 0..N /\ k + 1 # 0 /\ (k + 1) - 1 = k
      BY <1>1
    <3> QED
      BY <1>2, <3>1
  <2>2. ASSUME NEW x \in Classes PROVE Up(x, f[k]) \in Seq(Classes)
    <3>1. <<x>> \in Seq(Classes)
      OBVIOUS
    <3>2. superclassOf[x] # NilPointer => superclassOf[x] \in Classes
      BY ContextsConstantsOK
    <3>3. superclassOf[x] # NilPointer => f[k][superclassOf[x]] \in Seq(Classes)
      BY <1>5, <3>2
    <3> QED
      BY <3>1, <3>3 DEF Up
  <2> QED
    BY <2>1, <2>2
<1>6. N \in E
  <2> HIDE DEF E
  <2>1. 0..N \subseteq E
    BY <1>1, <1>4, <1>5, InductionTo
  <2> QED
    BY <1>1, <2>1
<1> QED
  BY <1>3, <1>6

(* Probing stays within the dictionary.                                      *)
LEMMA ProbeIs ==
  ASSUME NEW d, DictionaryOK(d), NEW start \in Nat, NEW k \in Nat
  PROVE  /\ Len(d) \in Nat \ {0} /\ DOMAIN d = 1..Len(d)
         /\ ((start + k) % Len(d)) + 1 \in DOMAIN d
         /\ start % Len(d) \in Nat /\ start % Len(d) < Len(d)
<1>1. d \in Seq(Entries \cup {NilPointer}) /\ d # <<>>
  BY DEF DictionaryOK
<1>2. Len(d) \in Nat \ {0} /\ DOMAIN d = 1..Len(d)
  BY <1>1
<1> DEFINE L == Len(d)
<1> HIDE DEF L
<1>3. ASSUME NEW x \in Nat PROVE x % L \in 0..L - 1
  BY <1>2 DEF L
<1>4. start + k \in Nat
  OBVIOUS
<1>5. (start + k) % L \in 0..L - 1 /\ start % L \in 0..L - 1
  BY <1>3, <1>4
<1> QED
  BY <1>2, <1>5 DEF L

LEMMA FoundInDictionary ==
  ASSUME NEW d, DictionaryOK(d), NEW selector \in Selectors
  PROVE  LET e == lookupMethodInDictionary(d, selector)
         IN  /\ e # NilPointer <=> DefinesIn(d, selector)
             /\ e # NilPointer => EntryOK(e) /\ e.selector = selector
                                  /\ \E j \in DOMAIN d : d[j] = e
<1> DEFINE L == Len(d)
           start == Hash[selector] % L
           stops == {k \in 0..(2 * L - start - 1) :
                       Probe(d, start, k) = NilPointer \/ Probe(d, start, k).selector = selector}
           e == lookupMethodInDictionary(d, selector)
<1>1. Hash[selector] \in Nat
  BY ContextsConstantsOK
<1>2. L \in Nat \ {0} /\ start \in Nat /\ start < L
  BY <1>1, ProbeIs
<1>3. e = IF stops = {} THEN NilPointer ELSE Probe(d, start, Min(stops))
  BY Zenon DEF lookupMethodInDictionary
<1>4. stops \in SUBSET Nat
  BY <1>2
<1> HIDE DEF L, start
<1>5. ASSUME NEW k \in stops
      PROVE  /\ k \in Nat
             /\ Probe(d, start, k) = NilPointer \/ Probe(d, start, k).selector = selector
  BY <1>4
<1> HIDE DEF stops, e
<1>6. ASSUME e # NilPointer
      PROVE  EntryOK(e) /\ e.selector = selector /\ \E j \in DOMAIN d : d[j] = e
  <2>1. stops # {} /\ e = Probe(d, start, Min(stops))
    BY <1>3, <1>6
  <2>2. Min(stops) \in stops
    BY <1>4, <2>1, MinIs
  <2>3. Min(stops) \in Nat /\ e.selector = selector
    BY <1>5, <1>6, <2>1, <2>2
  <2>4. PICK j \in DOMAIN d : d[j] = e
    BY <1>2, <2>1, <2>3, ProbeIs DEF Probe
  <2> QED
    BY <1>6, <2>3, <2>4 DEF DictionaryOK
<1>7. ASSUME DefinesIn(d, selector) PROVE e # NilPointer
  BY <1>7 DEF DefinesIn, DictionaryOK, e
<1> QED
  BY <1>6, <1>7 DEF DefinesIn, e

DictionariesOK ==
  /\ DOMAIN dictionary = Classes
  /\ \A c \in Classes : DictionaryOK(dictionary[c])
  /\ \A c \in Classes : \E i \in DOMAIN Chain[c] :
       DefinesIn(dictionary[Chain[c][i]], DoesNotUnderstandSelector)

(* A method that some dictionary has for the selector.                       *)
FoundFor(method, selector) == \E e : EntryOK(e) /\ e.selector = selector /\ e.method = method

LEMMA FoundForIs ==
  ASSUME NEW method, NEW selector, FoundFor(method, selector)
  PROVE  /\ method \in Methods /\ method # NilPointer
         /\ selector \in Selectors
         /\ method.argumentCount = Arity[selector]
         /\ method.temporaryCount \in 0..StackSize
         /\ method.primitive \in {"none", "value", "perform", "quickReturnSelf"}
         /\ selector \in {DoesNotUnderstandSelector, CannotReturnSelector} => method.primitive = "none"
         /\ selector = PerformSelector => method.primitive = "perform"
<1>1. PICK e : EntryOK(e) /\ e.selector = selector /\ e.method = method
  BY DEF FoundFor
<1>2. method \in Methods /\ selector \in Selectors
  BY <1>1 DEF EntryOK, Entries
<1> QED
  BY <1>1, <1>2, ContextsConstantsOK DEF EntryOK, MethodOK

LEMMA Lookup ==
  ASSUME DictionariesOK, NEW class \in Classes, NEW selector \in Selectors
  PROVE  LET m == lookupMethodInClass(class, selector)
         IN  /\ m = Understood(class, selector)
             /\ m # NilPointer => FoundFor(m, selector)
             /\ selector = DoesNotUnderstandSelector => m # NilPointer
<1> DEFINE entry(i) == lookupMethodInDictionary(dictionary[Chain[class][i]], selector)
           found == {i \in DOMAIN Chain[class] : entry(i) # NilPointer}
           at == {i \in DOMAIN Chain[class] : DefinesIn(dictionary[Chain[class][i]], selector)}
           Method(d) == (CHOOSE e \in {d[j] : j \in DOMAIN d} :
                           e # NilPointer /\ e.selector = selector).method
           m == lookupMethodInClass(class, selector)
<1>1. DOMAIN Chain[class] \subseteq Nat
  BY ChainIs
<1>2. ASSUME NEW i \in DOMAIN Chain[class]
      PROVE  DictionaryOK(dictionary[Chain[class][i]])
  <2>1. Chain[class][i] \in Classes
    BY ChainIs
  <2> QED
    BY <2>1 DEF DictionariesOK
<1>3. ASSUME NEW i \in DOMAIN Chain[class]
      PROVE  entry(i) # NilPointer <=> DefinesIn(dictionary[Chain[class][i]], selector)
  BY <1>2, FoundInDictionary
<1>4. found = at
  <2> HIDE DEF entry
  <2> QED
    BY <1>3
<1>5. m = IF found = {} THEN NilPointer ELSE entry(Min(found)).method
  BY Zenon DEF lookupMethodInClass
<1>6. Understood(class, selector) = IF at = {} THEN NilPointer ELSE Method(dictionary[Chain[class][Min(at)]])
  BY Zenon DEF Understood
<1>7. ASSUME found # {}
      PROVE  /\ Method(dictionary[Chain[class][Min(found)]]) = entry(Min(found)).method
             /\ FoundFor(entry(Min(found)).method, selector)
  <2> DEFINE i == Min(found)
             d == dictionary[Chain[class][i]]
             e == entry(i)
  <2>1. i \in found
    <3>1. found \in SUBSET Nat
      BY <1>1
    <3> HIDE DEF found
    <3> QED
      BY <1>7, <3>1, MinIs
  <2>2. DictionaryOK(d) /\ e # NilPointer /\ e = lookupMethodInDictionary(d, selector)
    BY <1>2, <2>1
  <2> HIDE DEF d, e, i, found, entry
  <2>3. EntryOK(e) /\ e.selector = selector /\ \E j \in DOMAIN d : d[j] = e
    BY <2>2, FoundInDictionary
  <2> DEFINE S == {d[j] : j \in DOMAIN d}
             c == CHOOSE x \in S : x # NilPointer /\ x.selector = selector
  <2>4. c \in S /\ c # NilPointer /\ c.selector = selector
    <3>1. e \in S
      BY <2>3
    <3> HIDE DEF S
    <3> QED
      BY <2>2, <2>3, <3>1, Zenon
  <2>5. PICK j \in DOMAIN d : d[j] = c
    <3> HIDE DEF c
    <3> QED
      BY <2>4
  <2>6. c = e
    <3> HIDE DEF c
    <3> QED
      BY <2>2, <2>4, <2>5 DEF DictionaryOK
  <2>7. Method(d) = e.method
    BY <2>6, Zenon DEF c, S
  <2>8. FoundFor(e.method, selector)
    BY <2>3 DEF FoundFor
  <2> HIDE DEF Method
  <2> QED
    BY <2>7, <2>8 DEF e, d, i
<1>8. selector = DoesNotUnderstandSelector => at # {}
  BY DEF DictionariesOK
<1> HIDE DEF entry, found, at, Method, m
<1>9. m = Understood(class, selector)
  BY <1>4, <1>5, <1>6, <1>7
<1>10. m # NilPointer => FoundFor(m, selector)
  BY <1>5, <1>7
<1>11. selector = DoesNotUnderstandSelector => m # NilPointer
  BY <1>4, <1>5, <1>7, <1>8, FoundForIs
<1> QED
  BY <1>9, <1>10, <1>11 DEF m

(* The selector goes where probing for it ends.                              *)
Places(d, start) == {k \in 0..(Len(d) - 1) : Probe(d, start, k) = NilPointer}
InstalledIn(d, start, x) == [d EXCEPT ![((start + Min(Places(d, start))) % Len(d)) + 1] = x]

LEMMA Installed ==
  ASSUME NEW d, DictionaryOK(d), NEW selector \in Selectors, NEW x, EntryOK(x), x.selector = selector,
         lookupMethodInDictionary(d, selector) = NilPointer,
         NEW start, start = Hash[selector] % Len(d), Places(d, start) # {}
  PROVE  /\ DictionaryOK(InstalledIn(d, start, x))
         /\ \A other \in Selectors : DefinesIn(d, other) => DefinesIn(InstalledIn(d, start, x), other)
<1> DEFINE L == Len(d)
           empty == Places(d, start)
           n == InstalledIn(d, start, x)
           first == Min(empty)
           p == ((start + first) % L) + 1
<1>1. Hash[selector] \in Nat /\ x # NilPointer /\ x \in Entries
  BY ContextsConstantsOK DEF EntryOK
<1>2. L \in Nat \ {0} /\ start \in Nat /\ start < L /\ DOMAIN d = 1..L
  BY <1>1, ProbeIs
<1>3. first \in empty /\ \A k \in empty : first <= k
  <2>1. empty \in SUBSET Nat
    BY <1>2 DEF Places
  <2> HIDE DEF empty
  <2> QED
    BY <2>1, MinIs DEF empty
<1>4. first \in 0..(L - 1) /\ first \in Nat /\ Probe(d, start, first) = NilPointer
  <2>1. first \in Places(d, start)
    BY <1>3
  <2> HIDE DEF first
  <2> QED
    BY <1>2, <2>1 DEF Places
<1>5. p \in DOMAIN d /\ d[p] = NilPointer
  BY <1>2, <1>4, ProbeIs DEF Probe
<1> HIDE DEF first
<1>6. n = [d EXCEPT ![p] = x]
  BY Zenon DEF first, InstalledIn
<1> HIDE DEF p, L, n, empty
<1>7. d \in Seq(Entries \cup {NilPointer}) /\ d # <<>>
  BY DEF DictionaryOK
<1>8. /\ n \in Seq(Entries \cup {NilPointer}) /\ n # <<>> /\ Len(n) = L /\ DOMAIN n = DOMAIN d
      /\ n[p] = x /\ \A j \in DOMAIN d : j # p => n[j] = d[j]
  BY <1>1, <1>2, <1>5, <1>6, <1>7 DEF L
<1>9. ASSUME NEW k \in Nat, NEW from \in Nat
      PROVE  /\ Probe(d, from, k) # NilPointer => Probe(n, from, k) = Probe(d, from, k)
             /\ Probe(n, from, k) = Probe(d, from, k)
                \/ (Probe(d, from, k) = NilPointer /\ Probe(n, from, k) = x)
  <2> DEFINE q == ((from + k) % L) + 1
  <2>1. q \in DOMAIN d
    BY ProbeIs DEF L
  <2>2. Probe(d, from, k) = d[q] /\ Probe(n, from, k) = n[q]
    BY <1>8 DEF Probe, L
  <2> HIDE DEF q
  <2>3. CASE q = p
    BY <1>5, <1>8, <2>2, <2>3
  <2>4. CASE q # p
    BY <1>8, <2>1, <2>2, <2>4
  <2> QED
    BY <2>3, <2>4
<1>10. \A j \in DOMAIN d : d[j] # NilPointer => d[j].selector # selector
  BY FoundInDictionary DEF DefinesIn
<1>11. ASSUME NEW i \in DOMAIN d, d[i] # NilPointer
       PROVE  lookupMethodInDictionary(n, d[i].selector) = d[i]
  <2> DEFINE e == d[i]
             from == Hash[e.selector] % L
             stops == {k \in 0..(2 * L - from - 1) :
                         Probe(d, from, k) = NilPointer \/ Probe(d, from, k).selector = e.selector}
             left == {k \in 0..(2 * L - from - 1) :
                         Probe(n, from, k) = NilPointer \/ Probe(n, from, k).selector = e.selector}
  <2>1. EntryOK(e) /\ lookupMethodInDictionary(d, e.selector) = e /\ e # NilPointer /\ e.selector # selector
    BY <1>10, <1>11 DEF DictionaryOK
  <2>2. e.selector \in Selectors /\ Hash[e.selector] \in Nat
    BY <2>1, ContextsConstantsOK DEF EntryOK, Entries
  <2>3. from \in Nat /\ from < L
    BY <2>2, ProbeIs DEF L
  <2>4. /\ e = IF stops = {} THEN NilPointer ELSE Probe(d, from, Min(stops))
        /\ lookupMethodInDictionary(n, e.selector) =
             IF left = {} THEN NilPointer ELSE Probe(n, from, Min(left))
    <3>1. lookupMethodInDictionary(d, e.selector) =
            IF stops = {} THEN NilPointer ELSE Probe(d, from, Min(stops))
      BY Zenon DEF lookupMethodInDictionary, L
    <3> DEFINE here == Hash[e.selector] % Len(n)
               all == {k \in 0..(2 * Len(n) - here - 1) :
                         Probe(n, here, k) = NilPointer \/ Probe(n, here, k).selector = e.selector}
    <3>2. lookupMethodInDictionary(n, e.selector) =
            IF all = {} THEN NilPointer ELSE Probe(n, here, Min(all))
      BY Zenon DEF lookupMethodInDictionary
    <3>3. here = from
      BY <1>8 DEF L
    <3> HIDE DEF here
    <3>4. all = left
      BY <1>8, <3>3
    <3> HIDE DEF all, left, stops, from
    <3> QED
      BY <2>1, <3>1, <3>2, <3>3, <3>4
  <2>5. stops \in SUBSET Nat /\ left \in SUBSET Nat
    BY <1>2, <2>3
  <2> HIDE DEF e, from
  <2>6. left \subseteq stops
    <3> SUFFICES ASSUME NEW k \in left PROVE k \in stops
      OBVIOUS
    <3>1. k \in Nat
      BY <2>5
    <3> QED
      BY <1>9, <2>3, <3>1
  <2>7. \A k \in stops : Probe(d, from, k) # NilPointer => k \in left
    <3> SUFFICES ASSUME NEW k \in stops, Probe(d, from, k) # NilPointer PROVE k \in left
      OBVIOUS
    <3>1. k \in Nat
      BY <2>5
    <3> QED
      BY <1>9, <2>3, <3>1
  <2> HIDE DEF stops, left
  <2>8. stops # {} /\ Probe(d, from, Min(stops)) = e
    BY <2>1, <2>4
  <2>9. Min(stops) \in stops /\ \A k \in stops : Min(stops) <= k
    BY <2>5, <2>8, MinIs
  <2>10. Min(stops) \in left
    BY <2>1, <2>7, <2>8, <2>9
  <2>11. Min(left) \in left /\ \A k \in left : Min(left) <= k
    BY <2>5, <2>10, MinIs
  <2>12. Min(left) = Min(stops) /\ Min(stops) \in Nat
    <3>1. Min(left) \in Nat /\ Min(stops) \in Nat
      BY <2>5, <2>9, <2>11
    <3>2. Min(left) <= Min(stops) /\ Min(stops) <= Min(left)
      BY <2>6, <2>9, <2>10, <2>11
    <3> QED
      BY <3>1, <3>2
  <2>13. Probe(n, from, Min(stops)) = e
    BY <1>9, <2>1, <2>3, <2>8, <2>12
  <2>14. lookupMethodInDictionary(n, e.selector) = e
    BY <2>4, <2>10, <2>12, <2>13
  <2> QED
    BY <2>14 DEF e
<1>12. lookupMethodInDictionary(n, selector) = x
  <2> DEFINE left == {k \in 0..(2 * L - start - 1) :
                        Probe(n, start, k) = NilPointer \/ Probe(n, start, k).selector = selector}
  <2>1. lookupMethodInDictionary(n, selector) =
          IF left = {} THEN NilPointer ELSE Probe(n, start, Min(left))
    <3> DEFINE here == Hash[selector] % Len(n)
               all == {k \in 0..(2 * Len(n) - here - 1) :
                         Probe(n, here, k) = NilPointer \/ Probe(n, here, k).selector = selector}
    <3>2. lookupMethodInDictionary(n, selector) =
            IF all = {} THEN NilPointer ELSE Probe(n, here, Min(all))
      BY Zenon DEF lookupMethodInDictionary
    <3>3. here = start
      BY <1>8 DEF L
    <3> HIDE DEF here
    <3>4. all = left
      BY <1>8, <3>3
    <3> HIDE DEF all, left
    <3> QED
      BY <3>2, <3>3, <3>4
  <2>2. Probe(n, start, first) = x
    BY <1>8 DEF Probe, p
  <2>3. left \in SUBSET Nat /\ first \in 0..(2 * L - start - 1)
    BY <1>2, <1>4
  <2>4. first \in left
    BY <2>2, <2>3
  <2>5. ASSUME NEW k \in left, k < first PROVE FALSE
    <3>1. k \in Nat /\ k \in 0..(L - 1) /\ k \notin empty
      BY <1>2, <1>3, <1>4, <2>3, <2>5
    <3>2. Probe(d, start, k) # NilPointer
      BY <3>1 DEF L, empty, Places
    <3>3. Probe(n, start, k) = Probe(d, start, k)
      BY <1>2, <1>9, <3>1, <3>2
    <3>4. \E j \in DOMAIN d : d[j] = Probe(d, start, k)
      BY <1>2, <3>1, ProbeIs DEF Probe, L
    <3> QED
      BY <1>10, <2>5, <3>2, <3>3, <3>4
  <2> HIDE DEF left
  <2>6. Min(left) \in left /\ Min(left) <= first
    BY <2>3, <2>4, MinIs
  <2>7. Min(left) = first
    <3>1. Min(left) \in Nat /\ ~(Min(left) < first)
      BY <2>3, <2>5, <2>6
    <3> QED
      BY <1>4, <2>6, <3>1
  <2> QED
    BY <2>1, <2>2, <2>4, <2>7
<1>13. ASSUME NEW i \in DOMAIN n, n[i] # NilPointer
       PROVE  EntryOK(n[i]) /\ lookupMethodInDictionary(n, n[i].selector) = n[i]
  BY <1>8, <1>11, <1>12, <1>13 DEF DictionaryOK
<1>14. ASSUME NEW i \in DOMAIN n, NEW j \in DOMAIN n, n[i] # NilPointer, n[j] # NilPointer,
              n[i].selector = n[j].selector
       PROVE  i = j
  <2>1. CASE i = p \/ j = p
    BY <1>8, <1>10, <1>14, <2>1
  <2>2. CASE i # p /\ j # p
    BY <1>8, <1>14, <2>2 DEF DictionaryOK
  <2> QED
    BY <2>1, <2>2
<1>15. DictionaryOK(n)
  BY <1>8, <1>13, <1>14 DEF DictionaryOK
<1>16. \A other \in Selectors : DefinesIn(d, other) => DefinesIn(n, other)
  BY <1>5, <1>8 DEF DefinesIn
<1> QED
  BY <1>15, <1>16 DEF n

----------------------------------------------------------------------------
(* Sending.                                                                  *)

callers(s, f) ==
  [i \in 0..Cardinality(Oops) |->
     IF i = 0 THEN {s.activeContext}
     ELSE f[i - 1] \cup ({s.obj[x].f[SenderIndex] : x \in f[i - 1]} \ {NilPointer})]
chainOf(s) == CHOOSE f : f = callers(s, f)

LEMMA Senders ==
  ASSUME NEW s
  PROVE  chainOf(s) = callers(s, chainOf(s))
<1> DEFINE N == Cardinality(Oops)
           more(g) == g \cup ({s.obj[x].f[SenderIndex] : x \in g} \ {NilPointer})
           step(f, i) == IF i = 0 THEN {s.activeContext} ELSE more(f[i - 1])
           E == {k \in Nat : \E f : f = [i \in 0..k |-> step(f, i)]}
<1>1. N \in Nat
  BY ContextsConstantsOK, FS_CardinalityType
<1>2. 0 \in E
  <2>1. [i \in 0..0 |-> {s.activeContext}] = [i \in 0..0 |-> step([j \in 0..0 |-> {s.activeContext}], i)]
    <3> HIDE DEF more
    <3> QED
      OBVIOUS
  <2> QED
    BY <2>1
<1>3. ASSUME NEW k \in 0..N - 1, k \in E PROVE k + 1 \in E
  <2>1. PICK f : f = [i \in 0..k |-> step(f, i)]
    BY <1>3
  <2> DEFINE g == [i \in 0..k + 1 |-> step(f, i)]
  <2>2. k \in Nat /\ k + 1 \in Nat
    OBVIOUS
  <2>3. \A i \in 0..k : g[i] = f[i]
    <3> HIDE DEF step
    <3> QED
      BY <2>1, <2>2
  <2>4. \A i \in 0..k + 1 : step(f, i) = step(g, i)
    <3> HIDE DEF g, more
    <3> QED
      BY <2>2, <2>3
  <2>5. g = [i \in 0..k + 1 |-> step(g, i)]
    <3>1. g = [i \in 0..k + 1 |-> g[i]]
      BY Zenon
    <3>2. \A i \in 0..k + 1 : g[i] = step(f, i)
      BY Zenon
    <3> HIDE DEF g, step
    <3> QED
      BY <2>4, <3>1, <3>2
  <2> HIDE DEF g, step
  <2> QED
    BY <2>2, <2>5
<1>4. N \in E
  <2> HIDE DEF E, N
  <2>1. 0..N \subseteq E
    BY <1>1, <1>2, <1>3, InductionTo
  <2> QED
    BY <1>1, <2>1
<1>5. PICK f : f = callers(s, f)
  BY <1>4, Zenon DEF callers
<1> QED
  BY <1>5, Zenon DEF chainOf

(* The block to enter is not the active context.                             *)
LEMMA ActiveInChain ==
  ASSUME NEW s
  PROVE  s.activeContext \in ActiveChain(s)
<1> DEFINE N == Cardinality(Oops)
           f == chainOf(s)
           E == {k \in Nat : s.activeContext \in f[k]}
<1>1. N \in Nat
  BY ContextsConstantsOK, FS_CardinalityType
<1>2. \A i \in 0..N : f[i] = IF i = 0 THEN {s.activeContext}
                             ELSE f[i - 1] \cup ({s.obj[x].f[SenderIndex] : x \in f[i - 1]} \ {NilPointer})
  <2>1. f = callers(s, f)
    BY Senders
  <2> HIDE DEF f
  <2> QED
    BY <2>1 DEF callers
<1>3. ActiveChain(s) = f[N]
  BY Zenon DEF ActiveChain, chainOf, callers
<1> HIDE DEF f, N
<1>4. 0 \in E
  <2>1. 0 \in 0..N
    BY <1>1
  <2>2. f[0] = {s.activeContext}
    BY <1>2, <2>1
  <2> QED
    BY <2>2
<1>5. ASSUME NEW k \in 0..N - 1, k \in E PROVE k + 1 \in E
  <2>1. k + 1 \in 0..N /\ k + 1 # 0 /\ (k + 1) - 1 = k
    BY <1>1
  <2>2. f[k] \subseteq f[k + 1]
    BY <1>2, <2>1
  <2> QED
    BY <1>5, <2>2
<1>6. N \in E
  <2> HIDE DEF E
  <2>1. 0..N \subseteq E
    BY <1>1, <1>4, <1>5, InductionTo
  <2> QED
    BY <1>1, <2>1
<1> QED
  BY <1>3, <1>6

(* What a step may do to the contexts that wait: see WaitingStackKept.       *)
Waits(s, t) ==
  \A o \in ActiveChain(s) \ {s.activeContext} :
    \/ t.obj[o].kind = "free"
    \/ /\ t.obj[o].sp = s.obj[o].sp
       /\ \A i \in (s.obj[o].temporaryCount + 1)..s.obj[o].sp : t.obj[o].f[i] = s.obj[o].f[i]
       /\ t.activeContext = o => t.stackPointer = s.obj[o].sp + 1

(* Between the parts of a step nothing happens to them.                      *)
Undisturbed(s, t) ==
  /\ t.activeContext = s.activeContext
  /\ ActiveChain(t) = ActiveChain(s)
  /\ \A o \in ActiveChain(s) \ {s.activeContext} : SameBut(s.obj[o], t.obj[o], o, {})

(* From s to t only slots of W change and objects are freed.                 *)
ChangesUsed(s, t, W) ==
  \A x \in Oops : s.obj[x].kind # "free" =>
    t.obj[x] = Nothing \/ SameBut(s.obj[x], t.obj[x], x, W)

(* The contexts that wait are in use, and as long as the active context stays *)
(* and no link is changed, each holds the next: none of them is freed.        *)
LEMMA ChainStays ==
  ASSUME NEW s, Good(s), NEW t, Good(t), t.activeContext = s.activeContext, NEW W, ChangesUsed(s, t, W),
         \A x \in Oops : <<x, SenderIndex>> \notin W
  PROVE  /\ ActiveChain(t) = ActiveChain(s)
         /\ ActiveChain(s) \subseteq Oops
         /\ \A x \in ActiveChain(s) : s.obj[x].kind # "free" /\ t.obj[x].kind # "free"
<1> DEFINE N == Cardinality(Oops)
           f == chainOf(s)
           g == chainOf(t)
           more(m, A) == A \cup ({m[x].f[SenderIndex] : x \in A} \ {NilPointer})
           InBoth(A) == \A x \in A : x \in Oops /\ s.obj[x].kind \in Contextual /\ t.obj[x].kind # "free"
           E == {k \in Nat : g[k] = f[k] /\ InBoth(f[k])}
<1>1. N \in Nat
  BY ContextsConstantsOK, FS_CardinalityType
<1>2. \A i \in 0..N : f[i] = IF i = 0 THEN {s.activeContext} ELSE more(s.obj, f[i - 1])
  <2>1. f = callers(s, f)
    BY Senders
  <2> HIDE DEF f
  <2> QED
    BY <2>1 DEF callers
<1>3. \A i \in 0..N : g[i] = IF i = 0 THEN {t.activeContext} ELSE more(t.obj, g[i - 1])
  <2>1. g = callers(t, g)
    BY Senders
  <2> HIDE DEF g
  <2> QED
    BY <2>1 DEF callers
<1>4. ActiveChain(s) = f[N] /\ ActiveChain(t) = g[N]
  BY Zenon DEF ActiveChain, chainOf, callers
<1> HIDE DEF f, g, N
<1>5. PICK rank : Linked(s.obj, rank, {})
  BY DEF Good
<1>6. /\ s \in Machines /\ t \in Machines /\ Exact(t.obj, Held(t), {})
      /\ Running(s.obj, s.activeContext) /\ Running(t.obj, s.activeContext) /\ s.activeContext \in Oops
  BY MachineIs DEF Good
<1>7. 0 \in E
  <2>1. f[0] = {s.activeContext} /\ g[0] = {s.activeContext}
    <3>1. 0 \in 0..N
      BY <1>1
    <3> QED
      BY <1>2, <1>3, <3>1
  <2>2. InBoth({s.activeContext})
    BY <1>6 DEF Running, Contextual
  <2> QED
    BY <2>1, <2>2
<1>8. ASSUME NEW k \in 0..N - 1, k \in E PROVE k + 1 \in E
  <2>1. k + 1 \in 0..N /\ k + 1 # 0 /\ (k + 1) - 1 = k /\ k + 1 \in Nat
    BY <1>1
  <2>2. f[k + 1] = more(s.obj, f[k]) /\ g[k + 1] = more(t.obj, g[k])
    <3> HIDE DEF more
    <3> QED
      BY <1>2, <1>3, <2>1
  <2>3. g[k] = f[k] /\ InBoth(f[k])
    BY <1>8
  <2>4. ASSUME NEW x \in f[k]
        PROVE  /\ t.obj[x].f[SenderIndex] = s.obj[x].f[SenderIndex]
               /\ s.obj[x].f[SenderIndex] # NilPointer =>
                    /\ s.obj[x].f[SenderIndex] \in Oops
                    /\ s.obj[s.obj[x].f[SenderIndex]].kind \in Contextual
                    /\ t.obj[s.obj[x].f[SenderIndex]].kind # "free"
    <3>1. x \in Oops /\ s.obj[x].kind \in Contextual /\ t.obj[x].kind # "free"
      BY <2>3
    <3>2. SameBut(s.obj[x], t.obj[x], x, W)
      BY <3>1, NothingIs DEF ChangesUsed, Contextual
    <3>3. t.obj[x].f[SenderIndex] = s.obj[x].f[SenderIndex]
      BY <3>1, <3>2, FieldsAre DEF SameBut
    <3>4. SenderOK(s.obj, rank, x, s.obj[x].f[SenderIndex])
      BY <1>5, <3>1 DEF Linked
    <3>5. Usable(t, t.obj[x].f[SenderIndex])
      BY <1>6, <3>1, FieldsAre, FieldUsable
    <3> QED
      BY <3>3, <3>4, <3>5 DEF SenderOK, Usable
  <2> DEFINE A == f[k]
  <2>5. more(s.obj, A) = more(t.obj, A) /\ InBoth(more(s.obj, A))
    <3>1. \A x \in A : /\ t.obj[x].f[SenderIndex] = s.obj[x].f[SenderIndex]
                       /\ s.obj[x].f[SenderIndex] # NilPointer =>
                            /\ s.obj[x].f[SenderIndex] \in Oops
                            /\ s.obj[s.obj[x].f[SenderIndex]].kind \in Contextual
                            /\ t.obj[s.obj[x].f[SenderIndex]].kind # "free"
      BY <2>4
    <3>2. InBoth(A)
      BY <2>3
    <3> HIDE DEF A
    <3> QED
      BY <3>1, <3>2
  <2> HIDE DEF more, InBoth
  <2> QED
    BY <2>1, <2>2, <2>3, <2>5
<1>9. N \in E
  <2> HIDE DEF E
  <2>1. 0..N \subseteq E
    BY <1>1, <1>7, <1>8, InductionTo
  <2> QED
    BY <1>1, <2>1
<1> QED
  BY <1>4, <1>9 DEF Contextual

LEMMA InChain ==
  ASSUME NEW s, Good(s), NEW o \in ActiveChain(s)
  PROVE  o \in Oops /\ s.obj[o].kind # "free"
<1>1. PICK W : W = {}
  OBVIOUS
<1>2. ChangesUsed(s, s, W)
  BY DEF ChangesUsed, SameBut
<1> QED
  BY <1>1, <1>2, ChainStays

LEMMA StaysUndisturbed ==
  ASSUME NEW s, Good(s), NEW t, Good(t), t.activeContext = s.activeContext,
         NEW i, i # SenderIndex, ChangesUsed(s, t, {<<s.activeContext, i>>})
  PROVE  Undisturbed(s, t)
<1>1. PICK W : W = {<<s.activeContext, i>>}
  OBVIOUS
<1>2. \A x \in Oops : <<x, SenderIndex>> \notin W
  BY <1>1
<1>3. ChangesUsed(s, t, W)
  BY <1>1
<1>4. /\ ActiveChain(t) = ActiveChain(s)
      /\ ActiveChain(s) \subseteq Oops
      /\ \A x \in ActiveChain(s) : s.obj[x].kind # "free" /\ t.obj[x].kind # "free"
  BY <1>2, <1>3, ChainStays
<1>5. ASSUME NEW o \in ActiveChain(s) \ {s.activeContext} PROVE SameBut(s.obj[o], t.obj[o], o, {})
  <2>1. SameBut(s.obj[o], t.obj[o], o, W)
    BY <1>3, <1>4, <1>5, NothingIs DEF ChangesUsed
  <2> QED
    BY <1>1, <1>5, <2>1 DEF SameBut
<1> QED
  BY <1>4, <1>5 DEF Undisturbed

LEMMA UndisturbedFirst ==
  ASSUME NEW s, NEW u, NEW t, Good(s), Undisturbed(s, u), Waits(u, t)
  PROVE  Waits(s, t)
<1> SUFFICES ASSUME NEW o \in ActiveChain(s) \ {s.activeContext}
             PROVE  \/ t.obj[o].kind = "free"
                    \/ /\ t.obj[o].sp = s.obj[o].sp
                       /\ \A i \in (s.obj[o].temporaryCount + 1)..s.obj[o].sp : t.obj[o].f[i] = s.obj[o].f[i]
                       /\ t.activeContext = o => t.stackPointer = s.obj[o].sp + 1
  BY Zenon DEF Waits
<1>1. o \in ActiveChain(u) \ {u.activeContext} /\ SameBut(s.obj[o], u.obj[o], o, {})
  BY DEF Undisturbed
<1>2. u.obj[o].sp = s.obj[o].sp /\ u.obj[o].temporaryCount = s.obj[o].temporaryCount
      /\ \A i \in Fields : u.obj[o].f[i] = s.obj[o].f[i]
  BY <1>1 DEF SameBut
<1>3. o \in Oops /\ s.obj[o] \in Objects
  BY InChain, MachineIs DEF Good
<1>4. (s.obj[o].temporaryCount + 1)..s.obj[o].sp \subseteq Fields
  BY <1>3, FieldsAre DEF Objects
<1>5. CASE t.obj[o].kind = "free"
  BY <1>5
<1>6. CASE t.obj[o].kind # "free"
  <2>1. /\ t.obj[o].sp = u.obj[o].sp
        /\ \A i \in (u.obj[o].temporaryCount + 1)..u.obj[o].sp : t.obj[o].f[i] = u.obj[o].f[i]
        /\ t.activeContext = o => t.stackPointer = u.obj[o].sp + 1
    BY <1>1, <1>6 DEF Waits
  <2> QED
    BY <1>2, <1>4, <2>1
<1> QED
  BY <1>5, <1>6

(* A step that is made at once.                                              *)
Spares(s, t, W) ==
  \A o \in ActiveChain(s) \ {s.activeContext} :
    /\ t.obj[o] = Nothing \/ SameBut(s.obj[o], t.obj[o], o, W)
    /\ \A i \in (s.obj[o].temporaryCount + 1)..s.obj[o].sp : <<o, i>> \notin W
    /\ t.activeContext = o => t.stackPointer = s.obj[o].sp + 1

LEMMA WaitsBut ==
  ASSUME NEW s, Good(s), NEW t, NEW W, Spares(s, t, W)
  PROVE  Waits(s, t)
<1> SUFFICES ASSUME NEW o \in ActiveChain(s) \ {s.activeContext}, t.obj[o].kind # "free"
             PROVE  /\ t.obj[o].sp = s.obj[o].sp
                    /\ \A i \in (s.obj[o].temporaryCount + 1)..s.obj[o].sp : t.obj[o].f[i] = s.obj[o].f[i]
                    /\ t.activeContext = o => t.stackPointer = s.obj[o].sp + 1
  BY Zenon DEF Waits
<1>1. /\ SameBut(s.obj[o], t.obj[o], o, W)
      /\ \A i \in (s.obj[o].temporaryCount + 1)..s.obj[o].sp : <<o, i>> \notin W
      /\ t.activeContext = o => t.stackPointer = s.obj[o].sp + 1
  BY NothingIs DEF Spares
<1>2. o \in Oops /\ s.obj[o] \in Objects
  BY InChain, MachineIs DEF Good
<1>3. (s.obj[o].temporaryCount + 1)..s.obj[o].sp \subseteq Fields
  BY <1>2, FieldsAre DEF Objects
<1> QED
  BY <1>1, <1>3 DEF SameBut

LEMMA WaitsWhileActive ==
  ASSUME NEW s, Good(s), NEW t, t.activeContext = s.activeContext, NEW W, Changes(s.obj, t.obj, W),
         \A o \in ActiveChain(s) \ {s.activeContext} :
           \A i \in (s.obj[o].temporaryCount + 1)..s.obj[o].sp : <<o, i>> \notin W
  PROVE  Waits(s, t)
<1>1. ASSUME NEW o \in ActiveChain(s) \ {s.activeContext}
      PROVE  /\ t.obj[o] = Nothing \/ SameBut(s.obj[o], t.obj[o], o, W)
             /\ \A i \in (s.obj[o].temporaryCount + 1)..s.obj[o].sp : <<o, i>> \notin W
             /\ t.activeContext = o => t.stackPointer = s.obj[o].sp + 1
  <2>1. o \in Oops
    BY InChain
  <2> QED
    BY <2>1 DEF Changes
<1>2. Spares(s, t, W)
  BY <1>1, Zenon DEF Spares
<1> QED
  BY <1>2, WaitsBut

Done(s, t) == Good(t) /\ Waits(s, t)

LEMMA DoneAfter ==
  ASSUME NEW s, NEW u, NEW t, Good(s), Undisturbed(s, u), Done(u, t)
  PROVE  Done(s, t)
BY UndisturbedFirst DEF Done

LEMMA PushUndisturbed ==
  ASSUME NEW s, Good(s), NEW t, NEW v, Pushed(s, t, v)
  PROVE  Undisturbed(s, t)
<1>1. PICK i : i = s.stackPointer + 1
  OBVIOUS
<1>2. i # SenderIndex
  BY <1>1, MachineIs, FieldsAre DEF Good
<1>3. /\ Good(t) /\ Changes(s.obj, t.obj, {<<s.activeContext, i>>})
      /\ t = [obj |-> t.obj, full |-> s.full, variable |-> s.variable,
              activeContext |-> s.activeContext, stackPointer |-> i]
  BY <1>1 DEF Pushed
<1>4. t.activeContext = s.activeContext
  BY <1>3
<1>5. ChangesUsed(s, t, {<<s.activeContext, i>>})
  BY <1>3 DEF ChangesUsed, Changes
<1> QED
  BY <1>2, <1>3, <1>4, <1>5, StaysUndisturbed

LEMMA PushWaits ==
  ASSUME NEW s, Good(s), NEW t, NEW v, Pushed(s, t, v)
  PROVE  Done(s, t)
<1>1. Undisturbed(s, t) /\ Good(t)
  BY PushUndisturbed DEF Pushed
<1>2. Waits(t, t)
  BY DEF Waits
<1> QED
  BY <1>1, <1>2, UndisturbedFirst DEF Done

LEMMA PopUndisturbed ==
  ASSUME NEW s, Good(s), NEW n \in Nat, n <= s.stackPointer
  PROVE  Undisturbed(s, pop(s, n))
<1> DEFINE t == pop(s, n)
<1>1. PICK k : k = s.stackPointer - n
  OBVIOUS
<1>2. /\ Good(t)
      /\ t = [obj |-> s.obj, full |-> s.full, variable |-> s.variable,
              activeContext |-> s.activeContext, stackPointer |-> k]
  BY <1>1, Pop
<1> HIDE DEF t
<1>3. t.obj = s.obj /\ t.activeContext = s.activeContext
  BY <1>2
<1>4. ReceiverIndex # SenderIndex
  BY FieldsAre
<1>5. ChangesUsed(s, t, {<<s.activeContext, ReceiverIndex>>})
  BY <1>3 DEF ChangesUsed, SameBut
<1>6. Undisturbed(s, t)
  BY <1>2, <1>3, <1>4, <1>5, StaysUndisturbed
<1> QED
  BY <1>6 DEF t

(* What is in the cache is what a lookup would find.                         *)
CacheOK ==
  /\ DOMAIN methodCache = {CacheHash[x] : x \in DOMAIN CacheHash}
  /\ \A h \in DOMAIN methodCache : methodCache[h] # NilPointer =>
       /\ methodCache[h].class \in Classes /\ methodCache[h].selector \in Selectors
       /\ methodCache[h].method # NilPointer
       /\ methodCache[h].method = Understood(methodCache[h].class, methodCache[h].selector)

LEMMA ClassOf ==
  ASSUME NEW s, Good(s), NEW v, Usable(s, v)
  PROVE  fetchClassOf(s, v) \in Classes
<1>1. v \in Oops => s.obj[v].kind \in Kinds
  BY MachineIs DEF Good, Usable, Objects
<1> QED
  BY <1>1, ContextsConstantsOK DEF fetchClassOf

LEMMA StackUsable ==
  ASSUME NEW s, Good(s), NEW n \in Nat, n <= s.stackPointer
  PROVE  Usable(s, stackValue(s, n))
<1>1. s \in Machines /\ s.activeContext \in Oops /\ s.stackPointer - n \in Fields
  BY MachineIs, FieldsAre DEF Good
<1> QED
  BY <1>1, FieldUsable DEF Good, stackValue

(* With the cache or without, the same is found.                             *)
LEMMA Find ==
  ASSUME DictionariesOK, CacheOK, NEW s, NEW class \in Classes, NEW selector \in Selectors, NEW n
  PROVE  findNewMethodInClass(s, class, selector, n) = lookUp(s, class, selector, n)
<1>1. CASE Hit(class, selector)
  <2> DEFINE entry == methodCache[CacheHash[<<selector, class>>]]
  <2>1. entry # NilPointer /\ entry.selector = selector /\ entry.class = class
    BY <1>1 DEF Hit
  <2>2. CacheHash[<<selector, class>>] \in DOMAIN methodCache
    BY ContextsConstantsOK DEF CacheOK
  <2>3. entry.method # NilPointer /\ entry.method = Understood(class, selector)
    <3>1. entry.method # NilPointer /\ entry.method = Understood(entry.class, entry.selector)
      BY <2>1, <2>2 DEF CacheOK
    <3> QED
      BY <2>1, <3>1
  <2>4. entry.method = lookupMethodInClass(class, selector)
    BY <2>3, Lookup
  <2> HIDE DEF entry
  <2>5. findNewMethodInClass(s, class, selector, n) =
          [s |-> s, selector |-> selector, argumentCount |-> n, method |-> entry.method]
    BY <1>1, Zenon DEF findNewMethodInClass, entry
  <2> QED
    BY <2>3, <2>4, <2>5 DEF lookUp
<1>2. CASE ~Hit(class, selector)
  BY <1>2, Zenon DEF findNewMethodInClass
<1> QED
  BY <1>1, <1>2

LEMMA Activation ==
  ASSUME NEW s, Good(s), NEW method, method.temporaryCount \in 0..StackSize,
         NEW n \in 0..StackSize, s.stackPointer - n >= 1, ~activateNewMethod(s, method, n).full
  PROVE  Done(s, activateNewMethod(s, method, n))
<1> DEFINE o == Fresh(s)
           t == activateNewMethod(s, method, n)
<1>1. IsMachine(s)
  BY MachineIs DEF Good, IsMachine
<1>2. Free(s) # {}
  BY <1>1, ActivateFull
<1>3. Activated(s, t, o, n)
  BY <1>2, Activate
<1> HIDE DEF o, t
<1>4. /\ Good(t) /\ s.obj[o].kind = "free"
      /\ \A x \in Oops : s.obj[x].kind # "free" /\ x # s.activeContext => SameBut(s.obj[x], t.obj[x], x, {})
      /\ t.activeContext = o
  <2>1. t = [obj |-> t.obj, full |-> s.full, variable |-> s.variable, activeContext |-> o,
             stackPointer |-> t.stackPointer]
    BY <1>3 DEF Activated
  <2>2. t.activeContext = o
    BY <2>1
  <2> QED
    BY <1>3, <2>2 DEF Activated
<1>5. PICK W : W = {}
  OBVIOUS
<1>6. ASSUME NEW x \in ActiveChain(s) \ {s.activeContext}
      PROVE  /\ t.obj[x] = Nothing \/ SameBut(s.obj[x], t.obj[x], x, W)
             /\ \A i \in (s.obj[x].temporaryCount + 1)..s.obj[x].sp : <<x, i>> \notin W
             /\ t.activeContext = x => t.stackPointer = s.obj[x].sp + 1
  <2>1. x \in Oops /\ s.obj[x].kind # "free"
    BY InChain
  <2> QED
    BY <1>4, <1>5, <1>6, <2>1
<1>7. Waits(s, t)
  <2>1. Spares(s, t, W)
    BY <1>6, Zenon DEF Spares
  <2> QED
    BY <2>1, WaitsBut
<1> QED
  BY <1>4, <1>7 DEF Done, t

(* doesNotUnderstand: is sent with the message.                              *)
LEMMA NotUnderstood ==
  ASSUME NEW s, Good(s), NEW method, method.temporaryCount \in 0..StackSize, NEW n \in Nat,
         s.stackPointer - n >= 1, s.stackPointer - n < StackSize,
         ~activateNewMethod(createActualMessage(s, n), method, 1).full
  PROVE  Done(s, activateNewMethod(createActualMessage(s, n), method, 1))
<1> DEFINE t == createActualMessage(s, n)
<1>1. IsMachine(s) /\ s.stackPointer \in Nat
  BY MachineIs DEF Good, IsMachine
<1>2. IsMachine(t) /\ (~t.full => ~s.full /\ Free(s) # {})
  BY <1>1, MessageFull
<1> HIDE DEF t
<1>3. ~t.full
  <2>1. ~activateNewMethod(t, method, 1).full
    BY DEF t
  <2> QED
    BY <1>2, <2>1, ActivateFull
<1>4. Messaged(s, t, n)
  BY <1>2, <1>3, Message DEF t
<1>5. Good(t) /\ t.stackPointer - 1 >= 1 /\ Undisturbed(s, t)
  <2>1. PICK k : k = s.stackPointer - n + 1
    OBVIOUS
  <2>2. Good(t) /\ t = [obj |-> t.obj, full |-> s.full, variable |-> s.variable,
                        activeContext |-> s.activeContext, stackPointer |-> k]
    BY <1>4, <2>1 DEF Messaged
  <2>3. t.stackPointer = k /\ t.activeContext = s.activeContext
    BY <2>2
  <2>4. k >= 2 /\ k # SenderIndex
    BY <1>1, <2>1, FieldsAre
  <2>5. ChangesUsed(s, t, {<<s.activeContext, k>>})
    BY <1>4, <2>1 DEF Messaged, ChangesUsed
  <2>6. Undisturbed(s, t)
    BY <2>2, <2>3, <2>4, <2>5, StaysUndisturbed
  <2> QED
    BY <1>1, <2>1, <2>2, <2>3, <2>4, <2>6
<1>6. 1 \in 0..StackSize
  BY FieldsAre
<1>7. Done(t, activateNewMethod(t, method, 1))
  BY <1>5, <1>6, Activation DEF t
<1> QED
  BY <1>5, <1>7, DoneAfter DEF t

(* A method with or without a primitive.                                     *)
LEMMA Plain ==
  ASSUME NEW s, Good(s), NEW method, method.temporaryCount \in 0..StackSize,
         NEW n \in 0..StackSize, s.stackPointer - n >= 1,
         method.primitive = "value" => MayEnter(s, stackValue(s, n)),
         ~executePlain(s, method, n).full
  PROVE  Done(s, executePlain(s, method, n))
<1>1. CASE method.primitive = "quickReturnSelf"
  <2>1. executePlain(s, method, n) = s
    BY <1>1 DEF executePlain
  <2>2. Waits(s, s)
    BY DEF Waits
  <2> QED
    BY <2>1, <2>2 DEF Done
<1>2. CASE /\ method.primitive = "value"
           /\ s.obj[stackValue(s, n)].blockArgumentCount = n
  <2>1. executePlain(s, method, n) = primitiveValue(s, n)
    BY <1>2 DEF executePlain
  <2>2. stackValue(s, n) \in Oops \ {s.activeContext} /\ s.obj[stackValue(s, n)].kind = "block"
    BY <1>2, ActiveInChain DEF MayEnter, isBlockContext
  <2>3. MayValue(s, stackValue(s, n), n)
    BY <2>2, FieldsAre DEF MayValue
  <2> DEFINE t == primitiveValue(s, n)
             block == stackValue(s, n)
  <2>4. Valued(s, t, block, n) /\ block \notin ActiveChain(s)
    BY <1>2, <2>3, Value DEF MayEnter
  <2> HIDE DEF t, block
  <2>5. /\ Good(t) /\ t.activeContext = block
        /\ \A x \in Oops \ {block, s.activeContext} :
             t.obj[x] = Nothing \/ SameBut(s.obj[x], t.obj[x], x, {})
    <3>1. t = [obj |-> t.obj, full |-> s.full, variable |-> s.variable, activeContext |-> block,
               stackPointer |-> t.stackPointer]
      BY <2>4 DEF Valued
    <3>2. t.activeContext = block
      BY <3>1
    <3> QED
      BY <2>4, <3>2 DEF Valued
  <2>6. PICK W : W = {}
    OBVIOUS
  <2>7. ASSUME NEW x \in ActiveChain(s) \ {s.activeContext}
        PROVE  /\ t.obj[x] = Nothing \/ SameBut(s.obj[x], t.obj[x], x, W)
               /\ \A i \in (s.obj[x].temporaryCount + 1)..s.obj[x].sp : <<x, i>> \notin W
               /\ t.activeContext = x => t.stackPointer = s.obj[x].sp + 1
    <3>1. x \in Oops /\ x # block
      BY <2>4, <2>7, InChain
    <3> QED
      BY <2>5, <2>6, <2>7, <3>1
  <2>8. Spares(s, t, W)
    BY <2>7, Zenon DEF Spares
  <2>9. Waits(s, t)
    BY <2>8, WaitsBut
  <2> QED
    BY <2>1, <2>5, <2>9 DEF Done, t
<1>3. CASE /\ method.primitive # "quickReturnSelf"
           /\ ~(method.primitive = "value" /\ s.obj[stackValue(s, n)].blockArgumentCount = n)
  <2>1. executePlain(s, method, n) = activateNewMethod(s, method, n)
    BY <1>3, Zenon DEF executePlain
  <2> QED
    BY <2>1, Activation
<1> QED
  BY <1>1, <1>2, <1>3

(* The selector on top of the stack is performed.                            *)
MayPerform(s, n) ==
  /\ n = 1 /\ stackValue(s, 0) \in Selectors
  /\ lookupMethodInClass(fetchClassOf(s, stackValue(s, 1)), stackValue(s, 0)) \in PlainMethods \cup {NilPointer}

LEMMA Perform ==
  ASSUME DictionariesOK, NEW s, Good(s), MayPerform(s, 1), s.stackPointer >= 2, ~primitivePerform(s, 1).full
  PROVE  Done(s, primitivePerform(s, 1))
<1> DEFINE class == fetchClassOf(s, stackValue(s, 1))
           selector == stackValue(s, 0)
           method == lookupMethodInClass(class, selector)
           other == lookupMethodInClass(class, DoesNotUnderstandSelector)
           Found(l) ==
             IF l.method.argumentCount = l.argumentCount - 1
             THEN LET at == l.s.stackPointer - l.argumentCount + 1
                      moved == transfer(l.s, l.argumentCount - 1, at + 1, l.s.activeContext,
                                        at, l.s.activeContext)
                  IN executePlain(pop(moved, 1), l.method, l.argumentCount - 1)
             ELSE activateNewMethod(l.s, l.method, l.argumentCount)
           t == primitivePerform(s, 1)
<1>1. class \in Classes /\ selector \in Selectors /\ s.stackPointer \in Nat
  BY StackUsable, ClassOf, MachineIs DEF MayPerform, Good
<1>2. t = Found(lookUp(s, class, selector, 1))
  <2>1. 1 - 1 = 0
    OBVIOUS
  <2> QED
    BY <2>1, Zenon DEF primitivePerform
<1>3. method \in PlainMethods \cup {NilPointer}
  BY DEF MayPerform
<1> HIDE DEF class, selector
<1>4. /\ method # NilPointer => FoundFor(method, selector)
      /\ FoundFor(other, DoesNotUnderstandSelector)
  BY <1>1, Lookup, ContextsConstantsOK
<1>5. lookUp(s, class, selector, 1) =
        IF method # NilPointer
        THEN [s |-> s, selector |-> selector, argumentCount |-> 1, method |-> method]
        ELSE [s |-> createActualMessage(s, 1), selector |-> DoesNotUnderstandSelector,
              argumentCount |-> 1, method |-> other]
  BY Zenon DEF lookUp
<1>6. 1 \in 0..StackSize /\ 0 \in 0..StackSize /\ s.stackPointer - 1 >= 1
  BY <1>1, FieldsAre
<1> HIDE DEF method, other, t
<1>7. CASE method # NilPointer
  <2>1. method.temporaryCount \in 0..StackSize /\ method.primitive = "none"
    BY <1>3, <1>4, <1>7, FoundForIs DEF PlainMethods
  <2>2. PICK l : l = [s |-> s, selector |-> selector, argumentCount |-> 1, method |-> method]
    OBVIOUS
  <2>3. t = Found(l) /\ l.s = s /\ l.argumentCount = 1 /\ l.argumentCount - 1 = 0 /\ l.method = method
    BY <1>2, <1>5, <1>7, <2>2
  <2>4. CASE method.argumentCount = 0
    <3> DEFINE at == s.stackPointer - 1 + 1
               u == pop(s, 1)
    <3>1. t = executePlain(pop(transfer(s, 0, at + 1, s.activeContext, at, s.activeContext), 1), method, 0)
      BY <2>3, <2>4
    <3>2. transfer(s, 0, at + 1, s.activeContext, at, s.activeContext) = s
      <4> DEFINE f == moves(s, 0, at + 1, s.activeContext, at, s.activeContext)
      <4>1. f = moving(s, 0, at + 1, s.activeContext, at, s.activeContext, f)
        BY Moves
      <4>2. transfer(s, 0, at + 1, s.activeContext, at, s.activeContext) = f[0]
        BY Zenon DEF transfer, moves, moving
      <4> HIDE DEF f
      <4>3. f[0] = s
        BY <4>1 DEF moving
      <4> QED
        BY <4>2, <4>3
    <3>3. t = executePlain(u, method, 0)
      BY <3>1, <3>2
    <3>4. Good(u) /\ u = [obj |-> s.obj, full |-> s.full, variable |-> s.variable,
                          activeContext |-> s.activeContext, stackPointer |-> s.stackPointer - 1]
          /\ Undisturbed(s, u)
      <4>1. 1 \in Nat /\ 1 <= s.stackPointer
        BY <1>1, <1>6
      <4> QED
        BY <4>1, Pop, PopUndisturbed
    <3>5. u.stackPointer - 0 >= 1
      <4>1. u.stackPointer = s.stackPointer - 1
        BY <3>4
      <4> QED
        BY <1>1, <1>6, <4>1
    <3> HIDE DEF u
    <3>6. ~executePlain(u, method, 0).full
      BY <3>3 DEF t
    <3>7. Done(u, executePlain(u, method, 0))
      BY <1>6, <2>1, <3>4, <3>5, <3>6, Plain
    <3> QED
      BY <3>3, <3>4, <3>7, DoneAfter DEF t
  <2>5. CASE method.argumentCount # 0
    <3>1. t = activateNewMethod(s, method, 1)
      BY <2>3, <2>5
    <3>2. ~activateNewMethod(s, method, 1).full
      BY <3>1 DEF t
    <3> QED
      BY <1>6, <2>1, <3>1, <3>2, Activation DEF t
  <2> QED
    BY <2>4, <2>5
<1>8. CASE method = NilPointer
  <2>1. other.temporaryCount \in 0..StackSize /\ other.argumentCount = 1
    BY <1>4, FoundForIs, ContextsConstantsOK
  <2>2. PICK l : l = [s |-> createActualMessage(s, 1), selector |-> DoesNotUnderstandSelector,
                      argumentCount |-> 1, method |-> other]
    OBVIOUS
  <2>3. t = Found(l) /\ l.s = createActualMessage(s, 1) /\ l.argumentCount = 1
        /\ l.method.argumentCount # l.argumentCount - 1 /\ l.method = other
    BY <1>2, <1>5, <1>8, <2>1, <2>2
  <2>4. t = activateNewMethod(createActualMessage(s, 1), other, 1)
    BY <2>3
  <2>5. ~activateNewMethod(createActualMessage(s, 1), other, 1).full
    BY <2>4 DEF t
  <2>6. s.stackPointer - 1 < StackSize
    BY FieldsAre, MachineIs DEF Good
  <2> QED
    BY <1>6, <2>1, <2>4, <2>5, <2>6, NotUnderstood DEF t
<1> QED
  BY <1>7, <1>8

(* What the image may send.                                                  *)
MaySend(s, selector, n) ==
  LET to == stackValue(s, n)
      method == lookupMethodInClass(fetchClassOf(s, to), selector)
  IN  /\ selector \in Selectors /\ n = Arity[selector] /\ s.stackPointer - n >= 1
      /\ method = NilPointer => s.stackPointer - n < StackSize
      /\ method # NilPointer => /\ method.primitive = "value" => MayEnter(s, to)
                                /\ method.primitive = "perform" => MayPerform(s, n)

LEMMA Execute ==
  ASSUME DictionariesOK, NEW s, Good(s), NEW selector, NEW n, MaySend(s, selector, n),
         NEW found, found = lookUp(s, fetchClassOf(s, stackValue(s, n)), selector, n),
         ~executeNewMethod(found.s, found.method, found.argumentCount).full
  PROVE  Done(s, executeNewMethod(found.s, found.method, found.argumentCount))
<1> DEFINE class == fetchClassOf(s, stackValue(s, n))
           method == lookupMethodInClass(class, selector)
           other == lookupMethodInClass(class, DoesNotUnderstandSelector)
<1>1. /\ selector \in Selectors /\ n = Arity[selector] /\ s.stackPointer - n >= 1
      /\ method = NilPointer => s.stackPointer - n < StackSize
      /\ method # NilPointer => /\ method.primitive = "value" => MayEnter(s, stackValue(s, n))
                                /\ method.primitive = "perform" => MayPerform(s, n)
  BY Zenon DEF MaySend
<1>2. n \in 0..StackSize /\ n \in Nat /\ s.stackPointer \in Nat /\ n <= s.stackPointer
  BY <1>1, ContextsConstantsOK, MachineIs, FieldsAre DEF Good
<1>3. class \in Classes
  BY <1>2, StackUsable, ClassOf
<1>4. found = IF method # NilPointer
              THEN [s |-> s, selector |-> selector, argumentCount |-> n, method |-> method]
              ELSE [s |-> createActualMessage(s, n), selector |-> DoesNotUnderstandSelector,
                    argumentCount |-> 1, method |-> other]
  BY Zenon DEF lookUp
<1>5. /\ method # NilPointer => FoundFor(method, selector)
      /\ FoundFor(other, DoesNotUnderstandSelector)
  BY <1>1, <1>3, Lookup, ContextsConstantsOK
<1> HIDE DEF class, method, other
<1>6. CASE method # NilPointer
  <2>1. found.s = s /\ found.method = method /\ found.argumentCount = n
    BY <1>4, <1>6
  <2>2. CASE method.primitive = "perform"
    <3>1. n = 1 /\ MayPerform(s, 1)
      BY <1>1, <1>6, <2>2 DEF MayPerform
    <3>2. executeNewMethod(found.s, found.method, found.argumentCount) = primitivePerform(s, 1)
      BY <2>1, <2>2, <3>1 DEF executeNewMethod
    <3> QED
      BY <1>1, <1>2, <3>1, <3>2, Perform
  <2>3. CASE method.primitive # "perform"
    <3>1. executeNewMethod(found.s, found.method, found.argumentCount) = executePlain(s, method, n)
      BY <2>1, <2>3 DEF executeNewMethod
    <3>2. method.temporaryCount \in 0..StackSize
      BY <1>5, <1>6, FoundForIs
    <3> QED
      BY <1>1, <1>2, <1>6, <3>1, <3>2, Plain
  <2> QED
    BY <2>2, <2>3
<1>7. CASE method = NilPointer
  <2>1. found.s = createActualMessage(s, n) /\ found.method = other /\ found.argumentCount = 1
    BY <1>4, <1>7
  <2>2. other.temporaryCount \in 0..StackSize /\ other.primitive = "none"
    BY <1>5, FoundForIs
  <2>3. executeNewMethod(found.s, found.method, found.argumentCount) =
          activateNewMethod(createActualMessage(s, n), other, 1)
    BY <2>1, <2>2 DEF executeNewMethod, executePlain
  <2> QED
    BY <1>1, <1>2, <1>7, <2>2, <2>3, NotUnderstood
<1> QED
  BY <1>6, <1>7

IInv == Good(vm) /\ DictionariesOK /\ CacheOK

LEMMA Send ==
  ASSUME DictionariesOK, CacheOK, NEW s, Good(s), NEW selector, NEW n, MaySend(s, selector, n),
         sendSelector(s, selector, n)
  PROVE  IInv' /\ Waits(s, vm')
<1> DEFINE class == fetchClassOf(s, stackValue(s, n))
           found == findNewMethodInClass(s, class, selector, n)
<1>1. /\ vm' = executeNewMethod(found.s, found.method, found.argumentCount)
      /\ ~vm'.full
      /\ methodCache' = IF Hit(class, selector) THEN methodCache ELSE cached(class, selector, found)
      /\ dictionary' = dictionary
  BY Zenon DEF sendSelector, sendSelectorToClass
<1>2. selector \in Selectors /\ n = Arity[selector] /\ s.stackPointer - n >= 1
  BY Zenon DEF MaySend
<1>3. n \in Nat /\ s.stackPointer \in Nat /\ n <= s.stackPointer
  BY <1>2, ContextsConstantsOK, MachineIs, FieldsAre DEF Good
<1>4. class \in Classes
  BY <1>3, StackUsable, ClassOf
<1>5. found = lookUp(s, class, selector, n)
  BY <1>2, <1>4, Find
<1>6. Good(vm') /\ Waits(s, vm')
  <2> HIDE DEF found
  <2>1. ~executeNewMethod(found.s, found.method, found.argumentCount).full
    BY <1>1
  <2> QED
    BY <1>1, <1>5, <2>1, Execute DEF Done
<1>7. DictionariesOK'
  BY <1>1 DEF DictionariesOK
<1>8. found.selector \in Selectors /\ found.method # NilPointer
      /\ found.method = Understood(class, found.selector)
  <2> DEFINE method == lookupMethodInClass(class, selector)
             other == lookupMethodInClass(class, DoesNotUnderstandSelector)
  <2>1. found = IF method # NilPointer
                THEN [s |-> s, selector |-> selector, argumentCount |-> n, method |-> method]
                ELSE [s |-> createActualMessage(s, n), selector |-> DoesNotUnderstandSelector,
                      argumentCount |-> 1, method |-> other]
    BY <1>5, Zenon DEF lookUp
  <2>2. method = Understood(class, selector) /\ other = Understood(class, DoesNotUnderstandSelector)
        /\ other # NilPointer /\ DoesNotUnderstandSelector \in Selectors
    BY <1>2, <1>4, Lookup, ContextsConstantsOK
  <2> HIDE DEF method, other, found, class
  <2> QED
    BY <1>2, <2>1, <2>2
<1>9. CacheOK'
  <2> HIDE DEF found, class
  <2>1. \A c, sel : Understood(c, sel)' = Understood(c, sel)
    BY <1>1 DEF Understood
  <2>2. CASE Hit(class, selector)
    BY <1>1, <2>1, <2>2 DEF CacheOK
  <2>3. CASE ~Hit(class, selector)
    <3> DEFINE p == CacheHash[<<selector, class>>]
               x == [selector |-> found.selector, class |-> class, method |-> found.method]
    <3>1. methodCache' = [methodCache EXCEPT ![p] = x]
      BY <1>1, <2>3 DEF cached
    <3>2. DOMAIN methodCache' = DOMAIN methodCache
          /\ \A h \in DOMAIN methodCache : methodCache'[h] = IF h = p THEN x ELSE methodCache[h]
      <4> HIDE DEF p, x
      <4> QED
        BY <3>1
    <3>3. x.class = class /\ x.selector = found.selector /\ x.method = found.method
      OBVIOUS
    <3> HIDE DEF p, x
    <3>4. ASSUME NEW h \in DOMAIN methodCache', methodCache'[h] # NilPointer
          PROVE  /\ methodCache'[h].class \in Classes /\ methodCache'[h].selector \in Selectors
                 /\ methodCache'[h].method # NilPointer
                 /\ methodCache'[h].method = Understood(methodCache'[h].class, methodCache'[h].selector)
      <4>1. CASE h = p
        <5>1. methodCache'[h] = x
          BY <3>2, <4>1
        <5> QED
          BY <1>4, <1>8, <3>3, <5>1
      <4>2. CASE h # p
        <5>1. methodCache'[h] = methodCache[h] /\ h \in DOMAIN methodCache
          BY <3>2, <4>2
        <5> QED
          BY <3>4, <5>1 DEF CacheOK
      <4> QED
        BY <4>1, <4>2
    <3> QED
      BY <2>1, <3>2, <3>4 DEF CacheOK
  <2> QED
    BY <2>2, <2>3
<1> QED
  BY <1>6, <1>7, <1>9 DEF IInv

----------------------------------------------------------------------------
(* The bytecodes.                                                            *)

LEMMA BaseIs ==
  ASSUME NEW s, Good(s)
  PROVE  Base(s) \in Nat
<1>1. s.obj[s.activeContext] \in Objects
  BY MachineIs DEF Good
<1> QED
  BY <1>1, FieldsAre DEF Base, Objects

LEMMA HasIs ==
  ASSUME Good(vm), NEW n \in Nat, Has(n)
  PROVE  vm.stackPointer \in Nat /\ n <= vm.stackPointer
BY BaseIs, MachineIs DEF Has, Good

(* The receiver, the sender and the caller.                                  *)
LEMMA ReceiverUsable ==
  ASSUME NEW s, Good(s)
  PROVE  Usable(s, receiver(s))
BY Home, FieldUsable, FieldsAre DEF receiver, Good

ReturnsTo(s, o) ==
  o = NilPointer \/ (o \in Oops /\ o # s.activeContext /\ s.obj[o].kind \in Contextual)

LEMMA CallerIs ==
  ASSUME NEW s, Good(s)
  PROVE  ReturnsTo(s, caller(s))
<1>1. PICK rank : Linked(s.obj, rank, {})
  BY DEF Good
<1>2. s.activeContext \in Oops /\ s.obj[s.activeContext].kind \in Contextual
  BY MachineIs DEF Good, Running
<1>3. SenderOK(s.obj, rank, s.activeContext, s.obj[s.activeContext].f[SenderIndex])
  BY <1>1, <1>2 DEF Linked
<1> QED
  BY <1>3 DEF caller, ReturnsTo, SenderOK

LEMMA SenderIs ==
  ASSUME NEW s, Good(s)
  PROVE  ReturnsTo(s, sender(s))
<1> DEFINE home == homeContext(s)
           a == s.activeContext
<1>1. PICK rank : Linked(s.obj, rank, {})
  BY DEF Good
<1>2. /\ home \in Oops /\ s.obj[home].kind = "method"
      /\ \/ s.obj[a].kind = "method" /\ home = a
         \/ s.obj[a].kind = "block" /\ home = s.obj[a].f[ReceiverIndex]
  BY Home
<1>3. a \in Oops /\ rank \in [Oops -> Nat]
  BY <1>1, MachineIs DEF Good, Linked
<1> HIDE DEF home, a
<1>4. SenderOK(s.obj, rank, home, s.obj[home].f[SenderIndex])
  BY <1>1, <1>2 DEF Linked, Contextual
<1>5. s.obj[a].kind = "block" => HomeOK(s.obj, rank, a, s.obj[a].f[ReceiverIndex])
  BY <1>1, <1>3 DEF Linked
<1>6. sender(s) = s.obj[home].f[SenderIndex]
  BY DEF sender, home
<1>7. CASE home = a
  BY <1>4, <1>6, <1>7 DEF ReturnsTo, SenderOK, a
<1>8. CASE s.obj[a].kind = "block" /\ home = s.obj[a].f[ReceiverIndex]
  <2>1. rank[home] > rank[a]
    BY <1>5, <1>8 DEF HomeOK
  <2>2. sender(s) # NilPointer => sender(s) \in Oops /\ s.obj[sender(s)].kind \in Contextual
                                  /\ rank[sender(s)] > rank[home]
    BY <1>2, <1>4, <1>6 DEF SenderOK
  <2>3. sender(s) # NilPointer => sender(s) # a
    <3>1. rank[home] \in Nat /\ rank[a] \in Nat
      BY <1>2, <1>3
    <3> QED
      BY <2>1, <2>2, <3>1
  <2> QED
    BY <2>2, <2>3 DEF ReturnsTo, a
<1> QED
  BY <1>2, <1>7, <1>8

(* What was popped lies above the stack pointer, and the push of the active  *)
(* context takes its place; it is not lost if it is referred to from         *)
(* elsewhere.                                                                *)
LEMMA ResultKept ==
  ASSUME NEW s, Good(s), s.stackPointer < StackSize, NEW v,
         v = s.obj[s.activeContext].f[s.stackPointer + 1], ~LosesResult(s, v)
  PROVE  Usable(push(s, s.activeContext), v)
<1> DEFINE a == s.activeContext
           i == s.stackPointer + 1
           h == Held(s)
           e == Plus(h, a)
           up == countUp(s, a)
           down == countDown(up, v)
           t == push(s, a)
<1>1. /\ s \in Machines /\ Exact(s.obj, h, {}) /\ Counted(s.obj, {}) /\ a \in Oops
      /\ h \in [Oops -> Nat] /\ h[a] >= 1 /\ s.stackPointer \in Nat /\ s.stackPointer <= StackSize
  BY HeldIs, MachineIs DEF Good
<1>2. i \in Fields /\ i \in 1..StackSize
  BY <1>1, FieldsAre
<1>3. Usable(s, v)
  BY <1>1, <1>2, FieldUsable
<1>4. Pushed(s, t, a)
  BY <1>1, HeldUsable, Push
<1>5. Good(t) /\ t.activeContext = a
  <2>1. t = [obj |-> t.obj, full |-> s.full, variable |-> s.variable,
             activeContext |-> s.activeContext, stackPointer |-> i]
    BY <1>4 DEF Pushed
  <2> HIDE DEF t, i
  <2> QED
    BY <1>4, <2>1 DEF Pushed
<1>6. CASE v = a
  BY <1>5, <1>6, HeldUsable DEF Good
<1>7. CASE v \notin Oops
  BY <1>3, <1>7 DEF Usable
<1>8. CASE v \in Oops /\ v # a
  <2>1. s.obj[v].count # 1
    BY <1>8 DEF LosesResult
  <2>2. PICK D : D = {<<a, i>>}
    OBVIOUS
  <2>3. PICK F : F = {}
    OBVIOUS
  <2>4. Leads(s, up, e, F, {} \ {a}, {}) /\ Keeps(s.obj, up.obj, {})
    <3>1. s.obj[a].kind # "free" /\ a \in Values /\ Exact(s.obj, h, F)
      BY <1>1, <2>3, HeldUsable DEF Usable
    <3> HIDE DEF a, e, up, h
    <3> QED
      BY <1>1, <3>1, CountUp DEF up, e
  <2>5. up.obj[v].count # 1 /\ up.obj[v].kind # "free" /\ up.obj[a].f[i] = v /\ up \in Machines
        /\ up = With(s, up.obj) /\ Exact(up.obj, e, F) /\ Counted(up.obj, {})
    <3>1. up = [s EXCEPT !.obj[a].count = s.obj[a].count + 1]
      BY <1>1 DEF countUp
    <3>2. up = With(s, up.obj) /\ Exact(up.obj, e, F) /\ Counted(up.obj, {})
      BY <2>4 DEF Leads, Counted
    <3>3. up.obj[v].count = s.obj[v].count
      <4>1. v \in DOMAIN s.obj
        BY <1>1, <1>8, MachineIs
      <4> HIDE DEF up, a
      <4> QED
        BY <1>1, <1>8, <3>1, <4>1, MachineIs
    <3> HIDE DEF up, i, a, e
    <3>4. up.obj[v].kind # "free" /\ up.obj[a].f[i] = v
      BY <1>1, <1>2, <1>3, <1>8, <2>4 DEF Keeps, SameBut, Usable, a, i
    <3>5. up \in Machines
      BY <1>1, <3>2, WithIs DEF Exact
    <3> QED
      BY <2>1, <3>2, <3>3, <3>4, <3>5
  <2>6. e \in [Oops -> Nat]
    BY <1>1, PlusMinus
  <2> HIDE DEF e, up
  <2>7. <<a, i>> \notin F /\ D = F \cup {<<a, i>>}
    BY <2>2, <2>3
  <2>8. Exact(up.obj, Plus(e, v), D)
    <3> HIDE DEF a, i
    <3>1. Exact(up.obj, Plus(e, up.obj[a].f[i]), F \cup {<<a, i>>})
      BY <1>1, <1>2, <2>5, <2>7, SetAside
    <3> QED
      BY <2>5, <2>7, <3>1
  <2>9. Plus(e, v)[v] >= 1
    BY <1>8, <2>6, PlusMinus
  <2>10. Keeps(up.obj, down.obj, {})
    <3> HIDE DEF down
    <3> QED
      BY <1>8, <2>5, <2>8, <2>9, CountDownKeeps DEF down
  <2>11. down.obj[v].kind # "free"
    BY <1>8, <2>5, <2>10 DEF Keeps, SameBut
  <2>12. t = [[down EXCEPT !.obj[a].f[i] = a] EXCEPT !.stackPointer = @ + 1]
    <3>1. t = [storePointer(s, i, a, a) EXCEPT !.stackPointer = @ + 1]
      BY DEF push
    <3>2. storePointer(s, i, a, a) = [down EXCEPT !.obj[a].f[i] = a]
      <4>1. v = s.obj[a].f[i]
        OBVIOUS
      <4> QED
        BY <4>1, Zenon DEF storePointer, up
    <3> HIDE DEF t, down
    <3> QED
      BY <3>1, <3>2
  <2>13. t.obj[v].kind = down.obj[v].kind
    <3>1. down = [obj |-> down.obj, full |-> down.full, variable |-> down.variable,
                  activeContext |-> down.activeContext, stackPointer |-> down.stackPointer]
      <4>1. IsMachine(up)
        BY <2>5, MachineIs DEF IsMachine
      <4>2. SameFull(up, down)
        BY SameFullCountDown
      <4> HIDE DEF down
      <4> QED
        BY <4>1, <4>2 DEF SameFull, IsMachine
    <3> HIDE DEF t, down, i
    <3>2. t.obj = [down.obj EXCEPT ![a].f[i] = a]
      BY <2>12, <3>1
    <3> QED
      BY <1>8, <3>2
  <2> QED
    BY <1>3, <2>11, <2>13 DEF Usable
<1> QED
  BY <1>6, <1>7, <1>8

(* The receiver is held by the home, and the home by the block.              *)
LEMMA ReceiverKept ==
  ASSUME NEW s, Good(s), s.stackPointer < StackSize
  PROVE  Usable(push(s, s.activeContext), receiver(s))
<1> DEFINE a == s.activeContext
           i == s.stackPointer + 1
           t == push(s, a)
           home == homeContext(s)
<1>1. s \in Machines /\ a \in Oops /\ s.stackPointer \in Nat /\ Exact(s.obj, Held(s), {})
  BY MachineIs DEF Good
<1>2. i >= 1 /\ ReceiverIndex \in Fields /\ ReceiverIndex # i
  BY <1>1, FieldsAre
<1>3. Pushed(s, t, a)
  BY <1>1, HeldUsable, Push
<1>4. /\ home \in Oops /\ s.obj[home].kind = "method"
      /\ \/ s.obj[a].kind = "method" /\ home = a
         \/ s.obj[a].kind = "block" /\ home = s.obj[a].f[ReceiverIndex]
  BY Home
<1>5. receiver(s) = s.obj[home].f[ReceiverIndex]
  BY DEF receiver
<1> HIDE DEF home, t, i
<1>6. /\ Good(t) /\ t \in Machines /\ Exact(t.obj, Held(t), {})
      /\ Changes(s.obj, t.obj, {<<a, i>>}) /\ SameBut(s.obj[a], t.obj[a], a, {<<a, i>>})
  BY <1>3 DEF Pushed, Good, i
<1>7. t.obj[a].f[ReceiverIndex] = s.obj[a].f[ReceiverIndex]
  BY <1>2, <1>6 DEF SameBut
<1>8. t.obj[home].f[ReceiverIndex] = receiver(s)
  <2>1. CASE home = a
    BY <1>5, <1>7, <2>1
  <2>2. CASE home = s.obj[a].f[ReceiverIndex]
    <3>1. t.obj[home].kind # "free"
      BY <1>1, <1>2, <1>4, <1>6, <1>7, <2>2, HeldByField
    <3>2. t.obj[home] # Nothing
      BY <3>1, NothingIs
    <3>3. SameBut(s.obj[home], t.obj[home], home, {<<a, i>>})
      BY <1>4, <1>6, <3>2 DEF Changes
    <3> QED
      BY <1>2, <1>5, <3>3 DEF SameBut
  <2> QED
    BY <1>4, <2>1, <2>2
<1> QED
  BY <1>2, <1>4, <1>6, <1>8, FieldUsable DEF t

LEMMA RestSame ==
  ASSUME DictionariesOK, CacheOK, Good(vm'), UNCHANGED <<methodCache, dictionary>>
  PROVE  IInv'
<1>1. \A c, sel : Understood(c, sel)' = Understood(c, sel)
  BY DEF Understood
<1>2. DictionariesOK'
  BY DEF DictionariesOK
<1>3. CacheOK'
  BY <1>1 DEF CacheOK
<1> QED
  BY <1>2, <1>3 DEF IInv

LEMMA ReturnValue ==
  ASSUME DictionariesOK, CacheOK, NEW s, Good(s), NEW result, Usable(s, result), NEW o, ReturnsTo(s, o),
         NEW popped \in BOOLEAN,
         s.stackPointer < StackSize /\ (ResultsHeld => ~(popped /\ LosesResult(s, result))) =>
           Usable(push(s, s.activeContext), result),
         returnValue_to(s, result, o, popped)
  PROVE  IInv' /\ Waits(s, vm')
<1> DEFINE u == push(s, s.activeContext)
           w == push(u, result)
<1>1. s \in Machines /\ Exact(s.obj, Held(s), {}) /\ s.stackPointer \in Nat
  BY MachineIs DEF Good
<1>2. CASE cannotReturn(s, o)
  <2>1. /\ s.stackPointer + 2 <= StackSize
        /\ ResultsHeld => ~(popped /\ LosesResult(s, result))
        /\ sendSelector(w, CannotReturnSelector, 1)
    BY <1>2, Zenon DEF returnValue_to
  <2>2. s.stackPointer < StackSize /\ StackSize \in Nat
    BY <1>1, <2>1, FieldsAre
  <2>3. Pushed(s, u, s.activeContext) /\ Usable(u, result)
    BY <1>1, <2>1, <2>2, HeldUsable, Push
  <2> HIDE DEF u, w
  <2>4. Good(u) /\ u.stackPointer = s.stackPointer + 1
    <3>1. PICK k : k = s.stackPointer + 1
      OBVIOUS
    <3>2. Good(u) /\ u = [obj |-> u.obj, full |-> s.full, variable |-> s.variable,
                          activeContext |-> s.activeContext, stackPointer |-> k]
      BY <2>3, <3>1 DEF Pushed
    <3> QED
      BY <3>1, <3>2
  <2>5. u.stackPointer < StackSize
    BY <1>1, <2>1, <2>2, <2>4
  <2>6. Pushed(u, w, result)
    BY <2>3, <2>4, <2>5, Push DEF w
  <2>7. Good(w) /\ w.stackPointer = s.stackPointer + 2
    <3>1. PICK k : k = u.stackPointer + 1
      OBVIOUS
    <3>2. Good(w) /\ w = [obj |-> w.obj, full |-> u.full, variable |-> u.variable,
                          activeContext |-> u.activeContext, stackPointer |-> k]
      BY <2>6, <3>1 DEF Pushed
    <3>3. w.stackPointer = k
      BY <3>2
    <3> QED
      BY <1>1, <2>4, <3>1, <3>2, <3>3
  <2>8. MaySend(w, CannotReturnSelector, 1)
    <3> DEFINE class == fetchClassOf(w, stackValue(w, 1))
               method == lookupMethodInClass(class, CannotReturnSelector)
    <3>1. CannotReturnSelector \in Selectors /\ 1 = Arity[CannotReturnSelector]
      BY ContextsConstantsOK
    <3>2. w.stackPointer - 1 >= 1 /\ w.stackPointer - 1 < StackSize /\ 1 <= w.stackPointer
      BY <1>1, <2>1, <2>2, <2>7
    <3>3. class \in Classes
      BY <2>7, <3>2, StackUsable, ClassOf
    <3> HIDE DEF class
    <3>4. method # NilPointer => FoundFor(method, CannotReturnSelector)
      BY <3>1, <3>3, Lookup
    <3> HIDE DEF method
    <3>5. method # NilPointer => method.primitive = "none"
      BY <3>4, FoundForIs
    <3>6. /\ method # NilPointer => /\ method.primitive = "value" => MayEnter(w, stackValue(w, 1))
                                    /\ method.primitive = "perform" => MayPerform(w, 1)
      BY <3>5
    <3> QED
      BY <3>1, <3>2, <3>6, Zenon DEF MaySend, method, class
  <2>9. IInv' /\ Waits(w, vm')
    BY <2>1, <2>7, <2>8, Send
  <2>10. Undisturbed(s, u) /\ Undisturbed(u, w)
    BY <2>3, <2>4, <2>6, PushUndisturbed
  <2> QED
    BY <2>4, <2>9, <2>10, UndisturbedFirst
<1>3. CASE ~cannotReturn(s, o)
  <2>1. /\ vm' = countDown(push(returnToActiveContext(countUp(s, result), o), result), result)
        /\ UNCHANGED <<methodCache, dictionary>>
    BY <1>3, Zenon DEF returnValue_to
  <2>2. o \in Oops /\ o # s.activeContext /\ s.obj[o].kind \in Contextual
    BY <1>3 DEF cannotReturn, ReturnsTo
  <2>3. s.obj[o].ip = TRUE
    <3>1. s.obj[o].ip \in BOOLEAN
      BY <1>1, <2>2 DEF Exact, Objects
    <3>2. ~(~s.obj[o].ip)
      BY <1>3 DEF cannotReturn
    <3> QED
      BY <3>1, <3>2
  <2>4. ReturnedTo(s, vm', o, result)
    BY <2>1, <2>2, <2>3, Return
  <2>5. PICK W : W = {<<o, s.obj[o].sp + 1>>}
    OBVIOUS
  <2>6. /\ Good(vm') /\ vm'.activeContext = o /\ vm'.stackPointer = s.obj[o].sp + 1
        /\ \A x \in Oops \ {s.activeContext} : vm'.obj[x] = Nothing \/ SameBut(s.obj[x], vm'.obj[x], x, W)
    <3>1. PICK k : k = s.obj[o].sp + 1
      OBVIOUS
    <3>2. vm' = [obj |-> vm'.obj, full |-> s.full, variable |-> s.variable, activeContext |-> o,
                 stackPointer |-> k]
      BY <2>4, <3>1 DEF ReturnedTo
    <3>3. vm'.activeContext = o /\ vm'.stackPointer = k
      BY <3>2
    <3> QED
      BY <2>4, <2>5, <3>1, <3>3 DEF ReturnedTo
  <2>7. ASSUME NEW x \in ActiveChain(s) \ {s.activeContext}
        PROVE  /\ vm'.obj[x] = Nothing \/ SameBut(s.obj[x], vm'.obj[x], x, W)
               /\ \A i \in (s.obj[x].temporaryCount + 1)..s.obj[x].sp : <<x, i>> \notin W
               /\ vm'.activeContext = x => vm'.stackPointer = s.obj[x].sp + 1
    <3>1. x \in Oops /\ s.obj[x] \in Objects
      BY <1>1, InChain, MachineIs
    <3>2. \A i \in (s.obj[x].temporaryCount + 1)..s.obj[x].sp : i # s.obj[x].sp + 1
      BY <3>1, FieldsAre DEF Objects
    <3> QED
      BY <2>5, <2>6, <3>1, <3>2
  <2>8. Waits(s, vm')
    <3>1. Spares(s, vm', W)
      BY <2>7, Zenon DEF Spares
    <3> QED
      BY <3>1, WaitsBut
  <2> QED
    BY <2>1, <2>6, <2>8, RestSame
<1> QED
  BY <1>2, <1>3

LEMMA PopOne ==
  ASSUME Good(vm), Has(1)
  PROVE  /\ Good(pop(vm, 1)) /\ 1 <= vm.stackPointer
         /\ pop(vm, 1) = [obj |-> vm.obj, full |-> vm.full, variable |-> vm.variable,
                          activeContext |-> vm.activeContext, stackPointer |-> vm.stackPointer - 1]
         /\ Usable(pop(vm, 1), stackValue(vm, 0))
<1>1. vm.stackPointer \in Nat /\ 1 <= vm.stackPointer
  BY HasIs
<1>2. /\ Good(pop(vm, 1))
      /\ pop(vm, 1) = [obj |-> vm.obj, full |-> vm.full, variable |-> vm.variable,
                       activeContext |-> vm.activeContext, stackPointer |-> vm.stackPointer - 1]
  BY <1>1, Pop
<1>3. Usable(vm, stackValue(vm, 0))
  BY <1>1, StackUsable
<1>4. pop(vm, 1).obj = vm.obj
  BY <1>2
<1> QED
  BY <1>1, <1>2, <1>3, <1>4 DEF Usable

(* A popped result lies above the stack pointer.                             *)
LEMMA PoppedKept ==
  ASSUME Good(vm), Has(1), ResultsHeld,
         pop(vm, 1).stackPointer < StackSize
         /\ (ResultsHeld => ~(TRUE /\ LosesResult(pop(vm, 1), stackValue(vm, 0))))
  PROVE  Usable(push(pop(vm, 1), pop(vm, 1).activeContext), stackValue(vm, 0))
<1> DEFINE s == pop(vm, 1)
           v == stackValue(vm, 0)
<1>1. /\ Good(s) /\ 1 <= vm.stackPointer
      /\ s = [obj |-> vm.obj, full |-> vm.full, variable |-> vm.variable,
              activeContext |-> vm.activeContext, stackPointer |-> vm.stackPointer - 1]
  BY PopOne
<1>2. vm.stackPointer \in Nat
  BY HasIs
<1>3. s.stackPointer < StackSize /\ ~LosesResult(s, v)
  OBVIOUS
<1> HIDE DEF s
<1>4. PICK k : k = vm.stackPointer - 1
  OBVIOUS
<1>5. s.stackPointer = k /\ s.obj = vm.obj /\ s.activeContext = vm.activeContext
  BY <1>1, <1>4
<1>6. k + 1 = vm.stackPointer - 0
  BY <1>2, <1>4
<1>7. v = s.obj[s.activeContext].f[s.stackPointer + 1]
  BY <1>5, <1>6 DEF stackValue
<1> HIDE DEF v
<1> QED
  BY <1>1, <1>3, <1>7, ResultKept DEF s, v

LEMMA Returns ==
  ASSUME IInv, ResultsHeld, returnReceiver \/ returnTop \/ blockReturnTop
  PROVE  IInv' /\ Waits(vm, vm')
<1>1. Good(vm) /\ DictionariesOK /\ CacheOK
  BY DEF IInv
<1>2. ReturnsTo(vm, sender(vm)) /\ ReturnsTo(vm, caller(vm)) /\ Usable(vm, receiver(vm))
  BY <1>1, SenderIs, CallerIs, ReceiverUsable
<1>3. CASE returnReceiver
  <2>1. returnValue_to(vm, receiver(vm), sender(vm), FALSE)
    BY <1>3 DEF returnReceiver
  <2>2. vm.stackPointer < StackSize /\ (ResultsHeld => ~(FALSE /\ LosesResult(vm, receiver(vm)))) =>
          Usable(push(vm, vm.activeContext), receiver(vm))
    BY <1>1, ReceiverKept
  <2> QED
    BY <1>1, <1>2, <2>1, <2>2, ReturnValue
<1>4. ASSUME Has(1), NEW o, ReturnsTo(vm, o), returnValue_to(pop(vm, 1), stackValue(vm, 0), o, TRUE)
      PROVE  IInv' /\ Waits(vm, vm')
  <2>1. Good(pop(vm, 1)) /\ Usable(pop(vm, 1), stackValue(vm, 0))
        /\ pop(vm, 1) = [obj |-> vm.obj, full |-> vm.full, variable |-> vm.variable,
                         activeContext |-> vm.activeContext, stackPointer |-> vm.stackPointer - 1]
    BY <1>1, <1>4, PopOne
  <2>2. ReturnsTo(pop(vm, 1), o)
    BY <1>4, <2>1 DEF ReturnsTo
  <2>3. pop(vm, 1).stackPointer < StackSize
        /\ (ResultsHeld => ~(TRUE /\ LosesResult(pop(vm, 1), stackValue(vm, 0)))) =>
          Usable(push(pop(vm, 1), pop(vm, 1).activeContext), stackValue(vm, 0))
    BY <1>1, <1>4, PoppedKept
  <2>4. IInv' /\ Waits(pop(vm, 1), vm')
    BY <1>1, <1>4, <2>1, <2>2, <2>3, ReturnValue
  <2>5. Undisturbed(vm, pop(vm, 1))
    BY <1>1, <1>4, PopOne, PopUndisturbed
  <2> QED
    BY <1>1, <2>4, <2>5, UndisturbedFirst
<1>5. CASE returnTop
  BY <1>2, <1>4, <1>5 DEF returnTop
<1>6. CASE blockReturnTop
  BY <1>2, <1>4, <1>6 DEF blockReturnTop
<1> QED
  BY <1>3, <1>5, <1>6

LEMMA TemporariesAre ==
  ASSUME Good(vm), NEW i \in temporaries(vm)
  PROVE  i \in 1..StackSize
<1>1. vm.obj[homeContext(vm)] \in Objects
  BY Home, MachineIs DEF Good
<1> QED
  BY <1>1, FieldsAre DEF temporaries, Objects

LEMMA PushesKeep ==
  ASSUME IInv, NEW v \in Pushable, pushBytecode(v)
  PROVE  IInv' /\ Waits(vm, vm')
<1>1. Good(vm) /\ DictionariesOK /\ CacheOK /\ vm.stackPointer < StackSize /\ vm' = push(vm, v)
      /\ UNCHANGED <<methodCache, dictionary>>
  BY DEF IInv, pushBytecode
<1>2. vm \in Machines /\ Exact(vm.obj, Held(vm), {})
  BY <1>1 DEF Good
<1>3. ASSUME NEW i \in temporaries(vm) PROVE Usable(vm, vm.obj[homeContext(vm)].f[i])
  <2>1. i \in Fields /\ homeContext(vm) \in Oops
    BY <1>1, TemporariesAre, Home, FieldsAre
  <2> QED
    BY <1>2, <2>1, FieldUsable
<1>4. Usable(vm, v)
  <2>1. Usable(vm, receiver(vm)) /\ Usable(vm, vm.variable)
    BY <1>1, <1>2, ReceiverUsable, HeldUsable
  <2> QED
    BY <1>3, <2>1 DEF Pushable
<1>5. Good(vm') /\ Waits(vm, vm')
  BY <1>1, <1>4, Push, PushWaits DEF Done
<1> QED
  BY <1>1, <1>5, RestSame

LEMMA StoresKeep ==
  ASSUME IInv, NEW i \in temporaries(vm), storeAndPopTemporaryVariableBytecode(i)
  PROVE  IInv' /\ Waits(vm, vm')
<1> DEFINE s == pop(vm, 1)
           v == stackValue(vm, 0)
<1>1. Good(vm) /\ DictionariesOK /\ CacheOK /\ Has(1) /\ vm' = storePointer(s, i, homeContext(vm), v)
      /\ UNCHANGED <<methodCache, dictionary>>
  BY DEF IInv, storeAndPopTemporaryVariableBytecode
<1>2. Good(s) /\ Usable(s, v)
      /\ s = [obj |-> vm.obj, full |-> vm.full, variable |-> vm.variable,
              activeContext |-> vm.activeContext, stackPointer |-> vm.stackPointer - 1]
  BY <1>1, PopOne
<1> HIDE DEF s, v
<1>3. homeContext(s) = homeContext(vm)
  <2>1. s.obj = vm.obj /\ s.activeContext = vm.activeContext
    BY <1>2
  <2> QED
    BY <2>1 DEF homeContext, homeOf, isBlockContext
<1>4. i \in 1..StackSize
  BY <1>1, TemporariesAre
<1>5. StoredIn(s, vm', homeContext(vm), i)
  BY <1>1, <1>2, <1>3, <1>4, StoreHome
<1>6. PICK W : W = {<<homeContext(vm), i>>}
  OBVIOUS
<1>7. Good(vm') /\ vm'.activeContext = vm.activeContext /\ Changes(vm.obj, vm'.obj, W)
  <2>1. s.obj = vm.obj /\ s.activeContext = vm.activeContext
    BY <1>2
  <2> QED
    BY <1>5, <1>6, <2>1 DEF StoredIn
<1>8. ASSUME NEW x \in ActiveChain(vm) \ {vm.activeContext},
             NEW k \in (vm.obj[x].temporaryCount + 1)..vm.obj[x].sp
      PROVE  <<x, k>> \notin W
  <2>1. vm.obj[x] \in Objects
    BY <1>1, InChain, MachineIs DEF Good
  <2>2. x = homeContext(vm) => i <= vm.obj[x].temporaryCount
    BY DEF temporaries
  <2> QED
    BY <1>4, <1>6, <2>1, <2>2, FieldsAre DEF Objects
<1>9. Waits(vm, vm')
  BY <1>1, <1>7, <1>8, WaitsWhileActive
<1> QED
  BY <1>1, <1>7, <1>9, RestSame

LEMMA VariableStoresKeep ==
  ASSUME IInv, storeAndPopReceiverVariableBytecode
  PROVE  IInv' /\ Waits(vm, vm')
<1>1. Good(vm) /\ DictionariesOK /\ CacheOK /\ Has(1)
      /\ vm' = storeVariable(pop(vm, 1), stackValue(vm, 0)) /\ UNCHANGED <<methodCache, dictionary>>
  BY DEF IInv, storeAndPopReceiverVariableBytecode
<1>2. Good(pop(vm, 1)) /\ Usable(pop(vm, 1), stackValue(vm, 0))
  BY <1>1, PopOne
<1>3. PICK W : W = {}
  OBVIOUS
<1>4. Good(vm') /\ vm'.activeContext = vm.activeContext /\ Changes(vm.obj, vm'.obj, W)
  <2>1. VariableStored(pop(vm, 1), vm')
    BY <1>1, <1>2, StoreVariable
  <2>2. pop(vm, 1).obj = vm.obj /\ pop(vm, 1).activeContext = vm.activeContext
    BY <1>1, PopOne
  <2> QED
    BY <1>3, <2>1, <2>2 DEF VariableStored
<1>5. Waits(vm, vm')
  BY <1>1, <1>3, <1>4, WaitsWhileActive
<1> QED
  BY <1>1, <1>4, <1>5, RestSame

LEMMA BlockCopyFull ==
  ASSUME NEW s, IsMachine(s), NEW n, ~primitiveBlockCopy(s, n).full
  PROVE  Free(s) # {}
<1> DEFINE o == Fresh(s)
           p == pop(s, 2)
           new == instantiate(p, "block")
           made == [new EXCEPT !.obj[o].ip = TRUE, !.obj[o].blockArgumentCount = n]
           given == storePointer(made, ReceiverIndex, o, homeOf(s, stackValue(s, 1)))
           t == push(given, o)
<1>1. t = primitiveBlockCopy(s, n)
  BY Zenon DEF primitiveBlockCopy
<1>2. IsMachine(p) /\ Free(p) = Free(s)
  BY DEF IsMachine, pop, Free
<1> HIDE DEF p, o
<1>3. IsMachine(new) /\ (~new.full => ~p.full /\ Free(p) # {})
  BY <1>2, Instantiated
<1> HIDE DEF new
<1>4. SameFull(new, made)
  <2>1. PICK m : m = [new.obj EXCEPT ![o].ip = TRUE, ![o].blockArgumentCount = n]
    OBVIOUS
  <2>2. IsMachine(new) => made = With(new, m)
    BY <2>1 DEF IsMachine, With
  <2> HIDE DEF made
  <2> QED
    BY <2>2, SameFullWith DEF SameFull
<1> HIDE DEF made
<1>5. SameFull(made, given)
  BY SameFullStore
<1> HIDE DEF given
<1>6. SameFull(given, t)
  BY SameFullPush
<1> HIDE DEF t
<1>7. SameFull(new, t)
  BY <1>4, <1>5, <1>6, SameFullTrans
<1>8. ~new.full
  BY <1>1, <1>3, <1>7 DEF SameFull
<1> QED
  BY <1>2, <1>3, <1>8

LEMMA BlockCopied ==
  ASSUME NEW s, Good(s), NEW n \in 0..StackSize, s.stackPointer >= 2,
         stackValue(s, 1) = s.activeContext, Free(s) # {}
  PROVE  Done(s, primitiveBlockCopy(s, n))
<1> DEFINE t == primitiveBlockCopy(s, n)
<1>1. Copied(s, t)
  BY BlockCopy
<1> HIDE DEF t
<1>2. PICK W : W = {}
  OBVIOUS
<1>3. ASSUME NEW x \in ActiveChain(s) \ {s.activeContext}
      PROVE  /\ t.obj[x] = Nothing \/ SameBut(s.obj[x], t.obj[x], x, W)
             /\ \A i \in (s.obj[x].temporaryCount + 1)..s.obj[x].sp : <<x, i>> \notin W
             /\ t.activeContext = x => t.stackPointer = s.obj[x].sp + 1
  <2>1. x \in Oops /\ s.obj[x].kind # "free"
    BY InChain
  <2> QED
    BY <1>1, <1>2, <2>1 DEF Copied
<1>4. Spares(s, t, W)
  BY <1>3, Zenon DEF Spares
<1> QED
  BY <1>1, <1>4, WaitsBut DEF Done, Copied, t

LEMMA BlockCopiesKeep ==
  ASSUME IInv, NEW n \in BlockArguments, blockCopyBytecodes(n)
  PROVE  IInv' /\ Waits(vm, vm')
<1> DEFINE a == vm.activeContext
           u == push(vm, a)
           w == push(u, Self)
<1>1. Good(vm) /\ DictionariesOK /\ CacheOK /\ vm.stackPointer + 2 <= StackSize
      /\ vm' = primitiveBlockCopy(w, n) /\ ~vm'.full /\ UNCHANGED <<methodCache, dictionary>>
  BY DEF IInv, blockCopyBytecodes
<1>2. vm \in Machines /\ Exact(vm.obj, Held(vm), {}) /\ vm.stackPointer \in Nat /\ StackSize \in Nat
      /\ a \in Oops /\ vm.stackPointer < StackSize
  BY <1>1, MachineIs, FieldsAre DEF Good
<1>3. PICK k : k = vm.stackPointer + 1
  OBVIOUS
<1>4. Pushed(vm, u, a)
  BY <1>1, <1>2, HeldUsable, Push
<1> HIDE DEF a, u, w
<1>5. Good(u) /\ u.obj[a].f[k] = a /\ u.stackPointer = k /\ u.activeContext = a
  <2>1. Good(u) /\ u.obj[a].f[k] = a
        /\ u = [obj |-> u.obj, full |-> vm.full, variable |-> vm.variable,
                activeContext |-> vm.activeContext, stackPointer |-> k]
    BY <1>3, <1>4 DEF Pushed, a
  <2> QED
    BY <2>1 DEF a
<1>6. Usable(u, Self) /\ u.stackPointer < StackSize
  <2>1. Self \in Values /\ Self \notin Oops
    BY NilIsNoOop DEF Values
  <2> QED
    BY <1>1, <1>2, <1>3, <1>5, <2>1 DEF Usable
<1>7. Pushed(u, w, Self)
  BY <1>5, <1>6, Push DEF w
<1>8. PICK l : l = k + 1
  OBVIOUS
<1>9. Good(w) /\ w.stackPointer = l /\ w.activeContext = a /\ SameBut(u.obj[a], w.obj[a], a, {<<a, l>>})
  <2>1. Good(w) /\ SameBut(u.obj[a], w.obj[a], a, {<<a, l>>})
        /\ w = [obj |-> w.obj, full |-> u.full, variable |-> u.variable,
                activeContext |-> a, stackPointer |-> l]
    BY <1>5, <1>7, <1>8 DEF Pushed
  <2> QED
    BY <2>1
<1>10. l - 1 = k /\ k \in Fields /\ l >= 2 /\ k # l
  BY <1>1, <1>2, <1>3, <1>8, FieldsAre
<1>11. stackValue(w, 1) = a
  BY <1>5, <1>9, <1>10 DEF stackValue, SameBut
<1>12. Free(w) # {}
  <2>1. IsMachine(w)
    BY <1>9, MachineIs DEF Good, IsMachine
  <2> QED
    BY <1>1, <2>1, BlockCopyFull
<1>13. n \in 0..StackSize
  BY ContextsConstantsOK
<1>14. Done(w, vm')
  BY <1>1, <1>9, <1>10, <1>11, <1>12, <1>13, BlockCopied
<1>15. Undisturbed(vm, u) /\ Undisturbed(u, w)
  BY <1>1, <1>4, <1>5, <1>7, PushUndisturbed
<1>16. Done(vm, vm')
  BY <1>1, <1>5, <1>14, <1>15, DoneAfter
<1> QED
  BY <1>1, <1>16, RestSame DEF Done

LEMMA SendsKeep ==
  ASSUME IInv, NEW selector \in Selectors, sendBytecode(selector)
  PROVE  IInv' /\ Waits(vm, vm')
<1> DEFINE n == Arity[selector]
           to == stackValue(vm, n)
           method == lookupMethodInClass(fetchClassOf(vm, to), selector)
<1>1. Good(vm) /\ DictionariesOK /\ CacheOK /\ Has(n + 1) /\ sendSelector(vm, selector, n)
      /\ ImageSends(selector, n)
  BY Zenon DEF IInv, sendBytecode
<1>2. n \in Nat /\ vm.stackPointer \in Nat /\ vm.stackPointer - n >= 1
  <2>1. n \in Nat
    BY ContextsConstantsOK, FieldsAre
  <2> HIDE DEF n
  <2>2. vm.stackPointer \in Nat /\ n + 1 <= vm.stackPointer
    BY <1>1, <2>1, HasIs
  <2> QED
    BY <2>1, <2>2
<1>3. /\ method = NilPointer => vm.stackPointer - n < StackSize
      /\ method # NilPointer => method.primitive # "perform" /\ (method.primitive = "value" => MayEnter(vm, to))
  <2>1. IF method = NilPointer THEN vm.stackPointer - n < StackSize
        ELSE method.primitive # "perform" /\ (method.primitive = "value" => MayEnter(vm, to))
    BY <1>1, Zenon DEF ImageSends, MaySendTo
  <2> HIDE DEF method, to, n
  <2> QED
    BY <2>1
<1>4. MaySend(vm, selector, n)
  <2>1. method # NilPointer => (method.primitive = "perform" => MayPerform(vm, n))
    BY <1>3, Zenon
  <2> QED
    BY <1>2, <1>3, <2>1, Zenon DEF MaySend
<1> QED
  BY <1>1, <1>4, Send

LEMMA PerformsKeep ==
  ASSUME IInv, NEW selector \in Performed, performBytecodes(selector)
  PROVE  IInv' /\ Waits(vm, vm')
<1> DEFINE s == push(vm, selector)
           a == vm.activeContext
           k == vm.stackPointer + 1
           to == stackValue(vm, 0)
           method == lookupMethodInClass(fetchClassOf(s, stackValue(s, 1)), PerformSelector)
<1>1. Good(vm) /\ DictionariesOK /\ CacheOK /\ Has(1) /\ vm.stackPointer < StackSize
      /\ lookupMethodInClass(fetchClassOf(vm, to), selector) \in PlainMethods \cup {NilPointer}
      /\ sendSelector(s, PerformSelector, 1)
  BY Zenon DEF IInv, performBytecodes
<1>2. selector \in Selectors /\ PerformSelector \in Selectors /\ Arity[PerformSelector] = 1
  BY ContextsConstantsOK
<1>3. vm.stackPointer \in Nat /\ 1 <= vm.stackPointer /\ StackSize \in Nat /\ vm \in Machines
  BY <1>1, HasIs, FieldsAre DEF Good
<1>4. Usable(vm, selector)
  BY <1>2, ContextsConstantsOK DEF Usable, Values
<1>5. Pushed(vm, s, selector)
  BY <1>1, <1>4, Push
<1> HIDE DEF s, k
<1>6. /\ Good(s) /\ s.stackPointer = k /\ s.activeContext = a /\ s.obj[a].f[k] = selector
      /\ SameBut(vm.obj[a], s.obj[a], a, {<<a, k>>}) /\ Changes(vm.obj, s.obj, {<<a, k>>})
  <2>1. /\ Good(s) /\ s.obj[a].f[k] = selector
        /\ SameBut(vm.obj[a], s.obj[a], a, {<<a, k>>}) /\ Changes(vm.obj, s.obj, {<<a, k>>})
        /\ s = [obj |-> s.obj, full |-> vm.full, variable |-> vm.variable,
                activeContext |-> vm.activeContext, stackPointer |-> k]
    BY <1>5 DEF Pushed, k
  <2> HIDE DEF a
  <2>2. s.stackPointer = k /\ s.activeContext = vm.activeContext
    BY <2>1
  <2> QED
    BY <2>1, <2>2 DEF a
<1>7. k \in Nat /\ k - 1 = vm.stackPointer - 0 /\ k - 0 = k /\ k >= 2 /\ k - 1 \in Fields /\ k - 1 # k
      /\ k - 1 >= 1 /\ k - 1 < StackSize /\ 1 <= k
  BY <1>1, <1>3, FieldsAre DEF k
<1>8. stackValue(s, 1) = to /\ stackValue(s, 0) = selector
  <2>1. s.obj[a].f[k - 1] = vm.obj[a].f[k - 1]
    BY <1>6, <1>7 DEF SameBut
  <2> HIDE DEF a
  <2>2. stackValue(s, 1) = s.obj[a].f[k - 1] /\ stackValue(s, 0) = s.obj[a].f[k - 0]
    BY <1>6 DEF stackValue
  <2>3. to = vm.obj[a].f[k - 1]
    BY <1>7 DEF stackValue, a
  <2> QED
    BY <1>6, <1>7, <2>1, <2>2, <2>3
<1>9. fetchClassOf(s, to) = fetchClassOf(vm, to)
  <2>1. Usable(s, to)
    <3>1. 1 \in Nat /\ 1 <= s.stackPointer
      BY <1>6, <1>7
    <3> QED
      BY <1>6, <1>8, <3>1, StackUsable
  <2>2. to \in Oops => s.obj[to].kind = vm.obj[to].kind
    <3>1. to \in Oops => s.obj[to] # Nothing
      BY <2>1, NothingIs DEF Usable
    <3> HIDE DEF a, to
    <3> QED
      BY <1>6, <3>1 DEF Changes, SameBut
  <2> HIDE DEF to
  <2> QED
    BY <2>2 DEF fetchClassOf
<1>10. MayPerform(s, 1)
  BY <1>1, <1>2, <1>8, <1>9 DEF MayPerform
<1>11. method # NilPointer => method.primitive = "perform"
  <2> DEFINE class == fetchClassOf(s, stackValue(s, 1))
  <2>1. class \in Classes
    <3>1. 1 \in Nat /\ 1 <= s.stackPointer
      BY <1>6, <1>7
    <3> QED
      BY <1>6, <3>1, StackUsable, ClassOf
  <2> HIDE DEF class
  <2> DEFINE m == lookupMethodInClass(class, PerformSelector)
  <2>2. m # NilPointer => FoundFor(m, PerformSelector)
    BY <1>1, <1>2, <2>1, Lookup
  <2> HIDE DEF m
  <2>3. m # NilPointer => m.primitive = "perform"
    BY <2>2, FoundForIs
  <2> QED
    BY <2>3 DEF m, class
<1>12. MaySend(s, PerformSelector, 1)
  <2>1. s.stackPointer - 1 >= 1 /\ s.stackPointer - 1 < StackSize
    BY <1>6, <1>7
  <2>2. method # NilPointer => /\ method.primitive = "value" => MayEnter(s, stackValue(s, 1))
                               /\ method.primitive = "perform" => MayPerform(s, 1)
    <3> HIDE DEF method
    <3> QED
      BY <1>10, <1>11
  <2> QED
    BY <1>2, <2>1, <2>2, Zenon DEF MaySend
<1>13. IInv' /\ Waits(s, vm')
  BY <1>1, <1>6, <1>12, Send
<1>14. Undisturbed(vm, s)
  BY <1>1, <1>5, PushUndisturbed
<1> QED
  BY <1>1, <1>13, <1>14, UndisturbedFirst

LEMMA InstallsKeep ==
  ASSUME IInv, NEW y \in Installs, install(y[1], y[2])
  PROVE  IInv' /\ Waits(vm, vm')
<1> DEFINE class == y[1]
           selector == y[2]
           d == dictionary[class]
           start == Hash[selector] % Len(d)
           empty == {k \in 0..(Len(d) - 1) : Probe(d, start, k) = NilPointer}
           p == ((start + Min(empty)) % Len(d)) + 1
           x == [selector |-> selector, method |-> NewMethod]
           n == [d EXCEPT ![p] = x]
<1>1. class \in Classes /\ selector \in Selectors /\ EntryOK(x) /\ x.selector = selector
  BY ContextsConstantsOK
<1>2. /\ empty # {} /\ lookupMethodInDictionary(d, selector) = NilPointer
      /\ dictionary' = [dictionary EXCEPT ![class][p] = x]
      /\ methodCache' = primitiveFlushCache(methodCache)
      /\ vm' = vm
  BY Zenon DEF install
<1>3. Good(vm) /\ DictionariesOK /\ CacheOK /\ DictionaryOK(d)
  BY <1>1 DEF IInv, DictionariesOK
<1> HIDE DEF x, class, selector
<1>4. DictionaryOK(n) /\ \A other \in Selectors : DefinesIn(d, other) => DefinesIn(n, other)
  <2>1. PICK from : from = start
    OBVIOUS
  <2>2. from = Hash[selector] % Len(d)
    BY <2>1
  <2>3. Places(d, from) = empty /\ n = InstalledIn(d, from, x)
    BY <2>1, Zenon DEF Places, InstalledIn
  <2> HIDE DEF d, start, empty, n
  <2> QED
    BY <1>1, <1>2, <1>3, <2>2, <2>3, Installed
<1>5. DOMAIN dictionary = Classes
  BY <1>3 DEF DictionariesOK
<1> HIDE DEF p, empty, start
<1>6. /\ DOMAIN dictionary' = Classes /\ dictionary'[class] = n
      /\ \A c \in Classes : c # class => dictionary'[c] = dictionary[c]
  BY <1>1, <1>2, <1>5
<1> HIDE DEF n, d
<1>7. DictionariesOK'
  <2>1. ASSUME NEW c \in Classes
        PROVE  /\ DictionaryOK(dictionary'[c])
               /\ \A other \in Selectors : DefinesIn(dictionary[c], other) => DefinesIn(dictionary'[c], other)
    <3>1. CASE c = class
      BY <1>4, <1>6, <3>1 DEF d
    <3>2. CASE c # class
      BY <1>3, <1>6, <3>2 DEF DictionariesOK
    <3> QED
      BY <3>1, <3>2
  <2>2. ASSUME NEW c \in Classes
        PROVE  \E i \in DOMAIN Chain[c] : DefinesIn(dictionary'[Chain[c][i]], DoesNotUnderstandSelector)
    <3>1. PICK i \in DOMAIN Chain[c] : DefinesIn(dictionary[Chain[c][i]], DoesNotUnderstandSelector)
      BY <1>3 DEF DictionariesOK
    <3>2. Chain[c][i] \in Classes
      BY ChainIs
    <3>3. DoesNotUnderstandSelector \in Selectors
      BY ContextsConstantsOK
    <3> QED
      BY <2>1, <3>1, <3>2, <3>3
  <2> QED
    BY <1>6, <2>1, <2>2 DEF DictionariesOK
<1>8. CacheOK'
  <2>1. DOMAIN methodCache' = DOMAIN methodCache /\ \A h \in DOMAIN methodCache : methodCache'[h] = NilPointer
    BY <1>2 DEF primitiveFlushCache
  <2> QED
    BY <1>3, <2>1 DEF CacheOK
<1>9. Good(vm')
  BY <1>2, <1>3
<1>10. Waits(vm, vm')
  BY <1>2 DEF Waits
<1> QED
  BY <1>7, <1>8, <1>9, <1>10 DEF IInv

----------------------------------------------------------------------------
(* At the start the first method runs, and nothing refers to its context.    *)

LEMMA InitGood == Init => IInv
<1> SUFFICES ASSUME Init PROVE IInv
  OBVIOUS
<1> DEFINE a == Min(Oops)
           first == [Nothing EXCEPT !.kind = "method", !.count = 1, !.ip = TRUE, !.f[ReceiverIndex] = Self]
           m == [o \in Oops |-> IF o # a THEN Nothing ELSE first]
           z == [o \in Oops |-> 0]
<1>1. /\ vm = [obj |-> m, full |-> FALSE, variable |-> Self, activeContext |-> a, stackPointer |-> 0]
      /\ methodCache = [h \in {CacheHash[x] : x \in DOMAIN CacheHash} |-> NilPointer]
      /\ dictionary = Dictionary
  BY Zenon DEF Init
<1>2. a \in Oops
  BY ContextsConstantsOK, MinIs
<1> HIDE DEF a
<1>4. /\ first.kind = "method" /\ first.count = 1 /\ first.ip = TRUE /\ first.sp = 0
      /\ first.f = [Nothing.f EXCEPT ![ReceiverIndex] = Self]
  <2>1. PICK g : g = [i \in Fields |-> NilPointer]
    OBVIOUS
  <2>2. Nothing = [kind |-> "free", count |-> 0, f |-> g, ip |-> FALSE, sp |-> 0, temporaryCount |-> 0,
                   blockArgumentCount |-> 0]
    BY <2>1 DEF Nothing
  <2> QED
    BY <2>2
<1>5. /\ first.f \in [Fields -> Values] /\ first.f[SenderIndex] = NilPointer
      /\ \A i \in Fields : first.f[i] \in {NilPointer, Self}
  <2>1. Nothing.f = [i \in Fields |-> NilPointer] /\ Self \in Values /\ NilPointer \in Values
    BY NilIsNoOop DEF Nothing, Values
  <2> HIDE DEF first
  <2> QED
    BY <1>4, <2>1, FieldsAre
<1>6. first \in Objects
  <2> DEFINE kind == [Nothing EXCEPT !.kind = "method"]
             count == [kind EXCEPT !.count = 1]
             ip == [count EXCEPT !.ip = TRUE]
  <2>1. Nothing \in Objects /\ "method" \in Kinds
    BY NothingIs DEF Kinds
  <2>2. kind \in Objects
    BY <2>1 DEF Objects
  <2> HIDE DEF kind
  <2>3. count \in Objects
    BY <2>2 DEF Objects
  <2> HIDE DEF count
  <2>4. ip \in Objects
    BY <2>3 DEF Objects
  <2> HIDE DEF ip
  <2>5. [ip EXCEPT !.f[ReceiverIndex] = Self] \in Objects
    BY <2>4, FieldsAre DEF Objects, Values
  <2> QED
    BY <2>5 DEF ip, count, kind
<1> HIDE DEF first
<1>7. m \in [Oops -> Objects] /\ m[a] = first /\ \A o \in Oops : o # a => m[o] = Nothing
  BY <1>2, <1>6, NothingIs
<1> HIDE DEF m
<1>8. vm \in Machines /\ vm.obj = m /\ vm.activeContext = a /\ vm.variable = Self
  <2>1. 0 \in 0..StackSize /\ FALSE \in BOOLEAN /\ Self \in Values
    BY FieldsAre DEF Values
  <2>2. [obj |-> m, full |-> FALSE, variable |-> Self, activeContext |-> a, stackPointer |-> 0] \in Machines
    BY <1>2, <1>7, <2>1 DEF Machines
  <2> QED
    BY <1>1, <2>2
<1>9. \A o \in Oops : Held(vm)[o] = IF o = a THEN 1 ELSE 0
  <2>1. z \in [Oops -> Nat] /\ \A o \in Oops : z[o] = 0
    OBVIOUS
  <2>2. Held(vm) = Plus(Plus(z, Self), a)
    BY <1>8 DEF Held
  <2> HIDE DEF z
  <2>3. \A o \in Oops : Plus(z, Self)[o] = 0
    BY <2>1, NilIsNoOop DEF Plus
  <2> QED
    BY <2>2, <2>3 DEF Plus
<1>10. Exact(vm.obj, Held(vm), {})
  <2>1. \A o \in Oops, i \in Fields : m[o].f[i] \notin Oops
    BY <1>5, <1>7, NothingIs, NilIsNoOop
  <2>2. ASSUME NEW o \in Oops PROVE Refs(m, {}, o) = {}
    BY <2>1 DEF Refs
  <2>3. \A o \in Oops : Cardinality(Refs(m, {}, o)) = 0
    BY <2>2, FS_EmptySet
  <2>4. Held(vm) \in [Oops -> Nat]
    BY <1>8, HeldIs
  <2>5. \A o \in Oops : m[o].kind = "free" => m[o] = Nothing
    BY <1>4, <1>7
  <2>6. \A o \in Oops : m[o].count = Cardinality(Refs(m, {}, o)) + Held(vm)[o]
    BY <1>4, <1>7, <1>9, <2>3, NothingIs
  <2> QED
    BY <1>7, <1>8, <2>4, <2>5, <2>6 DEF Exact
<1>11. Counted(vm.obj, {})
  BY <1>4, <1>7, <1>8, NothingIs DEF Counted
<1>12. \E rank : Linked(vm.obj, rank, {})
  <2>1. z \in [Oops -> Nat]
    OBVIOUS
  <2> HIDE DEF z
  <2>2. Linked(m, z, {})
    BY <1>4, <1>5, <1>7, <2>1, NothingIs DEF Linked, SenderOK, HomeOK, Contextual
  <2> QED
    BY <1>8, <2>2
<1>13. Resting(vm.obj, vm.activeContext) /\ Running(vm.obj, vm.activeContext)
  BY <1>4, <1>7, <1>8, NothingIs DEF Resting, Running, Contextual
<1>14. Good(vm)
  BY <1>8, <1>10, <1>11, <1>12, <1>13 DEF Good
<1>15. DictionariesOK
  BY <1>1, ImageOK DEF DictionariesOK
<1>16. CacheOK
  BY <1>1 DEF CacheOK
<1> QED
  BY <1>14, <1>15, <1>16 DEF IInv

----------------------------------------------------------------------------
(* The theorems.                                                             *)

LEMMA NextKeeps ==
  ASSUME ResultsHeld, IInv, [Next]_vars
  PROVE  IInv' /\ (Waits(vm, vm') \/ UNCHANGED vars)
<1>1. CASE UNCHANGED vars
  <2>1. Good(vm') /\ UNCHANGED <<methodCache, dictionary>>
    BY <1>1 DEF IInv, vars
  <2> QED
    BY <1>1, <2>1, RestSame DEF IInv
<1>2. CASE \E v \in Pushable : pushBytecode(v)
  BY <1>2, PushesKeep
<1>3. CASE \E i \in temporaries(vm) : storeAndPopTemporaryVariableBytecode(i)
  BY <1>3, StoresKeep
<1>4. CASE storeAndPopReceiverVariableBytecode
  BY <1>4, VariableStoresKeep
<1>5. CASE \E n \in BlockArguments : blockCopyBytecodes(n)
  BY <1>5, BlockCopiesKeep
<1>6. CASE \E selector \in Selectors \ Performed : sendBytecode(selector)
  BY <1>6, SendsKeep
<1>7. CASE returnReceiver \/ returnTop \/ blockReturnTop
  BY <1>7, Returns
<1>8. CASE \E selector \in Performed : performBytecodes(selector)
  BY <1>8, PerformsKeep
<1>9. CASE \E x \in Installs : install(x[1], x[2])
  BY <1>9, InstallsKeep
<1> QED
  BY <1>1, <1>2, <1>3, <1>4, <1>5, <1>6, <1>7, <1>8, <1>9, Zenon DEF Next

LEMMA Inductive == ResultsHeld => (Spec => []IInv)
<1> SUFFICES ASSUME ResultsHeld PROVE Spec => []IInv
  OBVIOUS
<1>1. Init => IInv
  BY InitGood
<1>2. IInv /\ [Next]_vars => IInv'
  BY NextKeeps
<1> QED
  BY <1>1, <1>2, PTL DEF Spec

(* Where the image returns out of a dead context only what is referred to    *)
(* from elsewhere, the count that countUp and countDown keep for an object   *)
(* is the number of pointers to it, in fields and in the two registers,      *)
(* after every bytecode: no return, failed lookup or block leaks a context.  *)
THEOREM CountsStayExact == ResultsHeld => (Spec => []CountsExact)
<1> SUFFICES ASSUME ResultsHeld PROVE Spec => []CountsExact
  OBVIOUS
<1>1. ASSUME IInv PROVE CountsExact
  <2>1. vm \in Machines /\ Exact(vm.obj, Held(vm), {})
    BY <1>1 DEF IInv, Good
  <2>2. TypeOK
    BY <2>1, MachineIs DEF TypeOK, Objects
  <2>3. ASSUME NEW o \in Oops
        PROVE  vm.obj[o].count = References(vm.obj, Oops, o)
                                 + (IF vm.activeContext = o THEN 1 ELSE 0)
                                 + (IF vm.variable = o THEN 1 ELSE 0)
    <3>1. References(vm.obj, Oops, o) = Cardinality(Refs(vm.obj, {}, o))
      <4>1. PICK D : D = {}
        OBVIOUS
      <4>2. {x \in Oops \X Fields : vm.obj[x[1]].f[x[2]] = o} = Refs(vm.obj, D, o)
        BY <4>1 DEF Refs
      <4> QED
        BY <4>1, <4>2 DEF References
    <3>2. Cardinality(Refs(vm.obj, {}, o)) \in Nat
      BY SlotsFinite DEF Refs
    <3>3. vm.obj[o].count = Cardinality(Refs(vm.obj, {}, o)) + Held(vm)[o]
      BY <2>1 DEF Exact
    <3>4. Held(vm)[o] = (IF vm.variable = o THEN 1 ELSE 0) + (IF vm.activeContext = o THEN 1 ELSE 0)
      BY DEF Held, Plus
    <3> QED
      BY <3>1, <3>2, <3>3, <3>4
  <2> QED
    BY <2>2, <2>3 DEF CountsExact
<1> QED
  BY <1>1, Inductive, PTL

(* Under the same condition no field of an object, no register and not the   *)
(* variable of Self leads to an object that countDown has freed, and the     *)
(* active context is a context.                                              *)
THEOREM NothingDangles == ResultsHeld => (Spec => []NoDangling)
<1> SUFFICES ASSUME ResultsHeld PROVE Spec => []NoDangling
  OBVIOUS
<1>1. ASSUME IInv PROVE NoDangling
  <2>1. /\ vm \in Machines /\ Exact(vm.obj, Held(vm), {})
        /\ Running(vm.obj, vm.activeContext)
    BY <1>1 DEF IInv, Good
  <2>2. vm.activeContext \in ContextOops
    BY <2>1, MachineIs DEF Running, Contextual, ContextOops
  <2>3. InUse(vm.variable)
    BY <2>1, HeldUsable DEF Usable, InUse
  <2>4. \A o \in Oops, i \in Fields : InUse(vm.obj[o].f[i])
    BY <2>1, FieldUsable DEF Usable, InUse
  <2> QED
    BY <2>2, <2>3, <2>4 DEF NoDangling
<1> QED
  BY <1>1, Inductive, PTL

(* The active context has an instruction pointer: a context whose pointer    *)
(* nilContextFields cleared when it was left is never made active, since     *)
(* returns to it become cannotReturn: and no other step activates it.        *)
THEOREM ReturnedStaysReturned == ResultsHeld => (Spec => []NeverResumesReturned)
<1> SUFFICES ASSUME ResultsHeld PROVE Spec => []NeverResumesReturned
  OBVIOUS
<1>1. IInv => NeverResumesReturned
  BY DEF IInv, Good, Running, NeverResumesReturned
<1> QED
  BY <1>1, Inductive, PTL

(* An entry of the method cache is what looking its selector up in its class *)
(* would find: findNewMethodInClass enters it under the selector that was    *)
(* found, and compiling a method flushes it.                                 *)
THEOREM CacheStaysCoherent == ResultsHeld => (Spec => []CacheCoherent)
<1> SUFFICES ASSUME ResultsHeld PROVE Spec => []CacheCoherent
  OBVIOUS
<1>1. IInv => CacheCoherent
  BY DEF IInv, CacheOK, CacheCoherent
<1> QED
  BY <1>1, Inductive, PTL

(* A context that waits in the chain of senders keeps what it left on its    *)
(* stack: until it is freed neither its stored stack pointer nor a value     *)
(* above its temporaries changes, and a return to it adds one value to those *)
(* it had. So no callee, block or failed lookup writes into its caller.      *)
THEOREM WaitingStacksStay == ResultsHeld => (Spec => WaitingStackKept)
<1> SUFFICES ASSUME ResultsHeld PROVE Spec => WaitingStackKept
  OBVIOUS
<1> DEFINE Kept ==
  \A o \in ActiveChain(vm) \ {vm.activeContext} :
    LET before == vm.obj[o]
        after == vm'.obj[o]
    IN \/ after.kind = "free"
       \/ /\ after.sp = before.sp
          /\ \A i \in (before.temporaryCount + 1)..before.sp : after.f[i] = before.f[i]
          /\ vm'.activeContext = o => vm'.stackPointer = before.sp + 1
<1>1. IInv /\ [Next]_vars => [Kept]_vars
  BY NextKeeps, Zenon DEF Waits
<1>2. Spec => []IInv
  BY Inductive
<1>3. Spec => [][Kept]_vars
  BY <1>1, <1>2, PTL DEF Spec
<1> QED
  BY <1>3 DEF WaitingStackKept

=============================================================================
