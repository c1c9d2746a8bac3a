--------------------------- MODULE TypeStoreProofs ---------------------------
(***************************************************************************)
(* The safety properties of TypeStore, for any number of threads, stores   *)
(* and Values, whichever stores are kept alive, in both builds.            *)
(***************************************************************************)
EXTENDS TypeStore, FiniteSetTheorems, TLAPS

-----------------------------------------------------------------------------
(* What the reference count counts. *)

Owned(s) == IF s \in factories THEN 1 ELSE 0
ValuesOf(s) == {v \in Value : values[v] = s /\ Counted(s)}
StoresOn(s) == {d \in dependents[s] : s \in KeepAlive}
Releasing(s) == {t \in Thread : release[t] = s}

Counts ==
    \A s \in Store :
        count[s] = Owned(s) + Cardinality(ValuesOf(s)) + Cardinality(StoresOn(s))
                            + Cardinality(Releasing(s))

(* The rest of the inductive invariant. *)

Unneeded(s) == s \notin factories /\ (\A v \in Value : values[v] # s) /\ dependents[s] = {}

\* A destroyed store has nothing left that refers to it, and another one has a reference.
Dead == \A s \in deleted : Unneeded(s) /\ \A t \in Thread : release[t] # s
Needed == \A s \in Store \ deleted : count[s] > 0

\* The factory of a store that is not kept alive outlives all use of its types.
Outlived == \A s \in Store \ KeepAlive : s \notin factories => Unneeded(s)

\* A caller of MakeType keeps the factory and the type it passes.
Pinned ==
    \A t \in Thread : op[t] # NoOp =>
        /\ op[t].step # "idle"
        /\ op[t].into \in factories
        /\ op[t].from \in Store
        /\ IF op[t].pin = None THEN op[t].from \in factories ELSE Holds(op[t].pin, op[t].from)

AtLink(d, c) == \E t \in Thread : op[t].step = "link" /\ op[t].into = d /\ op[t].from = c

\* A dependency recorded on one side is recorded on the other, or about to be.
Registered == \A d \in Store : \A c \in dependsOn[d] : d \in dependents[c] \/ AtLink(d, c)

\* Types are built only on recorded dependencies.
Recorded ==
    /\ \A d \in Store \ deleted : types[d] \subseteq dependsOn[d]
    /\ \A t \in Thread : op[t].step \in {"link", "create"} => op[t].from \in dependsOn[op[t].into]

\* Running destructors are those of destroyed stores.
Dying == \A t \in Thread : \A i \in DOMAIN dying[t] : dying[t][i] \in deleted

IInv ==
    /\ TypeOK /\ Counts /\ Dead /\ Needed /\ Outlived /\ Pinned
    /\ Registered /\ Recorded /\ Dying

-----------------------------------------------------------------------------
(* Facts about one state. *)

\* The sets behind the count are finite, and their cardinalities are numbers.
LEMMA Finite ==
    ASSUME TypeOK, NEW s \in Store
    PROVE  /\ IsFiniteSet(ValuesOf(s)) /\ Cardinality(ValuesOf(s)) \in Nat
           /\ IsFiniteSet(StoresOn(s)) /\ Cardinality(StoresOn(s)) \in Nat
           /\ IsFiniteSet(Releasing(s)) /\ Cardinality(Releasing(s)) \in Nat
<1>1. IsFiniteSet(ValuesOf(s))
    BY StoreAssumption, FS_Subset DEF ValuesOf
<1>2. IsFiniteSet(StoresOn(s))
    BY StoreAssumption, FS_Subset DEF StoresOn, TypeOK
<1>3. IsFiniteSet(Releasing(s))
    BY StoreAssumption, FS_Subset DEF Releasing
<1>4. QED
    BY <1>1, <1>2, <1>3, FS_CardinalityType

\* A set with an element does not have cardinality 0; with two, it has not cardinality 1.
LEMMA Inhabited ==
    ASSUME NEW S, IsFiniteSet(S), NEW x \in S
    PROVE  /\ Cardinality(S) > 0
           /\ \A y \in S : y # x => Cardinality(S) > 1
<1>1. /\ Cardinality(S) \in Nat
      /\ IsFiniteSet(S \ {x}) /\ Cardinality(S \ {x}) = Cardinality(S) - 1
    BY FS_CardinalityType, FS_RemoveElement
<1>2. Cardinality(S \ {x}) \in Nat
    BY <1>1, FS_CardinalityType
<1>3. ASSUME NEW y \in S, y # x PROVE Cardinality(S) > 1
    <2>1. Cardinality((S \ {x}) \ {y}) = Cardinality(S \ {x}) - 1
        BY <1>1, <1>3, FS_RemoveElement
    <2>2. Cardinality((S \ {x}) \ {y}) \in Nat
        BY <1>1, <1>3, FS_RemoveElement, FS_CardinalityType
    <2>3. QED
        BY <1>1, <1>2, <2>1, <2>2
<1>4. QED
    BY <1>1, <1>2, <1>3

\* What a thread in MakeType works on is in use.
LEMMA InCall ==
    ASSUME IInv, NEW t \in Thread, op[t] # NoOp
    PROVE  /\ op[t].into \in factories /\ op[t].into \in Store
           /\ op[t].from \in Store /\ ~Unneeded(op[t].from)
<1>1. /\ op[t].into \in factories /\ op[t].from \in Store
      /\ IF op[t].pin = None THEN op[t].from \in factories ELSE Holds(op[t].pin, op[t].from)
    BY DEF IInv, Pinned
<1>2. op[t].pin \in Value \cup {None} /\ factories \subseteq Store
    BY DEF IInv, TypeOK, Op
<1>3. QED
    BY <1>1, <1>2 DEF Holds, Unneeded

\* The component of a type is in use, as long as the type exists.
LEMMA Component ==
    ASSUME IInv, NEW d \in Store \ deleted, NEW c \in types[d]
    PROVE  c \in Store /\ ~Unneeded(c) /\ c \notin deleted
<1>1. c \in dependsOn[d] /\ c \in Store
    BY DEF IInv, Recorded, TypeOK
<1>2. CASE d \in dependents[c]
    BY <1>1, <1>2 DEF IInv, Dead, Unneeded
<1>3. CASE AtLink(d, c)
    <2>1. PICK t \in Thread : op[t].step = "link" /\ op[t].into = d /\ op[t].from = c
        BY <1>3 DEF AtLink
    <2>2. op[t] # NoOp
        BY <2>1 DEF NoOp
    <2>3. QED
        BY <1>1, <2>1, <2>2, InCall DEF IInv, Dead
<1>4. QED
    BY <1>1, <1>2, <1>3 DEF IInv, Registered

\* Whoever is about to give up the only reference finds the store unneeded.
LEMMA LastReference ==
    ASSUME IInv, NEW t \in Thread, release[t] # None, count[release[t]] = 1
    PROVE  Unneeded(release[t]) /\ \A u \in Thread : u # t => release[u] # release[t]
<1> DEFINE s == release[t]
<1>1. s \in Store
    BY DEF IInv, TypeOK
<1>2. 1 = Owned(s) + Cardinality(ValuesOf(s)) + Cardinality(StoresOn(s)) + Cardinality(Releasing(s))
    BY <1>1 DEF IInv, Counts
<1>3. /\ IsFiniteSet(ValuesOf(s)) /\ Cardinality(ValuesOf(s)) \in Nat
      /\ IsFiniteSet(StoresOn(s)) /\ Cardinality(StoresOn(s)) \in Nat
      /\ IsFiniteSet(Releasing(s)) /\ Cardinality(Releasing(s)) \in Nat
    BY <1>1, Finite DEF IInv
<1>4. t \in Releasing(s)
    BY DEF Releasing
<1>5. Cardinality(Releasing(s)) > 0
    BY <1>3, <1>4, Inhabited
<1>6. Owned(s) \in Nat
    BY DEF Owned
<1>7. /\ Owned(s) = 0 /\ Cardinality(ValuesOf(s)) = 0 /\ Cardinality(StoresOn(s)) = 0
      /\ Cardinality(Releasing(s)) = 1
    BY <1>2, <1>3, <1>5, <1>6
<1>8. s \notin factories
    BY <1>7 DEF Owned
<1>9. ValuesOf(s) = {} /\ StoresOn(s) = {}
    BY <1>3, <1>7, Inhabited
<1>10. \A u \in Thread : u # t => release[u] # s
    BY <1>3, <1>4, <1>7, Inhabited DEF Releasing
<1>11. Unneeded(s)
    <2>1. CASE s \in KeepAlive
        BY <2>1, <1>8, <1>9 DEF Unneeded, ValuesOf, StoresOn, Counted
    <2>2. CASE s \notin KeepAlive
        BY <2>2, <1>1, <1>8 DEF IInv, Outlived
    <2>3. QED
        BY <2>1, <2>2
<1>12. QED
    BY <1>10, <1>11

-----------------------------------------------------------------------------
(* The steps of MakeType. *)

\* A step that changes neither the references nor what has been counted keeps the count.
LEMMA SameReferences ==
    ASSUME IInv, UNCHANGED <<factories, count, dependents, values, release, deleted>>
    PROVE  Counts' /\ Dead' /\ Needed' /\ Outlived'
BY DEF IInv, Counts, Dead, Needed, Outlived, Unneeded, Owned, ValuesOf, StoresOn, Releasing, Counted

\* MakeType, when it is called, keeps the invariant.
LEMMA MakeTypeKeeps ==
    ASSUME IInv, NEW t \in Thread, NEW s \in Store, NEW c \in Store,
           NEW v \in Value \cup {None}, MakeType(t, s, c, v)
    PROVE  IInv'
<1>1. op' = [op EXCEPT ![t] = [step |-> "insert", into |-> s, from |-> c, pin |-> v]]
    BY DEF MakeType
<1>2. TypeOK'
    BY DEF IInv, TypeOK, MakeType, Op
<1>3. Counts' /\ Dead' /\ Needed' /\ Outlived'
    BY SameReferences DEF MakeType
<1>4. Pinned'
    <2>1. \A u \in Thread : u # t => op'[u] = op[u]
        BY <1>1 DEF IInv, TypeOK
    <2>2. op'[t] = [step |-> "insert", into |-> s, from |-> c, pin |-> v]
        BY <1>1 DEF IInv, TypeOK
    <2>3. QED
        BY <2>1, <2>2 DEF IInv, Pinned, MakeType, Holds
<1>5. Registered'
    <2>1. \A u \in Thread : op[u].step = "link" => op'[u] = op[u]
        BY <1>1 DEF IInv, TypeOK, MakeType, Free, NoOp
    <2>2. \A d, b : AtLink(d, b) => AtLink(d, b)'
        BY <2>1 DEF AtLink
    <2>3. QED
        BY <2>2 DEF IInv, Registered, MakeType
<1>6. Recorded' /\ Dying'
    BY <1>1 DEF IInv, Recorded, Dying, MakeType, TypeOK
<1>7. QED
    BY <1>2, <1>3, <1>4, <1>5, <1>6 DEF IInv

\* AddDependency keeps the invariant under the mutex of the factory's own store.
LEMMA InsertKeeps ==
    ASSUME IInv, NEW t \in Thread, Insert(t)
    PROVE  IInv'
<1> DEFINE s == op[t].into
           c == op[t].from
<1>1. op[t].step = "insert" /\ op[t] # NoOp /\ op[t] \in Op
    BY DEF IInv, TypeOK, Insert, NoOp
<1>2. s \in Store /\ c \in Store
    BY <1>1, InCall
<1>3. /\ dependsOn' = [dependsOn EXCEPT ![s] = @ \cup {c}]
      /\ op' = [op EXCEPT ![t].step = IF c \in dependsOn[s] THEN "create" ELSE "link"]
      /\ UNCHANGED <<factories, count, dependents, types, values, deleted, release, dying>>
    BY DEF Insert
<1>4. /\ \A u \in Thread : u # t => op'[u] = op[u]
      /\ op'[t].step = IF c \in dependsOn[s] THEN "create" ELSE "link"
      /\ op'[t].into = s /\ op'[t].from = c /\ op'[t].pin = op[t].pin
      /\ op'[t] \in Op
    BY <1>1, <1>3 DEF IInv, TypeOK, Op
<1>5. TypeOK'
    <2>1. op' \in [Thread -> Op]
        BY <1>3, <1>4 DEF IInv, TypeOK
    <2>2. dependsOn' \in [Store -> SUBSET Store]
        BY <1>2, <1>3 DEF IInv, TypeOK
    <2>3. QED
        BY <1>3, <2>1, <2>2 DEF IInv, TypeOK
<1>6. Counts' /\ Dead' /\ Needed' /\ Outlived'
    BY <1>3, SameReferences
<1>7. Pinned'
    BY <1>1, <1>3, <1>4 DEF IInv, Pinned, Holds
<1>8. Registered'
    <2>1. \A d, b : AtLink(d, b) => AtLink(d, b)'
        BY <1>1, <1>4 DEF AtLink
    <2>2. c \notin dependsOn[s] => AtLink(s, c)'
        BY <1>4 DEF AtLink
    <2>3. \A d \in Store : \A b \in dependsOn'[d] : b \in dependsOn[d] \/ (d = s /\ b = c)
        BY <1>2, <1>3 DEF IInv, TypeOK
    <2>4. QED
        BY <1>3, <2>1, <2>2, <2>3 DEF IInv, Registered
<1>9. Recorded' /\ Dying'
    <2>1. \A d \in Store : dependsOn[d] \subseteq dependsOn'[d]
        BY <1>2, <1>3 DEF IInv, TypeOK
    <2>2. c \in dependsOn'[s]
        BY <1>2, <1>3 DEF IInv, TypeOK
    <2>3. \A u \in Thread : op[u].step \in {"link", "create"} => op[u].into \in Store
        BY InCall DEF NoOp
    <2>4. QED
        BY <1>3, <1>4, <2>1, <2>2, <2>3 DEF IInv, Recorded, Dying
<1>10. QED
    BY <1>5, <1>6, <1>7, <1>8, <1>9 DEF IInv

\* The type's creation keeps the invariant.
LEMMA CreateKeeps ==
    ASSUME IInv, NEW t \in Thread, Create(t)
    PROVE  IInv'
<1> DEFINE s == op[t].into
           c == op[t].from
<1>1. op[t].step = "create" /\ op[t] # NoOp
    BY DEF Create, NoOp
<1>2. s \in Store /\ c \in Store
    BY <1>1, InCall
<1>3. /\ types' = [types EXCEPT ![s] = @ \cup {c}]
      /\ op' = [op EXCEPT ![t] = NoOp]
      /\ UNCHANGED <<factories, count, dependsOn, dependents, values, deleted, release, dying>>
    BY DEF Create
<1>4. op'[t] = NoOp /\ \A u \in Thread : u # t => op'[u] = op[u]
    BY <1>3 DEF IInv, TypeOK
<1>5. TypeOK'
    <2>1. NoOp \in Op
        BY DEF NoOp, Op
    <2>2. op' \in [Thread -> Op]
        BY <2>1, <1>3 DEF IInv, TypeOK
    <2>3. types' \in [Store -> SUBSET Store]
        BY <1>2, <1>3 DEF IInv, TypeOK
    <2>4. QED
        BY <1>3, <2>2, <2>3 DEF IInv, TypeOK
<1>6. Counts' /\ Dead' /\ Needed' /\ Outlived'
    BY <1>3, SameReferences
<1>7. Pinned'
    BY <1>3, <1>4 DEF IInv, Pinned, Holds
<1>8. Registered'
    <2>1. \A d, b : AtLink(d, b) => AtLink(d, b)'
        BY <1>1, <1>4 DEF AtLink
    <2>2. QED
        BY <1>3, <2>1 DEF IInv, Registered
<1>9. Recorded' /\ Dying'
    <2>1. \A d \in Store : types'[d] \subseteq types[d] \cup (IF d = s THEN {c} ELSE {})
        BY <1>2, <1>3 DEF IInv, TypeOK
    <2>2. c \in dependsOn[s]
        BY <1>1 DEF IInv, Recorded
    <2>3. QED
        BY <1>3, <1>4, <2>1, <2>2 DEF IInv, Recorded, Dying, NoOp
<1>10. QED
    BY <1>5, <1>6, <1>7, <1>8, <1>9 DEF IInv

\* AddDependency keeps the invariant under the mutex of the other store.
LEMMA LinkKeeps ==
    ASSUME IInv, NEW t \in Thread, Link(t)
    PROVE  IInv'
<1> DEFINE s == op[t].into
           c == op[t].from
<1>1. op[t].step = "link" /\ op[t] # NoOp /\ op[t] \in Op
    BY DEF IInv, TypeOK, Link, NoOp
<1>2. s \in Store /\ c \in Store /\ ~Unneeded(c)
    BY <1>1, InCall
<1>3. /\ dependents' = [dependents EXCEPT ![c] = @ \cup {s}]
      /\ count' = IF s \notin dependents[c] /\ c \in KeepAlive
                  THEN [count EXCEPT ![c] = @ + 1] ELSE count
      /\ op' = [op EXCEPT ![t].step = "create"]
      /\ UNCHANGED <<factories, dependsOn, types, values, deleted, release, dying>>
    BY DEF Link
<1>4. /\ \A u \in Thread : u # t => op'[u] = op[u]
      /\ op'[t].step = "create" /\ op'[t].into = s /\ op'[t].from = c /\ op'[t].pin = op[t].pin
      /\ op'[t] \in Op
    BY <1>1, <1>3 DEF IInv, TypeOK, Op
<1>5. /\ \A d \in Store : d # c => dependents'[d] = dependents[d]
      /\ dependents'[c] = dependents[c] \cup {s}
    BY <1>2, <1>3 DEF IInv, TypeOK
<1>6. TypeOK'
    <2>1. op' \in [Thread -> Op]
        BY <1>3, <1>4 DEF IInv, TypeOK
    <2>2. dependents' \in [Store -> SUBSET Store] /\ count' \in [Store -> Nat]
        BY <1>2, <1>3 DEF IInv, TypeOK
    <2>3. QED
        BY <1>3, <2>1, <2>2 DEF IInv, TypeOK
<1>7. Counts'
    <2> SUFFICES ASSUME NEW d \in Store
                 PROVE  count'[d] = Owned(d)' + Cardinality(ValuesOf(d)') + Cardinality(StoresOn(d)')
                                              + Cardinality(Releasing(d)')
        BY DEF Counts
    <2>1. Owned(d)' = Owned(d) /\ ValuesOf(d)' = ValuesOf(d) /\ Releasing(d)' = Releasing(d)
        BY <1>3 DEF Owned, ValuesOf, Releasing, Counted
    <2>2. count[d] = Owned(d) + Cardinality(ValuesOf(d)) + Cardinality(StoresOn(d))
                              + Cardinality(Releasing(d))
        BY DEF IInv, Counts
    <2>3. CASE d = c /\ s \notin dependents[c] /\ c \in KeepAlive
        <3>1. StoresOn(d)' = StoresOn(d) \cup {s} /\ s \notin StoresOn(d)
            BY <2>3, <1>5 DEF StoresOn
        <3>2. Cardinality(StoresOn(d)') = Cardinality(StoresOn(d)) + 1
            BY <3>1, Finite, FS_AddElement DEF IInv
        <3>3. count'[d] = count[d] + 1
            BY <2>3, <1>3 DEF IInv, TypeOK
        <3>4. Owned(d) \in Nat
            BY DEF Owned
        <3>5. QED
            BY <2>1, <2>2, <3>2, <3>3, <3>4, Finite DEF IInv
    <2>4. CASE ~(d = c /\ s \notin dependents[c] /\ c \in KeepAlive)
        <3>1. StoresOn(d)' = StoresOn(d)
            BY <2>4, <1>5 DEF StoresOn
        <3>2. count'[d] = count[d]
            BY <2>4, <1>3 DEF IInv, TypeOK
        <3>3. QED
            BY <2>1, <2>2, <3>1, <3>2
    <2>5. QED
        BY <2>3, <2>4
<1>8. Dead' /\ Needed' /\ Outlived'
    <2>1. \A d \in Store : d # c /\ Unneeded(d) => Unneeded(d)'
        BY <1>3, <1>5 DEF Unneeded
    <2>2. c \notin deleted /\ (c \notin KeepAlive => c \in factories)
        BY <1>2 DEF IInv, Dead, Outlived
    <2>3. Dead' /\ Outlived'
        BY <2>1, <2>2, <1>3 DEF IInv, Dead, Outlived, TypeOK
    <2>4. Needed'
        BY <1>2, <1>3 DEF IInv, Needed, TypeOK
    <2>5. QED
        BY <2>3, <2>4
<1>9. Pinned'
    <2>1. \A w \in Value, d \in Store : Holds(w, d) => Holds(w, d)'
        BY <1>3, <1>5 DEF Holds
    <2>2. \A u \in Thread : op[u].pin \in Value \cup {None}
        BY DEF IInv, TypeOK, Op
    <2>3. QED
        BY <1>1, <1>3, <1>4, <2>1, <2>2 DEF IInv, Pinned
<1>10. Registered'
    <2>1. \A d, b : AtLink(d, b) => AtLink(d, b)' \/ (d = s /\ b = c)
        BY <1>4 DEF AtLink
    <2>2. \A d, b \in Store : d \in dependents[b] => d \in dependents'[b]
        BY <1>5
    <2>3. s \in dependents'[c]
        BY <1>5
    <2>4. QED
        BY <1>3, <2>1, <2>2, <2>3 DEF IInv, Registered, TypeOK
<1>11. Recorded' /\ Dying'
    BY <1>1, <1>3, <1>4 DEF IInv, Recorded, Dying
<1>12. QED
    BY <1>6, <1>7, <1>8, <1>9, <1>10, <1>11 DEF IInv

-----------------------------------------------------------------------------
(* Values and factories. *)

\* RefFromValue keeps the invariant.
LEMMA NewValueKeeps ==
    ASSUME IInv, NEW t \in Thread, NEW v \in Value, NEW s \in Store, NewValue(t, v, s)
    PROVE  IInv'
<1>1. /\ values[v] = None
      /\ values' = [values EXCEPT ![v] = s]
      /\ count' = IF Counted(s) THEN [count EXCEPT ![s] = @ + 1] ELSE count
      /\ UNCHANGED <<factories, dependsOn, dependents, types, deleted, op, release, dying>>
    BY DEF NewValue
<1>2. values'[v] = s /\ \A w \in Value : w # v => values'[w] = values[w]
    BY <1>1 DEF IInv, TypeOK
<1>3. s \notin deleted /\ ~Unneeded(s)
    <2>1. CASE s \in factories
        BY <2>1 DEF IInv, Dead, Unneeded
    <2>2. CASE \E w \in Value : values[w] # None /\ s \in {values[w]} \cup types[values[w]]
        <3>1. PICK w \in Value : values[w] # None /\ s \in {values[w]} \cup types[values[w]]
            BY <2>2
        <3>2. values[w] \in Store \ deleted /\ ~Unneeded(values[w])
            BY <3>1 DEF IInv, TypeOK, Dead, Unneeded
        <3>3. QED
            BY <3>1, <3>2, Component
    <2>3. QED
        BY <2>1, <2>2 DEF NewValue
<1>4. TypeOK'
    BY <1>1 DEF IInv, TypeOK
<1>5. Counts'
    <2> SUFFICES ASSUME NEW d \in Store
                 PROVE  count'[d] = Owned(d)' + Cardinality(ValuesOf(d)') + Cardinality(StoresOn(d)')
                                              + Cardinality(Releasing(d)')
        BY DEF Counts
    <2>1. Owned(d)' = Owned(d) /\ StoresOn(d)' = StoresOn(d) /\ Releasing(d)' = Releasing(d)
        BY <1>1 DEF Owned, StoresOn, Releasing
    <2>2. count[d] = Owned(d) + Cardinality(ValuesOf(d)) + Cardinality(StoresOn(d))
                              + Cardinality(Releasing(d))
        BY DEF IInv, Counts
    <2>3. CASE d = s /\ Counted(s)
        <3>1. ValuesOf(d)' = ValuesOf(d) \cup {v} /\ v \notin ValuesOf(d)
            BY <2>3, <1>1, <1>2, StoreAssumption DEF ValuesOf, Counted
        <3>2. Cardinality(ValuesOf(d)') = Cardinality(ValuesOf(d)) + 1
            BY <3>1, Finite, FS_AddElement DEF IInv
        <3>3. count'[d] = count[d] + 1
            BY <2>3, <1>1 DEF IInv, TypeOK
        <3>4. Owned(d) \in Nat
            BY DEF Owned
        <3>5. QED
            BY <2>1, <2>2, <3>2, <3>3, <3>4, Finite DEF IInv
    <2>4. CASE ~(d = s /\ Counted(s))
        <3>1. ValuesOf(d)' = ValuesOf(d)
            BY <2>4, <1>1, <1>2, StoreAssumption DEF ValuesOf, Counted
        <3>2. count'[d] = count[d]
            BY <2>4, <1>1 DEF IInv, TypeOK
        <3>3. QED
            BY <2>1, <2>2, <3>1, <3>2
    <2>5. QED
        BY <2>3, <2>4
<1>6. Dead' /\ Needed' /\ Outlived'
    <2>1. \A d \in Store : d # s /\ Unneeded(d) => Unneeded(d)'
        BY <1>1, <1>2 DEF Unneeded
    <2>2. s \notin KeepAlive => s \in factories
        BY <1>3 DEF IInv, Outlived
    <2>3. Dead' /\ Outlived'
        BY <2>1, <2>2, <1>1, <1>3 DEF IInv, Dead, Outlived, TypeOK
    <2>4. Needed'
        BY <1>1 DEF IInv, Needed, TypeOK
    <2>5. QED
        BY <2>3, <2>4
<1>7. Pinned'
    <2>1. \A w \in Value, d \in Store : Holds(w, d) => Holds(w, d)'
        BY <1>1, <1>2, StoreAssumption DEF Holds
    <2>2. \A u \in Thread : op[u].pin \in Value \cup {None}
        BY DEF IInv, TypeOK, Op
    <2>3. QED
        BY <1>1, <2>1, <2>2 DEF IInv, Pinned
<1>8. Registered' /\ Recorded' /\ Dying'
    BY <1>1 DEF IInv, Registered, AtLink, Recorded, Dying
<1>9. QED
    BY <1>4, <1>5, <1>6, <1>7, <1>8 DEF IInv

\* A thread that takes over a reference to s is one more that is about to give it up.
LEMMA TakeOver ==
    ASSUME TypeOK, NEW t \in Thread, NEW s \in Store, release[t] = None,
           release' = [release EXCEPT ![t] = s]
    PROVE  /\ Cardinality(Releasing(s)') = Cardinality(Releasing(s)) + 1
           /\ \A d \in Store : d # s => Releasing(d)' = Releasing(d)
<1>1. release'[t] = s /\ \A u \in Thread : u # t => release'[u] = release[u]
    BY DEF TypeOK
<1>2. Releasing(s)' = Releasing(s) \cup {t} /\ t \notin Releasing(s)
    BY <1>1, StoreAssumption DEF Releasing
<1>3. \A d \in Store : d # s => Releasing(d)' = Releasing(d)
    BY <1>1, StoreAssumption DEF Releasing
<1>4. QED
    BY <1>2, <1>3, Finite, FS_AddElement

\* Value::Clear keeps the invariant.
LEMMA ClearKeeps ==
    ASSUME IInv, NEW t \in Thread, NEW v \in Value, Clear(t, v)
    PROVE  IInv'
<1>0. PICK s \in Store : s = values[v]
    BY DEF IInv, TypeOK, Clear
<1>1. /\ s # None /\ release[t] = None
      /\ \A u \in Thread : op[u].pin # v
      /\ values' = [values EXCEPT ![v] = None]
      /\ release' = [release EXCEPT ![t] = IF Counted(s) THEN s ELSE None]
      /\ UNCHANGED <<factories, count, dependsOn, dependents, types, deleted, op, dying>>
    BY <1>0, StoreAssumption DEF Clear, Free
<1>2. s \in Store /\ s \notin deleted
    BY <1>0 DEF IInv, TypeOK, Dead, Unneeded
<1>3. values'[v] = None /\ \A w \in Value : w # v => values'[w] = values[w]
    BY <1>1 DEF IInv, TypeOK
<1>4. TypeOK'
    BY <1>1, <1>2 DEF IInv, TypeOK
<1>5. Counts'
    <2> SUFFICES ASSUME NEW d \in Store
                 PROVE  count'[d] = Owned(d)' + Cardinality(ValuesOf(d)') + Cardinality(StoresOn(d)')
                                              + Cardinality(Releasing(d)')
        BY DEF Counts
    <2>1. Owned(d)' = Owned(d) /\ StoresOn(d)' = StoresOn(d) /\ count'[d] = count[d]
        BY <1>1 DEF Owned, StoresOn
    <2>2. count[d] = Owned(d) + Cardinality(ValuesOf(d)) + Cardinality(StoresOn(d))
                              + Cardinality(Releasing(d))
        BY DEF IInv, Counts
    <2>3. CASE Counted(s)
        <3>1. /\ Cardinality(Releasing(s)') = Cardinality(Releasing(s)) + 1
              /\ d # s => Releasing(d)' = Releasing(d)
            BY <2>3, <1>1, <1>2, TakeOver DEF IInv
        <3>2. CASE d = s
            <4>1. ValuesOf(d)' = ValuesOf(d) \ {v} /\ v \in ValuesOf(d)
                BY <2>3, <3>2, <1>0, <1>3, StoreAssumption DEF ValuesOf, Counted
            <4>2. Cardinality(ValuesOf(d)') = Cardinality(ValuesOf(d)) - 1
                BY <4>1, Finite, FS_RemoveElement DEF IInv
            <4>3. Owned(d) \in Nat
                BY DEF Owned
            <4>4. QED
                BY <2>1, <2>2, <3>1, <3>2, <4>2, <4>3, Finite DEF IInv
        <3>3. CASE d # s
            <4>1. ValuesOf(d)' = ValuesOf(d)
                BY <3>3, <1>0, <1>3, StoreAssumption DEF ValuesOf, Counted
            <4>2. QED
                BY <2>1, <2>2, <3>1, <3>3, <4>1
        <3>4. QED
            BY <3>2, <3>3
    <2>4. CASE ~Counted(s)
        <3>1. ValuesOf(d)' = ValuesOf(d)
            BY <2>4, <1>0, <1>3, StoreAssumption DEF ValuesOf, Counted
        <3>2. release' = release
            BY <2>4, <1>1 DEF IInv, TypeOK
        <3>3. QED
            BY <2>1, <2>2, <3>1, <3>2 DEF Releasing
    <2>5. QED
        BY <2>3, <2>4
<1>6. Dead' /\ Needed' /\ Outlived'
    <2>1. \A d \in Store : Unneeded(d) => Unneeded(d)'
        BY <1>1, <1>3, StoreAssumption DEF Unneeded
    <2>2. \A u \in Thread : release'[u] \in {release[u], s, None}
        BY <1>1 DEF IInv, TypeOK
    <2>3. Dead'
        BY <2>1, <2>2, <1>1, <1>2, StoreAssumption DEF IInv, Dead, TypeOK
    <2>4. Needed' /\ Outlived'
        BY <2>1, <1>1 DEF IInv, Needed, Outlived
    <2>5. QED
        BY <2>3, <2>4
<1>7. Pinned'
    <2>1. \A w \in Value, d \in Store : w # v /\ Holds(w, d) => Holds(w, d)'
        BY <1>1, <1>3 DEF Holds
    <2>2. \A u \in Thread : op[u].pin \in Value \cup {None}
        BY DEF IInv, TypeOK, Op
    <2>3. QED
        BY <1>1, <2>1, <2>2 DEF IInv, Pinned
<1>8. Registered' /\ Recorded' /\ Dying'
    BY <1>1 DEF IInv, Registered, AtLink, Recorded, Dying
<1>9. QED
    BY <1>4, <1>5, <1>6, <1>7, <1>8 DEF IInv

\* ~TypeFactory keeps the invariant.
LEMMA DestroyFactoryKeeps ==
    ASSUME IInv, NEW t \in Thread, NEW s \in Store, DestroyFactory(t, s)
    PROVE  IInv'
<1>1. /\ s \in factories /\ ~InUse(s) /\ release[t] = None
      /\ s \notin KeepAlive => (\A v \in Value : values[v] # s) /\ dependents[s] = {}
      /\ factories' = factories \ {s}
      /\ release' = [release EXCEPT ![t] = s]
      /\ UNCHANGED <<count, dependsOn, dependents, types, values, deleted, op, dying>>
    BY DEF DestroyFactory, Free
<1>2. TypeOK'
    BY <1>1 DEF IInv, TypeOK
<1>3. Counts'
    <2> SUFFICES ASSUME NEW d \in Store
                 PROVE  count'[d] = Owned(d)' + Cardinality(ValuesOf(d)') + Cardinality(StoresOn(d)')
                                              + Cardinality(Releasing(d)')
        BY DEF Counts
    <2>1. ValuesOf(d)' = ValuesOf(d) /\ StoresOn(d)' = StoresOn(d) /\ count'[d] = count[d]
        BY <1>1 DEF ValuesOf, StoresOn, Counted
    <2>2. count[d] = Owned(d) + Cardinality(ValuesOf(d)) + Cardinality(StoresOn(d))
                              + Cardinality(Releasing(d))
        BY DEF IInv, Counts
    <2>3. /\ Cardinality(Releasing(s)') = Cardinality(Releasing(s)) + 1
          /\ d # s => Releasing(d)' = Releasing(d)
        BY <1>1, TakeOver DEF IInv
    <2>4. CASE d = s
        <3>1. Owned(d) = 1 /\ Owned(d)' = 0
            BY <2>4, <1>1 DEF Owned
        <3>2. QED
            BY <2>1, <2>2, <2>3, <2>4, <3>1, Finite DEF IInv
    <2>5. CASE d # s
        <3>1. Owned(d)' = Owned(d)
            BY <2>5, <1>1 DEF Owned
        <3>2. QED
            BY <2>1, <2>2, <2>3, <2>5, <3>1
    <2>6. QED
        BY <2>4, <2>5
<1>4. Dead' /\ Needed' /\ Outlived'
    <2>1. \A d \in Store : Unneeded(d) => Unneeded(d)'
        BY <1>1 DEF Unneeded
    <2>2. s \notin deleted
        BY <1>1 DEF IInv, Dead, Unneeded
    <2>3. \A u \in Thread : release'[u] \in {release[u], s}
        BY <1>1 DEF IInv, TypeOK
    <2>4. Dead'
        BY <2>1, <2>2, <2>3, <1>1 DEF IInv, Dead, TypeOK
    <2>5. s \notin KeepAlive => Unneeded(s)'
        BY <1>1 DEF Unneeded
    <2>6. Needed' /\ Outlived'
        BY <2>1, <2>5, <1>1 DEF IInv, Needed, Outlived
    <2>7. QED
        BY <2>4, <2>6
<1>5. Pinned'
    <2>1. \A u \in Thread : op[u] # NoOp => op[u].into # s /\ (op[u].pin = None => op[u].from # s)
        BY <1>1 DEF InUse
    <2>2. QED
        BY <1>1, <2>1 DEF IInv, Pinned, Holds
<1>6. Registered' /\ Recorded' /\ Dying'
    BY <1>1 DEF IInv, Registered, AtLink, Recorded, Dying
<1>7. QED
    BY <1>2, <1>3, <1>4, <1>5, <1>6 DEF IInv

-----------------------------------------------------------------------------
(* Giving up references. *)

\* Unref keeps the invariant, also when it starts the destructor.
LEMMA UnrefKeeps ==
    ASSUME IInv, NEW t \in Thread, Unref(t)
    PROVE  IInv'
<1>1. PICK s \in Store : s = release[t]
    BY DEF IInv, TypeOK, Unref
<1>2. /\ count' = [count EXCEPT ![s] = @ - 1]
      /\ release' = [release EXCEPT ![t] = None]
      /\ UNCHANGED <<factories, dependents, types, values, op>>
    BY <1>1 DEF Unref
<1>3. release'[t] = None /\ \A u \in Thread : u # t => release'[u] = release[u]
    BY <1>2 DEF IInv, TypeOK
<1>4. s \notin deleted
    BY <1>1 DEF IInv, Dead
<1>5. count[s] = 1 => Unneeded(s) /\ \A u \in Thread : u # t => release[u] # s
    BY <1>1, LastReference, StoreAssumption
<1>6. dependsOn' = dependsOn
    <2>1. CASE count[s] = 1
        <3>1. \A d \in Store : d \notin dependents[s]
            BY <2>1, <1>5 DEF Unneeded
        <3>2. dependsOn' = [d \in Store |-> IF d \in dependents[s]
                                            THEN dependsOn[d] \ {s} ELSE dependsOn[d]]
            BY <2>1, <1>1 DEF Unref
        <3>3. QED
            BY <3>1, <3>2 DEF IInv, TypeOK
    <2>2. CASE count[s] # 1
        BY <2>2, <1>1 DEF Unref
    <2>3. QED
        BY <2>1, <2>2
<1>7. /\ deleted' = IF count[s] = 1 THEN deleted \cup {s} ELSE deleted
      /\ dying' = IF count[s] = 1 THEN [dying EXCEPT ![t] = Append(@, s)] ELSE dying
    BY <1>1 DEF Unref
<1>8. /\ Cardinality(Releasing(s)') = Cardinality(Releasing(s)) - 1
      /\ \A d \in Store : d # s => Releasing(d)' = Releasing(d)
    <2>1. Releasing(s)' = Releasing(s) \ {t} /\ t \in Releasing(s)
        BY <1>1, <1>3, StoreAssumption DEF Releasing
    <2>2. \A d \in Store : d # s => Releasing(d)' = Releasing(d)
        BY <1>1, <1>3, StoreAssumption DEF Releasing
    <2>3. QED
        BY <2>1, <2>2, Finite, FS_RemoveElement DEF IInv
<1>9. count[s] \in Nat \ {0}
    BY <1>4 DEF IInv, Needed, TypeOK
<1>10. TypeOK'
    <2>1. count' \in [Store -> Nat]
        BY <1>2, <1>9 DEF IInv, TypeOK
    <2>2. release' \in [Thread -> Store \cup {None}] /\ deleted' \subseteq Store
        BY <1>2, <1>7 DEF IInv, TypeOK
    <2>3. dying' \in [Thread -> Seq(Store)]
        BY <1>7 DEF IInv, TypeOK
    <2>4. QED
        BY <1>2, <1>6, <2>1, <2>2, <2>3 DEF IInv, TypeOK
<1>11. Counts'
    <2> SUFFICES ASSUME NEW d \in Store
                 PROVE  count'[d] = Owned(d)' + Cardinality(ValuesOf(d)') + Cardinality(StoresOn(d)')
                                              + Cardinality(Releasing(d)')
        BY DEF Counts
    <2>1. Owned(d)' = Owned(d) /\ ValuesOf(d)' = ValuesOf(d) /\ StoresOn(d)' = StoresOn(d)
        BY <1>2 DEF Owned, ValuesOf, StoresOn, Counted
    <2>2. count[d] = Owned(d) + Cardinality(ValuesOf(d)) + Cardinality(StoresOn(d))
                              + Cardinality(Releasing(d))
        BY DEF IInv, Counts
    <2>3. Owned(d) \in Nat
        BY DEF Owned
    <2>4. CASE d = s
        <3>1. count'[d] = count[d] - 1
            BY <2>4, <1>2 DEF IInv, TypeOK
        <3>2. QED
            BY <2>1, <2>2, <2>3, <2>4, <3>1, <1>8, Finite DEF IInv
    <2>5. CASE d # s
        <3>1. count'[d] = count[d]
            BY <2>5, <1>2 DEF IInv, TypeOK
        <3>2. QED
            BY <2>1, <2>2, <2>5, <3>1, <1>8
    <2>6. QED
        BY <2>4, <2>5
<1>12. Dead' /\ Needed' /\ Outlived'
    <2>1. \A d \in Store : Unneeded(d) <=> Unneeded(d)'
        BY <1>2 DEF Unneeded
    <2>2. Dead'
        <3> SUFFICES ASSUME NEW d \in deleted'
                     PROVE  Unneeded(d)' /\ \A u \in Thread : release'[u] # d
            BY DEF Dead
        <3>1. d \in Store /\ (d \in deleted \/ (d = s /\ count[s] = 1))
            BY <1>7 DEF IInv, TypeOK
        <3>2. Unneeded(d) /\ \A u \in Thread : u # t => release[u] # d
            BY <3>1, <1>5 DEF IInv, Dead
        <3>3. QED
            BY <3>1, <3>2, <2>1, <1>3, StoreAssumption
    <2>3. Needed'
        BY <1>2, <1>7, <1>9 DEF IInv, Needed, TypeOK
    <2>4. Outlived'
        BY <2>1, <1>2 DEF IInv, Outlived
    <2>5. QED
        BY <2>2, <2>3, <2>4
<1>13. Pinned' /\ Registered' /\ Recorded'
    BY <1>2, <1>6, <1>7 DEF IInv, Pinned, Holds, Registered, AtLink, Recorded
<1>14. Dying'
    <2> SUFFICES ASSUME NEW u \in Thread, NEW i \in DOMAIN dying'[u]
                 PROVE  dying'[u][i] \in deleted'
        BY DEF Dying
    <2>1. CASE u = t /\ count[s] = 1
        <3>1. dying'[u] = Append(dying[u], s) /\ dying[u] \in Seq(Store)
            BY <2>1, <1>7 DEF IInv, TypeOK
        <3>2. i \in DOMAIN dying[u] \/ dying'[u][i] = s
            BY <3>1
        <3>3. i \in DOMAIN dying[u] => dying'[u][i] = dying[u][i]
            BY <3>1
        <3>4. QED
            BY <2>1, <3>2, <3>3, <1>7 DEF IInv, Dying
    <2>2. CASE ~(u = t /\ count[s] = 1)
        <3>1. dying'[u] = dying[u]
            BY <2>2, <1>7 DEF IInv, TypeOK
        <3>2. QED
            BY <3>1, <1>7 DEF IInv, Dying
    <2>3. QED
        BY <2>1, <2>2
<1>15. QED
    BY <1>10, <1>11, <1>12, <1>13, <1>14 DEF IInv

\* One turn of the destructor's loop keeps the invariant.
LEMMA UnlinkKeeps ==
    ASSUME IInv, NEW t \in Thread, Unlink(t)
    PROVE  IInv'
<1>1. PICK s : s = Innermost(t)
    OBVIOUS
<1>2. s \in deleted /\ s \in Store
    <2>1. dying[t] \in Seq(Store) /\ dying[t] # <<>>
        BY DEF IInv, TypeOK, Unlink
    <2>2. Len(dying[t]) \in DOMAIN dying[t]
        BY <2>1
    <2>3. QED
        BY <1>1, <2>2 DEF IInv, Dying, TypeOK, Innermost
<1>3. PICK c \in dependsOn[s] :
         /\ dependents' = [dependents EXCEPT ![c] = @ \ {s}]
         /\ dependsOn' = [dependsOn EXCEPT ![s] = @ \ {c}]
         /\ release' = [release EXCEPT ![t] =
                          IF s \in dependents[c] /\ c \in KeepAlive THEN c ELSE None]
    BY <1>1 DEF Unlink
<1>4. /\ release[t] = None
      /\ UNCHANGED <<factories, count, types, values, deleted, op, dying>>
    BY DEF Unlink
<1>5. ASSUME NEW u \in Thread PROVE op[u] # NoOp => op[u].into # s
    BY <1>2, InCall DEF IInv, Dead, Unneeded
<1>6. c \in Store /\ s \in dependents[c]
    <2>1. ~AtLink(s, c)
        BY <1>5 DEF AtLink, NoOp
    <2>2. QED
        BY <1>2, <2>1 DEF IInv, Registered, TypeOK
<1>7. c \notin deleted
    BY <1>6 DEF IInv, Dead, Unneeded
<1>8. /\ dependents'[c] = dependents[c] \ {s}
      /\ \A d \in Store : d # c => dependents'[d] = dependents[d]
      /\ dependsOn'[s] = dependsOn[s] \ {c}
      /\ \A d \in Store : d # s => dependsOn'[d] = dependsOn[d]
    BY <1>2, <1>3, <1>6 DEF IInv, TypeOK
<1>9. TypeOK'
    BY <1>2, <1>3, <1>4, <1>6 DEF IInv, TypeOK
<1>10. Counts'
    <2> SUFFICES ASSUME NEW d \in Store
                 PROVE  count'[d] = Owned(d)' + Cardinality(ValuesOf(d)') + Cardinality(StoresOn(d)')
                                              + Cardinality(Releasing(d)')
        BY DEF Counts
    <2>1. Owned(d)' = Owned(d) /\ ValuesOf(d)' = ValuesOf(d) /\ count'[d] = count[d]
        BY <1>4 DEF Owned, ValuesOf, Counted
    <2>2. count[d] = Owned(d) + Cardinality(ValuesOf(d)) + Cardinality(StoresOn(d))
                              + Cardinality(Releasing(d))
        BY DEF IInv, Counts
    <2>3. CASE c \in KeepAlive
        <3>1. /\ Cardinality(Releasing(c)') = Cardinality(Releasing(c)) + 1
              /\ d # c => Releasing(d)' = Releasing(d)
            BY <2>3, <1>3, <1>4, <1>6, TakeOver DEF IInv
        <3>2. CASE d = c
            <4>1. StoresOn(d)' = StoresOn(d) \ {s} /\ s \in StoresOn(d)
                BY <2>3, <3>2, <1>6, <1>8 DEF StoresOn
            <4>2. Cardinality(StoresOn(d)') = Cardinality(StoresOn(d)) - 1
                BY <4>1, Finite, FS_RemoveElement DEF IInv
            <4>3. Owned(d) \in Nat
                BY DEF Owned
            <4>4. QED
                BY <2>1, <2>2, <3>1, <3>2, <4>2, <4>3, Finite DEF IInv
        <3>3. CASE d # c
            <4>1. StoresOn(d)' = StoresOn(d)
                BY <3>3, <1>8 DEF StoresOn
            <4>2. QED
                BY <2>1, <2>2, <3>1, <3>3, <4>1
        <3>4. QED
            BY <3>2, <3>3
    <2>4. CASE c \notin KeepAlive
        <3>1. StoresOn(d)' = StoresOn(d)
            BY <2>4, <1>8 DEF StoresOn
        <3>2. release' = release
            BY <2>4, <1>3, <1>4 DEF IInv, TypeOK
        <3>3. QED
            BY <2>1, <2>2, <3>1, <3>2 DEF Releasing
    <2>5. QED
        BY <2>3, <2>4
<1>11. Dead' /\ Needed' /\ Outlived'
    <2>1. \A d \in Store : Unneeded(d) => Unneeded(d)'
        BY <1>4, <1>8 DEF Unneeded
    <2>2. \A u \in Thread : release'[u] \in {release[u], c, None}
        BY <1>3 DEF IInv, TypeOK
    <2>3. Dead'
        BY <2>1, <2>2, <1>4, <1>7, StoreAssumption DEF IInv, Dead, TypeOK
    <2>4. Needed' /\ Outlived'
        BY <2>1, <1>4 DEF IInv, Needed, Outlived
    <2>5. QED
        BY <2>3, <2>4
<1>12. Pinned'
    <2>1. \A w \in Value : values[w] # s
        BY <1>2 DEF IInv, Dead, Unneeded
    <2>2. \A w \in Value, d \in Store : Holds(w, d) => Holds(w, d)'
        BY <1>4, <1>8, <2>1 DEF Holds
    <2>3. \A u \in Thread : op[u].pin \in Value \cup {None}
        BY DEF IInv, TypeOK, Op
    <2>4. QED
        BY <1>4, <2>2, <2>3 DEF IInv, Pinned
<1>13. Registered'
    <2> SUFFICES ASSUME NEW d \in Store, NEW b \in dependsOn'[d]
                 PROVE  d \in dependents'[b] \/ AtLink(d, b)'
        BY DEF Registered
    <2>1. b \in dependsOn[d] /\ b \in Store /\ ~(d = s /\ b = c)
        BY <1>8 DEF IInv, TypeOK
    <2>2. d \in dependents[b] \/ AtLink(d, b)
        BY <2>1 DEF IInv, Registered
    <2>3. AtLink(d, b) => AtLink(d, b)'
        BY <1>4 DEF AtLink
    <2>4. d \in dependents[b] => d \in dependents'[b]
        BY <1>8, <2>1
    <2>5. QED
        BY <2>2, <2>3, <2>4
<1>14. Recorded' /\ Dying'
    <2>1. \A d \in Store \ deleted : dependsOn'[d] = dependsOn[d]
        BY <1>2, <1>8
    <2>2. \A u \in Thread : op[u].step \in {"link", "create"} =>
              op[u].into \in Store /\ op[u].into # s
        BY <1>5, InCall DEF NoOp
    <2>3. QED
        BY <1>4, <1>8, <2>1, <2>2 DEF IInv, Recorded, Dying
<1>15. QED
    BY <1>9, <1>10, <1>11, <1>12, <1>13, <1>14 DEF IInv

\* The return of a destructor keeps the invariant.
LEMMA DestroyedKeeps ==
    ASSUME IInv, NEW t \in Thread, Destroyed(t)
    PROVE  IInv'
<1>1. /\ dying' = [dying EXCEPT ![t] = SubSeq(@, 1, Len(@) - 1)]
      /\ UNCHANGED <<factories, count, dependsOn, dependents, types, values, deleted, op, release>>
    BY DEF Destroyed
<1>2. dying \in [Thread -> Seq(Store)] /\ dying[t] \in Seq(Store) /\ dying[t] # <<>>
    BY DEF IInv, TypeOK, Destroyed
<1>3. /\ SubSeq(dying[t], 1, Len(dying[t]) - 1) \in Seq(Store)
      /\ \A i \in DOMAIN SubSeq(dying[t], 1, Len(dying[t]) - 1) :
            /\ i \in DOMAIN dying[t]
            /\ SubSeq(dying[t], 1, Len(dying[t]) - 1)[i] = dying[t][i]
    BY <1>2
<1>4. TypeOK'
    BY <1>1, <1>2, <1>3 DEF IInv, TypeOK
<1>5. Counts' /\ Dead' /\ Needed' /\ Outlived'
    BY <1>1, SameReferences
<1>6. Pinned' /\ Registered' /\ Recorded'
    BY <1>1 DEF IInv, Pinned, Holds, Registered, AtLink, Recorded
<1>7. Dying'
    BY <1>1, <1>2, <1>3 DEF IInv, Dying
<1>8. QED
    BY <1>4, <1>5, <1>6, <1>7 DEF IInv

-----------------------------------------------------------------------------
(* The theorems. *)

\* The invariant holds when all factories have been made and nothing else.
LEMMA InitIInv == Init => IInv
<1> SUFFICES ASSUME Init PROVE IInv
    OBVIOUS
<1>1. TypeOK
    BY StoreAssumption DEF Init, TypeOK, Op, NoOp
<1>2. Counts
    <2> SUFFICES ASSUME NEW s \in Store
                 PROVE  count[s] = Owned(s) + Cardinality(ValuesOf(s)) + Cardinality(StoresOn(s))
                                            + Cardinality(Releasing(s))
        BY DEF Counts
    <2>1. ValuesOf(s) = {} /\ StoresOn(s) = {} /\ Releasing(s) = {}
        BY StoreAssumption DEF Init, ValuesOf, StoresOn, Releasing
    <2>2. count[s] = 1 /\ Owned(s) = 1
        BY DEF Init, Owned
    <2>3. Cardinality({}) = 0
        BY FS_EmptySet
    <2>4. QED
        BY <2>1, <2>2, <2>3
<1>3. Dead /\ Needed /\ Outlived
    BY DEF Init, Dead, Needed, Outlived
<1>4. Pinned /\ Registered /\ Recorded /\ Dying
    BY DEF Init, Pinned, Registered, Recorded, Dying, NoOp
<1>5. QED
    BY <1>1, <1>2, <1>3, <1>4 DEF IInv

\* Every step keeps the invariant.
LEMMA NextIInv == IInv /\ [Next]_vars => IInv'
<1> SUFFICES ASSUME IInv, [Next]_vars PROVE IInv'
    OBVIOUS
<1>1. CASE UNCHANGED vars
    <2>1. Counts' /\ Dead' /\ Needed' /\ Outlived'
        BY <1>1, SameReferences DEF vars
    <2>2. TypeOK' /\ Pinned' /\ Registered' /\ Recorded' /\ Dying'
        BY <1>1 DEF IInv, vars, TypeOK, Pinned, Holds, Registered, AtLink, Recorded, Dying
    <2>3. QED
        BY <2>1, <2>2 DEF IInv
<1>2. ASSUME NEW t \in Thread, Step(t) PROVE IInv'
    BY <1>2, InsertKeeps, LinkKeeps, CreateKeeps, UnrefKeeps, UnlinkKeeps, DestroyedKeeps DEF Step
<1>3. ASSUME NEW t \in Thread, Request(t) PROVE IInv'
    BY <1>3, MakeTypeKeeps, NewValueKeeps, ClearKeeps, DestroyFactoryKeeps DEF Request
<1>4. QED
    BY <1>1, <1>2, <1>3 DEF Next, Finished

\* In every reachable state a store's reference count is the number of its holders: its
\* factory, the Values of its types, the stores that depend on it, and the threads that are
\* about to call Unref(); and the other parts of the invariant hold.
THEOREM AlwaysIInv == Safety => []IInv
<1>1. QED
    BY InitIInv, NextIInv, PTL DEF Safety

\* The stores keep their types: in particular ref_count_ (type.h:1123)
\* never becomes negative.
THEOREM TypeCorrect == Safety => []TypeOK
<1>1. IInv => TypeOK
    BY DEF IInv
<1>2. QED
    BY <1>1, AlwaysIInv, PTL

\* A type exists as long as a Value refers to it, with the types it is built from: the
\* promise of keep_alive_while_referenced_from_value, for any number of threads.
THEOREM Lifetime == Safety => []TypesOutliveValues
<1>1. IInv => TypesOutliveValues
    <2> SUFFICES ASSUME IInv PROVE TypesOutliveValues
        OBVIOUS
    <2>1. \A v \in Value : values[v] # None => values[v] \notin deleted
        BY DEF IInv, Dead, Unneeded
    <2>2. \A s \in Store \ deleted : types[s] \cap deleted = {}
        BY Component
    <2>3. QED
        BY <2>1, <2>2 DEF TypesOutliveValues
<1>2. QED
    BY <1>1, AlwaysIInv, PTL

\* No thread works on a store after another one has started to destroy it, neither in
\* AddDependency, nor in Unref, nor in the destructor of a dependent store.
THEOREM NoUse == Safety => []NoUseAfterDelete
<1>1. IInv => NoUseAfterDelete
    <2> SUFFICES ASSUME IInv, NEW t \in Thread
                 PROVE  /\ op[t] # NoOp => op[t].into \notin deleted /\ op[t].from \notin deleted
                        /\ release[t] # None => release[t] \notin deleted
                        /\ \A i \in DOMAIN dying[t] : dependsOn[dying[t][i]] \cap deleted = {}
        BY DEF NoUseAfterDelete
    <2>1. op[t] # NoOp => op[t].into \notin deleted /\ op[t].from \notin deleted
        BY InCall DEF IInv, Dead, Unneeded
    <2>2. release[t] # None => release[t] \notin deleted
        BY DEF IInv, Dead
    <2>3. ASSUME NEW i \in DOMAIN dying[t], NEW c \in dependsOn[dying[t][i]]
          PROVE  c \notin deleted
        <3> DEFINE s == dying[t][i]
        <3>1. s \in deleted /\ s \in Store
            BY DEF IInv, Dying, TypeOK
        <3>2. ~AtLink(s, c)
            <4>1. \A u \in Thread : op[u].step = "link" => op[u].into \in factories
                BY InCall DEF NoOp
            <4>2. s \notin factories
                BY <3>1 DEF IInv, Dead, Unneeded
            <4>3. QED
                BY <4>1, <4>2 DEF AtLink
        <3>3. s \in dependents[c]
            BY <3>1, <3>2, <2>3 DEF IInv, Registered
        <3>4. QED
            BY <3>3 DEF IInv, Dead, Unneeded
    <2>4. QED
        BY <2>1, <2>2, <2>3
<1>2. QED
    BY <1>1, AlwaysIInv, PTL

\* The destructor of a store never runs while another store depends on it: the error it
\* would log ("Destructing TypeFactory ... is unsafe") is never reached.
THEOREM Order == Safety => []NeverUnsafe
<1>1. IInv => NeverUnsafe
    BY DEF IInv, Dead, Unneeded, NeverUnsafe
<1>2. QED
    BY <1>1, AlwaysIInv, PTL

\* A store that has not been destroyed still has a holder: no reference is lost.
THEOREM NoLeak == Safety => []NoIdleStore
<1>1. IInv => NoIdleStore
    <2> SUFFICES ASSUME IInv, NEW s \in Store \ deleted,
                        s \notin factories, \A v \in Value : values[v] # s,
                        dependents[s] = {}, \A t \in Thread : release[t] # s
                 PROVE  FALSE
        BY DEF NoIdleStore
    <2>1. ValuesOf(s) = {} /\ StoresOn(s) = {} /\ Releasing(s) = {} /\ Owned(s) = 0
        BY DEF ValuesOf, StoresOn, Releasing, Owned
    <2>2. Cardinality({}) = 0
        BY FS_EmptySet
    <2>3. count[s] = 0
        BY <2>1, <2>2 DEF IInv, Counts
    <2>4. QED
        BY <2>3 DEF IInv, Needed
<1>2. QED
    BY <1>1, AlwaysIInv, PTL

=============================================================================
