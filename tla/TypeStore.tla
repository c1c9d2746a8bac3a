------------------------------ MODULE TypeStore ------------------------------
(***************************************************************************)
(* The lifetime of types.  A TypeFactory keeps the types it creates in a   *)
(* TypeStore (public/types/type.h, type.cc), which may outlive the factory *)
(* for as long as Values of these types exist, or types of other stores    *)
(* that are built from them.  The store counts its references:             *)
(*                                                                         *)
(*   - one for the factory, given up by ~TypeFactory (type_factory.cc);    *)
(*   - one for each Value of one of its types (value.cc, value_inl.h);     *)
(*   - one for each store that depends on it, taken by AddDependency.      *)
(*                                                                         *)
(* Whoever gives up the last reference runs the destructor of the store,   *)
(* which gives up the references to the stores it depends on, and so on.   *)
(*                                                                         *)
(* Threads run concurrently.  A step is what happens under one mutex, or   *)
(* one operation on an atomic counter.  A type is abstracted to the store  *)
(* that owns it and the store of its component.                            *)
(***************************************************************************)
EXTENDS Naturals, FiniteSets, Sequences

CONSTANTS
    Thread,
    Store,
    Value,      \* the variables that may hold a Value
    KeepAlive,  \* the stores with keep_alive_while_referenced_from_value
    MayUse,     \* the stores from whose types a factory is asked to build types
    Debug,      \* not NDEBUG: Values count in every store
    None

ASSUME StoreAssumption ==
    /\ IsFiniteSet(Thread) /\ IsFiniteSet(Store) /\ IsFiniteSet(Value)
    /\ KeepAlive \subseteq Store
    /\ MayUse \in [Store -> SUBSET Store]
    /\ \A s \in Store : s \notin MayUse[s]
    /\ Debug \in BOOLEAN
    /\ None \notin Store \cup Value

VARIABLES
    factories,   \* the stores whose TypeFactory exists
    count,       \* ref_count_
    dependsOn,   \* depends_on_factories_
    dependents,  \* factories_depending_on_this_
    types,       \* the stores of the components of each store's types
    values,      \* the store of the type of each Value, or None
    deleted,     \* the stores whose destructor has run or is running
    op,          \* each thread's call of MakeArrayType
    release,     \* the store whose Unref() a thread is about to call, or None
    dying        \* each thread's running destructors, outermost first

vars == <<factories, count, dependsOn, dependents, types, values, deleted, op, release, dying>>

NoOp == [step |-> "idle", into |-> None, from |-> None, pin |-> None]

\* The thread is not in any call.
Free(t) == op[t] = NoOp /\ release[t] = None /\ dying[t] = <<>>

\* The build counts the Values of the types of s.
Counted(s) == s \in KeepAlive \/ Debug

\* v is a Value of a type that belongs to s or is built from types of s.
Holds(v, s) == values[v] = s \/ (values[v] # None /\ values[v] \in dependents[s])

\* Some thread is in a call with the factory of s, or with one of its types found there.
InUse(s) == \E t \in Thread : op[t].into = s \/ (op[t].from = s /\ op[t].pin = None)

Init ==
    /\ factories = Store
    /\ count = [s \in Store |-> 1]
    /\ dependsOn = [s \in Store |-> {}]
    /\ dependents = [s \in Store |-> {}]
    /\ types = [s \in Store |-> {}]
    /\ values = [v \in Value |-> None]
    /\ deleted = {}
    /\ op = [t \in Thread |-> NoOp]
    /\ release = [t \in Thread |-> None]
    /\ dying = [t \in Thread |-> <<>>]

-----------------------------------------------------------------------------
(* MakeArrayType, like the other makers of compound types: AddDependency on  *)
(* the store of the component, then the type.                                *)

\* The caller keeps the factory, and what it has the component's type from: its factory
\* (no pin) or a Value.
MakeType(t, s, c, v) ==
    /\ Free(t)
    /\ s \in factories /\ c \in MayUse[s]
    /\ IF v = None THEN c \in factories ELSE Holds(v, c)
    /\ op' = [op EXCEPT ![t] = [step |-> "insert", into |-> s, from |-> c, pin |-> v]]
    /\ UNCHANGED <<factories, count, dependsOn, dependents, types, values, deleted, release, dying>>

\* AddDependency, under the mutex of the factory's own store.
Insert(t) ==
    /\ op[t].step = "insert"
    /\ LET s == op[t].into
           c == op[t].from
       IN  /\ dependsOn' = [dependsOn EXCEPT ![s] = @ \cup {c}]
           /\ op' = [op EXCEPT ![t].step = IF c \in dependsOn[s] THEN "create" ELSE "link"]
    /\ UNCHANGED <<factories, count, dependents, types, values, deleted, release, dying>>

\* Mutant: AddDependency takes no reference.
LinkNoRef(t) ==
    /\ op[t].step = "link"
    /\ dependents' = [dependents EXCEPT ![op[t].from] = @ \cup {op[t].into}]
    /\ op' = [op EXCEPT ![t].step = "create"]
    /\ UNCHANGED <<factories, count, dependsOn, types, values, deleted, release, dying>>

\* AddDependency, under the mutex of the other store.
Link(t) ==
    /\ op[t].step = "link"
    /\ LET s == op[t].into
           c == op[t].from
       IN  /\ dependents' = [dependents EXCEPT ![c] = @ \cup {s}]
           /\ count' = IF s \notin dependents[c] /\ c \in KeepAlive
                       THEN [count EXCEPT ![c] = @ + 1] ELSE count
    /\ op' = [op EXCEPT ![t].step = "create"]
    /\ UNCHANGED <<factories, dependsOn, types, values, deleted, release, dying>>

\* The type is found in the cache, or created and owned by the store.
Create(t) ==
    /\ op[t].step = "create"
    /\ types' = [types EXCEPT ![op[t].into] = @ \cup {op[t].from}]
    /\ op' = [op EXCEPT ![t] = NoOp]
    /\ UNCHANGED <<factories, count, dependsOn, dependents, values, deleted, release, dying>>

-----------------------------------------------------------------------------
(* Values and factories come and go. *)

\* Mutant: a Value made from another one (CopyFrom) takes no reference.
NewValueUncounted(t, v, s) ==
    /\ Free(t)
    /\ values[v] = None
    /\ \/ s \in factories
       \/ \E w \in Value : values[w] # None /\ s \in {values[w]} \cup types[values[w]]
    /\ values' = [values EXCEPT ![v] = s]
    /\ count' = IF Counted(s) /\ s \in factories THEN [count EXCEPT ![s] = @ + 1] ELSE count
    /\ UNCHANGED <<factories, dependsOn, dependents, types, deleted, op, release, dying>>

\* RefFromValue: a Value of a type of s, which the thread has from the factory, from another
\* Value, or as the component of the type of another Value.
NewValue(t, v, s) ==
    /\ Free(t)
    /\ values[v] = None
    /\ \/ s \in factories
       \/ \E w \in Value : values[w] # None /\ s \in {values[w]} \cup types[values[w]]
    /\ values' = [values EXCEPT ![v] = s]
    /\ count' = IF Counted(s) THEN [count EXCEPT ![s] = @ + 1] ELSE count
    /\ UNCHANGED <<factories, dependsOn, dependents, types, deleted, op, release, dying>>

\* Value::Clear.  No thread is using a type it has from this Value.
Clear(t, v) ==
    /\ Free(t)
    /\ values[v] # None
    /\ \A u \in Thread : op[u].pin # v
    /\ values' = [values EXCEPT ![v] = None]
    /\ release' = [release EXCEPT ![t] = IF Counted(values[v]) THEN values[v] ELSE None]
    /\ UNCHANGED <<factories, count, dependsOn, dependents, types, deleted, op, dying>>

\* ~TypeFactory.  No thread is using the factory; the types of a store that is not kept
\* alive are no longer in use, neither by Values nor by the types of other stores.
DestroyFactory(t, s) ==
    /\ Free(t)
    /\ s \in factories /\ ~InUse(s)
    /\ s \notin KeepAlive =>
          /\ \A v \in Value : values[v] # s
          /\ dependents[s] = {}
    /\ factories' = factories \ {s}
    /\ release' = [release EXCEPT ![t] = s]
    /\ UNCHANGED <<count, dependsOn, dependents, types, values, deleted, op, dying>>

-----------------------------------------------------------------------------
(* Giving up a reference, and the destructor. *)

\* Mutant: the last reference is taken to be the one that finds no other left before it.
UnrefAtZero(t) ==
    /\ release[t] # None
    /\ count' = [count EXCEPT ![release[t]] = @ - 1]
    /\ IF count[release[t]] = 0
       THEN /\ deleted' = deleted \cup {release[t]}
            /\ dying' = [dying EXCEPT ![t] = Append(@, release[t])]
       ELSE UNCHANGED <<deleted, dying>>
    /\ release' = [release EXCEPT ![t] = None]
    /\ UNCHANGED <<factories, dependsOn, dependents, types, values, op>>

\* Unref().  ~TypeStore starts by deleting the types; stores that still depend on this one
\* would be made to forget it.
Unref(t) ==
    /\ release[t] # None
    /\ LET s == release[t]
       IN  /\ count' = [count EXCEPT ![s] = @ - 1]
           /\ IF count[s] = 1
              THEN /\ deleted' = deleted \cup {s}
                   /\ dependsOn' = [d \in Store |-> IF d \in dependents[s]
                                                    THEN dependsOn[d] \ {s} ELSE dependsOn[d]]
                   /\ dying' = [dying EXCEPT ![t] = Append(@, s)]
              ELSE UNCHANGED <<deleted, dependsOn, dying>>
    /\ release' = [release EXCEPT ![t] = None]
    /\ UNCHANGED <<factories, dependents, types, values, op>>

Innermost(t) == dying[t][Len(dying[t])]

\* Mutant: need_to_unref stays false.
UnlinkNoUnref(t) ==
    /\ release[t] = None /\ dying[t] # <<>>
    /\ \E c \in dependsOn[Innermost(t)] :
          /\ dependents' = [dependents EXCEPT ![c] = @ \ {Innermost(t)}]
          /\ dependsOn' = [dependsOn EXCEPT ![Innermost(t)] = @ \ {c}]
    /\ UNCHANGED <<factories, count, types, values, deleted, op, release, dying>>

\* Mutant: the reference is given up whether or not the other store counted it.
UnlinkAlways(t) ==
    /\ release[t] = None /\ dying[t] # <<>>
    /\ \E c \in dependsOn[Innermost(t)] :
          /\ dependents' = [dependents EXCEPT ![c] = @ \ {Innermost(t)}]
          /\ dependsOn' = [dependsOn EXCEPT ![Innermost(t)] = @ \ {c}]
          /\ release' = [release EXCEPT ![t] = c]
    /\ UNCHANGED <<factories, count, types, values, deleted, op, dying>>

\* One turn of the last loop of ~TypeStore, under the mutex of the other store.  What is
\* left in the dying store's set is what the loop has still to visit.
Unlink(t) ==
    /\ release[t] = None /\ dying[t] # <<>>
    /\ LET s == Innermost(t)
       IN  \E c \in dependsOn[s] :
              /\ dependents' = [dependents EXCEPT ![c] = @ \ {s}]
              /\ dependsOn' = [dependsOn EXCEPT ![s] = @ \ {c}]
              /\ release' = [release EXCEPT ![t] =
                               IF s \in dependents[c] /\ c \in KeepAlive THEN c ELSE None]
    /\ UNCHANGED <<factories, count, types, values, deleted, op, dying>>

\* The destructor returns.
Destroyed(t) ==
    /\ release[t] = None /\ dying[t] # <<>>
    /\ dependsOn[Innermost(t)] = {}
    /\ dying' = [dying EXCEPT ![t] = SubSeq(@, 1, Len(@) - 1)]
    /\ UNCHANGED <<factories, count, dependsOn, dependents, types, values, deleted, op, release>>

\* A call under way goes on.
Step(t) == Insert(t) \/ Link(t) \/ Create(t) \/ Unref(t) \/ Unlink(t) \/ Destroyed(t)

\* A thread makes a call.
Request(t) ==
    \/ \E s, c \in Store, v \in Value \cup {None} : MakeType(t, s, c, v)
    \/ \E v \in Value, s \in Store : NewValue(t, v, s)
    \/ \E v \in Value : Clear(t, v)
    \/ \E s \in Store : DestroyFactory(t, s)

\* Nothing is left to be done: stopping here is no deadlock.
Finished == deleted = Store /\ (\A t \in Thread : Free(t)) /\ UNCHANGED vars

Next == Finished \/ \E t \in Thread : Step(t) \/ Request(t)

Safety == Init /\ [][Next]_vars

\* Threads that are in a call keep running.
Spec == Safety /\ \A t \in Thread : WF_vars(Step(t))

-----------------------------------------------------------------------------
Op == [step : {"idle", "insert", "link", "create"}, into : Store \cup {None},
       from : Store \cup {None}, pin : Value \cup {None}]

\* The state has the expected shape.
TypeOK ==
    /\ factories \subseteq Store
    /\ count \in [Store -> Nat]
    /\ dependsOn \in [Store -> SUBSET Store]
    /\ dependents \in [Store -> SUBSET Store]
    /\ types \in [Store -> SUBSET Store]
    /\ values \in [Value -> Store \cup {None}]
    /\ deleted \subseteq Store
    /\ op \in [Thread -> Op]
    /\ release \in [Thread -> Store \cup {None}]
    /\ dying \in [Thread -> Seq(Store)]

\* "created Types will live longer than the TypeFactory as long as they are referenced by
\* Value objects" (type_factory.h:135): the type of a Value exists, whichever thread has
\* given up which reference, and so do the types it is built from, whatever their stores.
TypesOutliveValues ==
    /\ \A v \in Value : values[v] # None => values[v] \notin deleted
    /\ \A s \in Store \ deleted : types[s] \cap deleted = {}

\* No step of AddDependency, of Unref or of ~TypeStore, nor the making of the type, works
\* on a store that some thread has started to destroy.
NoUseAfterDelete ==
    \A t \in Thread :
        /\ op[t] # NoOp => op[t].into \notin deleted /\ op[t].from \notin deleted
        /\ release[t] # None => release[t] \notin deleted
        /\ \A i \in DOMAIN dying[t] : dependsOn[dying[t][i]] \cap deleted = {}

\* ~TypeStore never finds the situation for which it logs "Destructing TypeFactory is
\* unsafe because TypeFactory ... depends on it staying alive".
NeverUnsafe == \A s \in deleted : dependents[s] = {}

\* A store does not outlive its use: it exists only while its factory, a Value of one of
\* its types, a dependent store or a call under way needs it.
NoIdleStore ==
    \A s \in Store \ deleted :
        \/ s \in factories
        \/ \E v \in Value : values[v] = s
        \/ dependents[s] # {}
        \/ \E t \in Thread : release[t] = s

\* When all factories and Values are gone, every store is eventually destroyed.
Reclaimed ==
    (factories = {} /\ \A v \in Value : values[v] = None) ~> (deleted = Store)

=============================================================================
