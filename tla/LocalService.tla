---------------------------- MODULE LocalService ----------------------------
(***************************************************************************)
(* The registered states of GoogleSqlLocalServiceImpl: descriptor pools,   *)
(* catalogs and prepared statements, in five SharedStatePools, under calls *)
(* that run concurrently.  Every critical section of a pool's mutex is one *)
(* step.  A call works on its own copies of everything else: the states it *)
(* has looked up (shared pointers), and the ids it has registered.         *)
(*                                                                         *)
(* An id is a pair of the pool it belongs to and a number.  A state is     *)
(* abstracted to the ids it owns, which are what UnprepareImpl and         *)
(* UnregisterCatalog delete with it.                                       *)
(***************************************************************************)
EXTENDS Naturals, Sequences, FiniteSets

CONSTANTS
    Thread,   \* the threads that serve calls
    Kind,     \* the pools of prepared statements
    MaxDefs,  \* bound: descriptor pools named by one request
    MaxId     \* bound: ids of each pool

VARIABLES
    saved,    \* saved_states_ of all pools: registered id -> ids the state owns
    next,     \* next_id_ of each pool
    call,     \* the call each thread is in
    issued,   \* ids in the responses so far -> the handle they belong to
    asked     \* handles that clients have asked to release

vars == <<saved, next, call, issued, asked>>

Tag == Kind \cup {"pool", "catalog"}
Id == Tag \X Nat
Builtin == <<"pool", 0>>         \* registered by RegisteredDescriptorPoolPool()
New == <<"unregistered", 0>>     \* a state that the request describes
NoCatalog == <<"none", 0>>       \* Evaluate works without a catalog

IsPool(id) == id[1] = "pool"
IsCatalog(id) == id[1] = "catalog"

ASSUME KindAssumption == Kind \cap {"pool", "catalog", "unregistered", "none"} = {}
ASSUME BoundAssumption == MaxDefs \in Nat /\ MaxId \in [Tag -> Nat]

\* A handle is what a client registers and may ask to be released.
Handle == {id \in Id : ~IsPool(id)}

\* The local variables of a call.
Idle == [pc |-> "idle",
         tag |-> "none",        \* the pool of the state that the call creates
         defs |-> <<>>,         \* definitions that are still to be looked at
         fresh |-> 0,           \* pool states that are not registered yet
         catalog |-> NoCatalog, \* the catalog that is still to be found
         owned |-> {},          \* owned_descriptor_pool_ids, owned_catalog_id
         target |-> NoCatalog,  \* the id that the request names
         left |-> {},           \* owned ids of the target still to be deleted
         failed |-> FALSE]      \* status is an error

-----------------------------------------------------------------------------
(* SharedStatePool: Get is membership in DOMAIN saved. *)

Put(f, id, owns) == [x \in DOMAIN f \cup {id} |-> IF x = id THEN owns ELSE f[x]]

NextId(tag) == <<tag, next[tag]>>

\* Mutant: the number of a deleted state is used again.
RegisterReuse(tag, owns) ==
    LET n == CHOOSE m \in 0 .. next[tag] : <<tag, m>> \notin DOMAIN saved
    IN /\ saved' = Put(saved, <<tag, n>>, owns)
       /\ next' = [next EXCEPT ![tag] = IF n = @ THEN @ + 1 ELSE @]

\* Register() of a state without an id.
Register(tag, owns) ==
    /\ saved' = Put(saved, NextId(tag), owns)
    /\ next' = [next EXCEPT ![tag] = @ + 1]

\* Delete(), whether or not the id is registered.
Delete(id) == saved' = [x \in DOMAIN saved \ {id} |-> saved[x]]

-----------------------------------------------------------------------------
(* The calls of clients. *)

Begins(t, c) == call[t].pc = "idle" /\ call' = [call EXCEPT ![t] = c]

Returns(t) == call' = [call EXCEPT ![t] = Idle]

\* Definitions that a request may list: a file set, the builtin pool, a pool by
\* its id.  A pool is listed once (PopulateExistingPoolsToFileDescriptorSetMap).
DefLists ==
    LET Defs == {New} \cup {id \in DOMAIN issued : IsPool(id)}
    IN UNION {{l \in [1 .. n -> Defs] :
                 \A i, j \in 1 .. n : l[i] = l[j] => i = j \/ l[i] = New} : n \in 0 .. MaxDefs}

Catalogs == {id \in DOMAIN issued : IsCatalog(id)}

\* Bound: there are numbers left for all that the calls may register.
Fits(tag) ==
    LET active == Cardinality({t \in Thread : call[t].tag # "none"})
    IN /\ next["pool"] + MaxDefs * (active + 1) <= MaxId["pool"]
       /\ \A s \in {"catalog", tag} : next[s] + active < MaxId[s]

\* Prepare, PrepareQuery and PrepareModify; and Evaluate of an expression that
\* is not prepared yet, which takes no catalog.
Prepare(t) ==
    /\ \E kind \in Kind, defs \in DefLists, catalog \in Catalogs \cup {New, NoCatalog} :
        /\ Fits(kind)
        /\ catalog = NoCatalog => kind = "expression"
        /\ Begins(t, [Idle EXCEPT !.pc = "make", !.tag = kind, !.defs = defs,
                                  !.catalog = catalog])
    /\ UNCHANGED <<saved, next, issued, asked>>

RegisterCatalog(t) ==
    /\ \E defs \in DefLists :
        /\ Fits("catalog")
        /\ Begins(t, [Idle EXCEPT !.pc = "make", !.tag = "catalog", !.defs = defs])
    /\ UNCHANGED <<saved, next, issued, asked>>

\* Analyze, BuildSql, and the evaluation of queries and modifications that are
\* not prepared: they look states up and register nothing.
Analyze(t) ==
    /\ \E defs \in DefLists, catalog \in Catalogs \cup {New} :
        Begins(t, [Idle EXCEPT !.pc = "make", !.defs = defs, !.catalog = catalog])
    /\ UNCHANGED <<saved, next, issued, asked>>

\* Evaluate, EvaluateQuery and EvaluateModify of a prepared statement.
Evaluate(t) ==
    /\ \E h \in DOMAIN issued :
        h[1] \in Kind /\ Begins(t, [Idle EXCEPT !.pc = "find", !.target = h])
    /\ UNCHANGED <<saved, next, issued, asked>>

\* Unprepare, UnprepareQuery, UnprepareModify and UnregisterCatalog.
Unprepare(t) ==
    /\ \E h \in DOMAIN issued :
        /\ ~IsPool(h)
        /\ Begins(t, [Idle EXCEPT !.pc = "lookup", !.target = h])
        /\ asked' = asked \cup {h}
    /\ UNCHANGED <<saved, next, issued>>

-----------------------------------------------------------------------------
(* Prepare, RegisterCatalog, Analyze: looking up, registering, publishing. *)

Making(t) == call[t].pc = "make"

\* Mutant: no cleanup.
FailsLeaking(t) == Returns(t)

\* An error; the cleanups run if anything has been registered.
Fails(t) ==
    IF call[t].owned = {} THEN Returns(t)
    ELSE call' = [call EXCEPT ![t] = [Idle EXCEPT !.pc = "cleanup", !.owned = call[t].owned]]

\* Mutant: a pool that the request names by its id is owned as well.
GetDescriptorPoolOwned(t) ==
    /\ Making(t) /\ call[t].defs # <<>>
    /\ LET d == Head(call[t].defs) IN
        \/ /\ d \in DOMAIN saved \cup {New}
           /\ call' = [call EXCEPT ![t].defs = Tail(@),
                                   ![t].fresh = IF d = New THEN @ + 1 ELSE @,
                                   ![t].owned = (@ \cup {d}) \ {New, Builtin}]
        \/ d \notin DOMAIN saved /\ Returns(t)
    /\ UNCHANGED <<saved, next, issued, asked>>

\* GetDescriptorPools, one definition.
GetDescriptorPool(t) ==
    /\ Making(t) /\ call[t].defs # <<>>
    /\ LET d == Head(call[t].defs) IN
        \/ /\ d \in DOMAIN saved \cup {New}
           /\ call' = [call EXCEPT ![t].defs = Tail(@),
                                   ![t].fresh = IF d = New THEN @ + 1 ELSE @]
        \/ d \notin DOMAIN saved /\ Returns(t)
    /\ UNCHANGED <<saved, next, issued, asked>>

\* Mutant: the loop registers one state too many.
RegisterDescriptorPoolAlways(t) ==
    /\ Making(t) /\ call[t].defs = <<>> /\ call[t].tag # "none"
    /\ Register("pool", {})
    /\ call' = [call EXCEPT ![t].fresh = @ - 1, ![t].owned = @ \cup {NextId("pool")}]
    /\ UNCHANGED <<issued, asked>>

\* RegisterNewDescriptorPools, one state that is not registered.
RegisterNewDescriptorPool(t) ==
    /\ Making(t) /\ call[t].defs = <<>> /\ call[t].tag # "none" /\ call[t].fresh > 0
    /\ Register("pool", {})
    /\ call' = [call EXCEPT ![t].fresh = @ - 1, ![t].owned = @ \cup {NextId("pool")}]
    /\ UNCHANGED <<issued, asked>>

PoolsReady(t) ==
    Making(t) /\ call[t].defs = <<>> /\ (call[t].tag # "none" => call[t].fresh = 0)

\* GetCatalogState, and the registration of a catalog that PrepareImpl owns.
\* Analyze ends here: it only reads what it has found.
GetCatalogState(t) ==
    /\ PoolsReady(t) /\ call[t].catalog # NoCatalog
    /\ LET c == call[t].catalog IN
        \/ /\ c = New /\ call[t].tag # "none"
           /\ Register("catalog", {})
           /\ call' = [call EXCEPT ![t].catalog = NoCatalog,
                                   ![t].owned = @ \cup {NextId("catalog")}]
        \/ /\ c \in DOMAIN saved /\ call[t].tag # "none"
           /\ call' = [call EXCEPT ![t].catalog = NoCatalog]
           /\ UNCHANGED <<saved, next>>
        \/ /\ call[t].tag = "none"
           /\ Returns(t)
           /\ UNCHANGED <<saved, next>>
        \/ /\ call[t].tag # "none"
           /\ Fails(t)
           /\ UNCHANGED <<saved, next>>
    /\ UNCHANGED <<issued, asked>>

\* The ids of a response: the new handle and the pools registered for it.
Issue(t, h) ==
    issued' = [x \in DOMAIN issued \cup {h} \cup {id \in call[t].owned : IsPool(id)} |->
                 IF x \in DOMAIN issued THEN issued[x] ELSE h]

\* Mutant: the cleanups are not cancelled.
PublishNoCancel(t) ==
    /\ PoolsReady(t) /\ call[t].catalog = NoCatalog
    /\ \/ /\ Register(call[t].tag, call[t].owned)
          /\ Issue(t, NextId(call[t].tag))
          /\ Fails(t)
       \/ /\ Fails(t)
          /\ UNCHANGED <<saved, next, issued>>
    /\ UNCHANGED asked

\* CreateAndPrepare and RegisterPrepared, the creation and registration of a
\* catalog, or the evaluation and registration of an expression: an error
\* before the registration, or success.
Publish(t) ==
    /\ PoolsReady(t) /\ call[t].catalog = NoCatalog
    /\ \/ /\ Register(call[t].tag, call[t].owned)
          /\ Issue(t, NextId(call[t].tag))
          /\ Returns(t)
       \/ /\ Fails(t)
          /\ UNCHANGED <<saved, next, issued>>
    /\ UNCHANGED asked

\* CleanupCatalog, then CleanupDescriptorPools, one id.
Cleanup(t) ==
    /\ call[t].pc = "cleanup"
    /\ \E id \in call[t].owned :
        /\ IsCatalog(id) \/ \A x \in call[t].owned : ~IsCatalog(x)
        /\ Delete(id)
        /\ IF call[t].owned = {id} THEN Returns(t)
           ELSE call' = [call EXCEPT ![t].owned = @ \ {id}]
    /\ UNCHANGED <<next, issued, asked>>

-----------------------------------------------------------------------------
(* UnprepareImpl and UnregisterCatalog; the use of a prepared statement. *)

\* The state is looked up and held.
Lookup(t) ==
    /\ call[t].pc = "lookup"
    /\ IF call[t].target \in DOMAIN saved
       THEN call' = [call EXCEPT ![t].pc = "delete", ![t].left = saved[call[t].target]]
       ELSE Returns(t)
    /\ UNCHANGED <<saved, next, issued, asked>>

\* Mutant: the loop does not advance.
DeleteOwnedAgain(t) ==
    /\ call[t].pc = "delete"
    /\ \E id \in call[t].left :
        /\ IsPool(id) \/ \A x \in call[t].left : ~IsPool(x)
        /\ Delete(id)
        /\ call' = [call EXCEPT ![t].failed = @ \/ id \notin DOMAIN saved]
    /\ UNCHANGED <<next, issued, asked>>

\* An owned pool or, after them, the owned catalog is deleted; that it is unknown
\* is recorded and the deletion goes on.
DeleteOwned(t) ==
    /\ call[t].pc = "delete"
    /\ \E id \in call[t].left :
        /\ IsPool(id) \/ \A x \in call[t].left : ~IsPool(x)
        /\ Delete(id)
        /\ call' = [call EXCEPT ![t].left = @ \ {id},
                                ![t].failed = @ \/ id \notin DOMAIN saved]
    /\ UNCHANGED <<next, issued, asked>>

\* Mutant: the target is kept if one of the deletions before failed.
DeleteTargetIfOk(t) ==
    /\ call[t].pc = "delete" /\ call[t].left = {}
    /\ IF call[t].failed THEN UNCHANGED saved ELSE Delete(call[t].target)
    /\ Returns(t)
    /\ UNCHANGED <<next, issued, asked>>

\* The target is deleted whatever happened before.
DeleteTarget(t) ==
    /\ call[t].pc = "delete" /\ call[t].left = {}
    /\ Delete(call[t].target)
    /\ Returns(t)
    /\ UNCHANGED <<next, issued, asked>>

\* Get() of the prepared statement, which the call then holds and evaluates.
Find(t) ==
    /\ call[t].pc = "find"
    /\ IF call[t].target \in DOMAIN saved
       THEN call' = [call EXCEPT ![t].pc = "use"] ELSE Returns(t)
    /\ UNCHANGED <<saved, next, issued, asked>>

EvaluatePrepared(t) ==
    /\ call[t].pc = "use"
    /\ Returns(t)
    /\ UNCHANGED <<saved, next, issued, asked>>
-----------------------------------------------------------------------------
Init ==
    /\ saved = [id \in {Builtin} |-> {}]
    /\ next = [tag \in Tag |-> IF tag = "pool" THEN 1 ELSE 0]
    /\ call = [t \in Thread |-> Idle]
    /\ issued = [id \in {Builtin} |-> Builtin]
    /\ asked = {}

Request(t) ==
    Prepare(t) \/ RegisterCatalog(t) \/ Analyze(t) \/ Evaluate(t) \/ Unprepare(t)

Step(t) ==
    \/ GetDescriptorPool(t) \/ RegisterNewDescriptorPool(t) \/ GetCatalogState(t)
    \/ Publish(t) \/ Cleanup(t)
    \/ Lookup(t) \/ DeleteOwned(t) \/ DeleteTarget(t)
    \/ Find(t) \/ EvaluatePrepared(t)

Next == \E t \in Thread : Request(t) \/ Step(t)

Safety == Init /\ [][Next]_vars

\* A thread that serves a call goes on with it: the mutexes are held for bounded
\* critical sections, and nothing else is waited for.
Spec == Safety /\ \A t \in Thread : WF_vars(Step(t))
-----------------------------------------------------------------------------
(* Properties. *)

Definition == {New} \cup {id \in Id : IsPool(id)}

Call ==
    [pc : {"idle", "make", "cleanup", "lookup", "delete", "find", "use"},
     tag : (Tag \ {"pool"}) \cup {"none"}, defs : Seq(Definition), fresh : Nat,
     catalog : {New, NoCatalog} \cup {id \in Id : IsCatalog(id)}, owned : SUBSET Id,
     target : Handle \cup {NoCatalog}, left : SUBSET Id, failed : BOOLEAN]

\* The pools' maps, the calls and what clients know have their types.
TypeOK ==
    /\ DOMAIN saved \subseteq Id /\ saved \in [DOMAIN saved -> SUBSET Id]
    /\ next \in [Tag -> Nat]
    /\ call \in [Thread -> Call]
    /\ DOMAIN issued \subseteq Id /\ issued \in [DOMAIN issued -> Id]
    /\ asked \subseteq DOMAIN issued \cap Handle

\* What would delete a registered state: the states that own it, and the calls
\* that registered it and have not handed it over.
Owners(id) ==
    {<<"state", h>> : h \in {g \in DOMAIN saved : id \in saved[g]}}
    \cup {<<"call", t>> : t \in {u \in Thread : id \in call[u].owned}}

\* Every registered descriptor pool but the builtin one, and every catalog that
\* was registered for a prepared statement, has exactly one owner at any time:
\* nothing leaks when a call fails half way, and nothing is deleted twice.
OwnedByExactlyOne ==
    \A id \in DOMAIN saved \ {Builtin} :
        IsPool(id) \/ (IsCatalog(id) /\ id \notin DOMAIN issued) =>
            \E o \in Owners(id) : Owners(id) = {o}

\* An id in a response stays valid until a client asks for the release of the
\* handle it belongs to: no other call, failed or not, takes it away.
IssuedUntilAsked ==
    \A id \in DOMAIN issued : issued[id] \notin asked => id \in DOMAIN saved

Releasing(t, h) == call[t].pc \in {"lookup", "delete"} /\ call[t].target = h

\* Once every call that was asked to release a handle has returned, with success
\* or with an error, neither the handle nor anything issued for it is registered.
AskedAreGone ==
    \A h \in asked : (\A t \in Thread : ~Releasing(t, h)) =>
        \A id \in DOMAIN issued : issued[id] = h => id \notin DOMAIN saved

\* A release finds an owned id unknown only if another release of the same handle
\* is under way or has finished ("any error would indicate some sort of horrible
\* internal state error").
ErrorsMeanContention ==
    \A t \in Thread : call[t].failed =>
        \/ call[t].target \notin DOMAIN saved
        \/ \E u \in Thread \ {t} : call[u].pc = "delete" /\ call[u].target = call[t].target

\* An id that is registered is known to nobody: no client was given it, no state
\* owns it and no call is about to delete it.
NewIdsAreUnknown ==
    [][\A id \in DOMAIN saved' \ DOMAIN saved :
        /\ id \notin DOMAIN issued
        /\ \A x \in DOMAIN saved : id \notin saved[x]
        /\ \A t \in Thread : id \notin call[t].owned \cup call[t].left]_vars

OpenHandles ==
    {h \in DOMAIN saved \cap DOMAIN issued : ~IsPool(h) /\ saved[h] \subseteq DOMAIN saved}

\* A handle counts as open while all that it owns is registered: it closes with
\* the first of its resources.
Service == INSTANCE Registry WITH
    Handle <- UNION {{tag} \X (0 .. MaxId[tag]) : tag \in Tag \ {"pool"}},
    open <- [h \in OpenHandles |-> saved[h]],
    given <- {h \in DOMAIN issued : ~IsPool(h)},
    asked <- asked

\* The calls together behave like the registry: handles open and close at once
\* with all they own, only when asked, and always if asked.
ImplementsRegistry == Service!Spec

\* Every call returns, whatever the other threads do.
CallsReturn == \A t \in Thread : call[t].pc # "idle" ~> call[t].pc = "idle"
=============================================================================
