------------------------- MODULE LocalServiceProofs -------------------------
(***************************************************************************)
(* The properties of LocalService for any threads, pools and bounds: its   *)
(* inductive invariant, what that needs to know of the steps (each of them *)
(* is one of seven kinds of change), the properties it implies, and that   *)
(* every step is a step of Registry.                                       *)
(***************************************************************************)
EXTENDS LocalService, TLAPS

Deleting(t, h) == call[t].pc = "delete" /\ call[t].target = h

\* The number of an id has been given out.
Counted(id) == id \in Id /\ id[2] < next[id[1]]

\* Every id that anything refers to has been given out, so the next one is new.
Numbered ==
    /\ \A id \in DOMAIN saved : Counted(id) /\ \A x \in saved[id] : Counted(x)
    /\ \A id \in DOMAIN issued : Counted(id)
    /\ \A t \in Thread : \A x \in call[t].owned \cup call[t].left : Counted(x)

\* What the locals of a call may be at each place in it.
InOrder(c, released) ==
    /\ c.pc \notin {"make", "cleanup"} => c.owned = {}
    /\ c.pc # "delete" => c.left = {} /\ ~c.failed
    /\ c.pc = "make" /\ c.catalog = NoCatalog => c.tag # "none"
    /\ c.pc = "make" /\ (c.tag = "none" \/ c.defs # <<>>) => c.owned = {}
    /\ c.pc \in {"lookup", "delete"} => c.target \in released

CallsInOrder == \A t \in Thread : InOrder(call[t], asked)

\* What a call has registered and not handed over is registered, owns nothing, is
\* known to no client and held by nothing else.
Held ==
    \A t \in Thread : \A id \in call[t].owned :
        /\ id \in DOMAIN saved \ DOMAIN issued
        /\ IsPool(id) \/ IsCatalog(id)
        /\ saved[id] = {}
        /\ \A h \in DOMAIN saved : id \notin saved[h]
        /\ \A u \in Thread \ {t} : id \notin call[u].owned

\* A state that owns anything is a handle; it owns descriptor pools and a catalog
\* that no client knows of, alone; one that is missing was deleted by a call that
\* is deleting the state.
States ==
    \A h \in DOMAIN saved : \A id \in saved[h] :
        /\ h \in DOMAIN issued /\ ~IsPool(h)
        /\ IsPool(id) \/ (IsCatalog(id) /\ id \notin DOMAIN issued)
        /\ id # Builtin
        /\ id \in DOMAIN saved => saved[id] = {}
        /\ \A g \in DOMAIN saved \ {h} : id \notin saved[g]
        /\ id \notin DOMAIN saved => \E t \in Thread : Deleting(t, h) /\ id \notin call[t].left

\* Whatever is registered has somebody who answers for it.
Accounted ==
    /\ Builtin \in DOMAIN saved
    /\ \A id \in DOMAIN saved :
        \/ id \in DOMAIN issued /\ ~IsPool(id)
        \/ id = Builtin
        \/ \E h \in DOMAIN saved : id \in saved[h]
        \/ \E t \in Thread : id \in call[t].owned

\* What a release has still to delete; all else that the target owned is gone.
Deletions ==
    \A t \in Thread : call[t].pc = "delete" =>
        IF call[t].target \in DOMAIN saved
        THEN /\ call[t].left \subseteq saved[call[t].target]
             /\ \A x \in saved[call[t].target] \ call[t].left : x \notin DOMAIN saved
        ELSE \A x \in call[t].left : x \notin DOMAIN saved

\* What was issued belongs to a handle, which owns it while it is registered.
Issues ==
    /\ Builtin \in DOMAIN issued /\ issued[Builtin] = Builtin
    /\ \A id \in DOMAIN issued \ {Builtin} :
        /\ issued[id] \in DOMAIN issued /\ ~IsPool(issued[id])
        /\ ~IsPool(id) => issued[id] = id
        /\ IsPool(id) => IF issued[id] \in DOMAIN saved THEN id \in saved[issued[id]]
                                                        ELSE id \notin DOMAIN saved
        /\ issued[id] \notin asked => issued[id] \in DOMAIN saved

\* A handle that is to be released is being released or gone.
BeingReleased == \A h \in asked : h \in DOMAIN saved => \E t \in Thread : Releasing(t, h)

\* An error of a release has its reason (ErrorsMeanContention).
IInv ==
    /\ TypeOK /\ Numbered /\ CallsInOrder /\ Held /\ States /\ Accounted
    /\ Deletions /\ Issues /\ BeingReleased /\ ErrorsMeanContention

-----------------------------------------------------------------------------
(* The kinds of change. *)

\* The call of t becomes c; the calls of the others go on as they are.
Changes(t, c) ==
    /\ c \in Call
    /\ call' \in [Thread -> Call]
    /\ call'[t] = c
    /\ \A u \in Thread \ {t} : call'[u] = call[u]

\* id is registered, with the number that was the next one.
Adds(tag, id, owns) ==
    /\ tag \in Tag /\ id = NextId(tag)
    /\ DOMAIN saved' = DOMAIN saved \cup {id}
    /\ saved' \in [DOMAIN saved' -> SUBSET Id]
    /\ saved'[id] = owns
    /\ \A x \in DOMAIN saved \ {id} : saved'[x] = saved[x]
    /\ next' = [next EXCEPT ![tag] = @ + 1]

Removes(id) ==
    /\ DOMAIN saved' = DOMAIN saved \ {id}
    /\ saved' \in [DOMAIN saved' -> SUBSET Id]
    /\ \A x \in DOMAIN saved' : saved'[x] = saved[x]
    /\ next' = next

\* Nothing that is shared changes, and t is not deleting; t may begin to release
\* a handle, or give that up because it is gone.
Quiet(t, c) ==
    /\ Changes(t, c) /\ InOrder(c, asked')
    /\ c.owned = call[t].owned
    /\ c.pc # "delete" /\ call[t].pc # "delete"
    /\ call[t].pc = "lookup" => call[t].target \notin DOMAIN saved
    /\ asked' = IF c.pc = "lookup" THEN asked \cup {c.target} ELSE asked
    /\ c.pc = "lookup" => c.target \in DOMAIN issued \cap Handle
    /\ saved' = saved /\ next' = next /\ issued' = issued

\* t has found the handle that it is to release.
Finds(t, c) ==
    /\ Changes(t, c) /\ InOrder(c, asked')
    /\ call[t].pc = "lookup" /\ call[t].target \in DOMAIN saved
    /\ c.pc = "delete" /\ c.target = call[t].target /\ c.left = saved[c.target]
    /\ c.owned = {} /\ ~c.failed
    /\ saved' = saved /\ next' = next /\ issued' = issued /\ asked' = asked

\* t registers a descriptor pool or a catalog that it owns.
Grows(t, c, tag, id) ==
    /\ Changes(t, c) /\ InOrder(c, asked')
    /\ tag \in {"pool", "catalog"} /\ Adds(tag, id, {})
    /\ call[t].pc = "make" /\ c.pc = "make"
    /\ c.owned = call[t].owned \cup {id}
    /\ issued' = issued /\ asked' = asked

\* t hands over what it owns to a new handle.
Publishes(t, tag, h) ==
    /\ Changes(t, Idle)
    /\ call[t].pc = "make"
    /\ tag \in Tag \ {"pool"} /\ Adds(tag, h, call[t].owned)
    /\ DOMAIN issued' = DOMAIN issued \cup {h} \cup {id \in call[t].owned : IsPool(id)}
    /\ issued' \in [DOMAIN issued' -> Id]
    /\ \A x \in DOMAIN issued' : issued'[x] = IF x \in DOMAIN issued THEN issued[x] ELSE h
    /\ asked' = asked

\* t takes back something that it has registered.
TakesBack(t, c, id) ==
    /\ Changes(t, c) /\ InOrder(c, asked')
    /\ call[t].pc = "cleanup" /\ c.pc \in {"cleanup", "idle"}
    /\ id \in call[t].owned /\ c.owned = call[t].owned \ {id}
    /\ Removes(id)
    /\ issued' = issued /\ asked' = asked

\* t deletes something that its target owns.
DeletesOwned(t, c, id) ==
    /\ Changes(t, c) /\ InOrder(c, asked')
    /\ call[t].pc = "delete" /\ c.pc = "delete" /\ c.target = call[t].target
    /\ id \in call[t].left /\ c.left = call[t].left \ {id} /\ c.owned = {}
    /\ c.failed <=> call[t].failed \/ id \notin DOMAIN saved
    /\ Removes(id)
    /\ issued' = issued /\ asked' = asked

\* t deletes its target.
DeletesTarget(t) ==
    /\ Changes(t, Idle)
    /\ call[t].pc = "delete" /\ call[t].left = {}
    /\ Removes(call[t].target)
    /\ issued' = issued /\ asked' = asked

\* Any of them.
Change ==
    \E t \in Thread :
        \/ \E c \in Call : Quiet(t, c) \/ Finds(t, c)
        \/ \E c \in Call, tag \in Tag, id \in Id : Grows(t, c, tag, id)
        \/ \E tag \in Tag, h \in Id : Publishes(t, tag, h)
        \/ \E c \in Call, id \in Id : TakesBack(t, c, id) \/ DeletesOwned(t, c, id)
        \/ DeletesTarget(t)

-----------------------------------------------------------------------------
(* Every step is one of these changes. *)

\* A call that is not running is the record of initial values (Idle).
LEMMA IdleIsCall ==
    /\ Idle \in Call /\ Idle.pc = "idle" /\ Idle.tag = "none" /\ Idle.owned = {}
    /\ Idle.left = {} /\ Idle.failed = FALSE /\ Idle.defs = <<>> /\ Idle.fresh = 0
    /\ Idle.catalog = NoCatalog /\ Idle.target = NoCatalog
<1>1. <<>> \in Seq(Definition) OBVIOUS
<1> QED BY <1>1 DEF Idle, Call

\* The descriptor pools and the catalogs are told apart by their tags.
LEMMA Tags ==
    /\ "pool" \in Tag /\ "catalog" \in Tag /\ "none" \notin Tag /\ "unregistered" \notin Tag
    /\ Builtin \in Id /\ IsPool(Builtin) /\ ~IsCatalog(Builtin)
    /\ New \notin Id /\ NoCatalog \notin Id /\ New # NoCatalog
    /\ \A id \in Id : ~(IsPool(id) /\ IsCatalog(id))
BY KindAssumption DEF Tag, Id, Builtin, New, NoCatalog, IsPool, IsCatalog

\* Replacing the call of one thread changes that call alone (Begins, Returns).
LEMMA Change1 ==
    ASSUME NEW t \in Thread, NEW c \in Call, call \in [Thread -> Call],
           call' = [call EXCEPT ![t] = c]
    PROVE  Changes(t, c)
BY DEF Changes

\* The definitions of a request are a sequence (DefLists).
LEMMA DefListsAreSeqs == TypeOK => DefLists \subseteq Seq(Definition)
<1> SUFFICES ASSUME TypeOK, NEW defs \in DefLists PROVE defs \in Seq(Definition)
  OBVIOUS
<1>1. PICK n \in 0 .. MaxDefs : defs \in [1 .. n -> {New} \cup {id \in DOMAIN issued : IsPool(id)}]
  BY DEF DefLists
<1>2. {New} \cup {id \in DOMAIN issued : IsPool(id)} \subseteq Definition
  BY DEF TypeOK, Definition
<1>3. n \in Nat
  BY BoundAssumption
<1>4. defs \in [1 .. n -> Definition]
  BY <1>1, <1>2
<1> QED BY <1>3, <1>4

\* A request begins a call that makes something (Prepare, RegisterCatalog, Analyze).
LEMMA BeginsMaking ==
    ASSUME NEW t \in Thread, TypeOK, CallsInOrder, NEW c \in Call, Begins(t, c),
           c.pc = "make", c.owned = {}, c.left = {}, c.failed = FALSE,
           c.catalog = NoCatalog => c.tag # "none",
           UNCHANGED <<saved, next, issued, asked>>
    PROVE  \E d \in Call : Quiet(t, d)
<1>1. Changes(t, c)
  BY Change1 DEF Begins, TypeOK
<1>2. InOrder(c, asked')
  BY DEF InOrder
<1>3. call[t].owned = {} /\ call[t].pc = "idle"
  BY DEF CallsInOrder, InOrder, Begins
<1>4. Quiet(t, c)
  BY <1>1, <1>2, <1>3 DEF Quiet
<1> QED BY <1>4

\* A request to use or to release a handle begins a call (Evaluate, Unprepare).
LEMMA BeginsWithTarget ==
    ASSUME NEW t \in Thread, TypeOK, CallsInOrder, NEW pc \in {"find", "lookup"},
           NEW h \in DOMAIN issued, ~IsPool(h),
           Begins(t, [Idle EXCEPT !.pc = pc, !.target = h]),
           asked' = IF pc = "lookup" THEN asked \cup {h} ELSE asked,
           UNCHANGED <<saved, next, issued>>
    PROVE  \E c \in Call : Quiet(t, c)
<1> DEFINE c == [Idle EXCEPT !.pc = pc, !.target = h]
<1>1. h \in Handle
  BY DEF TypeOK, Handle
<1>2. c \in Call
  BY <1>1, IdleIsCall DEF Call
<1>3. c.pc = pc /\ c.target = h /\ c.owned = {} /\ c.left = {} /\ c.failed = FALSE
  BY IdleIsCall DEF Idle
<1>4. Changes(t, c)
  BY <1>2, Change1 DEF Begins, TypeOK
<1>5. InOrder(c, asked')
  BY <1>3 DEF InOrder
<1>6. call[t].owned = {} /\ call[t].pc = "idle"
  BY DEF CallsInOrder, InOrder, Begins
<1>7. Quiet(t, c)
  BY <1>1, <1>3, <1>4, <1>5, <1>6 DEF Quiet
<1> QED BY <1>2, <1>7

\* Requests change nothing that is shared.
LEMMA RequestIsQuiet ==
    ASSUME NEW t \in Thread, TypeOK, CallsInOrder, Request(t)
    PROVE  \E c \in Call : Quiet(t, c)
<1>1. CASE Prepare(t)
  <2>1. PICK kind \in Kind, defs \in DefLists, catalog \in Catalogs \cup {New, NoCatalog} :
           Begins(t, [Idle EXCEPT !.pc = "make", !.tag = kind, !.defs = defs, !.catalog = catalog])
    BY <1>1 DEF Prepare
  <2> DEFINE c == [Idle EXCEPT !.pc = "make", !.tag = kind, !.defs = defs, !.catalog = catalog]
  <2>2. kind \in Tag \ {"pool"} /\ kind # "none"
    BY KindAssumption DEF Tag
  <2>3. defs \in Seq(Definition)
    BY DefListsAreSeqs
  <2>4. catalog \in {New, NoCatalog} \cup {id \in Id : IsCatalog(id)}
    BY DEF Catalogs, TypeOK
  <2>5. c \in Call
    BY <2>2, <2>3, <2>4 DEF Call, Idle
  <2>6. c.pc = "make" /\ c.owned = {} /\ c.left = {} /\ c.failed = FALSE /\ c.tag = kind
    BY DEF Idle
  <2>7. UNCHANGED <<saved, next, issued, asked>>
    BY <1>1 DEF Prepare
  <2>8. Begins(t, c)
    BY <2>1
  <2> HIDE DEF c
  <2> QED BY <2>2, <2>5, <2>6, <2>7, <2>8, BeginsMaking
<1>2. CASE RegisterCatalog(t)
  <2>1. PICK defs \in DefLists :
           Begins(t, [Idle EXCEPT !.pc = "make", !.tag = "catalog", !.defs = defs])
    BY <1>2 DEF RegisterCatalog
  <2> DEFINE c == [Idle EXCEPT !.pc = "make", !.tag = "catalog", !.defs = defs]
  <2>2. defs \in Seq(Definition)
    BY DefListsAreSeqs
  <2>3. c \in Call
    BY <2>2, Tags DEF Call, Idle
  <2>4. c.pc = "make" /\ c.owned = {} /\ c.left = {} /\ c.failed = FALSE /\ c.tag = "catalog"
    BY DEF Idle
  <2>5. UNCHANGED <<saved, next, issued, asked>>
    BY <1>2 DEF RegisterCatalog
  <2>6. Begins(t, c)
    BY <2>1
  <2> HIDE DEF c
  <2> QED BY <2>3, <2>4, <2>5, <2>6, BeginsMaking
<1>3. CASE Analyze(t)
  <2>1. PICK defs \in DefLists, catalog \in Catalogs \cup {New} :
           Begins(t, [Idle EXCEPT !.pc = "make", !.defs = defs, !.catalog = catalog])
    BY <1>3 DEF Analyze
  <2> DEFINE c == [Idle EXCEPT !.pc = "make", !.defs = defs, !.catalog = catalog]
  <2>2. defs \in Seq(Definition)
    BY DefListsAreSeqs
  <2>3. catalog \in {New} \cup {id \in Id : IsCatalog(id)} /\ catalog # NoCatalog
    BY Tags DEF Catalogs, TypeOK
  <2>4. c \in Call
    BY <2>2, <2>3 DEF Call, Idle
  <2>5. c.pc = "make" /\ c.owned = {} /\ c.left = {} /\ c.failed = FALSE /\ c.catalog = catalog
    BY DEF Idle
  <2>6. UNCHANGED <<saved, next, issued, asked>>
    BY <1>3 DEF Analyze
  <2>7. Begins(t, c)
    BY <2>1
  <2> HIDE DEF c
  <2> QED BY <2>3, <2>4, <2>5, <2>6, <2>7, BeginsMaking
<1>4. CASE Evaluate(t)
  <2>1. PICK h \in DOMAIN issued : h[1] \in Kind /\ Begins(t, [Idle EXCEPT !.pc = "find", !.target = h])
    BY <1>4 DEF Evaluate
  <2>2. ~IsPool(h)
    BY <2>1, KindAssumption DEF IsPool
  <2>3. UNCHANGED <<saved, next, issued, asked>>
    BY <1>4 DEF Evaluate
  <2> QED BY <2>1, <2>2, <2>3, BeginsWithTarget
<1>5. CASE Unprepare(t)
  <2>1. PICK h \in DOMAIN issued :
           ~IsPool(h) /\ Begins(t, [Idle EXCEPT !.pc = "lookup", !.target = h]) /\ asked' = asked \cup {h}
    BY <1>5 DEF Unprepare
  <2>2. UNCHANGED <<saved, next, issued>>
    BY <1>5 DEF Unprepare
  <2> QED BY <2>1, <2>2, BeginsWithTarget
<1> QED BY <1>1, <1>2, <1>3, <1>4, <1>5 DEF Request

\* Returning is quiet for a call that holds nothing (Returns).
LEMMA ReturnIsQuiet ==
    ASSUME NEW t \in Thread, TypeOK, Returns(t), call[t].owned = {}, call[t].pc # "delete",
           call[t].pc = "lookup" => call[t].target \notin DOMAIN saved,
           UNCHANGED <<saved, next, issued, asked>>
    PROVE  Quiet(t, Idle)
<1>1. Changes(t, Idle)
  BY Change1, IdleIsCall DEF Returns, TypeOK
<1>2. InOrder(Idle, asked')
  BY IdleIsCall DEF InOrder
<1> QED BY <1>1, <1>2, IdleIsCall DEF Quiet

\* So is an error, which keeps what was registered for the cleanups (Fails).
LEMMA FailureIsQuiet ==
    ASSUME NEW t \in Thread, TypeOK, CallsInOrder, Making(t), Fails(t),
           UNCHANGED <<saved, next, issued, asked>>
    PROVE  \E c \in Call : Quiet(t, c)
<1>1. CASE call[t].owned = {}
  BY <1>1, ReturnIsQuiet, IdleIsCall DEF Fails, Making
<1>2. CASE call[t].owned # {}
  <2> DEFINE c == [Idle EXCEPT !.pc = "cleanup", !.owned = call[t].owned]
  <2>1. call[t].owned \in SUBSET Id
    BY DEF TypeOK, Call
  <2>2. <<>> \in Seq(Definition)
    OBVIOUS
  <2>3. c \in Call
    BY <2>1, <2>2 DEF Call, Idle
  <2>4. c.pc = "cleanup" /\ c.owned = call[t].owned /\ c.left = {} /\ c.failed = FALSE
    BY DEF Idle
  <2>5. call' = [call EXCEPT ![t] = c]
    BY <1>2 DEF Fails
  <2> HIDE DEF c
  <2>6. Changes(t, c)
    BY <2>3, <2>5, Change1 DEF TypeOK
  <2>7. InOrder(c, asked')
    BY <2>4 DEF InOrder
  <2>8. Quiet(t, c)
    BY <2>4, <2>6, <2>7 DEF Quiet, Making
  <2> QED BY <2>3, <2>8
<1> QED BY <1>1, <1>2

\* Looking up one descriptor pool changes nothing that is shared.
LEMMA GetDescriptorPoolIsQuiet ==
    ASSUME NEW t \in Thread, TypeOK, CallsInOrder, GetDescriptorPool(t)
    PROVE  \E c \in Call : Quiet(t, c)
<1>1. call[t] \in Call /\ call[t].pc = "make" /\ call[t].defs # <<>> /\ call[t].owned = {}
  BY DEF TypeOK, CallsInOrder, InOrder, GetDescriptorPool, Making
<1>2. UNCHANGED <<saved, next, issued, asked>>
  BY DEF GetDescriptorPool
<1> DEFINE d == Head(call[t].defs)
           c == [call[t] EXCEPT !.defs = Tail(@), !.fresh = IF d = New THEN @ + 1 ELSE @]
<1>3. CASE call' = [call EXCEPT ![t].defs = Tail(@), ![t].fresh = IF d = New THEN @ + 1 ELSE @]
  <2>1. call[t].defs \in Seq(Definition) /\ call[t].fresh \in Nat
    BY <1>1 DEF Call
  <2>2. Tail(call[t].defs) \in Seq(Definition)
    BY <1>1, <2>1
  <2>3. (IF d = New THEN call[t].fresh + 1 ELSE call[t].fresh) \in Nat
    BY <2>1
  <2>4. c \in Call
    BY <1>1, <2>2, <2>3 DEF Call
  <2>5. call' = [call EXCEPT ![t] = c]
    BY <1>3, <1>1 DEF Call, TypeOK
  <2>6. /\ c.pc = "make" /\ c.owned = {} /\ c.left = call[t].left /\ c.failed = call[t].failed
        /\ c.tag = call[t].tag /\ c.catalog = call[t].catalog
    BY <1>1 DEF Call
  <2> HIDE DEF c
  <2>7. Changes(t, c)
    BY <2>4, <2>5, Change1 DEF TypeOK
  <2>8. InOrder(c, asked')
    BY <1>1, <1>2, <2>6 DEF InOrder, CallsInOrder
  <2>9. Quiet(t, c)
    BY <1>1, <1>2, <2>6, <2>7, <2>8 DEF Quiet
  <2> QED BY <2>4, <2>9
<1>4. CASE Returns(t)
  BY <1>1, <1>2, <1>4, ReturnIsQuiet, IdleIsCall
<1> QED BY <1>3, <1>4 DEF GetDescriptorPool

\* A registered state gets the next id (Register).
LEMMA RegisterAdds ==
    ASSUME TypeOK, NEW tag \in Tag, NEW owns \in SUBSET Id, Register(tag, owns)
    PROVE  Adds(tag, NextId(tag), owns) /\ NextId(tag) \in Id
<1>1. NextId(tag) \in Id
  BY DEF NextId, Id, TypeOK
<1> QED BY <1>1 DEF Register, Adds, Put, TypeOK

\* Delete removes at most its id (Delete).
LEMMA DeleteRemoves ==
    ASSUME TypeOK, NEW id, Delete(id), next' = next
    PROVE  Removes(id)
BY DEF Delete, Removes, TypeOK

\* Registering a descriptor pool (RegisterNewDescriptorPools).
LEMMA RegisterNewDescriptorPoolGrows ==
    ASSUME NEW t \in Thread, TypeOK, CallsInOrder, RegisterNewDescriptorPool(t)
    PROVE  \E c \in Call, id \in Id : Grows(t, c, "pool", id)
<1> DEFINE id == NextId("pool")
           c == [call[t] EXCEPT !.fresh = @ - 1, !.owned = @ \cup {id}]
<1>1. /\ call[t] \in Call /\ call[t].pc = "make" /\ call[t].defs = <<>>
      /\ call[t].tag # "none" /\ call[t].fresh > 0
  BY DEF TypeOK, RegisterNewDescriptorPool, Making
<1>2. Adds("pool", id, {}) /\ id \in Id
  BY RegisterAdds, Tags DEF RegisterNewDescriptorPool
<1>3. issued' = issued /\ asked' = asked
  BY DEF RegisterNewDescriptorPool
<1>4. call' = [call EXCEPT ![t] = c]
  BY <1>1 DEF RegisterNewDescriptorPool, Call, TypeOK
<1> HIDE DEF id
<1>5. call[t].fresh - 1 \in Nat /\ call[t].owned \cup {id} \in SUBSET Id
  BY <1>1, <1>2 DEF Call
<1>6. c \in Call
  BY <1>1, <1>5 DEF Call
<1>7. /\ c.pc = "make" /\ c.owned = call[t].owned \cup {id} /\ c.left = call[t].left
      /\ c.failed = call[t].failed /\ c.tag = call[t].tag /\ c.catalog = call[t].catalog
      /\ c.defs = call[t].defs
  BY <1>1 DEF Call
<1> HIDE DEF c
<1>8. Changes(t, c)
  BY <1>4, <1>6, Change1 DEF TypeOK
<1>9. InOrder(c, asked')
  BY <1>1, <1>3, <1>7 DEF InOrder, CallsInOrder
<1>10. Grows(t, c, "pool", id)
  BY <1>1, <1>2, <1>3, <1>7, <1>8, <1>9 DEF Grows
<1> QED BY <1>2, <1>6, <1>10

\* Finding the catalog, or registering the one that the call owns, or an error.
LEMMA GetCatalogStateChanges ==
    ASSUME NEW t \in Thread, TypeOK, CallsInOrder, GetCatalogState(t)
    PROVE  \/ \E c \in Call : Quiet(t, c)
           \/ \E c \in Call, id \in Id : Grows(t, c, "catalog", id)
<1>1. /\ call[t] \in Call /\ call[t].pc = "make" /\ call[t].defs = <<>>
      /\ issued' = issued /\ asked' = asked
  BY DEF TypeOK, GetCatalogState, PoolsReady, Making
<1>2. CASE /\ call[t].tag # "none" /\ Register("catalog", {})
           /\ call' = [call EXCEPT ![t].catalog = NoCatalog,
                                   ![t].owned = @ \cup {NextId("catalog")}]
  <2> DEFINE id == NextId("catalog")
             c == [call[t] EXCEPT !.catalog = NoCatalog, !.owned = @ \cup {id}]
  <2>1. Adds("catalog", id, {}) /\ id \in Id
    BY <1>2, RegisterAdds, Tags
  <2>2. call' = [call EXCEPT ![t] = c]
    BY <1>1, <1>2 DEF Call, TypeOK
  <2> HIDE DEF id
  <2>3. call[t].owned \cup {id} \in SUBSET Id
    BY <1>1, <2>1 DEF Call
  <2>4. c \in Call
    BY <1>1, <2>3 DEF Call
  <2>5. /\ c.pc = "make" /\ c.owned = call[t].owned \cup {id} /\ c.left = call[t].left
        /\ c.failed = call[t].failed /\ c.tag = call[t].tag /\ c.defs = <<>>
    BY <1>1 DEF Call
  <2> HIDE DEF c
  <2>6. Changes(t, c)
    BY <2>2, <2>4, Change1 DEF TypeOK
  <2>7. InOrder(c, asked')
    BY <1>1, <1>2, <2>5 DEF InOrder, CallsInOrder
  <2>8. Grows(t, c, "catalog", id)
    BY <1>1, <2>1, <2>5, <2>6, <2>7 DEF Grows
  <2> QED BY <2>1, <2>4, <2>8
<1>3. CASE /\ call[t].tag # "none" /\ call' = [call EXCEPT ![t].catalog = NoCatalog]
           /\ UNCHANGED <<saved, next>>
  <2> DEFINE c == [call[t] EXCEPT !.catalog = NoCatalog]
  <2>1. c \in Call
    BY <1>1 DEF Call
  <2>2. call' = [call EXCEPT ![t] = c]
    BY <1>1, <1>3 DEF Call, TypeOK
  <2>3. /\ c.pc = "make" /\ c.owned = call[t].owned /\ c.left = call[t].left
        /\ c.failed = call[t].failed /\ c.tag = call[t].tag /\ c.defs = <<>>
    BY <1>1 DEF Call
  <2> HIDE DEF c
  <2>4. Changes(t, c)
    BY <2>1, <2>2, Change1 DEF TypeOK
  <2>5. InOrder(c, asked')
    BY <1>1, <1>3, <2>3 DEF InOrder, CallsInOrder
  <2>6. Quiet(t, c)
    BY <1>1, <1>3, <2>3, <2>4, <2>5 DEF Quiet
  <2> QED BY <2>1, <2>6
<1>4. CASE call[t].tag = "none" /\ Returns(t) /\ UNCHANGED <<saved, next>>
  <2>1. call[t].owned = {}
    BY <1>1, <1>4 DEF CallsInOrder, InOrder
  <2> QED BY <1>1, <1>4, <2>1, ReturnIsQuiet, IdleIsCall
<1>5. CASE Fails(t) /\ UNCHANGED <<saved, next>>
  BY <1>1, <1>5, FailureIsQuiet DEF Making
<1> QED BY <1>2, <1>3, <1>4, <1>5 DEF GetCatalogState

\* Registering the new state and answering, or an error (RegisterPrepared).
LEMMA PublishChanges ==
    ASSUME NEW t \in Thread, TypeOK, CallsInOrder, Publish(t)
    PROVE  \/ \E c \in Call : Quiet(t, c)
           \/ \E tag \in Tag, h \in Id : Publishes(t, tag, h)
<1>1. /\ call[t] \in Call /\ call[t].pc = "make" /\ call[t].catalog = NoCatalog
      /\ asked' = asked
  BY DEF TypeOK, Publish, PoolsReady, Making
<1>2. CASE /\ Register(call[t].tag, call[t].owned) /\ Returns(t)
           /\ Issue(t, NextId(call[t].tag))
  <2> DEFINE tag == call[t].tag
             h == NextId(tag)
  <2>1. tag \in Tag \ {"pool"} /\ call[t].owned \in SUBSET Id
    BY <1>1 DEF CallsInOrder, InOrder, Call
  <2>2. Adds(tag, h, call[t].owned) /\ h \in Id
    BY <1>2, <2>1, RegisterAdds
  <2>3. Issue(t, h)
    BY <1>2
  <2> HIDE DEF h
  <2>4. Changes(t, Idle)
    BY <1>2, Change1, IdleIsCall DEF Returns, TypeOK
  <2>5. /\ DOMAIN issued' = DOMAIN issued \cup {h} \cup {id \in call[t].owned : IsPool(id)}
        /\ \A x \in DOMAIN issued' : issued'[x] = IF x \in DOMAIN issued THEN issued[x] ELSE h
    BY <2>3 DEF Issue
  <2>6. issued' \in [DOMAIN issued' -> Id]
    BY <2>2, <2>3, <2>5 DEF Issue, TypeOK
  <2>7. Publishes(t, tag, h)
    BY <1>1, <2>1, <2>2, <2>4, <2>5, <2>6 DEF Publishes
  <2> QED BY <2>1, <2>2, <2>7
<1>3. CASE Fails(t) /\ UNCHANGED <<saved, next, issued>>
  BY <1>1, <1>3, FailureIsQuiet DEF Making
<1> QED BY <1>2, <1>3 DEF Publish

\* One step of the cleanups takes back one id (CleanupCatalog, CleanupDescriptorPools).
LEMMA CleanupTakesBack ==
    ASSUME NEW t \in Thread, TypeOK, CallsInOrder, Cleanup(t)
    PROVE  \E c \in Call, id \in Id : TakesBack(t, c, id)
<1>1. call[t] \in Call /\ call[t].pc = "cleanup" /\ next' = next /\ issued' = issued /\ asked' = asked
  BY DEF TypeOK, Cleanup
<1>2. PICK id \in call[t].owned :
         /\ Delete(id)
         /\ IF call[t].owned = {id} THEN Returns(t) ELSE call' = [call EXCEPT ![t].owned = @ \ {id}]
  BY DEF Cleanup
<1>3. id \in Id /\ call[t].owned \ {id} \in SUBSET Id
  BY <1>1 DEF Call
<1>4. Removes(id)
  BY <1>1, <1>2, DeleteRemoves
<1>5. CASE call[t].owned = {id}
  <2>1. Changes(t, Idle)
    BY <1>2, <1>5, Change1, IdleIsCall DEF Returns, TypeOK
  <2>2. InOrder(Idle, asked')
    BY IdleIsCall DEF InOrder
  <2>3. TakesBack(t, Idle, id)
    BY <1>1, <1>4, <1>5, <2>1, <2>2, IdleIsCall DEF TakesBack
  <2> QED BY <1>3, <2>3, IdleIsCall
<1>6. CASE call[t].owned # {id}
  <2> DEFINE c == [call[t] EXCEPT !.owned = @ \ {id}]
  <2>1. c \in Call
    BY <1>1, <1>3 DEF Call
  <2>2. call' = [call EXCEPT ![t] = c]
    BY <1>1, <1>2, <1>6 DEF Call, TypeOK
  <2>3. /\ c.pc = "cleanup" /\ c.owned = call[t].owned \ {id} /\ c.left = call[t].left
        /\ c.failed = call[t].failed
    BY <1>1 DEF Call
  <2> HIDE DEF c
  <2>4. Changes(t, c)
    BY <2>1, <2>2, Change1 DEF TypeOK
  <2>5. InOrder(c, asked')
    BY <1>1, <2>3 DEF InOrder, CallsInOrder
  <2>6. TakesBack(t, c, id)
    BY <1>1, <1>4, <2>3, <2>4, <2>5 DEF TakesBack
  <2> QED BY <1>3, <2>1, <2>6
<1> QED BY <1>5, <1>6

\* Looking up the handle to release (UnprepareImpl, UnregisterCatalog: Get).
LEMMA LookupChanges ==
    ASSUME NEW t \in Thread, TypeOK, CallsInOrder, Lookup(t)
    PROVE  \E c \in Call : Quiet(t, c) \/ Finds(t, c)
<1>1. /\ call[t] \in Call /\ call[t].pc = "lookup" /\ call[t].owned = {} /\ ~call[t].failed
      /\ call[t].target \in asked /\ UNCHANGED <<saved, next, issued, asked>>
  BY DEF TypeOK, Lookup, CallsInOrder, InOrder
<1>2. CASE call[t].target \in DOMAIN saved
  <2> DEFINE c == [call[t] EXCEPT !.pc = "delete", !.left = saved[call[t].target]]
  <2>1. saved[call[t].target] \in SUBSET Id
    BY <1>2 DEF TypeOK
  <2>2. c \in Call
    BY <1>1, <2>1 DEF Call
  <2>3. call' = [call EXCEPT ![t] = c]
    BY <1>1, <1>2 DEF Lookup, Call, TypeOK
  <2>4. /\ c.pc = "delete" /\ c.owned = {} /\ c.left = saved[call[t].target]
        /\ ~c.failed /\ c.target = call[t].target
    BY <1>1 DEF Call
  <2> HIDE DEF c
  <2>5. Changes(t, c)
    BY <2>2, <2>3, Change1 DEF TypeOK
  <2>6. InOrder(c, asked')
    BY <1>1, <2>4 DEF InOrder
  <2>7. Finds(t, c)
    BY <1>1, <1>2, <2>4, <2>5, <2>6 DEF Finds
  <2> QED BY <2>2, <2>7
<1>3. CASE call[t].target \notin DOMAIN saved
  <2>1. Returns(t)
    BY <1>3 DEF Lookup
  <2> QED BY <1>1, <1>3, <2>1, ReturnIsQuiet, IdleIsCall
<1> QED BY <1>2, <1>3

\* Deleting something the target owns (UnprepareImpl, UnregisterCatalog: the loop).
LEMMA DeleteOwnedDeletes ==
    ASSUME NEW t \in Thread, TypeOK, CallsInOrder, DeleteOwned(t)
    PROVE  \E c \in Call, id \in Id : DeletesOwned(t, c, id)
<1>1. /\ call[t] \in Call /\ call[t].pc = "delete" /\ call[t].owned = {}
      /\ call[t].target \in asked
      /\ next' = next /\ issued' = issued /\ asked' = asked
  BY DEF TypeOK, DeleteOwned, CallsInOrder, InOrder
<1>2. PICK id \in call[t].left :
         /\ Delete(id)
         /\ call' = [call EXCEPT ![t].left = @ \ {id}, ![t].failed = @ \/ id \notin DOMAIN saved]
  BY DEF DeleteOwned
<1> DEFINE failed == call[t].failed \/ id \notin DOMAIN saved
           c == [call[t] EXCEPT !.left = @ \ {id}, !.failed = failed]
<1>3. id \in Id /\ call[t].left \ {id} \in SUBSET Id
  BY <1>1 DEF Call
<1>4. call[t].failed \in BOOLEAN
  BY <1>1 DEF Call
<1>5. failed \in BOOLEAN
  BY <1>4
<1>6. call' = [call EXCEPT ![t] = c]
  BY <1>1, <1>2 DEF Call, TypeOK
<1> HIDE DEF failed
<1>7. c \in Call
  BY <1>1, <1>3, <1>5 DEF Call
<1>8. /\ c.pc = "delete" /\ c.owned = {} /\ c.left = call[t].left \ {id}
      /\ c.failed = failed /\ c.target = call[t].target
  BY <1>1 DEF Call
<1> HIDE DEF c
<1>9. Changes(t, c)
  BY <1>6, <1>7, Change1 DEF TypeOK
<1>10. InOrder(c, asked')
  BY <1>1, <1>8 DEF InOrder
<1>11. Removes(id)
  BY <1>1, <1>2, DeleteRemoves
<1>12. c.failed <=> call[t].failed \/ id \notin DOMAIN saved
  BY <1>8 DEF failed
<1>13. DeletesOwned(t, c, id)
  BY <1>1, <1>8, <1>9, <1>10, <1>11, <1>12 DEF DeletesOwned
<1> QED BY <1>3, <1>7, <1>13

\* Deleting the target (UnprepareImpl, UnregisterCatalog: the last Delete).
LEMMA DeleteTargetDeletes ==
    ASSUME NEW t \in Thread, TypeOK, DeleteTarget(t)
    PROVE  DeletesTarget(t)
<1>1. Changes(t, Idle)
  BY Change1, IdleIsCall DEF DeleteTarget, Returns, TypeOK
<1>2. Removes(call[t].target)
  BY DeleteRemoves DEF DeleteTarget
<1> QED BY <1>1, <1>2 DEF DeletesTarget, DeleteTarget

\* Using a prepared statement changes nothing that is shared (Evaluate).
LEMMA EvaluationIsQuiet ==
    ASSUME NEW t \in Thread, TypeOK, CallsInOrder, Find(t) \/ EvaluatePrepared(t)
    PROVE  \E c \in Call : Quiet(t, c)
<1>1. /\ call[t] \in Call /\ call[t].pc \in {"find", "use"}
      /\ call[t].owned = {} /\ call[t].left = {} /\ ~call[t].failed
      /\ UNCHANGED <<saved, next, issued, asked>>
  BY DEF TypeOK, Find, EvaluatePrepared, CallsInOrder, InOrder
<1>2. CASE call' = [call EXCEPT ![t].pc = "use"]
  <2> DEFINE c == [call[t] EXCEPT !.pc = "use"]
  <2>1. c \in Call
    BY <1>1 DEF Call
  <2>2. call' = [call EXCEPT ![t] = c]
    BY <1>1, <1>2 DEF Call, TypeOK
  <2>3. c.pc = "use" /\ c.owned = {} /\ c.left = {} /\ ~c.failed
    BY <1>1 DEF Call
  <2> HIDE DEF c
  <2>4. Changes(t, c)
    BY <2>1, <2>2, Change1 DEF TypeOK
  <2>5. InOrder(c, asked')
    BY <2>3 DEF InOrder
  <2>6. Quiet(t, c)
    BY <1>1, <2>3, <2>4, <2>5 DEF Quiet
  <2> QED BY <2>1, <2>6
<1>3. CASE Returns(t)
  BY <1>1, <1>3, ReturnIsQuiet, IdleIsCall
<1> QED BY <1>2, <1>3 DEF Find, EvaluatePrepared

\* Whatever a thread does is one of the changes (Next).
LEMMA NextIsChange == TypeOK /\ CallsInOrder /\ Next => Change
<1> SUFFICES ASSUME TypeOK, CallsInOrder, NEW t \in Thread, Request(t) \/ Step(t)
             PROVE  Change
  BY DEF Next
<1>1. "pool" \in Tag /\ "catalog" \in Tag
  BY Tags
<1>2. CASE Request(t)
  BY <1>2, RequestIsQuiet DEF Change
<1>3. CASE GetDescriptorPool(t)
  BY <1>3, GetDescriptorPoolIsQuiet DEF Change
<1>4. CASE RegisterNewDescriptorPool(t)
  BY <1>1, <1>4, RegisterNewDescriptorPoolGrows DEF Change
<1>5. CASE GetCatalogState(t)
  BY <1>1, <1>5, GetCatalogStateChanges DEF Change
<1>6. CASE Publish(t)
  BY <1>6, PublishChanges DEF Change
<1>7. CASE Cleanup(t)
  BY <1>7, CleanupTakesBack DEF Change
<1>8. CASE Lookup(t)
  BY <1>8, LookupChanges DEF Change
<1>9. CASE DeleteOwned(t)
  BY <1>9, DeleteOwnedDeletes DEF Change
<1>10. CASE DeleteTarget(t)
  BY <1>10, DeleteTargetDeletes DEF Change
<1>11. CASE Find(t) \/ EvaluatePrepared(t)
  BY <1>11, EvaluationIsQuiet DEF Change
<1> QED BY <1>2, <1>3, <1>4, <1>5, <1>6, <1>7, <1>8, <1>9, <1>10, <1>11 DEF Step

-----------------------------------------------------------------------------
(* New ids. *)

\* The next id of a pool is none of those that anything refers to (NextId).
LEMMA NextIdIsNew ==
    ASSUME TypeOK, Numbered, Held, States, Issues, NEW tag \in Tag
    PROVE  /\ NextId(tag) \notin DOMAIN saved /\ NextId(tag) \notin DOMAIN issued
           /\ \A x \in DOMAIN saved : NextId(tag) \notin saved[x]
           /\ \A t \in Thread : NextId(tag) \notin call[t].owned \cup call[t].left
           /\ NextId(tag) \in Id /\ NextId(tag) # Builtin
<1>1. next[tag] \in Nat /\ NextId(tag) \in Id /\ ~Counted(NextId(tag))
  BY DEF TypeOK, NextId, Counted, Id
<1> QED BY <1>1 DEF Numbered, Issues

\* A number that was given out stays given out (next_id_ only grows).
LEMMA CountedStays ==
    ASSUME TypeOK, NEW tag \in Tag, next' = [next EXCEPT ![tag] = @ + 1], NEW id, Counted(id)
    PROVE  Counted(id)'
BY DEF Counted, TypeOK, Id

-----------------------------------------------------------------------------
(* The invariant is preserved. *)

\* By a step that changes nothing that is shared.
LEMMA QuietKeeps ==
    ASSUME IInv, NEW t \in Thread, NEW c \in Call, Quiet(t, c)
    PROVE  IInv'
<1> USE DEF Quiet, Changes
<1>0. /\ \A u \in Thread : call'[u].owned = call[u].owned /\ call'[u].left = call[u].left
      /\ \A u \in Thread : call'[u].pc = "delete" <=> call[u].pc = "delete"
      /\ \A u \in Thread : call[u].pc = "delete" => u # t
      /\ saved' = saved /\ next' = next /\ issued' = issued /\ asked \subseteq asked'
  <2>1. call[t].left = {} /\ c.left = {}
    BY DEF IInv, CallsInOrder, InOrder
  <2> QED BY <2>1
<1>1. TypeOK'
  BY DEF IInv, TypeOK
<1>2. Numbered'
  BY <1>0 DEF IInv, Numbered, Counted
<1>3. CallsInOrder'
  BY DEF IInv, CallsInOrder, InOrder
<1>4. Held'
  BY <1>0 DEF IInv, Held
<1>5. States'
  BY <1>0 DEF IInv, States, Deleting
<1>6. Accounted'
  BY <1>0 DEF IInv, Accounted
<1>7. Deletions'
  BY <1>0 DEF IInv, Deletions
<1>8. Issues'
  BY <1>0 DEF IInv, Issues
<1>9. BeingReleased'
  BY DEF IInv, BeingReleased, Releasing
<1>10. ErrorsMeanContention'
  BY <1>0 DEF IInv, ErrorsMeanContention, CallsInOrder, InOrder
<1> QED BY <1>1, <1>2, <1>3, <1>4, <1>5, <1>6, <1>7, <1>8, <1>9, <1>10 DEF IInv

\* By finding the handle to release.
LEMMA FindsKeeps ==
    ASSUME IInv, NEW t \in Thread, NEW c \in Call, Finds(t, c)
    PROVE  IInv'
<1> USE DEF Finds, Changes
<1>0. /\ \A u \in Thread : call'[u].owned = call[u].owned
      /\ \A u \in Thread : call[u].pc = "delete" => u # t
      /\ saved' = saved /\ next' = next /\ issued' = issued /\ asked' = asked
  <2>1. call[t].owned = {}
    BY DEF IInv, CallsInOrder, InOrder
  <2> QED BY <2>1
<1>1. TypeOK'
  BY DEF IInv, TypeOK
<1>2. Numbered'
  BY <1>0 DEF IInv, Numbered, Counted
<1>3. CallsInOrder'
  BY DEF IInv, CallsInOrder, InOrder
<1>4. Held'
  BY <1>0 DEF IInv, Held
<1>5. States'
  BY <1>0 DEF IInv, States, Deleting
<1>6. Accounted'
  BY <1>0 DEF IInv, Accounted
<1>7. Deletions'
  BY <1>0 DEF IInv, Deletions
<1>8. Issues'
  BY <1>0 DEF IInv, Issues
<1>9. BeingReleased'
  BY DEF IInv, BeingReleased, Releasing
<1>10. ErrorsMeanContention'
  BY <1>0 DEF IInv, ErrorsMeanContention
<1> QED BY <1>1, <1>2, <1>3, <1>4, <1>5, <1>6, <1>7, <1>8, <1>9, <1>10 DEF IInv

\* By registering something that the call owns.
LEMMA GrowsKeeps ==
    ASSUME IInv, NEW t \in Thread, NEW c \in Call, NEW tag \in Tag, NEW id \in Id,
           Grows(t, c, tag, id)
    PROVE  IInv'
<1> USE DEF Grows, Changes, Adds
<1>0. /\ id \notin DOMAIN saved /\ id \notin DOMAIN issued /\ id # Builtin
      /\ \A x \in DOMAIN saved : id \notin saved[x]
      /\ \A u \in Thread : id \notin call[u].owned /\ id \notin call[u].left
  BY NextIdIsNew DEF IInv
<1>a. /\ \A u \in Thread : call'[u].left = call[u].left
      /\ \A u \in Thread : call'[u].pc = call[u].pc
      /\ \A u \in Thread : call[u].pc \in {"delete", "lookup"} => u # t
      /\ \A u \in Thread : call'[u].failed = call[u].failed
  <2>1. call[t].left = {} /\ c.left = {} /\ ~call[t].failed /\ ~c.failed
    BY DEF IInv, CallsInOrder, InOrder
  <2>2. call[t].failed \in BOOLEAN /\ c.failed \in BOOLEAN
    BY DEF IInv, TypeOK, Call
  <2>3. c.failed = call[t].failed
    BY <2>1, <2>2
  <2> QED BY <2>1, <2>3
<1>b. IsPool(id) \/ IsCatalog(id)
  BY DEF NextId, IsPool, IsCatalog
<1>c. /\ DOMAIN saved' = DOMAIN saved \cup {id} /\ saved'[id] = {}
      /\ \A x \in DOMAIN saved : saved'[x] = saved[x]
      /\ issued' = issued /\ asked' = asked
  BY <1>0
<1>1. TypeOK'
  <2>1. DOMAIN saved' \subseteq Id
    BY DEF IInv, TypeOK
  <2>2. next' \in [Tag -> Nat]
    BY DEF IInv, TypeOK
  <2> QED BY <2>1, <2>2 DEF IInv, TypeOK
<1>2. Numbered'
  <2>1. \A x : Counted(x) => Counted(x)'
    BY CountedStays DEF IInv
  <2>2. Counted(id)'
    BY DEF Counted, NextId, IInv, TypeOK, Id
  <2>3. \A u \in Thread : \A x \in call'[u].owned : x = id \/ x \in call[u].owned
    OBVIOUS
  <2> QED BY <1>a, <1>c, <2>1, <2>2, <2>3 DEF IInv, Numbered
<1>3. CallsInOrder'
  BY DEF IInv, CallsInOrder
<1>4. Held'
  BY <1>0, <1>b, <1>c DEF IInv, Held
<1>5. States'
  BY <1>0, <1>a, <1>c DEF IInv, States, Deleting
<1>6. Accounted'
  <2>1. id \in call'[t].owned /\ \A u \in Thread : call[u].owned \subseteq call'[u].owned
    OBVIOUS
  <2> QED BY <1>c, <2>1 DEF IInv, Accounted
<1>7. Deletions'
  <2>1. \A u \in Thread : call[u].pc = "delete" => call'[u] = call[u] /\ call[u].target # id
    BY <1>0, <1>a DEF IInv, CallsInOrder, InOrder, TypeOK
  <2> QED BY <1>0, <1>a, <1>c, <2>1 DEF IInv, Deletions
<1>8. Issues'
  BY <1>0, <1>c DEF IInv, Issues
<1>9. BeingReleased'
  <2>1. id \notin asked
    BY <1>0 DEF IInv, TypeOK
  <2> QED BY <1>a, <1>c, <2>1 DEF IInv, BeingReleased, Releasing
<1>10. ErrorsMeanContention'
  <2>1. \A u \in Thread : call[u].failed => call[u].pc = "delete"
    BY DEF IInv, CallsInOrder, InOrder
  <2>2. \A u \in Thread : call[u].pc = "delete" => call'[u] = call[u] /\ call[u].target # id
    BY <1>0, <1>a DEF IInv, CallsInOrder, InOrder, TypeOK
  <2> QED BY <1>a, <1>c, <2>1, <2>2 DEF IInv, ErrorsMeanContention
<1> QED BY <1>1, <1>2, <1>3, <1>4, <1>5, <1>6, <1>7, <1>8, <1>9, <1>10 DEF IInv

\* By handing over what the call owns to a new handle.
LEMMA PublishesKeeps ==
    ASSUME IInv, NEW t \in Thread, NEW tag \in Tag, NEW h \in Id, Publishes(t, tag, h)
    PROVE  IInv'
<1> USE DEF Publishes, Changes, Adds
<1>0. /\ h \notin DOMAIN saved /\ h \notin DOMAIN issued /\ h # Builtin
      /\ \A x \in DOMAIN saved : h \notin saved[x]
      /\ \A u \in Thread : h \notin call[u].owned /\ h \notin call[u].left
  BY NextIdIsNew DEF IInv
<1>a. /\ call'[t].owned = {} /\ call'[t].left = {} /\ call'[t].pc = "idle" /\ ~call'[t].failed
      /\ call[t].left = {} /\ ~call[t].failed /\ call[t].pc = "make"
  BY IdleIsCall DEF IInv, CallsInOrder, InOrder
<1>b. ~IsPool(h)
  BY DEF NextId, IsPool
<1>c. /\ DOMAIN saved' = DOMAIN saved \cup {h} /\ saved'[h] = call[t].owned
      /\ \A x \in DOMAIN saved : saved'[x] = saved[x]
      /\ asked' = asked
  BY <1>0
<1>d. \A id \in call[t].owned :
        /\ id \in DOMAIN saved /\ id \notin DOMAIN issued /\ saved[id] = {} /\ id # h /\ id # Builtin
        /\ IsPool(id) \/ IsCatalog(id)
        /\ \A g \in DOMAIN saved : id \notin saved[g]
        /\ \A u \in Thread \ {t} : id \notin call[u].owned
  BY <1>0 DEF IInv, Held, Issues
<1>e. /\ \A x \in DOMAIN issued : x \in DOMAIN issued' /\ issued'[x] = issued[x]
      /\ h \in DOMAIN issued' /\ issued'[h] = h
      /\ \A x \in DOMAIN issued' \ DOMAIN issued : x = h \/ (x \in call[t].owned /\ IsPool(x))
      /\ \A x \in DOMAIN issued' \ DOMAIN issued : issued'[x] = h
  BY <1>0
<1>1. TypeOK'
  <2>1. DOMAIN saved' \subseteq Id
    BY DEF IInv, TypeOK
  <2>2. next' \in [Tag -> Nat]
    BY DEF IInv, TypeOK
  <2>3. DOMAIN issued' \subseteq Id
    BY DEF IInv, TypeOK, Call
  <2>4. asked' \subseteq DOMAIN issued' \cap Handle
    BY DEF IInv, TypeOK
  <2> QED BY <2>1, <2>2, <2>3, <2>4 DEF IInv, TypeOK
<1>2. Numbered'
  <2>1. \A x : Counted(x) => Counted(x)'
    BY CountedStays DEF IInv
  <2>2. Counted(h)'
    BY DEF Counted, NextId, IInv, TypeOK, Id
  <2>3. \A x \in call[t].owned : Counted(x)'
    BY <2>1 DEF IInv, Numbered
  <2>4. \A x \in DOMAIN saved' : Counted(x)' /\ \A y \in saved'[x] : Counted(y)'
    BY <1>c, <2>1, <2>2, <2>3 DEF IInv, Numbered
  <2>5. \A x \in DOMAIN issued' : Counted(x)'
    BY <1>e, <2>1, <2>2, <2>3 DEF IInv, Numbered
  <2>6. \A u \in Thread : \A x \in call'[u].owned \cup call'[u].left : Counted(x)'
    BY <1>a, <2>1 DEF IInv, Numbered
  <2> QED BY <2>4, <2>5, <2>6 DEF Numbered
<1>3. CallsInOrder'
  BY IdleIsCall DEF IInv, CallsInOrder, InOrder
<1>4. Held'
  BY <1>0, <1>a, <1>c, <1>d, <1>e DEF IInv, Held
<1>5. States'
  <2> SUFFICES ASSUME NEW g \in DOMAIN saved', NEW id \in saved'[g]
               PROVE  /\ g \in DOMAIN issued' /\ ~IsPool(g)
                      /\ IsPool(id) \/ (IsCatalog(id) /\ id \notin DOMAIN issued')
                      /\ id # Builtin
                      /\ id \in DOMAIN saved' => saved'[id] = {}
                      /\ \A k \in DOMAIN saved' \ {g} : id \notin saved'[k]
                      /\ id \notin DOMAIN saved' =>
                           \E u \in Thread : Deleting(u, g)' /\ id \notin call'[u].left
    BY DEF States
  <2>1. CASE g = h
    BY <1>b, <1>c, <1>d, <1>e, <2>1, Tags DEF IInv, TypeOK
  <2>2. CASE g # h
    <3>1. g \in DOMAIN saved /\ id \in saved[g] /\ id # h /\ id \notin call[t].owned
      BY <1>0, <1>c, <1>d, <2>2
    <3> QED BY <1>a, <1>c, <1>e, <2>2, <3>1 DEF IInv, States, Deleting
  <2> QED BY <2>1, <2>2
<1>6. Accounted'
  <2> SUFFICES ASSUME NEW id \in DOMAIN saved'
               PROVE  \/ id \in DOMAIN issued' /\ ~IsPool(id)
                      \/ id = Builtin
                      \/ \E g \in DOMAIN saved' : id \in saved'[g]
                      \/ \E u \in Thread : id \in call'[u].owned
    BY <1>c DEF IInv, Accounted
  <2>1. CASE id = h
    BY <1>b, <1>e, <2>1
  <2>2. CASE id \in call[t].owned
    BY <1>c, <2>2
  <2>3. CASE id # h /\ id \notin call[t].owned
    BY <1>c, <1>e, <2>3 DEF IInv, Accounted
  <2> QED BY <2>1, <2>2, <2>3
<1>7. Deletions'
  <2>1. \A u \in Thread : call'[u].pc = "delete" => call'[u] = call[u] /\ call[u].target # h /\ u # t
    BY <1>0, <1>a DEF IInv, CallsInOrder, InOrder, TypeOK
  <2> QED BY <1>0, <1>c, <2>1 DEF IInv, Deletions
<1>8. Issues'
  <2>1. Builtin \in DOMAIN issued' /\ issued'[Builtin] = Builtin
    BY <1>e DEF IInv, Issues
  <2> SUFFICES ASSUME NEW id \in DOMAIN issued' \ {Builtin}
               PROVE  /\ issued'[id] \in DOMAIN issued' /\ ~IsPool(issued'[id])
                      /\ ~IsPool(id) => issued'[id] = id
                      /\ IsPool(id) => IF issued'[id] \in DOMAIN saved' THEN id \in saved'[issued'[id]]
                                                                        ELSE id \notin DOMAIN saved'
                      /\ issued'[id] \notin asked' => issued'[id] \in DOMAIN saved'
    BY <2>1 DEF Issues
  <2>2. CASE id \in DOMAIN issued
    <3>1. issued'[id] = issued[id] /\ issued[id] # h /\ id # h
      BY <1>0, <1>e, <2>2 DEF IInv, Issues
    <3> QED BY <1>c, <1>e, <2>2, <3>1 DEF IInv, Issues
  <2>3. CASE id \notin DOMAIN issued
    BY <1>b, <1>c, <1>e, <2>3
  <2> QED BY <2>2, <2>3
<1>9. BeingReleased'
  <2>1. h \notin asked
    BY <1>0 DEF IInv, TypeOK
  <2>2. \A g, u : u \in Thread /\ Releasing(u, g) => Releasing(u, g)'
    BY <1>a DEF Releasing
  <2> QED BY <1>c, <2>1, <2>2 DEF IInv, BeingReleased
<1>10. ErrorsMeanContention'
  <2>1. \A u \in Thread : call'[u].failed => call[u].pc = "delete" /\ call'[u] = call[u] /\ u # t
    BY <1>a DEF IInv, CallsInOrder, InOrder
  <2>2. \A u \in Thread : call[u].pc = "delete" => call'[u] = call[u] /\ call[u].target # h /\ u # t
    BY <1>0, <1>a DEF IInv, CallsInOrder, InOrder, TypeOK
  <2> QED BY <1>c, <2>1, <2>2 DEF IInv, ErrorsMeanContention
<1> QED BY <1>1, <1>2, <1>3, <1>4, <1>5, <1>6, <1>7, <1>8, <1>9, <1>10 DEF IInv

\* By taking back, after an error, something that the call has registered.
LEMMA TakesBackKeeps ==
    ASSUME IInv, NEW t \in Thread, NEW c \in Call, NEW id \in Id, TakesBack(t, c, id)
    PROVE  IInv'
<1> USE DEF TakesBack, Changes, Removes
<1>0. /\ id \in DOMAIN saved /\ id \notin DOMAIN issued /\ saved[id] = {} /\ id # Builtin
      /\ \A x \in DOMAIN saved : id \notin saved[x]
      /\ \A u \in Thread \ {t} : id \notin call[u].owned
  BY DEF IInv, Held, Issues
<1>a. /\ \A u \in Thread : call'[u].left = call[u].left
      /\ \A u \in Thread : call'[u].pc = "delete" <=> call[u].pc = "delete"
      /\ \A u \in Thread : call[u].pc \in {"delete", "lookup"} => u # t
      /\ ~call[t].failed /\ ~c.failed
  BY DEF IInv, CallsInOrder, InOrder
<1>1. TypeOK'
  BY DEF IInv, TypeOK
<1>2. Numbered'
  BY <1>a DEF IInv, Numbered, Counted
<1>3. CallsInOrder'
  BY DEF IInv, CallsInOrder
<1>4. Held'
  BY <1>0 DEF IInv, Held
<1>5. States'
  BY <1>0, <1>a DEF IInv, States, Deleting
<1>6. Accounted'
  BY <1>0 DEF IInv, Accounted
<1>7. Deletions'
  <2>1. \A u \in Thread : call'[u].pc = "delete" => call'[u] = call[u] /\ call[u].target # id
    BY <1>0, <1>a DEF IInv, CallsInOrder, InOrder, TypeOK
  <2> QED BY <2>1 DEF IInv, Deletions
<1>8. Issues'
  BY <1>0 DEF IInv, Issues
<1>9. BeingReleased'
  BY <1>a DEF IInv, BeingReleased, Releasing
<1>10. ErrorsMeanContention'
  <2>1. \A u \in Thread : call'[u].failed => call'[u] = call[u] /\ u # t
    BY <1>a
  <2>2. \A u \in Thread : call[u].pc = "delete" => call'[u] = call[u]
    BY <1>a
  <2> QED BY <2>1, <2>2 DEF IInv, ErrorsMeanContention
<1> QED BY <1>1, <1>2, <1>3, <1>4, <1>5, <1>6, <1>7, <1>8, <1>9, <1>10 DEF IInv

\* By deleting something that the target owns, if it is still registered.
LEMMA DeletesOwnedKeeps ==
    ASSUME IInv, NEW t \in Thread, NEW c \in Call, NEW id \in Id, DeletesOwned(t, c, id)
    PROVE  IInv'
<1> DEFINE h == call[t].target
<1> USE DEF DeletesOwned, Changes, Removes
<1>a. id \in DOMAIN saved =>
        /\ h \in DOMAIN saved /\ id \in saved[h] /\ saved[id] = {} /\ id # Builtin
        /\ IsPool(id) \/ id \notin DOMAIN issued
        /\ \A u \in Thread : id \notin call[u].owned
        /\ \A g \in DOMAIN saved \ {h} : id \notin saved[g]
  <2> SUFFICES ASSUME id \in DOMAIN saved
               PROVE  /\ h \in DOMAIN saved /\ id \in saved[h] /\ saved[id] = {} /\ id # Builtin
                      /\ IsPool(id) \/ id \notin DOMAIN issued
                      /\ \A u \in Thread : id \notin call[u].owned
                      /\ \A g \in DOMAIN saved \ {h} : id \notin saved[g]
    OBVIOUS
  <2>1. h \in DOMAIN saved /\ id \in saved[h]
    BY DEF IInv, Deletions
  <2> QED BY <2>1 DEF IInv, States, Held
<1>b. /\ \A u \in Thread : call'[u].owned = call[u].owned
      /\ \A u \in Thread : call'[u].left \subseteq call[u].left
      /\ \A u \in Thread : call'[u].pc = call[u].pc /\ call'[u].target = call[u].target
  <2>1. call[t].owned = {}
    BY DEF IInv, CallsInOrder, InOrder
  <2> QED BY <2>1
<1>1. TypeOK'
  BY DEF IInv, TypeOK
<1>2. Numbered'
  BY <1>b DEF IInv, Numbered, Counted
<1>3. CallsInOrder'
  BY DEF IInv, CallsInOrder
<1>4. Held'
  BY <1>a, <1>b DEF IInv, Held
<1>5. States'
  <2> SUFFICES ASSUME NEW g \in DOMAIN saved', NEW x \in saved'[g]
               PROVE  /\ g \in DOMAIN issued' /\ ~IsPool(g)
                      /\ IsPool(x) \/ (IsCatalog(x) /\ x \notin DOMAIN issued')
                      /\ x # Builtin
                      /\ x \in DOMAIN saved' => saved'[x] = {}
                      /\ \A k \in DOMAIN saved' \ {g} : x \notin saved'[k]
                      /\ x \notin DOMAIN saved' =>
                           \E u \in Thread : Deleting(u, g)' /\ x \notin call'[u].left
    BY DEF States
  <2>1. g \in DOMAIN saved /\ x \in saved[g]
    OBVIOUS
  <2>2. x \notin DOMAIN saved' => \E u \in Thread : Deleting(u, g)' /\ x \notin call'[u].left
    <3>1. CASE x \in DOMAIN saved /\ x = id
      BY <1>a, <1>b, <2>1, <3>1 DEF Deleting
    <3>2. CASE x \notin DOMAIN saved
      BY <1>b, <2>1, <3>2 DEF IInv, States, Deleting
    <3> QED BY <3>1, <3>2
  <2> QED BY <2>1, <2>2 DEF IInv, States
<1>6. Accounted'
  BY <1>a, <1>b DEF IInv, Accounted
<1>7. Deletions'
  <2> SUFFICES ASSUME NEW u \in Thread, call'[u].pc = "delete"
               PROVE  IF call'[u].target \in DOMAIN saved'
                      THEN /\ call'[u].left \subseteq saved'[call'[u].target]
                           /\ \A x \in saved'[call'[u].target] \ call'[u].left : x \notin DOMAIN saved'
                      ELSE \A x \in call'[u].left : x \notin DOMAIN saved'
    BY DEF Deletions
  <2>2. call'[u].target # id \/ id \notin DOMAIN saved
    BY <1>a, <1>b DEF IInv, CallsInOrder, InOrder, TypeOK, Handle
  <2>3. \A x \in call[u].left : x \in call'[u].left \/ x = id
    OBVIOUS
  <2> QED BY <1>b, <2>2, <2>3 DEF IInv, Deletions
<1>8. Issues'
  <2>1. \A x \in DOMAIN issued \ {Builtin} : issued[x] # id \/ id \notin DOMAIN saved
    BY <1>a DEF IInv, Issues
  <2> QED BY <1>a, <2>1 DEF IInv, Issues
<1>9. BeingReleased'
  BY <1>b DEF IInv, BeingReleased, Releasing
<1>10. ErrorsMeanContention'
  <2> SUFFICES ASSUME NEW u \in Thread, call'[u].failed
               PROVE  \/ call'[u].target \notin DOMAIN saved'
                      \/ \E v \in Thread \ {u} : call'[v].pc = "delete" /\ call'[v].target = call'[u].target
    BY DEF ErrorsMeanContention
  <2>1. CASE call[u].failed
    BY <1>b, <2>1 DEF IInv, ErrorsMeanContention
  <2>2. CASE ~call[u].failed
    <3>1. u = t /\ id \notin DOMAIN saved
      BY <2>2
    <3>2. CASE h \in DOMAIN saved
      <4>1. id \in saved[h]
        BY <3>2 DEF IInv, Deletions
      <4>2. PICK v \in Thread : Deleting(v, h) /\ id \notin call[v].left
        BY <3>1, <3>2, <4>1 DEF IInv, States
      <4> QED BY <1>b, <3>1, <4>2 DEF Deleting
    <3> QED BY <1>b, <3>1, <3>2
  <2> QED BY <2>1, <2>2
<1> QED BY <1>1, <1>2, <1>3, <1>4, <1>5, <1>6, <1>7, <1>8, <1>9, <1>10 DEF IInv

\* By deleting the target, after all that it owned.
LEMMA DeletesTargetKeeps ==
    ASSUME IInv, NEW t \in Thread, DeletesTarget(t)
    PROVE  IInv'
<1> DEFINE h == call[t].target
<1> USE DEF DeletesTarget, Changes, Removes
<1>0. /\ h \in asked /\ h \in DOMAIN issued /\ ~IsPool(h) /\ h # Builtin
      /\ issued[h] = h
  BY Tags DEF IInv, CallsInOrder, InOrder, TypeOK, Handle, Issues
<1>a. /\ \A g \in DOMAIN saved : h \notin saved[g]
      /\ \A u \in Thread : h \notin call[u].owned
  BY <1>0 DEF IInv, States, Held
<1>b. /\ \A u \in Thread : call'[u].owned = call[u].owned
      /\ call'[t].left = {} /\ call'[t].pc = "idle" /\ ~call'[t].failed
  BY IdleIsCall DEF IInv, CallsInOrder, InOrder
<1>c. h \in DOMAIN saved => \A x \in saved[h] : x \notin DOMAIN saved
  BY DEF IInv, Deletions
<1>1. TypeOK'
  BY DEF IInv, TypeOK
<1>2. Numbered'
  BY <1>b DEF IInv, Numbered, Counted
<1>3. CallsInOrder'
  BY IdleIsCall DEF IInv, CallsInOrder, InOrder
<1>4. Held'
  BY <1>a, <1>b DEF IInv, Held
<1>5. States'
  BY <1>a, <1>b DEF IInv, States, Deleting
<1>6. Accounted'
  BY <1>0, <1>b, <1>c DEF IInv, Accounted
<1>7. Deletions'
  BY <1>b, <1>c DEF IInv, Deletions
<1>8. Issues'
  BY <1>0, <1>c DEF IInv, Issues
<1>9. BeingReleased'
  BY <1>b DEF IInv, BeingReleased, Releasing
<1>10. ErrorsMeanContention'
  BY <1>b DEF IInv, ErrorsMeanContention
<1> QED BY <1>1, <1>2, <1>3, <1>4, <1>5, <1>6, <1>7, <1>8, <1>9, <1>10 DEF IInv

\* The invariant holds at the start (the constructor, RegisteredDescriptorPoolPool).
LEMMA InitHolds == Init => IInv
<1> SUFFICES ASSUME Init PROVE IInv
  OBVIOUS
<1>0. /\ DOMAIN saved = {Builtin} /\ saved[Builtin] = {} /\ DOMAIN issued = {Builtin}
      /\ issued[Builtin] = Builtin /\ asked = {} /\ \A t \in Thread : call[t] = Idle
  BY DEF Init
<1>1. TypeOK
  <2>1. call \in [Thread -> Call]
    BY IdleIsCall DEF Init
  <2> QED BY <1>0, <2>1, Tags DEF Init, TypeOK
<1>2. Numbered
  <2>1. Counted(Builtin)
    BY Tags DEF Init, Counted, Builtin
  <2> QED BY <1>0, <2>1, IdleIsCall DEF Numbered
<1>3. CallsInOrder
  BY <1>0, IdleIsCall DEF CallsInOrder, InOrder
<1>4. Held
  BY <1>0, IdleIsCall DEF Held
<1>5. States /\ Accounted
  BY <1>0 DEF States, Accounted
<1>6. Deletions
  BY <1>0, IdleIsCall DEF Deletions
<1>7. Issues /\ BeingReleased
  BY <1>0 DEF Issues, BeingReleased
<1>8. ErrorsMeanContention
  BY <1>0, IdleIsCall DEF ErrorsMeanContention
<1> QED BY <1>1, <1>2, <1>3, <1>4, <1>5, <1>6, <1>7, <1>8 DEF IInv

\* Every step preserves the invariant (Next).
LEMMA StepKeeps == IInv /\ [Next]_vars => IInv'
<1> SUFFICES ASSUME IInv, [Next]_vars PROVE IInv'
  OBVIOUS
<1>1. CASE UNCHANGED vars
  BY <1>1 DEF vars, IInv, TypeOK, Numbered, Counted, CallsInOrder, Held, States, Accounted, Deletions,
              Issues, BeingReleased, ErrorsMeanContention, Deleting, Releasing
<1>2. CASE Next
  <2>1. Change
    BY <1>2, NextIsChange DEF IInv
  <2> QED BY <2>1, QuietKeeps, FindsKeeps, GrowsKeeps, PublishesKeeps, TakesBackKeeps,
             DeletesOwnedKeeps, DeletesTargetKeeps DEF Change
<1> QED BY <1>1, <1>2

\* Every reachable state satisfies the invariant, whatever the threads, the pools
\* of prepared statements and the bounds on the requests.
THEOREM AlwaysIInv == Safety => []IInv
BY InitHolds, StepKeeps, PTL DEF Safety

-----------------------------------------------------------------------------
(* What the invariant says. *)

\* The pools, the calls and what the clients know keep their types: ids are counted from
\* one and owned sets hold ids only, whatever SharedStatePool::Register and Delete do.
THEOREM TypeCorrect == Safety => []TypeOK
<1>1. IInv => TypeOK
  BY DEF IInv
<1> QED BY <1>1, AlwaysIInv, PTL

\* Every registered descriptor pool but the builtin one, and every catalog
\* registered for a prepared statement, has exactly one owner, whichever calls
\* fail and wherever (PrepareImpl, RegisterCatalog, Evaluate and their cleanups).
THEOREM Ownership == Safety => []OwnedByExactlyOne
<1>1. IInv => OwnedByExactlyOne
  <2> SUFFICES ASSUME IInv, NEW id \in DOMAIN saved \ {Builtin},
                      IsPool(id) \/ (IsCatalog(id) /\ id \notin DOMAIN issued)
               PROVE  \E o \in Owners(id) : Owners(id) = {o}
    BY DEF OwnedByExactlyOne
  <2>1. CASE \E h \in DOMAIN saved : id \in saved[h]
    <3>1. PICK h \in DOMAIN saved : id \in saved[h]
      BY <2>1
    <3>2. \A t \in Thread : id \notin call[t].owned
      BY <3>1 DEF IInv, Held
    <3>3. \A g \in DOMAIN saved : id \in saved[g] <=> g = h
      BY <3>1 DEF IInv, States
    <3>4. Owners(id) = {<<"state", h>>}
      BY <3>2, <3>3 DEF Owners
    <3> QED BY <3>4
  <2>2. CASE \E t \in Thread : id \in call[t].owned
    <3>1. PICK t \in Thread : id \in call[t].owned
      BY <2>2
    <3>2. \A h \in DOMAIN saved : id \notin saved[h]
      BY <3>1 DEF IInv, Held
    <3>3. \A u \in Thread : id \in call[u].owned <=> u = t
      BY <3>1 DEF IInv, Held
    <3>4. Owners(id) = {<<"call", t>>}
      BY <3>2, <3>3 DEF Owners
    <3> QED BY <3>4
  <2> QED BY <2>1, <2>2 DEF IInv, Accounted
<1> QED BY <1>1, AlwaysIInv, PTL

\* An id in a response stays valid until somebody asks for the release of the
\* handle it belongs to (UnprepareImpl, UnregisterCatalog, the cleanups).
THEOREM Validity == Safety => []IssuedUntilAsked
<1>1. IInv => IssuedUntilAsked
  <2> SUFFICES ASSUME IInv, NEW id \in DOMAIN issued, issued[id] \notin asked
               PROVE  id \in DOMAIN saved
    BY DEF IssuedUntilAsked
  <2>1. CASE id = Builtin
    BY <2>1 DEF IInv, Accounted
  <2>2. CASE id # Builtin /\ ~IsPool(id)
    BY <2>2 DEF IInv, Issues
  <2>3. CASE id # Builtin /\ IsPool(id)
    <3>1. issued[id] \in DOMAIN saved /\ id \in saved[issued[id]]
      BY <2>3 DEF IInv, Issues
    <3>2. \A t \in Thread : ~Deleting(t, issued[id])
      BY DEF IInv, CallsInOrder, InOrder, Deleting
    <3> QED BY <3>1, <3>2 DEF IInv, States
  <2> QED BY <2>1, <2>2, <2>3
<1> QED BY <1>1, AlwaysIInv, PTL

\* When the calls that were asked to release a handle have returned, neither it
\* nor anything issued for it is registered (UnprepareImpl, UnregisterCatalog).
THEOREM Release == Safety => []AskedAreGone
<1>1. IInv => AskedAreGone
  <2> SUFFICES ASSUME IInv, NEW h \in asked, \A t \in Thread : ~Releasing(t, h),
                      NEW id \in DOMAIN issued, issued[id] = h
               PROVE  id \notin DOMAIN saved
    BY DEF AskedAreGone
  <2>1. h \notin DOMAIN saved
    BY DEF IInv, BeingReleased
  <2>2. id # Builtin
    BY Tags DEF IInv, Issues, TypeOK, Handle
  <2> QED BY <2>1, <2>2 DEF IInv, Issues
<1> QED BY <1>1, AlwaysIInv, PTL

\* A release finds an owned id unknown only if another release of the same handle
\* is under way or done (UnprepareImpl: "any error would indicate some sort of
\* horrible internal state error").
THEOREM Contention == Safety => []ErrorsMeanContention
<1>1. IInv => ErrorsMeanContention
  BY DEF IInv
<1> QED BY <1>1, AlwaysIInv, PTL

\* An id that is registered is known to nobody before (SharedStatePool::Register).
THEOREM FreshIds == Safety => NewIdsAreUnknown
<1> DEFINE New1 == \A id \in DOMAIN saved' \ DOMAIN saved :
        /\ id \notin DOMAIN issued
        /\ \A x \in DOMAIN saved : id \notin saved[x]
        /\ \A t \in Thread : id \notin call[t].owned \cup call[t].left
<1>1. IInv /\ [Next]_vars => [New1]_vars
  <2> SUFFICES ASSUME IInv, Next PROVE New1
    OBVIOUS
  <2>1. Change
    BY NextIsChange DEF IInv
  <2>2. ASSUME NEW id \in DOMAIN saved' \ DOMAIN saved PROVE \E tag \in Tag : id = NextId(tag)
    <3>1. PICK t \in Thread :
            \/ \E c \in Call : Quiet(t, c) \/ Finds(t, c)
            \/ \E c \in Call, tag \in Tag, x \in Id : Grows(t, c, tag, x)
            \/ \E tag \in Tag, h \in Id : Publishes(t, tag, h)
            \/ \E c \in Call, x \in Id : TakesBack(t, c, x) \/ DeletesOwned(t, c, x)
            \/ DeletesTarget(t)
      BY <2>1 DEF Change
    <3>2. \A c \in Call : ~Quiet(t, c) /\ ~Finds(t, c)
      BY DEF Quiet, Finds
    <3>3. \A c \in Call, x \in Id : ~TakesBack(t, c, x) /\ ~DeletesOwned(t, c, x)
      BY DEF TakesBack, DeletesOwned, Removes
    <3>4. ~DeletesTarget(t)
      BY DEF DeletesTarget, Removes
    <3>5. CASE \E c \in Call, tag \in Tag, x \in Id : Grows(t, c, tag, x)
      BY <3>5 DEF Grows, Adds
    <3>6. CASE \E tag \in Tag, h \in Id : Publishes(t, tag, h)
      BY <3>6 DEF Publishes, Adds
    <3> QED BY <3>1, <3>2, <3>3, <3>4, <3>5, <3>6
  <2> QED BY <2>2, NextIdIsNew DEF IInv
<1>2. Safety => [][New1]_vars
  BY <1>1, AlwaysIInv, PTL DEF Safety
<1> QED BY <1>2 DEF NewIdsAreUnknown

-----------------------------------------------------------------------------
(* The calls implement Registry. *)

\* The state of Registry, as the instance Service sees it.
OpenNow == [h \in OpenHandles |-> saved[h]]
Given == {h \in DOMAIN issued : ~IsPool(h)}

\* A step that neither opens nor closes a handle nor asks for one is invisible.
LEMMA Invisible ==
    ASSUME OpenHandles' = OpenHandles, \A h \in OpenHandles : saved'[h] = saved[h],
           issued' = issued, asked' = asked
    PROVE  UNCHANGED Service!rvars
<1>1. OpenNow' = OpenNow
  BY DEF OpenNow
<1> QED BY <1>1 DEF Service!rvars, OpenNow

\* Closing one handle and changing no other is a step of Registry (Close).
LEMMA Closing ==
    ASSUME NEW h \in OpenHandles, h \in asked, h \in Given, OpenHandles' = OpenHandles \ {h},
           \A g \in OpenHandles \ {h} : saved'[g] = saved[g],
           issued' = issued, asked' = asked
    PROVE  Service!Next
<1>1. OpenNow' = [g \in DOMAIN OpenNow \ {h} |-> OpenNow[g]]
  BY DEF OpenNow
<1>2. Service!Close(h)
  BY <1>1 DEF Service!Close, OpenNow
<1> QED BY <1>2 DEF Service!Next, Given

\* A state of LocalService starts as a state of Registry.
LEMMA RegistryInit == Init => Service!Init
<1> SUFFICES ASSUME Init PROVE Service!Init
  OBVIOUS
<1>1. DOMAIN saved = {Builtin} /\ DOMAIN issued = {Builtin} /\ asked = {} /\ IsPool(Builtin)
  BY Tags DEF Init
<1>2. OpenHandles = {} /\ Given = {}
  BY <1>1 DEF OpenHandles, Given
<1> QED BY <1>1, <1>2 DEF Service!Init, Given

\* A step of LocalService is a step of Registry or invisible.
LEMMA RegistryStep == IInv /\ [Next]_vars => [Service!Next]_(Service!rvars)
<1> SUFFICES ASSUME IInv, [Next]_vars, ~UNCHANGED Service!rvars PROVE Service!Next
  OBVIOUS
<1>0. ~UNCHANGED vars
  BY DEF vars, Service!rvars, OpenHandles
<1>1. PICK t \in Thread :
        \/ \E c \in Call : Quiet(t, c) \/ Finds(t, c)
        \/ \E c \in Call, tag \in Tag, x \in Id : Grows(t, c, tag, x)
        \/ \E tag \in Tag, h \in Id : Publishes(t, tag, h)
        \/ \E c \in Call, x \in Id : TakesBack(t, c, x) \/ DeletesOwned(t, c, x)
        \/ DeletesTarget(t)
  BY <1>0, NextIsChange DEF Change, IInv
<1>2. ASSUME NEW c \in Call, Quiet(t, c) PROVE Service!Next
  <2>1. CASE c.pc = "lookup"
    <3>1. OpenHandles' = OpenHandles /\ saved' = saved /\ issued' = issued
      BY <1>2 DEF Quiet, OpenHandles
    <3>2. c.target \in Given /\ asked' = asked \cup {c.target}
      BY <1>2, <2>1 DEF Quiet, Given, Handle
    <3>3. Service!Ask(c.target)
      BY <3>1, <3>2 DEF Service!Ask, Given
    <3> QED BY <3>2, <3>3 DEF Service!Next, Given
  <2>2. CASE c.pc # "lookup"
    BY <1>2, <2>2, Invisible DEF Quiet, OpenHandles
  <2> QED BY <2>1, <2>2
<1>3. ASSUME NEW c \in Call, Finds(t, c) PROVE Service!Next
  BY <1>3, Invisible DEF Finds, OpenHandles
<1>4. ASSUME NEW c \in Call, NEW tag \in Tag, NEW id \in Id, Grows(t, c, tag, id) PROVE Service!Next
  <2>1. /\ id \notin DOMAIN saved /\ id \notin DOMAIN issued
        /\ \A x \in DOMAIN saved : id \notin saved[x]
    BY <1>4, NextIdIsNew DEF Grows, Adds, IInv
  <2>2. OpenHandles' = OpenHandles
    BY <1>4, <2>1 DEF Grows, Adds, OpenHandles
  <2> QED BY <1>4, <2>1, <2>2, Invisible DEF Grows, Adds, OpenHandles
<1>5. ASSUME NEW tag \in Tag, NEW h \in Id, Publishes(t, tag, h) PROVE Service!Next
  <2>1. /\ h \notin DOMAIN saved /\ h \notin DOMAIN issued /\ ~IsPool(h)
        /\ \A x \in DOMAIN saved : h \notin saved[x]
    BY <1>5, NextIdIsNew DEF Publishes, Adds, IInv, NextId, IsPool
  <2>2. /\ call[t].owned \subseteq DOMAIN saved
        /\ \A g \in DOMAIN saved : saved[g] \cap call[t].owned = {}
        /\ \A x \in call[t].owned : x \notin DOMAIN issued
        /\ \A x \in call[t].owned : saved[x] = {}
    BY DEF IInv, Held
  <2>3. /\ DOMAIN saved' = DOMAIN saved \cup {h} /\ saved'[h] = call[t].owned
        /\ \A x \in DOMAIN saved : saved'[x] = saved[x]
        /\ UNCHANGED asked
    BY <1>5, <2>1 DEF Publishes, Adds
  <2>4. Given' = Given \cup {h} /\ h \notin Given
    BY <1>5, <2>1 DEF Publishes, Given
  <2>5. \A g \in DOMAIN issued' \ DOMAIN issued : g = h \/ IsPool(g)
    BY <1>5 DEF Publishes
  <2>6. DOMAIN issued \subseteq DOMAIN issued' /\ h \in DOMAIN issued'
    BY <1>5 DEF Publishes
  <2>7. OpenHandles' = OpenHandles \cup {h} /\ h \notin OpenHandles
    BY <2>1, <2>2, <2>3, <2>5, <2>6 DEF OpenHandles
  <2>8. OpenNow' = [g \in DOMAIN OpenNow \cup {h} |-> IF g = h THEN call[t].owned ELSE OpenNow[g]]
    BY <2>3, <2>7 DEF OpenNow, OpenHandles
  <2>9. \A g \in DOMAIN OpenNow : OpenNow[g] \cap call[t].owned = {}
    BY <2>2 DEF OpenNow, OpenHandles
  <2>10. h \in DOMAIN OpenNow' /\ OpenNow'[h] = call[t].owned
    BY <2>8
  <2>11. \A g \in DOMAIN OpenNow : OpenNow[g] \cap OpenNow'[h] = {}
    BY <2>9, <2>10
  <2>12. OpenNow' = [g \in DOMAIN OpenNow \cup {h} |-> IF g = h THEN OpenNow'[h] ELSE OpenNow[g]]
    BY <2>8, <2>10
  <2> QED BY <2>3, <2>4, <2>10, <2>11, <2>12 DEF Service!Next, Service!Open, OpenNow, Given
<1>6. ASSUME NEW c \in Call, NEW id \in Id, TakesBack(t, c, id) PROVE Service!Next
  <2>1. id \notin DOMAIN issued /\ \A g \in DOMAIN saved : id \notin saved[g]
    BY <1>6 DEF TakesBack, IInv, Held
  <2>2. OpenHandles' = OpenHandles
    BY <1>6, <2>1 DEF TakesBack, Removes, OpenHandles
  <2> QED BY <1>6, <2>2, <2>1, Invisible DEF TakesBack, Removes, OpenHandles
<1>7. ASSUME NEW c \in Call, NEW id \in Id, DeletesOwned(t, c, id) PROVE Service!Next
  <2> DEFINE h == call[t].target
  <2>1. h \in asked /\ h \in Given /\ issued' = issued /\ asked' = asked
    BY <1>7 DEF DeletesOwned, IInv, CallsInOrder, InOrder, TypeOK, Handle, Given
  <2>2. CASE id \notin DOMAIN saved
    <3>1. OpenHandles' = OpenHandles /\ \A g \in OpenHandles : saved'[g] = saved[g]
      BY <1>7, <2>2 DEF DeletesOwned, Removes, OpenHandles
    <3> QED BY <2>1, <3>1, Invisible
  <2>3. CASE id \in DOMAIN saved
    <3>1. h \in DOMAIN saved /\ id \in saved[h]
      BY <1>7, <2>3 DEF DeletesOwned, IInv, Deletions
    <3>2. /\ \A g \in DOMAIN saved \ {h} : id \notin saved[g]
          /\ IsPool(id) \/ id \notin DOMAIN issued
      BY <3>1 DEF IInv, States
    <3>3. OpenHandles' = OpenHandles \ {h} /\ \A g \in OpenHandles \ {h} : saved'[g] = saved[g]
      BY <1>7, <3>1, <3>2 DEF DeletesOwned, Removes, OpenHandles
    <3>4. CASE h \in OpenHandles
      BY <2>1, <3>3, <3>4, Closing
    <3>5. CASE h \notin OpenHandles
      BY <2>1, <3>3, <3>5, Invisible
    <3> QED BY <3>4, <3>5
  <2> QED BY <2>2, <2>3
<1>8. ASSUME DeletesTarget(t) PROVE Service!Next
  <2> DEFINE h == call[t].target
  <2>1. h \in asked /\ h \in Given /\ issued' = issued /\ asked' = asked
    BY <1>8 DEF DeletesTarget, IInv, CallsInOrder, InOrder, TypeOK, Handle, Given
  <2>2. \A g \in DOMAIN saved : h \notin saved[g]
    BY <2>1 DEF IInv, States, Given
  <2>3. OpenHandles' = OpenHandles \ {h} /\ \A g \in OpenHandles \ {h} : saved'[g] = saved[g]
    BY <1>8, <2>2 DEF DeletesTarget, Removes, OpenHandles
  <2>4. CASE h \in OpenHandles
    BY <2>1, <2>3, <2>4, Closing
  <2>5. CASE h \notin OpenHandles
    BY <2>1, <2>3, <2>5, Invisible
  <2> QED BY <2>4, <2>5
<1> QED BY <1>1, <1>2, <1>3, <1>4, <1>5, <1>6, <1>7, <1>8

\* The safety part of ImplementsRegistry: handles open at once with all that was
\* registered for them, share nothing, and close at once and only when asked.
THEOREM Refinement == Safety => Service!Safety
BY RegistryInit, RegistryStep, AlwaysIInv, PTL DEF Safety, Service!Safety

=============================================================================
