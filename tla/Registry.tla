------------------------------ MODULE Registry ------------------------------
(***************************************************************************)
(* What the local service promises about the things its clients register:  *)
(* a handle (a prepared statement or a registered catalog) comes into      *)
(* being at once with everything that was registered for it, shares none   *)
(* of it, and goes away at once with all of it, only after a client has    *)
(* asked for that and always if one has.                                   *)
(***************************************************************************)
CONSTANT Handle

VARIABLES
    open,   \* the open handles: a function to the resources each of them owns
    given,  \* handles that have ever been given to a client
    asked   \* handles that a client has asked to release

rvars == <<open, given, asked>>

Init ==
    /\ open = [h \in {} |-> {}]
    /\ given = {}
    /\ asked = {}

\* A new handle opens with its resources, which no other open handle has.
Open(h, resources) ==
    /\ h \notin given
    /\ \A g \in DOMAIN open : open[g] \cap resources = {}
    /\ open' = [g \in DOMAIN open \cup {h} |-> IF g = h THEN resources ELSE open[g]]
    /\ given' = given \cup {h}
    /\ UNCHANGED asked

\* A client asks for the release of a handle that it was given.
Ask(h) ==
    /\ h \in given
    /\ asked' = asked \cup {h}
    /\ UNCHANGED <<open, given>>

\* A handle that somebody asked for goes away with its resources.
Close(h) ==
    /\ h \in DOMAIN open \cap asked
    /\ open' = [g \in DOMAIN open \ {h} |-> open[g]]
    /\ UNCHANGED <<given, asked>>

Next ==
    \/ \E h \in DOMAIN open' : Open(h, open'[h])
    \/ \E h \in given : Ask(h) \/ Close(h)

Safety == Init /\ [][Next]_rvars

Spec == Safety /\ \A h \in Handle : WF_rvars(Close(h))
=============================================================================
