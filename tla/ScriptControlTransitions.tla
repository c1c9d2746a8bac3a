---------------------- MODULE ScriptControlTransitions ----------------------
(***************************************************************************)
(* Following an edge, unwinding the stack, and saving and restoring the state *)
(* preserve Consistent.                                                    *)
(***************************************************************************)
EXTENDS ScriptControlStatements

-----------------------------------------------------------------------------
(* The rest of the call. *)

\* What a transition does to the other fields.
TransitionOK ==
    /\ pending' \in Seq(Exc) /\ errorVar' = Innermost(pending')
    /\ caseTrue' \in Int /\ caseCurrent' \in Int
    /\ returned' \in BOOLEAN /\ open' \in Int

\* The innermost of some exceptions is one of them, or there is none.
LEMMA InnermostType ==
    ASSUME NEW p \in Seq(Exc)
    PROVE  Innermost(p) \in Exc \cup {NoExc}
    BY DEF Innermost

\* A transition that leaves a consistent stack leaves a consistent state.
LEMMA Arrive ==
    ASSUME Consistent, stack # <<>>, TransitionOK, run' \in RunState, run'.op # "internal",
           stack' \in Seq(Frame), Len(stack') \in 1 .. Len(stack),
           SettledCallers(stack'), TopConsistent(stack', run'),
           run'.op \in {"idle", "advance", "dispatch"} => Covers(pending', stack')
    PROVE  Consistent'
<1>1. TypeOK'
    BY InnermostType DEF TransitionOK, TypeOK
<1>2. Len(stack') \in 0 .. MaxDepth /\ stack' # <<>> /\ (DryRun => Len(stack') <= 1)
    BY StackFacts, OptionsAssumption, SMTT(30)
<1> QED
    BY <1>1, <1>2
    DEF Consistent, TransitionOK, NoInternalError, CallersSettled, PendingCoverHandlers

\* A transition that fails for good.
LEMMA AbortsInCall ==
    ASSUME Consistent, stack # <<>>, TransitionOK, Aborts
    PROVE  Consistent'
<1>1. run' \in RunState /\ run'.op = "failed" /\ stack' = stack
    BY DEF Aborts, Failed, RunState
<1>2. TopConsistent(stack', run')
    BY <1>1 DEF TopConsistent
<1>3. SettledCallers(stack') /\ stack' \in Seq(Frame) /\ Len(stack') \in 1 .. Len(stack)
    BY <1>1, StackFacts DEF Consistent, CallersSettled
<1> QED
    BY <1>1, <1>2, <1>3, Arrive

\* The frames below the top, when it is popped.
LEMMA CallerFacts ==
    ASSUME Consistent, stack # <<>>, Len(stack) > 1
    PROVE  /\ Caller \in Seq(Frame) /\ Len(Caller) = Len(stack) - 1
           /\ \A i \in 1 .. Len(Caller) : Caller[i] = stack[i]
           /\ SettledCallers(Caller)
           /\ Caller[Len(Caller)] \in Frame
           /\ Settled(Caller[Len(Caller)])
           /\ Kind(Caller[Len(Caller)].node) \in CallKinds
           /\ Caller[Len(Caller)].node \in Node
<1>1. /\ Caller \in Seq(Frame) /\ Len(Caller) = Len(stack) - 1
      /\ \A i \in 1 .. Len(Caller) : Caller[i] = stack[i]
    BY StackFacts, Pop DEF Caller
<1>2. \A i \in 1 .. Len(Caller) : Settled(Caller[i]) /\ Kind(Caller[i].node) \in CallKinds
    BY <1>1, StackFacts DEF Consistent, CallersSettled, SettledCallers
<1>3. SettledCallers(Caller)
    BY <1>1, <1>2, StackFacts DEF SettledCallers
<1>4. Len(Caller) \in 1 .. Len(Caller)
    BY <1>1, StackFacts
<1>5. Caller[Len(Caller)] \in Frame /\ Caller[Len(Caller)].node \in Node \cup {End}
    BY <1>1, <1>4, FrameFields
<1> QED
    BY <1>1, <1>2, <1>3, <1>4, <1>5 DEF Settled

\* A procedure returns, or is left by an exception: its caller goes on.
LEMMA ExitProcedureOK ==
    ASSUME Consistent, stack # <<>>, LateFaults = {}, Len(stack) > 1, TransitionOK,
           NEW f, NEW then \in RunState,
           \/ then.op = "advance" /\ then.edge = "normal"
           \/ then.op = "dispatch" /\ then.exc \in Exc /\ Handled(Caller),
           Covers(pending', Caller), ExitProcedure(f, then)
    PROVE  Consistent'
<1> DEFINE c == Caller[Len(Caller)]
<1>1. CASE Aborts
    BY <1>1, AbortsInCall
<1>2. ASSUME NEW g \in Returned(c, then),
             stack' = [Caller EXCEPT ![Len(stack) - 1] = g], run' = then
      PROVE  Consistent'
    <2>1. c \in Frame /\ Settled(c) /\ Kind(c.node) \in CallKinds /\ c.node \in Node
        BY CallerFacts
    <2>2. Kind(c.node) \notin {"forInitial", "declare"} /\ Kind(c.node) \in NormalKinds
        BY <2>1 DEF CallKinds, NormalKinds
    <2>3. g \in Frame /\ g.node = c.node /\ Settled(g)
        BY <1>2, <2>1, AssignedFacts, Zenon DEF Returned
    <2>4. Interrupted(g)
        BY <2>2, <2>3, SettledInterrupted
    <2>5. Completed(g, "normal")
        <3>1. "normal" \in DOMAIN Succ(c.node)
            BY <2>1, <2>2, GraphAssumption
        <3> QED
            BY <2>1, <2>2, <2>3, <3>1, SettledCompleted
    <2>6. /\ Caller \in Seq(Frame) /\ Len(Caller) = Len(stack) - 1 /\ Len(Caller) \in Nat
          /\ Len(Caller) >= 1 /\ SettledCallers(Caller)
        BY CallerFacts, StackFacts
    <2>7. /\ stack' \in Seq(Frame) /\ Len(stack') = Len(Caller) /\ stack'[Len(Caller)] = g
          /\ \A i \in 1 .. Len(Caller) - 1 : stack'[i] = Caller[i]
        BY <1>2, <2>3, <2>6, ReplaceTop
    <2>8. \A i \in 1 .. Len(Caller) : stack'[i].node = Caller[i].node
        BY <2>3, <2>6, <2>7
    <2>9. TopConsistent(stack', run')
        <3>1. Handled(Caller) => Handled(stack')
            BY <2>7, <2>8, SMTT(30) DEF Handled
        <3>2. g.node # End
            BY <2>1, <2>3 DEF Settled
        <3> QED
            BY <1>2, <2>4, <2>5, <2>7, <3>1, <3>2, SMTT(30) DEF TopConsistent
    <2>10. SettledCallers(stack')
        BY <2>6, <2>7 DEF SettledCallers
    <2>11. Covers(pending', stack')
        <3>1. \A i \in 1 .. Len(Caller) : stack'[i].node \in {Caller[i].node, End}
            BY <2>8
        <3> QED
            BY <2>6, <2>7, <3>1, CoversSame, SMTT(30) DEF TransitionOK
    <2>12. Len(stack') \in 1 .. Len(stack) /\ run' \in RunState /\ run'.op # "internal"
        BY <1>2, <2>6, <2>7, StackFacts
    <2> QED
        BY <2>7, <2>9, <2>10, <2>11, <2>12, Arrive
<1>3. c.node # End /\ Kind(c.node) \in CallKinds
    BY CallerFacts DEF Settled
<1> QED
    BY <1>1, <1>2, <1>3 DEF ExitProcedure

\* What EdgeAssumption says of one edge.
LEMMA EdgeFacts ==
    ASSUME NEW n \in Node, NEW k \in DOMAIN Succ(n)
    PROVE  LET e == Succ(n)[k]
           IN /\ e.to \in Node \cup {End} /\ e.destroyed \subseteq Var
              /\ e.handlersExited \in Nat /\ e.forsExited \in Nat
              /\ e.entered \in BOOLEAN
              /\ e.entered => k = "exception"
              /\ e.handlersExited <= HandlerDepth(n)
              /\ e.forsExited <= ForDepth(n) + Opened(n)
              /\ e.to # End =>
                    /\ ForDepth(e.to) = ForDepth(n) + Opened(n) - e.forsExited
                    /\ HandlerDepth(e.to) = HandlerDepth(n) - e.handlersExited
                                              + (IF e.entered THEN 1 ELSE 0)
                    /\ k # "exception" => After(n, k) \ e.destroyed = Scope(e.to)
                    /\ k = "exception" =>
                        /\ Scope(n) \ e.destroyed = Scope(e.to)
                        /\ Names(Creates(n)) \subseteq e.destroyed
              /\ e.to = End => e.forsExited = ForDepth(n) + Opened(n)
              /\ k = "exception" => e.forsExited >= Opened(n)
<1> DEFINE e == Succ(n)[k]
<1>1. e \in EdgeInfo
    BY EdgeAssumption
<1>2. /\ e.to \in Node \cup {End} /\ e.destroyed \subseteq Var
      /\ e.handlersExited \in Nat /\ e.forsExited \in Nat
      /\ e.entered \in BOOLEAN
    BY <1>1 DEF EdgeInfo
<1> QED
    BY <1>2, EdgeAssumption

\* The iterators that remain when a transition has left FOR loops.
LEMMA Remaining ==
    ASSUME NEW loops \in Seq({"null", "open"}), NEW k \in 0 .. Len(loops)
    PROVE  LET left == SubSeq(loops, 1, Len(loops) - k)
           IN /\ left \in Seq({"null", "open"}) /\ Len(left) = Len(loops) - k
              /\ \A j \in 1 .. Len(left) : left[j] = loops[j]
    OBVIOUS

\* The exceptions that remain when a transition has left handlers.
LEMMA StillPending ==
    ASSUME NEW p \in Seq(Exc), NEW k \in 0 .. Len(p)
    PROVE  LET left == SubSeq(p, 1, Len(p) - k)
           IN /\ left \in Seq(Exc) /\ Len(left) = Len(p) - k
              /\ k = 0 => left = p
    OBVIOUS

\* A positive number is one or more than one.
LEMMA OneOrMore ==
    ASSUME NEW m \in Nat, m >= 1
    PROVE  m = 1 \/ m > 1
    OBVIOUS

\* Frame f at another node.
Moved(f, m) == [f EXCEPT !.node = m]

\* Moving a frame to another node, with other loops and variables, keeps its type.
LEMMA FrameMoved ==
    ASSUME NEW f \in Frame, NEW m \in Node \cup {End}
    PROVE  /\ Moved(f, m) \in Frame /\ Moved(f, m).node = m
           /\ Moved(f, m).vars = f.vars /\ Moved(f, m).loops = f.loops
    BY DEF Frame, Moved

\* Frame f after a transition from node n has done e's side effects on it.
Unwind(f, e) == [f EXCEPT !.vars = @ \ e.destroyed, !.large = @ \ e.destroyed,
                          !.loops = SubSeq(@, 1, Len(@) - e.forsExited)]

\* The side effects of an edge bring a frame in step with the edge's target.
LEMMA Unwinding ==
    ASSUME NEW f \in Frame, NEW n \in Node, f.node = n, NEW k \in DOMAIN Succ(n),
           k = "exception" => Interrupted(f), k # "exception" => Completed(f, k),
           NEW e, e = Succ(n)[k]
    PROVE  /\ e.forsExited \in 0 .. Len(f.loops)
           /\ Unwind(f, e) \in Frame
           /\ Moved(Unwind(f, e), e.to) \in Frame
           /\ Moved(Unwind(f, e), e.to).node = e.to
           /\ e.to # End => Settled(Moved(Unwind(f, e), e.to))
           /\ e.to = End => Moved(Unwind(f, e), e.to).loops = <<>>
<1>1. /\ e.to \in Node \cup {End} /\ e.destroyed \subseteq Var /\ e.forsExited \in Nat
      /\ e.forsExited <= ForDepth(n) + Opened(n)
      /\ e.to = End => e.forsExited = ForDepth(n) + Opened(n)
      /\ k = "exception" => e.forsExited >= Opened(n)
    BY EdgeFacts
<1>2. ASSUME e.to # End
      PROVE  /\ ForDepth(e.to) = ForDepth(n) + Opened(n) - e.forsExited
             /\ k # "exception" => After(n, k) \ e.destroyed = Scope(e.to)
             /\ k = "exception" => /\ Scope(n) \ e.destroyed = Scope(e.to)
                                   /\ Names(Creates(n)) \subseteq e.destroyed
    BY <1>2, EdgeFacts
<1>3. ForDepth(n) \in Nat /\ Opened(n) \in 0 .. 1
    BY Depths DEF Opened
<1>4. f.loops \in Seq({"null", "open"}) /\ f.vars \in SUBSET Var /\ f.large \in SUBSET Var
    BY DEF Frame
<1>5. Len(f.loops) = ForDepth(n) + Opened(n)
    BY DEF Interrupted, Completed
<1>6. e.forsExited \in 0 .. Len(f.loops)
    BY <1>1, <1>3, <1>5
<1> DEFINE rest == SubSeq(f.loops, 1, Len(f.loops) - e.forsExited)
           kept == f.vars \ e.destroyed
           large == f.large \ e.destroyed
           g == Moved(Unwind(f, e), e.to)
<1>7. /\ rest \in Seq({"null", "open"}) /\ Len(rest) = ForDepth(n) + Opened(n) - e.forsExited
      /\ \A j \in 1 .. Len(rest) : rest[j] = f.loops[j]
    <2>1. /\ rest \in Seq({"null", "open"}) /\ Len(rest) = Len(f.loops) - e.forsExited
          /\ \A j \in 1 .. Len(rest) : rest[j] = f.loops[j]
        BY <1>4, <1>6, Remaining, SMTT(30)
    <2> HIDE DEF rest
    <2> QED
        BY <2>1, <1>1, <1>3, <1>4, <1>5, <1>6, SMTT(30)
<1>8. /\ Unwind(f, e) \in Frame
      /\ g \in Frame /\ g.node = e.to /\ g.vars = kept /\ g.loops = rest
    <2>1. Unwind(f, e) = [f EXCEPT !.vars = kept, !.large = large, !.loops = rest]
        BY DEF Unwind, Frame
    <2>2. kept \in SUBSET Var /\ large \in SUBSET Var
        BY <1>4
    <2> HIDE DEF kept, large, rest
    <2>3. /\ Unwind(f, e) \in Frame
          /\ Unwind(f, e).vars = kept /\ Unwind(f, e).loops = rest
        BY <2>1, <2>2, <1>7, Zenon DEF Frame
    <2> QED
        BY <2>3, <1>1, FrameMoved
<1> HIDE DEF g, rest
<1>9. ASSUME e.to # End
      PROVE  Settled(g)
    <2>1. CASE k # "exception"
        <3>1. /\ f.vars = After(n, k)
              /\ \A j \in 1 .. Len(f.loops) : f.loops[j] = "open"
            BY <2>1 DEF Completed
        <3>2. \A j \in 1 .. Len(rest) : rest[j] = "open"
            BY <3>1, <1>3, <1>5, <1>6, <1>7, SMTT(30)
        <3> QED
            BY <2>1, <3>1, <3>2, <1>2, <1>7, <1>8, <1>9, SMTT(30) DEF Settled
    <2>2. CASE k = "exception"
        <3>1. Len(rest) \in Nat /\ Len(rest) <= ForDepth(n)
            BY <2>2, <1>1, <1>3, <1>7
        <3>2. \A j \in 1 .. Len(rest) : rest[j] = "open"
            BY <2>2, <3>1, <1>3, <1>7 DEF Interrupted
        <3>3. kept = Scope(e.to)
            BY <2>2, <1>2, <1>9 DEF Interrupted
        <3> HIDE DEF kept
        <3> QED
            BY <3>2, <3>3, <1>2, <1>7, <1>8, <1>9, SMTT(30) DEF Settled
    <2> QED
        BY <2>1, <2>2
<1>10. ASSUME e.to = End
       PROVE  g.loops = <<>>
    <2>1. Len(rest) = 0
        BY <1>10, <1>1, <1>3, <1>7
    <2> QED
        BY <2>1, <1>7, <1>8
<1> QED
    BY <1>6, <1>8, <1>9, <1>10, SMTT(30) DEF g

\* The exceptions that are pending after a transition from node n by edge e.
Handling(p, e, exc) ==
    LET left == SubSeq(p, 1, Len(p) - e.handlersExited)
    IN IF e.entered THEN Append(left, exc) ELSE left

\* Edge e leaves node n, with the exception exc if it leads to a handler.
EdgeFits(n, e, exc) ==
    /\ e.handlersExited \in Nat /\ e.handlersExited <= HandlerDepth(n)
    /\ e.entered => exc \in Exc
    /\ e.to # End => HandlerDepth(e.to) = HandlerDepth(n) - e.handlersExited
                                             + (IF e.entered THEN 1 ELSE 0)

\* Following edge e with stack s, the pending exceptions p go on to cover it.
HandlingCovers(p, s, e, exc) ==
    /\ e.handlersExited \in 0 .. Len(p)
    /\ Handling(p, e, exc) \in Seq(Exc)
    /\ ~e.entered /\ ~(e.handlersExited > 0) => Handling(p, e, exc) = p
    /\ \A t \in Seq(Frame) :
        /\ Len(t) = Len(s) /\ t[Len(t)].node = e.to
        /\ \A i \in 1 .. Len(s) - 1 : t[i] = s[i]
        => Covers(Handling(p, e, exc), t)

\* Leaving handlers and entering one keeps an exception for every handler.
LEMMA LeavingHandlers ==
    ASSUME NEW s \in Seq(Frame), Len(s) >= 1, SettledCallers(s),
           NEW p \in Seq(Exc), Covers(p, s),
           NEW n \in Node, s[Len(s)].node = n, NEW e, NEW exc, EdgeFits(n, e, exc)
    PROVE  HandlingCovers(p, s, e, exc)
<1> DEFINE entered == IF e.entered THEN 1 ELSE 0
           q == Handling(p, e, exc)
           left == SubSeq(p, 1, Len(p) - e.handlersExited)
<1>1. /\ e.handlersExited \in Nat /\ e.handlersExited <= HandlerDepth(n)
      /\ e.to # End =>
            HandlerDepth(e.to) = HandlerDepth(n) - e.handlersExited + entered
      /\ e.entered => exc \in Exc
    BY DEF EdgeFits
<1>2. HandlerDepth(n) \in Nat /\ n # End /\ Len(p) \in Nat
    <2>1. HandlerDepth(n) \in Nat
        BY Depths
    <2>2. n # End
        BY ONLY n \in Node, EndIsNoNode
    <2>3. Len(p) \in Nat
        BY ONLY p \in Seq(Exc)
    <2> QED
        BY <2>1, <2>2, <2>3
<1>3. e.handlersExited \in 0 .. Len(p)
    <2>1. HandlerDepth(n) <= Len(p)
        BY <1>2, CoversTop
    <2> QED
        BY ONLY <2>1, <1>1, <1>2
<1>4. /\ left \in Seq(Exc) /\ Len(left) = Len(p) - e.handlersExited
      /\ e.handlersExited = 0 => left = p
    BY <1>3, StillPending
<1> HIDE DEF left
<1>5. q \in Seq(Exc) /\ Len(q) = Len(p) - e.handlersExited + entered
    <2>1. CASE e.entered
        <3>1. exc \in Exc /\ q = Append(left, exc)
            BY <2>1, <1>1, SMTT(30) DEF Handling, left
        <3> QED
            BY <2>1, <3>1, <1>4
    <2>2. CASE ~e.entered
        <3>1. q = left
            BY <2>2, Zenon DEF Handling, left
        <3> QED
            BY <2>2, <3>1, <1>2, <1>3, <1>4
    <2> QED
        BY <2>1, <2>2
<1>6. ~e.entered /\ ~(e.handlersExited > 0) => q = p
    BY <1>1, <1>4 DEF Handling, left
<1> HIDE DEF q
<1>7. ASSUME NEW t \in Seq(Frame), Len(t) = Len(s), t[Len(t)].node = e.to,
             \A i \in 1 .. Len(s) - 1 : t[i] = s[i]
      PROVE  Covers(q, t)
    <2>1. Len(q) >= Len(p) - HandlerDepth(n)
        BY <1>1, <1>2, <1>5, SMTT(30)
    <2>2. t[Len(t)].node # End =>
            HandlerDepth(t[Len(t)].node) - Len(q) <= HandlerDepth(n) - Len(p)
        BY <1>1, <1>2, <1>5, <1>7, SMTT(30)
    <2> QED
        BY <2>1, <2>2, <1>2, <1>5, <1>7, CoversMove, Zenon
<1> QED
    BY <1>3, <1>5, <1>6, <1>7 DEF q, HandlingCovers

\* Following an edge: the statement has completed, or an exception interrupted it.
LEMMA FollowEdgeOK ==
    ASSUME Consistent, stack # <<>>, LateFaults = {}, run.op \in {"advance", "dispatch"},
           NEW n \in Node, Top.node = n, NEW k \in DOMAIN Succ(n), NEW exc,
           NEW e, e = Succ(n)[k],
           k = "exception" => exc \in Exc, k = "exception" => Interrupted(Top),
           k # "exception" => Completed(Top, k),
           FollowEdge(e, exc)
    PROVE  Consistent'
<1> DEFINE F == Unwind(Top, e)
           M == Moved(F, e.to)
           S == WithTop(M)
           q == Handling(pending, e, exc)
<1>1. /\ stack \in Seq(Frame) /\ Len(stack) >= 1 /\ Len(stack) \in Nat
      /\ stack[Len(stack)].node = n /\ Top \in Frame
    BY StackFacts
<1>l. Len(stack) = 1 \/ Len(stack) > 1
    <2>1. Len(stack) \in Nat /\ Len(stack) >= 1
        BY StackFacts
    <2> QED
        BY ONLY <2>1, OneOrMore, Zenon
<1>2. /\ pending \in Seq(Exc) /\ Covers(pending, stack) /\ SettledCallers(stack)
      /\ errorVar = Innermost(pending) /\ open \in Int
    BY DEF Consistent, TypeOK, PendingCoverHandlers, CallersSettled
<1>3. /\ e.forsExited \in 0 .. Len(Top.loops)
      /\ F \in Frame /\ M \in Frame /\ M.node = e.to
      /\ e.to # End => Settled(M)
      /\ e.to = End => M.loops = <<>>
    BY <1>1, Unwinding, Zenon
<1>e. EdgeFits(n, e, exc)
    BY EdgeFacts, SMTT(30) DEF EdgeFits
<1>4. /\ e.handlersExited \in 0 .. Len(pending) /\ q \in Seq(Exc)
      /\ ~e.entered /\ ~(e.handlersExited > 0) => q = pending
      /\ \A t \in Seq(Frame) :
            /\ Len(t) = Len(stack) /\ t[Len(t)].node = e.to
            /\ \A i \in 1 .. Len(stack) - 1 : t[i] = stack[i]
            => Covers(q, t)
    <2>1. HandlingCovers(pending, stack, e, exc)
        BY ONLY <1>1, <1>2, <1>e, n \in Node, LeavingHandlers, SMTT(30)
    <2> QED
        BY ONLY <2>1 DEF HandlingCovers
<1>5. /\ pending' = q
      /\ errorVar' = IF e.entered \/ e.handlersExited > 0
                     THEN Innermost(pending') ELSE errorVar
      /\ UpdateCurrentLocation(e, F)
      /\ UNCHANGED <<caseTrue, caseCurrent, returned>>
    <2>1. ~(e.handlersExited > Len(pending)) /\ ~(e.forsExited > Len(Top.loops))
        <3>1. Len(Top.loops) \in Nat /\ Len(pending) \in Nat
            BY <1>1, <1>2, SMTT(30) DEF Frame
        <3> QED
            BY ONLY <3>1, <1>3, <1>4
    <2> QED
        BY <2>1, Zenon DEF FollowEdge, Unwind, Handling
<1>6. pending' \in Seq(Exc) /\ errorVar' = Innermost(pending')
    BY <1>2, <1>4, <1>5, SMTT(30)
<1>7. caseTrue' \in Int /\ caseCurrent' \in Int /\ returned' \in BOOLEAN
    BY <1>5, SMTT(30) DEF Consistent, TypeOK
<1> HIDE DEF F, q, M
<1>8. /\ S \in Seq(Frame) /\ Len(S) = Len(stack) /\ S[Len(stack)] = M
      /\ \A i \in 1 .. Len(stack) - 1 : S[i] = stack[i]
    BY <1>1, <1>3, ReplaceTop DEF WithTop
<1> HIDE DEF S
<1>9. Covers(q, S)
    BY <1>3, <1>4, <1>8
<1>10. CASE e.to = End /\ Len(stack) > 1
    <2>1. ExitProcedure(F, Advancing("normal", run.outer))
        BY <1>5, <1>10, SMTT(30) DEF UpdateCurrentLocation
    <2>2. Covers(pending', Caller)
        <3>1. /\ Caller \in Seq(Frame) /\ Len(Caller) = Len(stack) - 1
              /\ \A i \in 1 .. Len(Caller) : Caller[i] = stack[i]
            BY <1>10, CallerFacts
        <3>2. Len(Caller) < Len(S) /\ \A i \in 1 .. Len(Caller) : Caller[i] = S[i]
            BY <3>1, <1>1, <1>8
        <3> QED
            BY <3>1, <3>2, <1>4, <1>5, <1>8, <1>9, CoversPop, SMTT(30)
    <2>3. TransitionOK
        <3>1. open' \in Int
            BY <2>1, <1>2 DEF ExitProcedure
        <3> QED
            BY <3>1, <1>6, <1>7 DEF TransitionOK
    <2>4. /\ Advancing("normal", run.outer) \in RunState
          /\ Advancing("normal", run.outer).op = "advance"
          /\ Advancing("normal", run.outer).edge = "normal"
        <3>1. run.outer \in BOOLEAN
            BY DEF Consistent, TypeOK, RunState
        <3> QED
            BY <3>1 DEF Advancing, RunState, EdgeKinds
    <2>5. Len(stack) > 1
        BY <1>10, Zenon
    <2> QED
        BY <2>1, <2>2, <2>3, <2>4, <2>5, ExitProcedureOK, Zenon
<1>11. CASE ~(e.to = End /\ Len(stack) > 1)
    <2>1. stack' = S /\ run' = Idle /\ open' = open
        BY <1>5, <1>11 DEF UpdateCurrentLocation, S, M, Moved
    <2>2. TransitionOK
        BY <2>1, <1>2, <1>6, <1>7, SMTT(30) DEF TransitionOK
    <2>3. run' \in RunState /\ run'.op = "idle"
        BY <2>1 DEF Idle, RunState
    <2>4. e.to = End => Len(stack) = 1
        BY <1>l, <1>11, Zenon
    <2>5. TopConsistent(stack', run')
        BY <2>1, <2>3, <2>4, <1>3, <1>8, SMTT(30) DEF TopConsistent
    <2>6. SettledCallers(stack')
        BY <2>1, <1>2, <1>8, SMTT(30) DEF SettledCallers
    <2>7. stack' \in Seq(Frame) /\ Len(stack') \in 1 .. Len(stack) /\ Covers(pending', stack')
        BY <2>1, <1>1, <1>5, <1>8, <1>9, SMTT(30)
    <2> QED
        BY <2>2, <2>3, <2>5, <2>6, <2>7, Arrive, SMTT(30)
<1> QED
    BY <1>10, <1>11

\* A dry run gives up in the middle of a call.
LEMMA TerminateInCall ==
    ASSUME Consistent, stack # <<>>, DryRun, TerminateValidation(Top),
           UNCHANGED <<pending, errorVar, caseTrue, caseCurrent, returned, open>>
    PROVE  Consistent'
<1>1. TransitionOK
    BY DEF TransitionOK, Consistent, TypeOK
<1>2. CASE Aborts
    BY <1>1, <1>2, AbortsInCall
<1>3. CASE stack' = WithTop(Moved(Top, End)) /\ run' = Idle
    <2>1. stack \in Seq(Frame) /\ Len(stack) = 1 /\ Top \in Frame /\ pending \in Seq(Exc)
        BY StackFacts DEF Consistent, TypeOK
    <2>2. Moved(Top, End) \in Frame /\ Moved(Top, End).node = End
        BY <2>1, FrameMoved
    <2>3. stack' \in Seq(Frame) /\ Len(stack') = 1 /\ stack'[1].node = End
        BY <1>3, <2>1, <2>2, ReplaceTop DEF WithTop
    <2>4. run' \in RunState /\ run'.op = "idle"
        BY <1>3 DEF Idle, RunState
    <2>5. SettledCallers(stack') /\ TopConsistent(stack', run')
        BY <2>3, <2>4 DEF SettledCallers, TopConsistent
    <2>6. Covers(pending', stack')
        <3>1. pending' = pending /\ Len(pending) \in Nat
            BY <2>1
        <3>2. [i \in 1 .. Len(stack') + 1 |-> 0] \in [1 .. Len(stack') + 1 -> 0 .. Len(pending')]
            BY <3>1
        <3>3. \A i \in 1 .. Len(stack') : stack'[i].node = End
            BY <2>3
        <3> HIDE <2>3
        <3> QED
            BY <3>2, <3>3, Zenon DEF Covers
    <2> QED
        BY <1>1, <2>1, <2>3, <2>4, <2>5, <2>6, Arrive, SMTT(30)
<1> QED
    BY <1>2, <1>3 DEF TerminateValidation, Moved

\* One iteration of AdvanceInternal.
LEMMA AdvanceInternalOK ==
    ASSUME Consistent, stack # <<>>, LateFaults = {}, AdvanceInternal
    PROVE  Consistent'
<1>1. run.op = "advance" /\ Completed(Top, run.edge) /\ Top.node \in Node
    BY StackFacts, Zenon DEF AdvanceInternal, Consistent, TopConsistent, Top, Completed
<1>2. run.edge \in DOMAIN Succ(Top.node) /\ run.edge # "exception"
    BY <1>1 DEF Completed
<1>3. CASE DryRun /\ IsBackEdge(Top.node, Succ(Top.node)[run.edge])
    BY <1>1, <1>2, <1>3, TerminateInCall DEF AdvanceInternal
<1>4. CASE ~(DryRun /\ IsBackEdge(Top.node, Succ(Top.node)[run.edge]))
    <2>1. FollowEdge(Succ(Top.node)[run.edge], NoExc)
        BY <1>1, <1>2, <1>4 DEF AdvanceInternal
    <2> QED
        BY <1>1, <1>2, <2>1, FollowEdgeOK
<1> QED
    BY <1>3, <1>4, SMTT(30)

\* One iteration of DispatchException.
LEMMA DispatchExceptionOK ==
    ASSUME Consistent, stack # <<>>, LateFaults = {}, DispatchException
    PROVE  Consistent'
<1>1. /\ run.op = "dispatch" /\ Top.node \in Node /\ run.exc \in Exc /\ Handled(stack)
      /\ "exception" \in DOMAIN Succ(Top.node) => Interrupted(Top)
    BY StackFacts, Zenon DEF DispatchException, Consistent, TopConsistent, Top
<1>2. CASE "exception" \in DOMAIN Succ(Top.node)
    <2>1. FollowEdge(Succ(Top.node)["exception"], run.exc)
        BY <1>2 DEF DispatchException
    <2> QED
        BY <1>1, <1>2, <2>1, FollowEdgeOK
<1>3. CASE "exception" \notin DOMAIN Succ(Top.node)
    <2>1. PICK i \in 1 .. Len(stack) : "exception" \in DOMAIN Succ(stack[i].node)
        BY <1>1 DEF Handled
    <2>2. i # Len(stack) /\ Len(stack) \in Nat /\ stack \in Seq(Frame)
        BY <2>1, <1>3, StackFacts
    <2>3. Len(stack) > 1 /\ i \in 1 .. Len(stack) - 1
        BY <2>1, <2>2
    <2>4. /\ Caller \in Seq(Frame) /\ Len(Caller) = Len(stack) - 1
          /\ \A j \in 1 .. Len(Caller) : Caller[j] = stack[j]
        BY <2>3, CallerFacts
    <2>5. Handled(Caller)
        BY <2>1, <2>3, <2>4 DEF Handled
    <2>6. ExitProcedure(Top, run) /\ UNCHANGED <<pending, errorVar, caseTrue, caseCurrent, returned>>
        BY <1>3, <2>3 DEF DispatchException
    <2>7. pending \in Seq(Exc) /\ Covers(pending, stack) /\ run \in RunState
        BY <1>1 DEF Consistent, TypeOK, PendingCoverHandlers
    <2>8. Covers(pending, Caller)
        BY <2>2, <2>4, <2>7, CoversPop
    <2>9. TransitionOK
        <3>1. open' \in Int
            BY <2>6 DEF Consistent, TypeOK, ExitProcedure
        <3> QED
            BY <3>1, <2>6 DEF Consistent, TypeOK, TransitionOK
    <2>10. Covers(pending', Caller)
        BY <2>6, <2>8
    <2> QED
        BY <1>1, <2>3, <2>5, <2>6, <2>7, <2>9, <2>10, ExitProcedureOK, SMTT(30)
<1> QED
    BY <1>2, <1>3

-----------------------------------------------------------------------------
(* Saving and restoring the state. *)

\* A loop stack without placeholders is restored as it was saved.
LEMMA SerializedOpen ==
    ASSUME NEW l \in Seq({"null", "open"}), \A j \in 1 .. Len(l) : l[j] = "open"
    PROVE  Serialized(l) = l
<1>1. {j \in 1 .. Len(l) : l[j] # "null"} = 1 .. Len(l)
    OBVIOUS
<1>2. Len(l) \in Nat
    OBVIOUS
<1>3. Cardinality(1 .. Len(l)) = Len(l)
    BY <1>2, FS_Interval, SMTT(30)
<1>4. Serialized(l) = [i \in 1 .. Len(l) |-> "open"]
    BY <1>1, <1>3 DEF Serialized
<1> QED
    BY <1>4

\* Any loop stack is saved as a loop stack.
LEMMA SerializedType ==
    ASSUME NEW l \in Seq({"null", "open"})
    PROVE  Serialized(l) \in Seq({"null", "open"})
<1> DEFINE opened == {j \in 1 .. Len(l) : l[j] # "null"}
<1>1. Len(l) \in Nat
    OBVIOUS
<1>2. IsFiniteSet(1 .. Len(l))
    BY <1>1, FS_Interval
<1>3. opened \in SUBSET (1 .. Len(l))
    OBVIOUS
<1> HIDE DEF opened
<1>4. Cardinality(opened) \in Nat
    BY <1>2, <1>3, FS_Subset, FS_CardinalityType, Zenon
<1>5. Serialized(l) = [i \in 1 .. Cardinality(opened) |-> "open"]
    BY DEF Serialized, opened
<1> QED
    BY <1>4, <1>5

\* What Restart makes of frame f.
Restored(f) == [f EXCEPT !.loops = Serialized(@)]

\* A restored frame is well typed.
LEMMA RestoredType ==
    ASSUME NEW f \in Frame
    PROVE  Restored(f) \in Frame /\ Restored(f).node = f.node
<1>1. Serialized(f.loops) \in Seq({"null", "open"})
    BY SerializedType DEF Frame
<1> QED
    BY <1>1 DEF Restored, Frame

\* A frame without placeholders is restored as it was saved.
LEMMA RestoredSame ==
    ASSUME NEW f \in Frame, \A j \in 1 .. Len(f.loops) : f.loops[j] = "open"
    PROVE  Restored(f) = f
<1>1. Serialized(f.loops) = f.loops
    BY SerializedOpen DEF Frame
<1> QED
    BY <1>1 DEF Restored, Frame

\* SetState accepted the state.
Accepted == stack' = [i \in 1 .. Len(stack) |-> Restored(stack[i])] /\ run' = Idle

\* SetState refused it for its size, or for an iterator.
Refused == ~IsComplete /\ stack' = <<>> /\ run' = Failed(NoExc)

\* Restart accepts the state of an idle executor, or refuses it, but for no check
\* of its variables and its depth.
LEMMA RestartAccepts ==
    ASSUME Consistent, stack # <<>>, Restart
    PROVE  /\ run = Idle
           /\ Refused \/ (Accepted /\ \A i \in 1 .. Len(stack) : SizesAccepted(stack[i]))
           /\ errorVar' = Innermost(pending) /\ returned' = FALSE
           /\ open' = Len(stack) - 1
           /\ UNCHANGED <<pending, caseTrue, caseCurrent>>
<1>1. run = Idle /\ run.op = "idle"
    BY DEF Restart, Idle
<1>2. \A i \in 1 .. Len(stack) : stack[i].node # End => Settled(stack[i])
    <2>1. Len(stack) \in Nat
        BY StackFacts
    <2>2. \A i \in 1 .. Len(stack) - 1 : Settled(stack[i])
        BY DEF Consistent, CallersSettled, SettledCallers
    <2>3. stack[Len(stack)].node # End => Settled(stack[Len(stack)])
        BY <1>1 DEF Consistent, TopConsistent
    <2> QED
        BY ONLY <2>1, <2>2, <2>3
<1>3. \A i \in 1 .. Len(stack) : VariablesValid(stack[i])
    BY <1>2 DEF VariablesValid, Settled
<1>4. Len(stack) <= MaxDepth
    BY StackFacts
<1> QED
    BY <1>1, <1>3, <1>4, Zenon DEF Restart, Restored, Accepted, Refused

\* A refused executor has no stack and has failed.
LEMMA RefusedOK ==
    ASSUME Consistent, Refused, TransitionOK
    PROVE  Consistent'
<1>1. stack' = <<>> /\ stack' \in Seq(Frame) /\ Len(stack') = 0
    BY DEF Refused
<1>2. run' \in RunState /\ run'.op = "failed"
    BY DEF Refused, Failed, RunState
<1>3. TypeOK'
    BY <1>1, <1>2, InnermostType, Zenon DEF TransitionOK, TypeOK
<1>4. SettledCallers(stack') /\ TopConsistent(stack', run')
    BY <1>1, <1>2 DEF SettledCallers, TopConsistent
<1>5. Len(stack') \in 0 .. MaxDepth /\ (DryRun => Len(stack') <= 1)
    BY <1>1, OptionsAssumption
<1>6. NoInternalError' /\ CallersSettled' /\ PendingCoverHandlers'
    BY <1>2, <1>4 DEF NoInternalError, CallersSettled, PendingCoverHandlers
<1> QED
    BY <1>2, <1>3, <1>4, <1>5, <1>6, Zenon DEF Consistent, TransitionOK

\* Outside a dry run every iterator is there and is restored.
LEMMA RestartSame ==
    ASSUME Consistent, stack # <<>>, Restart, Accepted, ~DryRun \/ Top.node # End
    PROVE  stack' = stack
<1>1. run.op = "idle"
    BY RestartAccepts DEF Idle
<1>2. \A i \in 1 .. Len(stack) : \A j \in 1 .. Len(stack[i].loops) : stack[i].loops[j] = "open"
    <2>1. \A i \in 1 .. Len(stack) - 1 : Settled(stack[i])
        BY DEF Consistent, CallersSettled, SettledCallers
    <2>2. Settled(Top) \/ Top.loops = <<>>
        BY <1>1 DEF Consistent, TopConsistent, Top
    <2>3. \A j \in 1 .. Len(Top.loops) : Top.loops[j] = "open"
        BY <2>2 DEF Settled
    <2>4. Len(stack) \in Nat /\ Top = stack[Len(stack)]
        BY StackFacts
    <2> QED
        BY <2>1, <2>3, <2>4 DEF Settled
<1>3. \A i \in 1 .. Len(stack) : Restored(stack[i]) = stack[i]
    BY <1>2, StackFacts, RestoredSame
<1> QED
    BY <1>3, StackFacts DEF Accepted

\* Saving and restoring the state of a consistent executor.
LEMMA RestartOK ==
    ASSUME Consistent, stack # <<>>, Restart
    PROVE  Consistent'
<1>1. /\ run = Idle /\ errorVar' = Innermost(pending') /\ returned' = FALSE
      /\ open' = Len(stack) - 1
      /\ UNCHANGED <<pending, caseTrue, caseCurrent>>
    BY RestartAccepts
<1>2. Idle \in RunState /\ Idle.op = "idle" /\ run.op = "idle"
    BY <1>1 DEF Idle, RunState
<1>3. Len(stack) \in Nat /\ Len(stack) >= 1 /\ stack \in Seq(Frame)
    BY StackFacts
<1>4. TransitionOK
    <2>1. open' \in Int
        BY <1>1, <1>3
    <2>2. returned' \in BOOLEAN
        BY <1>1, Zenon
    <2>3. /\ pending' \in Seq(Exc) /\ errorVar' = Innermost(pending')
          /\ caseTrue' \in Int /\ caseCurrent' \in Int
        BY <1>1 DEF Consistent, TypeOK
    <2> QED
        BY <2>1, <2>2, <2>3, Zenon DEF TransitionOK
<1>r. CASE Refused
    BY <1>r, <1>4, RefusedOK
<1>5. CASE Accepted /\ (~DryRun \/ Top.node # End)
    <2>1. stack' = stack /\ run' = run
        BY <1>1, <1>5, RestartSame, Zenon DEF Accepted
    <2>2. SettledCallers(stack') /\ TopConsistent(stack', run')
        BY <2>1 DEF Consistent, CallersSettled
    <2>3. Covers(pending', stack')
        BY <1>1, <1>2, <2>1 DEF Consistent, PendingCoverHandlers
    <2> QED
        BY <1>1, <1>2, <1>3, <1>4, <2>1, <2>2, <2>3, Arrive, SMTT(30)
<1>6. CASE Accepted /\ DryRun /\ Top.node = End
    <2>1. Len(stack) = 1 /\ Top = stack[1] /\ pending \in Seq(Exc)
        BY <1>6, StackFacts, SMTT(30) DEF Consistent, TypeOK
    <2>2. stack' = [i \in 1 .. 1 |-> Restored(stack[i])] /\ run' = Idle
        BY <1>6, <2>1, Zenon DEF Accepted
    <2>3. Restored(stack[1]) \in Frame /\ Restored(stack[1]).node = End
        BY <1>3, <1>6, <2>1, RestoredType
    <2>4. stack' \in Seq(Frame) /\ Len(stack') = 1 /\ stack'[1].node = End
        BY <2>2, <2>3
    <2>5. SettledCallers(stack') /\ TopConsistent(stack', run')
        BY <1>2, <1>6, <2>2, <2>4, SMTT(30) DEF SettledCallers, TopConsistent
    <2>6. Covers(pending', stack')
        <3>1. Covers(pending, stack)
            BY <1>2, SMTT(30) DEF Consistent, PendingCoverHandlers
        <3>2. \A i \in 1 .. Len(stack') : stack'[i].node = stack[i].node
            BY <1>6, <2>1, <2>4
        <3>3. Len(stack') = Len(stack) /\ pending' = pending
            BY <1>1, <2>1, <2>4
        <3> QED
            BY <3>1, <3>2, <3>3, SMTT(30) DEF Covers
    <2> QED
        BY <1>2, <1>4, <2>1, <2>2, <2>4, <2>5, <2>6, Arrive, SMTT(30)
<1>7. Refused \/ Accepted
    BY RestartAccepts, Zenon
<1> QED
    BY <1>r, <1>5, <1>6, <1>7, Zenon

=============================================================================
