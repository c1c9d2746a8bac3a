------------------------ MODULE ScriptControlProofs -------------------------
(***************************************************************************)
(* Proofs about ScriptControl, for every set of scripts whose graphs       *)
(* satisfy GraphAssumption, EdgeAssumption and CaseAssumption, and every   *)
(* evaluator, as long as no call fails in the middle of a transition       *)
(* (LateFaults = {}).                                                      *)
(***************************************************************************)
EXTENDS ScriptControlTransitions

-----------------------------------------------------------------------------
(* The invariant. *)

\* A new executor is consistent.
LEMMA InitOK ==
    ASSUME Init
    PROVE  Consistent
<1>1. PICK start \in MainStarts : stack = <<NewFrame(start, {})>>
    BY DEF Init
<1>2. /\ start \in Node /\ start # End /\ ForDepth(start) = 0
      /\ HandlerDepth(start) = 0 /\ Scope(start) = {}
    BY GraphAssumption
<1> DEFINE f == NewFrame(start, {})
<1>3. f \in Frame /\ f.node = start /\ Settled(f)
    <2>1. f.node = start /\ f.vars = {} /\ f.loops = <<>> /\ f.script = start
        BY ONLY DEF NewFrame
    <2>2. f \in Frame
        <3>1. <<>> \in Seq({"null", "open"}) /\ {} \in SUBSET Var
            BY ONLY TRUE
        <3> QED
            BY ONLY <1>2, <3>1 DEF NewFrame, Frame
    <2> HIDE DEF f
    <2>3. Len(f.loops) = 0 /\ 1 .. Len(f.loops) = {}
        BY ONLY <2>1
    <2>4. Settled(f)
        BY ONLY <1>2, <2>1, <2>3 DEF Settled
    <2> QED
        BY <2>1, <2>2, <2>4
<1> HIDE DEF f
<1>4. stack = <<f>>
    BY <1>1 DEF f
<1>5. stack \in Seq(Frame) /\ Len(stack) = 1 /\ stack[1] = f
    BY <1>3, <1>4
<1>6. run = Idle /\ run.op = "idle" /\ run \in RunState
    BY DEF Init, Idle, RunState
<1>7. TopConsistent(stack, run) /\ SettledCallers(stack)
    <2>1. SettledCallers(stack)
        BY ONLY <1>5 DEF SettledCallers
    <2>2. stack[Len(stack)] = f /\ f.node # End
        BY ONLY <1>2, <1>3, <1>5
    <2>3. TopConsistent(stack, run)
        BY ONLY <1>3, <1>6, <2>2 DEF TopConsistent
    <2> QED
        BY <2>1, <2>3
<1>8. Covers(pending, stack)
    <2>1. pending = <<>> /\ Len(pending) = 0
        BY DEF Init
    <2> DEFINE base == [i \in 1 .. 2 |-> 0]
    <2>2. base \in [1 .. Len(stack) + 1 -> 0 .. Len(pending)]
        BY <2>1, <1>5
    <2>3. \A i \in 1 .. Len(stack) : \A j \in i + 1 .. Len(stack) + 1 :
            stack[i].node # End => base[i] + HandlerDepth(stack[i].node) <= base[j]
        BY <1>2, <1>3, <1>5
    <2> HIDE DEF base
    <2> QED
        BY <2>2, <2>3 DEF Covers
<1>9. pending \in Seq(Exc) /\ errorVar = Innermost(pending) /\ errorVar \in Exc \cup {NoExc}
    BY DEF Init, Innermost
<1>10. caseTrue \in Int /\ caseCurrent \in Int /\ open \in Int
    BY DEF Init
<1>11. returned \in BOOLEAN
    BY Zenon DEF Init
<1>12. TypeOK
    BY <1>5, <1>6, <1>9, <1>10, <1>11, Zenon DEF TypeOK
<1>13. Len(stack) \in 0 .. MaxDepth /\ (DryRun => Len(stack) <= 1)
    BY <1>5, OptionsAssumption
<1>14. NoInternalError /\ CallersSettled /\ PendingCoverHandlers
    BY <1>6, <1>7, <1>8 DEF NoInternalError, CallersSettled, PendingCoverHandlers
<1> QED
    BY <1>4, <1>6, <1>7, <1>9, <1>12, <1>13, <1>14, Zenon DEF Consistent

\* Only an executor with a stack takes a step.
LEMMA StackNotEmpty ==
    ASSUME Consistent, Next
    PROVE  stack # <<>>
<1>1. CASE ExecuteStatement
    <2>1. run = Idle
        BY <1>1, Zenon DEF ExecuteStatement, Jump, Return, PlainStatement, ExecuteAssignment,
           ExecuteVariableDeclaration, EvaluateCondition, ExecuteCaseStatement,
           EvaluateWhenThenClause, BeginForLoop, AdvanceForLoop, ExecuteCallStatement,
           ExecuteDynamicStatement, ExecuteDynamicIntoStatement, ExecuteRaiseStatement, At
    <2> QED
        BY <2>1 DEF Consistent, Idle
<1>2. CASE FinishCall
    BY <1>2, Zenon DEF FinishCall, AdvanceInternal, DispatchException, Consistent
<1>3. CASE Restart
    BY <1>3 DEF Restart, Consistent, Idle
<1> QED
    BY <1>1, <1>2, <1>3 DEF Next

\* Every step of the executor keeps it consistent.
LEMMA NextOK ==
    ASSUME Consistent, LateFaults = {}, [Next]_vars
    PROVE  Consistent'
<1>0. Next => stack # <<>>
    BY StackNotEmpty
<1>1. CASE ExecuteStatement
    <2> stack # <<>>
        BY <1>0, <1>1 DEF Next
    <2>1. CASE Jump
        BY <2>1, JumpOK
    <2>2. CASE Return
        BY <2>2, ReturnOK, SMTT(30)
    <2>3. CASE PlainStatement
        BY <2>3, PlainStatementOK
    <2>4. CASE ExecuteVariableDeclaration
        BY <2>4, ExecuteVariableDeclarationOK
    <2>5. CASE EvaluateCondition
        BY <2>5, EvaluateConditionOK
    <2>6. CASE ExecuteCaseStatement
        BY <2>6, ExecuteCaseStatementOK
    <2>7. CASE EvaluateWhenThenClause
        BY <2>7, EvaluateWhenThenClauseOK
    <2>8. CASE BeginForLoop
        BY <2>8, BeginForLoopOK
    <2>9. CASE AdvanceForLoop
        BY <2>9, AdvanceForLoopOK
    <2>10. CASE ExecuteCallStatement
        BY <2>10, ExecuteCallStatementOK
    <2>11. CASE ExecuteDynamicStatement
        BY <2>11, ExecuteDynamicStatementOK
    <2>12. CASE ExecuteDynamicIntoStatement
        BY <2>12, ExecuteDynamicIntoStatementOK
    <2>13. CASE ExecuteRaiseStatement
        BY <2>13, ExecuteRaiseStatementOK
    <2>14. CASE ExecuteAssignment
        BY <2>14, ExecuteAssignmentOK
    <2> QED
        BY <1>1, <2>1, <2>2, <2>3, <2>4, <2>5, <2>6, <2>7, <2>8, <2>9, <2>10,
           <2>11, <2>12, <2>13, <2>14, SMTT(30) DEF ExecuteStatement
<1>2. CASE FinishCall
    BY <1>0, <1>2, AdvanceInternalOK, DispatchExceptionOK, SMTT(30) DEF FinishCall, Next
<1>3. CASE Restart
    BY <1>0, <1>3, RestartOK DEF Next
<1>4. CASE UNCHANGED vars
    BY <1>4, Zenon DEF vars, Consistent, TypeOK, NoInternalError, CallersSettled, SettledCallers,
                TopConsistent, PendingCoverHandlers, Covers, Handled, Completed,
                Interrupted, Settled
<1> QED
    BY <1>1, <1>2, <1>3, <1>4 DEF Next

\* For all scripts and all answers of the evaluator, the executor is consistent
\* before, within and after every call of ExecuteNext.
THEOREM ExecutorConsistent ==
    ASSUME LateFaults = {}
    PROVE  Spec => []Consistent
<1>1. Init => Consistent
    BY InitOK
<1>2. Consistent /\ [Next]_vars => Consistent'
    BY NextOK
<1> QED
    BY <1>1, <1>2, PTL DEF Spec

\* The executor's fields have their types.
THEOREM TypeCorrect ==
    ASSUME LateFaults = {}
    PROVE  Spec => []TypeOK
<1>1. Consistent => TypeOK
    BY DEF Consistent
<1> QED
    BY <1>1, ExecutorConsistent, PTL

\* No GOOGLESQL_RET_CHECK of the executor's control flow, and none of SetState on what
\* GetState saved, ever fails.
THEOREM ChecksNeverFail ==
    ASSUME LateFaults = {}
    PROVE  Spec => []NoInternalError
<1>1. Consistent => NoInternalError
    BY DEF Consistent
<1> QED
    BY <1>1, ExecutorConsistent, PTL

\* Every frame that waits for a call is as its node says.
THEOREM CallersStaySettled ==
    ASSUME LateFaults = {}
    PROVE  Spec => []CallersSettled
<1>1. Consistent => CallersSettled
    BY DEF Consistent
<1> QED
    BY <1>1, ExecutorConsistent, PTL

\* Between calls the top frame has exactly its variables and iterators.
THEOREM TopIsSettled ==
    ASSUME LateFaults = {}
    PROVE  Spec => []TopSettled
<1>1. Consistent => TopSettled
    <2>1. Consistent /\ run.op = "idle" /\ Top.node # End => Settled(Top)
        BY Zenon DEF Consistent, TopConsistent, Top
    <2> QED
        BY <2>1 DEF TopSettled, Idle
<1> QED
    BY <1>1, ExecutorConsistent, PTL

\* There is a pending exception for every handler that is being executed.
THEOREM HandlersHaveExceptions ==
    ASSUME LateFaults = {}
    PROVE  Spec => []PendingCoverHandlers
<1>1. Consistent => PendingCoverHandlers
    BY DEF Consistent
<1> QED
    BY <1>1, ExecutorConsistent, PTL

\* @@error is that of the innermost pending exception, and set in a handler.
THEOREM ErrorVariableCurrent ==
    ASSUME LateFaults = {}
    PROVE  Spec => []ErrorVarCurrent
<1>1. Consistent => ErrorVarCurrent
    <2> SUFFICES ASSUME Consistent PROVE ErrorVarCurrent
        OBVIOUS
    <2>1. errorVar = Innermost(pending) /\ pending \in Seq(Exc)
        BY DEF Consistent, TypeOK
    <2>2. ASSUME run = Idle, Top.node # End, HandlerDepth(Top.node) > 0
          PROVE  errorVar \in Exc
        <3>0. stack # <<>>
            BY <2>2 DEF Consistent, Idle
        <3>1. Covers(pending, stack)
            BY <2>2 DEF Consistent, PendingCoverHandlers, Idle
        <3>2. HandlerDepth(Top.node) <= Len(pending) /\ HandlerDepth(Top.node) \in Nat
            BY <2>1, <2>2, <3>0, <3>1, StackFacts, CoversTop, Depths, SMTT(30)
        <3>3. Len(pending) \in Nat \ {0}
            BY <2>1, <2>2, <3>2
        <3>4. pending # <<>> /\ pending[Len(pending)] \in Exc
            BY <2>1, <3>3
        <3> QED
            BY <2>1, <3>4 DEF Innermost
    <2> QED
        BY <2>1, <2>2 DEF ErrorVarCurrent
<1> QED
    BY <1>1, ExecutorConsistent, PTL

-----------------------------------------------------------------------------
(* What a step may never do. *)

\* A step that does not end the call with an unhandled exception.
NoEscape == run'.op = "failed" /\ run'.exc # NoExc => DryRun \/ ~Handled(stack)

\* A statement that leaves a handled exception to MaybeDispatchException does not
\* let it escape: s has the frames of the stack, perhaps with one on top.
LEMMA ThrowsNoEscape ==
    ASSUME NEW s, NEW outer, Throws(s, outer), stack \in Seq(Frame), s \in Seq(Frame),
           Len(s) >= Len(stack), \A i \in 1 .. Len(stack) : s[i].node = stack[i].node
    PROVE  NoEscape
<1>1. PICK exc \in Exc : run' = MaybeDispatch(s, exc, outer)
    BY DEF Throws
<1>2. Handled(stack) => Handled(s)
    BY DEF Handled
<1>3. CASE ~DryRun /\ Handled(s)
    BY <1>1, <1>3 DEF MaybeDispatch, Dispatching, NoEscape
<1>4. CASE DryRun \/ ~Handled(s)
    BY <1>2, <1>4, Zenon DEF NoEscape
<1> QED
    BY <1>3, <1>4

\* The statements that leave the stack alone when they throw.
LEMMA SameThrowsNoEscape ==
    ASSUME Consistent, stack # <<>>, NEW outer, Throws(stack, outer)
    PROVE  NoEscape
    BY StackFacts, ThrowsNoEscape

\* The statements that change only the top frame when they throw.
LEMMA TopThrowsNoEscape ==
    ASSUME Consistent, stack # <<>>, NEW outer, NEW f \in Frame, f.node = Top.node,
           Throws(WithTop(f), outer)
    PROVE  NoEscape
<1>1. stack \in Seq(Frame) /\ Len(stack) >= 1 /\ Top = stack[Len(stack)]
    BY StackFacts
<1>2. /\ WithTop(f) \in Seq(Frame) /\ Len(WithTop(f)) = Len(stack)
      /\ WithTop(f)[Len(stack)] = f
      /\ \A i \in 1 .. Len(stack) - 1 : WithTop(f)[i] = stack[i]
    BY <1>1, ReplaceTop DEF WithTop
<1>3. \A i \in 1 .. Len(stack) : WithTop(f)[i].node = stack[i].node
    BY <1>1, <1>2
<1> QED
    BY <1>1, <1>2, <1>3, ThrowsNoEscape

\* The statements that store values when they throw.
LEMMA StoringThrowsNoEscape ==
    ASSUME Consistent, stack # <<>>, NEW outer,
           NEW f \in Assigned(Top) \cup AssignedInPart(Top), Throws(WithTop(f), outer)
    PROVE  NoEscape
<1>1. f \in Frame /\ f.node = Top.node
    BY StackFacts, AssignedFacts, Zenon
<1> QED
    BY <1>1, TopThrowsNoEscape, Zenon

\* The other ways to end a statement.
LEMMA OthersNoEscape ==
    ASSUME NEW s, NEW kind, NEW outer, NEW f,
           \/ Advances(s, kind, outer) \/ Aborts \/ TerminateValidation(f)
           \/ AdvancePastCondition(kind, outer)
           \/ run' = Idle \/ run' = InternalError
    PROVE  NoEscape
    BY DEF NoEscape, Advances, Aborts, TerminateValidation, AdvancePastCondition,
           Advancing, Failed, Idle, InternalError

\* The transitions, when nothing fails in the middle.
LEMMA FinishNoEscape ==
    ASSUME LateFaults = {}, FinishCall, run.op \in {"advance", "dispatch"}
    PROVE  NoEscape
<1>1. \A f, then : ExitProcedure(f, then) =>
        run' = then \/ run' = InternalError \/ run' = Failed(NoExc)
    BY DEF ExitProcedure, Aborts
<1>2. \A e, f : UpdateCurrentLocation(e, f) =>
        \/ run' = Advancing("normal", run.outer) \/ run' = InternalError
        \/ run' = Failed(NoExc) \/ run' = Idle
    BY <1>1 DEF UpdateCurrentLocation
<1>3. \A e, exc : FollowEdge(e, exc) =>
        \/ run' = Advancing("normal", run.outer) \/ run' = InternalError
        \/ run' = Failed(NoExc) \/ run' = Idle
    BY <1>2 DEF FollowEdge
<1>4. \/ run' = Advancing("normal", run.outer) \/ run' = InternalError
      \/ run' = Failed(NoExc) \/ run' = Idle \/ run' = run
    BY <1>1, <1>3 DEF FinishCall, AdvanceInternal, DispatchException, TerminateValidation, Aborts
<1> QED
    BY <1>4 DEF NoEscape, Advancing, InternalError, Failed, Idle

\* DECLARE and FOR may throw with some variables created.
LEMMA DeclarationNoEscape ==
    ASSUME Consistent, stack # <<>>, ExecuteVariableDeclaration
    PROVE  NoEscape
<1> DEFINE ids == Creates(Top.node)
           Declaring(k) == [Top EXCEPT !.vars = @ \cup Names(SubSeq(ids, 1, k))]
<1>1. CASE \E k \in 0 .. Len(ids) : Throws(WithTop(Declaring(k)), FALSE)
    <2>1. PICK k \in 0 .. Len(ids) : Throws(WithTop(Declaring(k)), FALSE)
        BY <1>1, Zenon
    <2>2. Top \in Frame /\ Top.node \in Node
        BY StackFacts, AtFacts DEF ExecuteVariableDeclaration
    <2>3. Names(SubSeq(ids, 1, k)) \subseteq Var
        BY <2>2, GraphAssumption, NamesOfPrefix
    <2>4. Declaring(k) \in Frame /\ Declaring(k).node = Top.node
        BY <2>2, <2>3 DEF Frame
    <2> HIDE DEF Declaring
    <2> QED
        BY <2>1, <2>4, TopThrowsNoEscape, Zenon
<1>2. CASE Advances(WithTop(Declaring(Len(ids))), "normal", FALSE) \/ Aborts
    BY <1>2, OthersNoEscape, Zenon
<1> QED
    BY <1>1, <1>2, Zenon DEF ExecuteVariableDeclaration

\* FOR does not let a handled exception escape.
LEMMA BeginForLoopNoEscape ==
    ASSUME Consistent, stack # <<>>, BeginForLoop
    PROVE  NoEscape
<1> DEFINE new == Names(Creates(Top.node))
           Left(created, iterator) ==
               [Top EXCEPT !.vars = @ \cup created, !.loops = Append(@, iterator)]
<1>1. CASE \E created \in {{}, new}, iterator \in {"null", "open"} :
                Throws(WithTop(Left(created, iterator)), FALSE)
    <2>1. PICK created \in {{}, new}, iterator \in {"null", "open"} :
                Throws(WithTop(Left(created, iterator)), FALSE)
        BY <1>1, Zenon
    <2>2. Top \in Frame /\ Top.node \in Node /\ Top.loops \in Seq({"null", "open"})
        BY StackFacts, AtFacts DEF BeginForLoop
    <2>3. created \subseteq Var
        BY <2>2, GraphAssumption, NamesOfPrefix
    <2>4. Append(Top.loops, iterator) \in Seq({"null", "open"})
        BY <2>2
    <2>5. Left(created, iterator) \in Frame /\ Left(created, iterator).node = Top.node
        BY <2>2, <2>3, <2>4, Zenon DEF Frame
    <2> HIDE DEF Left
    <2> QED
        BY <2>1, <2>5, TopThrowsNoEscape, Zenon
<1>2. CASE \/ Advances(WithTop(Left(new, "open")), "true", TRUE)
           \/ Advances(WithTop(Left({}, "open")), "false", TRUE)
           \/ Aborts \/ run' = InternalError \/ TerminateValidation(Left({}, "null"))
    <2> HIDE DEF Left
    <2> QED
        BY <1>2, OthersNoEscape, Zenon
<1> QED
    BY <1>1, <1>2, Zenon DEF BeginForLoop

\* EXECUTE IMMEDIATE INTO may throw with the new frame on the stack.
LEMMA DynamicIntoNoEscape ==
    ASSUME Consistent, stack # <<>>, ExecuteDynamicIntoStatement
    PROVE  NoEscape
<1>1. CASE Advances(stack, "normal", TRUE) \/ Aborts
    BY <1>1, OthersNoEscape, Zenon
<1>2. CASE Throws(stack, FALSE)
    BY <1>2, SameThrowsNoEscape, Zenon
<1>3. ASSUME NEW body \in Bodies(Top.node),
             NEW g \in {Top} \cup Assigned(Top) \cup AssignedInPart(Top),
             Throws(Append(WithTop(g), NewFrame(body, {})), FALSE)
      PROVE  NoEscape
    <2>1. Top.node \in Node /\ stack \in Seq(Frame)
        BY StackFacts, AtFacts, Zenon DEF ExecuteDynamicIntoStatement
    <2>a. g \in Frame /\ g.node = Top.node
        BY <1>3, StackFacts, AssignedFacts, Zenon
    <2>b. /\ WithTop(g) \in Seq(Frame) /\ Len(WithTop(g)) = Len(stack)
          /\ \A i \in 1 .. Len(stack) : WithTop(g)[i].node = stack[i].node
        <3>1. /\ WithTop(g) \in Seq(Frame) /\ Len(WithTop(g)) = Len(stack)
              /\ WithTop(g)[Len(stack)] = g
              /\ \A i \in 1 .. Len(stack) - 1 : WithTop(g)[i] = stack[i]
            BY <2>1, <2>a, StackFacts, ReplaceTop DEF WithTop
        <3> QED
            BY <2>a, <3>1, StackFacts
    <2>2. NewFrame(body, {}) \in Frame
        BY <2>1, NewFrameFacts, Zenon DEF NewFrame, Frame
    <2> DEFINE f == NewFrame(body, {})
               s == WithTop(g)
    <2> HIDE DEF f, s
    <2>3. /\ Append(s, f) \in Seq(Frame)
          /\ Len(Append(s, f)) >= Len(stack)
          /\ \A i \in 1 .. Len(stack) : Append(s, f)[i].node = stack[i].node
        <3>1. f \in Frame
            BY <2>2 DEF f
        <3>2. /\ s \in Seq(Frame) /\ Len(s) = Len(stack)
              /\ \A i \in 1 .. Len(stack) : s[i].node = stack[i].node
            BY <2>b DEF s
        <3> QED
            BY ONLY <2>1, <3>1, <3>2
    <2> QED
        BY <1>3, <2>1, <2>3, ThrowsNoEscape, Zenon DEF f, s
<1>4. ASSUME NEW body, NEW g,
             Advances(Append(WithTop(g), NewFrame(body, {})), "normal", TRUE)
      PROVE  NoEscape
    BY <1>4, OthersNoEscape, Zenon
<1>5. CASE \E f \in AssignedInPart(Top) : Throws(WithTop(f), FALSE)
    BY <1>5, StoringThrowsNoEscape, Zenon
<1> QED
    BY <1>1, <1>2, <1>3, <1>4, <1>5, Zenon DEF ExecuteDynamicIntoStatement

\* RAISE: the exception is new, or the innermost pending one.
LEMMA RaiseNoEscape ==
    ASSUME Consistent, stack # <<>>, ExecuteRaiseStatement
    PROVE  NoEscape
<1>1. CASE run' = Idle \/ run' = InternalError \/ Aborts
    BY <1>1, OthersNoEscape, SMTT(30)
<1>2. CASE Throws(stack, FALSE)
    BY <1>2, SameThrowsNoEscape, Zenon
<1>3. CASE run' = MaybeDispatch(stack, Innermost(pending), FALSE)
    BY <1>3 DEF MaybeDispatch, Dispatching, NoEscape
<1>4. \/ run' = Idle \/ run' = InternalError \/ Aborts \/ Throws(stack, FALSE)
      \/ run' = MaybeDispatch(stack, Innermost(pending), FALSE)
    <2>1. CASE pending = <<>>
        BY <2>1, Zenon DEF ExecuteRaiseStatement
    <2>2. CASE pending # <<>>
        BY <2>2, Zenon DEF ExecuteRaiseStatement
    <2> QED
        BY <2>1, <2>2, Zenon
<1> QED
    BY <1>1, <1>2, <1>3, <1>4, Zenon

\* No step lets an exception escape that a frame handles.
LEMMA NextNoEscape ==
    ASSUME Consistent, LateFaults = {}, Next
    PROVE  NoEscape
<1> stack # <<>>
    BY StackNotEmpty
<1>1. CASE ExecuteStatement
    <2>1. CASE Jump \/ Return \/ PlainStatement \/ ExecuteCaseStatement \/ EvaluateCondition
        <3>1. \/ Advances(stack, "normal", FALSE) \/ Throws(stack, FALSE) \/ Aborts
              \/ \E value \in {"true", "false"} : AdvancePastCondition(value, FALSE)
            BY <2>1, Zenon DEF Jump, Return, PlainStatement, ExecuteCaseStatement, EvaluateCondition
        <3> QED
            BY <3>1, OthersNoEscape, SameThrowsNoEscape, Zenon
    <2>2. CASE EvaluateWhenThenClause
        BY <2>2, OthersNoEscape, Zenon DEF EvaluateWhenThenClause
    <2>3. CASE AdvanceForLoop
        <3>1. \/ run' = InternalError \/ Throws(stack, FALSE) \/ Aborts
              \/ AdvancePastCondition("false", TRUE) \/ TerminateValidation(Top)
              \/ \E s : Advances(s, "true", TRUE)
            BY <2>3, Zenon DEF AdvanceForLoop
        <3> QED
            BY <3>1, OthersNoEscape, SameThrowsNoEscape, Zenon
    <2>4. CASE ExecuteCallStatement
        <3>1. \/ (\E s : Advances(s, "normal", TRUE)) \/ Aborts \/ run' = Idle
              \/ \E f \in Assigned(Top), outer \in BOOLEAN : Throws(WithTop(f), outer)
            BY <2>4, Zenon DEF ExecuteCallStatement
        <3> QED
            BY <3>1, OthersNoEscape, StoringThrowsNoEscape, Zenon
    <2>5. CASE ExecuteDynamicStatement
        <3>1. \/ Advances(stack, "normal", TRUE) \/ Aborts \/ run' = Idle
              \/ Throws(stack, FALSE)
            BY <2>5, Zenon DEF ExecuteDynamicStatement
        <3> QED
            BY <3>1, OthersNoEscape, SameThrowsNoEscape, Zenon
    <2>6. CASE ExecuteAssignment
        <3>1. \/ (\E s : Advances(s, "normal", FALSE)) \/ Aborts
              \/ \E f \in AssignedInPart(Top) : Throws(WithTop(f), FALSE)
            BY <2>6, Zenon DEF ExecuteAssignment
        <3> QED
            BY <3>1, OthersNoEscape, StoringThrowsNoEscape, Zenon
    <2> QED
        BY <1>1, <2>1, <2>2, <2>3, <2>4, <2>5, <2>6, DeclarationNoEscape, BeginForLoopNoEscape,
           DynamicIntoNoEscape, RaiseNoEscape, SMTT(30) DEF ExecuteStatement
<1>2. CASE FinishCall
    <2>1. run.op \in {"advance", "dispatch"}
        BY <1>2 DEF FinishCall, AdvanceInternal, DispatchException
    <2> QED
        BY <1>2, <2>1, FinishNoEscape
<1>3. CASE Restart
    BY <1>3, RestartAccepts DEF NoEscape, Idle, Accepted, Refused, Failed
<1> QED
    BY <1>1, <1>2, <1>3 DEF Next

\* ExecuteNext never returns a script exception that a frame of the stack has a
\* handler for.
THEOREM HandledExceptionsAreHandled ==
    ASSUME LateFaults = {}
    PROVE  Spec => HandledNeverEscapes
<1>1. Consistent /\ [Next]_vars =>
        [run'.op = "failed" /\ run'.exc # NoExc => DryRun \/ ~Handled(stack)]_vars
    BY NextNoEscape DEF NoEscape
<1> QED
    BY <1>1, ExecutorConsistent, PTL DEF Spec, HandledNeverEscapes

\* Saving the state and restoring it in another process, whenever it happens between
\* two calls of ExecuteNext, changes nothing that a script can see, or SetState refuses
\* the state of an incomplete script, for its size or an iterator that cannot be read
\* back, and leaves an executor that runs nothing.  No state is refused for its variables or its depth.
THEOREM RestartsAreInvisible ==
    ASSUME LateFaults = {}, ~DryRun
    PROVE  Spec => RestartInvisible
<1>1. ASSUME Consistent, Restart
      PROVE  IF stack' = <<>> THEN ~IsComplete /\ run' = Failed(NoExc)
             ELSE UNCHANGED <<stack, pending, errorVar, caseTrue, caseCurrent, run>>
    <2>1. stack # <<>>
        BY <1>1, StackNotEmpty DEF Next
    <2>2. CASE Refused
        BY <2>2, Zenon DEF Refused
    <2>3. CASE Accepted
        <3>1. stack' = stack /\ run' = run
            BY <1>1, <2>1, <2>3, RestartSame, RestartAccepts, Zenon DEF Accepted
        <3>2. UNCHANGED <<pending, errorVar, caseTrue, caseCurrent>>
            BY <1>1, <2>1, RestartAccepts DEF Consistent
        <3> QED
            BY <2>1, <3>1, <3>2, Zenon
    <2> QED
        BY <1>1, <2>1, <2>2, <2>3, RestartAccepts, Zenon
<1>2. Consistent =>
        [Restart =>
            IF stack' = <<>> THEN ~IsComplete /\ run' = Failed(NoExc)
            ELSE UNCHANGED <<stack, pending, errorVar, caseTrue, caseCurrent, run>>]_vars
    BY <1>1, Zenon
<1> QED
    BY <1>2, ExecutorConsistent, PTL DEF Spec, RestartInvisible

-----------------------------------------------------------------------------
(* CASE. *)

\* What makes CaseInStep inductive.  Within a call, CASE has set the indices when its edge
\* is followed, and a WHEN clause that does not hold has been counted and is before the
\* one that does.
CaseConsistent ==
    /\ caseTrue >= -1
    /\ Top.node # End =>
        /\ run.op = "idle" /\ Kind(Top.node) = "when" =>
            caseCurrent = Clause(Top.node) - 1 /\ (caseTrue = -1 \/ caseTrue >= Clause(Top.node))
        /\ run.op = "advance" /\ Kind(Top.node) = "case" => caseCurrent = -1
        /\ run.op = "advance" /\ Kind(Top.node) = "when" /\ run.edge = "false" =>
            caseCurrent = Clause(Top.node) /\ (caseTrue = -1 \/ caseTrue > Clause(Top.node))

\* The step leaves the indices alone and ends neither at a clause nor in a CASE.
AwayFromCase ==
    /\ UNCHANGED <<caseTrue, caseCurrent>>
    /\ \/ Top'.node = End
       \/ run'.op \notin {"idle", "advance"}
       \/ Kind(Top'.node) # "when" /\ (run'.op = "advance" => Kind(Top'.node) # "case")

\* Such a step disturbs no CASE.
LEMMA AwayKeepsCase ==
    ASSUME CaseConsistent, AwayFromCase
    PROVE  CaseConsistent'
<1>1. UNCHANGED <<caseTrue, caseCurrent>>
    BY DEF AwayFromCase
<1> QED
    BY <1>1 DEF CaseConsistent, AwayFromCase

\* The top frame after a step that replaces it.
LEMMA NewTop ==
    ASSUME Consistent, stack # <<>>, NEW f \in Frame, stack' = WithTop(f)
    PROVE  Top' = f
    BY StackFacts, ReplaceTop DEF WithTop, Top

\* The ways in which a statement that is neither CASE nor WHEN ends.
LEMMA EndsAway ==
    ASSUME Consistent, stack # <<>>, Top.node # End, Kind(Top.node) \notin {"case", "when"},
           UNCHANGED <<caseTrue, caseCurrent>>, NEW f \in Frame, f.node = Top.node,
           NEW k, NEW s, NEW outer,
           \/ Throws(s, outer) \/ Aborts \/ TerminateValidation(f)
           \/ Advances(WithTop(f), k, outer)
           \/ run' = InternalError
    PROVE  AwayFromCase
<1>1. CASE Throws(s, outer) \/ Aborts \/ run' = InternalError
    <2>1. run'.op \in {"dispatch", "failed", "internal"}
        BY <1>1 DEF Throws, Aborts, MaybeDispatch, Dispatching, Failed, InternalError
    <2> QED
        BY <2>1 DEF AwayFromCase
<1>2. CASE TerminateValidation(f) /\ ~Aborts
    <2>1. stack' = WithTop([f EXCEPT !.node = End])
        BY <1>2 DEF TerminateValidation
    <2>2. [f EXCEPT !.node = End] \in Frame /\ [f EXCEPT !.node = End].node = End
        BY DEF Frame
    <2>3. Top'.node = End
        BY <2>1, <2>2, NewTop, Zenon
    <2> QED
        BY <2>3 DEF AwayFromCase
<1>3. CASE Advances(WithTop(f), k, outer)
    <2>1. Top' = f
        BY <1>3, NewTop, Zenon DEF Advances
    <2> QED
        BY <2>1 DEF AwayFromCase
<1> QED
    BY <1>1, <1>2, <1>3

\* The same for a statement that leaves its frame as it is.
LEMMA EndsAwaySame ==
    ASSUME Consistent, stack # <<>>, NEW kinds, At(kinds), kinds \cap {"case", "when"} = {},
           UNCHANGED <<caseTrue, caseCurrent>>, NEW k, NEW outer,
           \/ Throws(stack, outer) \/ Aborts \/ Advances(stack, k, outer)
           \/ AdvancePastCondition(k, outer) \/ run' = InternalError
    PROVE  AwayFromCase
<1>1. Top \in Frame /\ Top.node # End /\ Kind(Top.node) \notin {"case", "when"}
    BY StackFacts, AtFacts
<1>2. stack = WithTop(Top)
    BY StackFacts, KeepTop DEF WithTop
<1>3. \/ Throws(stack, outer) \/ Aborts \/ TerminateValidation(Top)
      \/ Advances(WithTop(Top), k, outer) \/ run' = InternalError
    BY <1>2, Zenon DEF AdvancePastCondition
<1> QED
    BY <1>1, <1>3, EndsAway, Zenon

\* The same for a statement that stores values.
LEMMA EndsAwayStoring ==
    ASSUME Consistent, stack # <<>>, NEW kinds, At(kinds), kinds \cap {"case", "when"} = {},
           UNCHANGED <<caseTrue, caseCurrent>>, NEW k, NEW outer, NEW s,
           NEW f \in Assigned(Top) \cup AssignedInPart(Top),
           Throws(s, outer) \/ Advances(WithTop(f), k, outer)
    PROVE  AwayFromCase
<1>1. Top.node # End /\ Kind(Top.node) \notin {"case", "when"}
    BY StackFacts, AtFacts
<1>2. f \in Frame /\ f.node = Top.node
    BY StackFacts, AssignedFacts, Zenon
<1> QED
    BY <1>1, <1>2, EndsAway, Zenon

\* A new frame does not start at a clause.
LEMMA PushedAway ==
    ASSUME Consistent, stack # <<>>, NEW kinds, At(kinds), UNCHANGED <<caseTrue, caseCurrent>>,
           NEW body \in Bodies(Top.node), NEW args,
           NEW g \in {Top} \cup Assigned(Top), stack' = Append(WithTop(g), NewFrame(body, args)),
           run' = Idle \/ Kind(body) = "sql"
    PROVE  AwayFromCase
<1>1. Kind(body) # "when"
    BY AtFacts, CaseAssumption
<1>2. Top'.node = body
    <2>1. g \in Frame
        BY StackFacts, AssignedFacts, Zenon
    <2>2. WithTop(g) \in Seq(Frame)
        BY <2>1, StackFacts, ReplaceTop DEF WithTop
    <2>3. Top' = NewFrame(body, args)
        BY <2>2 DEF Top
    <2> QED
        BY <2>3 DEF NewFrame
<1> QED
    BY <1>1, <1>2 DEF AwayFromCase, Idle

\* The statements other than CASE and WHEN disturb no CASE.
LEMMA StatementsAway ==
    ASSUME Consistent, stack # <<>>, ExecuteStatement, ~ExecuteCaseStatement, ~EvaluateWhenThenClause
    PROVE  AwayFromCase
<1>1. UNCHANGED <<caseTrue, caseCurrent>>
    BY Zenon DEF ExecuteStatement, Jump, Return, PlainStatement, ExecuteAssignment,
           ExecuteVariableDeclaration, EvaluateCondition, BeginForLoop, AdvanceForLoop, ExecuteCallStatement,
           ExecuteDynamicStatement, ExecuteDynamicIntoStatement, ExecuteRaiseStatement
<1>2. CASE Jump \/ Return \/ PlainStatement \/ EvaluateCondition
    <2>1. PICK kinds \in {JumpKinds, {"return"}, PlainKinds, TestKinds} :
            /\ At(kinds)
            /\ \/ Throws(stack, FALSE) \/ Aborts \/ Advances(stack, "normal", FALSE)
               \/ \E value \in {"true", "false"} : AdvancePastCondition(value, FALSE)
        BY <1>2, Zenon DEF Jump, Return, PlainStatement, EvaluateCondition
    <2>2. kinds \cap {"case", "when"} = {}
        BY DEF JumpKinds, PlainKinds, TestKinds
    <2> QED
        BY <1>1, <2>1, <2>2, EndsAwaySame, Zenon
<1>3. CASE AdvanceForLoop
    <2> DEFINE stored == [Top EXCEPT !.large = @ \ Names(Creates(Top.node))]
    <2>1. /\ At({"forAdvance"})
          /\ \/ Throws(stack, FALSE) \/ Aborts \/ run' = InternalError
             \/ AdvancePastCondition("false", TRUE)
             \/ TerminateValidation(Top)
             \/ Advances(WithTop(stored), "true", TRUE)
        BY <1>3, Zenon DEF AdvanceForLoop
    <2>2. {"forAdvance"} \cap {"case", "when"} = {}
        OBVIOUS
    <2>3. stored \in Assigned(Top)
        BY StackFacts DEF Assigned, Frame
    <2> HIDE DEF stored
    <2>4. CASE Advances(WithTop(stored), "true", TRUE)
        BY <1>1, <2>1, <2>2, <2>3, <2>4, EndsAwayStoring, Zenon
    <2>5. CASE TerminateValidation(Top)
        <3>1. Top \in Frame /\ Top.node # End /\ Kind(Top.node) \notin {"case", "when"}
            BY <2>1, StackFacts, AtFacts
        <3> QED
            BY <1>1, <2>5, <3>1, EndsAway, Zenon
    <2> QED
        BY <1>1, <2>1, <2>2, <2>4, <2>5, EndsAwaySame, Zenon
<1>4. CASE ExecuteRaiseStatement
    <2>1. At(ThrowKinds) /\ ThrowKinds \cap {"case", "when"} = {}
        BY <1>4 DEF ExecuteRaiseStatement, ThrowKinds
    <2>2. CASE stack' = WithTop([Top EXCEPT !.node = End]) /\ run' = Idle
        <3>1. TerminateValidation(Top) /\ Top \in Frame /\ Top.node # End
            BY <2>1, <2>2, StackFacts, AtFacts, Zenon DEF TerminateValidation
        <3>2. Kind(Top.node) \notin {"case", "when"}
            BY <2>1, AtFacts
        <3> QED
            BY <1>1, <3>1, <3>2, EndsAway, Zenon
    <2>3. CASE Throws(stack, FALSE) \/ Aborts \/ run' = InternalError
        BY <1>1, <2>1, <2>3, EndsAwaySame, Zenon
    <2>4. CASE run' = MaybeDispatch(stack, Innermost(pending), FALSE)
        <3>1. run'.op \in {"dispatch", "failed"}
            BY <2>4 DEF MaybeDispatch, Dispatching, Failed
        <3> QED
            BY <1>1, <3>1 DEF AwayFromCase
    <2>5. \/ stack' = WithTop([Top EXCEPT !.node = End]) /\ run' = Idle
          \/ run' = InternalError \/ Aborts \/ Throws(stack, FALSE)
          \/ run' = MaybeDispatch(stack, Innermost(pending), FALSE)
        <3>1. CASE pending = <<>>
            BY <1>4, <3>1, Zenon DEF ExecuteRaiseStatement
        <3>2. CASE pending # <<>>
            BY <1>4, <3>2, Zenon DEF ExecuteRaiseStatement
        <3> QED
            BY <3>1, <3>2, Zenon
    <2> QED
        BY <2>2, <2>3, <2>4, <2>5, Zenon
<1>5. CASE ExecuteVariableDeclaration
    <2> DEFINE ids == Creates(Top.node)
               Declaring(k) == [Top EXCEPT !.vars = @ \cup Names(SubSeq(ids, 1, k))]
    <2>1. Top \in Frame /\ Top.node \in Node /\ Top.node # End /\ Kind(Top.node) = "declare"
        BY <1>5, StackFacts, AtFacts DEF ExecuteVariableDeclaration
    <2>2. ids \in Seq(Var) /\ Len(ids) \in 0 .. Len(ids)
        BY <2>1, GraphAssumption
    <2>3. \A k \in 0 .. Len(ids) : Declaring(k) \in Frame /\ Declaring(k).node = Top.node
        <3> SUFFICES ASSUME NEW k \in 0 .. Len(ids)
                     PROVE  Declaring(k) \in Frame /\ Declaring(k).node = Top.node
            OBVIOUS
        <3>1. Names(SubSeq(ids, 1, k)) \subseteq Var
            BY <2>2, NamesOfPrefix
        <3> QED
            BY <2>1, <3>1 DEF Frame
    <2>4. PICK k \in 0 .. Len(ids) :
            \/ Advances(WithTop(Declaring(k)), "normal", FALSE)
            \/ Throws(WithTop(Declaring(k)), FALSE) \/ Aborts
        BY <1>5, <2>2, Zenon DEF ExecuteVariableDeclaration
    <2>5. Kind(Top.node) \notin {"case", "when"}
        BY <2>1
    <2> HIDE DEF Declaring, ids
    <2> QED
        BY <1>1, <2>1, <2>3, <2>4, <2>5, EndsAway, Zenon
<1>6. CASE BeginForLoop
    <2> DEFINE new == Names(Creates(Top.node))
               Left(created, iterator) ==
                   [Top EXCEPT !.vars = @ \cup created, !.loops = Append(@, iterator)]
    <2>1. Top \in Frame /\ Top.node \in Node /\ Top.node # End /\ Kind(Top.node) = "forInitial"
        BY <1>6, StackFacts, AtFacts DEF BeginForLoop
    <2>2. Kind(Top.node) \notin {"case", "when"} /\ new \subseteq Var
        BY <2>1, GraphAssumption, NamesOfPrefix
    <2>3. \A created \in {{}, new}, iterator \in {"null", "open"} :
            Left(created, iterator) \in Frame /\ Left(created, iterator).node = Top.node
        <3> SUFFICES ASSUME NEW created \in {{}, new}, NEW iterator \in {"null", "open"}
                     PROVE  /\ Left(created, iterator) \in Frame
                            /\ Left(created, iterator).node = Top.node
            BY Zenon
        <3>1. Append(Top.loops, iterator) \in Seq({"null", "open"})
            BY <2>1, StackFacts
        <3>2. created \subseteq Var
            BY <2>2
        <3> QED
            BY <2>1, <3>1, <3>2, Zenon DEF Frame
    <2>4. PICK created \in {{}, new}, iterator \in {"null", "open"} :
            \/ \E k \in {"true", "false"} : Advances(WithTop(Left(created, iterator)), k, TRUE)
            \/ Throws(WithTop(Left(created, iterator)), FALSE) \/ Aborts \/ run' = InternalError
            \/ TerminateValidation(Left(created, iterator))
        BY <1>6, Zenon DEF BeginForLoop
    <2> HIDE DEF Left, new
    <2> QED
        BY <1>1, <2>1, <2>2, <2>3, <2>4, EndsAway, Zenon
<1>7. CASE ExecuteCallStatement \/ ExecuteDynamicStatement \/ ExecuteDynamicIntoStatement
    <2>a. stack = WithTop(Top)
        BY StackFacts, KeepTop DEF WithTop
    <2> DEFINE Pushes(body, args, g) == /\ stack' = Append(WithTop(g), NewFrame(body, args))
                                        /\ run' = Idle \/ Kind(body) = "sql"
               Ends == \/ Advances(stack, "normal", TRUE) \/ Aborts
                       \/ \E s, outer : Throws(s, outer)
                       \/ \E f \in Assigned(Top) : Advances(WithTop(f), "normal", TRUE)
                       \/ \E body \in Bodies(Top.node), g \in {Top} \cup Assigned(Top) :
                            \E args : Pushes(body, args, g)
    <2>b. ExecuteCallStatement => At({"call"}) /\ Ends
        BY <2>a, Zenon DEF ExecuteCallStatement
    <2>c. ExecuteDynamicStatement => At({"exec"}) /\ Ends
        BY <2>a, Zenon DEF ExecuteDynamicStatement
    <2>d. ExecuteDynamicIntoStatement => At({"execInto"}) /\ Ends
        BY Zenon DEF ExecuteDynamicIntoStatement, Advances
    <2>1. PICK kinds \in {{"call"}, {"exec"}, {"execInto"}} : At(kinds) /\ Ends
        <3> HIDE DEF Ends
        <3> QED
            BY <1>7, <2>b, <2>c, <2>d, Zenon
    <2>2. kinds \cap {"case", "when"} = {}
        OBVIOUS
    <2>3. CASE Advances(stack, "normal", TRUE) \/ Aborts
        BY <1>1, <2>1, <2>2, <2>3, EndsAwaySame, Zenon
    <2>4. ASSUME NEW s, NEW outer, Throws(s, outer)
          PROVE  AwayFromCase
        <3>1. run'.op \in {"dispatch", "failed"}
            BY <2>4 DEF Throws, MaybeDispatch, Dispatching, Failed
        <3> QED
            BY <1>1, <3>1 DEF AwayFromCase
    <2>5. CASE \E f \in Assigned(Top) : Advances(WithTop(f), "normal", TRUE)
        BY <1>1, <2>1, <2>2, <2>5, EndsAwayStoring, Zenon
    <2> QED
        BY <1>1, <2>1, <2>3, <2>4, <2>5, PushedAway, Zenon
<1>8. CASE ExecuteAssignment
    <2>1. /\ At({"assign"})
          /\ \/ \E f \in Assigned(Top) : Advances(WithTop(f), "normal", FALSE)
             \/ \E f \in AssignedInPart(Top) : Throws(WithTop(f), FALSE)
             \/ Aborts
        BY <1>8, Zenon DEF ExecuteAssignment
    <2>2. {"assign"} \cap {"case", "when"} = {}
        OBVIOUS
    <2> QED
        BY <1>1, <2>1, <2>2, EndsAwaySame, EndsAwayStoring, Zenon
<1> QED
    BY <1>2, <1>3, <1>4, <1>5, <1>6, <1>7, <1>8, Zenon DEF ExecuteStatement

\* CASE chooses the clause that holds and starts before the first one.
LEMMA CaseStatementKeeps ==
    ASSUME Consistent, stack # <<>>, CaseConsistent, ExecuteCaseStatement
    PROVE  CaseConsistent'
<1>1. Top.node \in Node /\ Kind(Top.node) = "case" /\ Clauses(Top.node) \in Nat
    BY AtFacts, GraphAssumption DEF ExecuteCaseStatement
<1>2. CASE /\ caseTrue' \in -1 .. Clauses(Top.node) - 1 /\ caseCurrent' = -1
           /\ Advances(stack, "normal", FALSE)
    <2>1. Top' = Top /\ run'.op = "advance"
        BY <1>2 DEF Advances, Advancing, Top
    <2>2. caseTrue' >= -1
        BY <1>1, <1>2
    <2> QED
        BY <1>1, <1>2, <2>1, <2>2 DEF CaseConsistent
<1>3. CASE (Throws(stack, FALSE) \/ Aborts) /\ UNCHANGED <<caseTrue, caseCurrent>>
    <2>1. run'.op \in {"dispatch", "failed"}
        BY <1>3 DEF Throws, Aborts, MaybeDispatch, Dispatching, Failed
    <2> QED
        BY <1>3, <2>1, AwayKeepsCase DEF AwayFromCase
<1> QED
    BY <1>2, <1>3, Zenon DEF ExecuteCaseStatement

\* A clause is counted, and control leaves by the false edge if it is not the one.
LEMMA WhenThenClauseKeeps ==
    ASSUME Consistent, stack # <<>>, CaseConsistent, EvaluateWhenThenClause
    PROVE  CaseConsistent'
<1>1. /\ Top.node \in Node /\ Top.node # End /\ Kind(Top.node) = "when" /\ run.op = "idle"
      /\ Clause(Top.node) \in Nat
    BY AtFacts, GraphAssumption DEF EvaluateWhenThenClause
<1>2. caseCurrent = Clause(Top.node) - 1 /\ (caseTrue = -1 \/ caseTrue >= Clause(Top.node))
    BY <1>1 DEF CaseConsistent
<1>3. caseTrue' = caseTrue /\ caseTrue \in Int /\ caseTrue >= -1
    BY DEF EvaluateWhenThenClause, Consistent, TypeOK, CaseConsistent
<1>4. caseCurrent' = Clause(Top.node)
    BY <1>1, <1>2 DEF EvaluateWhenThenClause
<1> DEFINE value == IF caseCurrent' = caseTrue THEN "true" ELSE "false"
<1>5. CASE DryRun
    <2>1. TerminateValidation(Top)
        BY <1>5, Zenon DEF EvaluateWhenThenClause, AdvancePastCondition
    <2>2. run'.op = "failed" \/ stack' = WithTop([Top EXCEPT !.node = End])
        BY <2>1 DEF TerminateValidation, Aborts, Failed
    <2>3. [Top EXCEPT !.node = End] \in Frame /\ [Top EXCEPT !.node = End].node = End
        BY StackFacts, Zenon DEF Frame
    <2>4. run'.op = "failed" \/ Top'.node = End
        BY <2>2, <2>3, NewTop, Zenon
    <2> QED
        BY <1>3, <2>4 DEF CaseConsistent
<1>6. CASE ~DryRun
    <2>1. Advances(stack, value, FALSE)
        BY <1>6, Zenon DEF EvaluateWhenThenClause, AdvancePastCondition
    <2>2. Top' = Top /\ run'.op = "advance" /\ run'.edge = value
        BY <2>1 DEF Advances, Advancing, Top
    <2>3. run'.edge = "false" => caseTrue = -1 \/ caseTrue > Clause(Top.node)
        BY <1>1, <1>2, <1>3, <1>4, <2>2, SMTT(30)
    <2> QED
        BY <1>1, <1>3, <1>4, <2>2, <2>3, SMTT(30) DEF CaseConsistent
<1> QED
    BY <1>5, <1>6

\* Returning from a procedure leads to a call.
LEMMA ExitAway ==
    ASSUME Consistent, stack # <<>>, Len(stack) > 1, LateFaults = {}, NEW f, NEW then,
           ExitProcedure(f, then), UNCHANGED <<caseTrue, caseCurrent>>
    PROVE  AwayFromCase
<1> DEFINE c == Caller[Len(Caller)]
<1>1. ASSUME NEW g \in Returned(c, then), stack' = [Caller EXCEPT ![Len(stack) - 1] = g]
      PROVE  AwayFromCase
    <2>1. /\ Caller \in Seq(Frame) /\ Len(Caller) = Len(stack) - 1 /\ Len(Caller) >= 1
          /\ c \in Frame /\ Kind(c.node) \in CallKinds
        BY CallerFacts, StackFacts
    <2>2. g \in Frame /\ g.node = c.node
        BY <1>1, <2>1, AssignedFacts, Zenon DEF Returned
    <2>3. Top' = g
        BY <1>1, <2>1, <2>2, ReplaceTop DEF Top
    <2> QED
        BY <2>1, <2>2, <2>3 DEF AwayFromCase, CallKinds
<1>2. CASE Aborts
    BY <1>2 DEF Aborts, Failed, AwayFromCase
<1> QED
    BY <1>1, <1>2, Zenon DEF ExitProcedure

\* Following an edge to a clause comes from the CASE or from the clause before it.
LEMMA FollowEdgeKeeps ==
    ASSUME Consistent, stack # <<>>, CaseConsistent, LateFaults = {}, NEW k \in DOMAIN Succ(Top.node),
           Top.node \in Node,
           \/ run.op = "advance" /\ k = run.edge
           \/ run.op = "dispatch" /\ k = "exception",
           NEW exc, FollowEdge(Succ(Top.node)[k], exc)
    PROVE  CaseConsistent'
<1> DEFINE e == Succ(Top.node)[k]
           f == [Top EXCEPT !.vars = @ \ e.destroyed, !.large = @ \ e.destroyed,
                            !.loops = SubSeq(@, 1, Len(@) - e.forsExited)]
<1>1. UNCHANGED <<caseTrue, caseCurrent>>
    BY Zenon DEF FollowEdge
<1>2. run' = InternalError \/ (~(e.forsExited > Len(Top.loops)) /\ UpdateCurrentLocation(e, f))
    BY Zenon DEF FollowEdge
<1>3. CASE run' = InternalError
    BY <1>1, <1>3, AwayKeepsCase, SMTT(30) DEF InternalError, AwayFromCase
<1>4. CASE ExitProcedure(f, Advancing("normal", run.outer)) /\ Len(stack) > 1
    <2> HIDE DEF f
    <2> QED
        BY <1>1, <1>4, ExitAway, AwayKeepsCase, Zenon
<1>5. CASE /\ ~(e.forsExited > Len(Top.loops))
           /\ stack' = WithTop([f EXCEPT !.node = e.to]) /\ run' = Idle
    <2> DEFINE g == [f EXCEPT !.node = e.to]
    <2>1. Top'.node = e.to
        <3>1. /\ e.to \in Node \cup {End} /\ e.forsExited \in 0 .. Len(Top.loops)
              /\ Top \in Frame /\ Top.loops \in Seq({"null", "open"})
            BY <1>5, EdgeFacts, StackFacts, SMTT(30)
        <3>2. f \in Frame
            <4>1. SubSeq(Top.loops, 1, Len(Top.loops) - e.forsExited) \in Seq({"null", "open"})
                BY <3>1, Remaining
            <4>2. Top.vars \ e.destroyed \in SUBSET Var /\ Top.large \ e.destroyed \in SUBSET Var
                BY <3>1 DEF Frame
            <4> QED
                BY <3>1, <4>1, <4>2, Zenon DEF Frame
        <3>3. g \in Frame /\ g.node = e.to
            BY <3>1, <3>2, Zenon DEF Frame
        <3> HIDE DEF f, g
        <3> QED
            BY <1>5, <3>3, NewTop, Zenon DEF g
    <2>2. CASE e.to = End \/ Kind(e.to) # "when"
        BY <1>1, <1>5, <2>1, <2>2, AwayKeepsCase, SMTT(30) DEF AwayFromCase, Idle
    <2>3. CASE e.to # End /\ Kind(e.to) = "when"
        <3>1. \/ Kind(Top.node) = "case" /\ k = "normal" /\ Clause(e.to) = 0
              \/ Kind(Top.node) = "when" /\ k = "false" /\ Clause(e.to) = Clause(Top.node) + 1
            BY <2>3, CaseAssumption, SMTT(30)
        <3>2. Top.node # End /\ Clause(Top.node) \in Nat /\ caseTrue \in Int /\ caseCurrent \in Int
            BY GraphAssumption, SMTT(30) DEF Consistent, TypeOK
        <3>3. run.op = "advance" /\ k = run.edge
            BY <3>1, SMTT(30)
        <3>4. /\ caseTrue >= -1
              /\ Kind(Top.node) = "case" => caseCurrent = -1
              /\ Kind(Top.node) = "when" /\ k = "false" =>
                    caseCurrent = Clause(Top.node) /\ (caseTrue = -1 \/ caseTrue > Clause(Top.node))
            BY <3>2, <3>3, SMTT(30) DEF CaseConsistent
        <3> HIDE DEF e
        <3>5. caseCurrent = Clause(e.to) - 1 /\ (caseTrue = -1 \/ caseTrue >= Clause(e.to))
            BY <3>1, <3>2, <3>4, SMTT(30)
        <3> QED
            BY <1>1, <1>5, <2>1, <3>4, <3>5, SMTT(30) DEF CaseConsistent, Idle
    <2> QED
        BY <2>2, <2>3
<1> QED
    BY <1>2, <1>3, <1>4, <1>5, Zenon DEF UpdateCurrentLocation

\* The rest of a call.
LEMMA FinishCallKeeps ==
    ASSUME Consistent, stack # <<>>, CaseConsistent, LateFaults = {}, FinishCall
    PROVE  CaseConsistent'
<1>1. CASE AdvanceInternal
    <2>1. run.op = "advance" /\ Top.node \in Node /\ Top \in Frame
        BY <1>1, StackFacts, Zenon DEF AdvanceInternal, Consistent, TopConsistent, Top, Completed
    <2>2. CASE run.edge \in DOMAIN Succ(Top.node) /\ FollowEdge(Succ(Top.node)[run.edge], NoExc)
        BY <2>1, <2>2, FollowEdgeKeeps, Zenon
    <2>3. CASE /\ run' = InternalError \/ TerminateValidation(Top)
               /\ UNCHANGED <<caseTrue, caseCurrent>>
        <3>1. [Top EXCEPT !.node = End] \in Frame /\ [Top EXCEPT !.node = End].node = End
            BY <2>1 DEF Frame
        <3>2. run' = InternalError \/ run' = Failed(NoExc) \/ Top'.node = End
            BY <2>3, <3>1, NewTop, Zenon DEF TerminateValidation, Aborts
        <3>3. AwayFromCase
            BY <2>3, <3>2 DEF AwayFromCase, InternalError, Failed
        <3> QED
            BY <3>3, AwayKeepsCase, SMTT(30)
    <2> QED
        BY <1>1, <2>2, <2>3, Zenon DEF AdvanceInternal
<1>2. CASE DispatchException
    <2>1. run.op = "dispatch" /\ Top.node \in Node
        BY <1>2, StackFacts, Zenon DEF DispatchException, Consistent, TopConsistent, Top
    <2>2. CASE "exception" \in DOMAIN Succ(Top.node)
        <3>1. FollowEdge(Succ(Top.node)["exception"], run.exc)
            BY <1>2, <2>2, SMTT(30) DEF DispatchException
        <3> QED
            BY <2>1, <2>2, <3>1, FollowEdgeKeeps, Zenon
    <2>3. CASE "exception" \notin DOMAIN Succ(Top.node)
        <3>1. /\ (ExitProcedure(Top, run) /\ Len(stack) > 1) \/ run' = InternalError
              /\ UNCHANGED <<caseTrue, caseCurrent>>
            BY <1>2, <2>3, Zenon DEF DispatchException
        <3>2. AwayFromCase
            <4>1. CASE ExitProcedure(Top, run) /\ Len(stack) > 1
                BY <3>1, <4>1, ExitAway, Zenon
            <4>2. CASE run' = InternalError
                BY <3>1, <4>2, SMTT(30) DEF AwayFromCase, InternalError
            <4> QED
                BY <3>1, <4>1, <4>2
        <3> QED
            BY <3>2, AwayKeepsCase, Zenon
    <2> QED
        BY <2>2, <2>3, SMTT(30)
<1> QED
    BY <1>1, <1>2 DEF FinishCall

\* The indices are part of what is saved, and the place in the script is the same.
LEMMA RestartKeepsCase ==
    ASSUME Consistent, stack # <<>>, CaseConsistent, Restart
    PROVE  CaseConsistent'
<1>r. CASE Refused
    <2>1. run'.op = "failed" /\ UNCHANGED <<caseTrue, caseCurrent>>
        BY <1>r DEF Refused, Failed, Restart
    <2> QED
        BY <2>1, AwayKeepsCase DEF AwayFromCase
<1> SUFFICES ASSUME Accepted PROVE CaseConsistent'
    BY <1>r, RestartAccepts, Zenon
<1>1. /\ run = Idle /\ run' = Idle /\ UNCHANGED <<caseTrue, caseCurrent>>
      /\ stack' = [i \in 1 .. Len(stack) |-> Restored(stack[i])]
    BY RestartAccepts, Zenon DEF Accepted
<1>2. Top' = Restored(Top)
    <2>1. Len(stack) \in Nat /\ Len(stack) >= 1 /\ Top = stack[Len(stack)]
        BY StackFacts, SMTT(30)
    <2>2. Len(stack') = Len(stack) /\ stack'[Len(stack)] = Restored(stack[Len(stack)])
        BY <1>1, <2>1, SMTT(30)
    <2> QED
        BY <2>1, <2>2, SMTT(30) DEF Top
<1>3. Top'.node = Top.node
    BY <1>2, RestoredType, StackFacts, SMTT(30)
<1> QED
    BY <1>1, <1>3, SMTT(30) DEF CaseConsistent

\* The WHEN clauses of a CASE are met in order, each once and none after the one that
\* holds, although one pair of indices serves all frames and all CASE statements.
THEOREM CasesInStep ==
    ASSUME LateFaults = {}
    PROVE  Spec => []CaseInStep
<1>1. Init => CaseConsistent
    <2> SUFFICES ASSUME Init PROVE CaseConsistent
        OBVIOUS
    <2>1. PICK start \in MainStarts : stack = <<NewFrame(start, {})>>
        BY DEF Init
    <2>2. Top.node = start /\ Kind(start) # "when"
        BY <2>1, CaseAssumption, SMTT(30) DEF Top, NewFrame
    <2> QED
        BY <2>2 DEF Init, Idle, CaseConsistent
<1>2. Consistent /\ CaseConsistent /\ [Next]_vars => CaseConsistent'
    <2> SUFFICES ASSUME Consistent, CaseConsistent, [Next]_vars PROVE CaseConsistent'
        OBVIOUS
    <2>0. Next => stack # <<>>
        BY StackNotEmpty
    <2>1. CASE ExecuteStatement
        BY <2>0, <2>1, CaseStatementKeeps, WhenThenClauseKeeps, StatementsAway, AwayKeepsCase,
           Zenon DEF Next
    <2>2. CASE FinishCall
        BY <2>0, <2>2, FinishCallKeeps, SMTT(30) DEF Next
    <2>3. CASE Restart
        BY <2>0, <2>3, RestartKeepsCase, SMTT(30) DEF Next
    <2>4. CASE UNCHANGED vars
        BY <2>4 DEF vars, CaseConsistent, Top
    <2> QED
        BY <2>1, <2>2, <2>3, <2>4, SMTT(30) DEF Next
<1>3. CaseConsistent => CaseInStep
    BY DEF CaseConsistent, CaseInStep, Idle
<1> QED
    BY <1>1, <1>2, <1>3, ExecutorConsistent, PTL DEF Spec
====
