---------------------------- MODULE ScriptControl ----------------------------
(***************************************************************************)
(* The control state of ScriptExecutorImpl: the call stack, the pending    *)
(* exceptions, the CASE indices, and what one ExecuteNext() does to them.  *)
(*                                                                         *)
(* A call of ExecuteNext() is a statement step followed by the iterations  *)
(* of AdvanceInternal() or DispatchException() that it leads to, one step  *)
(* each; run says what remains of the call, and nothing else is enabled    *)
(* until it is idle again.  The evaluator's answers are nondeterministic:  *)
(* success, a script exception (a status with a ScriptException payload)   *)
(* or a fatal error (any other status).                                    *)
(*                                                                         *)
(* The scripts are given by their control-flow graphs: Graph[n] describes  *)
(* node n of the main scripts, procedures and dynamic statements together. *)
(***************************************************************************)
EXTENDS Integers, Sequences, FiniteSets

CONSTANTS
    Graph,       \* the control-flow nodes: a function to records, see NodeInfo
    End,         \* nullptr, or the sentinel node whose ast_node() is nullptr
    MainStarts,  \* start nodes of the scripts the executor may be created with
    Var,         \* names of variables and arguments
    Exc,         \* script exceptions
    NoExc,       \* @@error.* outside handlers
    MaxDepth,    \* options_.maximum_stack_depth()
    DryRun,      \* options_.dry_run()
    LateFaults   \* calls that may raise a script exception while a transition
                 \* is under way, see FailsInTransition

VARIABLES
    stack,       \* callstack_; empty after a SetState that failed
    pending,     \* pending_exceptions_
    errorVar,    \* @@error.message in system_variables_
    caseTrue,    \* case_stmt_true_branch_index_
    caseCurrent, \* case_stmt_current_branch_index_
    returned,    \* returned_from_script_
    run,         \* what remains of the current ExecuteNext()
    open         \* the evaluator's count of OnProcedureEntered minus Exited

vars == <<stack, pending, errorVar, caseTrue, caseCurrent, returned, run, open>>

Node == DOMAIN Graph

Kind(n) == Graph[n].kind              \* node_kind() of the statement or clause
Succ(n) == Graph[n].succ              \* successors(): edge kind -> edge
Creates(n) == Graph[n].creates        \* the variables DECLARE or FOR creates
Scope(n) == Graph[n].scope            \* variables in scope, arguments included
ForDepth(n) == Graph[n].forDepth      \* iterators on the stack before n
HandlerDepth(n) == Graph[n].handlers  \* exception handlers n is in
Position(n) == Graph[n].position      \* byte offset, up to order
Clause(n) == Graph[n].clause          \* index of a WHEN clause in its CASE
Clauses(n) == Graph[n].clauses        \* number of WHEN clauses of a CASE
Bodies(n) == Graph[n].bodies          \* start nodes CALL or EXECUTE may load

\* The names in a list of identifiers.
Names(ids) == {ids[i] : i \in 1 .. Len(ids)}

EdgeKinds == {"normal", "true", "false", "exception"}
PlainKinds == {"sql", "sysvar"}
JumpKinds == {"begin", "break", "continue", "repeat", "loop", "caseNoExpr"}
TestKinds == {"if", "elseif", "while", "until", "whenNoExpr"}
CallKinds == {"call", "exec", "execInto"}
NormalKinds ==
    PlainKinds \cup JumpKinds \cup CallKinds \cup {"assign", "return", "declare", "case"}
BranchKinds == TestKinds \cup {"when", "forInitial", "forAdvance"}
ThrowKinds == {"raise", "rethrow"}

\* A ControlFlowEdge with what ComputeSideEffects returns for it.
EdgeInfo == [to : Node \cup {End}, destroyed : SUBSET Var, handlersExited : Nat,
             forsExited : Nat, entered : BOOLEAN]

\* The statement at n puts an iterator on the loop stack before it leaves n.
Opened(n) == IF Kind(n) = "forInitial" THEN 1 ELSE 0

\* The variables that exist when n has completed and leaves by an edge of kind k.
After(n, k) ==
    IF \/ Kind(n) = "declare"
       \/ Kind(n) = "forInitial" /\ k = "true"
    THEN Scope(n) \cup Names(Creates(n)) ELSE Scope(n)

\* What the control-flow graph and ParsedScript guarantee: the edges a statement
\* looks for exist, and following one keeps loops, handlers and variables in
\* step with the nesting of the node it leads to.
ASSUME GraphAssumption ==
    /\ End \notin Node
    /\ \A n \in Node :
        /\ Kind(n) \in NormalKinds \cup BranchKinds \cup ThrowKinds
        /\ ForDepth(n) \in Nat /\ HandlerDepth(n) \in Nat /\ Clauses(n) \in Nat
        /\ Clause(n) \in Nat /\ Position(n) \in Int
        /\ Creates(n) \in Seq(Var) /\ Scope(n) \subseteq Var
        /\ DOMAIN Succ(n) \subseteq EdgeKinds
        /\ Kind(n) \in NormalKinds => "normal" \in DOMAIN Succ(n)
        /\ Kind(n) \in BranchKinds => {"true", "false"} \subseteq DOMAIN Succ(n)
        /\ Kind(n) = "rethrow" => HandlerDepth(n) > 0
        /\ Kind(n) = "forInitial" => Names(Creates(n)) \cap Scope(n) = {}
        /\ Kind(n) = "forAdvance" =>
            ForDepth(n) > 0 /\ Names(Creates(n)) \subseteq Scope(n)
        /\ Kind(n) \notin {"declare", "forInitial", "forAdvance"} => Creates(n) = <<>>
        /\ \A b \in Bodies(n) :
            /\ b \in Node /\ ForDepth(b) = 0 /\ HandlerDepth(b) = 0
            /\ "exception" \notin DOMAIN Succ(b)
            /\ Kind(n) # "call" => Scope(b) = {}
    /\ \A b \in MainStarts :
        b \in Node /\ ForDepth(b) = 0 /\ HandlerDepth(b) = 0 /\ Scope(b) = {}

ASSUME EdgeAssumption ==
    \A n \in Node : \A k \in DOMAIN Succ(n) : LET e == Succ(n)[k] IN
        /\ e \in EdgeInfo
        /\ e.entered => k = "exception"
        /\ e.handlersExited <= HandlerDepth(n)
        /\ e.forsExited <= ForDepth(n) + Opened(n)
        /\ e.to # End =>
            /\ ForDepth(e.to) = ForDepth(n) + Opened(n) - e.forsExited
            /\ HandlerDepth(e.to) = HandlerDepth(n) - e.handlersExited
                                      + (IF e.entered THEN 1 ELSE 0)
            /\ k # "exception" => After(n, k) \ e.destroyed = Scope(e.to)
            /\ k = "exception" =>
                /\ Scope(n) \ e.destroyed = Scope(e.to)
                /\ Names(Creates(n)) \subseteq e.destroyed
        /\ e.to = End => e.forsExited = ForDepth(n) + Opened(n)
        /\ k = "exception" => e.forsExited >= Opened(n)

\* The WHEN clauses of a CASE with an expression are a chain: control comes to the first
\* one from the CASE, to each other one from the clause before it, and to none of them
\* in any other way.
ASSUME CaseAssumption ==
    /\ \A n \in Node : \A k \in DOMAIN Succ(n) : LET m == Succ(n)[k].to IN
        m # End /\ Kind(m) = "when" =>
            \/ Kind(n) = "case" /\ k = "normal" /\ Clause(m) = 0
            \/ Kind(n) = "when" /\ k = "false" /\ Clause(m) = Clause(n) + 1
    /\ \A b \in MainStarts \cup UNION {Bodies(n) : n \in Node} : Kind(b) # "when"

ASSUME OptionsAssumption ==
    /\ MaxDepth \in Nat \ {0}
    /\ DryRun \in BOOLEAN
    /\ NoExc \notin Exc
    /\ LateFaults \subseteq {"exitForLoop", "exitProcedure"}

-----------------------------------------------------------------------------
Top == stack[Len(stack)]

WithTop(f) == [stack EXCEPT ![Len(stack)] = f]

Caller == SubSeq(stack, 1, Len(stack) - 1)

\* A StackFrameImpl: its script (by start node), current_node(), the names in
\* variables(), those of them with a value above the per-variable size limit, and
\* for_loop_stack(), whose entries are nullptr or an iterator.  The arguments of a CALL
\* are checked before the frame is made.
NewFrame(start, args) ==
    [script |-> start, node |-> start, vars |-> args, large |-> {}, loops |-> <<>>]

\* Frame f when values have been stored in some of its variables and
\* UpdateAndCheckVariableSize() has accepted them all.
Assigned(f) == {[f EXCEPT !.large = large] : large \in SUBSET f.large}

\* Frame f when the last value stored has been refused, for its size or its type
\* parameters: the variable keeps the value.
AssignedInPart(f) ==
    {[f EXCEPT !.large = large] :
        large \in {l \in SUBSET f.vars : Cardinality(l \ f.large) <= 1}}

Idle == [op |-> "idle", edge |-> "none", exc |-> NoExc, outer |-> FALSE]

\* In AdvanceInternal(edge).  outer says that the call is made below the
\* MaybeDispatchException() that ExecuteNextImpl wraps around FOR, CALL and
\* EXECUTE IMMEDIATE.
Advancing(edge, outer) == [op |-> "advance", edge |-> edge, exc |-> NoExc, outer |-> outer]

\* In DispatchException(exc).
Dispatching(exc, outer) == [op |-> "dispatch", edge |-> "none", exc |-> exc, outer |-> outer]

\* ExecuteNext() returned the error: a script exception, or a fatal error (NoExc); or
\* SetState() did (NoExc), and left the executor without a stack.
Failed(exc) == [op |-> "failed", edge |-> "none", exc |-> exc, outer |-> FALSE]

\* A GOOGLESQL_RET_CHECK failed.
InternalError == [op |-> "internal", edge |-> "none", exc |-> NoExc, outer |-> FALSE]

\* CheckIfExceptionHandled().
Handled(s) == \E i \in 1 .. Len(s) : "exception" \in DOMAIN Succ(s[i].node)

\* Mutant: only the handlers of the top frame are looked for.
MaybeDispatchInTop(s, exc, outer) ==
    IF ~DryRun /\ "exception" \in DOMAIN Succ(s[Len(s)].node)
    THEN Dispatching(exc, outer) ELSE Failed(exc)

\* MaybeDispatchException() and RethrowException() with the script exception exc.
MaybeDispatch(s, exc, outer) ==
    IF ~DryRun /\ Handled(s) THEN Dispatching(exc, outer) ELSE Failed(exc)

\* SetSystemVariablesForPendingException().
Innermost(p) == IF p = <<>> THEN NoExc ELSE p[Len(p)]

\* IsComplete().
IsComplete == stack = <<>> \/ Top.node = End

\* ExecuteNext() is called at a statement of one of the kinds.
At(kinds) == run = Idle /\ ~IsComplete /\ Kind(Top.node) \in kinds

-----------------------------------------------------------------------------
(* How a statement ends; s is the stack it leaves behind. *)

Advances(s, kind, outer) == stack' = s /\ run' = Advancing(kind, outer)

Throws(s, outer) == stack' = s /\ \E exc \in Exc : run' = MaybeDispatch(s, exc, outer)

Aborts == stack' = stack /\ run' = Failed(NoExc)

\* Mutant: a dry run gives up without leaving the script.
TerminateValidationInPlace(f) ==
    \/ stack' = WithTop(f) /\ run' = Idle
    \/ Aborts

\* OnValidationTerminated() and ExitProcedure(): a dry run, which never pushes a
\* frame, gives up here; f is the frame it leaves.
TerminateValidation(f) ==
    \/ stack' = WithTop([f EXCEPT !.node = End]) /\ run' = Idle
    \/ Aborts

\* AdvancePastCurrentCondition() with the value of a condition.
AdvancePastCondition(value, outer) ==
    IF DryRun THEN TerminateValidation(Top) ELSE Advances(stack, value, outer)

-----------------------------------------------------------------------------
(* ExecuteNextImpl(), one action per group of statement kinds. *)

\* BEGIN, BREAK, CONTINUE, REPEAT, LOOP and CASE without an expression.
Jump ==
    /\ At(JumpKinds)
    /\ Advances(stack, "normal", FALSE)
    /\ UNCHANGED <<pending, errorVar, caseTrue, caseCurrent, returned, open>>

Return ==
    /\ At({"return"})
    /\ returned' = (returned \/ Len(stack) = 1)
    /\ Advances(stack, "normal", FALSE)
    /\ UNCHANGED <<pending, errorVar, caseTrue, caseCurrent, open>>

\* SQL statements and assignments to system variables.
PlainStatement ==
    /\ At(PlainKinds)
    /\ Advances(stack, "normal", FALSE) \/ Throws(stack, FALSE) \/ Aborts
    /\ UNCHANGED <<pending, errorVar, caseTrue, caseCurrent, returned, open>>

\* ExecuteSingleAssignment and ExecuteAssignmentFromStruct, of any variables of the
\* frame.  Each value is stored before it is checked.
ExecuteAssignment ==
    /\ At({"assign"})
    /\ \/ \E f \in Assigned(Top) : Advances(WithTop(f), "normal", FALSE)
       \/ \E f \in AssignedInPart(Top) : Throws(WithTop(f), FALSE)
       \/ Aborts
    /\ UNCHANGED <<pending, errorVar, caseTrue, caseCurrent, returned, open>>

\* DECLARE creates its variables one after the other and may fail before or
\* after any of them.  A value that it leaves behind too large, as FOR may, is
\* destroyed on the way to the handler.
ExecuteVariableDeclaration ==
    /\ At({"declare"})
    /\ LET ids == Creates(Top.node)
           Declared(k) ==
               WithTop([Top EXCEPT !.vars = @ \cup Names(SubSeq(ids, 1, k))])
       IN \/ Advances(Declared(Len(ids)), "normal", FALSE)
          \/ \E k \in 0 .. Len(ids) : Throws(Declared(k), FALSE)
          \/ Aborts
    /\ UNCHANGED <<pending, errorVar, caseTrue, caseCurrent, returned, open>>

\* IF, ELSEIF, WHILE, UNTIL, and WHEN of a CASE without an expression.
EvaluateCondition ==
    /\ At(TestKinds)
    /\ \/ \E value \in {"true", "false"} : AdvancePastCondition(value, FALSE)
       \/ Throws(stack, FALSE)
       \/ Aborts
    /\ UNCHANGED <<pending, errorVar, caseTrue, caseCurrent, returned, open>>

\* Mutant: the index of the last clause that was met is not reset.
ExecuteCaseStatementNoReset ==
    /\ At({"case"})
    /\ \/ /\ caseTrue' \in -1 .. Clauses(Top.node) - 1
          /\ Advances(stack, "normal", FALSE)
       \/ /\ Throws(stack, FALSE) \/ Aborts
          /\ UNCHANGED caseTrue
    /\ UNCHANGED <<pending, errorVar, caseCurrent, returned, open>>

ExecuteCaseStatement ==
    /\ At({"case"})
    /\ \/ /\ caseTrue' \in -1 .. Clauses(Top.node) - 1
          /\ caseCurrent' = -1
          /\ Advances(stack, "normal", FALSE)
       \/ /\ Throws(stack, FALSE) \/ Aborts
          /\ UNCHANGED <<caseTrue, caseCurrent>>
    /\ UNCHANGED <<pending, errorVar, returned, open>>

EvaluateWhenThenClause ==
    /\ At({"when"})
    /\ caseCurrent' = caseCurrent + 1
    /\ AdvancePastCondition(IF caseCurrent' = caseTrue THEN "true" ELSE "false", FALSE)
    /\ UNCHANGED <<pending, errorVar, caseTrue, returned, open>>

\* Mutant: nothing is on the loop stack until the query has succeeded.
BeginForLoopNoPlaceholder ==
    /\ At({"forInitial"})
    /\ LET new == Names(Creates(Top.node))
           Left(created) == [Top EXCEPT !.vars = @ \cup created,
                                        !.loops = Append(@, "open")]
       IN IF DryRun THEN TerminateValidation(Top)
          ELSE \/ Advances(WithTop(Left(new)), "true", TRUE)
               \/ Advances(WithTop(Left({})), "false", TRUE)
               \/ Throws(stack, FALSE)
               \/ Aborts
    /\ UNCHANGED <<pending, errorVar, caseTrue, caseCurrent, returned, open>>

\* Mutant: the iterator is not put in place of the placeholder.
BeginForLoopNoIterator ==
    /\ At({"forInitial"})
    /\ LET new == Names(Creates(Top.node))
           Left(created) == [Top EXCEPT !.vars = @ \cup created,
                                        !.loops = Append(@, "null")]
       IN IF DryRun THEN TerminateValidation(Left({}))
          ELSE \/ Advances(WithTop(Left(new)), "true", TRUE)
               \/ Advances(WithTop(Left({})), "false", TRUE)
               \/ Throws(WithTop(Left({})), FALSE)
               \/ Aborts
    /\ UNCHANGED <<pending, errorVar, caseTrue, caseCurrent, returned, open>>

\* ExecuteForInStatement at its first node: a placeholder, then the query, the
\* first row and its variable, and the iterator in place of the placeholder.
BeginForLoop ==
    /\ At({"forInitial"})
    /\ LET new == Names(Creates(Top.node))
           Left(created, iterator) ==
               [Top EXCEPT !.vars = @ \cup created, !.loops = Append(@, iterator)]
       IN IF DryRun THEN TerminateValidation(Left({}, "null"))
          ELSE \/ IF new \cap Top.vars = {}
                  THEN Advances(WithTop(Left(new, "open")), "true", TRUE)
                  ELSE stack' = stack /\ run' = InternalError
               \/ Advances(WithTop(Left({}, "open")), "false", TRUE)
               \/ \E created \in {{}, new}, iterator \in {"null", "open"} :
                    Throws(WithTop(Left(created, iterator)), FALSE)
               \/ Aborts
    /\ UNCHANGED <<pending, errorVar, caseTrue, caseCurrent, returned, open>>

\* ExecuteForInStatement at its second node: the next row, if there is one, is
\* stored in the variable.
AdvanceForLoop ==
    /\ At({"forAdvance"})
    /\ LET loops == Top.loops
           usable == loops # <<>> /\ loops[Len(loops)] = "open"
           row == Names(Creates(Top.node))
       IN IF ~usable \/ ~(row \subseteq Top.vars)
          THEN stack' = stack /\ run' = InternalError
          ELSE \/ IF DryRun THEN TerminateValidation(Top)
                  ELSE Advances(WithTop([Top EXCEPT !.large = @ \ row]), "true", TRUE)
               \/ AdvancePastCondition("false", TRUE)
               \/ Throws(stack, FALSE)
               \/ Aborts
    /\ UNCHANGED <<pending, errorVar, caseTrue, caseCurrent, returned, open>>

\* ExecuteCallStatement.  The call is over at once if it is delegated to the
\* evaluator as a statement, the procedure is native or empty, or in a dry run; a
\* native or empty procedure assigns its OUT arguments here.
ExecuteCallStatement ==
    /\ At({"call"})
    /\ \/ /\ \/ \E f \in Assigned(Top) : Advances(WithTop(f), "normal", TRUE)
             \/ \E f \in Assigned(Top), outer \in BOOLEAN : Throws(WithTop(f), outer)
             \/ Aborts
          /\ UNCHANGED open
       \/ /\ ~DryRun /\ Len(stack) < MaxDepth
          /\ \E body \in Bodies(Top.node) :
                stack' = Append(stack, NewFrame(body, Scope(body)))
          /\ run' = Idle
          /\ open' = open + 1
    /\ UNCHANGED <<pending, errorVar, caseTrue, caseCurrent, returned>>

\* ExecuteDynamicStatement without an INTO clause: a frame for the statement.
ExecuteDynamicStatement ==
    /\ At({"exec"})
    /\ \/ /\ \/ DryRun /\ Advances(stack, "normal", TRUE)
             \/ Throws(stack, FALSE)
             \/ Aborts
          /\ UNCHANGED open
       \/ /\ ~DryRun /\ Len(stack) < MaxDepth
          /\ \E body \in Bodies(Top.node) : stack' = Append(stack, NewFrame(body, {}))
          /\ run' = Idle
          /\ open' = open + 1
    /\ UNCHANGED <<pending, errorVar, caseTrue, caseCurrent, returned>>

\* ExecuteDynamicStatement with an INTO clause: the frame is pushed and the
\* query runs in the same call, in ExecuteDynamicIntoStatement.  The values are
\* stored in the variables of the frame below.  If the size check or the evaluator
\* rejects one, the frame is popped by callstack_.pop_back(), without ExitProcedure.
ExecuteDynamicIntoStatement ==
    /\ At({"execInto"})
    /\ \/ /\ \/ DryRun /\ Advances(stack, "normal", TRUE)
             \/ Throws(stack, FALSE)
             \/ Aborts
          /\ UNCHANGED open
       \/ /\ ~DryRun /\ Len(stack) < MaxDepth
          /\ \E body \in Bodies(Top.node) :
                LET Pushed(f) == Append(WithTop(f), NewFrame(body, {}))
                IN \/ Throws(Pushed(Top), FALSE)
                   \/ /\ Kind(body) = "sql"
                      /\ \E f \in AssignedInPart(Top) :
                            Throws(Pushed(f), FALSE) \/ Throws(WithTop(f), FALSE)
                   \/ /\ Kind(body) = "sql"
                      /\ \E f \in Assigned(Top) : Advances(Pushed(f), "normal", TRUE)
          /\ open' = open + 1
    /\ UNCHANGED <<pending, errorVar, caseTrue, caseCurrent, returned>>

\* RaiseNewException and ReraiseCaughtException; a dry run stops at either.
ExecuteRaiseStatement ==
    /\ At(ThrowKinds)
    /\ \/ /\ DryRun
          /\ stack' = WithTop([Top EXCEPT !.node = End])
          /\ run' = Idle
       \/ Kind(Top.node) = "raise" /\ (Throws(stack, FALSE) \/ Aborts)
       \/ /\ Kind(Top.node) = "rethrow" /\ ~DryRun
          /\ stack' = stack
          /\ run' = IF pending = <<>> THEN InternalError
                    ELSE MaybeDispatch(stack, Innermost(pending), FALSE)
    /\ UNCHANGED <<pending, errorVar, caseTrue, caseCurrent, returned, open>>

-----------------------------------------------------------------------------
(* The rest of the call: following edges and unwinding the stack. *)

\* An error in the middle of a transition is returned, and dispatched again from
\* the same node only if the statement is one that ExecuteNextImpl wraps.
FailsInTransition(s) ==
    \/ /\ stack' = s
       /\ \E exc \in Exc :
            run' = IF run.outer THEN MaybeDispatch(s, exc, FALSE) ELSE Failed(exc)
    \/ Aborts

\* AssignOutArguments() on a normal return from a CALL: c is the caller's frame.  A
\* value is stored only when it has been accepted.
Returned(c, then) ==
    IF then.op = "advance" /\ c.node # End /\ Kind(c.node) = "call" THEN Assigned(c) ELSE {c}

\* ExitProcedure() of a procedure, called in frame f.  OnProcedureExited() and
\* AssignOutArguments() may fail, before the frame is popped.
ExitProcedure(f, then) ==
    LET c == Caller[Len(Caller)]
        below == Len(stack) - 1
    IN /\ open' = open - 1
       /\ \/ \E g \in Returned(c, then) :
                /\ stack' = [Caller EXCEPT ![below] = g]
                /\ run' = IF c.node # End /\ Kind(c.node) \in CallKinds
                          THEN then ELSE InternalError
          \/ Aborts
          \/ /\ "exitProcedure" \in LateFaults
             /\ \E g \in Returned(c, then) :
                   FailsInTransition([WithTop(f) EXCEPT ![below] = g])

\* Mutant: the loop of AdvanceInternal goes on at every node.
UpdateCurrentLocationAndGoOn(e, f) ==
    IF e.to = End /\ Len(stack) > 1
    THEN ExitProcedure(f, Advancing("normal", run.outer))
    ELSE /\ stack' = WithTop([f EXCEPT !.node = e.to])
         /\ run' = IF e.to = End THEN Idle ELSE run
         /\ UNCHANGED open

\* UpdateCurrentLocation() in frame f.
UpdateCurrentLocation(e, f) ==
    IF e.to = End /\ Len(stack) > 1
    THEN ExitProcedure(f, Advancing("normal", run.outer))
    ELSE /\ stack' = WithTop([f EXCEPT !.node = e.to])
         /\ run' = Idle
         /\ UNCHANGED open

\* Mutant: the variables of the blocks that are left are not destroyed.
FollowEdgeKeepingVariables(e, exc) ==
    LET unwound == [Top EXCEPT !.loops = SubSeq(@, 1, Len(@) - e.forsExited)]
        left == SubSeq(pending, 1, Len(pending) - e.handlersExited)
    IN /\ pending' = IF e.entered THEN Append(left, exc) ELSE left
       /\ errorVar' = IF e.entered \/ e.handlersExited > 0
                      THEN Innermost(pending') ELSE errorVar
       /\ UpdateCurrentLocation(e, unwound)
       /\ UNCHANGED <<caseTrue, caseCurrent, returned>>

\* Mutant: the iterators of the loops that are left stay on the loop stack.
FollowEdgeKeepingIterators(e, exc) ==
    LET left == SubSeq(pending, 1, Len(pending) - e.handlersExited)
    IN /\ pending' = IF e.entered THEN Append(left, exc) ELSE left
       /\ errorVar' = IF e.entered \/ e.handlersExited > 0
                      THEN Innermost(pending') ELSE errorVar
       /\ UpdateCurrentLocation(e, [Top EXCEPT !.vars = @ \ e.destroyed,
                                               !.large = @ \ e.destroyed])
       /\ UNCHANGED <<caseTrue, caseCurrent, returned>>

\* Mutant: leaving a handler does not restore @@error.
FollowEdgeKeepingError(e, exc) ==
    LET unwound == [Top EXCEPT !.vars = @ \ e.destroyed, !.large = @ \ e.destroyed,
                               !.loops = SubSeq(@, 1, Len(@) - e.forsExited)]
        left == SubSeq(pending, 1, Len(pending) - e.handlersExited)
    IN /\ pending' = IF e.entered THEN Append(left, exc) ELSE left
       /\ errorVar' = IF e.entered THEN exc ELSE errorVar
       /\ UpdateCurrentLocation(e, unwound)
       /\ UNCHANGED <<caseTrue, caseCurrent, returned>>

\* Mutant: an exception caught while another is handled takes its place.
FollowEdgeOnePending(e, exc) ==
    LET unwound == [Top EXCEPT !.vars = @ \ e.destroyed, !.large = @ \ e.destroyed,
                               !.loops = SubSeq(@, 1, Len(@) - e.forsExited)]
    IN /\ pending' = IF e.entered THEN <<exc>>
                     ELSE SubSeq(pending, 1, Len(pending) - e.handlersExited)
       /\ errorVar' = IF e.entered \/ e.handlersExited > 0
                      THEN Innermost(pending') ELSE errorVar
       /\ UpdateCurrentLocation(e, unwound)
       /\ UNCHANGED <<caseTrue, caseCurrent, returned>>

\* ExecuteSideEffects() and UpdateCurrentLocation(), for a normal edge or, with
\* the exception exc, for an exception edge.  ExitForLoop() checks the memory
\* limit before it pops the iterator.
FollowEdge(e, exc) ==
    LET Unwound(k) == [Top EXCEPT !.vars = @ \ e.destroyed, !.large = @ \ e.destroyed,
                                  !.loops = SubSeq(@, 1, Len(@) - k)]
        left == SubSeq(pending, 1, Len(pending) - e.handlersExited)
    IN /\ IF e.handlersExited > Len(pending) \/ e.forsExited > Len(Top.loops)
          THEN /\ run' = InternalError
               /\ UNCHANGED <<stack, pending, errorVar, open>>
          ELSE \/ /\ pending' = IF e.entered THEN Append(left, exc) ELSE left
                  /\ errorVar' = IF e.entered \/ e.handlersExited > 0
                                 THEN Innermost(pending') ELSE errorVar
                  /\ UpdateCurrentLocation(e, Unwound(e.forsExited))
               \/ /\ "exitForLoop" \in LateFaults
                  /\ \E k \in 0 .. e.forsExited - 1 : FailsInTransition(WithTop(Unwound(k)))
                  /\ pending' = left
                  /\ errorVar' = IF e.handlersExited > 0 THEN Innermost(left) ELSE errorVar
                  /\ UNCHANGED open
       /\ UNCHANGED <<caseTrue, caseCurrent, returned>>

\* Mutant: an edge from a statement to itself is not taken for a back edge.
IsBackEdgeStrictly(n, e) == e.to # End /\ Position(e.to) < Position(n)

\* The edge leads back in the text: a dry run stops rather than follow it.
IsBackEdge(n, e) == e.to # End /\ Position(e.to) <= Position(n)

\* One iteration of AdvanceInternal().
AdvanceInternal ==
    /\ run.op = "advance"
    /\ LET n == Top.node
           rest == <<pending, errorVar, caseTrue, caseCurrent, returned, open>>
       IN IF run.edge \notin DOMAIN Succ(n)
          THEN run' = InternalError /\ UNCHANGED <<stack, rest>>
          ELSE IF DryRun /\ IsBackEdge(n, Succ(n)[run.edge])
          THEN TerminateValidation(Top) /\ UNCHANGED rest
          ELSE FollowEdge(Succ(n)[run.edge], NoExc)

\* Mutant: the exception is lost on the way to its handler.
DispatchExceptionLosingIt ==
    /\ run.op = "dispatch"
    /\ IF "exception" \in DOMAIN Succ(Top.node)
       THEN FollowEdge(Succ(Top.node)["exception"], NoExc)
       ELSE /\ ExitProcedure(Top, run)
            /\ UNCHANGED <<pending, errorVar, caseTrue, caseCurrent, returned>>

\* One iteration of DispatchException(): the handler is in this frame, or the
\* frame is left.
DispatchException ==
    /\ run.op = "dispatch"
    /\ IF "exception" \in DOMAIN Succ(Top.node)
       THEN FollowEdge(Succ(Top.node)["exception"], run.exc)
       ELSE /\ IF Len(stack) > 1 THEN ExitProcedure(Top, run)
               ELSE run' = InternalError /\ UNCHANGED <<stack, open>>
            /\ UNCHANGED <<pending, errorVar, caseTrue, caseCurrent, returned>>

\* What GetState() saves of a for_loop_stack(): null entries are skipped.
Serialized(loops) ==
    [i \in 1 .. Cardinality({j \in 1 .. Len(loops) : loops[j] # "null"}) |-> "open"]

\* ValidateVariablesOnSetState(), of a script that is not complete.
VariablesValid(f) == f.node # End => f.vars = Scope(f.node)

\* Mutant: SetState restores the pending exceptions but not @@error.
RestartNoError ==
    /\ run = Idle
    /\ stack' = [i \in 1 .. Len(stack) |-> [stack[i] EXCEPT !.loops = Serialized(@)]]
    /\ errorVar' = NoExc
    /\ returned' = FALSE
    /\ open' = Len(stack) - 1
    /\ UNCHANGED <<pending, caseTrue, caseCurrent, run>>

\* ResetVariableSizes(), of a script that is not complete: the per-variable limit.
SizesAccepted(f) == f.node # End => f.large = {}

\* The process stops between two calls: GetState(), and SetState() on an executor
\* made anew for the same script.  The engine knows the open procedures.  SetState
\* computes the sizes of all values and iterators again.  A value above the
\* per-variable limit makes it fail; so may the total, which the model does not
\* count, and the evaluator, which reads the iterators back.
Restart ==
    /\ run = Idle
    /\ \/ /\ Len(stack) <= MaxDepth /\ \A i \in 1 .. Len(stack) : VariablesValid(stack[i])
          /\ \A i \in 1 .. Len(stack) : SizesAccepted(stack[i])
          /\ stack' = [i \in 1 .. Len(stack) |-> [stack[i] EXCEPT !.loops = Serialized(@)]]
          /\ run' = Idle
       \/ /\ ~(Len(stack) <= MaxDepth /\ \A i \in 1 .. Len(stack) : VariablesValid(stack[i]))
          /\ stack' = <<>> /\ run' = InternalError
       \/ /\ ~IsComplete
          /\ stack' = <<>> /\ run' = Failed(NoExc)
    /\ errorVar' = Innermost(pending)
    /\ returned' = FALSE
    /\ open' = Len(stack) - 1
    /\ UNCHANGED <<pending, caseTrue, caseCurrent>>

\* SetState() of a state with an empty callstack: Reset() of this executor.
ResetState ==
    /\ run.op \in {"idle", "failed"} /\ stack # <<>>
    /\ stack' = <<[stack[1] EXCEPT !.node = stack[1].script,
                                    !.vars = {}, !.large = {}]>>
    /\ pending' = <<>>
    /\ run' = Idle
    /\ open' = 0
    /\ UNCHANGED <<errorVar, caseTrue, caseCurrent, returned>>

Init ==
    /\ \E start \in MainStarts : stack = <<NewFrame(start, {})>>
    /\ pending = <<>> /\ errorVar = NoExc
    /\ caseTrue = -1 /\ caseCurrent = -1
    /\ returned = FALSE
    /\ run = Idle
    /\ open = 0

ExecuteStatement ==
    \/ Jump \/ Return \/ PlainStatement \/ ExecuteAssignment \/ ExecuteVariableDeclaration
    \/ EvaluateCondition \/ ExecuteCaseStatement \/ EvaluateWhenThenClause
    \/ BeginForLoop \/ AdvanceForLoop \/ ExecuteCallStatement
    \/ ExecuteDynamicStatement \/ ExecuteDynamicIntoStatement
    \/ ExecuteRaiseStatement

FinishCall == AdvanceInternal \/ DispatchException

Next == ExecuteStatement \/ FinishCall \/ Restart

\* ExecuteNext() is sequential code: once called, it goes on.
Spec == Init /\ [][Next]_vars /\ WF_vars(FinishCall)

\* The engine also resets the executor.
ResetSpec == Init /\ [][Next \/ ResetState]_vars /\ WF_vars(FinishCall)

-----------------------------------------------------------------------------
Frame == [script : Node, node : Node \cup {End}, vars : SUBSET Var, large : SUBSET Var,
          loops : Seq({"null", "open"})]

RunState == [op : {"idle", "advance", "dispatch", "failed", "internal"},
             edge : EdgeKinds \cup {"none"}, exc : Exc \cup {NoExc}, outer : BOOLEAN]

\* The types of the executor's fields.
TypeOK ==
    /\ stack \in Seq(Frame)
    /\ pending \in Seq(Exc)
    /\ errorVar \in Exc \cup {NoExc}
    /\ caseTrue \in Int /\ caseCurrent \in Int
    /\ returned \in BOOLEAN
    /\ run \in RunState
    /\ open \in Int

\* No GOOGLESQL_RET_CHECK of the executor fails: AdvanceInternal finds its edge,
\* the loop and handler stacks are never popped when empty, a FOR variable is
\* created once and is there for every row, RAISE has an exception to raise
\* again, a procedure returns to a CALL, and those of SetState, on the depth of the
\* stack and on the variables in scope, hold of what GetState saved between any two
\* calls of ExecuteNext.  (SetState may still refuse it for its size
\* or an iterator that cannot be read back.)
NoInternalError == run.op # "internal"

\* The loop stack of a frame is as deep as the FOR loops around its node, without
\* placeholders, and exactly the variables in scope exist.
Settled(f) ==
    /\ f.node # End
    /\ Len(f.loops) = ForDepth(f.node)
    /\ \A j \in 1 .. Len(f.loops) : f.loops[j] = "open"
    /\ f.vars = Scope(f.node)

SettledCallers(s) ==
    \A i \in 1 .. Len(s) - 1 : Settled(s[i]) /\ Kind(s[i].node) \in CallKinds

\* The frames below the top are waiting at CALL or EXECUTE IMMEDIATE, and each of
\* them is settled there: whatever the callee does, and however it is left, the
\* caller's loops and variables are the ones it had when it made the call.
CallersSettled == SettledCallers(stack)

\* Between two calls of ExecuteNext the same holds of the top frame: an exception
\* in DECLARE or FOR, a BREAK out of nested blocks or the return of a procedure
\* leaves no variable, iterator or placeholder behind and loses none.
TopSettled ==
    run = Idle /\ ~DryRun /\ Top.node # End => Settled(Top)

\* The pending exceptions p can be divided among the frames of s, in order, so
\* that each frame has one for every handler it is in.
Covers(p, s) ==
    \E base \in [1 .. Len(s) + 1 -> 0 .. Len(p)] :
        \A i \in 1 .. Len(s) : \A j \in i + 1 .. Len(s) + 1 :
            s[i].node # End => base[i] + HandlerDepth(s[i].node) <= base[j]

\* Leaving a handler always finds an exception to pop, and RAISE one to raise
\* again, whatever frames have been pushed and unwound since it was caught.
PendingCoverHandlers ==
    run.op \in {"idle", "advance", "dispatch"} => Covers(pending, stack)

\* @@error.* is that of the innermost pending exception, and is set in a handler.
ErrorVarCurrent ==
    /\ errorVar = Innermost(pending)
    /\ run = Idle /\ Top.node # End /\ HandlerDepth(Top.node) > 0 => errorVar \in Exc

\* Frame f when its statement has completed and leaves by an edge of kind k.
Completed(f, k) ==
    /\ f.node # End /\ k \in DOMAIN Succ(f.node) \ {"exception"}
    /\ Len(f.loops) = ForDepth(f.node) + Opened(f.node)
    /\ \A j \in 1 .. Len(f.loops) : f.loops[j] = "open"
    /\ f.vars = After(f.node, k)

\* Frame f when an exception has interrupted its statement: some of the variables
\* the statement creates may exist, and FOR has pushed at least its placeholder.
Interrupted(f) ==
    /\ Len(f.loops) = ForDepth(f.node) + Opened(f.node)
    /\ \A j \in 1 .. ForDepth(f.node) : f.loops[j] = "open"
    /\ Scope(f.node) \subseteq f.vars
    /\ f.vars \subseteq Scope(f.node) \cup Names(Creates(f.node))

\* What makes the invariants above inductive: how the top frame of stack s stands
\* between two calls and, as r says, within one.
TopConsistent(s, r) ==
    LET f == s[Len(s)]
    IN /\ r.op = "idle" =>
            /\ f.node # End => Settled(f)
            /\ f.node = End => Len(s) = 1 /\ (DryRun \/ f.loops = <<>>)
       /\ r.op = "advance" => Completed(f, r.edge)
       /\ r.op = "dispatch" =>
            /\ f.node # End /\ r.exc \in Exc /\ Handled(s)
            /\ "exception" \in DOMAIN Succ(f.node) => Interrupted(f)

\* The executor's state is consistent before, within and after every call of
\* ExecuteNext: the inductive invariant.
Consistent ==
    /\ TypeOK
    /\ NoInternalError
    /\ Len(stack) \in 0 .. MaxDepth
    /\ stack = <<>> => run.op = "failed"
    /\ DryRun => Len(stack) <= 1
    /\ CallersSettled
    /\ TopConsistent(stack, run)
    /\ PendingCoverHandlers
    /\ errorVar = Innermost(pending)

\* The WHEN clauses of a CASE with an expression are met in order, each just
\* once, and only until the true one: nothing that runs in between disturbs the
\* indices, which all frames share.
CaseInStep ==
    run = Idle /\ Top.node # End =>
        (Kind(Top.node) = "when" =>
            /\ caseCurrent = Clause(Top.node) - 1
            /\ caseTrue = -1 \/ caseTrue >= Clause(Top.node))

\* Every OnProcedureEntered is matched by an OnProcedureExited when the frame has
\* been popped.
HooksBalanced == run = Idle => open = Len(stack) - 1

\* An exception that some frame handles never makes ExecuteNext fail.
HandledNeverEscapes ==
    [][run'.op = "failed" /\ run'.exc # NoExc => DryRun \/ ~Handled(stack)]_vars

\* Saving the state, losing the process and restoring the state elsewhere changes
\* nothing that the script can see, unless SetState refuses the state for its size or an
\* iterator that cannot be read back: then the executor has no stack and nothing of the
\* script runs again.  SetState never refuses a complete script, nor any state for its
\* variables or its depth.
RestartInvisible ==
    [][Restart =>
        IF stack' = <<>> THEN ~IsComplete /\ run' = Failed(NoExc)
        ELSE UNCHANGED <<stack, pending, errorVar, caseTrue, caseCurrent, run>>]_vars

\* Every call of ExecuteNext returns.
ExecuteNextReturns == run.op \in {"advance", "dispatch"} ~> run.op \in {"idle", "failed"}

\* A dry run ends, whatever loops the script has.
DryRunEnds == DryRun => <>(run.op = "failed" \/ (run = Idle /\ Top.node = End))

\* The handlers that the lowest k frames are in.
HandlersOf(s) ==
    LET Below[k \in 0 .. Len(s)] ==
            IF k = 0 THEN 0
            ELSE Below[k - 1] + (IF s[k].node = End THEN 0 ELSE HandlerDepth(s[k].node))
    IN Below[Len(s)]

\* "Innermost exception being handled is last": every pending exception is being
\* handled by some frame.
PendingAreHandled == run = Idle => Len(pending) = HandlersOf(stack)

\* "Discards all state regarding the progress of the script": Reset leaves the
\* executor as it was created.
ResetDiscards ==
    [][ResetState => /\ stack' = <<NewFrame(stack[1].script, {})>>
                     /\ errorVar' = NoExc
                     /\ caseTrue' = -1 /\ caseCurrent' = -1
                     /\ returned' = FALSE]_vars

=============================================================================
