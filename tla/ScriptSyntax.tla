---------------------------- MODULE ScriptSyntax ----------------------------
(***************************************************************************)
(* All the scripts of a bounded size: a script grows by one statement at a *)
(* time, in the order of the text, and every state is a complete script    *)
(* that ParsedScript accepts.  What is checked in every state is the       *)
(* control-flow graph the builder makes from the script.                   *)
(***************************************************************************)
EXTENDS ControlFlowGraph

CONSTANTS
    Profiles,   \* families of scripts: the forms of statement they may use (names
                \* of Shape), the labels, and a bound on the number of statements
    Vars        \* the names of variables

VARIABLES
    ast,        \* the script
    profile     \* the family it belongs to

\* The kinds of statement that may carry a label, and that create a variable.
MayHaveLabel == LoopKinds \cup {"begin", "break", "continue"}
CreatesVariable == {"declare", "for"}

Statements(script) ==
    {p \in DOMAIN script : p # <<>> /\ KindOf(script, Parent(p)) = "list"}

\* The lists to which a statement can be appended at the end of the text.
OpenLists(script) ==
    {p \in DOMAIN script :
        /\ KindOf(script, p) = "list"
        /\ \A q \in Statements(script) : Precedes(p, q) => IsPrefix(p, q)}

Init == ast = EmptyScript /\ profile \in Profiles

\* The scripts with one statement more.
Extensions(script) ==
    UNION {LET kind == Shape(form)[<<>>]
               labels == IF kind \in MayHaveLabel THEN profile.labels ELSE {}
               vars == IF kind \in CreatesVariable THEN {<<v>> : v \in Vars} ELSE {<<>>}
           IN {AppendStatement(script, list, form, label, ids) :
                    list \in OpenLists(script), label \in labels \cup {NoLabel}, ids \in vars} :
            form \in profile.forms}

Grow ==
    /\ Cardinality(Statements(ast)) < profile.size
    /\ ast' \in {script \in Extensions(ast) : IsValid(script, {}, profile.size)}
    /\ UNCHANGED profile

Next == Grow

Spec == Init /\ [][Next]_<<ast, profile>>

-----------------------------------------------------------------------------
(***************************************************************************)
(* A reference semantics, top-down: where control goes when the statement  *)
(* or list at a path completes, found from what encloses it.               *)
(***************************************************************************)
Continuation(script) ==
    LET After[p \in DOMAIN script] ==
        IF p = <<>> THEN EndNode
        ELSE LET up == Parent(p)
                 kind == KindOf(script, up)
             IN CASE kind = "list" ->
                       IF Child(up, Last(p) + 1) \in DOMAIN script
                       THEN StmtStart(script, Child(up, Last(p) + 1))
                       ELSE After[up]
                  [] kind \in {"while", "loop"} -> CfgNode(up)
                  [] kind = "repeat" -> CfgNode(Child(up, 2))
                  [] kind = "for" -> ForAdvance(up)
                  [] OTHER -> After[up]
    IN After

\* Where control goes when a list starts, given where it goes when it ends.
Entering(script, list, after) ==
    IF IsEmptyList(script, list) THEN after[list] ELSE ListStart(script, list)

\* The node that tests the clause after clause i of a chain, the ELSE list, or
\* what follows the statement.
OtherwiseOf(script, p, i, after) ==
    LET conds == Conditions(script, p)
    IN IF i < Len(conds) THEN CfgNode(conds[i + 1])
       ELSE IF NonEmptyElse(script, p) # {}
       THEN ListStart(script, CHOOSE q \in NonEmptyElse(script, p) : TRUE)
       ELSE after[p]

\* The successor of node n by an edge of the given kind that is not an
\* exception edge.
Successor(script, n, edgeKind, after) ==
    LET p == n.ast
        kind == KindOf(script, p)
        branch == IF kind \in {"elseif", "when"} THEN Parent(p) ELSE p
        conds == Conditions(script, branch)
        Index == CHOOSE i \in DOMAIN conds : conds[i] = p
    IN CASE kind = "return" -> EndNode
         [] kind = "break" -> after[CHOOSE q \in JumpTargets(script, p) : TRUE]
         [] kind = "continue" ->
              LET q == CHOOSE q \in JumpTargets(script, p) : TRUE IN after[Child(q, 1)]
         [] kind \in {"if", "elseif", "when"} /\ edgeKind = "true" ->
              Entering(script, Child(p, 1), after)
         [] kind \in {"if", "elseif", "when"} /\ edgeKind = "false" ->
              OtherwiseOf(script, branch, Index, after)
         [] kind \in {"case", "caseNoExpr"} -> CfgNode(conds[1])
         [] kind = "until" -> IF edgeKind = "true" THEN after[Parent(p)]
                                                   ELSE CfgNode(Parent(p))
         [] edgeKind = "false" -> after[p]
         [] kind \in LoopKinds \cup {"begin"} -> Entering(script, Child(p, 1), after)
         [] OTHER -> after[p]

\* The kinds of edge that leave node n.
LeavingKinds(script, n) ==
    LET kind == KindOf(script, n.ast)
    IN (IF kind \in ConditionKinds THEN {"true", "false"}
        ELSE IF kind \in MustThrowKinds THEN {} ELSE {"normal"})
       \cup (IF kind \in NoThrowKinds \/ HandlingBlock(script, n) = {}
             THEN {} ELSE {"exception"})

\* The graph of the reference semantics, as triples.
ReferenceEdges(script, nodes) ==
    LET after == Continuation(script)
        Target(n, k) ==
            IF k = "exception"
            THEN LET b == CHOOSE b \in HandlingBlock(script, n) : TRUE
                 IN Entering(script, HandlerList(b), after)
            ELSE Successor(script, n, k, after)
    IN UNION {{<<n, k, Target(n, k)>> : k \in LeavingKinds(script, n)} :
                n \in nodes \ {EndNode}}

-----------------------------------------------------------------------------
\* The parse tree stays well formed: every node but the root has a parent,
\* siblings are numbered from 1, and only the statements that may have a label or
\* create variables do.
TypeOK ==
    /\ profile \in Profiles
    /\ <<>> \in DOMAIN ast
    /\ \A p \in DOMAIN ast :
        /\ ast[p].label # NoLabel => KindOf(ast, p) \in MayHaveLabel
        /\ ast[p].vars # <<>> => KindOf(ast, p) \in CreatesVariable
    /\ \A p \in DOMAIN ast \ {<<>>} :
        /\ Parent(p) \in DOMAIN ast
        /\ \A i \in 1 .. Last(p) : Child(Parent(p), i) \in DOMAIN ast

\* LinkNodes never meets a second successor of the same kind ("already contains
\* a successor with kind"): building the graph of a valid script cannot fail
\* with an internal error, even in the part that is pruned afterwards.
OneSuccessorPerKind ==
    \A e, f \in AllLinks(ast) : e.pred = f.pred /\ e.kind = f.kind => e = f

HasReferenceEdges(script, graph) ==
    {<<e.pred, e.kind, e.succ>> : e \in graph.edges}
      = ReferenceEdges(script, graph.nodes)

\* The bottom-up construction agrees with the top-down meaning of the program:
\* every reachable node has exactly the successors the language gives it, so
\* AdvanceInternal always finds the edge it looks for, a BREAK in a handler
\* leaves the right loop, and an exception goes to the innermost handler.
GraphFollowsProgram == HasReferenceEdges(ast, Create(ast))

\* The variables that exist before n executes; at the end of the script those of
\* its own list remain.
Existing(script, n) ==
    IF n # EndNode THEN VariablesInScopeAt(script, n)
    ELSE UNION {ToSet(script[q].vars) : q \in {r \in Children(script, <<1>>) :
                    KindOf(script, r) = "declare"}}

\* The sets of variables that node n may have added when it leaves by an edge of
\* the given kind: all on success, any part of them on an exception.
Created(script, n, edgeKind) ==
    LET vars == ToSet(script[n.ast].vars)
    IN IF n.kind = "forAdvance" THEN {{}}
       ELSE IF edgeKind = "exception" THEN SUBSET vars
       ELSE IF edgeKind = "false" THEN {{}} ELSE {vars}

\* The side effects of every edge keep the executor's stacks in step with the
\* nesting of the node it arrives at: the loops and handlers that are left are
\* popped once, a handler that is reached is pushed, and the variables that
\* remain are those in scope there, also when DECLARE or FOR fails half way.
\* A RETURN at the top level may end the script before all of its own variables
\* exist.
SideEffectsMatchNesting ==
    \A e \in Create(ast).edges :
        LET effects == ComputeSideEffects(ast, e)
            opened == IF e.pred.kind = "forInitial" THEN 1 ELSE 0
        IN /\ ForNesting(ast, e.succ) =
                ForNesting(ast, e.pred) + opened - effects.forsExited
           /\ HandlerNesting(ast, e.succ) =
                HandlerNesting(ast, e.pred) - effects.handlersExited
                  + (IF effects.entered THEN 1 ELSE 0)
           /\ \A new \in Created(ast, e.pred, e.kind) :
                LET left == (Existing(ast, e.pred) \cup new) \ effects.destroyed
                IN IF e.succ = EndNode THEN left \subseteq Existing(ast, EndNode)
                                       ELSE left = Existing(ast, e.succ)

\* AddDestroyedVariables stops at the first statement that is not a DECLARE
\* because "no more variable declarations in this block can exist": what it
\* collects from a block's list is all that the block declares.
BlockVariablesAllDestroyed ==
    \A list \in {p \in DOMAIN ast : KindOf(ast, p) = "list"} :
        KindOf(ast, Parent(list)) = "begin" =>
            AddDestroyedVariables(ast, list, EndNode.ast) =
                UNION {ToSet(ast[q].vars) : q \in {r \in Children(ast, list) :
                        KindOf(ast, r) = "declare"}}
=============================================================================
