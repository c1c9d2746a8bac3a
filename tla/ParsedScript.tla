---------------------------- MODULE ParsedScript ----------------------------
(***************************************************************************)
(* The parse tree of one script, the checks ParsedScript runs on it before *)
(* it may execute, and the variables in scope at a control-flow node.      *)
(*                                                                         *)
(* A parse tree is a function from paths to nodes.  A path is the sequence *)
(* of child positions from the root, so the parent of p is Front(p), the   *)
(* ancestors of p are its prefixes and document order is position order.   *)
(* A node is a record with its kind, its label (NoLabel if it has none)    *)
(* and the sequence of variables it creates (DECLARE and FOR only).        *)
(*                                                                         *)
(* Shapes, by kind:                                                        *)
(*   script            child 1 is a list                                   *)
(*   list              its children are the statements                     *)
(*   begin             child 1 is a list; child 2, if any, a handler       *)
(*   handler           child 1 is a list                                   *)
(*   if                child 1 is the THEN list, then elseif clauses, then *)
(*                     possibly the ELSE list                              *)
(*   case, caseNoExpr  when clauses, then possibly the ELSE list           *)
(*   elseif, when      child 1 is a list                                   *)
(*   while, loop, for  child 1 is a list (loop is WHILE with no condition) *)
(*   repeat            child 1 is a list, child 2 the until clause         *)
(* Every other kind is a statement without children.                       *)
(***************************************************************************)
EXTENDS Integers, Sequences, FiniteSets, SequencesExt

\* The label of a statement that has none.
NoLabel == "none"

LoopKinds == {"while", "loop", "repeat", "for"}

\* node->node_kind() of the node at path p.
KindOf(ast, p) == ast[p].kind

Parent(p) == Front(p)

Children(ast, p) == {q \in DOMAIN ast : Len(q) = Len(p) + 1 /\ IsPrefix(p, q)}

Child(p, i) == Append(p, i)

\* The node at p starts before the node at q in the text.
Precedes(p, q) ==
    \/ IsStrictPrefix(p, q)
    \/ \E i \in 1 .. Len(p) :
        /\ i <= Len(q) /\ p[i] < q[i]
        /\ \A j \in 1 .. i - 1 : p[j] = q[j]

\* Statement lists made with set_variable_declarations_allowed(true): the list
\* of the script and the main list of a BEGIN block.
DeclarationsAllowed(ast, p) ==
    /\ KindOf(ast, p) = "list"
    /\ KindOf(ast, Parent(p)) \in {"script", "begin"}

\* The paths of the statements that create variables.
Declarers(ast) == {p \in DOMAIN ast : KindOf(ast, p) \in {"declare", "for"}}

\* The subtree in which the variables that p creates are visible.
ScopeRoot(ast, p) == IF KindOf(ast, p) = "for" THEN p ELSE Parent(p)

\* Statements that break the run of statements at the head of a list: all but
\* DECLARE and the assignments that options allow before it.
EndsDeclarations(ast, p) == KindOf(ast, p) \notin {"declare", "sysvar"}

\* ValidateVariableDeclarationsVisitor, first half: DECLARE only at the start
\* of a block or script.
DeclarationsFirst(ast) ==
    \A p \in DOMAIN ast : KindOf(ast, p) = "declare" =>
        /\ DeclarationsAllowed(ast, Parent(p))
        /\ \A i \in 1 .. Last(p) - 1 : ~EndsDeclarations(ast, Child(Parent(p), i))

\* ValidateVariableDeclarationsVisitor, second half: no variable is declared
\* again in the scope of another variable or argument of the same name.
NoRedeclaration(ast, args) ==
    /\ \A p \in Declarers(ast) :
        /\ IsInjective(ast[p].vars)
        /\ ToSet(ast[p].vars) \cap args = {}
    /\ \A p, q \in Declarers(ast) :
        p # q /\ IsPrefix(ScopeRoot(ast, p), q) =>
            ToSet(ast[p].vars) \cap ToSet(ast[q].vars) = {}

\* ValidateRaiseStatementsVisitor: RAISE without a message only in a handler.
RethrowInHandler(ast) ==
    \A p \in DOMAIN ast : KindOf(ast, p) = "rethrow" =>
        \E q \in Prefixes(p) : KindOf(ast, q) = "handler"

\* IsScriptStatement(): SQL statements, CALL, EXECUTE IMMEDIATE, assignments to
\* system variables, lists, handlers and clauses are not.
ScriptStatementKinds ==
    LoopKinds \cup {"if", "case", "caseNoExpr", "begin", "declare", "assign",
                    "break", "continue", "return", "raise", "rethrow"}

\* VerifyMaxScriptingDepthVisitor: nesting of script statements is bounded.
DepthWithin(ast, maxDepth) ==
    \A p \in DOMAIN ast :
        Cardinality({q \in Prefixes(p) : KindOf(ast, q) \in ScriptStatementKinds})
          <= maxDepth

\* ParsedScript::GetVariablesInScopeAtNode.  n is a control-flow node: a
\* record with the path it executes and its kind.
VariablesInScopeAt(ast, n) ==
    LET Leading(list) ==
            {q \in Children(ast, list) :
                /\ KindOf(ast, q) = "declare"
                /\ \A i \in 1 .. Last(q) : Child(list, i) # n.ast
                /\ \A i \in 1 .. Last(q) - 1 :
                    \/ KindOf(ast, Child(list, i)) = "declare"
                    \/ /\ KindOf(ast, Child(list, i)) = "sysvar"
                       /\ KindOf(ast, Parent(list)) = "script"}
        Around == Prefixes(n.ast) \ {n.ast}
        Fors == {q \in Around : KindOf(ast, q) = "for"}
                \cup (IF n.kind = "forAdvance" THEN {n.ast} ELSE {})
        Decls == UNION {Leading(q) : q \in {r \in Around :
                            /\ KindOf(ast, r) = "list"
                            /\ DeclarationsAllowed(ast, r)}}
    IN UNION {ToSet(ast[q].vars) : q \in Fors \cup Decls}

-----------------------------------------------------------------------------
\* The grammar: the kinds of the nodes a statement consists of, by the path from
\* the statement.  Forms with the same name as a kind are statements without
\* children.
Shape(form) ==
    CASE form = "begin" -> (<<>> :> "begin") @@ (<<1>> :> "list")
      [] form = "try" -> (<<>> :> "begin") @@ (<<1>> :> "list")
            @@ (<<2>> :> "handler") @@ (<<2, 1>> :> "list")
      [] form = "if" -> (<<>> :> "if") @@ (<<1>> :> "list")
      [] form = "ifElse" -> (<<>> :> "if") @@ (<<1>> :> "list")
            @@ (<<2>> :> "elseif") @@ (<<2, 1>> :> "list") @@ (<<3>> :> "list")
      [] form \in {"case", "caseNoExpr"} -> (<<>> :> form)
            @@ (<<1>> :> "when") @@ (<<1, 1>> :> "list")
            @@ (<<2>> :> "when") @@ (<<2, 1>> :> "list") @@ (<<3>> :> "list")
      [] form = "repeat" -> (<<>> :> "repeat") @@ (<<1>> :> "list")
            @@ (<<2>> :> "until")
      [] form \in {"while", "loop", "for"} -> (<<>> :> form) @@ (<<1>> :> "list")
      [] OTHER -> <<>> :> form

\* The parse tree of the empty script.
EmptyScript ==
    [p \in {<<>>, <<1>>} |->
        [kind |-> IF p = <<>> THEN "script" ELSE "list",
         label |-> NoLabel, vars |-> <<>>]]

\* Mutant: every node of the statement creates its variables.
AppendStatementSharingVars(script, list, form, label, vars) ==
    LET at == Child(list, Cardinality(Children(script, list)) + 1)
        shape == Shape(form)
    IN script @@ [p \in {at \o q : q \in DOMAIN shape} |->
            [kind |-> shape[SubSeq(p, Len(at) + 1, Len(p))],
             label |-> IF p = at THEN label ELSE NoLabel, vars |-> vars]]

\* script extended by a statement of the given form at the end of a list.
AppendStatement(script, list, form, label, vars) ==
    LET at == Child(list, Cardinality(Children(script, list)) + 1)
        shape == Shape(form)
    IN script @@ [p \in {at \o q : q \in DOMAIN shape} |->
            [kind |-> shape[SubSeq(p, Len(at) + 1, Len(p))],
             label |-> IF p = at THEN label ELSE NoLabel,
             vars |-> IF p = at THEN vars ELSE <<>>]]

=============================================================================
