-------------------------- MODULE MCScriptControl --------------------------
(***************************************************************************)
(* Instances of ScriptControl for TLC.  The graphs are those that          *)
(* ControlFlowGraph makes from parse trees.                                *)
(***************************************************************************)
EXTENDS ScriptControl, TLC

C == INSTANCE ControlFlowGraph

\* A script is given by the steps that build its parse tree: where each statement
\* is appended, its form, and the variables it creates.
Tree(steps) ==
    LET Built[k \in 0 .. Len(steps)] ==
            IF k = 0 THEN C!EmptyScript
            ELSE C!AppendStatement(Built[k - 1], steps[k][1], steps[k][2],
                                   C!NoLabel, steps[k][3])
    IN Built[Len(steps)]

\* All the valid scripts with n statements of the given forms, built in the order
\* of the text; DECLARE and FOR create the variables that creates gives.
ScriptsOf(n, forms, creates) ==
    LET Statements(list) ==
            {<<list, form, IF form \in DOMAIN creates THEN creates[form] ELSE <<>> >> :
                form \in forms}
        Lists(steps) ==
            LET tree == Tree(steps)
                last == IF steps = <<>> THEN <<>> ELSE C!Last(steps)[1]
            IN {p \in DOMAIN tree :
                    C!KindOf(tree, p) = "list" /\ (p = last \/ ~C!Precedes(p, last)
                                                   \/ C!IsStrictPrefix(p, last))}
        Grown[k \in 0 .. n] ==
            IF k = 0 THEN {<<>>}
            ELSE {s \in UNION {{Append(t, step) :
                                step \in UNION {Statements(list) : list \in Lists(t)}} :
                               t \in Grown[k - 1]} :
                    C!IsValid(Tree(s), {}, n)}
    IN Grown[n]

\* The scripts of an instance, each with its role and, for a procedure, its
\* arguments.  A script calls the procedures and executes the statements of its
\* own family.
Main(family, steps) ==
    [steps |-> steps, role |-> "main", args |-> {}, family |-> family]
Procedure(family, steps, args) ==
    [steps |-> steps, role |-> "procedure", args |-> args, family |-> family]
Statement(family, steps) ==
    [steps |-> steps, role |-> "statement", args |-> {}, family |-> family]

MCEnd == [ast |-> <<0>>, kind |-> "default", script |-> Main("none", <<>>)]

\* Control-flow node n of a script.
Id(script, n) ==
    IF n = C!EndNode THEN MCEnd ELSE [ast |-> n.ast, kind |-> n.kind, script |-> script]

StartsOf(scripts) == {Id(s, C!StartNode(Tree(s.steps))) : s \in scripts}

MainStartsOf(scripts) == StartsOf({s \in scripts : s.role = "main"})

NodeKind(tree, n) ==
    LET kind == C!KindOf(tree, n.ast)
    IN CASE kind = "for" -> n.kind
         [] kind = "when" /\ C!KindOf(tree, C!Parent(n.ast)) = "caseNoExpr" -> "whenNoExpr"
         [] OTHER -> kind

\* What the executor sees of node n of a script, given the edges that leave it.
NodeInfo(callees, script, tree, n, leaving) ==
    LET kind == NodeKind(tree, n)
    IN [kind |-> kind,
        succ |-> [k \in {e.kind : e \in leaving} |->
                    LET e == CHOOSE e \in leaving : e.kind = k
                        effects == C!ComputeSideEffects(tree, e)
                    IN [to |-> Id(script, e.succ),
                        destroyed |-> effects.destroyed,
                        handlersExited |-> effects.handlersExited,
                        forsExited |-> effects.forsExited,
                        entered |-> effects.entered]],
        creates |-> tree[n.ast].vars,
        scope |-> C!VariablesInScopeAt(tree, n) \cup script.args,
        forDepth |-> C!ForNesting(tree, n),
        handlers |-> C!HandlerNesting(tree, n),
        position |-> Cardinality({p \in DOMAIN tree : C!Precedes(p, n.ast)}),
        clause |-> IF kind = "when" THEN n.ast[Len(n.ast)] - 1 ELSE 0,
        clauses |-> Cardinality({p \in C!Children(tree, n.ast) : C!KindOf(tree, p) = "when"}),
        bodies |-> CASE kind = "call" -> callees.procedure
                     [] kind \in {"exec", "execInto"} -> callees.statement
                     [] OTHER -> {}]

\* The graph of each script, and all of them together: Graph[n] is node n.
GraphsOf(scripts) ==
    LET Callees(family, role) ==
            StartsOf({s \in scripts : s.family = family /\ s.role = role})
    IN [s \in scripts |->
            LET tree == Tree(s.steps)
                graph == C!Create(tree)
                callees == [procedure |-> Callees(s.family, "procedure"),
                            statement |-> Callees(s.family, "statement")]
            IN [n \in graph.nodes \ {C!EndNode} |->
                    NodeInfo(callees, s, tree, n, {e \in graph.edges : e.pred = n})]]

Together(graphs) ==
    [id \in UNION {{Id(s, n) : n \in DOMAIN graphs[s]} : s \in DOMAIN graphs} |->
        graphs[id.script][[ast |-> id.ast, kind |-> id.kind]]]

-----------------------------------------------------------------------------
\* A procedure that declares a variable and raises.
Raising(family) == Procedure(family, <<
    << <<1>>, "declare", <<"x">> >>,
    << <<1>>, "raise", <<>> >> >>, {"a"})

\* A query, as a dynamic statement.
Query(family) == Statement(family, << << <<1>>, "sql", <<>> >> >>)

\* The main scripts, with a procedure and a dynamic statement.
Plain(mains) ==
    {Main("plain", m) : m \in mains} \cup {Raising("plain"), Query("plain")}
=============================================================================
