-------------------------- MODULE ControlFlowGraph --------------------------
(***************************************************************************)
(* The control-flow graph that ControlFlowGraphBuilder makes from a parse  *)
(* tree, and the side effects of following one of its edges.               *)
(*                                                                         *)
(* The builder works bottom-up: the visitor of a compound statement links  *)
(* its parts and hands the edges that leave it, whose successor it does    *)
(* not know yet, to the visitor of its parent.  EndEdges is that data      *)
(* (NodeData::end_edges) and Links the edges a visitor completes.          *)
(***************************************************************************)
EXTENDS ParsedScript

\* exit_to == nullptr: the edge has no side effects.
NoExit == <<0>>

\* The sentinel node; its ast_node() is nullptr.
EndNode == [ast |-> <<0>>, kind |-> "default"]

CfgNode(p) == [ast |-> p, kind |-> "default"]
ForInitial(p) == [ast |-> p, kind |-> "forInitial"]
ForAdvance(p) == [ast |-> p, kind |-> "forAdvance"]

Edge(pred, succ, kind, exit) ==
    [pred |-> pred, succ |-> succ, kind |-> kind, exit |-> exit]

\* An IncompleteEdge: predecessor and kind.
Open(pred, kind) == [pred |-> pred, kind |-> kind]

\* ThrowSemantics::kNoThrow, and the kinds LinkNodes never lets throw.
NoThrowKinds ==
    {"begin", "repeat", "break", "continue", "return", "caseNoExpr"}

\* ThrowSemantics::kMustThrow: RAISE has no normal successor.
MustThrowKinds == {"raise", "rethrow"}

\* NodeData::IsSpecialControlFlowStatement.
SpecialKinds == {"break", "continue", "return"}

\* Nodes that make no control-flow node.
StructureKinds == {"script", "list", "handler"}

\* LinkNodes: the kinds whose completion follows a condition edge.
ConditionKinds == {"for", "when", "if", "elseif", "until", "while"}

\* The calls of AddGraphNode: two nodes for FOR, one for everything else that
\* executes.
GraphNodes(ast) ==
    UNION {IF KindOf(ast, p) = "for" THEN {ForInitial(p), ForAdvance(p)}
                                     ELSE {CfgNode(p)} :
            p \in {q \in DOMAIN ast : KindOf(ast, q) \notin StructureKinds}}

\* NodeData::start of a statement; every statement has one.
StmtStart(ast, p) == IF KindOf(ast, p) = "for" THEN ForInitial(p) ELSE CfgNode(p)

\* NodeData::empty() of a statement list, and its start otherwise.
IsEmptyList(ast, list) == Children(ast, list) = {}
ListStart(ast, list) == StmtStart(ast, Child(list, 1))

\* BREAK and CONTINUE: without a label the innermost loop, with one the loop or
\* block that carries it.  The set is empty if the script is not valid.
JumpTargets(ast, p) ==
    LET Around == {q \in Prefixes(p) \ {p} :
                    IF ast[p].label = NoLabel
                    THEN KindOf(ast, q) \in LoopKinds
                    ELSE /\ ast[q].label = ast[p].label
                         /\ \/ KindOf(ast, q) \in LoopKinds
                            \/ KindOf(ast, q) = "begin" /\ KindOf(ast, p) = "break"}
    IN {q \in Around : \A r \in Around : Len(r) <= Len(q)}

\* LoopData::break_nodes / continue_nodes and BlockData::break_nodes of p.
JumpsTo(ast, p, kind) ==
    {CfgNode(q) : q \in {r \in DOMAIN ast :
                            KindOf(ast, r) = kind /\ p \in JumpTargets(ast, r)}}

\* LabelTracker and LoopTracker: labels of nested statements differ, and every
\* BREAK and CONTINUE has a target.
LabelsValid(ast) ==
    /\ \A p, q \in DOMAIN ast :
        IsStrictPrefix(p, q) /\ {KindOf(ast, p), KindOf(ast, q)}
                                    \cap {"break", "continue"} = {}
        => ast[p].label = NoLabel \/ ast[p].label # ast[q].label
    /\ \A p \in DOMAIN ast :
        KindOf(ast, p) \in {"break", "continue"} => JumpTargets(ast, p) # {}

\* BEGIN blocks with an EXCEPTION clause.
TryBlocks(ast) ==
    {p \in DOMAIN ast : KindOf(ast, p) = "begin" /\ Child(p, 2) \in DOMAIN ast}

\* exception_handler_data_stack_.back() when the node is added: the innermost
\* block whose main list, not its handler, contains it.  {} or a singleton.
HandlingBlock(ast, n) ==
    LET Around == {b \in TryBlocks(ast) : IsPrefix(Child(b, 1), n.ast)}
    IN {b \in Around : \A c \in Around : Len(c) <= Len(b)}

\* BlockWithExceptionHandlerData::handled_nodes of block b.
HandledNodes(ast, b) ==
    {n \in GraphNodes(ast) :
        /\ KindOf(ast, n.ast) \notin NoThrowKinds
        /\ b \in HandlingBlock(ast, n)}

HandlerList(b) == Child(Child(b, 2), 1)

\* IF and CASE are chains of conditions, each with a body: the IF itself and
\* its ELSEIF clauses, or the WHEN clauses.  The body is child 1 in each case.
Conditions(ast, p) ==
    LET Clauses == {q \in Children(ast, p) : KindOf(ast, q) \in {"elseif", "when"}}
        InOrder == SetToSortSeq(Clauses, LAMBDA q, r : Last(q) < Last(r))
    IN IF KindOf(ast, p) = "if" THEN <<p>> \o InOrder ELSE InOrder

NonEmptyElse(ast, p) ==
    {q \in Children(ast, p) :
        KindOf(ast, q) = "list" /\ Last(q) > 1 /\ ~IsEmptyList(ast, q)}

-----------------------------------------------------------------------------
\* NodeData::end_edges of every node, as each visitor leaves them.
EndEdges(ast) ==
    LET Ends[p \in DOMAIN ast] ==
        LET kind == KindOf(ast, p)
            body == Child(p, 1)
            Breaks == {Open(n, "normal") : n \in JumpsTo(ast, p, "break")}
        IN CASE kind = "list" ->
                  LET last == Child(p, Cardinality(Children(ast, p)))
                  IN IF IsEmptyList(ast, p) \/ KindOf(ast, last) \in SpecialKinds
                     THEN {} ELSE Ends[last]
             [] kind \in {"if", "case", "caseNoExpr"} ->
                  LET conds == Conditions(ast, p)
                      bodies == {Child(conds[i], 1) : i \in DOMAIN conds}
                  IN UNION {Ends[b] : b \in bodies \cup NonEmptyElse(ast, p)}
                     \cup {Open(CfgNode(Parent(b)), "true") :
                            b \in {c \in bodies : IsEmptyList(ast, c)}}
                     \cup {Open(CfgNode(Last(conds)), "false") :
                            x \in {y \in {0} : NonEmptyElse(ast, p) = {}}}
             [] kind = "while" -> {Open(CfgNode(p), "false")} \cup Breaks
             [] kind = "loop" -> Breaks
             [] kind = "repeat" -> {Open(CfgNode(Child(p, 2)), "true")} \cup Breaks
             [] kind = "for" ->
                  {Open(ForInitial(p), "false"), Open(ForAdvance(p), "false")}
                  \cup Breaks
             [] kind = "begin" ->
                  (IF IsEmptyList(ast, body) THEN {Open(CfgNode(p), "normal")}
                                             ELSE Ends[body])
                  \cup (IF p \notin TryBlocks(ast) THEN {}
                        ELSE IF IsEmptyList(ast, HandlerList(p))
                        THEN {Open(n, "exception") : n \in HandledNodes(ast, p)}
                        ELSE Ends[HandlerList(p)])
                  \cup Breaks
             [] kind \in MustThrowKinds -> {}
             [] kind \in {"script", "handler", "elseif", "when", "until"} -> {}
             [] OTHER -> {Open(CfgNode(p), "normal")}
    IN Ends

\* LinkEndNodes.
LinkEnds(ends, succ, exit) == {Edge(o.pred, succ, o.kind, exit) : o \in ends}

\* Mutant: BREAK, CONTINUE and RETURN are linked to the statement after them too.
ListLinksAfterJumps(ast, ends, p) ==
    UNION {LinkEnds(ends[Child(p, i)], StmtStart(ast, Child(p, i + 1)), p) :
            i \in 1 .. Cardinality(Children(ast, p)) - 1}

\* The edges completed by the visitor of a statement list.
ListLinks(ast, ends, p) ==
    UNION {LinkEnds(ends[Child(p, i)], StmtStart(ast, Child(p, i + 1)), p) :
            i \in {j \in 1 .. Cardinality(Children(ast, p)) - 1 :
                    KindOf(ast, Child(p, j)) \notin SpecialKinds}}

\* The edges completed by visitASTIfStatement and visitASTCaseStatement.
BranchLinks(ast, p) ==
    LET conds == Conditions(ast, p)
        Cond(i) == CfgNode(conds[i])
        Body(i) == Child(conds[i], 1)
    IN {Edge(CfgNode(p), Cond(1), "normal", NoExit) :
            x \in {y \in {0} : KindOf(ast, p) # "if"}}
       \cup {Edge(Cond(i), ListStart(ast, Body(i)), "true", NoExit) :
            i \in {j \in DOMAIN conds : ~IsEmptyList(ast, Body(j))}}
       \cup {Edge(Cond(i), Cond(i + 1), "false", NoExit) : i \in 1 .. Len(conds) - 1}
       \cup {Edge(CfgNode(Last(conds)), ListStart(ast, q), "false", NoExit) :
            q \in NonEmptyElse(ast, p)}

\* Mutant: CONTINUE leads to the start of the body.
LoopLinksContinueToBody(ast, ends, p, entries, kind, again) ==
    LET body == Child(p, 1)
        first == IF IsEmptyList(ast, body) THEN again ELSE ListStart(ast, body)
    IN {Edge(n, first, kind, NoExit) : n \in entries}
       \cup LinkEnds(ends[body], again, p)
       \cup {Edge(n, first, "normal", p) : n \in JumpsTo(ast, p, "continue")}

\* The edges completed by the visitors of the four loops: entries are the nodes
\* that start an iteration with an edge of the given kind, and again is the node
\* that the end of the body and CONTINUE lead to.
LoopLinks(ast, ends, p, entries, kind, again) ==
    LET body == Child(p, 1)
        first == IF IsEmptyList(ast, body) THEN again ELSE ListStart(ast, body)
    IN {Edge(n, first, kind, NoExit) : n \in entries}
       \cup LinkEnds(ends[body], again, p)
       \cup {Edge(n, again, "normal", p) : n \in JumpsTo(ast, p, "continue")}

\* The edges completed by visitASTBeginEndBlock.
BlockLinks(ast, p) ==
    LET body == Child(p, 1)
    IN {Edge(CfgNode(p), ListStart(ast, q), "normal", NoExit) :
            q \in {r \in {body} : ~IsEmptyList(ast, r)}}
       \cup {Edge(n, ListStart(ast, HandlerList(p)), "exception", p) :
            n \in IF p \in TryBlocks(ast) /\ ~IsEmptyList(ast, HandlerList(p))
                  THEN HandledNodes(ast, p) ELSE {}}

\* The edges made by the visitor of the node at p, given the end edges of all.
LinksAt(ast, ends, p) ==
    LET kind == KindOf(ast, p)
        Loop(entries, edgeKind, again) == LoopLinks(ast, ends, p, entries, edgeKind, again)
    IN CASE kind = "list" -> ListLinks(ast, ends, p)
         [] kind = "script" -> LinkEnds(ends[Child(p, 1)], EndNode, p)
         [] kind = "return" -> {Edge(CfgNode(p), EndNode, "normal", <<>>)}
         [] kind \in {"if", "case", "caseNoExpr"} -> BranchLinks(ast, p)
         [] kind = "while" -> Loop({CfgNode(p)}, "true", CfgNode(p))
         [] kind = "loop" -> Loop({CfgNode(p)}, "normal", CfgNode(p))
         [] kind = "repeat" ->
              Loop({CfgNode(p)}, "normal", CfgNode(Child(p, 2)))
              \cup {Edge(CfgNode(Child(p, 2)), CfgNode(p), "false", NoExit)}
         [] kind = "for" -> Loop({ForInitial(p), ForAdvance(p)}, "true", ForAdvance(p))
         [] kind = "begin" -> BlockLinks(ast, p)
         [] OTHER -> {}

Links(ast, ends) == UNION {LinksAt(ast, ends, p) : p \in DOMAIN ast}

\* Every edge the traversal makes.
AllLinks(ast) == Links(ast, EndEdges(ast))

\* ControlFlowGraph::start_node.
StartNode(ast) ==
    IF IsEmptyList(ast, <<1>>) THEN EndNode ELSE ListStart(ast, <<1>>)

\* The nodes the search of PruneUnreachable visits.
Reachable(start, links) ==
    LET Visit[k \in 0 .. Cardinality(links)] ==
            IF k = 0 THEN {start}
            ELSE LET before == Visit[k - 1]
                 IN before \cup {e.succ : e \in {f \in links : f.pred \in before}}
    IN Visit[Cardinality(links)]

\* PruneUnreachable.
PruneUnreachable(start, links) ==
    LET nodes == Reachable(start, links)
    IN [start |-> start, nodes |-> nodes, edges |-> {e \in links : e.pred \in nodes}]

\* ControlFlowGraph::Create: the traversal, then PruneUnreachable.
Create(ast) == PruneUnreachable(StartNode(ast), AllLinks(ast))

-----------------------------------------------------------------------------
\* The walk from p (inclusive) up to exit (exclusive), or to the root when exit
\* is not an ancestor.  The sentinel has no ast node to walk from.
WalkUp(p, exit) ==
    IF p = EndNode.ast THEN {}
    ELSE {q \in Prefixes(p) : IsPrefix(exit, p) => Len(q) > Len(exit)}

\* Mutant: the DECLARE that is executing is left out.
AddDestroyedVariablesBefore(ast, list, current) ==
    UNION {ToSet(ast[q].vars) : q \in {r \in Children(ast, list) :
        \A i \in 1 .. Last(r) :
            KindOf(ast, Child(list, i)) = "declare" /\ Child(list, i) # current}}

\* AddDestroyedVariables: the DECLAREs that lead the list, up to and including
\* the one that is executing.
AddDestroyedVariables(ast, list, current) ==
    UNION {ToSet(ast[q].vars) : q \in {r \in Children(ast, list) :
        /\ \A i \in 1 .. Last(r) : KindOf(ast, Child(list, i)) = "declare"
        /\ \A i \in 1 .. Last(r) - 1 : Child(list, i) # current}}

\* ControlFlowEdge::ComputeSideEffects.
ComputeSideEffects(ast, e) ==
    LET left == IF e.exit = NoExit THEN {} ELSE WalkUp(e.pred.ast, e.exit)
        reached == IF e.exit = NoExit THEN {} ELSE WalkUp(e.succ.ast, e.exit)
        Of(S, kind) == {q \in S : KindOf(ast, q) = kind}
        blockLists == {q \in Of(left, "list") : KindOf(ast, Parent(q)) = "begin"}
    IN [destroyed |->
            UNION {AddDestroyedVariables(ast, q, e.pred.ast) : q \in blockLists}
            \cup UNION {ToSet(ast[q].vars) : q \in Of(left, "for")},
        entered |-> Of(reached, "handler") # {},
        handlersExited |-> Cardinality(Of(left, "handler")),
        forsExited |-> Cardinality(Of(left, "for"))]

-----------------------------------------------------------------------------
\* ParsedScript::GatherInformationAndRunChecksInternal, for a script with the
\* given arguments; building the graph rejects misplaced labels and jumps.
IsValid(script, args, maxDepth) ==
    /\ DepthWithin(script, maxDepth)
    /\ DeclarationsFirst(script)
    /\ NoRedeclaration(script, args)
    /\ RethrowInHandler(script)
    /\ LabelsValid(script)

\* The number of FOR loops whose iterator is on the stack before n executes.
ForNesting(script, n) ==
    Cardinality({q \in Prefixes(n.ast) : n # EndNode /\ KindOf(script, q) = "for"})
      - (IF n.kind = "forInitial" THEN 1 ELSE 0)

\* The number of handlers that node n is in.
HandlerNesting(script, n) ==
    IF n = EndNode THEN 0
    ELSE Cardinality({q \in Prefixes(n.ast) : KindOf(script, q) = "handler"})
=============================================================================
