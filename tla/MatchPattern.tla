---------------------------- MODULE MatchPattern ----------------------------
(***************************************************************************)
(* How a MATCH_RECOGNIZE pattern becomes the automaton that is run over    *)
(* the rows: NFABuilder (nfa_builder.cc), the checks of NFA::Validate      *)
(* (nfa.cc) and the EpsilonRemover (epsilon_remover.cc), under             *)
(* googlesql/common/match_recognize.  Everything here is a function of the *)
(* pattern; TLC evaluates it, one pattern at a time.                       *)
(*                                                                         *)
(* A pattern is a record whose field op names the resolved node:           *)
(*   [op |-> "empty"]  [op |-> "variable", var]  [op |-> "head"] (^)       *)
(*   [op |-> "tail"] ($)  [op |-> "concat", args]                          *)
(*   [op |-> "alternate", args]                                            *)
(*   [op |-> "quantify", arg, lower, upper, reluctant]                     *)
(* with upper = Unbounded when the node has no upper bound.  A graph under *)
(* construction is the field edges of an automaton, a sequence.            *)
(***************************************************************************)
EXTENDS MatchAutomaton, SequencesExt

\* The absent upper bound of a quantifier.
Unbounded == -1

\* NFAEdge(target): consumes nothing, no anchor.
Epsilon(to) == [var |-> NoVar, to |-> to, head |-> FALSE, tail |-> FALSE]

\* The two NewState() calls every subgraph starts with.
NewStates(g) == g \o << <<>>, <<>> >>

AddEdge(g, from, edge) == [g EXCEPT ![from] = Append(@, edge)]

\* AddEdge for a sequence of <<from, to>> pairs, in that order.
Link(g, pairs) == FoldLeft(LAMBDA h, p : AddEdge(h, p[1], Epsilon(p[2])), g, pairs)

\* A subgraph of one edge between two new states.
SingleEdge(g, edge) ==
    LET start == Len(g) + 1
    IN  [g |-> AddEdge(NewStates(g), start, [edge EXCEPT !.to = start + 1]),
         start |-> start, end |-> start + 1]

\* After a repetition: once more, or leave.  The first of the two is preferred.
Repeating(reluctant, again, leave) ==
    IF reluctant THEN <<leave, again>> ELSE <<again, leave>>

\* Operands are visited left to right; subs is the part of subgraph_stack_ they leave.
RECURSIVE Build(_, _)
BuildAll(g, patterns) ==
    FoldLeft(LAMBDA b, p : LET sub == Build(b.g, p)
                           IN  [g |-> sub.g, subs |-> Append(b.subs, sub)],
             [g |-> g, subs |-> <<>>], patterns)

BuildAlternation(g, args) ==
    LET b == BuildAll(g, args)
        start == Len(b.g) + 1
        end == start + 1
    IN  [g |-> Link(NewStates(b.g),
                    FlattenSeq([i \in DOMAIN args |-> << <<start, b.subs[i].start>>,
                                                         <<b.subs[i].end, end>> >>])),
         start |-> start, end |-> end]

BuildConcat(g, args) ==
    LET b == BuildAll(g, args)
        start == Len(b.g) + 1
        end == start + 1
        left == <<start>> \o [i \in DOMAIN args |-> b.subs[i].end]
        right == [i \in DOMAIN args |-> b.subs[i].start] \o <<end>>
    IN  [g |-> Link(NewStates(b.g), [i \in DOMAIN left |-> <<left[i], right[i]>>]),
         start |-> start, end |-> end]

\* One copy of the operand per repetition; from the lower bound on, each can be skipped.
BuildBoundedQuantifier(g, p) ==
    LET start == Len(g) + 1
        end == start + 1
        b == BuildAll(NewStates(g), [i \in 1 .. p.upper |-> p.arg])
        curr == <<start>> \o [i \in 1 .. p.upper |-> b.subs[i].end]
        enter(i) == <<curr[i], b.subs[i].start>>
        repeat(i) == IF i > p.lower
                     THEN Repeating(p.reluctant, enter(i), <<curr[i], end>>)
                     ELSE <<enter(i)>>
    IN  [g |-> Link(b.g, FlattenSeq([i \in 1 .. p.upper |-> repeat(i)])
                            \o << <<curr[p.upper + 1], end>> >>),
         start |-> start, end |-> end]

\* Foo*: one copy looping through the start state.  Foo{m,}: m copies, the last loops.
BuildUnboundedQuantifier(g, p) ==
    LET start == Len(g) + 1
        end == start + 1
        copies == IF p.lower = 0 THEN 1 ELSE p.lower
        b == BuildAll(NewStates(g), [i \in 1 .. copies |-> p.arg])
        last == b.subs[copies]
        curr == <<start>> \o [i \in 1 .. copies |-> b.subs[i].end]
        links == IF p.lower = 0
                 THEN << <<last.end, start>> >>
                         \o Repeating(p.reluctant, <<start, last.start>>, <<start, end>>)
                 ELSE [i \in 1 .. copies |-> <<curr[i], b.subs[i].start>>]
                         \o Repeating(p.reluctant, <<last.end, last.start>>, <<last.end, end>>)
    IN  [g |-> Link(b.g, links), start |-> start, end |-> end]

Build(g, p) ==
    CASE p.op = "empty" -> SingleEdge(g, Epsilon(0))
      [] p.op = "variable" -> SingleEdge(g, [Epsilon(0) EXCEPT !.var = p.var])
      [] p.op = "head" -> SingleEdge(g, [Epsilon(0) EXCEPT !.head = TRUE])
      [] p.op = "tail" -> SingleEdge(g, [Epsilon(0) EXCEPT !.tail = TRUE])
      [] p.op = "concat" -> BuildConcat(g, p.args)
      [] p.op = "alternate" -> BuildAlternation(g, p.args)
      [] p.op = "quantify" /\ p.upper = Unbounded -> BuildUnboundedQuantifier(g, p)
      [] p.op = "quantify" /\ p.upper # Unbounded -> BuildBoundedQuantifier(g, p)

\* The graph of the whole pattern between a start and a final state of its own.
Graph(p) ==
    LET sub == Build(<<>>, p)
        start == Len(sub.g) + 1
    IN  [edges |-> Link(NewStates(sub.g), << <<start, sub.start>>, <<sub.end, start + 1>> >>),
         start |-> start, final |-> start + 1]

-----------------------------------------------------------------------------
\* Removing the edges that consume nothing.

RECURSIVE Closure(_, _)
Closure(nfa, states) ==
    LET next == states \cup {e.to : e \in UNION {ToSet(nfa.edges[s]) : s \in states}}
    IN  IF next = states THEN states ELSE Closure(nfa, next)

\* ValidateAllStatesReachable.
AllStatesReachable(nfa) == Closure(nfa, {nfa.start}) = DOMAIN nfa.edges

\* The states of state_map_; they keep their numbers here.
KeptStates(nfa) ==
    {nfa.start, nfa.final} \cup {e.to : e \in {f \in EdgesOf(nfa) : f.var # NoVar}}

\* The stack entries for the edges of a state that the anchors let through, top first.
PushEdges(nfa, state, atStart, atEnd) ==
    LET usable == SelectSeq(nfa.edges[state],
                            LAMBDA e : (e.head => atStart) /\ (e.tail => atEnd))
    IN  [i \in DOMAIN usable |-> [source |-> state, edge |-> usable[i]]]

\* The loop of GetEpsilonRemovedEdgesFrom: a depth-first walk in order of precedence.
RECURSIVE Walk(_, _, _, _, _)
Walk(nfa, stack, visited, atStart, atEnd) ==
    IF stack = <<>> THEN <<>>
    ELSE LET edge == Head(stack).edge
             seen == visited \cup {Head(stack).source}
             rest == Tail(stack)
         IN  IF edge.var # NoVar \/ edge.to = nfa.final
             THEN <<[Epsilon(edge.to) EXCEPT !.var = edge.var]>>
                     \o Walk(nfa, rest, seen, atStart, atEnd)
             ELSE IF edge.to \notin seen
             THEN Walk(nfa, PushEdges(nfa, edge.to, atStart, atEnd) \o rest, seen, atStart, atEnd)
             ELSE Walk(nfa, rest, seen, atStart, atEnd)

EpsilonRemovedEdgesFrom(nfa, state, atStart, atEnd) ==
    Walk(nfa, PushEdges(nfa, state, atStart, atEnd), {}, atStart, atEnd)

HeadAnchored(edges) == [i \in DOMAIN edges |-> [edges[i] EXCEPT !.head = TRUE]]

\* Edges that consume a row are unreachable at the end of the partition, and left out.
TailAnchored(edges) ==
    LET endings == SelectSeq(edges, LAMBDA e : e.var = NoVar)
    IN  [i \in DOMAIN endings |-> [endings[i] EXCEPT !.tail = TRUE]]

\* The number of edges before the first one equal to edge: all of them when there is none.
Before(edges, edge) ==
    LET i == SelectInSeq(edges, LAMBDA e : e = edge)
    IN  IF i = 0 THEN Len(edges) ELSE i - 1

\* Mutant: a head-anchored edge is added behind the edges usable anywhere.
RECURSIVE MergeHeadLast(_, _, _)
MergeHeadLast(atStart, mid, atEnd) ==
    IF mid = <<>> THEN HeadAnchored(atStart) \o TailAnchored(atEnd)
    ELSE LET s == Before(atStart, Head(mid))
             e == Before(atEnd, Head(mid))
         IN  TailAnchored(SubSeq(atEnd, 1, e)) \o <<Head(mid)>>
                \o HeadAnchored(SubSeq(atStart, 1, s))
                \o MergeHeadLast(SubSeq(atStart, s + 2, Len(atStart)), Tail(mid),
                                 SubSeq(atEnd, e + 2, Len(atEnd)))

\* The three-way merge of GetResult: each edge usable in mid partition is preceded by
\* the edges that only the start, and then only the end, of the partition allows.
RECURSIVE Merge(_, _, _)
Merge(atStart, mid, atEnd) ==
    IF mid = <<>> THEN HeadAnchored(atStart) \o TailAnchored(atEnd)
    ELSE LET s == Before(atStart, Head(mid))
             e == Before(atEnd, Head(mid))
         IN  HeadAnchored(SubSeq(atStart, 1, s)) \o TailAnchored(SubSeq(atEnd, 1, e))
                \o <<Head(mid)>>
                \o Merge(SubSeq(atStart, s + 2, Len(atStart)), Tail(mid),
                         SubSeq(atEnd, e + 2, Len(atEnd)))

\* RemoveEpsilons.  ok records that none of its RET_CHECKs failed.
RemoveEpsilons(nfa) ==
    LET mid(s) == EpsilonRemovedEdgesFrom(nfa, s, FALSE, FALSE)
        start(s) == IF s = nfa.start THEN EpsilonRemovedEdgesFrom(nfa, s, TRUE, FALSE)
                                     ELSE <<>>
        end(s) == EpsilonRemovedEdgesFrom(nfa, s, FALSE, TRUE)
        removed == [nfa EXCEPT !.edges =
                       [s \in KeptStates(nfa) |-> Merge(start(s), mid(s), end(s))]]
    IN  [edges |-> removed.edges, start |-> nfa.start, final |-> nfa.final,
         ok |-> /\ Valid(nfa, FALSE) /\ AllStatesReachable(nfa)
                /\ Len(start(nfa.start)) >= Len(mid(nfa.start))
                /\ \A s \in KeptStates(nfa) : Len(end(s)) >= Len(mid(s))
                /\ Valid(removed, TRUE)]

\* BuildNFAForPattern.
Compile(p) == RemoveEpsilons(Graph(p))

-----------------------------------------------------------------------------
(***************************************************************************)
(* What a pattern means, independently of any automaton.  Ways(p, rows, i, *)
(* ended) is the sequence of the label sequences that p can give to rows   *)
(* i+1, i+2, ..., in order of preference: alternatives left to right, a    *)
(* greedy quantifier before stopping, a reluctant one after it.  rows[k]   *)
(* is the set of variables whose predicate holds on row k; ^ holds before  *)
(* the first row and $ after the last row of a partition that has ended.   *)
(* A repetition of an unbounded quantifier beyond its lower bound consumes *)
(* at least one row.                                                       *)
(***************************************************************************)
RECURSIVE Ways(_, _, _, _)
RECURSIVE InTurn(_, _, _, _)
RECURSIVE Repetitions(_, _, _, _, _, _)

\* Each way of first, followed by each way in which Rest goes on after it.
Followed(first, Rest(_)) ==
    FlattenSeq([k \in DOMAIN first |->
        LET rest == Rest(first[k]) IN [j \in DOMAIN rest |-> first[k] \o rest[j]]])

InTurn(args, rows, i, ended) ==
    IF args = <<>> THEN << <<>> >>
    ELSE Followed(Ways(Head(args), rows, i, ended),
                  LAMBDA w : InTurn(Tail(args), rows, i + Len(w), ended))

Repetitions(p, lower, upper, rows, i, ended) ==
    LET once == Ways(p.arg, rows, i, ended)
        left == IF upper = Unbounded THEN Unbounded ELSE upper - 1
        less == IF lower = 0 THEN 0 ELSE lower - 1
        more == Followed(IF lower = 0 /\ upper = Unbounded
                         THEN SelectSeq(once, LAMBDA w : w # <<>>) ELSE once,
                         LAMBDA w : Repetitions(p, less, left, rows, i + Len(w), ended))
    IN  IF upper = 0 THEN << <<>> >>
        ELSE IF lower > 0 THEN more
        ELSE IF p.reluctant THEN << <<>> >> \o more ELSE Append(more, <<>>)

Ways(p, rows, i, ended) ==
    CASE p.op = "empty" -> << <<>> >>
      [] p.op = "variable" -> IF i < Len(rows) /\ p.var \in rows[i + 1]
                              THEN << <<p.var>> >> ELSE <<>>
      [] p.op = "head" -> IF i = 0 THEN << <<>> >> ELSE <<>>
      [] p.op = "tail" -> IF i = Len(rows) /\ ended THEN << <<>> >> ELSE <<>>
      [] p.op = "concat" -> InTurn(p.args, rows, i, ended)
      [] p.op = "alternate" -> FlattenSeq([k \in DOMAIN p.args |->
                                              Ways(p.args[k], rows, i, ended)])
      [] p.op = "quantify" -> Repetitions(p, p.lower, p.upper, rows, i, ended)

RECURSIVE Nullable(_)
Nullable(p) ==
    CASE p.op \in {"empty", "head", "tail"} -> TRUE
      [] p.op = "variable" -> FALSE
      [] p.op = "concat" -> \A k \in DOMAIN p.args : Nullable(p.args[k])
      [] p.op = "alternate" -> \E k \in DOMAIN p.args : Nullable(p.args[k])
      [] p.op = "quantify" -> p.lower = 0 \/ Nullable(p.arg)

\* Some unbounded quantifier may repeat without consuming a row.
RECURSIVE LoopsOnEmpty(_)
LoopsOnEmpty(p) ==
    CASE p.op \in {"empty", "head", "tail", "variable"} -> FALSE
      [] p.op \in {"concat", "alternate"} -> \E k \in DOMAIN p.args : LoopsOnEmpty(p.args[k])
      [] p.op = "quantify" -> LoopsOnEmpty(p.arg) \/ (p.upper = Unbounded /\ Nullable(p.arg))

=============================================================================
