--------------------------- MODULE MatchPartition ---------------------------
(***************************************************************************)
(* The matcher of one partition: EdgeTracker (edge_tracker.cc), the marked *)
(* edges of RowEdgeList (row_edge_list.cc) and NFAMatchPartition           *)
(* (nfa_match_partition.cc).  The object is a record, its two operations   *)
(* AddRow and Finalize are functions from the object before the call to    *)
(* the object after it; PatternMatching makes the calls.                   *)
(* A RowEdgeList is the sequence, row by row, of the sets of marked edges. *)
(* A loop is a recursive function: its state after each row or iteration.  *)
(***************************************************************************)
EXTENDS MatchAutomaton

\* EdgeTracker::Reset.
NewTracker == [marked |-> <<>>, inputs |-> {}]

\* CanContinueMatch, on the marks of one row.
CanContinueMatch(nfa, marks) == \E e \in marks : EdgeAt(nfa, e).to # nfa.final

\* Mutant: marks that lead to no match stay.
FinalizeMarkedEdgesNot(nfa, marked, longest) == marked

\* From the last row to the first, keeps the marks from which a match can be completed
\* and, in longest-match mode, no way to end the match in a row where it can go on.
FinalizeMarkedEdges(nfa, marked, longest) ==
    LET kept[r \in 1 .. Len(marked)] ==
            LET valid == IF r = Len(marked) THEN {nfa.final}
                         ELSE {nfa.final} \cup {e[1] : e \in kept[r + 1]}
                ends == ~(longest /\ CanContinueMatch(nfa, marked[r]))
            IN  {e \in marked[r] : /\ EdgeAt(nfa, e).to \in valid
                                   /\ EdgeAt(nfa, e).to = nfa.final => ends}
    IN  kept

\* ProcessRow, on a row that allows these edges.  list is the RowEdgeList it returns, or
\* <<>> for nullptr (a list that is returned has at least the row just added).
ProcessRow(nfa, tracker, allowed, disallow, longest) ==
    LET starts == ~disallow /\ ~(longest /\ tracker.marked # <<>>)
        sources == tracker.inputs \cup (IF starts THEN {nfa.start} ELSE {})
        marks == EdgesFrom(nfa, sources) \cap allowed
        marked == Append(tracker.marked, marks)
    IN  IF CanContinueMatch(nfa, marks)
        THEN [tracker |-> [marked |-> marked, inputs |-> {EdgeAt(nfa, e).to : e \in marks}],
              list |-> <<>>]
        ELSE [tracker |-> NewTracker, list |-> FinalizeMarkedEdges(nfa, marked, longest)]

\* Mutant: the marked edge that comes last.
LowestPrecedenceMarkedEdge(marks, state) ==
    LET positions == {e[2] : e \in {f \in marks : f[1] = state}}
    IN  IF positions = {} THEN 0 ELSE Max(positions)

\* GetHighestPrecedenceMarkedEdge: the position of the edge, 0 for nullptr.
HighestPrecedenceMarkedEdge(marks, state) ==
    LET positions == {e[2] : e \in {f \in marks : f[1] = state}}
    IN  IF positions = {} THEN 0 ELSE Min(positions)

\* The loop of ComputeMatchImpl, which is left in the final state or on a failure: one row.
FollowEdge(nfa, marks, m) ==
    LET k == HighestPrecedenceMarkedEdge(marks, m.state)
        edge == nfa.edges[m.state][k]
    IN  IF ~m.ok \/ m.state = nfa.final THEN m
        ELSE IF k = 0 THEN [m EXCEPT !.ok = FALSE]
        ELSE IF edge.to = nfa.final THEN [m EXCEPT !.state = nfa.final]
        ELSE [state |-> edge.to, vars |-> Append(m.vars, edge.var), ok |-> edge.var # NoVar]

ComputeMatchImpl(nfa, list, row) ==
    LET loop[r \in row - 1 .. Len(list)] ==
            IF r = row - 1 THEN [state |-> nfa.start, vars |-> <<>>, ok |-> TRUE]
            ELSE FollowEdge(nfa, list[r], loop[r - 1])
    IN  loop[Len(list)]

\* ComputeLongestMatchModeMatch: a second tracker over the rows of the list, restricted to
\* its marks, returns the edges of the matches that start in this row.
TrackRow(nfa, marks, t) ==
    IF t.list # <<>> THEN t ELSE ProcessRow(nfa, t.tracker, marks, FALSE, TRUE)

\* ok is FALSE for "Shouldn't get here".
ComputeLongestMatchModeMatch(nfa, list, row) ==
    LET loop[r \in row - 1 .. Len(list)] ==
            IF r = row - 1 THEN [tracker |-> NewTracker, list |-> <<>>]
            ELSE TrackRow(nfa, list[r], loop[r - 1])
        specific == loop[Len(list)].list
    IN  IF specific = <<>> THEN [state |-> nfa.start, vars |-> <<>>, ok |-> FALSE]
        ELSE ComputeMatchImpl(nfa, specific, 1)

ComputeMatch(nfa, options, list, row) ==
    IF options.longest THEN ComputeLongestMatchModeMatch(nfa, list, row)
                       ELSE ComputeMatchImpl(nfa, list, row)

\* The row where the search goes on after a match.
NextStart(options, row, vars) ==
    row + (IF vars # <<>> /\ ~options.overlapping THEN Len(vars) ELSE 1)

\* The loop of ExtractMatches, one iteration: f holds the row where the next match may
\* start and the matches so far.  Rows of the list count from 1, start_row_index from 0.
ExtractMatch(nfa, options, list, last, offset, id, f) ==
    LET match == ComputeMatch(nfa, options, list, f.row)
    IN  IF ~f.ok \/ f.row > last THEN f
        ELSE IF HighestPrecedenceMarkedEdge(list[f.row], nfa.start) = 0
        THEN [f EXCEPT !.row = @ + 1]
        ELSE IF ~match.ok THEN [f EXCEPT !.ok = FALSE]
        ELSE [row |-> NextStart(options, f.row, match.vars),
              matches |-> Append(f.matches, [match_id |-> id + Len(f.matches),
                                             start_row_index |-> offset + f.row - 1,
                                             vars |-> match.vars]),
              ok |-> TRUE]

\* The matches that start in the rows up to last, which every iteration brings nearer.
MatchesFrom(nfa, options, list, last, offset, id) ==
    LET loop[n \in 0 .. last] ==
            IF n = 0 THEN [row |-> 1, matches |-> <<>>, ok |-> TRUE]
            ELSE ExtractMatch(nfa, options, list, last, offset, id, loop[n - 1])
    IN  loop[last]

\* Mutant: row_offset_ stays behind.
ExtractMatchesNoOffset(nfa, options, part, list, in_finalize) ==
    LET last == IF in_finalize THEN Len(list) - 1 ELSE Len(list)
        found == MatchesFrom(nfa, options, list, last, 0, part.next_match_id)
    IN  [part EXCEPT !.row_offset = @ + Len(list),
                     !.next_match_id = @ + Len(found.matches),
                     !.ok = @ /\ found.ok,
                     !.new_matches = found.matches]

\* ExtractMatches; in Finalize the last row of the list is the sentinel.
ExtractMatches(nfa, options, part, list, in_finalize) ==
    LET last == IF in_finalize THEN Len(list) - 1 ELSE Len(list)
        found == MatchesFrom(nfa, options, list, last, part.row_offset, part.next_match_id)
    IN  [part EXCEPT !.row_offset = @ + Len(list),
                     !.next_match_id = @ + Len(found.matches),
                     !.ok = @ /\ found.ok,
                     !.new_matches = found.matches]

\* A NFAMatchPartition as constructed.  ok stands for the RET_CHECKs that have held so
\* far, new_matches for the result of the last call.
NewMatchPartition == [tracker |-> NewTracker, row_offset |-> 0, next_match_id |-> 1,
                      at_partition_start |-> TRUE, finalized |-> FALSE, ok |-> TRUE,
                      new_matches |-> <<>>]

AddRow(nfa, options, part, vars) ==
    LET allowed == {e \in EdgesFrom(nfa, DOMAIN nfa.edges) :
                        /\ EdgeAt(nfa, e).head => part.at_partition_start
                        /\ ~EdgeAt(nfa, e).tail
                        /\ EdgeAt(nfa, e).var \in {NoVar} \cup vars}
        step == ProcessRow(nfa, part.tracker, allowed, FALSE, FALSE)
        added == [part EXCEPT !.tracker = step.tracker, !.at_partition_start = FALSE,
                              !.new_matches = <<>>]
    IN  IF step.list = <<>> THEN added
        ELSE ExtractMatches(nfa, options, added, step.list, FALSE)

\* The sentinel row: only edges that consume nothing, and no match may start.
Finalize(nfa, options, part) ==
    LET allowed == {e \in EdgesFrom(nfa, DOMAIN nfa.edges) :
                        ~EdgeAt(nfa, e).head /\ EdgeAt(nfa, e).var = NoVar}
        step == ProcessRow(nfa, part.tracker, allowed, TRUE, FALSE)
        ended == [part EXCEPT !.tracker = step.tracker, !.finalized = TRUE,
                              !.new_matches = <<>>]
    IN  IF step.list = <<>> THEN [ended EXCEPT !.ok = FALSE]
        ELSE ExtractMatches(nfa, options, ended, step.list, TRUE)

=============================================================================
