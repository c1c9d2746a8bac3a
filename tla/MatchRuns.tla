----------------------------- MODULE MatchRuns ------------------------------
(***************************************************************************)
(* What a match is, said of the automaton and of the whole partition: the  *)
(* accepting runs over the partition's rows, the order of precedence       *)
(* between them and the rows a match takes.  It is the reference for       *)
(* NFAMatchPartition (MatchPartition.tla), which sees the rows one by one. *)
(***************************************************************************)
EXTENDS MatchAutomaton

\* The edges usable in row i of a partition, counting from 0; i = Len(rows) is behind the
\* last row.  ^ holds in the first row, $ behind the last row once the partition has ended.
Usable(nfa, rows, ended, i) ==
    {e \in EdgesFrom(nfa, DOMAIN nfa.edges) :
        /\ EdgeAt(nfa, e).head => i = 0
        /\ EdgeAt(nfa, e).tail => i = Len(rows) /\ ended
        /\ EdgeAt(nfa, e).var # NoVar => i < Len(rows) /\ EdgeAt(nfa, e).var \in rows[i + 1]}

\* The paths from the start state, taken in row r, by their number of edges: one edge is
\* usable in each row.
Paths(nfa, rows, ended, r) ==
    LET paths[n \in 1 .. Len(rows) - r + 1] ==
            LET from(states) == EdgesFrom(nfa, states) \cap Usable(nfa, rows, ended, r + n - 1)
            IN  IF n = 1 THEN {<<e>> : e \in from({nfa.start})}
                ELSE UNION {{Append(p, e) : e \in from({EdgeAt(nfa, p[Len(p)]).to})} :
                               p \in paths[n - 1]}
    IN  paths

\* The accepting runs of the automaton that begin in row r.
Runs(nfa, rows, ended, r) ==
    LET paths == Paths(nfa, rows, ended, r)
    IN  {p \in UNION {paths[n] : n \in DOMAIN paths} : EdgeAt(nfa, p[Len(p)]).to = nfa.final}

\* The first edge in which p and q differ has the higher precedence in p.
Earlier(p, q) ==
    \E i \in DOMAIN p \cap DOMAIN q : p[i][2] < q[i][2] /\ \A j \in 1 .. i - 1 : p[j] = q[j]

Preferred(options, p, q) ==
    \/ p = q
    \/ options.longest /\ Len(p) > Len(q)
    \/ (options.longest => Len(p) = Len(q)) /\ Earlier(p, q)

\* The rows in which, by the skip rule, no other match starts.
Taken(options, match) ==
    LET first == match.start_row_index
    IN  IF options.overlapping THEN {first} ELSE {first} \cup first .. first + Len(match.vars) - 1

=============================================================================
