---------------------- MODULE PatternMatchingReference ----------------------
(***************************************************************************)
(* PatternMatching against the meaning of patterns (Ways of MatchPattern): *)
(* which matches a partition has, without any automaton.                   *)
(***************************************************************************)
EXTENDS PatternMatching, MatchPattern, SequencesExt

\* The ways to match from row r on (counting from 0) that the mode accepts, best first.
Accepted(q, rows, r, ended) ==
    LET ways == Ways(q.pattern, rows, r, ended)
    IN  IF q.options.longest
        THEN SelectSeq(ways, LAMBDA w : \A v \in ToSet(ways) : Len(v) <= Len(w))
        ELSE ways

\* The skip rule: the next match starts behind this one or, if matches may overlap or
\* this one is empty, as early as in the next row.
Skip(q, r, w) == r + (IF q.options.overlapping THEN 1 ELSE Max({1, Len(w)}))

\* The matches ms are those of the rows from r up to limit: one in every row where some
\* way to match starts and the mode does not skip the row, labelled in an accepted way.
\* It is the preferred one, unless a quantifier of the pattern may repeat on nothing.
RECURSIVE Explained(_, _, _, _, _, _)
Explained(q, rows, ended, ms, r, limit) ==
    LET ways == Accepted(q, rows, r, ended)
    IN  IF r >= limit THEN ms = <<>>
        ELSE IF ways = <<>> THEN Explained(q, rows, ended, ms, r + 1, limit)
        ELSE /\ ms # <<>>
             /\ Head(ms).start_row_index = r
             /\ IF LoopsOnEmpty(q.pattern) THEN Head(ms).vars \in ToSet(ways)
                                           ELSE Head(ms).vars = Head(ways)
             /\ Explained(q, rows, ended, Tail(ms), Skip(q, r, Head(ms).vars), limit)

\* The matches of a whole partition from row r on, by preference.
RECURSIVE Reference(_, _, _, _)
Reference(q, rows, r, id) ==
    LET ways == Accepted(q, rows, r, TRUE)
    IN  IF r >= Len(rows) THEN <<>>
        ELSE IF ways = <<>> THEN Reference(q, rows, r + 1, id)
        ELSE <<[match_id |-> id, start_row_index |-> r, vars |-> Head(ways)]>>
                \o Reference(q, rows, Skip(q, r, Head(ways)), id + 1)

\* The matches reported while a partition is streamed in are the right ones: leftmost
\* first, in the preferred (or, in longest-match mode, the longest) way, with the skip
\* rule applied.  What ExtractMatches has reported for the rows before row_offset_ no
\* later row of the partition changes, and nothing is missing once Finalize has run.
MatchesAreRight ==
    LET fed == FedRows
    IN  Explained(query, fed, part.finalized, emitted, 0, Settled)

\* The partitions of the input: the tuples with the same keys, in the order of the keys.
Partitions ==
    LET keys == {input[i].key : i \in DOMAIN input}
        Group(k) == SelectSeq(input, LAMBDA t : t.key = k)
    IN  [n \in 1 .. Cardinality(keys) |->
            Group(CHOOSE k \in keys : Cardinality({j \in keys : j <= k}) = n)]

\* No tuple is lost, repeated or out of order between the input and the output, the one
\* that LoadNextPartition reads ahead included, and no match reaches beyond its
\* partition: at the end the output is the tuples of the right matches of each partition
\* of the input in turn, each match closed by its sentinel.
OutputIsComplete ==
    status = "end" /\ ~LoopsOnEmpty(query.pattern) =>
        output = FlattenSeq([n \in DOMAIN Partitions |->
                     AllTuples(Partitions[n], Reference(query, RowsOf(Partitions[n]), 0, 1))])

=============================================================================
