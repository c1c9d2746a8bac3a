-------------------------- MODULE PatternMatching ---------------------------
(***************************************************************************)
(* The iterator of the reference implementation's MATCH_RECOGNIZE operator *)
(* (PatternMatchingTupleIterator, reference_impl/pattern_matching_op.cc),  *)
(* which cuts its sorted input into partitions, feeds every row to a       *)
(* NFAMatchPartition and returns one output tuple per call of Next.        *)
(*                                                                         *)
(* A tuple of the input is its partition keys, by rank, and the set of     *)
(* pattern variables whose predicates hold on it.  Each action is one turn *)
(* of one of the loops of Next: LoadNextPartition, Feed, and the return of *)
(* a tuple; Fail is any of the early returns with an error (cancellation,  *)
(* a predicate, the input, the memory limit).                              *)
(***************************************************************************)
EXTENDS MatchPartition, MatchRuns

CONSTANTS Var, Query, Input

VARIABLES query,        \* the pattern, its options and the automaton
          input,        \* the tuples of input_iter_, in order
          taken,        \* how many of them input_iter_->Next() has returned
          nulls,        \* how often it has returned NULL
          ahead,        \* first_tuple_in_next_partition_
          finished,     \* finished_last_partition_
          current,      \* current_input_partition_ptrs_
          next,         \* next_input_tuple_idx_
          part,         \* current_match_partition_
          emitted,      \* the matches part has reported
          unconsumed,   \* unconsumed_match_results_
          output,       \* the tuples Next has returned
          status        \* "ok", "end" once the input is exhausted, "error"

reading == <<input, taken, nulls, ahead, finished, current>>

vars == <<query, reading, next, part, emitted, unconsumed, output, status>>

Tuple == [key : Nat \ {0}, holds : SUBSET Var]

NoTuple == [key |-> 0, holds |-> {}]  \* nullptr

ASSUME VarAssumption == NoVar \notin Var

\* A query is a pattern, the options of the match partitions and the automaton that
\* BuildNFAForPattern made of the pattern; ok records that its checks held.
ASSUME QueryAssumption ==
    \A q \in Query : /\ q.options \in [overlapping : BOOLEAN, longest : BOOLEAN]
                     /\ q.nfa.ok => IsAutomaton(q.nfa, Var)

\* The input is sorted by the partition keys.
ASSUME InputAssumption ==
    \A tuples \in Input :
        /\ tuples \in Seq(Tuple)
        /\ \A i, j \in 1 .. Len(tuples) : i <= j => tuples[i].key <= tuples[j].key

\* What the predicates say of each tuple.
RowsOf(tuples) == [k \in 1 .. Len(tuples) |-> tuples[k].holds]

\* The rows of the loaded partition; none before the first call of Next.
Rows == RowsOf(current)

Init ==
    /\ query \in Query
    /\ input \in Input
    /\ taken = 0 /\ nulls = 0
    /\ ahead = NoTuple /\ finished = FALSE
    /\ current = <<>>
    /\ next = 0
    /\ part = NewMatchPartition
    /\ emitted = <<>>
    /\ unconsumed = <<>>
    /\ output = <<>>
    /\ status = "ok"

Running == status = "ok" /\ query.nfa.ok /\ part.ok

\* Next() finds every row of the loaded partition fed and every match returned.
PartitionDone == Running /\ unconsumed = <<>> /\ next = Len(current)

\* ResetMatchPartition(), but for the tuples, which LoadNextPartition replaces.
ResetMatchPartition ==
    /\ next' = 0
    /\ part' = NewMatchPartition
    /\ emitted' = <<>>

\* The rest of a partition whose first tuple is the one at position from: tuples are
\* taken until one has another key, which is kept for the next partition, or the
\* input returns NULL.
TakeRest(first, from) ==
    LET others == {i \in from + 1 .. Len(input) : input[i].key # first.key}
    IN  \/ /\ others = {}
           /\ current' = <<first>> \o SubSeq(input, from + 1, Len(input))
           /\ taken' = Len(input) /\ nulls' = nulls + 1
           /\ finished' = TRUE /\ ahead' = NoTuple
        \/ \E end \in others :
              /\ \A i \in others : end <= i
              /\ current' = <<first>> \o SubSeq(input, from + 1, end - 1)
              /\ taken' = end /\ ahead' = input[end]
              /\ UNCHANGED <<nulls, finished>>

\* Mutant: next_input_tuple_idx_ is not reset.
LoadNextPartitionSameIndex ==
    /\ PartitionDone
    /\ \/ ahead # NoTuple /\ TakeRest(ahead, taken)
       \/ ahead = NoTuple /\ taken < Len(input) /\ TakeRest(input[taken + 1], taken + 1)
    /\ part' = NewMatchPartition
    /\ emitted' = <<>>
    /\ UNCHANGED <<query, input, next, unconsumed, output, status>>

\* Mutant: the tuple that was read ahead is taken for one that is still to be read.
LoadNextPartitionAnew ==
    /\ PartitionDone
    /\ taken < Len(input) /\ TakeRest(input[taken + 1], taken + 1)
    /\ ResetMatchPartition
    /\ UNCHANGED <<query, input, unconsumed, output, status>>

\* Every row of the partition is read before the first one is matched, with a new
\* match partition.  Its first tuple has been read ahead or is the next one.
LoadNextPartition ==
    /\ PartitionDone
    /\ \/ ahead # NoTuple /\ TakeRest(ahead, taken)
       \/ ahead = NoTuple /\ taken < Len(input) /\ TakeRest(input[taken + 1], taken + 1)
    /\ ResetMatchPartition
    /\ UNCHANGED <<query, input, unconsumed, output, status>>

\* LoadNextPartition has no tuple read ahead and asks the input for one, also when the
\* input has returned NULL before.  The iterators the algebrizer puts below this one
\* (AnalyticOp, SortOp) return NULL again, or an error, which is Fail.
EndOfInput ==
    /\ PartitionDone
    /\ ahead = NoTuple /\ taken = Len(input)
    /\ nulls' = nulls + 1
    /\ current' = <<>>
    /\ ResetMatchPartition
    /\ status' = "end"
    /\ UNCHANGED <<query, input, taken, ahead, finished, unconsumed, output>>

\* The output tuples of a match in the partition with these tuples: copies of its tuples
\* with their labels, then the sentinel that closes the match, a copy of the first tuple.
Tuples(tuples, match) ==
    [k \in DOMAIN match.vars |->
        [tuple |-> tuples[match.start_row_index + k], match_id |-> match.match_id,
         row |-> match.start_row_index + k, label |-> match.vars[k], is_sentinel |-> FALSE]]
    \o <<[tuple |-> tuples[1], match_id |-> match.match_id,
          row |-> 0, label |-> NoVar, is_sentinel |-> TRUE]>>

AllTuples(tuples, matches) ==
    MapThenFoldSet(\o, <<>>, LAMBDA k : Tuples(tuples, matches[k]), Min, DOMAIN matches)

\* The match partition after AddRow and, behind the last row, Finalize; new_matches are
\* those of both calls.
Fed(row) ==
    LET added == AddRow(query.nfa, query.options, part, row)
        ended == Finalize(query.nfa, query.options, added)
    IN  IF next + 1 < Len(current) \/ ~added.ok THEN added
        ELSE [ended EXCEPT !.new_matches = added.new_matches \o @]

\* A row goes to the match partition, and the matches it reports become tuples.
Feed ==
    /\ Running
    /\ unconsumed = <<>>
    /\ next < Len(current)
    /\ next' = next + 1
    /\ part' = Fed(Rows[next + 1])
    /\ emitted' = emitted \o part'.new_matches
    /\ unconsumed' = AllTuples(current, part'.new_matches)
    /\ UNCHANGED <<query, reading, output, status>>

\* Next returns a tuple.
Return ==
    /\ Running
    /\ unconsumed # <<>>
    /\ output' = Append(output, Head(unconsumed))
    /\ unconsumed' = Tail(unconsumed)
    /\ UNCHANGED <<query, reading, next, part, emitted, status>>

\* Next returns nullptr and an error; the caller stops.
Fail ==
    /\ Running
    /\ status' = "error"
    /\ UNCHANGED <<query, reading, next, part, emitted, unconsumed, output>>

\* Stopping is no deadlock.
Stopped == ~Running /\ UNCHANGED vars

Next == LoadNextPartition \/ EndOfInput \/ Feed \/ Return \/ Fail \/ Stopped

Spec == Init /\ [][Next]_vars

-----------------------------------------------------------------------------
\* The rows fed so far, and the number of those whose matches have been reported.
FedRows == SubSeq(Rows, 1, next)

Settled == IF part.finalized THEN next ELSE part.row_offset

\* The state has the expected shape.
TypeOK ==
    /\ query.options \in [overlapping : BOOLEAN, longest : BOOLEAN]
    /\ input \in Seq(Tuple) /\ current \in Seq(Tuple) /\ ahead \in Tuple \cup {NoTuple}
    /\ taken \in 0 .. Len(input) /\ nulls \in Nat /\ finished \in BOOLEAN
    /\ next \in 0 .. Len(current)
    /\ part.tracker.marked \in Seq(SUBSET EdgesFrom(query.nfa, DOMAIN query.nfa.edges))
    /\ part.row_offset \in 0 .. Len(current) + 1
    /\ status \in {"ok", "end", "error"}

\* "The behavior of Next() is undefined after it has returned NULL" (tuple.h:950), so
\* LoadNextPartition does not call input_iter_->Next() again when it has.
NextNotCalledAfterNull == nulls <= 1

\* None of the RET_CHECKs of the automaton's construction (NFA::Validate, the sizes the
\* epsilon remover compares) and of the matcher ("No edges possible from", "Edges not to
\* the final state should always consume a value", "Shouldn't get here") ever fails.
NoInternalError == query.nfa.ok /\ part.ok

\* The matches reported while a partition is streamed in are those of the automaton: each
\* is labelled as the accepting run of the highest precedence (in longest-match mode among
\* the longest ones) that starts in its row, and every row before row_offset_ where an
\* accepting run starts has a match or is skipped because one covers it.  The runs are
\* those over all the rows fed, however ProcessRow has cut them into lists.
MatchesFollowAutomaton ==
    LET runs(r) == Runs(query.nfa, FedRows, part.finalized, r)
    IN  /\ \A k \in DOMAIN emitted :
              \E p \in runs(emitted[k].start_row_index) :
                 /\ emitted[k].vars = [i \in 1 .. Len(p) - 1 |-> EdgeAt(query.nfa, p[i]).var]
                 /\ \A q \in runs(emitted[k].start_row_index) : Preferred(query.options, p, q)
        /\ \A r \in 0 .. Settled - 1 :
              runs(r) # {} => \E k \in DOMAIN emitted : r \in Taken(query.options, emitted[k])

\* "Match id numbers are sorted in increasing order of start_row_index; they start at 1 at
\* the beginning of the partition and advance sequentially" (match_partition.h:52): across
\* all calls of AddRow and Finalize; unless matches may overlap, no row is in two.
MatchesAreNumbered ==
    /\ \A k \in DOMAIN emitted : emitted[k].match_id = k
    /\ \A k \in 2 .. Len(emitted) :
          emitted[k].start_row_index > emitted[k - 1].start_row_index
    /\ ~query.options.overlapping =>
          \A k \in 2 .. Len(emitted) :
             emitted[k].start_row_index >= emitted[k - 1].start_row_index + Len(emitted[k - 1].vars)

=============================================================================
