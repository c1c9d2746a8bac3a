----------------------- MODULE PatternMatchingProofs ------------------------
(***************************************************************************)
(* The properties of PatternMatching for any pattern variables, automata,   *)
(* options, rows and partitions.                                            *)
(***************************************************************************)
EXTENDS PatternMatching, MatchPartitionProofs

\* A new NFAMatchPartition has been given no rows and has reported nothing.
LEMMA NewPartitionStreams ==
    ASSUME NEW nfa, NEW labels, IsAutomaton(nfa, labels), NEW options, NEW U
    PROVE  Streaming(nfa, labels, options, U, 0, NewMatchPartition, <<>>)
<1>1. PICK new : new = NewMatchPartition
    OBVIOUS
<1>2. /\ new.tracker = NewTracker /\ new.row_offset = 0 /\ new.next_match_id = 1
      /\ new.at_partition_start /\ ~new.finalized /\ new.ok /\ new.new_matches = <<>>
    BY <1>1 DEF NewMatchPartition
<1>3. new \in Partition(nfa, labels)
    <2>1. NewTracker \in Tracker(nfa) /\ <<>> \in Seq(Match(labels))
        BY NewTrackerType
    <2> QED BY <1>1, <2>1 DEF NewMatchPartition, Partition
<1>4. new.tracker.marked = <<>> /\ Len(<<>>) = 0
    BY <1>2 DEF NewTracker
<1>5. Tracks(nfa, new.tracker, U, 0, 0)
    BY <1>2, NewTrackerTracks
<1>6. NoCrossing(nfa, U, 0)
    BY DEF NoCrossing
<1>7. Reported(nfa, options, U, <<>>, 0)
    BY <1>4 DEF Reported
<1>8. <<>> \in Seq(Match(labels)) /\ 1 = 0 + 1 /\ 0 + 0 = 0
    OBVIOUS
<1>9. Streaming(nfa, labels, options, U, 0, new, <<>>)
    BY <1>2, <1>3, <1>4, <1>5, <1>6, <1>7, <1>8, SMTT(30) DEF Streaming
<1> QED BY <1>1, <1>9

\* The match partition has been given the first next rows of the loaded partition.
Consumed ==
    \/ Streaming(query.nfa, Var, query.options, Allowed(query.nfa, FedRows, FALSE), next, part, emitted)
    \/ /\ next = Len(current) /\ next # 0
       /\ Ended(query.nfa, Var, query.options, Allowed(query.nfa, FedRows, TRUE), next, part, emitted)

\* The tuples that have been read, whichever of them the match partition has been given.
Loaded ==
    /\ query \in Query /\ input \in Input
    /\ taken \in 0 .. Len(input) /\ nulls \in Nat /\ finished \in BOOLEAN
    /\ ahead \in Tuple \cup {NoTuple} /\ current \in Seq(Tuple)
    /\ next \in 0 .. Len(current)
    /\ status \in {"ok", "end", "error"}

\* The inductive invariant: the match partition and the matches it has reported are those of
\* the rows fed so far.
IInv ==
    /\ Loaded
    /\ IF query.nfa.ok THEN Consumed ELSE part = NewMatchPartition /\ emitted = <<>>

\* The rows are what the predicates say of the loaded tuples, one for each.
LEMMA RowsAreRead ==
    ASSUME current \in Seq(Tuple)
    PROVE  Rows \in Seq(SUBSET Var) /\ Len(Rows) = Len(current) /\ Len(current) \in Nat
<1>1. PICK n \in Nat : n = Len(current)
    OBVIOUS
<1>2. ASSUME NEW k \in 1 .. n PROVE current[k].holds \in SUBSET Var
    <2>1. current[k] \in Tuple
        BY <1>1
    <2> QED BY <2>1, Zenon DEF Tuple
<1>3. Rows = [k \in 1 .. n |-> current[k].holds]
    BY <1>1 DEF Rows, RowsOf
<1> QED BY <1>1, <1>2, <1>3, SMTT(30)

\* next_input_tuple_idx_ counts the rows that have been fed.
LEMMA FedRowsRead ==
    ASSUME Loaded
    PROVE  FedRows \in Seq(SUBSET Var) /\ Len(FedRows) = next /\ next \in Nat
<1>1. Rows \in Seq(SUBSET Var) /\ Len(Rows) = Len(current) /\ Len(current) \in Nat
    BY RowsAreRead DEF Loaded
<1>2. next \in 0 .. Len(Rows) /\ next \in Nat
    BY <1>1 DEF Loaded
<1> QED BY <1>1, <1>2, SMTT(30) DEF FedRows

\* The automaton and the options of the query, as QueryAssumption says.
LEMMA QueryFacts ==
    ASSUME Loaded
    PROVE  /\ query.options \in Options
           /\ query.nfa.ok => IsAutomaton(query.nfa, Var)
BY QueryAssumption DEF Loaded, Options

\* The invariant holds before the first call of Next.
LEMMA InitInv == Init => IInv
<1> SUFFICES ASSUME Init PROVE IInv
    OBVIOUS
<1>1. Loaded
    <2>1. input \in Seq(Tuple) /\ <<>> \in Seq(Tuple) /\ Len(<<>>) = 0
        BY InputAssumption DEF Init
    <2>2. 0 \in 0 .. Len(input) /\ 0 \in 0 .. 0
        BY <2>1
    <2> QED BY <2>1, <2>2 DEF Init, Loaded
<1>2. ASSUME query.nfa.ok PROVE Consumed
    <2>1. IsAutomaton(query.nfa, Var)
        BY <1>1, <1>2, QueryFacts
    <2>2. Streaming(query.nfa, Var, query.options, Allowed(query.nfa, FedRows, FALSE), 0,
                    NewMatchPartition, <<>>)
        BY <2>1, NewPartitionStreams, Zenon
    <2> QED BY <2>2, Zenon DEF Init, Consumed
<1> QED BY <1>1, <1>2, SMTT(30) DEF IInv, Init

\* ResetMatchPartition starts over.
LEMMA NewPartitionConsumed ==
    ASSUME IInv, query.nfa.ok, query' = query, next' = 0, part' = NewMatchPartition, emitted' = <<>>
    PROVE  Consumed'
<1>1. IsAutomaton(query.nfa, Var)
    BY QueryFacts DEF IInv
<1>2. PICK U : U = Allowed(query.nfa, FedRows', FALSE)
    BY Zenon
<1>3. Streaming(query.nfa, Var, query.options, U, 0, NewMatchPartition, <<>>)
    BY <1>1, NewPartitionStreams
<1> QED BY <1>2, <1>3, Zenon DEF Consumed

\* What LoadNextPartition takes is a stretch of the input, behind a first tuple.
LEMMA StretchIsRead ==
    ASSUME NEW S, NEW tuples \in Seq(S), NEW first \in S, NEW i \in Nat \ {0},
           NEW j \in 0 .. Len(tuples)
    PROVE  <<first>> \o SubSeq(tuples, i, j) \in Seq(S)
<1>1. SubSeq(tuples, i, j) \in Seq(S)
    BY SMTT(30)
<1>2. <<first>> \in Seq(S)
    OBVIOUS
<1> QED BY <1>1, <1>2, SMTT(30)

\* The tuples taken and the one kept for the next partition are tuples of the input.
LEMMA RestIsRead ==
    ASSUME Loaded, NEW first \in Tuple, NEW from \in 0 .. Len(input), TakeRest(first, from)
    PROVE  /\ current' \in Seq(Tuple) /\ taken' \in 0 .. Len(input)
           /\ ahead' \in Tuple \cup {NoTuple} /\ nulls' \in Nat /\ finished' \in BOOLEAN
<1>1. input \in Seq(Tuple) /\ Len(input) \in Nat
    BY InputAssumption DEF Loaded
<1>2. from + 1 \in Nat \ {0} /\ from \in Nat
    BY <1>1
<1>3. nulls \in Nat /\ finished \in BOOLEAN
    BY DEF Loaded
<1>4. PICK others : others = {i \in from + 1 .. Len(input) : input[i].key # first.key}
    OBVIOUS
<1>5. CASE /\ current' = <<first>> \o SubSeq(input, from + 1, Len(input))
           /\ taken' = Len(input) /\ nulls' = nulls + 1
           /\ finished' = TRUE /\ ahead' = NoTuple
    <2>1. Len(input) \in 0 .. Len(input)
        BY <1>1
    <2>2. current' \in Seq(Tuple)
        BY <1>1, <1>2, <1>5, <2>1, StretchIsRead
    <2> QED BY <1>3, <1>5, <2>1, <2>2
<1>6. CASE \E end \in others :
              /\ current' = <<first>> \o SubSeq(input, from + 1, end - 1)
              /\ taken' = end /\ ahead' = input[end]
              /\ UNCHANGED <<nulls, finished>>
    <2>1. PICK end \in others :
              /\ current' = <<first>> \o SubSeq(input, from + 1, end - 1)
              /\ taken' = end /\ ahead' = input[end]
              /\ UNCHANGED <<nulls, finished>>
        BY <1>6
    <2>2. end \in 1 .. Len(input) /\ end \in 0 .. Len(input) /\ end - 1 \in 0 .. Len(input)
        BY <1>1, <1>2, <1>4, <2>1, SMTT(30)
    <2>3. current' \in Seq(Tuple)
        BY <1>1, <1>2, <2>1, <2>2, StretchIsRead
    <2>4. input[end] \in Tuple
        BY <1>1, <2>2
    <2> QED BY <1>3, <2>1, <2>2, <2>3, <2>4
<1> QED BY <1>4, <1>5, <1>6, Zenon DEF TakeRest

\* LoadNextPartition keeps the invariant: it resets next_input_tuple_idx_ together with the
\* match partition.
LEMMA LoadInv ==
    ASSUME IInv, LoadNextPartition
    PROVE  IInv'
<1>1. /\ query.nfa.ok /\ query' = query /\ input' = input /\ status' = status
      /\ next' = 0 /\ part' = NewMatchPartition /\ emitted' = <<>>
    BY DEF LoadNextPartition, ResetMatchPartition, PartitionDone, Running
<1>2. Loaded
    BY DEF IInv
<1>3. input \in Seq(Tuple) /\ taken \in 0 .. Len(input) /\ Len(input) \in Nat
    BY <1>2, InputAssumption DEF Loaded
<1>4. \E first \in Tuple, from \in 0 .. Len(input) : TakeRest(first, from)
    <2>1. CASE ahead # NoTuple /\ TakeRest(ahead, taken)
        <3>1. ahead \in Tuple
            BY <1>2, <2>1 DEF Loaded
        <3> QED BY <1>3, <2>1, <3>1, Zenon
    <2>2. CASE taken < Len(input) /\ TakeRest(input[taken + 1], taken + 1)
        <3>1. taken + 1 \in 1 .. Len(input) /\ taken + 1 \in 0 .. Len(input)
            BY <1>3, <2>2
        <3>2. input[taken + 1] \in Tuple
            BY <1>3, <3>1
        <3> QED BY <2>2, <3>1, <3>2, Zenon
    <2> QED BY <2>1, <2>2, Zenon DEF LoadNextPartition
<1>5. /\ current' \in Seq(Tuple) /\ taken' \in 0 .. Len(input)
      /\ ahead' \in Tuple \cup {NoTuple} /\ nulls' \in Nat /\ finished' \in BOOLEAN
    BY <1>2, <1>4, RestIsRead, Zenon
<1>6. 0 \in 0 .. Len(current')
    BY <1>5
<1>7. Loaded'
    BY <1>1, <1>2, <1>5, <1>6, SMTT(30) DEF Loaded
<1>8. Consumed'
    BY <1>1, NewPartitionConsumed, SMTT(30)
<1> QED BY <1>1, <1>7, <1>8 DEF IInv

\* So does LoadNextPartition at the end of the input.
LEMMA EndInv ==
    ASSUME IInv, EndOfInput
    PROVE  IInv'
<1>1. /\ query.nfa.ok /\ query' = query /\ next' = 0 /\ part' = NewMatchPartition /\ emitted' = <<>>
      /\ status' = "end" /\ current' = <<>> /\ nulls' = nulls + 1
      /\ UNCHANGED <<input, taken, ahead, finished>>
    BY DEF EndOfInput, ResetMatchPartition, PartitionDone, Running
<1>2. <<>> \in Seq(Tuple) /\ 0 \in 0 .. Len(<<>>)
    OBVIOUS
<1>3. Loaded'
    BY <1>1, <1>2 DEF IInv, Loaded
<1>4. Consumed'
    BY <1>1, NewPartitionConsumed
<1> QED BY <1>1, <1>3, <1>4, SMTT(30) DEF IInv

\* Steps that touch neither the rows nor the match partition keep it (Return, Fail).
LEMMA IdleInv ==
    ASSUME IInv, UNCHANGED <<query, reading, next, part, emitted>>, status' \in {"ok", "end", "error"}
    PROVE  IInv'
<1>0. UNCHANGED <<query, input, taken, nulls, ahead, finished, current, next>>
    BY DEF reading
<1>1. Rows' = Rows
    BY <1>0 DEF Rows
<1>2. FedRows' = FedRows
    BY <1>1, SMTT(30) DEF FedRows
<1>3. Loaded'
    BY <1>0 DEF IInv, Loaded
<1>4. Consumed => Consumed'
    BY <1>0, <1>2, Zenon DEF Consumed
<1> QED BY <1>3, <1>4 DEF IInv

\* Joining is associative on r, s and t.
Associate(r, s, t) == Joined(Joined(r, s), t) = Joined(r, Joined(s, t))

\* The matches of AddRow and of Finalize can be put together before or after they are added
\* to the earlier ones.
LEMMA JoinedTwice ==
    ASSUME NEW S, NEW r \in Seq(S), NEW s \in Seq(S), NEW t \in Seq(S)
    PROVE  Associate(r, s, t)
BY DEF Joined, Associate

\* What Finalize leaves does not depend on which matches are handed on as new.
LEMMA EndedReports ==
    ASSUME NEW nfa, NEW labels, NEW options, NEW U, NEW n, NEW ended, NEW ms,
           Ended(nfa, labels, options, U, n, ended, ms), NEW new \in Seq(Match(labels))
    PROVE  Ended(nfa, labels, options, U, n, [ended EXCEPT !.new_matches = new], ms)
<1>1. PICK again : again = [ended EXCEPT !.new_matches = new]
    BY Zenon
<1>2. ended \in Partition(nfa, labels)
    BY DEF Ended
<1>3. /\ again \in Partition(nfa, labels) /\ again.ok = ended.ok /\ again.finalized = ended.finalized
      /\ again.tracker = ended.tracker /\ again.row_offset = ended.row_offset
    BY <1>1, <1>2 DEF Partition
<1> QED BY <1>1, <1>3, SMTT(30) DEF Ended

\* Feeding a row keeps the invariant: AddRow and, behind the last row, Finalize.
LEMMA FeedInv ==
    ASSUME IInv, Feed
    PROVE  IInv'
<1>1. /\ query.nfa.ok /\ next < Len(current) /\ next' = next + 1 /\ part' = Fed(Rows[next + 1])
      /\ emitted' = emitted \o part'.new_matches
      /\ query' = query /\ status' = status
      /\ UNCHANGED <<input, taken, nulls, ahead, finished, current>>
    BY DEF Feed, Running, reading
<1>2. Loaded /\ Consumed
    BY <1>1 DEF IInv
<1>3. PICK nfa : nfa = query.nfa
    OBVIOUS
<1>4. PICK options \in Options : options = query.options
    BY <1>2, QueryFacts, SMTT(30)
<1>5. IsAutomaton(nfa, Var)
    BY <1>1, <1>2, <1>3, QueryFacts, SMTT(30)
<1>6. PICK all \in Seq(SUBSET Var) : all = Rows /\ Len(all) \in Nat /\ Len(all) = Len(current)
    BY <1>2, RowsAreRead, SMTT(30) DEF Loaded
<1>7. PICK n \in Nat : n = next
    BY <1>2, FedRowsRead, SMTT(30)
<1>8. n \in 0 .. Len(all) - 1 /\ n + 1 \in 1 .. Len(all)
    BY <1>1, <1>6, <1>7, SMTT(30)
<1>9. PICK rows \in Seq(SUBSET Var) : rows = FedRows /\ Len(rows) = n
    BY <1>2, <1>7, FedRowsRead, SMTT(30)
<1>10. PICK row \in SUBSET Var : row = all[n + 1]
    BY <1>6, <1>8, SMTT(30)
<1>11. PICK more \in Seq(SUBSET Var) : more = Append(rows, row) /\ Len(more) = n + 1
    <2>1. PICK S : S = SUBSET Var
        BY Zenon
    <2>2. rows \in Seq(S) /\ row \in S /\ Len(rows) = n
        BY <1>9, <1>10, <2>1
    <2>3. Append(rows, row) \in Seq(S) /\ Len(Append(rows, row)) = n + 1
        BY <2>2
    <2> QED BY <2>1, <2>3, Zenon
<1>12. Rows' = Rows
    BY <1>1 DEF Rows
<1>13. FedRows' = more
    <2>1. FedRows' = SubSeq(all, 1, n + 1)
        BY <1>1, <1>6, <1>7, <1>12, SMTT(30) DEF FedRows
    <2>2. rows = SubSeq(all, 1, n)
        BY <1>6, <1>7, <1>9, SMTT(30) DEF FedRows
    <2>3. SubSeq(all, 1, n + 1) = Append(SubSeq(all, 1, n), all[n + 1])
        BY <1>6, <1>8, SMTT(30)
    <2> QED BY <1>10, <1>11, <2>1, <2>2, <2>3, SMTT(30)
<1>14. Loaded'
    BY <1>1, <1>2, <1>6, <1>7, <1>8, <1>12, SMTT(30) DEF Loaded
<1>15. Streaming(nfa, Var, options, Allowed(nfa, rows, FALSE), n, part, emitted)
    <2>1. next # Len(current)
        BY <1>1, <1>6, <1>7, SMTT(30)
    <2>2. Streaming(query.nfa, Var, query.options, Allowed(query.nfa, FedRows, FALSE), next, part, emitted)
        BY <1>2, <2>1, Zenon DEF Consumed
    <2> QED BY <1>3, <1>4, <1>7, <1>9, <2>2, Zenon
<1>16. PICK added : added = AddRow(nfa, options, part, row)
    OBVIOUS
<1>17. Streaming(nfa, Var, options, Allowed(nfa, more, FALSE), n + 1, added,
                 Joined(emitted, added.new_matches))
    BY <1>5, <1>9, <1>11, <1>15, <1>16, VarAssumption, AddRowStreams, Zenon
<1>18. added.ok /\ emitted \in Seq(Match(Var)) /\ added.new_matches \in Seq(Match(Var))
    BY <1>15, <1>17, SMTT(30) DEF Streaming, Partition
<1>19. PICK ended : ended = Finalize(nfa, options, added)
    BY SMTT(30)
<1>20. part' = IF n + 1 < Len(all) THEN added
               ELSE [ended EXCEPT !.new_matches = added.new_matches \o @]
    BY <1>1, <1>3, <1>4, <1>6, <1>7, <1>10, <1>16, <1>18, <1>19, Zenon DEF Fed
<1>21. CASE n + 1 < Len(all)
    <2>1. part' = added /\ emitted' = Joined(emitted, added.new_matches)
        BY <1>1, <1>20, <1>21, Zenon DEF Joined
    <2>2. Streaming(query'.nfa, Var, query'.options, Allowed(query'.nfa, FedRows', FALSE), next', part', emitted')
        BY <1>1, <1>3, <1>4, <1>7, <1>13, <1>17, <2>1, Zenon
    <2>3. Consumed'
        BY <2>2, Zenon DEF Consumed
    <2> QED BY <1>1, <1>14, <2>3, SMTT(30) DEF IInv
<1>22. CASE ~(n + 1 < Len(all))
    <2>1. n + 1 = Len(all) /\ n + 1 # 0
        BY <1>6, <1>8, <1>22, SMTT(30)
    <2>2. PICK ms : ms = Joined(emitted, added.new_matches)
        OBVIOUS
    <2>3. Ended(nfa, Var, options, Allowed(nfa, more, TRUE), n + 1, ended, Joined(ms, ended.new_matches))
        <3>1. PICK m \in Nat : m = n + 1
            OBVIOUS
        <3>2. Streaming(nfa, Var, options, Allowed(nfa, more, FALSE), m, added, ms) /\ m = Len(more)
            BY <1>11, <1>17, <2>2, <3>1, Zenon
        <3>3. more # <<>>
            BY <1>11
        <3>4. Ended(nfa, Var, options, Allowed(nfa, more, TRUE), m, ended, Joined(ms, ended.new_matches))
            BY <1>5, <1>19, <3>2, <3>3, FinalizeEnds, Zenon
        <3> QED BY <3>1, <3>4, Zenon
    <2>4. ended \in Partition(nfa, Var) /\ ended.new_matches \in Seq(Match(Var))
        BY <2>3 DEF Ended, Partition
    <2>a. PICK as \in Seq(Match(Var)), bs \in Seq(Match(Var)) :
             as = added.new_matches /\ bs = ended.new_matches
        BY <1>18, <2>4, SMTT(30)
    <2>5. PICK new \in Seq(Match(Var)) : new = added.new_matches \o ended.new_matches
        <3>1. as \o bs \in Seq(Match(Var))
            BY JoinedFacts, Zenon DEF Joined
        <3> QED BY <2>a, <3>1, Zenon
    <2>6. part' = [ended EXCEPT !.new_matches = new] /\ part'.new_matches = new
        <3>1. part' = [ended EXCEPT !.new_matches = new]
            BY <1>20, <1>22, <2>5, SMTT(30)
        <3> QED BY <2>4, <3>1 DEF Partition
    <2>7. emitted' = Joined(ms, ended.new_matches)
        <3>1. emitted' = emitted \o (added.new_matches \o ended.new_matches)
            BY <1>1, <2>5, <2>6, Zenon
        <3>2. Joined(Joined(emitted, as), bs) = emitted \o (as \o bs)
            <4>1. PICK es \in Seq(Match(Var)) : es = emitted
                BY <1>18
            <4>2. Joined(Joined(es, as), bs) = Joined(es, Joined(as, bs))
                <5>1. PICK S : S = Match(Var)
                    OBVIOUS
                <5>2. es \in Seq(S) /\ as \in Seq(S) /\ bs \in Seq(S)
                    BY <5>1, Zenon
                <5>3. Associate(es, as, bs)
                    BY <5>2, JoinedTwice, Zenon
                <5> QED BY <5>3, SMTT(30) DEF Associate
            <4> QED BY <4>1, <4>2, SMTT(30) DEF Joined
        <3> QED BY <2>2, <2>a, <3>1, <3>2, SMTT(30)
    <2>8. Ended(nfa, Var, options, Allowed(nfa, more, TRUE), n + 1, part', emitted')
        BY <2>3, <2>5, <2>6, <2>7, EndedReports, Zenon
    <2>9. Ended(query'.nfa, Var, query'.options, Allowed(query'.nfa, FedRows', TRUE), next', part', emitted')
        BY <1>1, <1>3, <1>4, <1>7, <1>13, <2>8, Zenon
    <2>10. next' = Len(current') /\ next' # 0
        BY <1>1, <1>6, <1>7, <1>12, <2>1, SMTT(30)
    <2>11. Consumed'
        BY <2>9, <2>10, Zenon DEF Consumed
    <2> QED BY <1>1, <1>14, <2>11 DEF IInv
<1> QED BY <1>21, <1>22, SMTT(30)

\* In every state of MATCH_RECOGNIZE's iterator the match partition has reported exactly the
\* matches of the rows before row_offset_, whatever the rows, the pattern's automaton and
\* the options, and its tracker is in step with the rows since.
THEOREM MatcherInvariant == Spec => []IInv
<1>1. Init => IInv
    BY InitInv
<1>2. IInv /\ [Next]_vars => IInv'
    <2> SUFFICES ASSUME IInv, [Next]_vars PROVE IInv'
        OBVIOUS
    <2>1. CASE LoadNextPartition
        BY <2>1, LoadInv, SMTT(30)
    <2>2. CASE EndOfInput
        BY <2>2, EndInv, SMTT(30)
    <2>3. CASE Feed
        BY <2>3, FeedInv, SMTT(30)
    <2>4. CASE Return \/ Fail \/ Stopped \/ UNCHANGED vars
        <3>1. UNCHANGED <<query, reading, next, part, emitted>>
            BY <2>4 DEF Return, Fail, Stopped, vars
        <3>2. status' \in {"ok", "end", "error"}
            BY <2>4, SMTT(30) DEF Return, Fail, Stopped, vars, IInv, Loaded
        <3> QED BY <3>1, <3>2, IdleInv, SMTT(30)
    <2> QED BY <2>1, <2>2, <2>3, <2>4, SMTT(30) DEF Next
<1> QED BY <1>1, <1>2, PTL DEF Spec

\* What the invariant says of the reported matches, before and after Finalize.
LEMMA ConsumedReports ==
    ASSUME IInv
    PROVE  \/ query.nfa.ok /\ Reported(query.nfa, query.options,
                                       Allowed(query.nfa, FedRows, part.finalized), emitted, Settled)
              /\ part \in Partition(query.nfa, Var) /\ part.ok /\ emitted \in Seq(Match(Var))
              /\ Settled \in 0 .. next /\ part.row_offset \in 0 .. next + 1
           \/ ~query.nfa.ok /\ part = NewMatchPartition /\ emitted = <<>> /\ Settled = 0
<1>1. next \in Nat
    BY FedRowsRead, SMTT(30) DEF IInv
<1>2. CASE ~query.nfa.ok
    BY <1>2, SMTT(30) DEF IInv, Settled, NewMatchPartition
<1>3. CASE query.nfa.ok
  <2>1. CASE Streaming(query.nfa, Var, query.options, Allowed(query.nfa, FedRows, FALSE), next, part, emitted)
    <3>1. part \in Partition(query.nfa, Var) /\ part.finalized = FALSE /\ part.ok /\ emitted \in Seq(Match(Var))
          /\ Reported(query.nfa, query.options, Allowed(query.nfa, FedRows, FALSE), emitted, part.row_offset)
          /\ part.row_offset + Len(part.tracker.marked) = next
        BY <2>1, Zenon DEF Streaming, Partition
    <3>2. part.row_offset \in Nat /\ Len(part.tracker.marked) \in Nat
        BY <3>1 DEF Partition, Tracker
    <3>3. part.row_offset \in 0 .. next /\ part.row_offset \in 0 .. next + 1
        BY <1>1, <3>1, <3>2, SMTT(30)
    <3>4. Settled = part.row_offset
        BY <3>1 DEF Settled
    <3> QED BY <1>3, <3>1, <3>3, <3>4, Zenon
  <2>2. CASE Ended(query.nfa, Var, query.options, Allowed(query.nfa, FedRows, TRUE), next, part, emitted)
    <3>1. part \in Partition(query.nfa, Var) /\ part.finalized = TRUE /\ part.ok /\ emitted \in Seq(Match(Var))
          /\ Reported(query.nfa, query.options, Allowed(query.nfa, FedRows, TRUE), emitted, next)
          /\ part.row_offset = next + 1
        BY <2>2, Zenon DEF Ended, Partition
    <3>2. Settled = next
        BY <3>1 DEF Settled
    <3>3. next \in 0 .. next /\ next + 1 \in 0 .. next + 1
        BY <1>1
    <3> QED BY <1>3, <3>1, <3>2, <3>3, Zenon
  <2> QED BY <1>3, <2>1, <2>2, Zenon DEF IInv, Consumed
<1> QED BY <1>2, <1>3, SMTT(30)

\* The iterator's state keeps its type; row_offset_ stays within the rows of the loaded
\* partition and the sentinel row.
THEOREM TypeCorrect == Spec => []TypeOK
<1>1. IInv => TypeOK
    <2> SUFFICES ASSUME IInv PROVE TypeOK
        OBVIOUS
    <2>1. Loaded
        BY DEF IInv
    <2>2. query.options \in [overlapping : BOOLEAN, longest : BOOLEAN]
        BY <2>1, QueryAssumption DEF Loaded
    <2>3. /\ part.tracker.marked \in Seq(SUBSET EdgesFrom(query.nfa, DOMAIN query.nfa.edges))
          /\ part.row_offset \in 0 .. next + 1
        <3>1. CASE query.nfa.ok
            <4>1. part \in Partition(query.nfa, Var) /\ part.row_offset \in 0 .. next + 1
                BY <3>1, ConsumedReports, SMTT(30)
            <4> QED BY <4>1 DEF Partition, Tracker, EdgeNames
        <3>2. CASE ~query.nfa.ok
            <4>1. part = NewMatchPartition /\ next \in Nat
                BY <2>1, <3>2, FedRowsRead, SMTT(30) DEF IInv
            <4>2. part.tracker.marked = <<>> /\ part.row_offset = 0
                BY <4>1 DEF NewMatchPartition, NewTracker
            <4> QED BY <4>1, <4>2, SMTT(30)
        <3> QED BY <3>1, <3>2, SMTT(30)
    <2>4. part.row_offset \in 0 .. Len(current) + 1
        <3>1. next \in 0 .. Len(current) /\ Len(current) \in Nat
            BY <2>1 DEF Loaded
        <3> QED BY <2>3, <3>1
    <2>5. input \in Seq(Tuple)
        BY <2>1, InputAssumption DEF Loaded
    <2> QED BY <2>1, <2>2, <2>3, <2>4, <2>5, SMTT(30) DEF TypeOK, Loaded
<1> QED BY <1>1, MatcherInvariant, PTL

\* Once BuildNFAForPattern has returned an automaton, none of the matcher's RET_CHECKs ever
\* fails (NoInternalError; that the automaton is built without an error is the model
\* checker's part).
THEOREM MatcherNeverFails == Spec => [](query.nfa.ok => NoInternalError)
<1>1. IInv => (query.nfa.ok => NoInternalError)
    BY ConsumedReports, SMTT(30) DEF NoInternalError
<1> QED BY <1>1, MatcherInvariant, PTL

\* The matches of a partition are numbered from 1 in the order of their first rows, across
\* all calls of AddRow and Finalize, and do not overlap unless the skip rule allows it.
THEOREM MatchesNumbered == Spec => []MatchesAreNumbered
<1>1. IInv => MatchesAreNumbered
    <2> SUFFICES ASSUME IInv PROVE MatchesAreNumbered
        OBVIOUS
    <2>1. CASE query.nfa.ok
        <3>1. /\ Reported(query.nfa, query.options, Allowed(query.nfa, FedRows, part.finalized), emitted, Settled)
              /\ emitted \in Seq(Match(Var))
            BY <2>1, ConsumedReports
        <3>2. DOMAIN emitted = 1 .. Len(emitted)
            BY <3>1
        <3> QED BY <3>1, <3>2, SMTT(30) DEF Reported, MatchesAreNumbered
    <2>2. CASE ~query.nfa.ok
        <3>1. emitted = <<>> /\ Len(<<>>) = 0
            BY <2>2, SMTT(30) DEF IInv
        <3> QED BY <3>1 DEF MatchesAreNumbered
    <2> QED BY <2>1, <2>2, SMTT(30)
<1> QED BY <1>1, MatcherInvariant, PTL

\* The matches reported while the partition streams in are those of the automaton over all
\* its rows: each is the preferred accepting run from its row, and each row where a run
\* starts has its match or is skipped by the rule.
THEOREM MatchesFollow == Spec => []MatchesFollowAutomaton
<1>1. IInv => MatchesFollowAutomaton
    <2> SUFFICES ASSUME IInv PROVE MatchesFollowAutomaton
        OBVIOUS
    <2>1. CASE query.nfa.ok
        <3>1. PICK U : U = Allowed(query.nfa, FedRows, part.finalized)
            OBVIOUS
        <3>2. /\ Reported(query.nfa, query.options, U, emitted, Settled) /\ emitted \in Seq(Match(Var))
              /\ Settled \in 0 .. next
            BY <2>1, <3>1, ConsumedReports, SMTT(30)
        <3>3. PICK rows \in Seq(SUBSET Var) : rows = FedRows /\ Len(rows) = next /\ next \in Nat
            BY FedRowsRead, SMTT(30) DEF IInv
        <3>4. ASSUME NEW r \in 0 .. Settled - 1
              PROVE  \A p : p \in Runs(query.nfa, FedRows, part.finalized, r)
                               <=> Accepts(query.nfa, U, r + 1, p)
            <4>1. r \in 0 .. Len(rows)
                BY <3>2, <3>3, SMTT(30)
            <4>2. PICK ended : ended = part.finalized
                BY SMTT(30)
            <4>3. U = Allowed(query.nfa, rows, ended)
                BY <3>1, <3>3, <4>2, SMTT(30)
            <4>4. \A p : p \in Runs(query.nfa, rows, ended, r) <=> Accepts(query.nfa, U, r + 1, p)
                BY <4>1, <4>3, RunsAccept, SMTT(30)
            <4> QED BY <3>3, <4>2, <4>4, SMTT(30)
        <3>5. ASSUME NEW k \in DOMAIN emitted
              PROVE  \E p \in Runs(query.nfa, FedRows, part.finalized, emitted[k].start_row_index) :
                        /\ emitted[k].vars = [i \in 1 .. Len(p) - 1 |-> EdgeAt(query.nfa, p[i]).var]
                        /\ \A q \in Runs(query.nfa, FedRows, part.finalized, emitted[k].start_row_index) :
                              Preferred(query.options, p, q)
            <4>1. k \in 1 .. Len(emitted)
                BY <3>2, SMTT(30)
            <4>2. PICK r \in 0 .. Settled - 1 : r = emitted[k].start_row_index
                BY <3>2, <4>1, SMTT(30) DEF Reported
            <4>3. BestRun(query.nfa, query.options, U, r + 1, emitted[k].vars)
                BY <3>2, <4>1, <4>2, SMTT(30) DEF Reported
            <4>4. PICK p : /\ Accepts(query.nfa, U, r + 1, p)
                           /\ emitted[k].vars = Labels(query.nfa, p, Len(p) - 1)
                           /\ \A q : Accepts(query.nfa, U, r + 1, q) => Preferred(query.options, p, q)
                BY <4>3 DEF BestRun
            <4>5. p \in Runs(query.nfa, FedRows, part.finalized, r)
                BY <3>4, <4>4, SMTT(30)
            <4>6. \A q \in Runs(query.nfa, FedRows, part.finalized, r) : Preferred(query.options, p, q)
                BY <3>4, <4>4, SMTT(30)
            <4> QED BY <4>2, <4>4, <4>5, <4>6, SMTT(30) DEF Labels
        <3>6. ASSUME NEW r \in 0 .. Settled - 1, Runs(query.nfa, FedRows, part.finalized, r) # {}
              PROVE  \E k \in DOMAIN emitted : r \in Taken(query.options, emitted[k])
            <4>1. \E p : Accepts(query.nfa, U, r + 1, p)
                BY <3>4, <3>6, SMTT(30)
            <4>2. \E k \in 1 .. Len(emitted) : r \in Taken(query.options, emitted[k])
                BY <3>2, <4>1, SMTT(30) DEF Reported
            <4> QED BY <3>2, <4>2, SMTT(30)
        <3> QED BY <3>5, <3>6, Zenon DEF MatchesFollowAutomaton
    <2>2. CASE ~query.nfa.ok
        <3>1. emitted = <<>> /\ Settled = 0
            BY <2>2, ConsumedReports, SMTT(30)
        <3>2. DOMAIN emitted = {} /\ 0 .. Settled - 1 = {}
            BY <3>1
        <3> QED BY <3>2 DEF MatchesFollowAutomaton
    <2> QED BY <2>1, <2>2, SMTT(30)
<1> QED BY <1>1, MatcherInvariant, PTL

=============================================================================
