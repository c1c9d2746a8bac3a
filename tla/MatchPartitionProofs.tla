------------------------ MODULE MatchPartitionProofs ------------------------
(***************************************************************************)
(* An NFAMatchPartition, given a partition row by row, reports the matches  *)
(* that the automaton has over the whole partition: AddRow and Finalize     *)
(* keep Streaming and Ended, which relate what it has reported and what its *)
(* tracker has marked to the runs of MatchRuns.                             *)
(***************************************************************************)
EXTENDS MatchPartitionFacts

\* The labels are those of the accepting run from row j that the options prefer.
BestRun(nfa, options, U, j, labelling) ==
    \E p : /\ Accepts(nfa, U, j, p) /\ labelling = Labels(nfa, p, Len(p) - 1)
           /\ \A q : Accepts(nfa, U, j, q) => Preferred(options, p, q)

\* The matches ms are those of the rows before row done.
Reported(nfa, options, U, ms, done) ==
    /\ \A k \in 1 .. Len(ms) :
          /\ ms[k].match_id = k
          /\ ms[k].start_row_index \in 0 .. done - 1
          /\ ~options.overlapping => ms[k].start_row_index + Len(ms[k].vars) <= done
          /\ BestRun(nfa, options, U, ms[k].start_row_index + 1, ms[k].vars)
    /\ \A k \in 2 .. Len(ms) :
          /\ ms[k].start_row_index > ms[k - 1].start_row_index
          /\ ~options.overlapping =>
                ms[k].start_row_index >= ms[k - 1].start_row_index + Len(ms[k - 1].vars)
    /\ \A r \in 0 .. done - 1 :
          (\E p : Accepts(nfa, U, r + 1, p)) => \E k \in 1 .. Len(ms) : r \in Taken(options, ms[k])

\* A row without an accepting run needs no match (the continue of ExtractMatches).
LEMMA ReportNone ==
    ASSUME NEW nfa, NEW options, NEW U, NEW labels, NEW ms \in Seq(Match(labels)), NEW done \in Nat,
           Reported(nfa, options, U, ms, done), \A p : ~Accepts(nfa, U, done + 1, p)
    PROVE  Reported(nfa, options, U, ms, done + 1)
<1>1. ASSUME NEW k \in 1 .. Len(ms)
      PROVE  /\ ms[k].match_id = k
             /\ ms[k].start_row_index \in 0 .. (done + 1) - 1
             /\ ~options.overlapping => ms[k].start_row_index + Len(ms[k].vars) <= done + 1
             /\ BestRun(nfa, options, U, ms[k].start_row_index + 1, ms[k].vars)
    <2>1. /\ ms[k].match_id = k
          /\ ms[k].start_row_index \in 0 .. done - 1
          /\ ~options.overlapping => ms[k].start_row_index + Len(ms[k].vars) <= done
          /\ BestRun(nfa, options, U, ms[k].start_row_index + 1, ms[k].vars)
        BY DEF Reported
    <2>2. Len(ms[k].vars) \in Nat
        BY DEF Match
    <2> QED BY <2>1, <2>2
<1>2. ASSUME NEW r \in 0 .. (done + 1) - 1, NEW p, Accepts(nfa, U, r + 1, p)
      PROVE  \E k \in 1 .. Len(ms) : r \in Taken(options, ms[k])
    <2>1. r # done
        BY <1>2
    <2>2. r \in 0 .. done - 1
        BY <2>1
    <2> QED BY <1>2, <2>2 DEF Reported
<1> QED BY <1>1, <1>2 DEF Reported

\* A match of the preferred run, numbered next, is all there is to report up to the row
\* where, by the skip rule, the next match may start.
LEMMA ReportMatch ==
    ASSUME NEW nfa, NEW options \in Options, NEW U, NEW labels, NEW ms \in Seq(Match(labels)),
           NEW done \in Nat, Reported(nfa, options, U, ms, done),
           NEW m \in Match(labels), m.match_id = Len(ms) + 1, m.start_row_index = done,
           BestRun(nfa, options, U, done + 1, m.vars),
           NEW ns, ns = Append(ms, m), NEW d, d = NextStart(options, done, m.vars)
    PROVE  Reported(nfa, options, U, ns, d)
<1> DEFINE n == Len(ms)
<1>1. /\ n \in Nat /\ Len(ns) = n + 1 /\ ns[n + 1] = m /\ ns \in Seq(Match(labels))
      /\ \A k \in 1 .. n : ns[k] = ms[k] /\ ms[k] \in Match(labels)
    OBVIOUS
<1>7. ASSUME NEW k \in 1 .. n PROVE Len(ms[k].vars) \in Nat
    <2>1. PICK o \in Match(labels) : o = ms[k]
        BY <1>1
    <2>2. o.vars \in Seq(labels \cup {NoVar})
        BY DEF Match
    <2> QED BY <2>1, <2>2
<1>2. m.vars \in Seq(labels \cup {NoVar}) /\ Len(m.vars) \in Nat /\ (m.vars = <<>> <=> Len(m.vars) = 0)
    BY DEF Match
<1>3. /\ d \in Nat /\ d > done
      /\ ~options.overlapping => d >= done + Len(m.vars)
      /\ \A r \in done .. d - 1 : r \in Taken(options, m)
    <2>1. d = done + (IF m.vars # <<>> /\ ~options.overlapping THEN Len(m.vars) ELSE 1)
        BY DEF NextStart
    <2>2. /\ options.overlapping => Taken(options, m) = {done}
          /\ ~options.overlapping => Taken(options, m) = {done} \cup done .. done + Len(m.vars) - 1
        BY DEF Taken
    <2>3. CASE m.vars # <<>> /\ ~options.overlapping
        BY <1>2, <2>1, <2>2, <2>3, SMTT(30)
    <2>4. CASE options.overlapping
        BY <1>2, <2>1, <2>2, <2>4
    <2>5. CASE m.vars = <<>> /\ ~options.overlapping
        BY <1>2, <2>1, <2>2, <2>5
    <2> QED BY <2>3, <2>4, <2>5
<1>4. ASSUME NEW k \in 1 .. Len(ns)
      PROVE  /\ ns[k].match_id = k
             /\ ns[k].start_row_index \in 0 .. d - 1
             /\ ~options.overlapping => ns[k].start_row_index + Len(ns[k].vars) <= d
             /\ BestRun(nfa, options, U, ns[k].start_row_index + 1, ns[k].vars)
    <2>1. CASE k = n + 1
        BY <1>1, <1>2, <1>3, <2>1
    <2>2. CASE k # n + 1
        <3>1. k \in 1 .. n
            BY <1>1, <2>2
        <3>2. /\ ms[k].match_id = k
              /\ ms[k].start_row_index \in 0 .. done - 1
              /\ ~options.overlapping => ms[k].start_row_index + Len(ms[k].vars) <= done
              /\ BestRun(nfa, options, U, ms[k].start_row_index + 1, ms[k].vars)
            BY <3>1 DEF Reported
        <3>3. Len(ms[k].vars) \in Nat
            BY <1>7, <3>1
        <3> QED BY <1>1, <1>3, <3>1, <3>2, <3>3
    <2> QED BY <2>1, <2>2
<1>5. ASSUME NEW k \in 2 .. Len(ns)
      PROVE  /\ ns[k].start_row_index > ns[k - 1].start_row_index
             /\ ~options.overlapping =>
                   ns[k].start_row_index >= ns[k - 1].start_row_index + Len(ns[k - 1].vars)
    <2>1. k - 1 \in 1 .. n /\ k - 1 \in 1 .. Len(ns) /\ ns[k - 1] = ms[k - 1]
        BY <1>1
    <2>2. CASE k = n + 1
        <3>1. /\ ms[k - 1].start_row_index \in 0 .. done - 1
              /\ ~options.overlapping => ms[k - 1].start_row_index + Len(ms[k - 1].vars) <= done
            BY <2>1 DEF Reported
        <3>2. Len(ms[k - 1].vars) \in Nat
            BY <1>7, <2>1
        <3>3. ns[k].start_row_index = done
            BY <1>1, <2>2
        <3> QED BY <2>1, <3>1, <3>2, <3>3
    <2>3. CASE k # n + 1
        <3>1. k \in 2 .. n /\ k \in 1 .. n
            BY <1>1, <2>3
        <3> QED BY <1>1, <2>1, <3>1 DEF Reported
    <2> QED BY <2>2, <2>3
<1>6. ASSUME NEW r \in 0 .. d - 1, NEW p, Accepts(nfa, U, r + 1, p)
      PROVE  \E k \in 1 .. Len(ns) : r \in Taken(options, ns[k])
    <2>1. CASE r \in 0 .. done - 1
        <3>1. PICK k \in 1 .. n : r \in Taken(options, ms[k])
            BY <1>6, <2>1 DEF Reported
        <3>2. k \in 1 .. Len(ns) /\ ns[k] = ms[k]
            BY <1>1, <3>1
        <3> QED BY <3>1, <3>2
    <2>2. CASE r \notin 0 .. done - 1
        <3>1. r \in done .. d - 1
            BY <1>3, <2>2
        <3>2. n + 1 \in 1 .. Len(ns)
            BY <1>1
        <3> QED BY <1>1, <1>3, <3>1, <3>2
    <2> QED BY <2>1, <2>2
<1> QED BY <1>4, <1>5, <1>6, Zenon DEF Reported

\* A list of marked edges for the rows behind offset, of which those up to starts may start a match.
Segment(nfa, U, offset, starts, list) ==
    /\ list \in Seq(SUBSET EdgeNames(nfa)) /\ NoDeadEnds(nfa, list)
    /\ \A j \in 1 .. Len(list) : offset + j \in DOMAIN U /\ list[j] \subseteq U[offset + j]
    /\ \A j \in 1 .. starts : \A p : Accepts(nfa, U, offset + j, p) => Accepts(nfa, list, j, p)

\* The accepting paths in the list are the accepting runs over the partition's rows.
LEMMA SegmentAccepts ==
    ASSUME NEW nfa, NEW U, NEW offset \in Nat, NEW starts, NEW list,
           Segment(nfa, U, offset, starts, list),
           NEW j \in 1 .. starts, starts <= Len(list), starts \in Nat, NEW p
    PROVE  /\ Accepts(nfa, list, j, p) <=> Accepts(nfa, U, offset + j, p)
           /\ Accepts(nfa, list, j, p) => j + Len(p) - 1 <= Len(list)
<1>1. Accepts(nfa, U, offset + j, p) => Accepts(nfa, list, j, p)
    BY DEF Segment
<1>2. ASSUME Accepts(nfa, list, j, p)
      PROVE  j + Len(p) - 1 <= Len(list) /\ Accepts(nfa, U, offset + j, p)
    <2>0. list \in Seq(SUBSET EdgeNames(nfa))
        BY DEF Segment
    <2>1. Follows(nfa, list, j, p, Len(p)) /\ Len(p) \in Nat \ {0}
        BY <1>2 DEF Accepts
    <2>2. ASSUME NEW i \in 1 .. Len(p)
          PROVE  /\ j + i - 1 \in 1 .. Len(list)
                 /\ offset + j + i - 1 \in DOMAIN U
                 /\ p[i] \in list[j + i - 1] => p[i] \in U[offset + j + i - 1]
        <3>1. j + i - 1 \in 1 .. Len(list)
            BY <2>0, <2>1 DEF Follows
        <3>2. offset + (j + i - 1) = offset + j + i - 1
            OBVIOUS
        <3> QED BY <3>1, <3>2, Zenon DEF Segment
    <2>3. Len(p) \in 1 .. Len(p)
        BY <2>1
    <2>4. j + Len(p) - 1 <= Len(list)
        BY <2>0, <2>1, <2>2, <2>3
    <2>5. PICK k \in Int : k = offset + j
        OBVIOUS
    <2>6. Accepts(nfa, U, k, p)
        <3>1. j \in Int
            OBVIOUS
        <3>2. \A i \in 1 .. Len(p) : /\ k + i - 1 \in DOMAIN U
                                     /\ p[i] \in list[j + i - 1] => p[i] \in U[k + i - 1]
            BY <2>2, <2>5, Zenon
        <3> QED BY <1>2, <3>1, <3>2, AcceptsWider
    <2> QED BY <2>4, <2>5, <2>6
<1> QED BY <1>1, <1>2

\* u is the sequence s followed by t.
IsConcat(u, s, t) == u = s \o t

\* Appending a match to the new ones appends it to all that were reported.
LEMMA AppendConcat ==
    ASSUME NEW S, NEW s \in Seq(S), NEW t \in Seq(S), NEW e \in S, NEW u, IsConcat(u, s, t)
    PROVE  IsConcat(Append(u, e), s, Append(t, e))
<1>1. Append(s \o t, e) = s \o Append(t, e)
    OBVIOUS
<1> QED BY <1>1 DEF IsConcat

\* The loop of ExtractMatches after n iterations, or more rows.
Extracted(nfa, options, U, ms, offset, last, n, f) ==
    /\ f.ok /\ f.row \in 1 .. last + 1 /\ f.row >= n + 1
    /\ Reported(nfa, options, U, ms \o f.matches, offset + f.row - 1)

\* One iteration of ExtractMatches reports what has to be reported of its row.
LEMMA ExtractMatchReports ==
    ASSUME NEW nfa, NEW labels, IsAutomaton(nfa, labels), NEW options \in Options,
           NEW U, NEW offset \in Nat, NEW list, NEW last \in Nat,
           Segment(nfa, U, offset, last, list), last <= Len(list), Len(list) <= last + 1,
           NEW ms \in Seq(Match(labels)), NEW id, id = Len(ms) + 1,
           NEW n \in 0 .. last - 1, NEW f \in Found(labels),
           Extracted(nfa, options, U, ms, offset, last, n, f),
           NEW g, g = ExtractMatch(nfa, options, list, last, offset, id, f)
    PROVE  Extracted(nfa, options, U, ms, offset, last, n + 1, g)
<1>0. f.ok
    BY DEF Extracted
<1>1. /\ f.row \in Nat \ {0} /\ f.row >= n + 1 /\ f.matches \in Seq(Match(labels))
      /\ list \in Seq(SUBSET EdgeNames(nfa)) /\ NoDeadEnds(nfa, list) /\ Len(list) \in Nat
    BY DEF Found, Segment, Extracted
<1>2. CASE f.row > last
    <2>1. g = f
        BY <1>2 DEF ExtractMatch
    <2> QED BY <1>1, <1>2, <2>1 DEF Extracted
<1>3. CASE ~(f.row > last)
    <2>a. PICK row \in Nat \ {0} : row = f.row
        BY <1>1
    <2>b. PICK old \in Seq(Match(labels)) : old = f.matches
        BY <1>1
    <2>c. PICK all \in Seq(Match(labels)) : all = ms \o old
        <3>1. ms \o old \in Seq(Match(labels))
            OBVIOUS
        <3> QED BY <3>1, Zenon
    <2>1. row \in 1 .. last /\ row \in 1 .. Len(list) /\ list[row] \in SUBSET EdgeNames(nfa)
        <3>1. row <= last /\ last <= Len(list)
            BY <1>1, <1>3, <2>a
        <3>2. row \in 1 .. last /\ row \in 1 .. Len(list)
            BY <1>1, <3>1
        <3> QED BY <1>1, <3>2
    <2>d. row \in 1 .. last /\ row >= n + 1 /\ n \in Int
        BY <1>1, <2>1, <2>a
    <2>2. PICK k : k = HighestPrecedenceMarkedEdge(list[row], nfa.start)
        OBVIOUS
    <2>3. \/ k = 0 /\ \A e \in list[row] : e[1] # nfa.start
          \/ k \in Nat \ {0} /\ <<nfa.start, k>> \in list[row]
        <3>1. PICK marks \in SUBSET EdgeNames(nfa) : marks = list[row]
            BY <2>1
        <3>2. PICK s : s = nfa.start
            OBVIOUS
        <3>3. k = HighestPrecedenceMarkedEdge(marks, s)
            BY <2>2, <3>1, <3>2
        <3>4. \/ k = 0 /\ \A e \in marks : e[1] # s
              \/ /\ k \in Nat \ {0} /\ <<s, k>> \in marks
                 /\ \A e \in marks : e[1] = s => k <= e[2]
            BY <3>3, Highest, Zenon
        <3> QED BY <3>1, <3>2, <3>4
    <2>4. /\ Len(all) = Len(ms) + Len(old) /\ Len(ms) \in Nat /\ Len(old) \in Nat
        BY <2>c
    <2>5. PICK done \in Nat : done = offset + row - 1 /\ done + 1 = offset + row
        BY <2>1
    <2>6. Reported(nfa, options, U, all, done)
        BY <2>5, <2>a, <2>b, <2>c DEF Extracted
    <2>7. CASE k = 0
        <3>1. g = [f EXCEPT !.row = row + 1]
            BY <1>0, <1>3, <2>2, <2>7, <2>a, Zenon DEF ExtractMatch
        <3>2. g.ok /\ g.row = row + 1 /\ g.matches = old
            BY <1>0, <2>b, <3>1, Zenon DEF Found
        <3>3. ASSUME NEW p, Accepts(nfa, U, done + 1, p) PROVE FALSE
            <4>1. Accepts(nfa, list, row, p)
                BY <2>1, <2>5, <3>3 DEF Segment
            <4>2. Follows(nfa, list, row, p, Len(p)) /\ 1 \in 1 .. Len(p) /\ row + 1 - 1 = row
                BY <2>1, <4>1 DEF Accepts
            <4>3. p[1] \in list[row] /\ p[1][1] = nfa.start
                BY <4>2 DEF Follows, StateAt
            <4> QED BY <2>3, <2>7, <4>3
        <3>4. Reported(nfa, options, U, all, done + 1)
            BY <2>6, <3>3, ReportNone
        <3>5. offset + (row + 1) - 1 = done + 1 /\ row + 1 \in 1 .. last + 1 /\ row + 1 >= (n + 1) + 1
            <4>1. offset + (row + 1) - 1 = done + 1
                BY <2>5
            <4>2. row + 1 \in 1 .. last + 1 /\ row + 1 >= (n + 1) + 1
                BY <2>d
            <4> QED BY <4>1, <4>2
        <3> QED BY <2>c, <3>2, <3>4, <3>5, Zenon DEF Extracted
    <2>8. CASE k # 0
        <3>1. PICK m : m = ComputeMatch(nfa, options, list, row)
            OBVIOUS
        <3>2. BestIn(nfa, options, list, row, m)
            <4>1. <<nfa.start, k>>[1] = nfa.start
                OBVIOUS
            <4>2. \E e \in list[row] : e[1] = nfa.start
                BY <2>3, <2>8, <4>1
            <4> QED BY <1>1, <2>1, <3>1, <4>2, ComputeMatchIsBest, Zenon
        <3>3. PICK p : /\ m.ok /\ Accepts(nfa, list, row, p) /\ m.vars = Labels(nfa, p, Len(p) - 1)
                       /\ \A q : Accepts(nfa, list, row, q) => Preferred(options, p, q)
            BY <3>2 DEF BestIn
        <3>4. m.vars \in Seq(labels \cup {NoVar})
            <4>1. m \in Walk(nfa, labels)
                BY <1>1, <2>1, <3>1, ComputeMatchType, Zenon
            <4> QED BY <4>1 DEF Walk
        <3>5. \A q : Accepts(nfa, list, row, q) <=> Accepts(nfa, U, done + 1, q)
            BY <2>1, <2>5, SegmentAccepts, SMTT(30)
        <3>6. BestRun(nfa, options, U, done + 1, m.vars)
            BY <3>3, <3>5 DEF BestRun
        <3>7. PICK match : match = [match_id |-> id + Len(old),
                                    start_row_index |-> offset + row - 1, vars |-> m.vars]
            BY Zenon
        <3>8. /\ match \in Match(labels) /\ match.match_id = Len(all) + 1
              /\ match.start_row_index = done /\ match.vars = m.vars
            <4>1. /\ match.match_id = id + Len(old) /\ match.start_row_index = offset + row - 1
                  /\ match.vars = m.vars
                BY <3>7
            <4>2. id + Len(old) = Len(all) + 1 /\ id + Len(old) \in Int /\ offset + row - 1 = done
                BY <2>4, <2>5, SMTT(30)
            <4>3. match \in Match(labels)
                BY <3>4, <3>7, <4>2, SMTT(30) DEF Match
            <4> QED BY <4>1, <4>2, <4>3, SMTT(30)
        <3>9. g = [row |-> NextStart(options, row, m.vars), matches |-> Append(old, match),
                   ok |-> TRUE]
            BY <1>0, <1>3, <2>2, <2>8, <2>a, <2>b, <3>1, <3>3, <3>7, SMTT(30) DEF ExtractMatch
        <3>10. g.ok /\ g.row = NextStart(options, row, m.vars) /\ g.matches = Append(old, match)
            BY <3>9, SMTT(30)
        <3>11. Len(m.vars) \in Nat /\ Len(m.vars) = Len(p) - 1 /\ row + Len(p) - 1 <= Len(list)
            <4>1. Len(p) \in Nat \ {0}
                BY <3>3 DEF Accepts
            <4>2. Len(m.vars) = Len(p) - 1
                BY <3>3, <4>1 DEF Labels
            <4>3. row + Len(p) - 1 <= Len(list)
                BY <2>1, <3>3, SegmentAccepts, Zenon
            <4> QED BY <4>1, <4>2, <4>3
        <3>12. /\ g.row \in 1 .. last + 1 /\ g.row >= (n + 1) + 1
               /\ offset + g.row - 1 = NextStart(options, done, m.vars)
            <4>1. m.vars # <<>> => Len(m.vars) > 0
                BY <3>4
            <4>2. g.row = row + (IF m.vars # <<>> /\ ~options.overlapping THEN Len(m.vars) ELSE 1)
                BY <3>10 DEF NextStart
            <4>3. NextStart(options, done, m.vars)
                     = done + (IF m.vars # <<>> /\ ~options.overlapping THEN Len(m.vars) ELSE 1)
                BY DEF NextStart
            <4>4. CASE m.vars # <<>> /\ ~options.overlapping
                <5>1. g.row = row + Len(m.vars) /\ NextStart(options, done, m.vars) = done + Len(m.vars)
                    BY <4>2, <4>3, <4>4
                <5>2. PICK l \in Nat : l = Len(m.vars) /\ l > 0 /\ row + l <= Len(list)
                    BY <3>11, <4>1, <4>4, SMTT(30)
                <5>3. row + l \in 1 .. last + 1 /\ row + l >= (n + 1) + 1 /\ offset + (row + l) - 1 = done + l
                    <6>1. offset + (row + l) - 1 = done + l
                        BY <2>5
                    <6>2. PICK N \in Nat : N = Len(list) /\ N <= last + 1 /\ row + l <= N
                        BY <1>1, <5>2
                    <6>3. row + l \in 1 .. last + 1 /\ row + l >= (n + 1) + 1
                        BY <2>d, <5>2, <6>2, SMTT(30)
                    <6> QED BY <6>1, <6>3
                <5> QED BY <5>1, <5>2, <5>3, Zenon
            <4>5. CASE ~(m.vars # <<>> /\ ~options.overlapping)
                <5>1. g.row = row + 1 /\ NextStart(options, done, m.vars) = done + 1
                    BY <4>2, <4>3, <4>5
                <5>2. row + 1 \in 1 .. last + 1 /\ row + 1 >= (n + 1) + 1 /\ offset + (row + 1) - 1 = done + 1
                    <6>1. offset + (row + 1) - 1 = done + 1
                        BY <2>5
                    <6>2. row + 1 \in 1 .. last + 1 /\ row + 1 >= (n + 1) + 1
                        BY <2>d
                    <6> QED BY <6>1, <6>2, SMTT(30)
                <5> QED BY <5>1, <5>2, Zenon
            <4> QED BY <4>4, <4>5
        <3>13. Reported(nfa, options, U, Append(all, match), NextStart(options, done, m.vars))
            <4>1. PICK ns : ns = Append(all, match)
                BY Zenon
            <4>2. PICK d : d = NextStart(options, done, match.vars)
                OBVIOUS
            <4>3. BestRun(nfa, options, U, done + 1, match.vars)
                BY <3>6, <3>8
            <4>4. Reported(nfa, options, U, ns, d)
                BY <2>6, <3>8, <4>1, <4>2, <4>3, ReportMatch, Zenon
            <4> QED BY <3>8, <4>1, <4>2, <4>4
        <3>14. Append(all, match) = ms \o Append(old, match)
            <4>1. PICK S : S = Match(labels)
                OBVIOUS
            <4>2. ms \in Seq(S) /\ old \in Seq(S) /\ match \in S
                BY <3>8, <4>1
            <4>3. IsConcat(all, ms, old)
                BY <2>c DEF IsConcat
            <4>4. IsConcat(Append(all, match), ms, Append(old, match))
                BY <4>2, <4>3, AppendConcat
            <4> QED BY <4>4 DEF IsConcat
        <3> QED BY <3>10, <3>12, <3>13, <3>14, Zenon DEF Extracted
    <2> QED BY <2>7, <2>8
<1> QED BY <1>2, <1>3

\* The loop of ExtractMatches reports all matches that start in the rows of its list.
LEMMA MatchesFromReports ==
    ASSUME NEW nfa, NEW labels, IsAutomaton(nfa, labels), NEW options \in Options,
           NEW U, NEW offset \in Nat, NEW list, NEW last \in Nat,
           Segment(nfa, U, offset, last, list), last <= Len(list), Len(list) <= last + 1,
           NEW ms \in Seq(Match(labels)), NEW id, id = Len(ms) + 1,
           Reported(nfa, options, U, ms, offset),
           NEW found, found = MatchesFrom(nfa, options, list, last, offset, id)
    PROVE  /\ found.ok /\ found.matches \in Seq(Match(labels))
           /\ Reported(nfa, options, U, ms \o found.matches, offset + last)
<1>1. list \in Seq(SUBSET EdgeNames(nfa)) /\ last \in 0 .. Len(list) /\ offset \in Int /\ id \in Int
    BY DEF Segment
<1>2. PICK g \in [0 .. last -> Found(labels)] :
         /\ g[0] = NewFound
         /\ \A n \in 1 .. last : g[n] = ExtractMatch(nfa, options, list, last, offset, id, g[n - 1])
         /\ MatchesFrom(nfa, options, list, last, offset, id) = g[last]
    <2>1. PICK g : MatchesLoop(nfa, labels, options, list, last, offset, id, g)
        BY <1>1, MatchesUnfolds, Zenon
    <2> QED BY <2>1, Zenon DEF MatchesLoop
<1> DEFINE I(f, n) == Extracted(nfa, options, U, ms, offset, last, n, f)
           T == {n \in 0 .. last : I(g[n], n)}
<1>3. 0 \in T
    <2>1. PICK f : f = NewFound
        OBVIOUS
    <2>2. f.ok /\ f.row = 1 /\ f.matches = <<>>
        BY <2>1 DEF NewFound
    <2>3. ms \o <<>> = ms /\ offset + 1 - 1 = offset
        OBVIOUS
    <2>4. I(f, 0)
        BY <2>2, <2>3 DEF Extracted
    <2> HIDE DEF I
    <2> QED BY <1>2, <2>1, <2>4
<1>4. ASSUME NEW n \in 0 .. last - 1, n \in T PROVE n + 1 \in T
    <2>1. n + 1 \in 1 .. last /\ n + 1 \in 0 .. last /\ n \in 0 .. last /\ (n + 1) - 1 = n
        OBVIOUS
    <2>2. PICK f \in Found(labels) : f = g[n]
        BY <2>1
    <2>3. PICK h : h = g[n + 1]
        OBVIOUS
    <2>4. h = ExtractMatch(nfa, options, list, last, offset, id, f)
        BY <1>2, <2>1, <2>2, <2>3
    <2>5. I(f, n)
        BY <1>4, <2>2
    <2>8. I(h, n + 1)
        BY <2>4, <2>5, ExtractMatchReports
    <2> HIDE DEF I
    <2> QED BY <2>1, <2>3, <2>8
<1> HIDE DEF T, I
<1>5. 0 .. last \subseteq T
    BY <1>3, <1>4, InductionUp, SMTT(30)
<1>6. PICK f \in Found(labels) : f = g[last]
    BY <1>2
<1>7. I(f, last)
    BY <1>5, <1>6 DEF T
<1>8. f.ok /\ f.row = last + 1 /\ Reported(nfa, options, U, ms \o f.matches, offset + f.row - 1)
    BY <1>7 DEF I, Extracted
<1>9. offset + f.row - 1 = offset + last
    BY <1>8
<1>10. f.matches \in Seq(Match(labels)) /\ found = f
    BY <1>2, <1>6 DEF Found
<1> QED BY <1>8, <1>9, <1>10, SMTT(30)

\* No path goes on behind row offset that has started before it.
NoCrossing(nfa, U, offset) ==
    \A r \in 0 .. offset - 1 : \A p :
       Follows(nfa, U, r + 1, p, offset - r) => To(nfa, p[offset - r]) = nfa.final

\* U gives for each row some of the automaton's edges.
AreEdges(nfa, U) == \A r \in DOMAIN U : U[r] \in SUBSET EdgeNames(nfa)

\* U and V give the same edges for the first n rows.
Agree(U, V, n) == \A i \in 1 .. n : i \in DOMAIN U /\ i \in DOMAIN V /\ U[i] = V[i]

\* The beginning of a path is a path.
LEMMA FollowsLess ==
    ASSUME NEW nfa, NEW U, NEW j, NEW p, NEW n \in Nat, Follows(nfa, U, j, p, n),
           NEW k \in Nat, k <= n
    PROVE  Follows(nfa, U, j, p, k)
<1>1. \A i \in 1 .. k : i \in 1 .. n
    OBVIOUS
<1> QED BY <1>1 DEF Follows

\* A path depends on the rows it is taken in only.
LEMMA FollowsAgree ==
    ASSUME NEW nfa, NEW U, NEW V, NEW n \in Nat, Agree(U, V, n),
           NEW r \in Nat, NEW p, NEW k \in Nat, r + k <= n
    PROVE  Follows(nfa, U, r + 1, p, k) <=> Follows(nfa, V, r + 1, p, k)
<1>1. \A i \in 1 .. k : r + 1 + i - 1 \in 1 .. n
    OBVIOUS
<1>2. \A i \in 1 .. k : /\ r + 1 + i - 1 \in DOMAIN U /\ r + 1 + i - 1 \in DOMAIN V
                        /\ U[r + 1 + i - 1] = V[r + 1 + i - 1]
    BY <1>1 DEF Agree
<1> QED BY <1>2 DEF Follows

\* Rows that come later do not let an earlier path go on behind the row where the tracker was
\* reset.
LEMMA NoCrossingAgrees ==
    ASSUME NEW nfa, NEW U, NEW V, NEW n \in Nat, Agree(U, V, n), NoCrossing(nfa, U, n)
    PROVE  NoCrossing(nfa, V, n)
<1> SUFFICES ASSUME NEW r \in 0 .. n - 1, NEW p, Follows(nfa, V, r + 1, p, n - r)
             PROVE  To(nfa, p[n - r]) = nfa.final
    BY DEF NoCrossing
<1>1. n - r \in Nat /\ r \in Nat /\ r + (n - r) <= n
    OBVIOUS
<1>2. PICK k \in Nat : k = n - r /\ r + k <= n
    BY <1>1
<1>3. Follows(nfa, U, r + 1, p, k) <=> Follows(nfa, V, r + 1, p, k)
    BY <1>1, <1>2, FollowsAgree
<1> QED BY <1>2, <1>3 DEF NoCrossing

\* Nor do they change which runs from the rows before are accepted.
LEMMA AcceptsAgrees ==
    ASSUME NEW nfa, NEW labels, IsAutomaton(nfa, labels), NEW U, AreEdges(nfa, U), NEW V,
           NEW n \in Nat, Agree(U, V, n), NoCrossing(nfa, U, n),
           NEW r \in 0 .. n - 1, NEW p, Accepts(nfa, U, r + 1, p)
    PROVE  Accepts(nfa, V, r + 1, p)
<1>1. /\ p \in Seq(EdgeNames(nfa)) \ {<<>>} /\ Len(p) \in Nat
      /\ Follows(nfa, U, r + 1, p, Len(p)) /\ To(nfa, p[Len(p)]) = nfa.final
    BY DEF Accepts
<1>2. ASSUME n - r < Len(p) PROVE FALSE
    <2>1. n - r \in 1 .. Len(p) - 1
        BY <1>1, <1>2
    <2>2. To(nfa, p[n - r]) # nfa.final
        <3>1. \A k \in DOMAIN U : U[k] \in SUBSET EdgeNames(nfa)
            BY DEF AreEdges
        <3>2. PICK j : j = r + 1
            OBVIOUS
        <3>3. PICK i \in 1 .. Len(p) - 1 : i = n - r
            BY <2>1
        <3>4. Follows(nfa, U, j, p, Len(p))
            BY <1>1, <3>2
        <3>5. To(nfa, p[i]) # nfa.final
            BY <1>1, <3>1, <3>4, LeavesNotFinal
        <3> QED BY <3>3, <3>5
    <2>3. Follows(nfa, U, r + 1, p, n - r)
        <3>1. PICK k \in Nat : k = n - r /\ k <= Len(p)
            BY <1>1, <2>1
        <3>2. PICK j : j = r + 1
            OBVIOUS
        <3>3. Follows(nfa, U, j, p, k)
            BY <1>1, <3>1, <3>2, FollowsLess
        <3> QED BY <3>1, <3>2, <3>3
    <2> QED BY <2>2, <2>3 DEF NoCrossing
<1>3. r \in Nat /\ r + Len(p) <= n
    BY <1>1, <1>2
<1>4. Follows(nfa, V, r + 1, p, Len(p))
    BY <1>1, <1>3, FollowsAgree
<1> QED BY <1>1, <1>4 DEF Accepts

\* What was reported before the tracker's reset stays right whatever rows follow: the cut
\* that ProcessRow makes loses no match.
LEMMA ReportedAgrees ==
    ASSUME NEW nfa, NEW labels, IsAutomaton(nfa, labels), NEW U, AreEdges(nfa, U), NEW V,
           AreEdges(nfa, V), NEW n \in Nat, Agree(U, V, n), NoCrossing(nfa, U, n),
           NEW options, NEW ms, Reported(nfa, options, U, ms, n)
    PROVE  Reported(nfa, options, V, ms, n)
<1>1. NoCrossing(nfa, V, n)
    BY NoCrossingAgrees
<1>2. Agree(V, U, n)
    BY DEF Agree
<1>3. ASSUME NEW r \in 0 .. n - 1, NEW p
      PROVE  Accepts(nfa, U, r + 1, p) <=> Accepts(nfa, V, r + 1, p)
    BY <1>1, <1>2, AcceptsAgrees, SMTT(30)
<1>4. ASSUME NEW k \in 1 .. Len(ms)
      PROVE  BestRun(nfa, options, V, ms[k].start_row_index + 1, ms[k].vars)
    <2>1. /\ ms[k].start_row_index \in 0 .. n - 1
          /\ BestRun(nfa, options, U, ms[k].start_row_index + 1, ms[k].vars)
        BY DEF Reported
    <2>2. PICK r \in 0 .. n - 1 : r = ms[k].start_row_index
        BY <2>1, SMTT(30)
    <2>3. BestRun(nfa, options, V, r + 1, ms[k].vars)
        BY <1>3, <2>1, <2>2 DEF BestRun
    <2> QED BY <2>2, <2>3, SMTT(30)
<1> QED BY <1>3, <1>4, Zenon DEF Reported

\* The edges U are known for the m rows behind row offset.
Known(U, offset, m) == \A j \in 1 .. m : offset + j \in DOMAIN U

\* The list that ProcessRow returns contains every accepting run from its rows.
LEMMA KeptSegment ==
    ASSUME NEW nfa, NEW labels, IsAutomaton(nfa, labels), NEW U, AreEdges(nfa, U),
           NEW offset \in Nat, NEW marked \in Seq(SUBSET EdgeNames(nfa)), NEW starts \in Nat,
           Marks(nfa, marked, U, offset, starts), starts <= Len(marked), marked # <<>>,
           ~CanContinueMatch(nfa, marked[Len(marked)]),
           Known(U, offset, Len(marked)),
           NEW list, list = FinalizeMarkedEdges(nfa, marked, FALSE)
    PROVE  Segment(nfa, U, offset, starts, list) /\ Len(list) = Len(marked)
<1> DEFINE m == Len(marked)
<1>1. /\ list \in Seq(SUBSET EdgeNames(nfa)) /\ Len(list) = m
      /\ \A r \in 1 .. Len(list) : list[r] \subseteq marked[r]
      /\ NoDeadEnds(nfa, list)
    BY KeptEdges, Zenon
<1>2. m \in Nat \ {0}
    OBVIOUS
<1>3. ASSUME NEW j \in 1 .. Len(list) PROVE offset + j \in DOMAIN U /\ list[j] \subseteq U[offset + j]
    BY <1>1, Zenon DEF Marks, Known
<1>4. ASSUME NEW j \in 1 .. starts, NEW p, Accepts(nfa, U, offset + j, p)
      PROVE  Accepts(nfa, list, j, p)
    <2>1. /\ p \in Seq(EdgeNames(nfa)) \ {<<>>} /\ Len(p) \in Nat \ {0}
          /\ Follows(nfa, U, offset + j, p, Len(p)) /\ To(nfa, p[Len(p)]) = nfa.final
        BY <1>4 DEF Accepts
    <2>2. j \in Nat \ {0} /\ 1 <= j /\ j <= starts /\ j <= m
        BY <1>2
    <2>3. \A r \in DOMAIN U : U[r] \in SUBSET EdgeNames(nfa)
        BY DEF AreEdges
    <2>4. CASE j + Len(p) - 1 <= m
        <3>1. Follows(nfa, marked, j, p, Len(p))
            BY <2>1, <2>2, <2>3, <2>4, PathsAreMarked, Zenon
        <3>2. Accepts(nfa, marked, j, p)
            BY <2>1, <3>1 DEF Accepts
        <3>3. PICK longest \in BOOLEAN : longest = FALSE
            BY Zenon
        <3>4. list = FinalizeMarkedEdges(nfa, marked, longest)
              /\ (longest => ~CanContinueMatch(nfa, marked[j + Len(p) - 1]))
            BY <3>3, Zenon
        <3> QED BY <2>2, <3>2, <3>4, PathsAreKept, Zenon
    <2>5. CASE ~(j + Len(p) - 1 <= m)
        <3>a. PICK l \in Nat : l = Len(p)
            BY <2>1
        <3>b. PICK n \in Nat : n = m
            BY <1>2
        <3>c. j <= n /\ ~(j + l - 1 <= n)
            BY <2>2, <2>5, <3>a, <3>b
        <3>d. PICK k \in Nat : k = n - j + 1 /\ k \in 1 .. l - 1 /\ j + k - 1 = n /\ k \in 1 .. k /\ k <= l
            BY <2>2, <3>c
        <3>1. k \in Nat /\ k \in 1 .. Len(p) - 1 /\ j + k - 1 = m /\ k \in 1 .. k /\ k <= Len(p)
            BY <3>a, <3>b, <3>d
        <3>2. Follows(nfa, U, offset + j, p, k)
            <4>1. PICK i : i = offset + j
                OBVIOUS
            <4>2. Follows(nfa, U, i, p, k)
                BY <2>1, <3>1, <4>1, FollowsLess
            <4> QED BY <4>1, <4>2
        <3>3. j + k - 1 <= Len(marked)
            BY <1>2, <3>1
        <3>4. Follows(nfa, marked, j, p, k)
            BY <2>2, <2>3, <3>2, <3>3, PathsAreMarked, Zenon
        <3>5. p[k] \in marked[m]
            BY <3>1, <3>4 DEF Follows
        <3>6. To(nfa, p[k]) = nfa.final
            BY <3>5 DEF CanContinueMatch, To
        <3>7. PICK i : i = offset + j
            OBVIOUS
        <3>8. Follows(nfa, U, i, p, Len(p))
            BY <2>1, <3>7, SMTT(30)
        <3>9. To(nfa, p[k]) # nfa.final
            BY <2>1, <2>3, <3>1, <3>8, LeavesNotFinal, SMTT(30)
        <3> QED BY <3>6, <3>9
    <2> QED BY <2>4, <2>5, Zenon
<1> QED BY <1>1, <1>3, <1>4, Zenon DEF Segment

\* When ProcessRow returns a list, no run crosses its end.
LEMMA SegmentNoCrossing ==
    ASSUME NEW nfa, NEW labels, IsAutomaton(nfa, labels), NEW U, AreEdges(nfa, U),
           NEW offset \in Nat, NEW marked \in Seq(SUBSET EdgeNames(nfa)), marked # <<>>,
           Marks(nfa, marked, U, offset, Len(marked)),
           ~CanContinueMatch(nfa, marked[Len(marked)]), NoCrossing(nfa, U, offset)
    PROVE  NoCrossing(nfa, U, offset + Len(marked))
<1>0. PICK m \in Nat \ {0} : m = Len(marked)
    OBVIOUS
<1> SUFFICES ASSUME NEW r \in 0 .. (offset + m) - 1, NEW p, Follows(nfa, U, r + 1, p, (offset + m) - r)
             PROVE  To(nfa, p[(offset + m) - r]) = nfa.final
    BY <1>0 DEF NoCrossing
<1>1. \A k \in DOMAIN U : U[k] \in SUBSET EdgeNames(nfa)
    BY DEF AreEdges
<1>2. CASE r < offset
    <2>1. PICK k \in Nat : k = (offset + m) - r
        BY <1>2
    <2>2. PICK i \in 1 .. k - 1 : i = offset - r
        BY <1>2, <2>1, SMTT(30)
    <2>3. Follows(nfa, U, r + 1, p, offset - r)
        BY <1>2, <2>1 DEF Follows
    <2>4. To(nfa, p[offset - r]) = nfa.final
        BY <1>2, <2>3 DEF NoCrossing
    <2>5. PICK j : j = r + 1
        OBVIOUS
    <2>6. Follows(nfa, U, j, p, k)
        BY <2>1, <2>5, SMTT(30)
    <2>7. To(nfa, p[i]) # nfa.final
        BY <1>1, <2>6, LeavesNotFinal, SMTT(30)
    <2> QED BY <2>2, <2>4, <2>7
<1>3. CASE ~(r < offset)
    <2>1. PICK j \in Nat : j = r + 1 - offset /\ 1 <= j /\ j <= m /\ offset + j = r + 1
        BY <1>3
    <2>2. PICK k \in Nat : k = (offset + m) - r /\ j + k - 1 = m /\ k \in 1 .. k
        BY <1>3, <2>1
    <2>3. Follows(nfa, U, offset + j, p, k)
        BY <2>1, <2>2
    <2>4. m \in Nat /\ j + k - 1 <= Len(marked) /\ Marks(nfa, marked, U, offset, m)
        BY <1>0, <2>2, SMTT(30)
    <2>5. Follows(nfa, marked, j, p, k)
        <3>1. PICK starts \in Nat : starts = m
            OBVIOUS
        <3>2. Marks(nfa, marked, U, offset, starts) /\ j <= starts
            BY <2>1, <2>4, <3>1
        <3>3. 1 <= j /\ j <= starts /\ j + k - 1 <= Len(marked)
            BY <2>1, <2>4, <3>2
        <3> QED BY <1>1, <2>3, <3>2, <3>3, PathsAreMarked, Zenon
    <2>6. p[k] \in marked[m]
        BY <2>2, <2>5 DEF Follows
    <2> QED BY <1>0, <2>2, <2>6, Zenon DEF CanContinueMatch, To
<1> QED BY <1>2, <1>3

\* s followed by t.
Joined(s, t) == s \o t

\* The type and the length of a concatenation.
LEMMA JoinedFacts ==
    ASSUME NEW S, NEW s \in Seq(S), NEW t \in Seq(S)
    PROVE  /\ Joined(s, t) \in Seq(S) /\ Len(Joined(s, t)) = Len(s) + Len(t)
           /\ t = <<>> => Joined(s, t) = s
BY SMTT(30) DEF Joined

\* The states of an NFAMatchPartition.
Partition(nfa, labels) ==
    [tracker : Tracker(nfa), row_offset : Nat, next_match_id : Nat, at_partition_start : BOOLEAN,
     finalized : BOOLEAN, ok : BOOLEAN, new_matches : Seq(Match(labels))]

\* The state of a match partition that has been given n rows, which allow the edges U, and has
\* reported the matches ms.
Streaming(nfa, labels, options, U, n, part, ms) ==
    /\ part \in Partition(nfa, labels) /\ ms \in Seq(Match(labels))
    /\ part.ok /\ ~part.finalized /\ part.next_match_id = Len(ms) + 1
    /\ part.at_partition_start <=> n = 0
    /\ part.row_offset + Len(part.tracker.marked) = n
    /\ Tracks(nfa, part.tracker, U, part.row_offset, Len(part.tracker.marked))
    /\ NoCrossing(nfa, U, part.row_offset)
    /\ Reported(nfa, options, U, ms, part.row_offset)

\* ... and of one that has been finalized.
Ended(nfa, labels, options, U, n, part, ms) ==
    /\ part \in Partition(nfa, labels) /\ ms \in Seq(Match(labels))
    /\ part.ok /\ part.finalized /\ part.tracker = NewTracker /\ part.row_offset = n + 1
    /\ Reported(nfa, options, U, ms, n)

\* What ExtractMatches makes of the partition, ms being the matches reported before.
Extraction(nfa, labels, options, U, ms, part, last, length, new) ==
    /\ new \in Partition(nfa, labels) /\ Joined(ms, new.new_matches) \in Seq(Match(labels))
    /\ new.ok /\ new.row_offset = part.row_offset + length
    /\ new.next_match_id = Len(Joined(ms, new.new_matches)) + 1
    /\ new.tracker = part.tracker /\ new.finalized = part.finalized
    /\ new.at_partition_start = part.at_partition_start
    /\ Reported(nfa, options, U, Joined(ms, new.new_matches), part.row_offset + last)

\* ExtractMatches reports the matches of its list, numbers them on from the earlier ones and
\* advances row_offset_ by the list's rows; none of its checks fails.
LEMMA ExtractMatchesReports ==
    ASSUME NEW nfa, NEW labels, IsAutomaton(nfa, labels), NEW options \in Options, NEW U,
           NEW part \in Partition(nfa, labels), part.ok, NEW list, NEW in_finalize \in BOOLEAN,
           NEW last \in Nat, last = IF in_finalize THEN Len(list) - 1 ELSE Len(list),
           Segment(nfa, U, part.row_offset, last, list),
           NEW ms \in Seq(Match(labels)), part.next_match_id = Len(ms) + 1,
           Reported(nfa, options, U, ms, part.row_offset),
           NEW new, new = ExtractMatches(nfa, options, part, list, in_finalize)
    PROVE  Extraction(nfa, labels, options, U, ms, part, last, Len(list), new)
<1>1. list \in Seq(SUBSET EdgeNames(nfa)) /\ Len(list) \in Nat
    BY DEF Segment
<1>2. last <= Len(list) /\ Len(list) <= last + 1
    BY <1>1
<1>3. PICK offset \in Nat : offset = part.row_offset
    BY DEF Partition
<1>4. PICK id : id = part.next_match_id
    OBVIOUS
<1>5. PICK found : found = MatchesFrom(nfa, options, list, last, offset, id)
    OBVIOUS
<1>6. /\ found.ok /\ found.matches \in Seq(Match(labels))
      /\ Reported(nfa, options, U, Joined(ms, found.matches), offset + last)
    <2>1. Segment(nfa, U, offset, last, list) /\ Reported(nfa, options, U, ms, offset) /\ id = Len(ms) + 1
        BY <1>3, <1>4
    <2>2. /\ found.ok /\ found.matches \in Seq(Match(labels))
          /\ Reported(nfa, options, U, ms \o found.matches, offset + last)
        BY <1>2, <1>5, <2>1, MatchesFromReports
    <2> QED BY <2>2 DEF Joined
<1>7. new = [part EXCEPT !.row_offset = @ + Len(list), !.next_match_id = @ + Len(found.matches),
                         !.ok = @ /\ found.ok, !.new_matches = found.matches]
    BY <1>3, <1>4, <1>5 DEF ExtractMatches
<1>8. PICK ns \in Seq(Match(labels)) : ns = found.matches
    BY <1>6
<1>9. /\ new.row_offset = offset + Len(list) /\ new.next_match_id = id + Len(ns)
      /\ new.new_matches = ns
      /\ new.tracker = part.tracker /\ new.finalized = part.finalized
      /\ new.at_partition_start = part.at_partition_start
    BY <1>3, <1>4, <1>7, <1>8 DEF Partition
<1>10. new.ok
    BY <1>6, <1>7 DEF Partition
<1>11. Joined(ms, ns) \in Seq(Match(labels)) /\ Len(Joined(ms, ns)) = Len(ms) + Len(ns)
       /\ Len(ms) \in Nat /\ Len(ns) \in Nat
    <2>1. PICK S : S = Match(labels)
        OBVIOUS
    <2>2. ms \in Seq(S) /\ ns \in Seq(S)
        BY <2>1
    <2>3. Joined(ms, ns) \in Seq(S) /\ Len(Joined(ms, ns)) = Len(ms) + Len(ns)
        BY <2>2, JoinedFacts
    <2> QED BY <2>1, <2>3
<1>12. id + Len(ns) = Len(Joined(ms, ns)) + 1 /\ id + Len(ns) \in Nat /\ offset + Len(list) \in Nat
    BY <1>1, <1>4, <1>11
<1>13. new \in Partition(nfa, labels)
    <2>1. new = [part EXCEPT !.row_offset = offset + Len(list), !.next_match_id = id + Len(ns),
                             !.ok = TRUE, !.new_matches = ns]
        BY <1>3, <1>4, <1>6, <1>7, <1>8, Zenon DEF Partition
    <2> QED BY <1>12, <2>1, Zenon DEF Partition
<1> QED BY <1>3, <1>6, <1>8, <1>9, <1>10, <1>11, <1>12, <1>13, SMTT(30) DEF Extraction

\* The edges usable in each row of a partition, and behind its last row.
Allowed(nfa, rows, ended) == [i \in 1 .. Len(rows) + 1 |-> Usable(nfa, rows, ended, i - 1)]

\* The edges allowed in a row are edges of the automaton.
LEMMA AllowedAreEdges ==
    ASSUME NEW nfa, NEW rows, NEW ended
    PROVE  AreEdges(nfa, Allowed(nfa, rows, ended))
<1>1. \A i \in 1 .. Len(rows) + 1 : Usable(nfa, rows, ended, i - 1) \in SUBSET EdgeNames(nfa)
    BY DEF Usable, EdgeNames
<1> QED BY <1>1 DEF AreEdges, Allowed

\* V extends the edges U of n rows by those that one more row allows.
RowAdded(nfa, row, n, U, V) ==
    /\ Agree(U, V, n) /\ DOMAIN V = 1 .. n + 2
    /\ V[n + 1] = {e \in EdgesFrom(nfa, DOMAIN nfa.edges) :
                      /\ EdgeAt(nfa, e).head => n = 0
                      /\ ~EdgeAt(nfa, e).tail
                      /\ EdgeAt(nfa, e).var \in {NoVar} \cup row}

\* AddRow evaluates the edges of the new row as the reference does: ^ holds in the first row
\* only, $ not at all, and the edges of the earlier rows are as they were.
LEMMA AllowedAddRow ==
    ASSUME NEW nfa, NEW labels, IsAutomaton(nfa, labels), NEW rows \in Seq(SUBSET labels),
           NEW row \in SUBSET labels, NoVar \notin labels, NEW more, more = Append(rows, row),
           NEW U, U = Allowed(nfa, rows, FALSE), NEW V, V = Allowed(nfa, more, FALSE)
    PROVE  RowAdded(nfa, row, Len(rows), U, V)
<1> DEFINE n == Len(rows)
<1>1. /\ n \in Nat /\ Len(more) = n + 1 /\ more[n + 1] = row
      /\ \A i \in 1 .. n : more[i] = rows[i]
    OBVIOUS
<1>2. ASSUME NEW i \in 1 .. n PROVE i \in DOMAIN U /\ i \in DOMAIN V /\ U[i] = V[i]
    <2>1. i \in DOMAIN U /\ i \in DOMAIN V
        BY <1>1 DEF Allowed
    <2>a. i \in 1 .. Len(rows) + 1 /\ i \in 1 .. Len(more) + 1
        BY <1>1
    <2>2. U[i] = Usable(nfa, rows, FALSE, i - 1) /\ V[i] = Usable(nfa, more, FALSE, i - 1)
        BY <2>a DEF Allowed
    <2>3. i - 1 < n /\ i - 1 < n + 1 /\ more[(i - 1) + 1] = rows[(i - 1) + 1]
        BY <1>1
    <2>4. Usable(nfa, rows, FALSE, i - 1) = Usable(nfa, more, FALSE, i - 1)
        BY <1>1, <2>3, SMTT(30) DEF Usable
    <2> QED BY <2>1, <2>2, <2>4, Zenon
<1>3. DOMAIN V = 1 .. n + 2
    BY <1>1 DEF Allowed
<1>4. V[n + 1] = Usable(nfa, more, FALSE, n)
    <2>1. n + 1 \in 1 .. Len(more) + 1 /\ (n + 1) - 1 = n
        BY <1>1
    <2> QED BY <2>1 DEF Allowed
<1>5. Usable(nfa, more, FALSE, n)
         = {e \in EdgesFrom(nfa, DOMAIN nfa.edges) :
               /\ EdgeAt(nfa, e).head => n = 0
               /\ ~EdgeAt(nfa, e).tail
               /\ EdgeAt(nfa, e).var \in {NoVar} \cup row}
    <2>1. ASSUME NEW e \in EdgesFrom(nfa, DOMAIN nfa.edges)
          PROVE  ((EdgeAt(nfa, e).tail => n = Len(more) /\ FALSE)
                     /\ (EdgeAt(nfa, e).var # NoVar => n < Len(more) /\ EdgeAt(nfa, e).var \in more[n + 1]))
                 <=> (~EdgeAt(nfa, e).tail /\ EdgeAt(nfa, e).var \in {NoVar} \cup row)
        BY <1>1
    <2> QED BY <2>1 DEF Usable
<1>6. Agree(U, V, n)
    BY <1>2, Zenon DEF Agree
<1> QED BY <1>3, <1>4, <1>5, <1>6, Zenon DEF RowAdded

\* V extends the edges U of n rows by those allowed behind the last row.
RowsEnded(nfa, n, U, V) ==
    /\ Agree(U, V, n) /\ DOMAIN V = 1 .. n + 1
    /\ V[n + 1] = {e \in EdgesFrom(nfa, DOMAIN nfa.edges) :
                      ~EdgeAt(nfa, e).head /\ EdgeAt(nfa, e).var = NoVar}

\* Finalize's sentinel row allows the edges behind the last row: those that consume nothing
\* and need no ^.
LEMMA AllowedFinalize ==
    ASSUME NEW nfa, NEW rows, NEW S, rows \in Seq(S), rows # <<>>,
           NEW U, U = Allowed(nfa, rows, FALSE), NEW V, V = Allowed(nfa, rows, TRUE)
    PROVE  RowsEnded(nfa, Len(rows), U, V)
<1> DEFINE n == Len(rows)
<1>1. n \in Nat \ {0}
    OBVIOUS
<1>2. ASSUME NEW i \in 1 .. n PROVE i \in DOMAIN U /\ i \in DOMAIN V /\ U[i] = V[i]
    <2>1. i \in DOMAIN U /\ i \in DOMAIN V
        BY <1>1 DEF Allowed
    <2>a. i \in 1 .. Len(rows) + 1
        BY <1>1
    <2>2. U[i] = Usable(nfa, rows, FALSE, i - 1) /\ V[i] = Usable(nfa, rows, TRUE, i - 1)
        BY <2>a DEF Allowed
    <2>3. i - 1 < n /\ i - 1 # n
        BY <1>1
    <2>4. Usable(nfa, rows, FALSE, i - 1) = Usable(nfa, rows, TRUE, i - 1)
        BY <2>3 DEF Usable
    <2> QED BY <2>1, <2>2, <2>4, Zenon
<1>3. DOMAIN V = 1 .. n + 1
    BY <1>1 DEF Allowed
<1>4. V[n + 1] = Usable(nfa, rows, TRUE, n)
    <2>1. n + 1 \in 1 .. Len(rows) + 1 /\ (n + 1) - 1 = n
        BY <1>1
    <2> QED BY <2>1 DEF Allowed
<1>5. Usable(nfa, rows, TRUE, n)
         = {e \in EdgesFrom(nfa, DOMAIN nfa.edges) : ~EdgeAt(nfa, e).head /\ EdgeAt(nfa, e).var = NoVar}
    <2>1. n # 0 /\ ~(n < Len(rows))
        BY <1>1
    <2> QED BY <2>1 DEF Usable
<1>6. Agree(U, V, n)
    BY <1>2, Zenon DEF Agree
<1> QED BY <1>3, <1>4, <1>5, <1>6, Zenon DEF RowsEnded

\* What the tracker has marked does not depend on later rows.
LEMMA TracksAgrees ==
    ASSUME NEW nfa, NEW U, NEW V, NEW n \in Nat, Agree(U, V, n), NEW tracker, NEW offset \in Nat,
           NEW starts \in Nat, Tracks(nfa, tracker, U, offset, Len(tracker.marked)),
           Len(tracker.marked) <= starts, offset + Len(tracker.marked) <= n
    PROVE  Tracks(nfa, tracker, V, offset, starts)
<1>1. Len(tracker.marked) \in Nat
    BY DEF Tracks, Tracker
<1>2. ASSUME NEW j \in 1 .. Len(tracker.marked)
      PROVE  tracker.marked[j]
                = EdgesFrom(nfa, (IF j <= starts THEN {nfa.start} ELSE {})
                                 \cup (IF j = 1 THEN {} ELSE Targets(nfa, tracker.marked[j - 1])))
                  \cap V[offset + j]
    <2>1. offset + j \in 1 .. n /\ j <= starts /\ j <= Len(tracker.marked)
        BY <1>1
    <2>2. U[offset + j] = V[offset + j]
        BY <2>1 DEF Agree
    <2> QED BY <2>1, <2>2, Zenon DEF Tracks, Marks
<1> QED BY <1>2, Zenon DEF Tracks, Marks
\* FinalizeMarkedEdges returns as many rows as were marked.
LEMMA KeptLength ==
    ASSUME NEW nfa, NEW marked \in Seq(SUBSET EdgeNames(nfa)),
           NEW kept, kept = FinalizeMarkedEdges(nfa, marked, FALSE)
    PROVE  Len(kept) = Len(marked)
<1>1. PICK longest \in BOOLEAN : longest = FALSE
    BY Zenon
<1>2. kept = FinalizeMarkedEdges(nfa, marked, longest)
    BY <1>1, Zenon
<1>3. PICK E : E = EdgeNames(nfa)
    OBVIOUS
<1>4. marked \in Seq(SUBSET E)
    BY <1>3
<1>5. IsKept(nfa, E, marked, longest, kept)
    BY <1>2, <1>4, FinalizeUnfolds, Zenon
<1> QED BY <1>5, Zenon DEF IsKept

\* AddRow keeps the match partition right: what it has reported are the matches of all rows
\* before row_offset_, and its tracker marks the runs over the rows since.
LEMMA AddRowStreams ==
    ASSUME NEW nfa, NEW labels, IsAutomaton(nfa, labels), NEW options \in Options,
           NEW rows \in Seq(SUBSET labels), NEW row \in SUBSET labels, NoVar \notin labels,
           NEW more, more = Append(rows, row), NEW n \in Nat, n = Len(rows),
           NEW part, NEW ms,
           Streaming(nfa, labels, options, Allowed(nfa, rows, FALSE), n, part, ms),
           NEW new, new = AddRow(nfa, options, part, row)
    PROVE  Streaming(nfa, labels, options, Allowed(nfa, more, FALSE), n + 1, new,
                     Joined(ms, new.new_matches))
<1>1. PICK U : U = Allowed(nfa, rows, FALSE)
    BY Zenon
<1>2. PICK V : V = Allowed(nfa, more, FALSE)
    BY Zenon
<1>3. AreEdges(nfa, U) /\ AreEdges(nfa, V)
    BY <1>1, <1>2, AllowedAreEdges, Zenon
<1>4. /\ Agree(U, V, n) /\ DOMAIN V = 1 .. n + 2
      /\ V[n + 1] = {e \in EdgesFrom(nfa, DOMAIN nfa.edges) :
                        /\ EdgeAt(nfa, e).head => n = 0
                        /\ ~EdgeAt(nfa, e).tail
                        /\ EdgeAt(nfa, e).var \in {NoVar} \cup row}
    <2>1. RowAdded(nfa, row, Len(rows), U, V)
        BY <1>1, <1>2, AllowedAddRow, Zenon
    <2> QED BY <2>1 DEF RowAdded
<1>5. /\ part \in Partition(nfa, labels) /\ ms \in Seq(Match(labels))
      /\ part.ok /\ ~part.finalized /\ part.next_match_id = Len(ms) + 1
      /\ part.at_partition_start <=> n = 0
      /\ part.row_offset + Len(part.tracker.marked) = n
      /\ Tracks(nfa, part.tracker, U, part.row_offset, Len(part.tracker.marked))
      /\ NoCrossing(nfa, U, part.row_offset)
      /\ Reported(nfa, options, U, ms, part.row_offset)
    BY <1>1, Zenon DEF Streaming
<1>6. PICK tracker : tracker = part.tracker
    OBVIOUS
<1>7. PICK offset \in Nat : offset = part.row_offset
    BY <1>5, SMTT(30) DEF Partition
<1>8. PICK m \in Nat : m = Len(tracker.marked) /\ offset + m = n
    BY <1>5, <1>6, <1>7, SMTT(30) DEF Tracks, Tracker
<1>9. Agree(U, V, offset) /\ offset <= n
    BY <1>4, <1>8, SMTT(30) DEF Agree
<1>10. NoCrossing(nfa, V, offset) /\ Reported(nfa, options, V, ms, offset)
    BY <1>3, <1>5, <1>7, <1>9, NoCrossingAgrees, ReportedAgrees, SMTT(30)
<1>11. Tracks(nfa, tracker, V, offset, m + 1)
    <2>1. Tracks(nfa, tracker, U, offset, Len(tracker.marked))
        BY <1>5, <1>6, <1>7, SMTT(30)
    <2>2. PICK starts \in Nat : starts = m + 1
        OBVIOUS
    <2>3. Len(tracker.marked) <= starts /\ offset + Len(tracker.marked) <= n
        BY <1>8, <2>2, SMTT(30)
    <2>4. Tracks(nfa, tracker, V, offset, starts)
        BY <1>4, <2>1, <2>3, TracksAgrees, SMTT(30)
    <2> QED BY <2>2, <2>4, SMTT(30)
<1>12. PICK allowed : allowed = V[n + 1]
    OBVIOUS
<1>13. PICK s : s = ProcessRow(nfa, tracker, allowed, FALSE, FALSE)
    BY Zenon
<1>14. PICK marked : Processed(nfa, tracker, V, offset, m + 1, FALSE, marked, s)
    <2>1. PICK starts \in Nat : starts = m + 1
        OBVIOUS
    <2>2. PICK no \in BOOLEAN : no = FALSE
        BY Zenon
    <2>3. /\ Tracks(nfa, tracker, V, offset, starts)
          /\ (~no /\ ~(no /\ tracker.marked # <<>>)) <=> Len(tracker.marked) + 1 <= starts
          /\ allowed = V[offset + (Len(tracker.marked) + 1)]
          /\ s = ProcessRow(nfa, tracker, allowed, no, no)
        <3>1. offset + (m + 1) = n + 1 /\ Len(tracker.marked) + 1 <= starts
            BY <1>8, <2>1
        <3>2. offset + (Len(tracker.marked) + 1) = n + 1
            BY <1>8, <3>1
        <3>3. allowed = V[offset + (Len(tracker.marked) + 1)]
            BY <1>12, <3>2
        <3>4. Tracks(nfa, tracker, V, offset, starts)
            BY <1>11, <2>1, SMTT(30)
        <3> QED BY <1>13, <2>2, <3>1, <3>3, <3>4, Zenon
    <2>4. \E marked : Processed(nfa, tracker, V, offset, starts, no, marked, s)
        BY <2>3, ProcessRowTracks
    <2> QED BY <2>1, <2>2, <2>4, Zenon
<1>15. /\ marked \in Seq(SUBSET EdgeNames(nfa)) /\ Len(marked) = m + 1 /\ marked # <<>>
       /\ Marks(nfa, marked, V, offset, m + 1)
    <2>1. /\ marked \in Seq(SUBSET EdgeNames(nfa)) /\ Len(marked) = m + 1
          /\ Marks(nfa, marked, V, offset, m + 1)
        BY <1>8, <1>14 DEF Processed
    <2> QED BY <2>1, SMTT(30)
<1>16. PICK added : added = [part EXCEPT !.tracker = s.tracker, !.at_partition_start = FALSE,
                                         !.new_matches = <<>>]
    OBVIOUS
<1>17. new = IF s.list = <<>> THEN added ELSE ExtractMatches(nfa, options, added, s.list, FALSE)
    <2>1. allowed = {e \in EdgesFrom(nfa, DOMAIN nfa.edges) :
                        /\ EdgeAt(nfa, e).head => part.at_partition_start
                        /\ ~EdgeAt(nfa, e).tail
                        /\ EdgeAt(nfa, e).var \in {NoVar} \cup row}
        <3>1. part.at_partition_start <=> n = 0
            BY <1>5, Zenon
        <3>2. allowed = {e \in EdgesFrom(nfa, DOMAIN nfa.edges) :
                            /\ EdgeAt(nfa, e).head => n = 0
                            /\ ~EdgeAt(nfa, e).tail
                            /\ EdgeAt(nfa, e).var \in {NoVar} \cup row}
            BY <1>4, <1>12, Zenon
        <3> QED BY <3>1, <3>2, Zenon
    <2> QED BY <1>6, <1>13, <1>16, <2>1, SMTT(30) DEF AddRow
<1>18. s.tracker \in Tracker(nfa)
    <2>1. s.tracker = NewTracker \/ Tracks(nfa, s.tracker, V, offset, m + 1)
        BY <1>14, Zenon DEF Processed
    <2> QED BY <2>1, NewTrackerType DEF Tracks
<1>19. /\ added \in Partition(nfa, labels) /\ added.ok /\ ~added.finalized
       /\ added.next_match_id = Len(ms) + 1 /\ ~added.at_partition_start
       /\ added.row_offset = offset /\ added.tracker = s.tracker /\ added.new_matches = <<>>
    <2>1. added \in Partition(nfa, labels)
        <3>1. part \in Partition(nfa, labels) /\ <<>> \in Seq(Match(labels))
            BY <1>5
        <3> QED BY <1>16, <1>18, <3>1, Zenon DEF Partition
    <2>2. /\ added.next_match_id = part.next_match_id /\ added.row_offset = part.row_offset
          /\ added.tracker = s.tracker /\ added.new_matches = <<>>
          /\ added.ok = part.ok /\ added.finalized = part.finalized /\ added.at_partition_start = FALSE
        BY <1>5, <1>16, Zenon DEF Partition
    <2> QED BY <1>5, <1>7, <2>1, <2>2, SMTT(30)
<1>20. CASE CanContinueMatch(nfa, marked[Len(marked)])
    <2>1. s.list = <<>> /\ s.tracker.marked = marked /\ Tracks(nfa, s.tracker, V, offset, m + 1)
        BY <1>14, <1>20, SMTT(30) DEF Processed
    <2>2. new = added
        BY <1>17, <2>1, SMTT(30)
    <2>3. Joined(ms, new.new_matches) = ms
        BY <1>5, <1>19, <2>2 DEF Joined
    <2>4. offset + (m + 1) = n + 1 /\ n + 1 # 0
        BY <1>8, SMTT(30)
    <2> QED BY <1>2, <1>5, <1>10, <1>15, <1>19, <2>1, <2>2, <2>3, <2>4, Zenon DEF Streaming
<1>21. CASE ~CanContinueMatch(nfa, marked[Len(marked)])
    <2>1. s.list = FinalizeMarkedEdges(nfa, marked, FALSE) /\ s.tracker = NewTracker
        BY <1>14, <1>21, Zenon DEF Processed
    <2>2. PICK list : list = s.list
        OBVIOUS
    <2>3. Segment(nfa, V, offset, m + 1, list) /\ Len(list) = m + 1
        <3>1. PICK starts \in Nat : starts = m + 1
            OBVIOUS
        <3>2. Known(V, offset, Len(marked))
            <4>1. Len(marked) = m + 1 /\ offset + m = n
                BY <1>8, <1>15
            <4>2. \A j \in 1 .. m + 1 : offset + j \in 1 .. n + 2
                BY <4>1
            <4> QED BY <1>4, <4>1, <4>2, SMTT(30) DEF Known
        <3>3. Marks(nfa, marked, V, offset, starts) /\ starts <= Len(marked)
            BY <1>15, <3>1
        <3>4. list = FinalizeMarkedEdges(nfa, marked, FALSE)
            BY <2>1, <2>2
        <3>5. Segment(nfa, V, offset, starts, list) /\ Len(list) = Len(marked)
            <4>1. AreEdges(nfa, V) /\ marked \in Seq(SUBSET EdgeNames(nfa)) /\ marked # <<>>
                BY <1>3, <1>15
            <4>2. Segment(nfa, V, offset, starts, list)
                BY <1>21, <3>2, <3>3, <3>4, <4>1, KeptSegment, Zenon
            <4>3. Len(list) = Len(marked)
                BY <3>4, <4>1, KeptLength, Zenon
            <4> QED BY <4>2, <4>3
        <3> QED BY <1>15, <3>1, <3>5, SMTT(30)
    <2>4. list # <<>>
        BY <2>3, SMTT(30)
    <2>5. new = ExtractMatches(nfa, options, added, list, FALSE)
        BY <1>17, <2>2, <2>4, SMTT(30)
    <2>6. Extraction(nfa, labels, options, V, ms, added, m + 1, m + 1, new)
        <3>1. PICK last \in Nat : last = m + 1
            OBVIOUS
        <3>2. PICK no \in BOOLEAN : no = FALSE
            BY Zenon
        <3>3. /\ last = IF no THEN Len(list) - 1 ELSE Len(list)
              /\ Segment(nfa, V, added.row_offset, last, list)
              /\ Reported(nfa, options, V, ms, added.row_offset)
              /\ new = ExtractMatches(nfa, options, added, list, no)
            BY <1>10, <1>19, <2>3, <2>5, <3>1, <3>2, Zenon
        <3>4. Extraction(nfa, labels, options, V, ms, added, last, Len(list), new)
            BY <1>5, <1>19, <3>3, ExtractMatchesReports, Zenon
        <3> QED BY <2>3, <3>1, <3>4, SMTT(30)
    <2>7. NoCrossing(nfa, V, n + 1)
        <3>1. Marks(nfa, marked, V, offset, Len(marked))
            BY <1>15
        <3>2. NoCrossing(nfa, V, offset + Len(marked))
            BY <1>3, <1>10, <1>15, <1>21, <3>1, SegmentNoCrossing, Zenon
        <3>3. offset + Len(marked) = n + 1
            <4>1. offset + m = n /\ Len(marked) = m + 1
                BY <1>8, <1>15, SMTT(30)
            <4> QED BY <4>1
        <3> QED BY <3>2, <3>3, SMTT(30)
    <2>8. PICK all \in Seq(Match(labels)) : all = Joined(ms, new.new_matches)
        BY <2>6, SMTT(30) DEF Extraction
    <2>9. /\ new \in Partition(nfa, labels) /\ new.ok /\ ~new.finalized
          /\ new.next_match_id = Len(all) + 1 /\ ~new.at_partition_start
          /\ new.row_offset = n + 1 /\ new.tracker = NewTracker
          /\ Reported(nfa, options, V, all, n + 1)
        <3>1. offset + (m + 1) = n + 1
            BY <1>8, SMTT(30)
        <3> QED BY <1>19, <2>1, <2>6, <2>8, <3>1, Zenon DEF Extraction
    <2>10. new.tracker.marked = <<>> /\ Len(<<>>) = 0 /\ (n + 1) + 0 = n + 1 /\ n + 1 # 0
        <3>1. new.tracker.marked = <<>>
            BY <2>9 DEF NewTracker
        <3>2. Len(<<>>) = 0 /\ (n + 1) + 0 = n + 1 /\ n + 1 # 0
            OBVIOUS
        <3> QED BY <3>1, <3>2, SMTT(30)
    <2>11. Tracks(nfa, new.tracker, V, n + 1, 0)
        BY <2>9, NewTrackerTracks
    <2> QED BY <1>2, <2>7, <2>8, <2>9, <2>10, <2>11, Zenon DEF Streaming
<1> QED BY <1>20, <1>21, Zenon

\* After Finalize every match of the partition has been reported, and none of its checks has
\* failed; an empty match at the end of the partition is not reported.
LEMMA FinalizeEnds ==
    ASSUME NEW nfa, NEW labels, IsAutomaton(nfa, labels), NEW options \in Options,
           NEW rows \in Seq(SUBSET labels), rows # <<>>, NEW n \in Nat, n = Len(rows),
           NEW part, NEW ms,
           Streaming(nfa, labels, options, Allowed(nfa, rows, FALSE), n, part, ms),
           NEW new, new = Finalize(nfa, options, part)
    PROVE  Ended(nfa, labels, options, Allowed(nfa, rows, TRUE), n, new,
                 Joined(ms, new.new_matches))
<1>1. PICK U : U = Allowed(nfa, rows, FALSE)
    BY Zenon
<1>2. PICK V : V = Allowed(nfa, rows, TRUE)
    BY Zenon
<1>3. AreEdges(nfa, U) /\ AreEdges(nfa, V)
    BY <1>1, <1>2, AllowedAreEdges, Zenon
<1>4. /\ Agree(U, V, n) /\ DOMAIN V = 1 .. n + 1
      /\ V[n + 1] = {e \in EdgesFrom(nfa, DOMAIN nfa.edges) :
                        ~EdgeAt(nfa, e).head /\ EdgeAt(nfa, e).var = NoVar}
    <2>1. RowsEnded(nfa, Len(rows), U, V)
        BY <1>1, <1>2, AllowedFinalize, Zenon
    <2> QED BY <2>1 DEF RowsEnded
<1>5. /\ part \in Partition(nfa, labels) /\ ms \in Seq(Match(labels))
      /\ part.ok /\ ~part.finalized /\ part.next_match_id = Len(ms) + 1
      /\ part.row_offset + Len(part.tracker.marked) = n
      /\ Tracks(nfa, part.tracker, U, part.row_offset, Len(part.tracker.marked))
      /\ NoCrossing(nfa, U, part.row_offset)
      /\ Reported(nfa, options, U, ms, part.row_offset)
    BY <1>1, Zenon DEF Streaming
<1>6. PICK tracker : tracker = part.tracker
    OBVIOUS
<1>7. PICK offset \in Nat : offset = part.row_offset
    BY <1>5, SMTT(30) DEF Partition
<1>8. PICK m \in Nat : m = Len(tracker.marked) /\ offset + m = n
    BY <1>5, <1>6, <1>7, SMTT(30) DEF Tracks, Tracker
<1>9. Agree(U, V, offset) /\ offset <= n
    BY <1>4, <1>8, SMTT(30) DEF Agree
<1>10. Reported(nfa, options, V, ms, offset)
    BY <1>3, <1>5, <1>7, <1>9, ReportedAgrees, SMTT(30)
<1>11. Tracks(nfa, tracker, V, offset, m)
    <2>1. Tracks(nfa, tracker, U, offset, Len(tracker.marked))
        BY <1>5, <1>6, <1>7, SMTT(30)
    <2>2. Len(tracker.marked) <= m /\ offset + Len(tracker.marked) <= n
        BY <1>8
    <2> QED BY <1>4, <2>1, <2>2, TracksAgrees, Zenon
<1>12. PICK allowed : allowed = V[n + 1]
    OBVIOUS
<1>13. PICK s : s = ProcessRow(nfa, tracker, allowed, TRUE, FALSE)
    BY Zenon
<1>14. PICK marked : Processed(nfa, tracker, V, offset, m, FALSE, marked, s)
    <2>1. PICK no \in BOOLEAN : no = FALSE
        BY Zenon
    <2>2. PICK yes \in BOOLEAN : yes = TRUE
        BY Zenon
    <2>3. /\ (~yes /\ ~(no /\ tracker.marked # <<>>)) <=> Len(tracker.marked) + 1 <= m
          /\ allowed = V[offset + (Len(tracker.marked) + 1)]
          /\ s = ProcessRow(nfa, tracker, allowed, yes, no)
        <3>1. offset + (m + 1) = n + 1 /\ ~(Len(tracker.marked) + 1 <= m)
            BY <1>8
        <3>2. offset + (Len(tracker.marked) + 1) = n + 1
            BY <1>8, <3>1
        <3>3. allowed = V[offset + (Len(tracker.marked) + 1)]
            BY <1>12, <3>2, SMTT(30)
        <3> QED BY <1>13, <2>1, <2>2, <3>1, <3>3, Zenon
    <2>4. \E marked : Processed(nfa, tracker, V, offset, m, no, marked, s)
        BY <1>11, <2>3, ProcessRowTracks, SMTT(30)
    <2> QED BY <2>1, <2>4, Zenon
<1>15. /\ marked \in Seq(SUBSET EdgeNames(nfa)) /\ Len(marked) = m + 1 /\ marked # <<>>
       /\ Marks(nfa, marked, V, offset, m)
    <2>1. /\ marked \in Seq(SUBSET EdgeNames(nfa)) /\ Len(marked) = m + 1
          /\ Marks(nfa, marked, V, offset, m)
        BY <1>8, <1>14, Zenon DEF Processed
    <2> QED BY <2>1, SMTT(30)
<1>16. PICK ended : ended = [part EXCEPT !.tracker = s.tracker, !.finalized = TRUE,
                                         !.new_matches = <<>>]
    OBVIOUS
<1>17. new = IF s.list = <<>> THEN [ended EXCEPT !.ok = FALSE]
             ELSE ExtractMatches(nfa, options, ended, s.list, TRUE)
    BY <1>4, <1>6, <1>12, <1>13, <1>16, SMTT(30) DEF Finalize
<1>18. ~CanContinueMatch(nfa, marked[Len(marked)])
    <2>1. marked[m + 1] \subseteq V[n + 1]
        <3>1. m + 1 \in 1 .. Len(marked) /\ offset + (m + 1) = n + 1
            BY <1>8, <1>15
        <3>2. marked[m + 1] \subseteq V[offset + (m + 1)]
            BY <1>15, <3>1, Zenon DEF Marks
        <3> QED BY <3>1, <3>2, Zenon
    <2>2. \A e \in EdgeNames(nfa) : EdgeAt(nfa, e).var = NoVar => EdgeAt(nfa, e).to = nfa.final
        BY AutomatonFacts, SMTT(30)
    <2>3. \A e \in V[n + 1] : EdgeAt(nfa, e).to = nfa.final
        BY <1>4, <2>2 DEF EdgeNames
    <2> QED BY <1>15, <2>1, <2>3, Zenon DEF CanContinueMatch
<1>19. s.list = FinalizeMarkedEdges(nfa, marked, FALSE) /\ s.tracker = NewTracker
    BY <1>14, <1>18, Zenon DEF Processed
<1>20. /\ ended \in Partition(nfa, labels) /\ ended.ok /\ ended.finalized
       /\ ended.next_match_id = Len(ms) + 1
       /\ ended.row_offset = offset /\ ended.tracker = s.tracker
    <2>1. ended \in Partition(nfa, labels)
        <3>1. part \in Partition(nfa, labels) /\ <<>> \in Seq(Match(labels)) /\ s.tracker \in Tracker(nfa)
            BY <1>5, <1>19, NewTrackerType
        <3> QED BY <1>16, <3>1, Zenon DEF Partition
    <2>2. /\ ended.next_match_id = part.next_match_id /\ ended.row_offset = part.row_offset
          /\ ended.tracker = s.tracker
          /\ ended.ok = part.ok /\ ended.finalized = TRUE
        BY <1>5, <1>16, Zenon DEF Partition
    <2> QED BY <1>5, <1>7, <2>1, <2>2
<1>21. PICK list : list = s.list
    OBVIOUS
<1>22. Segment(nfa, V, offset, m, list) /\ Len(list) = m + 1
    <2>1. Known(V, offset, Len(marked))
        <3>1. Len(marked) = m + 1 /\ offset + m = n
            BY <1>8, <1>15
        <3>2. \A j \in 1 .. m + 1 : offset + j \in 1 .. n + 1
            BY <3>1
        <3> QED BY <1>4, <3>1, <3>2, Zenon DEF Known
    <2>2. m <= Len(marked)
        BY <1>15
    <2>3. list = FinalizeMarkedEdges(nfa, marked, FALSE)
        BY <1>19, <1>21
    <2>4. AreEdges(nfa, V) /\ marked \in Seq(SUBSET EdgeNames(nfa)) /\ marked # <<>>
          /\ Marks(nfa, marked, V, offset, m)
        BY <1>3, <1>15
    <2>5. Segment(nfa, V, offset, m, list)
        BY <1>18, <2>1, <2>2, <2>3, <2>4, KeptSegment, Zenon
    <2>6. Len(list) = Len(marked)
        BY <2>3, <2>4, KeptLength, Zenon
    <2> QED BY <1>15, <2>5, <2>6
<1>23. new = ExtractMatches(nfa, options, ended, list, TRUE)
    <2>1. list # <<>>
        BY <1>22
    <2> QED BY <1>17, <1>21, <2>1, SMTT(30)
<1>24. Extraction(nfa, labels, options, V, ms, ended, m, m + 1, new)
    <2>1. PICK yes \in BOOLEAN : yes = TRUE
        BY Zenon
    <2>2. /\ m = IF yes THEN Len(list) - 1 ELSE Len(list)
          /\ Segment(nfa, V, ended.row_offset, m, list)
          /\ Reported(nfa, options, V, ms, ended.row_offset)
          /\ new = ExtractMatches(nfa, options, ended, list, yes)
        <3>1. m = Len(list) - 1
            BY <1>22, SMTT(30)
        <3>2. /\ Segment(nfa, V, ended.row_offset, m, list)
              /\ Reported(nfa, options, V, ms, ended.row_offset)
            BY <1>10, <1>20, <1>22, SMTT(30)
        <3> QED BY <1>23, <2>1, <3>1, <3>2, SMTT(30)
    <2>3. Extraction(nfa, labels, options, V, ms, ended, m, Len(list), new)
        BY <1>5, <1>20, <2>2, ExtractMatchesReports, Zenon
    <2> QED BY <1>22, <2>3
<1>25. PICK all \in Seq(Match(labels)) : all = Joined(ms, new.new_matches)
    BY <1>24, Zenon DEF Extraction
<1>26. /\ new \in Partition(nfa, labels) /\ new.ok /\ new.finalized
       /\ new.row_offset = n + 1 /\ new.tracker = NewTracker
       /\ Reported(nfa, options, V, all, n)
    <2>1. offset + (m + 1) = n + 1
        BY <1>8
    <2> QED BY <1>8, <1>19, <1>20, <1>24, <1>25, <2>1, Zenon DEF Extraction
<1> QED BY <1>2, <1>25, <1>26, Zenon DEF Ended

\* The paths of one edge.
Beginning(nfa, X) == {<<e>> : e \in EdgesFrom(nfa, {nfa.start}) \cap X}

\* The paths with one more edge.
Prolonged(nfa, X, paths) ==
    UNION {{Append(p, e) : e \in EdgesFrom(nfa, {EdgeAt(nfa, p[Len(p)]).to}) \cap X} : p \in paths}

\* Prolonged paths are sequences of edges.
LEMMA ProlongedType ==
    ASSUME NEW nfa, NEW E, NEW X \in SUBSET E
    PROVE  /\ Beginning(nfa, X) \in SUBSET Seq(E)
           /\ \A paths \in SUBSET Seq(E) : Prolonged(nfa, X, paths) \in SUBSET Seq(E)
<1>1. Beginning(nfa, X) \in SUBSET Seq(E)
    <2> SUFFICES ASSUME NEW q \in Beginning(nfa, X) PROVE q \in Seq(E)
        OBVIOUS
    <2>1. PICK e \in X : q = <<e>>
        BY DEF Beginning
    <2> QED BY <2>1
<1>2. ASSUME NEW paths \in SUBSET Seq(E), NEW q \in Prolonged(nfa, X, paths) PROVE q \in Seq(E)
    <2>1. PICK p \in paths : q \in {Append(p, e) : e \in EdgesFrom(nfa, {EdgeAt(nfa, p[Len(p)]).to}) \cap X}
        BY Zenon DEF Prolonged
    <2>2. PICK e \in X : q = Append(p, e)
        BY <2>1
    <2> QED BY <2>2
<1> QED BY <1>1, <1>2

\* g gives the paths from row r by their length.
PathsGrow(nfa, rows, ended, r, g) ==
    /\ DOMAIN g = 1 .. Len(rows) - r + 1
    /\ \A n \in 1 .. Len(rows) - r + 1 :
          g[n] = IF n = 1 THEN Beginning(nfa, Usable(nfa, rows, ended, r + n - 1))
                 ELSE Prolonged(nfa, Usable(nfa, rows, ended, r + n - 1), g[n - 1])

\* The recursive definition of the reference's paths has its solution.
LEMMA PathsUnfolds ==
    ASSUME NEW nfa, NEW T, NEW rows \in Seq(T), NEW ended, NEW r \in 0 .. Len(rows),
           NEW paths, paths = Paths(nfa, rows, ended, r)
    PROVE  PathsGrow(nfa, rows, ended, r, paths)
<1> DEFINE N == Len(rows) - r + 1
           X(n) == Usable(nfa, rows, ended, r + n - 1)
           S == SUBSET Seq(EdgeNames(nfa))
           F == [q \in Int \X S |-> Prolonged(nfa, X(q[1]), q[2])]
           x == Beginning(nfa, X(1))
           P(g) == g = [n \in 1 .. N |->
                        IF n = 1 THEN {<<e>> : e \in EdgesFrom(nfa, {nfa.start}) \cap X(n)}
                        ELSE UNION {{Append(p, e) : e \in EdgesFrom(nfa, {EdgeAt(nfa, p[Len(p)]).to}) \cap X(n)} :
                                       p \in g[n - 1]}]
<1>1. N \in Nat \ {0}
    BY SMTT(30)
<1>2. \A n : X(n) \in SUBSET EdgeNames(nfa)
    BY DEF Usable, EdgeNames
<1>3. F \in [Int \X S -> S] /\ x \in S
    <2>1. x \in S
        <3> HIDE DEF X
        <3> QED BY <1>2, ProlongedType, SMTT(30)
    <2>2. ASSUME NEW q \in Int \X S PROVE Prolonged(nfa, X(q[1]), q[2]) \in S
        <3>1. PICK E : E = EdgeNames(nfa)
            OBVIOUS
        <3>2. PICK Y \in SUBSET E : Y = X(q[1])
            BY <1>2, <3>1, SMTT(30)
        <3>3. q[2] \in SUBSET Seq(E)
            BY <3>1
        <3>4. Prolonged(nfa, Y, q[2]) \in SUBSET Seq(E)
            BY <3>3, ProlongedType, Zenon
        <3> QED BY <3>1, <3>2, <3>4, SMTT(30)
    <2> HIDE DEF X, S, x
    <2> QED BY <2>1, <2>2
<1>4. PICK g \in [1 .. N -> S] : Upwards(g, 1, N, x, F)
    <2> HIDE DEF F, x, N, S
    <2>1. 1 \in Int /\ N \in Int
        BY <1>1
    <2> QED BY <1>3, <2>1, RecursionUp, Zenon
<1>5. ASSUME NEW n \in 1 .. N
      PROVE  g[n] = IF n = 1 THEN Beginning(nfa, X(n)) ELSE Prolonged(nfa, X(n), g[n - 1])
    <2>1. CASE n = 1
        BY <1>4, <2>1, Zenon DEF Upwards
    <2>2. CASE n # 1
        <3>1. g[n] = F[<<n, g[n - 1]>>]
            BY <1>4, <2>2, Zenon DEF Upwards
        <3>2. n - 1 \in 1 .. N
            BY <1>1, <2>2
        <3>3. <<n, g[n - 1]>> \in Int \X S
            <4> HIDE DEF S
            <4> QED BY <1>4, <3>2
        <3> HIDE DEF S, X
        <3> QED BY <2>2, <3>1, <3>3
    <2> QED BY <2>1, <2>2
<1>6. P(g)
    <2> HIDE DEF X
    <2>1. g = [n \in 1 .. N |-> g[n]]
        BY <1>4
    <2> QED BY <1>5, <2>1, Zenon DEF Beginning, Prolonged
<1>7. P(CHOOSE f : P(f))
    <2> HIDE DEF P
    <2> QED BY <1>6
<1>8. paths = CHOOSE f : P(f)
    BY DEF Paths
<1>9. P(paths)
    BY <1>7, <1>8, Zenon
<1>10. DOMAIN paths = 1 .. N
    BY <1>9
<1>11. \A n \in 1 .. N : paths[n] = IF n = 1 THEN Beginning(nfa, X(n))
                                    ELSE Prolonged(nfa, X(n), paths[n - 1])
    <2> HIDE DEF X
    <2> QED BY <1>9, Zenon DEF Beginning, Prolonged
<1> QED BY <1>10, <1>11 DEF PathsGrow

\* The paths of n edges, taken from row j on.
OfLength(nfa, U, j, n) == {p \in Seq(EdgeNames(nfa)) : Len(p) = n /\ Follows(nfa, U, j, p, n)}

\* The paths of one edge are those of length one.
LEMMA BeginningIs ==
    ASSUME NEW nfa, NEW U, AreEdges(nfa, U), NEW j \in Nat, j \in DOMAIN U
    PROVE  Beginning(nfa, U[j]) = OfLength(nfa, U, j, 1)
<1>1. U[j] \in SUBSET EdgeNames(nfa) /\ j + 1 - 1 = j
    BY DEF AreEdges
<1>2. ASSUME NEW p \in Beginning(nfa, U[j]) PROVE p \in OfLength(nfa, U, j, 1)
    <2>1. PICK e \in EdgesFrom(nfa, {nfa.start}) \cap U[j] : p = <<e>>
        BY DEF Beginning
    <2>2. e \in EdgeNames(nfa) /\ e[1] = nfa.start
        BY <1>1, <2>1, StateOfEdge, SMTT(30)
    <2>3. p \in Seq(EdgeNames(nfa)) /\ Len(p) = 1 /\ p[1] = e
        BY <2>1, <2>2, SMTT(30)
    <2> QED BY <1>1, <2>1, <2>2, <2>3, SMTT(30) DEF OfLength, Follows, StateAt
<1>3. ASSUME NEW p \in OfLength(nfa, U, j, 1) PROVE p \in Beginning(nfa, U[j])
    <2>1. p \in Seq(EdgeNames(nfa)) /\ Len(p) = 1 /\ Follows(nfa, U, j, p, 1)
        BY DEF OfLength
    <2>2. PICK e \in EdgeNames(nfa) : e = p[1] /\ p = <<e>>
        BY <2>1
    <2>3. e[1] = nfa.start /\ e \in U[j]
        BY <1>1, <2>1, <2>2, SMTT(30) DEF Follows, StateAt
    <2>4. e \in EdgesFrom(nfa, {nfa.start})
        BY <2>3, EdgesFromState
    <2> QED BY <2>2, <2>3, <2>4 DEF Beginning
<1> QED BY <1>2, <1>3, SMTT(30)

\* The paths of n edges with one more are those of n + 1 edges.
LEMMA ProlongedIs ==
    ASSUME NEW nfa, NEW U, AreEdges(nfa, U), NEW j \in Nat, NEW n \in Nat \ {0}, j + n \in DOMAIN U
    PROVE  Prolonged(nfa, U[j + n], OfLength(nfa, U, j, n)) = OfLength(nfa, U, j, n + 1)
<1>1. U[j + n] \in SUBSET EdgeNames(nfa) /\ j + (n + 1) - 1 = j + n /\ n + 1 # 1 /\ (n + 1) - 1 = n
    BY SMTT(30) DEF AreEdges
<1>2. ASSUME NEW q \in Prolonged(nfa, U[j + n], OfLength(nfa, U, j, n))
      PROVE  q \in OfLength(nfa, U, j, n + 1)
    <2>1. PICK p \in OfLength(nfa, U, j, n) :
             q \in {Append(p, e) : e \in EdgesFrom(nfa, {EdgeAt(nfa, p[Len(p)]).to}) \cap U[j + n]}
        BY Zenon DEF Prolonged
    <2>2. PICK e \in EdgesFrom(nfa, {EdgeAt(nfa, p[Len(p)]).to}) \cap U[j + n] : q = Append(p, e)
        BY <2>1, Zenon
    <2>3. p \in Seq(EdgeNames(nfa)) /\ Len(p) = n /\ Follows(nfa, U, j, p, n)
        BY SMTT(30) DEF OfLength
    <2>4. e \in EdgeNames(nfa) /\ e \in U[j + n] /\ e[1] = To(nfa, p[n])
        BY <1>1, <2>2, <2>3, StateOfEdge, SMTT(30) DEF To
    <2>5. /\ q \in Seq(EdgeNames(nfa)) /\ Len(q) = n + 1 /\ q[n + 1] = e
          /\ \A i \in 1 .. n : q[i] = p[i]
        BY <2>2, <2>3, <2>4, SMTT(30)
    <2>6. ASSUME NEW i \in 1 .. n + 1
          PROVE  q[i][1] = StateAt(nfa, q, i) /\ j + i - 1 \in DOMAIN U /\ q[i] \in U[j + i - 1]
        <3>1. CASE i = n + 1
            <4>1. StateAt(nfa, q, n + 1) = To(nfa, p[n])
                BY <1>1, <2>5, SMTT(30) DEF StateAt
            <4> QED BY <1>1, <2>4, <2>5, <3>1, <4>1, SMTT(30)
        <3>2. CASE i # n + 1
            <4>1. i \in 1 .. n /\ (i # 1 => i - 1 \in 1 .. n)
                BY <3>2, SMTT(30)
            <4>2. StateAt(nfa, q, i) = StateAt(nfa, p, i)
                BY <2>5, <4>1, SMTT(30) DEF StateAt
            <4> QED BY <2>3, <2>5, <4>1, <4>2, SMTT(30) DEF Follows
        <3> QED BY <3>1, <3>2, SMTT(30)
    <2> QED BY <2>5, <2>6 DEF OfLength, Follows
<1>3. ASSUME NEW q \in OfLength(nfa, U, j, n + 1)
      PROVE  q \in Prolonged(nfa, U[j + n], OfLength(nfa, U, j, n))
    <2>1. q \in Seq(EdgeNames(nfa)) /\ Len(q) = n + 1 /\ Follows(nfa, U, j, q, n + 1)
        BY DEF OfLength
    <2>2. PICK p : p = [i \in 1 .. n |-> q[i]]
        BY Zenon
    <2>3. PICK e \in EdgeNames(nfa) : e = q[n + 1]
        BY <2>1
    <2>4. /\ p \in Seq(EdgeNames(nfa)) /\ Len(p) = n /\ q = Append(p, e)
          /\ \A i \in 1 .. n : q[i] = p[i]
        BY <2>1, <2>2, <2>3, SMTT(30)
    <2>5. ASSUME NEW i \in 1 .. n
          PROVE  p[i][1] = StateAt(nfa, p, i) /\ j + i - 1 \in DOMAIN U /\ p[i] \in U[j + i - 1]
        <3>1. i \in 1 .. n + 1 /\ (i # 1 => i - 1 \in 1 .. n)
            OBVIOUS
        <3>2. StateAt(nfa, q, i) = StateAt(nfa, p, i)
            BY <2>4, <3>1, SMTT(30) DEF StateAt
        <3> QED BY <2>1, <2>4, <3>1, <3>2, SMTT(30) DEF Follows
    <2>6. p \in OfLength(nfa, U, j, n)
        BY <2>4, <2>5, SMTT(30) DEF OfLength, Follows
    <2>7. e[1] = To(nfa, p[n]) /\ e \in U[j + n]
        <3>1. n + 1 \in 1 .. n + 1 /\ n \in 1 .. n
            BY SMTT(30)
        <3> QED BY <1>1, <2>1, <2>3, <2>4, <3>1, SMTT(30) DEF Follows, StateAt
    <2>8. e \in EdgesFrom(nfa, {EdgeAt(nfa, p[Len(p)]).to})
        <3>1. PICK states : states = {EdgeAt(nfa, p[Len(p)]).to}
            BY Zenon
        <3>2. e[1] \in states
            BY <2>4, <2>7, <3>1, SMTT(30) DEF To
        <3> QED BY <3>1, <3>2, EdgesFromState
    <2>9. q \in {Append(p, f) : f \in EdgesFrom(nfa, {EdgeAt(nfa, p[Len(p)]).to}) \cap U[j + n]}
        BY <2>4, <2>7, <2>8, SMTT(30)
    <2> QED BY <2>6, <2>9, Zenon DEF Prolonged
<1> QED BY <1>2, <1>3, Zenon

\* The reference's runs from a row are the accepting paths from that row.
LEMMA RunsAccept ==
    ASSUME NEW nfa, NEW T, NEW rows \in Seq(T), NEW ended, NEW r \in 0 .. Len(rows),
           NEW U, U = Allowed(nfa, rows, ended)
    PROVE  \A p : p \in Runs(nfa, rows, ended, r) <=> Accepts(nfa, U, r + 1, p)
<1>1. PICK paths : paths = Paths(nfa, rows, ended, r)
    OBVIOUS
<1>2. PICK N \in Nat \ {0} : N = Len(rows) - r + 1
    OBVIOUS
<1>3. /\ DOMAIN paths = 1 .. N
      /\ \A n \in 1 .. N : paths[n] = IF n = 1 THEN Beginning(nfa, Usable(nfa, rows, ended, r + n - 1))
                                      ELSE Prolonged(nfa, Usable(nfa, rows, ended, r + n - 1), paths[n - 1])
    <2>1. PathsGrow(nfa, rows, ended, r, paths)
        BY <1>1, PathsUnfolds
    <2> QED BY <1>2, <2>1 DEF PathsGrow
<1>4. AreEdges(nfa, U) /\ DOMAIN U = 1 .. r + N
    <2>1. DOMAIN U = 1 .. Len(rows) + 1 /\ Len(rows) \in Nat
        BY DEF Allowed
    <2> QED BY <1>2, <2>1, AllowedAreEdges, SMTT(30)
<1>5. ASSUME NEW n \in 1 .. N PROVE r + n \in DOMAIN U /\ U[r + n] = Usable(nfa, rows, ended, r + n - 1)
    <2>1. r + n \in 1 .. Len(rows) + 1
        BY <1>2
    <2> QED BY <2>1 DEF Allowed
<1>6. PICK j \in Nat : j = r + 1
    OBVIOUS
<1> DEFINE S == {n \in 1 .. N : paths[n] = OfLength(nfa, U, j, n)}
<1>7. 1 \in S
    <2>1. 1 \in 1 .. N /\ j \in DOMAIN U /\ paths[1] = Beginning(nfa, U[j])
        <3>1. 1 \in 1 .. N
            BY <1>2
        <3> QED BY <1>3, <1>5, <1>6, <3>1, SMTT(30)
    <2>2. Beginning(nfa, U[j]) = OfLength(nfa, U, j, 1)
        BY <1>4, <2>1, BeginningIs, SMTT(30)
    <2> QED BY <2>1, <2>2, SMTT(30)
<1>8. ASSUME NEW n \in 1 .. N - 1, n \in S PROVE n + 1 \in S
    <2>1. n + 1 \in 1 .. N /\ n + 1 # 1 /\ (n + 1) - 1 = n /\ j + n = r + (n + 1) /\ n \in Nat \ {0}
        BY <1>2, <1>6
    <2>2. j + n \in DOMAIN U /\ paths[n + 1] = Prolonged(nfa, U[j + n], paths[n])
        BY <1>3, <1>5, <2>1, Zenon
    <2>3. Prolonged(nfa, U[j + n], OfLength(nfa, U, j, n)) = OfLength(nfa, U, j, n + 1)
        BY <1>4, <2>1, <2>2, ProlongedIs, SMTT(30)
    <2> QED BY <1>8, <2>1, <2>2, <2>3, SMTT(30)
<1>9. 1 .. N \subseteq S
    <2> HIDE DEF S
    <2> QED BY <1>7, <1>8, InductionUp, SMTT(30)
<1>10. \A n \in 1 .. N : paths[n] = OfLength(nfa, U, j, n)
    BY <1>9, SMTT(30)
<1>11. ASSUME NEW p, p \in Runs(nfa, rows, ended, r) PROVE Accepts(nfa, U, j, p)
    <2>1. (\E n \in 1 .. N : p \in paths[n]) /\ EdgeAt(nfa, p[Len(p)]).to = nfa.final
        BY <1>1, <1>3, <1>11, SMTT(30) DEF Runs
    <2>2. PICK n \in 1 .. N : p \in OfLength(nfa, U, j, n)
        BY <1>10, <2>1
    <2>3. p \in Seq(EdgeNames(nfa)) /\ Len(p) = n /\ Follows(nfa, U, j, p, Len(p)) /\ p # <<>>
        BY <2>2, SMTT(30) DEF OfLength
    <2> QED BY <2>1, <2>3, SMTT(30) DEF Accepts, To
<1>12. ASSUME NEW p, Accepts(nfa, U, j, p) PROVE p \in Runs(nfa, rows, ended, r)
    <2>1. /\ p \in Seq(EdgeNames(nfa)) /\ p # <<>> /\ Follows(nfa, U, j, p, Len(p))
          /\ To(nfa, p[Len(p)]) = nfa.final
        BY <1>12 DEF Accepts
    <2>2. PICK n \in Nat \ {0} : n = Len(p)
        BY <2>1
    <2>3. n \in 1 .. n /\ j + n - 1 \in 1 .. r + N
        BY <1>4, <2>1, <2>2, SMTT(30) DEF Follows
    <2>4. n \in 1 .. N
        BY <1>6, <2>3, SMTT(30)
    <2>5. p \in paths[n]
        BY <1>10, <2>1, <2>2, <2>4, SMTT(30) DEF OfLength
    <2> QED BY <1>1, <1>3, <2>1, <2>4, <2>5, SMTT(30) DEF Runs, To
<1> QED BY <1>6, <1>11, <1>12

=============================================================================
