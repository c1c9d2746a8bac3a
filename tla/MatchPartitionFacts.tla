------------------------ MODULE MatchPartitionFacts -------------------------
(***************************************************************************)
(* What the operators of MatchPartition compute, for any automaton that     *)
(* NFA::Validate accepts and any rows: the solutions of the recursive       *)
(* definitions, the paths that the edge tracker marks and keeps, and that   *)
(* ComputeMatch returns the path that the options prefer to all others.     *)
(***************************************************************************)
EXTENDS MatchPartition, MatchRuns, FiniteSetTheorems, TLAPS

\* Induction on the natural numbers, said of sets: the loops of the matcher are counted by it.
LEMMA Induction ==
    ASSUME NEW T \in SUBSET Nat, 0 \in T, \A n \in T : n + 1 \in T
    PROVE  T = Nat
<1> SUFFICES ASSUME NEW n \in Nat, n \notin T PROVE FALSE
    BY Zenon
<1> DEFINE A == T \cap 0 .. n
           f == [k \in A |-> k + 1]
<1>1. 0 \in A
    OBVIOUS
<1>2. IsFiniteSet(A)
    <2>1. IsFiniteSet(0 .. n)
        BY FS_Interval
    <2> QED BY <2>1, FS_Subset
<1>3. /\ IsFiniteSet(A \ {0})
      /\ Cardinality(A \ {0}) = Cardinality(A) - 1
      /\ Cardinality(A) \in Nat
    BY <1>1, <1>2, FS_RemoveElement, FS_CardinalityType, Zenon
<1>4. f \in [A -> A \ {0}] /\ \A a, b \in A : f[a] = f[b] => a = b
    OBVIOUS
<1>5. f \in Injection(A, A \ {0})
    BY <1>4 DEF Injection, IsInjective
<1> HIDE DEF f, A
<1>6. Cardinality(A) <= Cardinality(A \ {0})
    BY <1>3, <1>5, FS_Injection
<1> QED BY <1>3, <1>6

\* Induction from a up to b: the loops that walk the rows of a list forwards.
LEMMA InductionUp ==
    ASSUME NEW a \in Int, NEW b \in Int, NEW T, a \in T,
           \A i \in a .. b - 1 : i \in T => i + 1 \in T
    PROVE  a .. b \subseteq T
<1> DEFINE U == {n \in Nat : a + n <= b => a + n \in T}
<1>1. 0 \in U
    OBVIOUS
<1>2. \A n \in U : n + 1 \in U
    <2> TAKE n \in U
    <2> SUFFICES ASSUME a + (n + 1) <= b PROVE a + (n + 1) \in T
        OBVIOUS
    <2>1. a + n \in T /\ a + n \in a .. b - 1
        OBVIOUS
    <2>2. (a + n) + 1 \in T
        BY <2>1
    <2> QED BY <2>2
<1>3. U = Nat
    <2> HIDE DEF U
    <2>1. U \in SUBSET Nat
        BY DEF U
    <2> QED BY <1>1, <1>2, <2>1, Induction
<1> SUFFICES ASSUME NEW i \in a .. b PROVE i \in T
    OBVIOUS
<1>4. i - a \in U
    <2> HIDE DEF U
    <2> QED BY <1>3
<1> QED BY <1>4

\* Induction from b down to a: FinalizeMarkedEdges walks the rows of a list backwards.
LEMMA InductionDown ==
    ASSUME NEW a \in Int, NEW b \in Int, NEW T, b \in T,
           \A i \in a + 1 .. b : i \in T => i - 1 \in T
    PROVE  a .. b \subseteq T
<1> DEFINE U == {n \in Nat : b - n >= a => b - n \in T}
<1>1. 0 \in U
    OBVIOUS
<1>2. \A n \in U : n + 1 \in U
    <2> TAKE n \in U
    <2> SUFFICES ASSUME b - (n + 1) >= a PROVE b - (n + 1) \in T
        OBVIOUS
    <2>1. b - n \in T /\ b - n \in a + 1 .. b
        OBVIOUS
    <2>2. (b - n) - 1 \in T
        BY <2>1
    <2> QED BY <2>2
<1>3. U = Nat
    <2> HIDE DEF U
    <2>1. U \in SUBSET Nat
        BY DEF U
    <2> QED BY <1>1, <1>2, <2>1, Induction
<1> SUFFICES ASSUME NEW i \in a .. b PROVE i \in T
    OBVIOUS
<1>4. b - i \in U
    <2> HIDE DEF U
    <2> QED BY <1>3
<1> QED BY <1>4

\* Min of a set of natural numbers is its least element (the highest precedence).
LEMMA Least ==
    ASSUME NEW S \in SUBSET Nat, S # {}
    PROVE  Min(S) \in S /\ \A k \in S : Min(S) <= k
<1> DEFINE T == {n \in Nat : \A k \in S : n < k}
<1>1. \E m \in S : \A k \in S : m <= k
    <2> SUFFICES ASSUME \A m \in S : \E k \in S : ~(m <= k) PROVE FALSE
        OBVIOUS
    <2>1. 0 \in T
        <3> SUFFICES ASSUME 0 \in S PROVE FALSE
            OBVIOUS
        <3> QED OBVIOUS
    <2>2. \A n \in T : n + 1 \in T
        <3> SUFFICES ASSUME NEW n \in T, n + 1 \in S PROVE FALSE
            OBVIOUS
        <3>1. PICK k \in S : ~(n + 1 <= k)
            OBVIOUS
        <3> QED BY <3>1
    <2>3. T = Nat
        <3> HIDE DEF T
        <3>1. T \in SUBSET Nat
            BY DEF T
        <3> QED BY <2>1, <2>2, <3>1, Induction
    <2>4. PICK k \in S : TRUE
        BY Zenon
    <2>5. k \in T
        BY <2>3
    <2> QED BY <2>5
<1> QED BY <1>1, Zenon DEF Min

\* g is the function a loop from a up to b computes, from x and with the body F.
Upwards(g, a, b, x, F) == \A r \in a .. b : g[r] = IF r = a THEN x ELSE F[<<r, g[r - 1]>>]

\* g is the function a loop from b down to a computes.
Downwards(g, a, b, x, F) == \A r \in a .. b : g[r] = IF r = b THEN x ELSE F[<<r, g[r + 1]>>]

\* A loop from a up to b computes a function: the recursive definitions of the forward
\* loops of NFAMatchPartition have a solution.
LEMMA RecursionUp ==
    ASSUME NEW a \in Int, NEW b \in Int, NEW S, NEW x \in S, NEW F \in [Int \X S -> S]
    PROVE  \E g \in [a .. b -> S] : Upwards(g, a, b, x, F)
<1> USE DEF Upwards
<1> DEFINE Good(g, n) == \A r \in a .. a + n : g[r] = IF r = a THEN x ELSE F[<<r, g[r - 1]>>]
           T == {n \in Nat : \E g \in [a .. a + n -> S] : Good(g, n)}
<1>1. 0 \in T
    <2> DEFINE g == [r \in a .. a + 0 |-> x]
    <2>1. g \in [a .. a + 0 -> S] /\ Good(g, 0)
        OBVIOUS
    <2> QED BY <2>1, Zenon
<1>2. \A n \in T : n + 1 \in T
    <2> TAKE n \in T
    <2>1. PICK g \in [a .. a + n -> S] : Good(g, n)
        OBVIOUS
    <2> DEFINE h == [r \in a .. a + (n + 1) |-> IF r <= a + n THEN g[r] ELSE F[<<r, g[a + n]>>]]
    <2>2. h \in [a .. a + (n + 1) -> S]
        <3>1. g[a + n] \in S
            OBVIOUS
        <3> QED BY <3>1
    <2>3. Good(h, n + 1)
        <3> SUFFICES ASSUME NEW r \in a .. a + (n + 1)
                     PROVE  h[r] = IF r = a THEN x ELSE F[<<r, h[r - 1]>>]
            OBVIOUS
        <3>1. CASE r <= a + n
            <4>1. r \in a .. a + n /\ (r # a => r - 1 \in a .. a + n)
                BY <3>1
            <4>2. h[r] = g[r] /\ (r # a => h[r - 1] = g[r - 1])
                BY <4>1
            <4> HIDE DEF h
            <4> QED BY <2>1, <4>1, <4>2, Zenon
        <3>2. CASE r = a + (n + 1)
            BY <3>2
        <3> QED BY <3>1, <3>2
    <2> HIDE DEF h
    <2> QED BY <2>2, <2>3, SMTT(30)
<1>3. T = Nat
    <2> HIDE DEF T
    <2>1. T \in SUBSET Nat
        BY DEF T
    <2> QED BY <1>1, <1>2, <2>1, Induction
<1>4. CASE b < a
    <2> DEFINE g == [r \in a .. b |-> x]
    <2>1. g \in [a .. b -> S] /\ \A r \in a .. b : g[r] = IF r = a THEN x ELSE F[<<r, g[r - 1]>>]
        BY <1>4
    <2> QED BY <2>1
<1>5. CASE a <= b
    <2>1. b - a \in T
        <3> HIDE DEF T
        <3> QED BY <1>3, <1>5
    <2>2. PICK g \in [a .. a + (b - a) -> S] : Good(g, b - a)
        BY <2>1
    <2>3. a + (b - a) = b
        OBVIOUS
    <2> QED BY <2>2, <2>3
<1> QED BY <1>4, <1>5

\* A loop from b down to a computes a function (the loop of FinalizeMarkedEdges).
LEMMA RecursionDown ==
    ASSUME NEW a \in Int, NEW b \in Int, NEW S, NEW x \in S, NEW F \in [Int \X S -> S]
    PROVE  \E g \in [a .. b -> S] : Downwards(g, a, b, x, F)
<1> DEFINE G == [q \in Int \X S |-> F[<<-q[1], q[2]>>]]
<1>1. G \in [Int \X S -> S]
    OBVIOUS
<1>2. PICK h \in [-b .. -a -> S] : Upwards(h, -b, -a, x, G)
    <2> HIDE DEF G
    <2>1. -b \in Int /\ -a \in Int
        OBVIOUS
    <2> QED BY <1>1, <2>1, RecursionUp, Zenon
<1> DEFINE g == [r \in a .. b |-> h[-r]]
<1>3. g \in [a .. b -> S]
    OBVIOUS
<1>4. ASSUME NEW r \in a .. b PROVE g[r] = IF r = b THEN x ELSE F[<<r, g[r + 1]>>]
    <2>1. -r \in -b .. -a /\ (-r = -b <=> r = b) /\ (r # b => -r - 1 \in -b .. -a /\ -r - 1 = -(r + 1))
        OBVIOUS
    <2>2. g[r] = h[-r] /\ (r # b => g[r + 1] = h[-r - 1])
        BY <2>1
    <2>3. r # b => G[<<-r, h[-r - 1]>>] = F[<<r, h[-r - 1]>>]
        BY <2>1
    <2>4. h[-r] = IF -r = -b THEN x ELSE G[<<-r, h[-r - 1]>>]
        <3> HIDE DEF G, g
        <3> QED BY <1>2, <2>1 DEF Upwards
    <2> HIDE DEF g, G
    <2> QED BY <2>1, <2>2, <2>3, <2>4, Zenon
<1> HIDE DEF g
<1> QED BY <1>3, <1>4 DEF Downwards

-----------------------------------------------------------------------------
\* All edges of an automaton, each named by its state and its place in the state's list.
EdgeNames(nfa) == EdgesFrom(nfa, DOMAIN nfa.edges)

\* What NFA::Validate and the compiled form of the automaton guarantee of each edge: no edge
\* leaves the final state or enters the start state, and the edges that consume no row are
\* those into the final state.
LEMMA AutomatonFacts ==
    ASSUME NEW nfa, NEW labels, IsAutomaton(nfa, labels)
    PROVE  /\ nfa.start \in DOMAIN nfa.edges /\ nfa.final \in DOMAIN nfa.edges
           /\ \A e \in EdgeNames(nfa) :
                 /\ e = <<e[1], e[2]>> /\ e[1] \in DOMAIN nfa.edges \ {nfa.final}
                 /\ e[2] \in Nat \ {0} /\ e[2] \in DOMAIN nfa.edges[e[1]]
                 /\ EdgeAt(nfa, e).to \in DOMAIN nfa.edges \ {nfa.start}
                 /\ EdgeAt(nfa, e).var \in labels \cup {NoVar}
                 /\ EdgeAt(nfa, e).to = nfa.final <=> EdgeAt(nfa, e).var = NoVar
                 /\ EdgeAt(nfa, e).head \in BOOLEAN /\ EdgeAt(nfa, e).tail \in BOOLEAN
           /\ \A s \in DOMAIN nfa.edges : \A k \in DOMAIN nfa.edges[s] : <<s, k>> \in EdgeNames(nfa)
<1>1. nfa.start \in DOMAIN nfa.edges /\ nfa.final \in DOMAIN nfa.edges
    BY DEF IsAutomaton
<1>2. ASSUME NEW e \in EdgeNames(nfa)
      PROVE  /\ e = <<e[1], e[2]>> /\ e[1] \in DOMAIN nfa.edges \ {nfa.final}
             /\ e[2] \in Nat \ {0} /\ e[2] \in DOMAIN nfa.edges[e[1]]
             /\ EdgeAt(nfa, e).to \in DOMAIN nfa.edges \ {nfa.start}
             /\ EdgeAt(nfa, e).var \in labels \cup {NoVar}
             /\ EdgeAt(nfa, e).to = nfa.final <=> EdgeAt(nfa, e).var = NoVar
             /\ EdgeAt(nfa, e).head \in BOOLEAN /\ EdgeAt(nfa, e).tail \in BOOLEAN
    <2>1. PICK s \in DOMAIN nfa.edges : e \in {s} \X DOMAIN nfa.edges[s]
        BY DEF EdgeNames, EdgesFrom
    <2>2. e = <<e[1], e[2]>> /\ e[1] = s /\ e[2] \in DOMAIN nfa.edges[s]
        BY <2>1
    <2>3. PICK Edge : Edge = [var : labels \cup {NoVar}, to : DOMAIN nfa.edges,
                              head : BOOLEAN, tail : BOOLEAN]
        BY Zenon
    <2>4. nfa.edges[s] \in Seq(Edge)
        BY <2>3, Zenon DEF IsAutomaton
    <2>a. DOMAIN nfa.edges[s] = 1 .. Len(nfa.edges[s]) /\ Len(nfa.edges[s]) \in Nat
        BY <2>4
    <2>b. e[2] \in Nat \ {0} /\ nfa.edges[s][e[2]] \in Edge
        BY <2>2, <2>4, <2>a
    <2>c. /\ EdgeAt(nfa, e).to \in DOMAIN nfa.edges
          /\ EdgeAt(nfa, e).var \in labels \cup {NoVar}
          /\ EdgeAt(nfa, e).head \in BOOLEAN /\ EdgeAt(nfa, e).tail \in BOOLEAN
        BY <2>2, <2>3, <2>b DEF EdgeAt
    <2>5. nfa.edges[nfa.final] = <<>>
        BY DEF IsAutomaton, Valid
    <2>6. s # nfa.final
        BY <2>2, <2>5
    <2>7. EdgeAt(nfa, e) \in EdgesOf(nfa)
        BY <2>2 DEF EdgeAt, EdgesOf, Range
    <2>8. /\ EdgeAt(nfa, e).to # nfa.start
          /\ EdgeAt(nfa, e).var # NoVar => EdgeAt(nfa, e).to # nfa.final
          /\ EdgeAt(nfa, e).var = NoVar => EdgeAt(nfa, e).to = nfa.final
        BY <2>7 DEF IsAutomaton, Valid
    <2> QED BY <2>2, <2>b, <2>c, <2>6, <2>8
<1>3. ASSUME NEW s \in DOMAIN nfa.edges, NEW k \in DOMAIN nfa.edges[s]
      PROVE  <<s, k>> \in EdgeNames(nfa)
    BY DEF EdgeNames, EdgesFrom
<1> QED BY <1>1, <1>2, <1>3

\* The body of FinalizeMarkedEdges for one row, with the sources of the edges kept in the next.
Keep(nfa, marked, longest, r, sources) ==
    {e \in marked[r] :
        /\ EdgeAt(nfa, e).to \in {nfa.final} \cup sources
        /\ EdgeAt(nfa, e).to = nfa.final => ~(longest /\ CanContinueMatch(nfa, marked[r]))}

\* The states that edges leave.
Sources(edges) == {e[1] : e \in edges}

\* The rows of marked edges that FinalizeMarkedEdges returns.
IsKept(nfa, E, marked, longest, kept) ==
    /\ kept \in Seq(SUBSET E) /\ Len(kept) = Len(marked)
    /\ \A r \in 1 .. Len(marked) :
          kept[r] = Keep(nfa, marked, longest, r,
                         IF r = Len(marked) THEN {} ELSE Sources(kept[r + 1]))

\* FinalizeMarkedEdges keeps in each row the edges into the final state or into a state
\* that an edge kept in the next row leaves.
LEMMA FinalizeUnfolds ==
    ASSUME NEW nfa, NEW E, NEW marked \in Seq(SUBSET E), NEW longest \in BOOLEAN,
           NEW kept, kept = FinalizeMarkedEdges(nfa, marked, longest)
    PROVE  IsKept(nfa, E, marked, longest, kept)
<1> DEFINE N == Len(marked)
           F == [q \in Int \X SUBSET E |->
                    {e \in E : q[1] \in 1 .. N /\ e \in Keep(nfa, marked, longest, q[1], Sources(q[2]))}]
           x == {e \in E : N \in 1 .. N /\ e \in Keep(nfa, marked, longest, N, {})}
           P(g) == g = [r \in 1 .. N |->
                        LET valid == IF r = N THEN {nfa.final}
                                     ELSE {nfa.final} \cup {e[1] : e \in g[r + 1]}
                            ends == ~(longest /\ CanContinueMatch(nfa, marked[r]))
                        IN  {e \in marked[r] : /\ EdgeAt(nfa, e).to \in valid
                                               /\ EdgeAt(nfa, e).to = nfa.final => ends}]
<1>1. N \in Nat /\ \A r \in 1 .. N : marked[r] \in SUBSET E
    OBVIOUS
<1>2. F \in [Int \X SUBSET E -> SUBSET E] /\ x \in SUBSET E
    OBVIOUS
<1>3. PICK g \in [1 .. N -> SUBSET E] : Downwards(g, 1, N, x, F)
    <2> HIDE DEF F, x, N
    <2>1. PICK S : S = SUBSET E
        BY Zenon
    <2>2. F \in [Int \X S -> S] /\ x \in S
        BY <1>2, <2>1
    <2>3. 1 \in Int /\ N \in Int
        BY <1>1
    <2>4. \E g \in [1 .. N -> S] : Downwards(g, 1, N, x, F)
        BY <2>2, <2>3, RecursionDown, Zenon
    <2> QED BY <2>1, <2>4
<1>4. ASSUME NEW r \in 1 .. N
      PROVE  g[r] = Keep(nfa, marked, longest, r, IF r = N THEN {} ELSE Sources(g[r + 1]))
    <2>1. CASE r = N
        <3>1. g[r] = x
            BY <1>3, <2>1, Zenon DEF Downwards
        <3> QED BY <1>1, <2>1, <3>1 DEF Keep
    <2>2. CASE r # N
        <3>1. g[r] = F[<<r, g[r + 1]>>]
            BY <1>3, <2>2, Zenon DEF Downwards
        <3>2. r + 1 \in 1 .. N /\ <<r, g[r + 1]>> \in Int \X SUBSET E
            BY <1>1, <2>2, SMTT(30)
        <3>3. g[r] = {e \in E : e \in Keep(nfa, marked, longest, r, Sources(g[r + 1]))}
            BY <3>1, <3>2
        <3> QED BY <1>1, <2>2, <3>3 DEF Keep
    <2> QED BY <2>1, <2>2
<1>5. P(g)
    BY <1>4 DEF Keep, Sources
<1>6. P(CHOOSE f : P(f))
    <2> HIDE DEF P
    <2> QED BY <1>5
<1>7. kept = CHOOSE f : P(f)
    BY DEF FinalizeMarkedEdges
<1>8. P(kept)
    BY <1>6, <1>7, Zenon
<1>9. DOMAIN kept = 1 .. N /\ \A r \in 1 .. N :
         kept[r] = Keep(nfa, marked, longest, r, IF r = N THEN {} ELSE Sources(kept[r + 1]))
    BY <1>8, Zenon DEF Keep, Sources
<1>10. \A r \in 1 .. N : kept[r] \in SUBSET E
    BY <1>1, <1>9 DEF Keep
<1>11. kept = [r \in 1 .. N |-> kept[r]]
    BY <1>8
<1>12. kept \in [1 .. N -> SUBSET E]
    BY <1>10, <1>11
<1> QED BY <1>1, <1>9, <1>12 DEF IsKept

\* HighestPrecedenceMarkedEdge finds the first marked edge of a state, 0 if none is marked.
LEMMA Highest ==
    ASSUME NEW nfa, NEW labels, IsAutomaton(nfa, labels), NEW marks \in SUBSET EdgeNames(nfa),
           NEW s, NEW k, k = HighestPrecedenceMarkedEdge(marks, s)
    PROVE  \/ k = 0 /\ \A e \in marks : e[1] # s
           \/ /\ k \in Nat \ {0} /\ <<s, k>> \in marks
              /\ \A e \in marks : e[1] = s => k <= e[2]
<1> DEFINE positions == {e[2] : e \in {f \in marks : f[1] = s}}
<1>1. \A e \in marks : e = <<e[1], e[2]>> /\ e[2] \in Nat \ {0}
    BY AutomatonFacts
<1>2. CASE positions = {}
    BY <1>2, Zenon DEF HighestPrecedenceMarkedEdge
<1>3. CASE positions # {}
    <2>1. positions \in SUBSET Nat
        BY <1>1
    <2>2. k = Min(positions)
        BY <1>3, Zenon DEF HighestPrecedenceMarkedEdge
    <2>3. k \in positions /\ \A i \in positions : k <= i
        <3> HIDE DEF positions
        <3> QED BY <1>3, <2>1, <2>2, Least
    <2>4. PICK e \in marks : e[1] = s /\ e[2] = k
        BY <2>3
    <2>5. <<s, k>> \in marks /\ k \in Nat \ {0}
        BY <1>1, <2>4
    <2> QED BY <2>3, <2>5
<1> QED BY <1>2, <1>3

\* The state of the loop of ComputeMatchImpl.
Walk(nfa, labels) ==
    [state : DOMAIN nfa.edges, vars : Seq(labels \cup {NoVar}), ok : BOOLEAN]

\* The walk before its first row.
NewWalk(nfa) == [state |-> nfa.start, vars |-> <<>>, ok |-> TRUE]

\* One turn of the loop of ComputeMatchImpl keeps the types of its locals.
LEMMA FollowEdgeType ==
    ASSUME NEW nfa, NEW labels, IsAutomaton(nfa, labels), NEW marks \in SUBSET EdgeNames(nfa),
           NEW m \in Walk(nfa, labels)
    PROVE  FollowEdge(nfa, marks, m) \in Walk(nfa, labels)
<1> DEFINE k == HighestPrecedenceMarkedEdge(marks, m.state)
<1>0. nfa.final \in DOMAIN nfa.edges
    BY AutomatonFacts
<1>1. CASE k = 0 \/ ~m.ok \/ m.state = nfa.final
    BY <1>1, Zenon DEF FollowEdge, Walk
<1>2. CASE k # 0 /\ m.ok /\ m.state # nfa.final
    <2>1. <<m.state, k>> \in EdgeNames(nfa)
        BY <1>2, Highest, SMTT(30)
    <2> DEFINE edge == nfa.edges[m.state][k]
    <2>2. edge.to \in DOMAIN nfa.edges /\ edge.var \in labels \cup {NoVar}
        BY <2>1, AutomatonFacts DEF EdgeAt
    <2>3. Append(m.vars, edge.var) \in Seq(labels \cup {NoVar})
        BY <2>2 DEF Walk
    <2>4. CASE edge.to = nfa.final
        BY <1>0, <1>2, <2>4 DEF FollowEdge, Walk
    <2>5. CASE edge.to # nfa.final
        <3>1. FollowEdge(nfa, marks, m)
                 = [state |-> edge.to, vars |-> Append(m.vars, edge.var), ok |-> edge.var # NoVar]
            BY <1>2, <2>5 DEF FollowEdge
        <3> HIDE DEF edge
        <3> QED BY <2>2, <2>3, <3>1 DEF Walk
    <2> QED BY <2>4, <2>5
<1> QED BY <1>1, <1>2

\* The loop of ComputeMatchImpl, row by row.
LEMMA ImplUnfolds ==
    ASSUME NEW nfa, NEW labels, IsAutomaton(nfa, labels),
           NEW list \in Seq(SUBSET EdgeNames(nfa)), NEW row \in 1 .. Len(list)
    PROVE  \E g \in [row - 1 .. Len(list) -> Walk(nfa, labels)] :
              /\ g[row - 1] = NewWalk(nfa)
              /\ \A r \in row .. Len(list) : g[r] = FollowEdge(nfa, list[r], g[r - 1])
              /\ ComputeMatchImpl(nfa, list, row) = g[Len(list)]
<1> DEFINE N == Len(list)
           E == EdgeNames(nfa)
           x == NewWalk(nfa)
           marks(r) == {e \in E : r \in 1 .. N /\ e \in list[r]}
           P(h) == h = [r \in row - 1 .. N |->
                          IF r = row - 1 THEN [state |-> nfa.start, vars |-> <<>>, ok |-> TRUE]
                          ELSE FollowEdge(nfa, list[r], h[r - 1])]
<1>1. N \in Nat /\ \A r \in 1 .. N : list[r] \in SUBSET E
    OBVIOUS
<1>2. PICK S : S = Walk(nfa, labels)
    OBVIOUS
<1> DEFINE F == [q \in Int \X S |-> FollowEdge(nfa, marks(q[1]), q[2])]
<1>3. F \in [Int \X S -> S]
    <2> SUFFICES ASSUME NEW q \in Int \X S PROVE FollowEdge(nfa, marks(q[1]), q[2]) \in S
        BY Zenon
    <2>1. marks(q[1]) \in SUBSET EdgeNames(nfa) /\ q[2] \in Walk(nfa, labels)
        BY <1>2
    <2> HIDE DEF marks
    <2> QED BY <1>2, <2>1, FollowEdgeType
<1>4. x \in S
    BY <1>2, AutomatonFacts DEF Walk, NewWalk
<1>5. row - 1 \in Int /\ N \in Int
    BY <1>1
<1>6. PICK g \in [row - 1 .. N -> S] : Upwards(g, row - 1, N, x, F)
    <2> HIDE DEF F, x, N
    <2>1. PICK a : a = row - 1
        OBVIOUS
    <2>2. a \in Int
        BY <1>5, <2>1
    <2>3. \E g \in [a .. N -> S] : Upwards(g, a, N, x, F)
        BY <1>3, <1>4, <1>5, <2>2, RecursionUp, Zenon
    <2> QED BY <2>1, <2>3
<1>a. row - 1 \in row - 1 .. N
    BY <1>1
<1>7. g[row - 1] = x
    <2> HIDE DEF F, x, N
    <2> QED BY <1>6, <1>a, Zenon DEF Upwards
<1>8. ASSUME NEW r \in row .. N PROVE g[r] = FollowEdge(nfa, list[r], g[r - 1])
    <2>1. r \in row - 1 .. N /\ r # row - 1 /\ r - 1 \in row - 1 .. N
        BY <1>1
    <2>2. g[r] = F[<<r, g[r - 1]>>]
        <3> HIDE DEF F, x, N
        <3> QED BY <1>6, <2>1 DEF Upwards
    <2>3. r \in Int /\ g[r - 1] \in S
        <3> HIDE DEF F, x, N
        <3> QED BY <2>1
    <2>4. marks(r) = list[r]
        BY <1>1
    <2>5. F[<<r, g[r - 1]>>] = FollowEdge(nfa, marks(r), g[r - 1])
        BY <2>3, Zenon
    <2> HIDE DEF F, marks
    <2> QED BY <2>2, <2>4, <2>5
<1>9. P(g)
    <2> SUFFICES ASSUME NEW r \in row - 1 .. N
                 PROVE  g[r] = IF r = row - 1 THEN [state |-> nfa.start, vars |-> <<>>, ok |-> TRUE]
                               ELSE FollowEdge(nfa, list[r], g[r - 1])
        BY <1>6
    <2>1. r # row - 1 => r \in row .. N
        BY <1>1
    <2> QED BY <1>7, <1>8, <2>1 DEF NewWalk
<1>10. P(CHOOSE h : P(h))
    <2> HIDE DEF P
    <2> QED BY <1>9
<1>11. ComputeMatchImpl(nfa, list, row) = (CHOOSE h : P(h))[N]
    BY DEF ComputeMatchImpl
<1> DEFINE h == CHOOSE h : P(h)
<1>12. P(h) /\ ComputeMatchImpl(nfa, list, row) = h[N]
    BY <1>10, <1>11, Zenon
<1>13. PICK f : P(f) /\ ComputeMatchImpl(nfa, list, row) = f[N]
    <2> HIDE DEF h, P
    <2> QED BY <1>12
<1> HIDE DEF h
<1>14. f[row - 1] = NewWalk(nfa) /\ \A r \in row .. N : f[r] = FollowEdge(nfa, list[r], f[r - 1])
    <2>1. \A r \in row .. N : r \in row - 1 .. N /\ r # row - 1
        BY <1>1
    <2>2. \A r \in row - 1 .. N :
             f[r] = IF r = row - 1 THEN [state |-> nfa.start, vars |-> <<>>, ok |-> TRUE]
                    ELSE FollowEdge(nfa, list[r], f[r - 1])
        BY <1>13, Zenon
    <2> HIDE DEF P
    <2> QED BY <1>a, <2>1, <2>2, Zenon DEF NewWalk
<1>15. row - 1 .. N \subseteq {r \in row - 1 .. N : f[r] \in Walk(nfa, labels)}
    <2> DEFINE T == {r \in row - 1 .. N : f[r] \in Walk(nfa, labels)}
    <2>1. row - 1 \in T
        BY <1>1, <1>2, <1>4, <1>14
    <2>2. ASSUME NEW r \in row - 1 .. N - 1, r \in T PROVE r + 1 \in T
        <3>1. r + 1 \in row .. N /\ list[r + 1] \in SUBSET EdgeNames(nfa) /\ (r + 1) - 1 = r
            BY <1>1
        <3>2. f[r + 1] = FollowEdge(nfa, list[r + 1], f[r])
            BY <1>14, <3>1
        <3> QED BY <2>2, <3>1, <3>2, FollowEdgeType
    <2> HIDE DEF T
    <2>3. row - 1 .. N \subseteq T
        <3> HIDE DEF N
        <3> QED BY <1>5, <2>1, <2>2, InductionUp, Zenon
    <2> QED BY <2>3 DEF T
<1>16. f \in [row - 1 .. N -> Walk(nfa, labels)]
    BY <1>13, <1>15, Zenon
<1> QED BY <1>13, <1>14, <1>16, Zenon

\* The states of an NFAEdgeTracker.
Tracker(nfa) == [marked : Seq(SUBSET EdgeNames(nfa)), inputs : SUBSET DOMAIN nfa.edges]

\* What ProcessRow leaves: a tracker, and the list it returned (empty for none).
Tracked(nfa) == [tracker : Tracker(nfa), list : Seq(SUBSET EdgeNames(nfa))]

\* The states that edges enter.
Targets(nfa, edges) == {EdgeAt(nfa, e).to : e \in edges}

\* A new NFAEdgeTracker has the type of one.
LEMMA NewTrackerType ==
    ASSUME NEW nfa
    PROVE  NewTracker \in Tracker(nfa)
BY DEF NewTracker, Tracker

\* NFAEdgeTracker::ProcessRow keeps the tracker's type and returns rows of edges.
LEMMA ProcessRowType ==
    ASSUME NEW nfa, NEW labels, IsAutomaton(nfa, labels), NEW tracker \in Tracker(nfa),
           NEW allowed, NEW disallow \in BOOLEAN, NEW longest \in BOOLEAN
    PROVE  ProcessRow(nfa, tracker, allowed, disallow, longest) \in Tracked(nfa)
<1> DEFINE starts == ~disallow /\ ~(longest /\ tracker.marked # <<>>)
           sources == tracker.inputs \cup (IF starts THEN {nfa.start} ELSE {})
           marks == EdgesFrom(nfa, sources) \cap allowed
           marked == Append(tracker.marked, marks)
<1>1. sources \subseteq DOMAIN nfa.edges
    BY AutomatonFacts DEF Tracker
<1>2. marks \in SUBSET EdgeNames(nfa)
    <2> HIDE DEF sources
    <2> QED BY <1>1 DEF EdgesFrom, EdgeNames
<1>3. marked \in Seq(SUBSET EdgeNames(nfa))
    <2>1. tracker.marked \in Seq(SUBSET EdgeNames(nfa))
        BY DEF Tracker
    <2> HIDE DEF marks
    <2> QED BY <1>2, <2>1
<1>4. Targets(nfa, marks) \in SUBSET DOMAIN nfa.edges
    <2> HIDE DEF marks
    <2> QED BY <1>2, AutomatonFacts DEF Targets
<1>5. CASE CanContinueMatch(nfa, marks)
    <2>1. ProcessRow(nfa, tracker, allowed, disallow, longest)
             = [tracker |-> [marked |-> marked, inputs |-> Targets(nfa, marks)], list |-> <<>>]
        BY <1>5 DEF ProcessRow, Targets
    <2> HIDE DEF marked, marks
    <2> QED BY <1>3, <1>4, <2>1 DEF Tracked, Tracker
<1>6. CASE ~CanContinueMatch(nfa, marks)
    <2>1. ProcessRow(nfa, tracker, allowed, disallow, longest)
             = [tracker |-> NewTracker, list |-> FinalizeMarkedEdges(nfa, marked, longest)]
        BY <1>6 DEF ProcessRow
    <2>2. FinalizeMarkedEdges(nfa, marked, longest) \in Seq(SUBSET EdgeNames(nfa))
        <3> HIDE DEF marked
        <3>1. PICK E : E = EdgeNames(nfa)
            OBVIOUS
        <3>2. marked \in Seq(SUBSET E)
            BY <1>3, <3>1
        <3> QED BY <3>1, <3>2, FinalizeUnfolds, Zenon DEF IsKept
    <2> HIDE DEF marked, marks
    <2> QED BY <2>1, <2>2, NewTrackerType DEF Tracked
<1> QED BY <1>5, <1>6

\* One turn of the loop of ComputeLongestMatchModeMatch keeps the types of its locals.
LEMMA TrackRowType ==
    ASSUME NEW nfa, NEW labels, IsAutomaton(nfa, labels), NEW marks, NEW t \in Tracked(nfa)
    PROVE  TrackRow(nfa, marks, t) \in Tracked(nfa)
<1>1. t.tracker \in Tracker(nfa)
    BY DEF Tracked
<1>2. ProcessRow(nfa, t.tracker, marks, FALSE, TRUE) \in Tracked(nfa)
    BY <1>1, ProcessRowType, Zenon
<1> QED BY <1>2, Zenon DEF TrackRow

\* The second tracker before its first row.
NewTracked == [tracker |-> NewTracker, list |-> <<>>]

\* The loop of ComputeLongestMatchModeMatch, row by row: it feeds a second tracker until
\* that returns a list.
LEMMA TrackUnfolds ==
    ASSUME NEW nfa, NEW labels, IsAutomaton(nfa, labels),
           NEW list \in Seq(SUBSET EdgeNames(nfa)), NEW row \in 1 .. Len(list)
    PROVE  \E g \in [row - 1 .. Len(list) -> Tracked(nfa)] :
              /\ g[row - 1] = NewTracked
              /\ \A r \in row .. Len(list) : g[r] = TrackRow(nfa, list[r], g[r - 1])
              /\ ComputeLongestMatchModeMatch(nfa, list, row)
                    = IF g[Len(list)].list = <<>>
                      THEN [state |-> nfa.start, vars |-> <<>>, ok |-> FALSE]
                      ELSE ComputeMatchImpl(nfa, g[Len(list)].list, 1)
<1> DEFINE N == Len(list)
           x == NewTracked
           P(h) == h = [r \in row - 1 .. N |->
                          IF r = row - 1 THEN [tracker |-> NewTracker, list |-> <<>>]
                          ELSE TrackRow(nfa, list[r], h[r - 1])]
           result(h) == IF h[N].list = <<>>
                        THEN [state |-> nfa.start, vars |-> <<>>, ok |-> FALSE]
                        ELSE ComputeMatchImpl(nfa, h[N].list, 1)
<1>1. N \in Nat
    OBVIOUS
<1>2. PICK S : S = Tracked(nfa)
    OBVIOUS
<1> DEFINE F == [q \in Int \X S |-> TrackRow(nfa, list[q[1]], q[2])]
<1>3. F \in [Int \X S -> S]
    <2> SUFFICES ASSUME NEW q \in Int \X S PROVE TrackRow(nfa, list[q[1]], q[2]) \in S
        OBVIOUS
    <2>1. q[2] \in Tracked(nfa)
        BY <1>2
    <2> QED BY <1>2, <2>1, TrackRowType
<1>4. x \in S
    BY <1>2, NewTrackerType DEF Tracked, NewTracked
<1>5. row - 1 \in Int /\ N \in Int /\ row - 1 \in row - 1 .. N
    BY <1>1
<1>6. PICK g \in [row - 1 .. N -> S] : Upwards(g, row - 1, N, x, F)
    <2> HIDE DEF F, x, N
    <2>1. PICK a : a = row - 1
        OBVIOUS
    <2>2. a \in Int
        BY <1>5, <2>1
    <2>3. \E g \in [a .. N -> S] : Upwards(g, a, N, x, F)
        BY <1>3, <1>4, <1>5, <2>2, RecursionUp, Zenon
    <2> QED BY <2>1, <2>3
<1>7. P(g)
    <2> SUFFICES ASSUME NEW r \in row - 1 .. N
                 PROVE  g[r] = IF r = row - 1 THEN [tracker |-> NewTracker, list |-> <<>>]
                               ELSE TrackRow(nfa, list[r], g[r - 1])
        BY <1>6
    <2>1. r # row - 1 => r - 1 \in row - 1 .. N
        BY <1>1
    <2>2. g[r] = IF r = row - 1 THEN x ELSE F[<<r, g[r - 1]>>]
        <3> HIDE DEF F, x, N
        <3> QED BY <1>6 DEF Upwards
    <2>3. r \in Int /\ (r # row - 1 => g[r - 1] \in S)
        <3> HIDE DEF F, x, N
        <3> QED BY <2>1
    <2>4. r # row - 1 => F[<<r, g[r - 1]>>] = TrackRow(nfa, list[r], g[r - 1])
        BY <2>3
    <2> HIDE DEF F
    <2> QED BY <2>2, <2>4 DEF NewTracked
<1>8. P(CHOOSE h : P(h))
    <2> HIDE DEF P
    <2> QED BY <1>7
<1>9. ComputeLongestMatchModeMatch(nfa, list, row) = result(CHOOSE h : P(h))
    BY DEF ComputeLongestMatchModeMatch
<1>10. PICK f : P(f) /\ ComputeLongestMatchModeMatch(nfa, list, row) = result(f)
    <2> HIDE DEF P, result
    <2> QED BY <1>8, <1>9, Zenon
<1>11. /\ f[row - 1] = NewTracked
       /\ \A r \in row .. N : f[r] = TrackRow(nfa, list[r], f[r - 1])
    <2>1. \A r \in row .. N : r \in row - 1 .. N /\ r # row - 1
        BY <1>1
    <2>2. \A r \in row - 1 .. N :
             f[r] = IF r = row - 1 THEN [tracker |-> NewTracker, list |-> <<>>]
                    ELSE TrackRow(nfa, list[r], f[r - 1])
        BY <1>10, Zenon
    <2> HIDE DEF P
    <2> QED BY <1>5, <2>1, <2>2 DEF NewTracked
<1>12. \A r \in row - 1 .. N : f[r] \in Tracked(nfa)
    <2> DEFINE T == {r \in row - 1 .. N : f[r] \in Tracked(nfa)}
    <2>1. row - 1 \in T
        BY <1>2, <1>4, <1>5, <1>11
    <2>2. ASSUME NEW r \in row - 1 .. N - 1, r \in T PROVE r + 1 \in T
        <3>1. r + 1 \in row .. N /\ (r + 1) - 1 = r
            BY <1>1
        <3>2. f[r + 1] = TrackRow(nfa, list[r + 1], f[r])
            BY <1>11, <3>1
        <3> QED BY <2>2, <3>1, <3>2, TrackRowType
    <2> HIDE DEF T
    <2>3. row - 1 .. N \subseteq T
        <3> HIDE DEF N
        <3> QED BY <1>5, <2>1, <2>2, InductionUp
    <2> QED BY <2>3 DEF T
<1>13. f \in [row - 1 .. N -> Tracked(nfa)]
    BY <1>10, <1>12
<1> QED BY <1>10, <1>11, <1>13, Zenon

\* The options of a match partition: the skip rule and the longest-match mode.
Options == [overlapping : BOOLEAN, longest : BOOLEAN]

\* ComputeMatchImpl returns a walk.
LEMMA ImplType ==
    ASSUME NEW nfa, NEW labels, IsAutomaton(nfa, labels),
           NEW list \in Seq(SUBSET EdgeNames(nfa)), NEW row \in 1 .. Len(list)
    PROVE  ComputeMatchImpl(nfa, list, row) \in Walk(nfa, labels)
<1>1. PICK g \in [row - 1 .. Len(list) -> Walk(nfa, labels)] :
         ComputeMatchImpl(nfa, list, row) = g[Len(list)]
    BY ImplUnfolds, SMTT(30)
<1>2. Len(list) \in row - 1 .. Len(list)
    OBVIOUS
<1> QED BY <1>1, <1>2

\* ComputeMatch returns a walk, in both modes.
LEMMA ComputeMatchType ==
    ASSUME NEW nfa, NEW labels, IsAutomaton(nfa, labels), NEW options \in Options,
           NEW list \in Seq(SUBSET EdgeNames(nfa)), NEW row \in 1 .. Len(list)
    PROVE  ComputeMatch(nfa, options, list, row) \in Walk(nfa, labels)
<1>1. \A l \in Seq(SUBSET EdgeNames(nfa)) : \A r \in 1 .. Len(l) :
         ComputeMatchImpl(nfa, l, r) \in Walk(nfa, labels)
    BY ImplType, SMTT(30)
<1>2. ComputeLongestMatchModeMatch(nfa, list, row) \in Walk(nfa, labels)
    <2>1. PICK g \in [row - 1 .. Len(list) -> Tracked(nfa)] :
             ComputeLongestMatchModeMatch(nfa, list, row)
                = IF g[Len(list)].list = <<>>
                  THEN [state |-> nfa.start, vars |-> <<>>, ok |-> FALSE]
                  ELSE ComputeMatchImpl(nfa, g[Len(list)].list, 1)
        BY TrackUnfolds, Zenon
    <2>2. Len(list) \in row - 1 .. Len(list)
        OBVIOUS
    <2>3. g[Len(list)].list \in Seq(SUBSET EdgeNames(nfa))
        BY <2>2 DEF Tracked
    <2>4. CASE g[Len(list)].list = <<>>
        BY <2>1, <2>4, AutomatonFacts DEF Walk
    <2>5. CASE g[Len(list)].list # <<>>
        <3>1. PICK l \in Seq(SUBSET EdgeNames(nfa)) : l = g[Len(list)].list
            BY <2>3
        <3>2. 1 \in 1 .. Len(l)
            BY <2>5, <3>1
        <3> QED BY <1>1, <2>1, <2>5, <3>1, <3>2
    <2> QED BY <2>4, <2>5
<1> QED BY <1>1, <1>2 DEF ComputeMatch

\* The results that NFAMatchPartition reports.
Match(labels) ==
    [match_id : Int, start_row_index : Int, vars : Seq(labels \cup {NoVar})]

\* The locals of the loop of ExtractMatches.
Found(labels) == [row : Nat \ {0}, matches : Seq(Match(labels)), ok : BOOLEAN]

\* ... before its first iteration.
NewFound == [row |-> 1, matches |-> <<>>, ok |-> TRUE]

\* The next match starts in a later row, whatever the length of the match (also of an
\* empty one).
LEMMA NextStartType ==
    ASSUME NEW options, NEW row \in Nat, NEW S, NEW labelling \in Seq(S)
    PROVE  NextStart(options, row, labelling) \in Nat /\ NextStart(options, row, labelling) > row
<1>1. Len(labelling) \in Nat /\ (labelling # <<>> => Len(labelling) > 0)
    OBVIOUS
<1> QED BY <1>1 DEF NextStart

\* One iteration of ExtractMatches keeps the types of its locals.
LEMMA ExtractMatchType ==
    ASSUME NEW nfa, NEW labels, IsAutomaton(nfa, labels), NEW options \in Options,
           NEW list \in Seq(SUBSET EdgeNames(nfa)), NEW last \in 0 .. Len(list),
           NEW offset \in Int, NEW id \in Int, NEW f \in Found(labels)
    PROVE  ExtractMatch(nfa, options, list, last, offset, id, f) \in Found(labels)
<1> DEFINE match == ComputeMatch(nfa, options, list, f.row)
<1>0. f.row \in Nat \ {0} /\ f.matches \in Seq(Match(labels)) /\ f.ok \in BOOLEAN
    BY DEF Found
<1>1. CASE ~f.ok \/ f.row > last
    BY <1>1 DEF ExtractMatch
<1>2. CASE f.ok /\ ~(f.row > last)
          /\ HighestPrecedenceMarkedEdge(list[f.row], nfa.start) = 0
    <2>1. ExtractMatch(nfa, options, list, last, offset, id, f) = [f EXCEPT !.row = @ + 1]
        BY <1>2 DEF ExtractMatch
    <2> QED BY <1>0, <2>1 DEF Found
<1>3. CASE f.ok /\ ~(f.row > last) /\ ~match.ok
          /\ HighestPrecedenceMarkedEdge(list[f.row], nfa.start) # 0
    <2>1. ExtractMatch(nfa, options, list, last, offset, id, f) = [f EXCEPT !.ok = FALSE]
        BY <1>3 DEF ExtractMatch
    <2> QED BY <2>1, Zenon DEF Found
<1>4. CASE f.ok /\ ~(f.row > last) /\ match.ok
          /\ HighestPrecedenceMarkedEdge(list[f.row], nfa.start) # 0
    <2> DEFINE m == [match_id |-> id + Len(f.matches), start_row_index |-> offset + f.row - 1,
                     vars |-> match.vars]
    <2>1. f.row \in 1 .. Len(list)
        BY <1>0, <1>4
    <2>2. match \in Walk(nfa, labels)
        BY <2>1, ComputeMatchType
    <2>3. match.vars \in Seq(labels \cup {NoVar})
        <3> HIDE DEF match
        <3> QED BY <2>2 DEF Walk
    <2>4. Len(f.matches) \in Nat
        BY <1>0
    <2>5. m \in Match(labels)
        <3> HIDE DEF match
        <3> QED BY <1>0, <2>3, <2>4 DEF Match
    <2>6. Append(f.matches, m) \in Seq(Match(labels))
        <3> HIDE DEF m
        <3> QED BY <1>0, <2>5
    <2>7. NextStart(options, f.row, match.vars) \in Nat \ {0}
        <3> HIDE DEF match
        <3>1. NextStart(options, f.row, match.vars) \in Nat
              /\ NextStart(options, f.row, match.vars) > f.row
            BY <1>0, <2>3, NextStartType
        <3> QED BY <1>0, <3>1
    <2>8. ExtractMatch(nfa, options, list, last, offset, id, f)
             = [row |-> NextStart(options, f.row, match.vars), matches |-> Append(f.matches, m),
                ok |-> TRUE]
        BY <1>4 DEF ExtractMatch
    <2> HIDE DEF match, m
    <2> QED BY <2>6, <2>7, <2>8 DEF Found
<1> QED BY <1>0, <1>1, <1>2, <1>3, <1>4

\* The states of the loop of ExtractMatches, iteration by iteration.
MatchesLoop(nfa, labels, options, list, last, offset, id, g) ==
    /\ g \in [0 .. last -> Found(labels)]
    /\ g[0] = NewFound
    /\ \A n \in 1 .. last : g[n] = ExtractMatch(nfa, options, list, last, offset, id, g[n - 1])
    /\ MatchesFrom(nfa, options, list, last, offset, id) = g[last]

\* The loop of ExtractMatches, iteration by iteration.
LEMMA MatchesUnfolds ==
    ASSUME NEW nfa, NEW labels, IsAutomaton(nfa, labels), NEW options \in Options,
           NEW list \in Seq(SUBSET EdgeNames(nfa)), NEW last \in 0 .. Len(list),
           NEW offset \in Int, NEW id \in Int
    PROVE  \E g : MatchesLoop(nfa, labels, options, list, last, offset, id, g)
<1> DEFINE x == NewFound
           Step(f) == ExtractMatch(nfa, options, list, last, offset, id, f)
           P(h) == h = [n \in 0 .. last |->
                          IF n = 0 THEN [row |-> 1, matches |-> <<>>, ok |-> TRUE]
                          ELSE Step(h[n - 1])]
<1>1. last \in Nat /\ 0 \in Int /\ last \in Int /\ 0 \in 0 .. last
    OBVIOUS
<1>2. PICK S : S = Found(labels)
    OBVIOUS
<1> DEFINE F == [q \in Int \X S |-> Step(q[2])]
<1>3. F \in [Int \X S -> S]
    <2> SUFFICES ASSUME NEW q \in Int \X S PROVE Step(q[2]) \in S
        OBVIOUS
    <2>1. q[2] \in Found(labels)
        BY <1>2
    <2> QED BY <1>2, <2>1, ExtractMatchType, Zenon
<1>4. x \in S
    BY <1>2 DEF Found, NewFound
<1>6. PICK g \in [0 .. last -> S] : Upwards(g, 0, last, x, F)
    <2> HIDE DEF F, x
    <2> QED BY <1>1, <1>3, <1>4, RecursionUp, Zenon
<1>7. P(g)
    <2> SUFFICES ASSUME NEW n \in 0 .. last
                 PROVE  g[n] = IF n = 0 THEN [row |-> 1, matches |-> <<>>, ok |-> TRUE]
                               ELSE Step(g[n - 1])
        BY <1>6
    <2>1. n # 0 => n - 1 \in 0 .. last
        BY <1>1
    <2>2. g[n] = IF n = 0 THEN x ELSE F[<<n, g[n - 1]>>]
        <3> HIDE DEF F, x
        <3> QED BY <1>6 DEF Upwards
    <2>3. n \in Int /\ (n # 0 => g[n - 1] \in S)
        <3> HIDE DEF F, x
        <3> QED BY <2>1
    <2>4. n # 0 => F[<<n, g[n - 1]>>] = Step(g[n - 1])
        BY <2>3
    <2> HIDE DEF F, Step
    <2> QED BY <2>2, <2>4 DEF NewFound
<1>8. P(CHOOSE h : P(h))
    <2> HIDE DEF P
    <2> QED BY <1>7
<1>9. MatchesFrom(nfa, options, list, last, offset, id) = (CHOOSE h : P(h))[last]
    BY DEF MatchesFrom
<1>10. PICK f : P(f) /\ MatchesFrom(nfa, options, list, last, offset, id) = f[last]
    <2> HIDE DEF P
    <2> QED BY <1>8, <1>9, Zenon
<1> HIDE DEF Step
<1>11. f[0] = NewFound /\ \A n \in 1 .. last : f[n] = Step(f[n - 1])
    <2>1. \A n \in 1 .. last : n \in 0 .. last /\ n # 0
        BY <1>1
    <2>2. \A n \in 0 .. last : f[n] = IF n = 0 THEN [row |-> 1, matches |-> <<>>, ok |-> TRUE]
                                      ELSE Step(f[n - 1])
        BY <1>10, Zenon
    <2> HIDE DEF P
    <2> QED BY <1>1, <2>1, <2>2 DEF NewFound
<1>12. \A n \in 0 .. last : f[n] \in Found(labels)
    <2> DEFINE T == {n \in 0 .. last : f[n] \in Found(labels)}
    <2>1. 0 \in T
        BY <1>1, <1>2, <1>4, <1>11
    <2>2. ASSUME NEW n \in 0 .. last - 1, n \in T PROVE n + 1 \in T
        <3>1. n + 1 \in 1 .. last /\ n + 1 \in 0 .. last /\ (n + 1) - 1 = n
            BY <1>1
        <3>2. f[n + 1] = Step(f[n])
            BY <1>11, <3>1
        <3>3. Step(f[n]) \in Found(labels)
            BY <2>2, ExtractMatchType, Zenon DEF Step
        <3> QED BY <3>1, <3>2, <3>3
    <2> HIDE DEF T
    <2>3. 0 .. last \subseteq T
        BY <1>1, <2>1, <2>2, InductionUp
    <2> QED BY <2>3 DEF T
<1>13. f \in [0 .. last -> Found(labels)]
    BY <1>10, <1>12
<1> QED BY <1>10, <1>11, <1>13, Zenon DEF Step, MatchesLoop

\* The state an edge enters.
To(nfa, e) == EdgeAt(nfa, e).to

\* The state in which the i-th edge of the path p starts.
StateAt(nfa, p, i) == IF i = 1 THEN nfa.start ELSE To(nfa, p[i - 1])

\* The first n edges of p lead on from the start state, each usable in its row, the first in row j.
Follows(nfa, sets, j, p, n) ==
    \A i \in 1 .. n : /\ p[i][1] = StateAt(nfa, p, i)
                      /\ j + i - 1 \in DOMAIN sets
                      /\ p[i] \in sets[j + i - 1]

\* p is a path from the start state, taken in row j, to the final state.
Accepts(nfa, sets, j, p) ==
    /\ p \in Seq(EdgeNames(nfa)) \ {<<>>}
    /\ Follows(nfa, sets, j, p, Len(p))
    /\ To(nfa, p[Len(p)]) = nfa.final

\* The pattern variables of the first n edges of p.
Labels(nfa, p, n) == [i \in 1 .. n |-> EdgeAt(nfa, p[i]).var]

\* Each marked edge has the highest precedence among those marked in its row at its state.
Greedy(sets, j, p) ==
    \A i \in 1 .. Len(p) : \A e \in sets[j + i - 1] : e[1] = p[i][1] => p[i][2] <= e[2]

\* Every edge of the list goes to the final state or is followed by one of the next row.
NoDeadEnds(nfa, list) ==
    \A r \in 1 .. Len(list) : \A e \in list[r] :
       \/ To(nfa, e) = nfa.final
       \/ r < Len(list) /\ \E f \in list[r + 1] : f[1] = To(nfa, e)

\* q is the path p with the edge e.
Extends(nfa, list, row, p, e, q) ==
    /\ q \in Seq(EdgeNames(nfa)) /\ Len(q) = Len(p) + 1 /\ q[Len(q)] = e
    /\ Follows(nfa, list, row, q, Len(q)) /\ Greedy(list, row, q)
    /\ \A n \in 0 .. Len(p) : Labels(nfa, q, n) = Labels(nfa, p, n)
    /\ Labels(nfa, q, Len(q)) = Append(Labels(nfa, p, Len(p)), EdgeAt(nfa, e).var)

\* A greedy path extended by the marked edge of highest precedence is a greedy path: a turn
\* of ComputeMatchImpl's loop keeps the choice of the earlier turns.
LEMMA AppendPath ==
    ASSUME NEW nfa, NEW labels, IsAutomaton(nfa, labels),
           NEW list \in Seq(SUBSET EdgeNames(nfa)), NEW row \in 1 .. Len(list),
           NEW p \in Seq(EdgeNames(nfa)), NEW r \in row .. Len(list), Len(p) = r - row,
           Follows(nfa, list, row, p, Len(p)), Greedy(list, row, p),
           NEW e \in list[r], e[1] = StateAt(nfa, p, Len(p) + 1),
           \A f \in list[r] : f[1] = e[1] => e[2] <= f[2],
           NEW q, q = Append(p, e)
    PROVE  Extends(nfa, list, row, p, e, q)
<1>1. e \in EdgeNames(nfa) /\ Len(p) \in Nat /\ DOMAIN list = 1 .. Len(list)
    OBVIOUS
<1>2. /\ q \in Seq(EdgeNames(nfa)) /\ Len(q) = r - row + 1 /\ q[Len(q)] = e /\ Len(q) = Len(p) + 1
      /\ \A i \in 1 .. Len(p) : q[i] = p[i]
    BY <1>1
<1>3. \A i \in 1 .. Len(p) + 1 : StateAt(nfa, q, i) = StateAt(nfa, p, i)
    BY <1>1, <1>2 DEF StateAt
<1>4. row + (Len(p) + 1) - 1 = r
    BY <1>1
<1>5. ASSUME NEW i \in 1 .. Len(q)
      PROVE  /\ q[i][1] = StateAt(nfa, q, i) /\ row + i - 1 \in DOMAIN list /\ q[i] \in list[row + i - 1]
             /\ \A f \in list[row + i - 1] : f[1] = q[i][1] => q[i][2] <= f[2]
    <2>1. CASE i = Len(p) + 1
        BY <1>1, <1>2, <1>3, <1>4, <2>1, SMTT(30)
    <2>2. CASE i # Len(p) + 1
        <3>1. i \in 1 .. Len(p)
            BY <1>1, <1>2, <2>2
        <3>2. i \in 1 .. Len(p) + 1
            BY <1>1, <3>1
        <3> QED BY <1>2, <1>3, <3>1, <3>2, Zenon DEF Follows, Greedy
    <2> QED BY <2>1, <2>2
<1>6. \A n \in 0 .. Len(p) : Labels(nfa, q, n) = Labels(nfa, p, n)
    BY <1>1, <1>2 DEF Labels
<1>7. Labels(nfa, q, Len(q)) = Append(Labels(nfa, p, Len(p)), EdgeAt(nfa, e).var)
    <2> DEFINE v(f) == EdgeAt(nfa, f).var
    <2>1. Labels(nfa, q, Len(q)) = [i \in 1 .. Len(p) + 1 |-> v(q[i])]
        BY <1>2 DEF Labels
    <2>2. Labels(nfa, p, Len(p)) = [i \in 1 .. Len(p) |-> v(p[i])]
        BY DEF Labels
    <2> HIDE DEF v
    <2>3. Append([i \in 1 .. Len(p) |-> v(p[i])], v(e))
             = [i \in 1 .. Len(p) + 1 |-> IF i = Len(p) + 1 THEN v(e) ELSE v(p[i])]
        BY <1>1
    <2>4. \A i \in 1 .. Len(p) + 1 : v(q[i]) = IF i = Len(p) + 1 THEN v(e) ELSE v(p[i])
        BY <1>1, <1>2
    <2> QED BY <2>1, <2>2, <2>3, <2>4 DEF v
<1> QED BY <1>2, <1>5, <1>6, <1>7, Zenon DEF Follows, Greedy, Extends

\* The walk of ComputeMatchImpl after the rows up to r: it has followed a path of edges of the
\* highest precedence, all of it if that has reached the final state.
Walked(nfa, list, row, r, m) ==
    \E p \in Seq(EdgeNames(nfa)) :
       /\ m.ok
       /\ Follows(nfa, list, row, p, Len(p)) /\ Greedy(list, row, p)
       /\ \/ /\ Accepts(nfa, list, row, p) /\ m.state = nfa.final
             /\ m.vars = Labels(nfa, p, Len(p) - 1)
          \/ /\ m.state = StateAt(nfa, p, Len(p) + 1) /\ m.state # nfa.final
             /\ Len(p) = r - row + 1 /\ m.vars = Labels(nfa, p, Len(p))

\* A turn of ComputeMatchImpl's loop goes on along the path of highest precedence, or stays
\* in the final state; "No edges possible from" cannot happen while an edge leads on.
LEMMA FollowEdgeWalks ==
    ASSUME NEW nfa, NEW labels, IsAutomaton(nfa, labels),
           NEW list \in Seq(SUBSET EdgeNames(nfa)), NEW row \in 1 .. Len(list),
           NEW r \in row .. Len(list), NEW m, Walked(nfa, list, row, r - 1, m),
           m.state # nfa.final => \E f \in list[r] : f[1] = m.state
    PROVE  Walked(nfa, list, row, r, FollowEdge(nfa, list[r], m))
<1>1. PICK p \in Seq(EdgeNames(nfa)) :
       /\ m.ok
       /\ Follows(nfa, list, row, p, Len(p)) /\ Greedy(list, row, p)
       /\ \/ /\ Accepts(nfa, list, row, p) /\ m.state = nfa.final
             /\ m.vars = Labels(nfa, p, Len(p) - 1)
          \/ /\ m.state = StateAt(nfa, p, Len(p) + 1) /\ m.state # nfa.final
             /\ Len(p) = (r - 1) - row + 1 /\ m.vars = Labels(nfa, p, Len(p))
    BY DEF Walked
<1>2. CASE m.state = nfa.final
    <2>1. FollowEdge(nfa, list[r], m) = m
        BY <1>2 DEF FollowEdge
    <2> QED BY <1>1, <1>2, <2>1 DEF Walked
<1>3. CASE m.state # nfa.final
    <2> DEFINE k == HighestPrecedenceMarkedEdge(list[r], m.state)
    <2>a. PICK e : e = <<m.state, k>>
        BY Zenon
    <2>b. PICK q : q = Append(p, e)
        BY Zenon
    <2>1. r \in 1 .. Len(list) /\ list[r] \in SUBSET EdgeNames(nfa) /\ Len(p) = r - row /\ Len(p) \in Nat
        BY <1>1, <1>3
    <2>2. k # 0 /\ e \in list[r] /\ \A f \in list[r] : f[1] = m.state => k <= f[2]
        <3>1. PICK marks \in SUBSET EdgeNames(nfa) : marks = list[r]
            BY <2>1
        <3>3. PICK s : s = m.state
            OBVIOUS
        <3>4. PICK h : h = HighestPrecedenceMarkedEdge(marks, s)
            OBVIOUS
        <3>5. \/ h = 0 /\ \A f \in marks : f[1] # s
              \/ /\ h \in Nat \ {0} /\ <<s, h>> \in marks
                 /\ \A f \in marks : f[1] = s => h <= f[2]
            BY <3>4, Highest, Zenon
        <3>6. h = k
            BY <3>1, <3>3, <3>4
        <3>2. \/ k = 0 /\ \A f \in marks : f[1] # m.state
              \/ /\ k \in Nat \ {0} /\ <<m.state, k>> \in marks
                 /\ \A f \in marks : f[1] = m.state => k <= f[2]
            BY <3>3, <3>5, <3>6
        <3> HIDE DEF k
        <3> QED BY <1>3, <2>a, <3>1, <3>2
    <2>3. e[1] = m.state /\ e[2] = k /\ EdgeAt(nfa, e) = nfa.edges[m.state][k]
        BY <2>a DEF EdgeAt
    <2> HIDE DEF k
    <2>9. /\ m.ok /\ Follows(nfa, list, row, p, Len(p)) /\ Greedy(list, row, p)
          /\ e[1] = StateAt(nfa, p, Len(p) + 1) /\ m.vars = Labels(nfa, p, Len(p))
          /\ \A f \in list[r] : f[1] = e[1] => e[2] <= f[2]
        BY <1>1, <1>3, <2>2, <2>3
    <2>4. /\ q \in Seq(EdgeNames(nfa)) /\ Len(q) = r - row + 1 /\ q[Len(q)] = e
          /\ Follows(nfa, list, row, q, Len(q)) /\ Greedy(list, row, q)
          /\ \A n \in 0 .. Len(p) : Labels(nfa, q, n) = Labels(nfa, p, n)
          /\ Labels(nfa, q, Len(q)) = Append(Labels(nfa, p, Len(p)), EdgeAt(nfa, e).var)
        <3>1. e \in list[r] /\ Len(p) = r - row
            BY <2>1, <2>2
        <3>2. Follows(nfa, list, row, p, Len(p)) /\ Greedy(list, row, p)
            BY <2>9
        <3>3. e[1] = StateAt(nfa, p, Len(p) + 1) /\ \A f \in list[r] : f[1] = e[1] => e[2] <= f[2]
            BY <2>9
        <3>4. Extends(nfa, list, row, p, e, q)
            BY <2>b, <3>1, <3>2, <3>3, AppendPath, Zenon
        <3> QED BY <2>1, <3>4 DEF Extends
    <2>5. e \in EdgeNames(nfa)
        BY <2>1, <2>2
    <2>6. EdgeAt(nfa, e).to = nfa.final <=> EdgeAt(nfa, e).var = NoVar
        BY <2>5, AutomatonFacts
    <2>7. CASE EdgeAt(nfa, e).to = nfa.final
        <3>1. FollowEdge(nfa, list[r], m) = [m EXCEPT !.state = nfa.final]
            BY <1>1, <1>3, <2>2, <2>3, <2>7 DEF FollowEdge, k
        <3>2. Accepts(nfa, list, row, q)
            BY <2>1, <2>4, <2>7 DEF Accepts, To
        <3>3. m.vars = Labels(nfa, q, Len(q) - 1)
            BY <1>1, <1>3, <2>1, <2>4, SMTT(30)
        <3> QED BY <1>1, <2>4, <3>1, <3>2, <3>3, SMTT(30) DEF Walked
    <2>8. CASE EdgeAt(nfa, e).to # nfa.final
        <3>1. FollowEdge(nfa, list[r], m)
                 = [state |-> EdgeAt(nfa, e).to, vars |-> Append(m.vars, EdgeAt(nfa, e).var),
                    ok |-> EdgeAt(nfa, e).var # NoVar]
            BY <1>1, <1>3, <2>2, <2>3, <2>8 DEF FollowEdge, k
        <3>2. StateAt(nfa, q, Len(q) + 1) = EdgeAt(nfa, e).to
            BY <2>1, <2>4, SMTT(30) DEF StateAt, To
        <3>3. PICK n : n = FollowEdge(nfa, list[r], m)
            BY SMTT(30)
        <3>4. /\ n.ok /\ n.state = StateAt(nfa, q, Len(q) + 1) /\ n.state # nfa.final
              /\ n.vars = Labels(nfa, q, Len(q))
            <4>1. n.state = EdgeAt(nfa, e).to /\ n.vars = Append(m.vars, EdgeAt(nfa, e).var)
                  /\ n.ok = (EdgeAt(nfa, e).var # NoVar)
                BY <3>1, <3>3
            <4>2. n.ok
                BY <2>6, <2>8, <4>1, Zenon
            <4> QED BY <2>4, <2>8, <2>9, <3>2, <4>1, <4>2, SMTT(30)
        <3> QED BY <2>4, <3>3, <3>4, Zenon DEF Walked
    <2> QED BY <2>7, <2>8
<1> QED BY <1>2, <1>3

\* In a list without dead ends ComputeMatchImpl fails none of its checks and returns the
\* variables of an accepting path that takes, in every row, the first marked edge.
LEMMA WalkGreedy ==
    ASSUME NEW nfa, NEW labels, IsAutomaton(nfa, labels),
           NEW list \in Seq(SUBSET EdgeNames(nfa)), NEW row \in 1 .. Len(list),
           NoDeadEnds(nfa, list), \E e \in list[row] : e[1] = nfa.start,
           NEW m, m = ComputeMatchImpl(nfa, list, row)
    PROVE  \E p : /\ m.ok /\ Accepts(nfa, list, row, p) /\ Greedy(list, row, p)
                  /\ m.vars = Labels(nfa, p, Len(p) - 1)
<1>1. PICK g \in [row - 1 .. Len(list) -> Walk(nfa, labels)] :
         /\ g[row - 1] = NewWalk(nfa)
         /\ \A r \in row .. Len(list) : g[r] = FollowEdge(nfa, list[r], g[r - 1])
         /\ ComputeMatchImpl(nfa, list, row) = g[Len(list)]
    BY ImplUnfolds
<1> DEFINE T == {r \in row - 1 .. Len(list) : Walked(nfa, list, row, r, g[r])}
<1>2. row - 1 \in T
    <2>1. Len(<<>>) = 0 /\ <<>> \in Seq(EdgeNames(nfa))
        OBVIOUS
    <2>2. Follows(nfa, list, row, <<>>, 0) /\ Greedy(list, row, <<>>)
        BY <2>1 DEF Follows, Greedy
    <2>3. Labels(nfa, <<>>, 0) = <<>> /\ StateAt(nfa, <<>>, 1) = nfa.start
        BY DEF Labels, StateAt
    <2>4. nfa.start # nfa.final
        <3>1. PICK e \in list[row] : e[1] = nfa.start
            OBVIOUS
        <3>2. e \in EdgeNames(nfa)
            OBVIOUS
        <3> QED BY <3>1, <3>2, AutomatonFacts
    <2>5. (row - 1) - row + 1 = 0 /\ row - 1 \in row - 1 .. Len(list)
        OBVIOUS
    <2>6. PICK n : n = NewWalk(nfa)
        OBVIOUS
    <2>9. PICK p \in Seq(EdgeNames(nfa)) : p = <<>>
        BY <2>1, Zenon
    <2>7. /\ n.ok /\ Follows(nfa, list, row, p, Len(p)) /\ Greedy(list, row, p)
          /\ n.state = StateAt(nfa, p, Len(p) + 1) /\ n.state # nfa.final
          /\ Len(p) = (row - 1) - row + 1 /\ n.vars = Labels(nfa, p, Len(p))
        BY <2>1, <2>2, <2>3, <2>4, <2>5, <2>6, <2>9 DEF NewWalk
    <2>8. Walked(nfa, list, row, row - 1, n)
        BY <2>7, Zenon DEF Walked
    <2> QED BY <1>1, <2>5, <2>6, <2>8
<1>3. ASSUME NEW i \in row - 1 .. Len(list) - 1, i \in T PROVE i + 1 \in T
    <2>1. i + 1 \in row .. Len(list) /\ (i + 1) - 1 = i /\ i + 1 \in row - 1 .. Len(list)
        OBVIOUS
    <2>2. g[i + 1] = FollowEdge(nfa, list[i + 1], g[i]) /\ Walked(nfa, list, row, i, g[i])
        BY <1>1, <1>3, <2>1, SMTT(30)
    <2>3. ASSUME g[i].state # nfa.final PROVE \E f \in list[i + 1] : f[1] = g[i].state
        <3>1. PICK p \in Seq(EdgeNames(nfa)) :
                 /\ Follows(nfa, list, row, p, Len(p)) /\ Len(p) = i - row + 1
                 /\ g[i].state = StateAt(nfa, p, Len(p) + 1)
            BY <2>2, <2>3, SMTT(30) DEF Walked
        <3>2. CASE i = row - 1
            BY <1>1, <3>2 DEF NewWalk
        <3>3. CASE i # row - 1
            <4>1. Len(p) \in 1 .. Len(p) /\ row + Len(p) - 1 = i /\ i \in 1 .. Len(list) /\ i < Len(list)
                <5>1. Len(p) \in Nat /\ Len(list) \in Nat
                    OBVIOUS
                <5> QED BY <3>1, <3>3, <5>1
            <4>2. p[Len(p)] \in list[i]
                BY <3>1, <4>1 DEF Follows
            <4>3. g[i].state = To(nfa, p[Len(p)])
                BY <3>1, <4>1 DEF StateAt
            <4> QED BY <2>3, <4>1, <4>2, <4>3, Zenon DEF NoDeadEnds
        <3> QED BY <3>2, <3>3
    <2>4. Walked(nfa, list, row, (i + 1) - 1, g[i])
        BY <2>1, <2>2
    <2>5. Walked(nfa, list, row, i + 1, FollowEdge(nfa, list[i + 1], g[i]))
        BY <2>1, <2>3, <2>4, FollowEdgeWalks, SMTT(30)
    <2> QED BY <2>1, <2>2, <2>5
<1> HIDE DEF T
<1>4. row - 1 .. Len(list) \subseteq T
    <2>1. row - 1 \in Int /\ Len(list) \in Int
        OBVIOUS
    <2> QED BY <1>2, <1>3, <2>1, InductionUp, Zenon
<1>5. Walked(nfa, list, row, Len(list), m)
    BY <1>1, <1>4 DEF T
<1>6. PICK p \in Seq(EdgeNames(nfa)) :
       /\ m.ok
       /\ Follows(nfa, list, row, p, Len(p)) /\ Greedy(list, row, p)
       /\ \/ /\ Accepts(nfa, list, row, p) /\ m.state = nfa.final
             /\ m.vars = Labels(nfa, p, Len(p) - 1)
          \/ /\ m.state = StateAt(nfa, p, Len(p) + 1) /\ m.state # nfa.final
             /\ Len(p) = Len(list) - row + 1 /\ m.vars = Labels(nfa, p, Len(p))
    BY <1>5 DEF Walked
<1>7. ASSUME m.state = StateAt(nfa, p, Len(p) + 1), m.state # nfa.final, Len(p) = Len(list) - row + 1
      PROVE  FALSE
    <2>1. Len(p) \in 1 .. Len(p) /\ row + Len(p) - 1 = Len(list) /\ Len(list) \in 1 .. Len(list)
        BY <1>7
    <2>2. p[Len(p)] \in list[Len(list)]
        BY <1>6, <2>1 DEF Follows
    <2>3. m.state = To(nfa, p[Len(p)])
        BY <1>7, <2>1 DEF StateAt
    <2> QED BY <1>7, <2>1, <2>2, <2>3 DEF NoDeadEnds
<1> QED BY <1>6, <1>7

\* A path does not pass through the final state: no edge leaves it.
LEMMA LeavesNotFinal ==
    ASSUME NEW nfa, NEW labels, IsAutomaton(nfa, labels), NEW sets, NEW j, NEW p,
           NEW n \in Nat, Follows(nfa, sets, j, p, n),
           \A r \in DOMAIN sets : sets[r] \in SUBSET EdgeNames(nfa), NEW i \in 1 .. n - 1
    PROVE  To(nfa, p[i]) # nfa.final
<1>1. i + 1 \in 1 .. n /\ i + 1 # 1 /\ (i + 1) - 1 = i
    OBVIOUS
<1>2. p[i + 1][1] = To(nfa, p[i]) /\ p[i + 1] \in EdgeNames(nfa)
    BY <1>1 DEF Follows, StateAt
<1> QED BY <1>2, AutomatonFacts

\* A path that takes the first marked edge in every row precedes all other accepting paths:
\* taking the best edge row by row gives the match of highest precedence.
LEMMA GreedyIsEarlier ==
    ASSUME NEW nfa, NEW labels, IsAutomaton(nfa, labels), NEW sets, NEW j,
           \A r \in DOMAIN sets : sets[r] \in SUBSET EdgeNames(nfa),
           NEW p, Accepts(nfa, sets, j, p), Greedy(sets, j, p),
           NEW q, Accepts(nfa, sets, j, q)
    PROVE  p = q \/ Earlier(p, q)
<1> DEFINE D == {i \in DOMAIN p \cap DOMAIN q : p[i] # q[i]}
<1>1. /\ p \in Seq(EdgeNames(nfa)) /\ p # <<>> /\ q \in Seq(EdgeNames(nfa)) /\ q # <<>>
      /\ Follows(nfa, sets, j, p, Len(p)) /\ Follows(nfa, sets, j, q, Len(q))
      /\ To(nfa, p[Len(p)]) = nfa.final /\ To(nfa, q[Len(q)]) = nfa.final
    BY DEF Accepts
<1>2. /\ Len(p) \in Nat \ {0} /\ DOMAIN p = 1 .. Len(p)
      /\ Len(q) \in Nat \ {0} /\ DOMAIN q = 1 .. Len(q)
    BY <1>1
<1>3. CASE D = {}
    <2>1. \A i \in DOMAIN p \cap DOMAIN q : p[i] = q[i]
        BY <1>3
    <2>2. ~(Len(p) < Len(q))
        <3> SUFFICES ASSUME Len(p) < Len(q) PROVE FALSE
            OBVIOUS
        <3>1. Len(p) \in 1 .. Len(q) - 1 /\ Len(p) \in DOMAIN p \cap DOMAIN q
            BY <1>2
        <3>2. To(nfa, q[Len(p)]) # nfa.final
            BY <1>1, <1>2, <3>1, LeavesNotFinal
        <3> QED BY <1>1, <2>1, <3>1, <3>2
    <2>3. ~(Len(q) < Len(p))
        <3> SUFFICES ASSUME Len(q) < Len(p) PROVE FALSE
            OBVIOUS
        <3>1. Len(q) \in 1 .. Len(p) - 1 /\ Len(q) \in DOMAIN p \cap DOMAIN q
            BY <1>2
        <3>2. To(nfa, p[Len(q)]) # nfa.final
            BY <1>1, <1>2, <3>1, LeavesNotFinal
        <3> QED BY <1>1, <2>1, <3>1, <3>2
    <2>4. Len(p) = Len(q)
        <3>1. Len(p) \in Int /\ Len(q) \in Int
            BY <1>2
        <3> QED BY <2>2, <2>3, <3>1
    <2> QED BY <1>1, <1>2, <2>1, <2>4
<1>4. CASE D # {}
    <2>1. D \in SUBSET Nat
        BY <1>2
    <2>2. PICK i : i \in D /\ \A k \in D : i <= k
        <3> HIDE DEF D
        <3> QED BY <1>4, <2>1, Least
    <2>3. i \in 1 .. Len(p) /\ i \in 1 .. Len(q) /\ i \in DOMAIN p \cap DOMAIN q /\ p[i] # q[i]
        BY <1>2, <2>2
    <2>4. ASSUME NEW k \in 1 .. i - 1 PROVE p[k] = q[k]
        <3>1. k \in DOMAIN p \cap DOMAIN q /\ ~(i <= k)
            BY <1>2, <2>3
        <3> QED BY <2>2, <3>1
    <2>5. StateAt(nfa, p, i) = StateAt(nfa, q, i)
        <3>1. i # 1 => i - 1 \in 1 .. i - 1
            BY <2>3
        <3> QED BY <2>4, <3>1 DEF StateAt
    <2>6. q[i][1] = p[i][1] /\ q[i] \in sets[j + i - 1]
        BY <1>1, <2>3, <2>5 DEF Follows
    <2>7. p[i][2] <= q[i][2]
        BY <2>3, <2>6 DEF Greedy
    <2>8. p[i] \in EdgeNames(nfa) /\ q[i] \in EdgeNames(nfa)
        BY <1>1, <2>3
    <2>9. /\ p[i] = <<p[i][1], p[i][2]>> /\ q[i] = <<q[i][1], q[i][2]>>
          /\ p[i][2] \in Nat /\ q[i][2] \in Nat
        BY <2>8, AutomatonFacts
    <2>10. p[i][2] < q[i][2]
        BY <2>3, <2>6, <2>7, <2>9
    <2> QED BY <2>3, <2>4, <2>10 DEF Earlier
<1> QED BY <1>3, <1>4

-----------------------------------------------------------------------------
\* marked holds the edges of U that can be reached, from its first row on, by paths that start
\* in one of the rows up to starts.
Marks(nfa, marked, U, offset, starts) ==
    \A j \in 1 .. Len(marked) :
       marked[j] = EdgesFrom(nfa, (IF j <= starts THEN {nfa.start} ELSE {})
                                  \cup (IF j = 1 THEN {} ELSE Targets(nfa, marked[j - 1])))
                   \cap U[offset + j]

\* An edge is one of those from the state it leaves.
LEMMA EdgesFromState ==
    ASSUME NEW nfa, NEW e \in EdgeNames(nfa), NEW states, e[1] \in states
    PROVE  e \in EdgesFrom(nfa, states)
<1>1. PICK s \in DOMAIN nfa.edges : e \in {s} \X DOMAIN nfa.edges[s]
    BY DEF EdgeNames, EdgesFrom
<1>2. s = e[1] /\ e \in {e[1]} \X DOMAIN nfa.edges[e[1]]
    BY <1>1
<1> QED BY <1>2 DEF EdgesFrom

\* The edges from given states leave these states.
LEMMA StateOfEdge ==
    ASSUME NEW nfa, NEW states, NEW e \in EdgesFrom(nfa, states)
    PROVE  e[1] \in states
<1>1. PICK s \in states : e \in {s} \X DOMAIN nfa.edges[s]
    BY DEF EdgesFrom
<1> QED BY <1>1

\* NFAEdgeTracker marks the edges of every path that starts in a row where a match may start.
LEMMA PathsAreMarked ==
    ASSUME NEW nfa, NEW U, NEW offset \in Nat, NEW marked \in Seq(SUBSET EdgeNames(nfa)),
           NEW starts \in Nat, Marks(nfa, marked, U, offset, starts),
           \A r \in DOMAIN U : U[r] \in SUBSET EdgeNames(nfa),
           NEW j \in Nat, 1 <= j, j <= starts, NEW p, NEW n \in Nat,
           Follows(nfa, U, offset + j, p, n), j + n - 1 <= Len(marked)
    PROVE  Follows(nfa, marked, j, p, n)
<1> DEFINE T == {i \in 0 .. n : i = 0 \/ p[i] \in marked[j + i - 1]}
<1>1. 0 \in T
    OBVIOUS
<1>2. ASSUME NEW i \in 0 .. n - 1, i \in T PROVE i + 1 \in T
    <2>1. /\ i + 1 \in 1 .. n /\ j + (i + 1) - 1 \in 1 .. Len(marked) /\ i + 1 \in 0 .. n
          /\ j + (i + 1) - 1 = j + i /\ offset + j + (i + 1) - 1 = offset + (j + i)
        OBVIOUS
    <2>2. /\ p[i + 1][1] = StateAt(nfa, p, i + 1) /\ p[i + 1] \in U[offset + (j + i)]
          /\ offset + (j + i) \in DOMAIN U
        BY <2>1, Zenon DEF Follows
    <2>3. p[i + 1] \in EdgeNames(nfa)
        BY <2>2
    <2>4. CASE i = 0
        <3>1. p[i + 1][1] = nfa.start /\ j + i <= starts
            BY <2>2, <2>4 DEF StateAt
        <3>2. p[i + 1] \in marked[j + i]
            BY <2>1, <2>2, <2>3, <3>1, EdgesFromState, Zenon DEF Marks
        <3> QED BY <2>1, <3>2
    <2>5. CASE i # 0
        <3>1. /\ p[i] \in marked[j + i - 1] /\ j + i # 1 /\ i + 1 # 1 /\ (i + 1) - 1 = i
            BY <1>2, <2>5
        <3>2. p[i + 1][1] \in Targets(nfa, marked[(j + i) - 1])
            BY <2>2, <3>1, SMTT(30) DEF StateAt, Targets, To
        <3>3. p[i + 1] \in marked[j + i]
            BY <2>1, <2>2, <2>3, <3>1, <3>2, EdgesFromState, Zenon DEF Marks
        <3> QED BY <2>1, <3>3
    <2> QED BY <2>4, <2>5
<1>3. 0 .. n \subseteq T
    <2> HIDE DEF T
    <2> QED BY <1>1, <1>2, InductionUp, SMTT(30)
<1>4. ASSUME NEW i \in 1 .. n
      PROVE  p[i][1] = StateAt(nfa, p, i) /\ j + i - 1 \in DOMAIN marked /\ p[i] \in marked[j + i - 1]
    <2>1. i \in T /\ i # 0 /\ j + i - 1 \in 1 .. Len(marked)
        BY <1>3, SMTT(30)
    <2> QED BY <2>1, SMTT(30) DEF Follows
<1> QED BY <1>4 DEF Follows
\* FinalizeMarkedEdges keeps every accepting path, in longest-match mode every one that ends
\* where no match can go on.
LEMMA PathsAreKept ==
    ASSUME NEW nfa, NEW labels, IsAutomaton(nfa, labels),
           NEW marked \in Seq(SUBSET EdgeNames(nfa)), NEW longest \in BOOLEAN,
           NEW kept, kept = FinalizeMarkedEdges(nfa, marked, longest),
           NEW j \in Nat \ {0}, NEW p, Accepts(nfa, marked, j, p),
           longest => ~CanContinueMatch(nfa, marked[j + Len(p) - 1])
    PROVE  Accepts(nfa, kept, j, p)
<1> DEFINE n == Len(p)
           T == {i \in 1 .. n : p[i] \in kept[j + i - 1]}
<1>1. /\ kept \in Seq(SUBSET EdgeNames(nfa)) /\ Len(kept) = Len(marked)
      /\ \A r \in 1 .. Len(marked) :
            kept[r] = Keep(nfa, marked, longest, r,
                           IF r = Len(marked) THEN {} ELSE Sources(kept[r + 1]))
    <2>1. PICK E : E = EdgeNames(nfa)
        OBVIOUS
    <2>2. marked \in Seq(SUBSET E)
        BY <2>1
    <2>3. IsKept(nfa, E, marked, longest, kept)
        BY <2>2, FinalizeUnfolds, Zenon
    <2> QED BY <2>1, <2>3 DEF IsKept
<1>2. /\ p \in Seq(EdgeNames(nfa)) /\ p # <<>> /\ Follows(nfa, marked, j, p, n)
      /\ To(nfa, p[n]) = nfa.final /\ n \in Nat \ {0}
    BY DEF Accepts
<1>3. \A r \in DOMAIN marked : marked[r] \in SUBSET EdgeNames(nfa)
    OBVIOUS
<1>4. \A i \in 1 .. n - 1 : To(nfa, p[i]) # nfa.final
    <2> HIDE DEF n
    <2> QED BY <1>2, <1>3, LeavesNotFinal
<1>5. \A i \in 1 .. n : p[i] \in marked[j + i - 1] /\ j + i - 1 \in 1 .. Len(marked)
    BY <1>2 DEF Follows
<1> HIDE DEF n
<1>6. n \in T
    <2>1. n \in 1 .. n
        BY <1>2
    <2>2. p[n] \in Keep(nfa, marked, longest, j + n - 1,
                        IF j + n - 1 = Len(marked) THEN {} ELSE Sources(kept[j + n - 1 + 1]))
        BY <1>2, <1>5, <2>1, Zenon DEF Keep, To, n
    <2> QED BY <1>1, <1>5, <2>1, <2>2, Zenon
<1>7. ASSUME NEW i \in 1 + 1 .. n, i \in T PROVE i - 1 \in T
    <2>1. i - 1 \in 1 .. n /\ i - 1 \in 1 .. n - 1 /\ i \in 1 .. n /\ i # 1
        BY <1>2
    <2>2. PICK k : k = j + (i - 1) - 1
        OBVIOUS
    <2>3. k \in 1 .. Len(marked) /\ k + 1 \in 1 .. Len(marked) /\ k + 1 = j + i - 1 /\ k # Len(marked)
        <3>1. k \in 1 .. Len(marked) /\ k + 1 = j + i - 1
            BY <1>5, <2>1, <2>2
        <3>2. k + 1 \in 1 .. Len(marked)
            BY <1>5, <2>1, <3>1
        <3> QED BY <3>1, <3>2
    <2>4. p[i][1] = To(nfa, p[i - 1]) /\ p[i] \in kept[k + 1]
        BY <1>2, <1>7, <2>1, <2>3, Zenon DEF Follows, StateAt
    <2>5. To(nfa, p[i - 1]) \in Sources(kept[k + 1])
        BY <2>4 DEF Sources
    <2>6. p[i - 1] \in Keep(nfa, marked, longest, k, Sources(kept[k + 1]))
        BY <1>4, <1>5, <2>1, <2>2, <2>5 DEF Keep, To
    <2>7. p[i - 1] \in kept[k]
        BY <1>1, <2>3, <2>6
    <2> QED BY <2>1, <2>2, <2>7
<1>8. 1 .. n \subseteq T
    <2> HIDE DEF T
    <2>1. 1 \in Int /\ n \in Int
        BY <1>2
    <2> QED BY <1>6, <1>7, <2>1, InductionDown, SMTT(30)
<1>9. ASSUME NEW i \in 1 .. n
      PROVE  p[i][1] = StateAt(nfa, p, i) /\ j + i - 1 \in DOMAIN kept /\ p[i] \in kept[j + i - 1]
    <2>1. p[i][1] = StateAt(nfa, p, i)
        BY <1>2 DEF Follows
    <2>2. j + i - 1 \in DOMAIN kept
        BY <1>1, <1>5
    <2>3. i \in T
        BY <1>8
    <2> QED BY <2>1, <2>2, <2>3
<1>10. Follows(nfa, kept, j, p, n)
    BY <1>9 DEF Follows
<1> QED BY <1>2, <1>10 DEF Accepts, n

\* FinalizeMarkedEdges returns one set of marked edges per row, and no dead ends.
LEMMA KeptEdges ==
    ASSUME NEW nfa, NEW marked \in Seq(SUBSET EdgeNames(nfa)), NEW longest \in BOOLEAN,
           NEW kept, kept = FinalizeMarkedEdges(nfa, marked, longest)
    PROVE  /\ kept \in Seq(SUBSET EdgeNames(nfa)) /\ Len(kept) = Len(marked)
           /\ \A r \in 1 .. Len(kept) : kept[r] \subseteq marked[r]
           /\ NoDeadEnds(nfa, kept)
<1>1. /\ kept \in Seq(SUBSET EdgeNames(nfa)) /\ Len(kept) = Len(marked)
      /\ \A r \in 1 .. Len(marked) :
            kept[r] = Keep(nfa, marked, longest, r,
                           IF r = Len(marked) THEN {} ELSE Sources(kept[r + 1]))
    <2>1. PICK E : E = EdgeNames(nfa)
        OBVIOUS
    <2>2. marked \in Seq(SUBSET E)
        BY <2>1
    <2>3. IsKept(nfa, E, marked, longest, kept)
        BY <2>2, FinalizeUnfolds, Zenon
    <2> QED BY <2>1, <2>3 DEF IsKept
<1>2. ASSUME NEW r \in 1 .. Len(kept) PROVE kept[r] \subseteq marked[r]
    BY <1>1 DEF Keep
<1>3. ASSUME NEW r \in 1 .. Len(kept), NEW e \in kept[r]
      PROVE  \/ To(nfa, e) = nfa.final
             \/ r < Len(kept) /\ \E f \in kept[r + 1] : f[1] = To(nfa, e)
    <2>1. e \in Keep(nfa, marked, longest, r, IF r = Len(marked) THEN {} ELSE Sources(kept[r + 1]))
        BY <1>1
    <2>2. CASE r = Len(marked)
        BY <2>1, <2>2 DEF Keep, To
    <2>3. CASE r # Len(marked)
        <3>1. r < Len(kept)
            BY <1>1, <2>3
        <3>2. To(nfa, e) = nfa.final \/ To(nfa, e) \in Sources(kept[r + 1])
            BY <2>1, <2>3 DEF Keep, To
        <3> QED BY <3>1, <3>2 DEF Sources
    <2> QED BY <2>2, <2>3
<1>4. NoDeadEnds(nfa, kept)
    BY <1>3 DEF NoDeadEnds
<1> QED BY <1>1, <1>2, <1>4

\* The tracker has marked, in the rows behind offset, what Marks says.
Tracks(nfa, tracker, U, offset, starts) ==
    /\ tracker \in Tracker(nfa)
    /\ Marks(nfa, tracker.marked, U, offset, starts)
    /\ tracker.inputs = IF tracker.marked = <<>> THEN {}
                        ELSE Targets(nfa, tracker.marked[Len(tracker.marked)])

\* What a call of ProcessRow returns, marked being the marks with those of the new row.
Processed(nfa, tracker, U, offset, starts, longest, marked, s) ==
    /\ marked \in Seq(SUBSET EdgeNames(nfa)) /\ Len(marked) = Len(tracker.marked) + 1
    /\ \A i \in 1 .. Len(tracker.marked) : marked[i] = tracker.marked[i]
    /\ Marks(nfa, marked, U, offset, starts)
    /\ \/ /\ CanContinueMatch(nfa, marked[Len(marked)]) /\ s.list = <<>>
          /\ s.tracker.marked = marked /\ Tracks(nfa, s.tracker, U, offset, starts)
       \/ /\ ~CanContinueMatch(nfa, marked[Len(marked)]) /\ s.tracker = NewTracker
          /\ s.list = FinalizeMarkedEdges(nfa, marked, longest)

\* ProcessRow marks the edges of one more row and returns a list exactly when no match can
\* continue; then the tracker is new again.
LEMMA ProcessRowTracks ==
    ASSUME NEW nfa, NEW labels, IsAutomaton(nfa, labels), NEW tracker, NEW U,
           NEW offset \in Nat, NEW starts \in Nat, Tracks(nfa, tracker, U, offset, starts),
           NEW disallow \in BOOLEAN, NEW longest \in BOOLEAN,
           (~disallow /\ ~(longest /\ tracker.marked # <<>>)) <=> Len(tracker.marked) + 1 <= starts,
           NEW allowed, allowed = U[offset + (Len(tracker.marked) + 1)],
           NEW s, s = ProcessRow(nfa, tracker, allowed, disallow, longest)
    PROVE  \E marked : Processed(nfa, tracker, U, offset, starts, longest, marked, s)
<1> DEFINE begins == ~disallow /\ ~(longest /\ tracker.marked # <<>>)
           sources == tracker.inputs \cup (IF begins THEN {nfa.start} ELSE {})
           marks == EdgesFrom(nfa, sources) \cap allowed
           marked == Append(tracker.marked, marks)
           n == Len(tracker.marked)
<1>1. /\ tracker.marked \in Seq(SUBSET EdgeNames(nfa)) /\ tracker.inputs \in SUBSET DOMAIN nfa.edges
      /\ tracker \in Tracker(nfa) /\ n \in Nat
    BY DEF Tracks, Tracker
<1>2. marks \in SUBSET EdgeNames(nfa)
    <2>1. sources \subseteq DOMAIN nfa.edges
        BY <1>1, AutomatonFacts
    <2> HIDE DEF sources
    <2> QED BY <2>1 DEF EdgesFrom, EdgeNames
<1>3. sources = (IF n + 1 <= starts THEN {nfa.start} ELSE {})
                \cup (IF n + 1 = 1 THEN {} ELSE Targets(nfa, tracker.marked[n]))
    <2>1. n + 1 = 1 <=> tracker.marked = <<>>
        BY <1>1
    <2>2. tracker.inputs = IF n + 1 = 1 THEN {} ELSE Targets(nfa, tracker.marked[n])
        BY <2>1 DEF Tracks
    <2>3. begins <=> n + 1 <= starts
        OBVIOUS
    <2> HIDE DEF begins, n
    <2> QED BY <2>2, <2>3
<1> HIDE DEF sources
<1>4. /\ marked \in Seq(SUBSET EdgeNames(nfa)) /\ Len(marked) = n + 1 /\ marked[n + 1] = marks
      /\ \A i \in 1 .. n : marked[i] = tracker.marked[i]
    <2> HIDE DEF marks
    <2> QED BY <1>1, <1>2
<1>5. Marks(nfa, marked, U, offset, starts)
    <2> SUFFICES ASSUME NEW j \in 1 .. n + 1
                 PROVE  marked[j] = EdgesFrom(nfa, (IF j <= starts THEN {nfa.start} ELSE {})
                                  \cup (IF j = 1 THEN {} ELSE Targets(nfa, marked[j - 1])))
                                  \cap U[offset + j]
        BY <1>4, Zenon DEF Marks
    <2>1. CASE j = n + 1
        <3>1. n + 1 = 1 \/ marked[(n + 1) - 1] = tracker.marked[n]
            BY <1>1, <1>4
        <3>2. sources = (IF j <= starts THEN {nfa.start} ELSE {})
                        \cup (IF j = 1 THEN {} ELSE Targets(nfa, marked[j - 1]))
            <4> HIDE DEF marked
            <4> QED BY <1>3, <2>1, <3>1
        <3>3. marked[j] = EdgesFrom(nfa, sources) \cap U[offset + j]
            <4> HIDE DEF marked
            <4> QED BY <1>4, <2>1
        <3> HIDE DEF marked
        <3> QED BY <3>2, <3>3
    <2>2. CASE j # n + 1
        <3>1. j \in 1 .. n /\ (j = 1 \/ j - 1 \in 1 .. n)
            BY <1>1, <2>2, SMTT(30)
        <3>2. tracker.marked[j] = EdgesFrom(nfa, (IF j <= starts THEN {nfa.start} ELSE {})
                             \cup (IF j = 1 THEN {} ELSE Targets(nfa, tracker.marked[j - 1])))
                             \cap U[offset + j]
            BY <3>1, Zenon DEF Tracks, Marks
        <3> HIDE DEF marked
        <3> QED BY <1>4, <3>1, <3>2, Zenon
    <2> QED BY <2>1, <2>2, Zenon
<1>6. CASE CanContinueMatch(nfa, marks)
    <2>1. s = [tracker |-> [marked |-> marked, inputs |-> Targets(nfa, marks)], list |-> <<>>]
        BY <1>6 DEF ProcessRow, Targets, sources
    <2> HIDE DEF marked, marks
    <2>2. s.list = <<>> /\ s.tracker.marked = marked /\ s.tracker.inputs = Targets(nfa, marks)
        BY <2>1
    <2>3. Targets(nfa, marks) \in SUBSET DOMAIN nfa.edges
        BY <1>2, AutomatonFacts, SMTT(30) DEF Targets
    <2>4. s.tracker \in Tracker(nfa)
        BY <1>4, <2>1, <2>3 DEF Tracker
    <2>5. marked # <<>> /\ marked[Len(marked)] = marks
        BY <1>1, <1>4, SMTT(30)
    <2>6. Tracks(nfa, s.tracker, U, offset, starts)
        BY <1>5, <2>2, <2>4, <2>5, SMTT(30) DEF Tracks
    <2> QED BY <1>4, <1>5, <1>6, <2>2, <2>5, <2>6, SMTT(30) DEF Processed
<1>7. CASE ~CanContinueMatch(nfa, marks)
    <2>1. s = [tracker |-> NewTracker, list |-> FinalizeMarkedEdges(nfa, marked, longest)]
        BY <1>7 DEF ProcessRow, sources
    <2> HIDE DEF marked, marks
    <2>2. s.tracker = NewTracker /\ s.list = FinalizeMarkedEdges(nfa, marked, longest)
        BY <2>1
    <2> QED BY <1>4, <1>5, <1>7, <2>2, SMTT(30) DEF Processed
<1> QED BY <1>6, <1>7

\* A new tracker has marked no row.
LEMMA NewTrackerTracks ==
    ASSUME NEW nfa, NEW U, NEW offset, NEW starts
    PROVE  Tracks(nfa, NewTracker, U, offset, starts)
<1>1. NewTracker.marked = <<>> /\ NewTracker.inputs = {} /\ Len(<<>>) = 0
    BY DEF NewTracker
<1> QED BY <1>1, NewTrackerType DEF Tracks, Marks

\* A single row of edges kept in longest-match mode: where a match can go on, it does.
LEMMA LongestKept ==
    ASSUME NEW nfa, NEW marked \in Seq(SUBSET EdgeNames(nfa)),
           NEW kept, kept = FinalizeMarkedEdges(nfa, marked, TRUE),
           NEW r \in 1 .. Len(marked), NEW e \in kept[r], CanContinueMatch(nfa, marked[r])
    PROVE  To(nfa, e) # nfa.final
<1>1. PICK E : E = EdgeNames(nfa)
    OBVIOUS
<1>2. marked \in Seq(SUBSET E)
    BY <1>1
<1>3. IsKept(nfa, E, marked, TRUE, kept)
    BY <1>2, FinalizeUnfolds, Zenon
<1> QED BY <1>3, Zenon DEF IsKept, Keep, To

\* The second tracker of ComputeLongestMatchModeMatch before it has returned a list, and after.
Searching(nfa, list, row, r, t) ==
    /\ t.list = <<>> /\ Tracks(nfa, t.tracker, list, row - 1, 1)
    /\ Len(t.tracker.marked) = r - row + 1
    /\ \A i \in 1 .. Len(t.tracker.marked) : CanContinueMatch(nfa, t.tracker.marked[i])

\* The list that the second tracker returns: the marks of the paths from row row alone, up to
\* the first row where none of them can continue.
Specific(nfa, list, row, marked, specific) ==
    /\ marked \in Seq(SUBSET EdgeNames(nfa)) /\ marked # <<>> /\ Len(marked) <= Len(list) - row + 1
    /\ Marks(nfa, marked, list, row - 1, 1)
    /\ \A i \in 1 .. Len(marked) - 1 : CanContinueMatch(nfa, marked[i])
    /\ ~CanContinueMatch(nfa, marked[Len(marked)])
    /\ specific = FinalizeMarkedEdges(nfa, marked, TRUE)

\* The second tracker's loop has fed it the rows up to r, or has its list.
Searched(nfa, list, row, r, t) ==
    Searching(nfa, list, row, r, t) \/ \E marked : Specific(nfa, list, row, marked, t.list)

\* The list of the second tracker has at least one row.
LEMMA SpecificIsList ==
    ASSUME NEW nfa, NEW list, NEW row, NEW marked, NEW specific,
           Specific(nfa, list, row, marked, specific)
    PROVE  specific # <<>>
<1>1. marked \in Seq(SUBSET EdgeNames(nfa)) /\ marked # <<>>
      /\ specific = FinalizeMarkedEdges(nfa, marked, TRUE)
    BY DEF Specific
<1>2. specific \in Seq(SUBSET EdgeNames(nfa)) /\ Len(specific) = Len(marked)
    BY <1>1, KeptEdges, Zenon
<1>3. Len(marked) # 0
    BY <1>1
<1> QED BY <1>2, <1>3

\* A turn of the loop of ComputeLongestMatchModeMatch feeds the tracker one more row, or
\* keeps the list it has.
LEMMA TrackRowSearches ==
    ASSUME NEW nfa, NEW labels, IsAutomaton(nfa, labels),
           NEW list \in Seq(SUBSET EdgeNames(nfa)), NEW row \in 1 .. Len(list),
           NEW r \in row .. Len(list), NEW t, Searched(nfa, list, row, r - 1, t)
    PROVE  Searched(nfa, list, row, r, TrackRow(nfa, list[r], t))
<1>1. CASE \E marked : Specific(nfa, list, row, marked, t.list)
    <2>1. t.list # <<>>
        BY <1>1, SpecificIsList
    <2>2. TrackRow(nfa, list[r], t) = t
        BY <2>1 DEF TrackRow
    <2> QED BY <1>1, <2>2, SMTT(30) DEF Searched
<1>2. CASE Searching(nfa, list, row, r - 1, t)
    <2> DEFINE n == Len(t.tracker.marked)
    <2>1. /\ t.list = <<>> /\ Tracks(nfa, t.tracker, list, row - 1, 1) /\ n = (r - 1) - row + 1
          /\ \A i \in 1 .. n : CanContinueMatch(nfa, t.tracker.marked[i])
        BY <1>2 DEF Searching
    <2>2. PICK s : s = ProcessRow(nfa, t.tracker, list[r], FALSE, TRUE)
        BY Zenon
    <2>3. TrackRow(nfa, list[r], t) = s
        BY <2>1, <2>2 DEF TrackRow
    <2>4. t.tracker.marked \in Seq(SUBSET EdgeNames(nfa)) /\ n \in Nat
        BY <2>1 DEF Tracks, Tracker
    <2>5. (row - 1) + (n + 1) = r /\ row - 1 \in Nat
        BY <2>1, <2>4
    <2>6. (~FALSE /\ ~(TRUE /\ t.tracker.marked # <<>>)) <=> n + 1 <= 1
        BY <2>4, SMTT(30)
    <2>7. PICK marked : Processed(nfa, t.tracker, list, row - 1, 1, TRUE, marked, s)
        <3>1. PICK tracker : tracker = t.tracker
            OBVIOUS
        <3>2. PICK allowed : allowed = list[r]
            OBVIOUS
        <3>3. PICK offset \in Nat : offset = row - 1
            BY <2>5, SMTT(30)
        <3>4. /\ Tracks(nfa, tracker, list, offset, 1)
              /\ (~FALSE /\ ~(TRUE /\ tracker.marked # <<>>)) <=> Len(tracker.marked) + 1 <= 1
              /\ allowed = list[offset + (Len(tracker.marked) + 1)]
              /\ s = ProcessRow(nfa, tracker, allowed, FALSE, TRUE)
            BY <2>1, <2>2, <2>5, <2>6, <3>1, <3>2, <3>3
        <3>5. \E marked : Processed(nfa, tracker, list, offset, 1, TRUE, marked, s)
            BY <3>4, ProcessRowTracks, Zenon
        <3> QED BY <3>1, <3>3, <3>5, Zenon
    <2>8. /\ marked \in Seq(SUBSET EdgeNames(nfa)) /\ Len(marked) = n + 1
          /\ \A i \in 1 .. n : marked[i] = t.tracker.marked[i]
          /\ Marks(nfa, marked, list, row - 1, 1)
        BY <2>7 DEF Processed
    <2>9. \A i \in 1 .. Len(marked) - 1 : CanContinueMatch(nfa, marked[i])
        BY <2>1, <2>4, <2>8, SMTT(30)
    <2>10. CASE CanContinueMatch(nfa, marked[Len(marked)])
        <3>1. s.list = <<>> /\ s.tracker.marked = marked /\ Tracks(nfa, s.tracker, list, row - 1, 1)
            BY <2>7, <2>10, SMTT(30) DEF Processed
        <3>2. Len(marked) = r - row + 1
            BY <2>1, <2>4, <2>8
        <3>3. \A i \in 1 .. Len(marked) : CanContinueMatch(nfa, marked[i])
            BY <2>9, <2>10, <2>4, <2>8, SMTT(30)
        <3> QED BY <2>3, <3>1, <3>2, <3>3, SMTT(30) DEF Searched, Searching
    <2>11. CASE ~CanContinueMatch(nfa, marked[Len(marked)])
        <3>1. s.list = FinalizeMarkedEdges(nfa, marked, TRUE)
            BY <2>7, <2>11, Zenon DEF Processed
        <3>2. Len(marked) <= Len(list) - row + 1 /\ marked # <<>>
            BY <2>1, <2>4, <2>8, SMTT(30)
        <3>3. Specific(nfa, list, row, marked, s.list)
            BY <2>8, <2>9, <2>11, <3>1, <3>2, SMTT(30) DEF Specific
        <3> QED BY <2>3, <3>3 DEF Searched
    <2> QED BY <2>10, <2>11
<1> QED BY <1>1, <1>2 DEF Searched

\* In a list without dead ends the second tracker returns a list before the rows end, so
\* "Shouldn't get here" is not reached.
LEMMA SearchEnds ==
    ASSUME NEW nfa, NEW labels, IsAutomaton(nfa, labels),
           NEW list \in Seq(SUBSET EdgeNames(nfa)), NEW row \in 1 .. Len(list), NoDeadEnds(nfa, list)
    PROVE  \E marked, specific :
              /\ Specific(nfa, list, row, marked, specific)
              /\ ComputeLongestMatchModeMatch(nfa, list, row) = ComputeMatchImpl(nfa, specific, 1)
<1>1. PICK g \in [row - 1 .. Len(list) -> Tracked(nfa)] :
         /\ g[row - 1] = NewTracked
         /\ \A r \in row .. Len(list) : g[r] = TrackRow(nfa, list[r], g[r - 1])
         /\ ComputeLongestMatchModeMatch(nfa, list, row)
               = IF g[Len(list)].list = <<>>
                 THEN [state |-> nfa.start, vars |-> <<>>, ok |-> FALSE]
                 ELSE ComputeMatchImpl(nfa, g[Len(list)].list, 1)
    BY TrackUnfolds, Zenon
<1> DEFINE T == {r \in row - 1 .. Len(list) : Searched(nfa, list, row, r, g[r])}
<1>2. row - 1 \in T
    <2>1. PICK t : t = NewTracked
        OBVIOUS
    <2>2. t.list = <<>> /\ t.tracker = NewTracker /\ t.tracker.marked = <<>>
        BY <2>1 DEF NewTracked, NewTracker
    <2>3. Tracks(nfa, t.tracker, list, row - 1, 1)
        BY <2>2, NewTrackerTracks
    <2>4. Len(<<>>) = (row - 1) - row + 1 /\ row - 1 \in row - 1 .. Len(list) /\ Len(<<>>) = 0
        BY SMTT(30)
    <2>5. Searched(nfa, list, row, row - 1, t)
        BY <2>2, <2>3, <2>4 DEF Searched, Searching
    <2> QED BY <1>1, <2>1, <2>4, <2>5
<1>3. ASSUME NEW i \in row - 1 .. Len(list) - 1, i \in T PROVE i + 1 \in T
    <2>1. i + 1 \in row .. Len(list) /\ (i + 1) - 1 = i /\ i + 1 \in row - 1 .. Len(list)
        OBVIOUS
    <2>2. g[i + 1] = TrackRow(nfa, list[i + 1], g[i]) /\ Searched(nfa, list, row, (i + 1) - 1, g[i])
        BY <1>1, <1>3, <2>1
    <2>3. Searched(nfa, list, row, i + 1, TrackRow(nfa, list[i + 1], g[i]))
        BY <2>1, <2>2, TrackRowSearches, Zenon
    <2> QED BY <2>1, <2>2, <2>3
<1> HIDE DEF T
<1>4. row - 1 .. Len(list) \subseteq T
    <2>1. row - 1 \in Int /\ Len(list) \in Int
        OBVIOUS
    <2> QED BY <1>2, <1>3, <2>1, InductionUp, Zenon
<1>5. PICK t : t = g[Len(list)]
    OBVIOUS
<1>6. Searched(nfa, list, row, Len(list), t)
    BY <1>4, <1>5 DEF T
<1>7. ~Searching(nfa, list, row, Len(list), t)
    <2> SUFFICES ASSUME Searching(nfa, list, row, Len(list), t) PROVE FALSE
        OBVIOUS
    <2> DEFINE n == Len(t.tracker.marked)
    <2>1. /\ n = Len(list) - row + 1 /\ Marks(nfa, t.tracker.marked, list, row - 1, 1)
          /\ \A i \in 1 .. n : CanContinueMatch(nfa, t.tracker.marked[i])
        BY SMTT(30) DEF Searching, Tracks
    <2>2. n \in 1 .. n /\ (row - 1) + n = Len(list) /\ Len(list) \in 1 .. Len(list)
        BY <2>1
    <2>3. PICK e \in t.tracker.marked[n] : EdgeAt(nfa, e).to # nfa.final
        BY <2>1, <2>2, SMTT(30) DEF CanContinueMatch
    <2>4. e \in list[Len(list)]
        BY <2>1, <2>2, <2>3, Zenon DEF Marks
    <2> QED BY <2>2, <2>3, <2>4 DEF NoDeadEnds, To
<1>8. PICK marked : Specific(nfa, list, row, marked, t.list)
    BY <1>6, <1>7, SMTT(30) DEF Searched
<1>9. t.list # <<>>
    BY <1>8, SpecificIsList
<1> QED BY <1>1, <1>5, <1>8, <1>9

\* m is the match of the accepting path that the options prefer to all others from row j.
BestIn(nfa, options, sets, j, m) ==
    \E p : /\ m.ok /\ Accepts(nfa, sets, j, p) /\ m.vars = Labels(nfa, p, Len(p) - 1)
           /\ \A q : Accepts(nfa, sets, j, q) => Preferred(options, p, q)

\* A path is accepted in any rows that contain its edges.
LEMMA AcceptsWider ==
    ASSUME NEW nfa, NEW A, NEW j \in Int, NEW B, NEW k \in Int, NEW p, Accepts(nfa, A, j, p),
           \A i \in 1 .. Len(p) : /\ k + i - 1 \in DOMAIN B
                                  /\ p[i] \in A[j + i - 1] => p[i] \in B[k + i - 1]
    PROVE  Accepts(nfa, B, k, p)
<1>1. p \in Seq(EdgeNames(nfa)) \ {<<>>} /\ To(nfa, p[Len(p)]) = nfa.final
      /\ Follows(nfa, A, j, p, Len(p))
    BY DEF Accepts
<1>2. Follows(nfa, B, k, p, Len(p))
    BY <1>1 DEF Follows
<1> QED BY <1>1, <1>2 DEF Accepts

\* The second tracker's list has an edge from the start state in its first row, if the first
\* tracker's list has one in row row.
LEMMA SpecificStarts ==
    ASSUME NEW nfa, NEW labels, IsAutomaton(nfa, labels),
           NEW list \in Seq(SUBSET EdgeNames(nfa)), NEW row \in 1 .. Len(list), NoDeadEnds(nfa, list),
           \E e \in list[row] : e[1] = nfa.start,
           NEW marked, NEW specific, Specific(nfa, list, row, marked, specific)
    PROVE  \E e \in specific[1] : e[1] = nfa.start
<1> DEFINE n == Len(marked)
           T == {i \in 1 .. n : specific[i] # {}}
<1>1. /\ marked \in Seq(SUBSET EdgeNames(nfa)) /\ marked # <<>> /\ n <= Len(list) - row + 1
      /\ Marks(nfa, marked, list, row - 1, 1)
      /\ \A i \in 1 .. n - 1 : CanContinueMatch(nfa, marked[i])
      /\ ~CanContinueMatch(nfa, marked[n])
      /\ specific = FinalizeMarkedEdges(nfa, marked, TRUE)
    BY DEF Specific
<1>2. n \in Nat \ {0} /\ 1 \in 1 .. n /\ n \in 1 .. n
    BY <1>1
<1>3. /\ Len(specific) = n
      /\ \A r \in 1 .. n : specific[r] = Keep(nfa, marked, TRUE, r,
                                              IF r = n THEN {} ELSE Sources(specific[r + 1]))
    <2>1. PICK E : E = EdgeNames(nfa)
        OBVIOUS
    <2>2. marked \in Seq(SUBSET E)
        BY <1>1, <2>1
    <2>3. IsKept(nfa, E, marked, TRUE, specific)
        BY <1>1, <2>2, FinalizeUnfolds, Zenon
    <2> QED BY <2>3, Zenon DEF IsKept
<1>4. \A i \in 1 .. n : marked[i] \subseteq EdgeNames(nfa)
    BY <1>1
<1> HIDE DEF n
<1>5. \E f \in marked[n] : TRUE
    <2>1. CASE n = 1
        <3>1. PICK e \in list[row] : e[1] = nfa.start
            OBVIOUS
        <3>2. e \in EdgeNames(nfa) /\ (row - 1) + 1 = row
            OBVIOUS
        <3>3. e \in EdgesFrom(nfa, {nfa.start} \cup {})
            BY <3>1, <3>2, EdgesFromState, SMTT(30)
        <3>4. marked[1] = EdgesFrom(nfa, {nfa.start} \cup {}) \cap list[(row - 1) + 1]
            BY <1>1, <1>2, SMTT(30) DEF Marks, n
        <3> QED BY <2>1, <3>1, <3>2, <3>3, <3>4, SMTT(30)
    <2>2. CASE n # 1
        <3>1. n - 1 \in 1 .. n - 1 /\ n - 1 \in 1 .. n
            BY <1>2, <2>2
        <3>2. PICK e \in marked[n - 1] : EdgeAt(nfa, e).to # nfa.final
            BY <1>1, <3>1 DEF CanContinueMatch
        <3>3. e \in list[(row - 1) + (n - 1)]
            BY <1>1, <1>2, <3>1, <3>2, Zenon DEF Marks, n
        <3>4. /\ (row - 1) + (n - 1) \in 1 .. Len(list) /\ (row - 1) + (n - 1) + 1 = (row - 1) + n
              /\ (row - 1) + n \in 1 .. Len(list)
            <4>1. PICK l \in Nat, i \in Nat : l = Len(list) /\ i = row /\ 1 <= i /\ i <= l
                OBVIOUS
            <4>2. n <= l - i + 1 /\ n \in Nat \ {0, 1}
                BY <1>1, <1>2, <2>2, <4>1, SMTT(30) DEF n
            <4>3. /\ (i - 1) + (n - 1) \in 1 .. l /\ (i - 1) + (n - 1) + 1 = (i - 1) + n
                  /\ (i - 1) + n \in 1 .. l
                BY <4>1, <4>2, SMTT(30)
            <4> QED BY <4>1, <4>3
        <3>5. PICK f \in list[(row - 1) + n] : f[1] = EdgeAt(nfa, e).to
            BY <3>2, <3>3, <3>4, SMTT(30) DEF NoDeadEnds, To
        <3>6. f \in EdgeNames(nfa)
            BY <3>4
        <3>7. f[1] \in Targets(nfa, marked[n - 1])
            BY <3>2, <3>5 DEF Targets
        <3>8. marked[n] = EdgesFrom(nfa, (IF n <= 1 THEN {nfa.start} ELSE {})
                                         \cup (IF n = 1 THEN {} ELSE Targets(nfa, marked[n - 1])))
                          \cap list[(row - 1) + n]
            BY <1>1, <1>2, Zenon DEF Marks, n
        <3>9. f \in EdgesFrom(nfa, (IF n <= 1 THEN {nfa.start} ELSE {})
                                   \cup (IF n = 1 THEN {} ELSE Targets(nfa, marked[n - 1])))
            BY <2>2, <3>6, <3>7, EdgesFromState
        <3> QED BY <3>8, <3>9
    <2> QED BY <2>1, <2>2
<1>6. n \in T
    <2>1. PICK f \in marked[n] : TRUE
        BY <1>5
    <2>2. EdgeAt(nfa, f).to = nfa.final
        BY <1>1, <2>1, SMTT(30) DEF CanContinueMatch
    <2>3. f \in Keep(nfa, marked, TRUE, n, {})
        BY <1>1, <2>1, <2>2 DEF Keep
    <2> QED BY <1>2, <1>3, <2>3, Zenon
<1>7. ASSUME NEW i \in 1 + 1 .. n, i \in T PROVE i - 1 \in T
    <2>1. /\ i \in 1 .. n /\ i - 1 \in 1 .. n /\ (i - 1) + 1 = i /\ i - 1 # n /\ ~(i <= 1) /\ i # 1
          /\ i - 1 \in 1 .. n - 1
        BY <1>2
    <2>2. PICK f \in specific[i] : TRUE
        BY <1>7, SMTT(30)
    <2>3. f \in marked[i]
        BY <1>3, <2>1, <2>2 DEF Keep
    <2>4. marked[i] = EdgesFrom(nfa, {} \cup Targets(nfa, marked[i - 1])) \cap list[(row - 1) + i]
        BY <1>1, <2>1, Zenon DEF Marks, n
    <2>5. f[1] \in Targets(nfa, marked[i - 1])
        BY <2>3, <2>4, StateOfEdge, SMTT(30)
    <2>6. PICK e \in marked[i - 1] : EdgeAt(nfa, e).to = f[1]
        BY <2>5 DEF Targets
    <2>7. f[1] # nfa.final
        BY <1>4, <2>1, <2>3, AutomatonFacts, SMTT(30)
    <2>8. e \in Keep(nfa, marked, TRUE, i - 1, Sources(specific[i]))
        BY <2>2, <2>6, <2>7 DEF Keep, Sources
    <2> QED BY <1>3, <2>1, <2>8, Zenon
<1>8. 1 .. n \subseteq T
    <2> HIDE DEF T
    <2>1. 1 \in Int /\ n \in Int
        BY <1>2
    <2> QED BY <1>6, <1>7, <2>1, InductionDown, Zenon
<1>9. PICK e \in specific[1] : TRUE
    BY <1>2, <1>8, SMTT(30)
<1>10. e \in marked[1]
    BY <1>2, <1>3, <1>9, SMTT(30) DEF Keep
<1>11. marked[1] = EdgesFrom(nfa, {nfa.start} \cup {}) \cap list[(row - 1) + 1]
    BY <1>1, <1>2, SMTT(30) DEF Marks, n
<1>12. e[1] \in {nfa.start} \cup {}
    BY <1>10, <1>11, StateOfEdge, SMTT(30)
<1> QED BY <1>9, <1>12

\* ComputeMatch returns the accepting path that the options prefer to all others from its
\* row: the one of highest precedence, in longest-match mode among the longest ones.  This is
\* what the two passes of ComputeLongestMatchModeMatch and the greedy walk of
\* ComputeMatchImpl are for.
LEMMA ComputeMatchIsBest ==
    ASSUME NEW nfa, NEW labels, IsAutomaton(nfa, labels), NEW options \in Options,
           NEW list \in Seq(SUBSET EdgeNames(nfa)), NEW row \in 1 .. Len(list), NoDeadEnds(nfa, list),
           \E e \in list[row] : e[1] = nfa.start
    PROVE  BestIn(nfa, options, list, row, ComputeMatch(nfa, options, list, row))
<1>1. \A r \in DOMAIN list : list[r] \in SUBSET EdgeNames(nfa)
    BY SMTT(30)
<1>2. CASE ~options.longest
    <2>1. PICK m : m = ComputeMatchImpl(nfa, list, row)
        OBVIOUS
    <2>2. PICK p : /\ m.ok /\ Accepts(nfa, list, row, p) /\ Greedy(list, row, p)
                   /\ m.vars = Labels(nfa, p, Len(p) - 1)
        BY <2>1, WalkGreedy
    <2>3. ASSUME NEW q, Accepts(nfa, list, row, q) PROVE Preferred(options, p, q)
        <3>1. p = q \/ Earlier(p, q)
            BY <1>1, <2>2, <2>3, GreedyIsEarlier, SMTT(30)
        <3> QED BY <1>2, <3>1, SMTT(30) DEF Preferred
    <2> QED BY <1>2, <2>1, <2>2, <2>3, SMTT(30) DEF ComputeMatch, BestIn
<1>3. CASE options.longest
    <2>1. PICK marked, specific :
             /\ Specific(nfa, list, row, marked, specific)
             /\ ComputeLongestMatchModeMatch(nfa, list, row) = ComputeMatchImpl(nfa, specific, 1)
        BY SearchEnds
    <2> DEFINE n == Len(marked)
    <2>2. /\ marked \in Seq(SUBSET EdgeNames(nfa)) /\ marked # <<>> /\ n <= Len(list) - row + 1
          /\ Marks(nfa, marked, list, row - 1, 1)
          /\ \A i \in 1 .. n - 1 : CanContinueMatch(nfa, marked[i])
          /\ ~CanContinueMatch(nfa, marked[n])
          /\ specific = FinalizeMarkedEdges(nfa, marked, TRUE)
        BY <2>1 DEF Specific
    <2>3. n \in Nat \ {0} /\ 1 \in 1 .. n
        BY <2>2
    <2>4. /\ specific \in Seq(SUBSET EdgeNames(nfa)) /\ Len(specific) = n /\ NoDeadEnds(nfa, specific)
          /\ \A r \in 1 .. Len(specific) : specific[r] \subseteq marked[r]
        BY <2>2, KeptEdges, Zenon
    <2>5. \E e \in specific[1] : e[1] = nfa.start
        BY <2>1, SpecificStarts
    <2>6. PICK m : m = ComputeMatchImpl(nfa, specific, 1)
        BY SMTT(30)
    <2>7. PICK p : /\ m.ok /\ Accepts(nfa, specific, 1, p) /\ Greedy(specific, 1, p)
                   /\ m.vars = Labels(nfa, p, Len(p) - 1)
        <3>1. 1 \in 1 .. Len(specific)
            BY <2>3, <2>4, SMTT(30)
        <3> QED BY <2>4, <2>5, <2>6, <3>1, WalkGreedy, Zenon
    <2>8. /\ p \in Seq(EdgeNames(nfa)) /\ Len(p) \in Nat \ {0} /\ Follows(nfa, specific, 1, p, Len(p))
          /\ To(nfa, p[Len(p)]) = nfa.final
        BY <2>7, SMTT(30) DEF Accepts
    <2>9. \A i \in 1 .. Len(p) : i \in 1 .. n /\ p[i] \in specific[i]
        <3> SUFFICES ASSUME NEW i \in 1 .. Len(p) PROVE i \in 1 .. n /\ p[i] \in specific[i]
            OBVIOUS
        <3>1. 1 + i - 1 = i /\ DOMAIN specific = 1 .. n
            BY <2>4, SMTT(30)
        <3>2. 1 + i - 1 \in DOMAIN specific /\ p[i] \in specific[1 + i - 1]
            BY <2>8 DEF Follows
        <3> QED BY <3>1, <3>2
    <2>10. Len(p) = n
        <3>1. Len(p) \in 1 .. Len(p)
            BY <2>8
        <3>2. Len(p) \in 1 .. n /\ p[Len(p)] \in specific[Len(p)]
            BY <2>9, <3>1
        <3>3. ASSUME Len(p) # n PROVE FALSE
            <4>1. Len(p) \in 1 .. n - 1
                BY <2>3, <3>2, <3>3, SMTT(30)
            <4>2. CanContinueMatch(nfa, marked[Len(p)])
                BY <2>2, <4>1
            <4>3. To(nfa, p[Len(p)]) # nfa.final
                BY <2>2, <3>2, <4>2, LongestKept, Zenon
            <4> QED BY <2>8, <4>3
        <3> QED BY <3>3
    <2>11. Accepts(nfa, list, row, p)
        <3> SUFFICES ASSUME NEW i \in 1 .. Len(p)
                     PROVE  row + i - 1 \in DOMAIN list
                            /\ (p[i] \in specific[1 + i - 1] => p[i] \in list[row + i - 1])
            BY <2>7, AcceptsWider, SMTT(30)
        <3>1. i \in 1 .. n /\ p[i] \in marked[i]
            BY <2>4, <2>9
        <3>2. (row - 1) + i = row + i - 1 /\ row + i - 1 \in 1 .. Len(list)
            <4>1. n <= Len(list) - row + 1 /\ Len(list) \in Nat
                BY <2>2
            <4> QED BY <2>3, <3>1, <4>1
        <3>3. p[i] \in list[(row - 1) + i]
            BY <2>2, <3>1, Zenon DEF Marks
        <3> QED BY <3>2, <3>3, SMTT(30)
    <2>12. ASSUME NEW q, Accepts(nfa, list, row, q) PROVE Preferred(options, p, q)
        <3>1. /\ q \in Seq(EdgeNames(nfa)) /\ Len(q) \in Nat \ {0} /\ Follows(nfa, list, row, q, Len(q))
              /\ To(nfa, q[Len(q)]) = nfa.final
            BY <2>12, SMTT(30) DEF Accepts
        <3>2. PICK k \in Nat : k = IF Len(q) <= n THEN Len(q) ELSE n
            BY <2>3, <3>1, SMTT(30)
        <3>3. Follows(nfa, marked, 1, q, k)
            <4>1. (row - 1) + 1 = row /\ row - 1 \in Nat /\ k <= Len(q) /\ 1 + k - 1 <= Len(marked)
                BY <2>3, <3>1, <3>2, SMTT(30)
            <4>2. Follows(nfa, list, (row - 1) + 1, q, k)
                BY <3>1, <4>1 DEF Follows
            <4> HIDE DEF n
            <4>3. PICK offset \in Nat : offset = row - 1
                BY <4>1
            <4>4. PICK one \in Nat : one = 1
                OBVIOUS
            <4>5. /\ Marks(nfa, marked, list, offset, one) /\ Follows(nfa, list, offset + one, q, k)
                  /\ 1 <= one /\ one <= one /\ one + k - 1 <= Len(marked)
                BY <2>2, <4>1, <4>2, <4>3, <4>4, SMTT(30)
            <4>6. Follows(nfa, marked, one, q, k)
                BY <1>1, <2>2, <4>5, PathsAreMarked, Zenon
            <4> QED BY <4>4, <4>6, SMTT(30)
        <3>4. ~(n < Len(q))
            <4> SUFFICES ASSUME n < Len(q) PROVE FALSE
                OBVIOUS
            <4>1. k = n /\ n \in 1 .. k /\ 1 + n - 1 = n /\ n \in 1 .. Len(q) - 1
                BY <2>3, <3>1, <3>2
            <4>2. q[n] \in marked[n]
                BY <3>3, <4>1, SMTT(30) DEF Follows
            <4>3. To(nfa, q[n]) = nfa.final
                BY <2>2, <4>2, SMTT(30) DEF CanContinueMatch, To
            <4> QED BY <1>1, <3>1, <4>1, <4>3, LeavesNotFinal, SMTT(30)
        <3>5. CASE Len(q) < n
            BY <1>3, <2>10, <3>1, <3>5, SMTT(30) DEF Preferred
        <3>6. CASE Len(q) = n
            <4>1. k = Len(q) /\ 1 + Len(q) - 1 = n
                BY <2>3, <3>2, <3>6, SMTT(30)
            <4>2. Accepts(nfa, marked, 1, q)
                BY <2>12, <3>1, <3>3, <4>1, SMTT(30) DEF Accepts
            <4>3. ~CanContinueMatch(nfa, marked[1 + Len(q) - 1])
                BY <2>2, <4>1
            <4>4. Accepts(nfa, specific, 1, q)
                <5>1. PICK longest \in BOOLEAN : longest = TRUE
                    BY Zenon
                <5>2. PICK one \in Nat \ {0} : one = 1
                    BY SMTT(30)
                <5>3. /\ specific = FinalizeMarkedEdges(nfa, marked, longest)
                      /\ Accepts(nfa, marked, one, q)
                      /\ longest => ~CanContinueMatch(nfa, marked[one + Len(q) - 1])
                    BY <2>2, <4>2, <4>3, <5>1, <5>2, SMTT(30)
                <5>4. Accepts(nfa, specific, one, q)
                    BY <2>2, <5>3, PathsAreKept, Zenon
                <5> QED BY <5>2, <5>4
            <4>5. \A r \in DOMAIN specific : specific[r] \in SUBSET EdgeNames(nfa)
                BY <2>4, SMTT(30)
            <4>6. p = q \/ Earlier(p, q)
                BY <2>7, <4>4, <4>5, GreedyIsEarlier, SMTT(30)
            <4> QED BY <2>10, <3>6, <4>6 DEF Preferred
        <3>7. Len(q) < n \/ Len(q) = n
            BY <2>3, <3>1, <3>4, SMTT(30)
        <3> QED BY <3>5, <3>6, <3>7
    <2>13. ComputeMatch(nfa, options, list, row) = m
        BY <1>3, <2>1, <2>6 DEF ComputeMatch
    <2> QED BY <2>7, <2>11, <2>12, <2>13, SMTT(30) DEF BestIn
<1> QED BY <1>2, <1>3

=============================================================================
