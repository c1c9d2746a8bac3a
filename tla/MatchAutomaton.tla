--------------------------- MODULE MatchAutomaton ---------------------------
(***************************************************************************)
(* The automaton that a MATCH_RECOGNIZE pattern is compiled to and that is *)
(* run over the rows: NFA (nfa.h, nfa.cc) and CompiledNFA, under           *)
(* googlesql/common/match_recognize.  An automaton is a record with fields *)
(* start, final and edges; edges holds, for each state, the sequence of    *)
(* its outgoing edges in order of precedence.  An edge is named <<s, k>>,  *)
(* the k-th edge out of state s, which is what edge_number encodes.        *)
(***************************************************************************)
EXTENDS Integers, Sequences, FiniteSetsExt

\* The pattern_var of an edge that consumes no row (std::nullopt).
NoVar == "no variable"

EdgeAt(nfa, e) == nfa.edges[e[1]][e[2]]

EdgesFrom(nfa, states) == UNION {{s} \X DOMAIN nfa.edges[s] : s \in states}

EdgesOf(nfa) == UNION {Range(nfa.edges[s]) : s \in DOMAIN nfa.edges}

\* ValidateInternal without the search for unreachable states, in either mode: for
\* matching, or for the epsilon remover.
Valid(nfa, forMatching) ==
    /\ nfa.edges[nfa.final] = <<>>
    /\ \A e \in EdgesOf(nfa) :
          /\ e.to \in DOMAIN nfa.edges
          /\ e.to # nfa.start
          /\ e.var # NoVar => e.to # nfa.final
          /\ forMatching /\ e.var = NoVar => e.to = nfa.final

\* An automaton over these variables that has passed ValidateInternal for matching.
IsAutomaton(nfa, labels) ==
    /\ {nfa.start, nfa.final} \subseteq DOMAIN nfa.edges
    /\ \A s \in DOMAIN nfa.edges :
          nfa.edges[s] \in Seq([var : labels \cup {NoVar}, to : DOMAIN nfa.edges,
                                head : BOOLEAN, tail : BOOLEAN])
    /\ Valid(nfa, TRUE)

=============================================================================
