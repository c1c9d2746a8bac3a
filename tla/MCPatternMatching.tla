------------------------- MODULE MCPatternMatching --------------------------
(***************************************************************************)
(* PatternMatching on small patterns over two variables: every operator,   *)
(* anchors in every position, greedy and reluctant quantifiers with and    *)
(* without an upper bound, nested and nullable ones.                       *)
(***************************************************************************)
EXTENDS PatternMatchingReference

A == [op |-> "variable", var |-> "A"]
B == [op |-> "variable", var |-> "B"]
Empty == [op |-> "empty"]
Hat == [op |-> "head"]
Dollar == [op |-> "tail"]
Concat(args) == [op |-> "concat", args |-> args]
Alternate(args) == [op |-> "alternate", args |-> args]
Times(p, lower, upper, reluctant) ==
    [op |-> "quantify", arg |-> p, lower |-> lower, upper |-> upper, reluctant |-> reluctant]

Optional(p) == Times(p, 0, 1, FALSE)
Star(p) == Times(p, 0, Unbounded, FALSE)
Plus(p) == Times(p, 1, Unbounded, FALSE)
Lazily(q) == [q EXCEPT !.reluctant = TRUE]

\* Patterns whose unbounded quantifiers always consume.
Plain ==
    {A, Empty, Star(A), Lazily(Plus(A)),
     Concat(<<A, B>>), Alternate(<<A, B>>), Alternate(<<Empty, A>>),
     Concat(<<Optional(A), B>>), Concat(<<Lazily(Optional(A)), Star(B)>>),
     Concat(<<Star(A), B>>), Concat(<<Lazily(Star(A)), B>>),
     Alternate(<<A, Concat(<<A, B>>)>>), Alternate(<<Concat(<<A, B>>), A>>),
     Times(A, 0, 0, FALSE), Times(A, 1, 2, TRUE), Times(Alternate(<<A, B>>), 2, 2, FALSE),
     Times(Alternate(<<B, A>>), 2, Unbounded, TRUE), Times(Optional(A), 0, 2, FALSE),
     Plus(Alternate(<<A, B>>)), Star(Concat(<<A, Optional(B)>>))}

\* Patterns with anchors.
Anchored ==
    {Hat, Dollar, Concat(<<Hat, A>>), Concat(<<A, Hat>>), Concat(<<Dollar, A>>),
     Concat(<<Hat, Star(A), Dollar>>), Concat(<<Plus(A), Dollar>>),
     Concat(<<Alternate(<<Hat, A, Empty>>), B>>), Concat(<<Alternate(<<A, Hat>>), B>>),
     Concat(<<A, Alternate(<<Dollar, B>>)>>), Alternate(<<Concat(<<A, Dollar>>), B>>),
     Concat(<<Lazily(Star(A)), Alternate(<<Dollar, Hat, B>>)>>), Concat(<<Hat, Dollar>>)}

\* Patterns with a quantifier that may repeat on nothing.
Looping ==
    {Star(Star(A)), Star(Lazily(Star(A))), Plus(Optional(A)), Star(Alternate(<<Empty, A>>)),
     Star(Alternate(<<Hat, A>>)), Plus(Concat(<<Star(A), Optional(B)>>)),
     Lazily(Times(Alternate(<<Dollar, B>>), 2, Unbounded, FALSE))}

\* Every pair of these, in sequence and as alternatives.
Part == {A, Hat, Dollar, Star(B), Lazily(Optional(A))}

Pairs == {Concat(<<p, q>>) : p \in Part, q \in Part}
            \cup {Alternate(<<p, q>>) : p \in Part, q \in Part}

MCPattern == Plain \cup Anchored \cup Looping \cup Pairs

MCOption == [overlapping : BOOLEAN, longest : BOOLEAN]

MCQuery == {[pattern |-> p, options |-> o, nfa |-> Compile(p)] : p \in MCPattern, o \in MCOption}

\* Up to MaxRows tuples in up to MaxRows partitions, which are numbered from 1.
MaxRows == 3

MCInput ==
    {tuples \in UNION {[1 .. n -> [key : 1 .. MaxRows, holds : SUBSET Var]] : n \in 0 .. MaxRows} :
        \A i \in DOMAIN tuples :
            tuples[i].key \in (IF i = 1 THEN {1} ELSE {tuples[i - 1].key, tuples[i - 1].key + 1})}

=============================================================================
