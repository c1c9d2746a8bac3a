---------------------- MODULE ScriptControlStatements -----------------------
(***************************************************************************)
(* Lemmas about ScriptControl that the proofs of all its actions use (nodes *)
(* and frames, the call stack as a sequence, the pending exceptions, the   *)
(* ways in which a statement ends), and from them: each statement action   *)
(* preserves Consistent.                                                   *)
(***************************************************************************)
EXTENDS ScriptControl, FiniteSetTheorems, SequenceTheorems, TLAPS

-----------------------------------------------------------------------------
(* What is known of nodes and frames. *)

\* nullptr is not a node of a graph.
LEMMA EndIsNoNode == End \notin Node
    BY GraphAssumption

\* The depths of a node are natural numbers.
LEMMA Depths ==
    \A n \in Node : ForDepth(n) \in Nat /\ HandlerDepth(n) \in Nat
    BY GraphAssumption

\* The fields of a frame on a well-typed stack.
LEMMA FrameFields ==
    ASSUME NEW s \in Seq(Frame), NEW i \in 1 .. Len(s)
    PROVE  /\ s[i] \in Frame
           /\ s[i].node \in Node \cup {End}
           /\ s[i].vars \subseteq Var /\ s[i].large \subseteq Var
           /\ s[i].loops \in Seq({"null", "open"})
           /\ s[i].node # End => HandlerDepth(s[i].node) \in Nat
<1>1. s[i] \in Frame
    OBVIOUS
<1>2. s[i].node \in Node \cup {End}
    BY <1>1 DEF Frame
<1> QED
    BY <1>1, <1>2, Depths, SMTT(30) DEF Frame

-----------------------------------------------------------------------------
(* The call stack as a sequence. *)

\* Replacing the top frame changes nothing below it.
LEMMA ReplaceTop ==
    ASSUME NEW s \in Seq(Frame), Len(s) >= 1, NEW f \in Frame
    PROVE  LET t == [s EXCEPT ![Len(s)] = f]
           IN /\ t \in Seq(Frame) /\ Len(t) = Len(s) /\ t[Len(s)] = f
              /\ \A i \in 1 .. Len(s) - 1 : t[i] = s[i]
    OBVIOUS

\* Leaving the top frame as it is leaves the stack as it is.
LEMMA KeepTop ==
    ASSUME NEW s \in Seq(Frame), Len(s) >= 1
    PROVE  [s EXCEPT ![Len(s)] = s[Len(s)]] = s
    OBVIOUS

\* Pushing a frame changes nothing below it.
LEMMA Push ==
    ASSUME NEW s \in Seq(Frame), NEW f \in Frame
    PROVE  LET t == Append(s, f)
           IN /\ t \in Seq(Frame) /\ Len(t) = Len(s) + 1 /\ t[Len(t)] = f
              /\ \A i \in 1 .. Len(s) : t[i] = s[i]
    OBVIOUS

\* Popping a frame leaves the frames below it.
LEMMA Pop ==
    ASSUME NEW s \in Seq(Frame), Len(s) > 1
    PROVE  LET t == SubSeq(s, 1, Len(s) - 1)
           IN /\ t \in Seq(Frame) /\ Len(t) = Len(s) - 1
              /\ \A i \in 1 .. Len(t) : t[i] = s[i]
    OBVIOUS

-----------------------------------------------------------------------------
(* The pending exceptions cover the handlers. *)

\* It makes no difference if nodes stay, or are left for the end of the script.
LEMMA CoversSame ==
    ASSUME NEW p \in Seq(Exc), NEW s \in Seq(Frame), NEW t \in Seq(Frame),
           Covers(p, s), Len(t) = Len(s),
           \A i \in 1 .. Len(s) : t[i].node \in {s[i].node, End}
    PROVE  Covers(p, t)
<1>1. PICK base \in [1 .. Len(s) + 1 -> 0 .. Len(p)] :
        \A i \in 1 .. Len(s) : \A j \in i + 1 .. Len(s) + 1 :
            s[i].node # End => base[i] + HandlerDepth(s[i].node) <= base[j]
    BY DEF Covers
<1>2. \A i \in 1 .. Len(t) : \A j \in i + 1 .. Len(t) + 1 :
            t[i].node # End => base[i] + HandlerDepth(t[i].node) <= base[j]
    BY <1>1
<1> QED
    BY <1>1, <1>2, Zenon DEF Covers

\* A new frame is in no handler.
LEMMA CoversPush ==
    ASSUME NEW p \in Seq(Exc), NEW s \in Seq(Frame), NEW t \in Seq(Frame),
           Covers(p, s), Len(t) = Len(s) + 1,
           \A i \in 1 .. Len(s) : t[i] = s[i],
           t[Len(t)].node # End => HandlerDepth(t[Len(t)].node) = 0
    PROVE  Covers(p, t)
<1>1. PICK base \in [1 .. Len(s) + 1 -> 0 .. Len(p)] :
        \A i \in 1 .. Len(s) : \A j \in i + 1 .. Len(s) + 1 :
            s[i].node # End => base[i] + HandlerDepth(s[i].node) <= base[j]
    BY SMTT(30) DEF Covers
<1> DEFINE more == [i \in 1 .. Len(t) + 1 |-> IF i <= Len(s) + 1 THEN base[i]
                                              ELSE base[Len(s) + 1]]
<1>2. more \in [1 .. Len(t) + 1 -> 0 .. Len(p)]
    OBVIOUS
<1>3. ASSUME NEW i \in 1 .. Len(t), NEW j \in i + 1 .. Len(t) + 1, t[i].node # End
      PROVE  more[i] + HandlerDepth(t[i].node) <= more[j]
    <2> HandlerDepth(t[i].node) \in Nat
        BY <1>3, FrameFields, Zenon
    <2>1. CASE i = Len(t)
        BY <2>1, <1>3, SMTT(30)
    <2>2. CASE i < Len(t) /\ j <= Len(s) + 1
        <3>1. i \in 1 .. Len(s) /\ j \in i + 1 .. Len(s) + 1 /\ t[i] = s[i]
            BY <2>2
        <3>2. base[i] + HandlerDepth(s[i].node) <= base[j]
            BY <3>1, <1>3, <1>1
        <3>3. more[i] = base[i] /\ more[j] = base[j]
            BY <2>2
        <3> QED
            BY ONLY <3>1, <3>2, <3>3
    <2>3. CASE i < Len(t) /\ j > Len(s) + 1
        <3>1. /\ i \in 1 .. Len(s) /\ Len(s) + 1 \in i + 1 .. Len(s) + 1
              /\ t[i] = s[i]
            BY <2>3
        <3>2. base[i] + HandlerDepth(s[i].node) <= base[Len(s) + 1]
            BY <3>1, <1>3, <1>1, SMTT(30)
        <3>3. more[i] = base[i] /\ more[j] = base[Len(s) + 1]
            BY <2>3
        <3> QED
            BY ONLY <3>1, <3>2, <3>3
    <2> QED
        BY <2>1, <2>2, <2>3
<1> QED
    BY <1>2, <1>3, Zenon DEF Covers

\* Fewer frames are in fewer handlers.
LEMMA CoversPop ==
    ASSUME NEW p \in Seq(Exc), NEW s \in Seq(Frame), NEW t \in Seq(Frame),
           Covers(p, s), Len(t) < Len(s),
           \A i \in 1 .. Len(t) : t[i] = s[i]
    PROVE  Covers(p, t)
<1>1. PICK base \in [1 .. Len(s) + 1 -> 0 .. Len(p)] :
        \A i \in 1 .. Len(s) : \A j \in i + 1 .. Len(s) + 1 :
            s[i].node # End => base[i] + HandlerDepth(s[i].node) <= base[j]
    BY SMTT(30) DEF Covers
<1> DEFINE less == [i \in 1 .. Len(t) + 1 |-> base[i]]
<1>2. less \in [1 .. Len(t) + 1 -> 0 .. Len(p)]
    OBVIOUS
<1>3. ASSUME NEW i \in 1 .. Len(t), NEW j \in i + 1 .. Len(t) + 1, t[i].node # End
      PROVE  less[i] + HandlerDepth(t[i].node) <= less[j]
    <2>1. i \in 1 .. Len(s) /\ j \in i + 1 .. Len(s) + 1 /\ t[i] = s[i]
        OBVIOUS
    <2>2. base[i] + HandlerDepth(s[i].node) <= base[j]
        BY <1>1, <1>3, <2>1
    <2> QED
        BY <2>1, <2>2
<1> QED
    BY <1>2, <1>3, Zenon DEF Covers

\* The top frame has an exception for every handler it is in.
LEMMA CoversTop ==
    ASSUME NEW p \in Seq(Exc), NEW s \in Seq(Frame), Len(s) >= 1,
           Covers(p, s), s[Len(s)].node # End
    PROVE  HandlerDepth(s[Len(s)].node) <= Len(p)
<1>1. PICK base \in [1 .. Len(s) + 1 -> 0 .. Len(p)] :
        \A i \in 1 .. Len(s) : \A j \in i + 1 .. Len(s) + 1 :
            s[i].node # End => base[i] + HandlerDepth(s[i].node) <= base[j]
    BY DEF Covers
<1>2. HandlerDepth(s[Len(s)].node) \in Nat
    BY FrameFields
<1>3. base[Len(s)] + HandlerDepth(s[Len(s)].node) <= base[Len(s) + 1]
    BY <1>1
<1> QED
    BY <1>2, <1>3

\* Moving the top frame along an edge: as many handlers are entered or left as
\* exceptions are pushed or popped.
LEMMA CoversMove ==
    ASSUME NEW p \in Seq(Exc), NEW q \in Seq(Exc),
           NEW s \in Seq(Frame), NEW t \in Seq(Frame),
           Covers(p, s), SettledCallers(s), Len(s) >= 1, Len(t) = Len(s),
           \A i \in 1 .. Len(s) - 1 : t[i] = s[i],
           s[Len(s)].node # End,
           Len(q) >= Len(p) - HandlerDepth(s[Len(s)].node),
           t[Len(t)].node # End =>
               HandlerDepth(t[Len(t)].node) - Len(q) <= HandlerDepth(s[Len(s)].node) - Len(p)
    PROVE  Covers(q, t)
<1> DEFINE L == Len(s)
<1>1. PICK base \in [1 .. L + 1 -> 0 .. Len(p)] :
        \A i \in 1 .. L : \A j \in i + 1 .. L + 1 :
            s[i].node # End => base[i] + HandlerDepth(s[i].node) <= base[j]
    BY Zenon DEF Covers
<1>2. \A i \in 1 .. L : s[i].node # End /\ HandlerDepth(s[i].node) \in Nat
    <2> TAKE i \in 1 .. L
    <2>1. s[i].node # End
        BY DEF SettledCallers, Settled
    <2> QED
        BY <2>1, FrameFields, SMTT(30)
<1>3. t[L].node # End => HandlerDepth(t[L].node) \in Nat
    BY FrameFields
<1>4. L \in Nat /\ L >= 1 /\ \A i \in 1 .. L + 1 : base[i] \in 0 .. Len(p)
    <2>1. L \in Nat /\ L >= 1
        BY ONLY s \in Seq(Frame), Len(s) >= 1
    <2>2. \A i \in 1 .. L + 1 : base[i] \in 0 .. Len(p)
        BY ONLY base \in [1 .. L + 1 -> 0 .. Len(p)]
    <2> QED
        BY <2>1, <2>2
<1>5. base[L] + HandlerDepth(s[L].node) <= Len(p)
    <2>1. base[L] + HandlerDepth(s[L].node) <= base[L + 1]
        BY <1>1, <1>2, <1>4, SMTT(30)
    <2>2. /\ base[L] \in 0 .. Len(p) /\ base[L + 1] \in 0 .. Len(p)
          /\ HandlerDepth(s[L].node) \in Nat /\ Len(p) \in Nat
        BY <1>2, <1>4
    <2> QED
        BY ONLY <2>1, <2>2
<1>6. \A i \in 1 .. L : \A j \in i + 1 .. L :
            base[i] + HandlerDepth(s[i].node) <= base[j]
    BY <1>1, <1>2, <1>4, SMTT(30)
<1>7. base[L] <= Len(q)
    BY <1>2, <1>4, <1>5
<1>8. \A i \in 1 .. L : base[i] \in 0 .. Len(q)
    <2>1. \A i \in 1 .. L - 1 : base[i] <= base[L]
        BY <1>2, <1>4, <1>6, SMTT(30)
    <2>2. Len(q) \in Nat /\ Len(p) \in Nat
        OBVIOUS
    <2> TAKE i \in 1 .. L
    <2>3. CASE i = L
        BY <2>2, <2>3, <1>4, <1>7
    <2>4. CASE i < L
        <3>1. base[i] <= base[L] /\ base[i] \in 0 .. Len(p) /\ base[L] \in 0 .. Len(p)
            BY <2>1, <2>4, <1>4
        <3> QED
            BY <3>1, <2>2, <1>7
    <2> QED
        BY <2>3, <2>4, <1>4
<1> DEFINE moved == [i \in 1 .. L + 1 |-> IF i <= L THEN base[i] ELSE Len(q)]
<1>9. moved \in [1 .. Len(t) + 1 -> 0 .. Len(q)]
    BY <1>4, <1>8
<1>10. ASSUME NEW i \in 1 .. Len(t), NEW j \in i + 1 .. Len(t) + 1, t[i].node # End
       PROVE  moved[i] + HandlerDepth(t[i].node) <= moved[j]
    <2>1. CASE j <= L
        <3>1. i \in 1 .. L - 1 /\ t[i] = s[i] /\ moved[i] = base[i] /\ moved[j] = base[j]
            BY <2>1, <1>4
        <3>2. base[i] + HandlerDepth(s[i].node) <= base[j]
            BY <2>1, <3>1, <1>6, <1>4
        <3> QED
            BY <3>1, <3>2
    <2>2. CASE j > L /\ i < L
        <3>1. t[i] = s[i] /\ moved[i] = base[i] /\ moved[j] = Len(q)
            BY <2>2, <1>4
        <3>2. base[i] + HandlerDepth(s[i].node) <= base[L]
            BY <2>2, <1>6, <1>4
        <3> QED
            BY <2>2, <3>1, <3>2, <1>2, <1>4, <1>7, SMTT(30)
    <2>3. CASE i = L
        <3>1. moved[i] = base[L] /\ moved[j] = Len(q)
            BY <2>3, <1>4
        <3> QED
            BY <2>3, <3>1, <1>10, <1>3, <1>4, <1>5, <1>2, SMTT(30)
    <2> QED
        BY <2>1, <2>2, <2>3, <1>4
<1> QED
    BY <1>9, <1>10, Zenon DEF Covers

-----------------------------------------------------------------------------
(* Common to the actions. *)

\* A positive number up to one is one.
LEMMA OnlyOne ==
    ASSUME NEW m \in Nat \ {0}, m <= 1
    PROVE  m = 1
    OBVIOUS

\* In a consistent state with a stack there is a top frame, and it is well typed.
LEMMA StackFacts ==
    ASSUME Consistent, stack # <<>>
    PROVE  /\ stack \in Seq(Frame) /\ Len(stack) >= 1 /\ Len(stack) \in Nat
           /\ Len(stack) <= MaxDepth /\ (DryRun => Len(stack) = 1)
           /\ Top = stack[Len(stack)] /\ Top \in Frame
           /\ Top.node \in Node \cup {End}
           /\ Top.vars \subseteq Var /\ Top.loops \in Seq({"null", "open"})
<1>1. stack \in Seq(Frame) /\ Len(stack) >= 1 /\ Len(stack) <= MaxDepth
      /\ (DryRun => Len(stack) = 1)
    <2>1. /\ stack \in Seq(Frame) /\ Len(stack) \in 0 .. MaxDepth
          /\ DryRun => Len(stack) <= 1
        BY DEF Consistent, TypeOK
    <2>2. Len(stack) \in Nat \ {0}
        BY <2>1, EmptySeq, Zenon
    <2>3. Len(stack) >= 1 /\ Len(stack) <= MaxDepth
        BY <2>1, <2>2, OptionsAssumption
    <2>4. ASSUME DryRun PROVE Len(stack) = 1
        <3>1. Len(stack) <= 1
            BY <2>1, <2>4, Zenon
        <3> QED
            BY <3>1, <2>2, OnlyOne, Zenon
    <2> QED
        BY <2>1, <2>3, <2>4, Zenon
<1> QED
    BY <1>1, FrameFields, SMTT(30) DEF Top

\* The step changes the top frame of an idle executor, and leaves its node or
\* ends the script: what is below and the pending exceptions stay in order.
LEMMA Stay ==
    ASSUME Consistent, stack # <<>>, run.op = "idle", NEW f \in Frame, f.node \in {Top.node, End},
           stack' = WithTop(f), run' \in RunState, run'.op # "internal",
           TopConsistent(stack', run'), UNCHANGED <<pending, errorVar>>,
           caseTrue' \in Int, caseCurrent' \in Int, returned' \in BOOLEAN, open' \in Int
    PROVE  Consistent'
<1>1. /\ stack' \in Seq(Frame) /\ Len(stack') = Len(stack) /\ stack'[Len(stack)] = f
      /\ \A i \in 1 .. Len(stack) - 1 : stack'[i] = stack[i]
    BY StackFacts, ReplaceTop DEF WithTop
<1>2. TypeOK'
    BY <1>1 DEF Consistent, TypeOK
<1>3. SettledCallers(stack')
    BY <1>1, StackFacts DEF Consistent, CallersSettled, SettledCallers
<1>4. Covers(pending, stack')
    <2>1. Covers(pending, stack) /\ pending \in Seq(Exc)
        BY DEF Consistent, PendingCoverHandlers, TypeOK
    <2>2. \A i \in 1 .. Len(stack) : stack'[i].node \in {stack[i].node, End}
        BY <1>1, StackFacts
    <2> QED
        BY <2>1, <2>2, <1>1, StackFacts, CoversSame
<1>5. errorVar' = Innermost(pending')
    BY DEF Consistent
<1>6. Len(stack') \in 0 .. MaxDepth /\ stack' # <<>> /\ (DryRun => Len(stack') <= 1)
    BY <1>1, StackFacts, SMTT(30) DEF Consistent
<1> QED
    BY <1>2, <1>3, <1>4, <1>5, <1>6, SMTT(30)
    DEF Consistent, NoInternalError, CallersSettled, PendingCoverHandlers

\* A script exception is dispatched if a frame handles it, or returned.
LEMMA Thrown ==
    ASSUME NEW s \in Seq(Frame), Len(s) >= 1, NEW exc \in Exc, NEW outer \in BOOLEAN,
           s[Len(s)].node # End,
           "exception" \in DOMAIN Succ(s[Len(s)].node) => Interrupted(s[Len(s)])
    PROVE  LET r == MaybeDispatch(s, exc, outer)
           IN r \in RunState /\ r.op # "internal" /\ TopConsistent(s, r)
    BY DEF MaybeDispatch, Dispatching, Failed, RunState, TopConsistent

\* A statement that has done nothing yet may be interrupted.
LEMMA SettledInterrupted ==
    ASSUME NEW f \in Frame, Settled(f), Kind(f.node) # "forInitial"
    PROVE  Interrupted(f)
<1>1. f.node \in Node /\ ForDepth(f.node) \in Nat
    BY Depths DEF Frame, Settled
<1> QED
    BY <1>1 DEF Settled, Interrupted, Opened

\* A statement that creates nothing completes without a trace.
LEMMA SettledCompleted ==
    ASSUME NEW f \in Frame, Settled(f), Kind(f.node) \notin {"forInitial", "declare"},
           NEW k \in DOMAIN Succ(f.node), k # "exception"
    PROVE  Completed(f, k)
<1>1. f.node \in Node /\ ForDepth(f.node) \in Nat
    BY Depths DEF Frame, Settled
<1> QED
    BY <1>1 DEF Settled, Completed, Opened, After

\* What a statement step does to the fields it does not care about.
RestOK ==
    /\ UNCHANGED <<pending, errorVar>>
    /\ caseTrue' \in Int /\ caseCurrent' \in Int
    /\ returned' \in BOOLEAN /\ open' \in Int

\* A step that leaves the other variables alone keeps their types.
LEMMA RestUnchanged ==
    ASSUME Consistent, UNCHANGED <<pending, errorVar, caseTrue, caseCurrent, returned, open>>
    PROVE  RestOK
    BY DEF Consistent, TypeOK, RestOK

\* ExecuteNext() is called at a statement.
LEMMA AtFacts ==
    ASSUME Consistent, stack # <<>>, NEW kinds, At(kinds)
    PROVE  /\ run.op = "idle" /\ Top.node # End /\ Top.node \in Node
           /\ Kind(Top.node) \in kinds /\ Settled(Top)
    BY StackFacts DEF At, IsComplete, Idle, Consistent, TopConsistent

\* The statement completes.
LEMMA AdvancesOK ==
    ASSUME Consistent, stack # <<>>, run.op = "idle", NEW f \in Frame, f.node = Top.node,
           NEW k, Completed(f, k), NEW outer \in BOOLEAN,
           Advances(WithTop(f), k, outer), RestOK
    PROVE  Consistent'
<1>1. stack' \in Seq(Frame) /\ Len(stack') = Len(stack) /\ stack'[Len(stack)] = f
    BY StackFacts, ReplaceTop DEF WithTop, Advances
<1>2. k \in EdgeKinds
    BY StackFacts, GraphAssumption DEF Completed
<1>3. run' \in RunState /\ run'.op # "internal" /\ TopConsistent(stack', run')
    BY <1>1, <1>2 DEF Advances, Advancing, RunState, TopConsistent
<1> QED
    BY <1>3, Stay DEF Advances, RestOK

\* The statement raises an exception.
LEMMA ThrowsOK ==
    ASSUME Consistent, stack # <<>>, run.op = "idle", Top.node # End,
           NEW f \in Frame, f.node = Top.node,
           "exception" \in DOMAIN Succ(f.node) => Interrupted(f),
           NEW outer \in BOOLEAN, Throws(WithTop(f), outer), RestOK
    PROVE  Consistent'
<1>1. stack' \in Seq(Frame) /\ Len(stack') = Len(stack) /\ stack'[Len(stack)] = f
    BY StackFacts, ReplaceTop DEF WithTop, Throws
<1>2. PICK exc \in Exc : run' = MaybeDispatch(stack', exc, outer)
    BY DEF Throws
<1>3. run' \in RunState /\ run'.op # "internal" /\ TopConsistent(stack', run')
    BY <1>1, <1>2, Thrown, StackFacts
<1> QED
    BY <1>3, Stay DEF Throws, RestOK

\* The statement fails for good.
LEMMA AbortsOK ==
    ASSUME Consistent, stack # <<>>, run.op = "idle", Aborts, RestOK
    PROVE  Consistent'
<1>1. stack' = WithTop(Top)
    BY StackFacts, KeepTop DEF Aborts, WithTop
<1>2. run' \in RunState /\ run'.op # "internal" /\ TopConsistent(stack', run')
    BY DEF Aborts, Failed, RunState, TopConsistent
<1> QED
    BY <1>1, <1>2, StackFacts, Stay DEF RestOK

\* A dry run ends.
LEMMA TerminateOK ==
    ASSUME Consistent, stack # <<>>, run.op = "idle", DryRun, NEW f \in Frame,
           TerminateValidation(f), RestOK
    PROVE  Consistent'
<1>1. CASE Aborts
    BY <1>1, AbortsOK
<1>2. CASE stack' = WithTop([f EXCEPT !.node = End]) /\ run' = Idle
    <2> DEFINE g == [f EXCEPT !.node = End]
    <2>1. g \in Frame /\ g.node = End
        BY DEF Frame
    <2>2. stack' \in Seq(Frame) /\ Len(stack') = Len(stack) /\ stack'[Len(stack)] = g
        BY <1>2, <2>1, StackFacts, ReplaceTop DEF WithTop
    <2>3. run' \in RunState /\ run'.op # "internal" /\ TopConsistent(stack', run')
        <3>1. Len(stack) = 1
            BY StackFacts
        <3> QED
            BY <1>2, <2>1, <2>2, <3>1, Zenon DEF Idle, RunState, TopConsistent
    <2> QED
        BY <1>2, <2>1, <2>3, Stay, Zenon DEF RestOK
<1> QED
    BY <1>1, <1>2 DEF TerminateValidation

\* The three of them at a statement that creates nothing.
LEMMA SimpleAdvances ==
    ASSUME Consistent, stack # <<>>, NEW kinds, At(kinds), Kind(Top.node) \notin {"forInitial", "declare"},
           NEW k \in DOMAIN Succ(Top.node), k # "exception", NEW outer \in BOOLEAN,
           Advances(stack, k, outer), RestOK
    PROVE  Consistent'
<1>1. stack = WithTop(Top) /\ Top \in Frame
    BY StackFacts, KeepTop DEF WithTop
<1>2. Completed(Top, k)
    BY <1>1, AtFacts, SettledCompleted
<1> QED
    BY <1>1, <1>2, AtFacts, AdvancesOK

\* An exception at a statement that has created nothing yet.
LEMMA SimpleThrows ==
    ASSUME Consistent, stack # <<>>, NEW kinds, At(kinds), Kind(Top.node) # "forInitial",
           NEW outer \in BOOLEAN, Throws(stack, outer), RestOK
    PROVE  Consistent'
<1>1. stack = WithTop(Top) /\ Top \in Frame
    BY StackFacts, KeepTop DEF WithTop
<1>2. Interrupted(Top)
    BY <1>1, AtFacts, SettledInterrupted
<1> QED
    BY <1>1, <1>2, AtFacts, ThrowsOK

\* Storing values in variables changes nothing else of a frame.
LEMMA AssignedFacts ==
    ASSUME NEW f \in Frame, NEW g \in Assigned(f) \cup AssignedInPart(f)
    PROVE  /\ g \in Frame /\ g.node = f.node /\ g.vars = f.vars /\ g.loops = f.loops
           /\ Settled(f) => Settled(g)
<1>1. f.vars \subseteq Var /\ f.large \subseteq Var
    BY DEF Frame
<1>2. PICK large \in SUBSET Var : g = [f EXCEPT !.large = large]
    <2>1. CASE g \in Assigned(f)
        <3>1. PICK l \in SUBSET f.large : g = [f EXCEPT !.large = l]
            BY <2>1, Zenon DEF Assigned
        <3> QED
            BY <3>1, <1>1
    <2>2. CASE g \in AssignedInPart(f)
        <3>1. PICK l \in SUBSET f.vars : g = [f EXCEPT !.large = l]
            BY <2>2, Zenon DEF AssignedInPart
        <3> QED
            BY <3>1, <1>1
    <2> QED
        BY <2>1, <2>2
<1>3. g \in Frame /\ g.node = f.node /\ g.vars = f.vars /\ g.loops = f.loops
    BY <1>2, SMTT(30) DEF Frame
<1> QED
    BY <1>3, SMTT(30) DEF Settled

\* A statement that stores values in variables completes.
LEMMA AssignedAdvances ==
    ASSUME Consistent, stack # <<>>, NEW kinds, At(kinds),
           Kind(Top.node) \notin {"forInitial", "declare"},
           NEW f \in Assigned(Top) \cup AssignedInPart(Top),
           NEW k \in DOMAIN Succ(Top.node), k # "exception", NEW outer \in BOOLEAN,
           Advances(WithTop(f), k, outer), RestOK
    PROVE  Consistent'
<1>1. f \in Frame /\ f.node = Top.node /\ Settled(f)
    BY StackFacts, AtFacts, AssignedFacts, Zenon
<1>2. Completed(f, k)
    BY <1>1, SettledCompleted, SMTT(30)
<1> QED
    BY <1>1, <1>2, AtFacts, AdvancesOK, Zenon

\* It raises an exception, perhaps with some of the values stored.
LEMMA AssignedThrows ==
    ASSUME Consistent, stack # <<>>, NEW kinds, At(kinds), Kind(Top.node) # "forInitial",
           NEW f \in Assigned(Top) \cup AssignedInPart(Top),
           NEW outer \in BOOLEAN, Throws(WithTop(f), outer), RestOK
    PROVE  Consistent'
<1>1. f \in Frame /\ f.node = Top.node /\ Settled(f)
    BY StackFacts, AtFacts, AssignedFacts, Zenon
<1>2. Interrupted(f)
    BY <1>1, SettledInterrupted, SMTT(30)
<1> QED
    BY <1>1, <1>2, AtFacts, ThrowsOK, Zenon

\* The value of a condition, also in a dry run, which stops there.
LEMMA SimpleCondition ==
    ASSUME Consistent, stack # <<>>, NEW kinds, At(kinds), Kind(Top.node) \notin {"forInitial", "declare"},
           Kind(Top.node) \in BranchKinds, NEW value \in {"true", "false"},
           NEW outer \in BOOLEAN, AdvancePastCondition(value, outer), RestOK
    PROVE  Consistent'
<1>1. value \in DOMAIN Succ(Top.node)
    BY AtFacts, GraphAssumption
<1>2. CASE DryRun
    BY <1>2, AtFacts, StackFacts, TerminateOK DEF AdvancePastCondition
<1>3. CASE ~DryRun
    BY <1>1, <1>3, SimpleAdvances DEF AdvancePastCondition
<1> QED
    BY <1>2, <1>3

\* A statement of a kind that always has a normal successor has one.
LEMMA NormalEdge ==
    ASSUME Consistent, stack # <<>>, NEW kinds \in SUBSET NormalKinds, At(kinds)
    PROVE  "normal" \in DOMAIN Succ(Top.node)
    BY AtFacts, GraphAssumption

-----------------------------------------------------------------------------
(* The statements, one lemma per action. *)

\* BEGIN, BREAK, CONTINUE, REPEAT, LOOP and CASE without an expression.
LEMMA JumpOK ==
    ASSUME Consistent, stack # <<>>, Jump
    PROVE  Consistent'
<1>1. At(JumpKinds) /\ Advances(stack, "normal", FALSE) /\ RestOK
    BY RestUnchanged, Zenon DEF Jump
<1>2. "normal" \in DOMAIN Succ(Top.node) /\ Kind(Top.node) \notin {"forInitial", "declare"}
    BY <1>1, AtFacts, NormalEdge DEF NormalKinds, JumpKinds
<1> QED
    BY <1>1, <1>2, SimpleAdvances, Zenon

\* RETURN.
LEMMA ReturnOK ==
    ASSUME Consistent, stack # <<>>, Return
    PROVE  Consistent'
<1>1. At({"return"}) /\ Advances(stack, "normal", FALSE) /\ RestOK
    BY Zenon DEF Return, RestOK, Consistent, TypeOK
<1>2. "normal" \in DOMAIN Succ(Top.node) /\ Kind(Top.node) \notin {"forInitial", "declare"}
    BY <1>1, AtFacts, NormalEdge DEF NormalKinds
<1> QED
    BY <1>1, <1>2, SimpleAdvances, Zenon

\* SQL statements and assignments to system variables.
LEMMA PlainStatementOK ==
    ASSUME Consistent, stack # <<>>, PlainStatement
    PROVE  Consistent'
<1>1. At(PlainKinds) /\ RestOK
    BY RestUnchanged DEF PlainStatement
<1>2. "normal" \in DOMAIN Succ(Top.node) /\ Kind(Top.node) \notin {"forInitial", "declare"}
    BY <1>1, AtFacts, NormalEdge DEF NormalKinds, PlainKinds
<1>3. CASE Advances(stack, "normal", FALSE)
    BY <1>1, <1>2, <1>3, SimpleAdvances, Zenon
<1>4. CASE Throws(stack, FALSE)
    BY <1>1, <1>2, <1>4, SimpleThrows, Zenon
<1>5. CASE Aborts
    BY <1>1, <1>5, AtFacts, AbortsOK
<1> QED
    BY <1>3, <1>4, <1>5, Zenon DEF PlainStatement

\* Assignments to variables.
LEMMA ExecuteAssignmentOK ==
    ASSUME Consistent, stack # <<>>, ExecuteAssignment
    PROVE  Consistent'
<1>1. At({"assign"}) /\ RestOK
    BY RestUnchanged DEF ExecuteAssignment
<1>2. "normal" \in DOMAIN Succ(Top.node) /\ Kind(Top.node) \notin {"forInitial", "declare"}
    BY <1>1, AtFacts, NormalEdge DEF NormalKinds
<1>3. CASE \E f \in Assigned(Top) : Advances(WithTop(f), "normal", FALSE)
    BY <1>1, <1>2, <1>3, AssignedAdvances, Zenon
<1>4. CASE \E f \in AssignedInPart(Top) : Throws(WithTop(f), FALSE)
    BY <1>1, <1>2, <1>4, AssignedThrows, Zenon
<1>5. CASE Aborts
    BY <1>1, <1>5, AtFacts, AbortsOK
<1> QED
    BY <1>3, <1>4, <1>5, Zenon DEF ExecuteAssignment

\* Conditions.
LEMMA EvaluateConditionOK ==
    ASSUME Consistent, stack # <<>>, EvaluateCondition
    PROVE  Consistent'
<1>1. At(TestKinds) /\ RestOK
    BY RestUnchanged DEF EvaluateCondition
<1>2. Kind(Top.node) \in BranchKinds /\ Kind(Top.node) \notin {"forInitial", "declare"}
    BY <1>1, AtFacts DEF BranchKinds, TestKinds
<1>3. CASE \E value \in {"true", "false"} : AdvancePastCondition(value, FALSE)
    BY <1>1, <1>2, <1>3, SimpleCondition, Zenon
<1>4. CASE Throws(stack, FALSE)
    BY <1>1, <1>2, <1>4, SimpleThrows, Zenon
<1>5. CASE Aborts
    BY <1>1, <1>5, AtFacts, AbortsOK
<1> QED
    BY <1>3, <1>4, <1>5, Zenon DEF EvaluateCondition

\* CASE with an expression chooses a clause.
LEMMA ExecuteCaseStatementOK ==
    ASSUME Consistent, stack # <<>>, ExecuteCaseStatement
    PROVE  Consistent'
<1>1. At({"case"})
    BY DEF ExecuteCaseStatement
<1>2. RestOK
    <2>1. Clauses(Top.node) \in Nat
        BY <1>1, AtFacts, GraphAssumption
    <2>2. caseTrue' \in Int /\ caseCurrent' \in Int
        <3>1. CASE caseTrue' \in -1 .. Clauses(Top.node) - 1 /\ caseCurrent' = -1
            BY <2>1, <3>1
        <3>2. CASE UNCHANGED <<caseTrue, caseCurrent>>
            BY <3>2 DEF Consistent, TypeOK
        <3> QED
            BY <3>1, <3>2, Zenon DEF ExecuteCaseStatement
    <2>3. UNCHANGED <<pending, errorVar, returned, open>>
        BY DEF ExecuteCaseStatement
    <2> QED
        BY <2>2, <2>3 DEF RestOK, Consistent, TypeOK
<1>3. "normal" \in DOMAIN Succ(Top.node) /\ Kind(Top.node) \notin {"forInitial", "declare"}
    BY <1>1, AtFacts, NormalEdge DEF NormalKinds
<1>4. CASE Advances(stack, "normal", FALSE)
    BY <1>1, <1>2, <1>3, <1>4, SimpleAdvances, Zenon
<1>5. CASE Throws(stack, FALSE)
    BY <1>1, <1>2, <1>3, <1>5, SimpleThrows, Zenon
<1>6. CASE Aborts
    BY <1>1, <1>2, <1>6, AtFacts, AbortsOK
<1> QED
    BY <1>4, <1>5, <1>6, Zenon DEF ExecuteCaseStatement

\* WHEN of a CASE with an expression.
LEMMA EvaluateWhenThenClauseOK ==
    ASSUME Consistent, stack # <<>>, EvaluateWhenThenClause
    PROVE  Consistent'
<1>1. At({"when"}) /\ RestOK
    BY DEF EvaluateWhenThenClause, RestOK, Consistent, TypeOK
<1>2. Kind(Top.node) \in BranchKinds /\ Kind(Top.node) \notin {"forInitial", "declare"}
    BY <1>1, AtFacts DEF BranchKinds
<1>3. \E value \in {"true", "false"} : AdvancePastCondition(value, FALSE)
    BY Zenon DEF EvaluateWhenThenClause
<1> QED
    BY <1>1, <1>2, <1>3, SimpleCondition, Zenon

\* The first k variables of a list are among them, and all of them are.
LEMMA NamesOfPrefix ==
    ASSUME NEW ids \in Seq(Var)
    PROVE  /\ \A k \in 0 .. Len(ids) : Names(SubSeq(ids, 1, k)) \subseteq Names(ids)
           /\ Names(SubSeq(ids, 1, Len(ids))) = Names(ids)
           /\ Names(ids) \subseteq Var
    BY DEF Names

\* DECLARE: the variables it has created when it fails are all destroyed by the
\* exception edge.
LEMMA ExecuteVariableDeclarationOK ==
    ASSUME Consistent, stack # <<>>, ExecuteVariableDeclaration
    PROVE  Consistent'
<1>1. At({"declare"}) /\ RestOK
    BY RestUnchanged DEF ExecuteVariableDeclaration
<1>2. "normal" \in DOMAIN Succ(Top.node)
    BY <1>1, NormalEdge DEF NormalKinds
<1>3. Top \in Frame /\ Top.node \in Node /\ Settled(Top) /\ Kind(Top.node) = "declare"
    BY <1>1, AtFacts, StackFacts
<1> DEFINE ids == Creates(Top.node)
           Declaring(k) == [Top EXCEPT !.vars = @ \cup Names(SubSeq(ids, 1, k))]
<1>4. ids \in Seq(Var)
    BY <1>3, GraphAssumption
<1>5. ASSUME NEW k \in 0 .. Len(ids)
      PROVE  /\ Declaring(k) \in Frame /\ Declaring(k).node = Top.node
             /\ Declaring(k).loops = Top.loops
             /\ Declaring(k).vars = Scope(Top.node) \cup Names(SubSeq(ids, 1, k))
    <2>1. Names(SubSeq(ids, 1, k)) \subseteq Var
        BY <1>4, NamesOfPrefix
    <2> QED
        BY <1>3, <2>1 DEF Frame, Settled
<1>6. ForDepth(Top.node) \in Nat /\ Opened(Top.node) = 0
    BY <1>3, Depths DEF Opened
<1>7. CASE Advances(WithTop(Declaring(Len(ids))), "normal", FALSE)
    <2>1. Len(ids) \in 0 .. Len(ids)
        BY <1>4
    <2>2. Completed(Declaring(Len(ids)), "normal")
        BY <1>2, <1>3, <1>4, <1>5, <1>6, <2>1, NamesOfPrefix
        DEF Completed, After, Settled
    <2> QED
        BY <1>1, <1>5, <1>7, <2>1, <2>2, AtFacts, AdvancesOK, Zenon
<1>8. CASE \E k \in 0 .. Len(ids) : Throws(WithTop(Declaring(k)), FALSE)
    <2>1. PICK k \in 0 .. Len(ids) : Throws(WithTop(Declaring(k)), FALSE)
        BY <1>8, Zenon
    <2>2. Interrupted(Declaring(k))
        BY <1>3, <1>4, <1>5, <1>6, NamesOfPrefix DEF Interrupted, Settled
    <2> QED
        BY <1>1, <1>5, <2>1, <2>2, AtFacts, ThrowsOK, Zenon
<1>9. CASE Aborts
    BY <1>1, <1>9, AtFacts, AbortsOK
<1> QED
    BY <1>7, <1>8, <1>9, Zenon DEF ExecuteVariableDeclaration

\* The first node of FOR: whatever it has done when it fails, the loop stack is one
\* deeper and only its own variable may be there.
LEMMA BeginForLoopOK ==
    ASSUME Consistent, stack # <<>>, BeginForLoop
    PROVE  Consistent'
<1>1. At({"forInitial"}) /\ RestOK
    BY RestUnchanged DEF BeginForLoop
<1>2. Top \in Frame /\ Top.node \in Node /\ Settled(Top) /\ Kind(Top.node) = "forInitial"
    BY <1>1, AtFacts, StackFacts
<1> DEFINE new == Names(Creates(Top.node))
           Left(created, iterator) ==
               [Top EXCEPT !.vars = @ \cup created, !.loops = Append(@, iterator)]
<1>3. /\ new \subseteq Var /\ new \cap Scope(Top.node) = {}
      /\ {"true", "false"} \subseteq DOMAIN Succ(Top.node)
    <2>1. Creates(Top.node) \in Seq(Var)
        BY <1>2, GraphAssumption
    <2>2. new \subseteq Var
        BY <2>1, NamesOfPrefix
    <2>3. Kind(Top.node) \in BranchKinds
        BY <1>2 DEF BranchKinds
    <2> QED
        BY <1>2, <2>2, <2>3, GraphAssumption
<1>4. ForDepth(Top.node) \in Nat /\ Opened(Top.node) = 1
    BY <1>2, Depths DEF Opened
<1>5. ASSUME NEW created \in {{}, new}, NEW iterator \in {"null", "open"}
      PROVE  LET f == Left(created, iterator)
             IN /\ f \in Frame /\ f.node = Top.node
                /\ f.vars = Scope(Top.node) \cup created
                /\ Len(f.loops) = ForDepth(Top.node) + 1
                /\ \A j \in 1 .. ForDepth(Top.node) : f.loops[j] = "open"
                /\ f.loops[ForDepth(Top.node) + 1] = iterator
    <2>1. Top.loops \in Seq({"null", "open"}) /\ Len(Top.loops) = ForDepth(Top.node)
        BY <1>2 DEF Frame, Settled
    <2>2. /\ Append(Top.loops, iterator) \in Seq({"null", "open"})
          /\ Len(Append(Top.loops, iterator)) = ForDepth(Top.node) + 1
          /\ \A j \in 1 .. ForDepth(Top.node) : Append(Top.loops, iterator)[j] = Top.loops[j]
          /\ Append(Top.loops, iterator)[ForDepth(Top.node) + 1] = iterator
        BY <2>1
    <2> QED
        BY <1>2, <1>3, <2>1, <2>2, Zenon DEF Frame, Settled
<1>6. CASE DryRun
    <2>1. TerminateValidation(Left({}, "null"))
        BY <1>6 DEF BeginForLoop
    <2> QED
        BY <1>1, <1>5, <1>6, <2>1, AtFacts, TerminateOK
<1>7. CASE ~DryRun /\ Advances(WithTop(Left(new, "open")), "true", TRUE)
    <2>1. Completed(Left(new, "open"), "true")
        BY <1>2, <1>3, <1>4, <1>5 DEF Completed, After, Settled
    <2> QED
        BY <1>1, <1>5, <1>7, <2>1, AtFacts, AdvancesOK, Zenon
<1>8. CASE ~DryRun /\ Advances(WithTop(Left({}, "open")), "false", TRUE)
    <2>1. Completed(Left({}, "open"), "false")
        BY <1>2, <1>3, <1>4, <1>5 DEF Completed, After, Settled
    <2> QED
        BY <1>1, <1>5, <1>8, <2>1, AtFacts, AdvancesOK, Zenon
<1>9. CASE \E created \in {{}, new}, iterator \in {"null", "open"} :
                Throws(WithTop(Left(created, iterator)), FALSE)
    <2>1. PICK created \in {{}, new}, iterator \in {"null", "open"} :
                Throws(WithTop(Left(created, iterator)), FALSE)
        BY <1>9, Zenon
    <2>2. Interrupted(Left(created, iterator))
        BY <1>2, <1>4, <1>5 DEF Interrupted
    <2> QED
        BY <1>1, <1>5, <2>1, <2>2, AtFacts, ThrowsOK, Zenon
<1>10. CASE Aborts
    BY <1>1, <1>10, AtFacts, AbortsOK, SMTT(30)
<1>11. new \cap Top.vars = {}
    BY <1>2, <1>3 DEF Settled
<1> QED
    BY <1>6, <1>7, <1>8, <1>9, <1>10, <1>11, Zenon DEF BeginForLoop

\* The second node of FOR finds its iterator and its variable.
LEMMA AdvanceForLoopOK ==
    ASSUME Consistent, stack # <<>>, AdvanceForLoop
    PROVE  Consistent'
<1>1. At({"forAdvance"}) /\ RestOK
    BY RestUnchanged DEF AdvanceForLoop
<1>2. Top \in Frame /\ Top.node \in Node /\ Settled(Top) /\ Kind(Top.node) = "forAdvance"
    BY <1>1, AtFacts, StackFacts
<1>3. /\ ForDepth(Top.node) \in Nat /\ ForDepth(Top.node) > 0
      /\ Names(Creates(Top.node)) \subseteq Top.vars
    BY <1>2, Depths, GraphAssumption DEF Settled
<1>4. Top.loops # <<>> /\ Top.loops[Len(Top.loops)] = "open"
    BY <1>2, <1>3 DEF Settled, Frame
<1> DEFINE row == Names(Creates(Top.node))
           stored == [Top EXCEPT !.large = @ \ row]
<1>5. Kind(Top.node) \in BranchKinds /\ Kind(Top.node) \notin {"forInitial", "declare"}
    BY <1>2 DEF BranchKinds
<1>6. CASE AdvancePastCondition("false", TRUE)
    BY <1>1, <1>5, <1>6, SimpleCondition, Zenon
<1>7. CASE DryRun /\ TerminateValidation(Top)
    BY <1>1, <1>2, <1>7, AtFacts, TerminateOK
<1>8. CASE Advances(WithTop(stored), "true", TRUE)
    <2>1. stored \in Assigned(Top)
        BY <1>2 DEF Assigned, Frame
    <2>2. "true" \in DOMAIN Succ(Top.node)
        BY <1>2, <1>5, GraphAssumption
    <2> HIDE DEF stored
    <2> QED
        BY <1>1, <1>5, <1>8, <2>1, <2>2, AssignedAdvances, Zenon
<1>9. CASE Throws(stack, FALSE)
    BY <1>1, <1>2, <1>9, SimpleThrows, Zenon
<1>10. CASE Aborts
    BY <1>1, <1>10, AtFacts, AbortsOK
<1> QED
    BY <1>3, <1>4, <1>6, <1>7, <1>8, <1>9, <1>10, Zenon DEF AdvanceForLoop

\* RAISE; without a message it finds a pending exception.
LEMMA ExecuteRaiseStatementOK ==
    ASSUME Consistent, stack # <<>>, ExecuteRaiseStatement
    PROVE  Consistent'
<1>1. At(ThrowKinds) /\ RestOK
    BY RestUnchanged DEF ExecuteRaiseStatement
<1>2. Top \in Frame /\ Top.node \in Node /\ Top.node # End /\ Kind(Top.node) # "forInitial"
    BY <1>1, AtFacts, StackFacts DEF ThrowKinds
<1>3. CASE DryRun /\ stack' = WithTop([Top EXCEPT !.node = End]) /\ run' = Idle
    BY <1>1, <1>2, <1>3, AtFacts, TerminateOK DEF TerminateValidation
<1>4. CASE Throws(stack, FALSE)
    BY <1>1, <1>2, <1>4, SimpleThrows, Zenon
<1>5. CASE Aborts
    BY <1>1, <1>5, AtFacts, AbortsOK
<1>6. CASE /\ Kind(Top.node) = "rethrow" /\ stack' = stack
           /\ run' = IF pending = <<>> THEN InternalError
                     ELSE MaybeDispatch(stack, Innermost(pending), FALSE)
    <2>1. pending \in Seq(Exc) /\ Covers(pending, stack)
        BY <1>1, AtFacts DEF Consistent, TypeOK, PendingCoverHandlers
    <2>2. HandlerDepth(Top.node) <= Len(pending)
        BY <1>2, <2>1, StackFacts, CoversTop
    <2>3. HandlerDepth(Top.node) \in Nat /\ HandlerDepth(Top.node) > 0
        BY <1>2, <1>6, Depths, GraphAssumption
    <2>4. pending # <<>> /\ Innermost(pending) \in Exc
        BY <2>1, <2>2, <2>3 DEF Innermost
    <2> QED
        BY <1>1, <1>2, <1>6, <2>4, SimpleThrows, Zenon DEF Throws
<1> QED
    BY <1>3, <1>4, <1>5, <1>6, Zenon DEF ExecuteRaiseStatement

\* The statement pushes a frame, and may have stored values in the one below.
LEMMA PushOK ==
    ASSUME Consistent, stack # <<>>, NEW kinds \in SUBSET CallKinds, At(kinds),
           ~DryRun, Len(stack) < MaxDepth,
           NEW g \in Frame, g.node = Top.node, Settled(g),
           NEW f \in Frame, HandlerDepth(f.node) = 0, stack' = Append(WithTop(g), f),
           run' \in RunState, run'.op # "internal", TopConsistent(stack', run'), RestOK
    PROVE  Consistent'
<1> DEFINE s == WithTop(g)
<1>0. /\ s \in Seq(Frame) /\ Len(s) = Len(stack) /\ s[Len(stack)] = g
      /\ \A i \in 1 .. Len(stack) - 1 : s[i] = stack[i]
    BY StackFacts, ReplaceTop DEF WithTop
<1> HIDE DEF s
<1>1. /\ stack' \in Seq(Frame) /\ Len(stack') = Len(stack) + 1 /\ stack'[Len(stack')] = f
      /\ \A i \in 1 .. Len(stack) : stack'[i] = s[i]
    BY <1>0, Push DEF s
<1>2. TypeOK'
    BY <1>1, SMTT(30) DEF RestOK, Consistent, TypeOK
<1>3. SettledCallers(stack')
    <2>1. \A i \in 1 .. Len(stack) - 1 : Settled(stack[i]) /\ Kind(stack[i].node) \in CallKinds
        BY DEF Consistent, CallersSettled, SettledCallers
    <2>2. Settled(g) /\ Kind(g.node) \in CallKinds
        BY AtFacts
    <2>3. \A i \in 1 .. Len(stack) : Settled(stack'[i]) /\ Kind(stack'[i].node) \in CallKinds
        BY <1>0, <1>1, <2>1, <2>2, StackFacts, SMTT(30)
    <2> QED
        BY <1>1, <2>3, StackFacts, SMTT(30) DEF SettledCallers
<1>4. Covers(pending, stack')
    <2>1. Covers(pending, stack) /\ pending \in Seq(Exc)
        BY AtFacts DEF Consistent, PendingCoverHandlers, TypeOK
    <2>2. \A i \in 1 .. Len(stack) : s[i].node \in {stack[i].node, End}
        BY <1>0, StackFacts, SMTT(30)
    <2>3. Covers(pending, s)
        BY <2>1, <2>2, <1>0, StackFacts, CoversSame, Zenon
    <2>4. /\ Len(stack') = Len(s) + 1 /\ \A i \in 1 .. Len(s) : stack'[i] = s[i]
          /\ stack'[Len(stack')].node # End => HandlerDepth(stack'[Len(stack')].node) = 0
        BY <1>0, <1>1
    <2> QED
        BY <2>1, <2>3, <2>4, <1>0, <1>1, CoversPush, Zenon
<1>5. errorVar' = Innermost(pending') /\ pending' = pending
    BY DEF Consistent, RestOK
<1>6. Len(stack') \in 0 .. MaxDepth /\ stack' # <<>>
    BY <1>1, StackFacts, OptionsAssumption, SMTT(30)
<1> QED
    BY <1>2, <1>3, <1>4, <1>5, <1>6, SMTT(30)
    DEF Consistent, NoInternalError, CallersSettled, PendingCoverHandlers

\* The frame that CALL or EXECUTE IMMEDIATE pushes.
LEMMA NewFrameFacts ==
    ASSUME NEW n \in Node, NEW body \in Bodies(n)
    PROVE  /\ body \in Node /\ HandlerDepth(body) = 0
           /\ "exception" \notin DOMAIN Succ(body)
           /\ Kind(n) # "call" => Scope(body) = {}
           /\ LET f == NewFrame(body, Scope(body))
              IN f \in Frame /\ f.node = body /\ Settled(f)
<1>1. /\ body \in Node /\ ForDepth(body) = 0 /\ HandlerDepth(body) = 0
      /\ "exception" \notin DOMAIN Succ(body)
      /\ Kind(n) # "call" => Scope(body) = {}
    BY GraphAssumption
<1>2. Scope(body) \subseteq Var /\ body # End
    BY <1>1, GraphAssumption
<1> QED
    BY <1>1, <1>2 DEF NewFrame, Frame, Settled

\* The new frame waits for the next ExecuteNext().
LEMMA PushedIdle ==
    ASSUME Consistent, stack # <<>>, NEW kinds \in SUBSET CallKinds, At(kinds),
           ~DryRun, Len(stack) < MaxDepth, NEW body \in Bodies(Top.node),
           stack' = Append(stack, NewFrame(body, Scope(body))), run' = Idle, RestOK
    PROVE  Consistent'
<1> DEFINE f == NewFrame(body, Scope(body))
<1>1. f \in Frame /\ HandlerDepth(f.node) = 0 /\ Settled(f)
    BY AtFacts, NewFrameFacts
<1>2. stack'[Len(stack')] = f /\ stack = WithTop(Top) /\ Top \in Frame
    BY <1>1, StackFacts, Push, KeepTop, SMTT(30) DEF WithTop
<1>3. run' \in RunState /\ run'.op # "internal" /\ TopConsistent(stack', run')
    BY <1>1, <1>2 DEF Idle, RunState, TopConsistent, Settled
<1> HIDE DEF f
<1>4. Settled(Top) /\ stack' = Append(WithTop(Top), f)
    BY <1>2, AtFacts, Zenon DEF f
<1> QED
    BY <1>1, <1>2, <1>3, <1>4, PushOK, Zenon

\* CALL, with and without a new frame.
LEMMA ExecuteCallStatementOK ==
    ASSUME Consistent, stack # <<>>, ExecuteCallStatement
    PROVE  Consistent'
<1>1. At({"call"})
    BY DEF ExecuteCallStatement
<1>2. RestOK
    <2>1. open' \in Int
        <3>1. open' = open \/ open' = open + 1
            BY Zenon DEF ExecuteCallStatement
        <3> QED
            BY <3>1 DEF Consistent, TypeOK
    <2>2. UNCHANGED <<pending, errorVar, caseTrue, caseCurrent, returned>>
        BY DEF ExecuteCallStatement
    <2> QED
        BY <2>1, <2>2 DEF RestOK, Consistent, TypeOK
<1>3. "normal" \in DOMAIN Succ(Top.node) /\ Kind(Top.node) \notin {"forInitial", "declare"}
    BY <1>1, AtFacts, NormalEdge DEF NormalKinds, CallKinds
<1>4. CASE \E f \in Assigned(Top) : Advances(WithTop(f), "normal", TRUE)
    BY <1>1, <1>2, <1>3, <1>4, AssignedAdvances, Zenon
<1>5. CASE \E f \in Assigned(Top), outer \in BOOLEAN : Throws(WithTop(f), outer)
    BY <1>1, <1>2, <1>3, <1>5, AssignedThrows, Zenon
<1>6. CASE Aborts
    BY <1>1, <1>2, <1>6, AtFacts, AbortsOK
<1>7. CASE /\ ~DryRun /\ Len(stack) < MaxDepth
           /\ \E body \in Bodies(Top.node) :
                stack' = Append(stack, NewFrame(body, Scope(body)))
           /\ run' = Idle
    BY <1>1, <1>2, <1>7, PushedIdle DEF CallKinds
<1> QED
    BY <1>4, <1>5, <1>6, <1>7, Zenon DEF ExecuteCallStatement

\* EXECUTE IMMEDIATE without INTO.
LEMMA ExecuteDynamicStatementOK ==
    ASSUME Consistent, stack # <<>>, ExecuteDynamicStatement
    PROVE  Consistent'
<1>1. At({"exec"})
    BY DEF ExecuteDynamicStatement
<1>2. RestOK
    <2>1. open' \in Int
        <3>1. open' = open \/ open' = open + 1
            BY Zenon DEF ExecuteDynamicStatement
        <3> QED
            BY <3>1 DEF Consistent, TypeOK
    <2>2. UNCHANGED <<pending, errorVar, caseTrue, caseCurrent, returned>>
        BY DEF ExecuteDynamicStatement
    <2> QED
        BY <2>1, <2>2 DEF RestOK, Consistent, TypeOK
<1>3. "normal" \in DOMAIN Succ(Top.node) /\ Kind(Top.node) = "exec"
    BY <1>1, AtFacts, NormalEdge DEF NormalKinds, CallKinds
<1>4. CASE Advances(stack, "normal", TRUE)
    BY <1>1, <1>2, <1>3, <1>4, SimpleAdvances, Zenon
<1>5. CASE Throws(stack, FALSE)
    BY <1>1, <1>2, <1>3, <1>5, SimpleThrows, Zenon
<1>6. CASE Aborts
    BY <1>1, <1>2, <1>6, AtFacts, AbortsOK
<1>7. CASE /\ ~DryRun /\ Len(stack) < MaxDepth
           /\ \E body \in Bodies(Top.node) : stack' = Append(stack, NewFrame(body, {}))
           /\ run' = Idle
    <2>1. PICK body \in Bodies(Top.node) : stack' = Append(stack, NewFrame(body, {}))
        BY <1>7
    <2>2. Scope(body) = {}
        BY <1>1, <1>3, AtFacts, NewFrameFacts
    <2> QED
        BY <1>1, <1>2, <1>7, <2>1, <2>2, PushedIdle, Zenon DEF CallKinds
<1> QED
    BY <1>4, <1>5, <1>6, <1>7, Zenon DEF ExecuteDynamicStatement

\* EXECUTE IMMEDIATE with INTO, whose frame may be popped in the same call.
LEMMA ExecuteDynamicIntoStatementOK ==
    ASSUME Consistent, stack # <<>>, ExecuteDynamicIntoStatement
    PROVE  Consistent'
<1>1. At({"execInto"})
    BY DEF ExecuteDynamicIntoStatement
<1>2. RestOK
    <2>1. open' \in Int
        <3>1. open' = open \/ open' = open + 1
            BY Zenon DEF ExecuteDynamicIntoStatement
        <3> QED
            BY <3>1 DEF Consistent, TypeOK
    <2>2. UNCHANGED <<pending, errorVar, caseTrue, caseCurrent, returned>>
        BY DEF ExecuteDynamicIntoStatement
    <2> QED
        BY <2>1, <2>2 DEF RestOK, Consistent, TypeOK
<1>3. "normal" \in DOMAIN Succ(Top.node) /\ Kind(Top.node) = "execInto"
    BY <1>1, AtFacts, NormalEdge DEF NormalKinds, CallKinds
<1>4. CASE Advances(stack, "normal", TRUE)
    BY <1>1, <1>2, <1>3, <1>4, SimpleAdvances, Zenon
<1>5. CASE Throws(stack, FALSE)
    BY <1>1, <1>2, <1>3, <1>5, SimpleThrows, Zenon
<1>6. CASE Aborts
    BY <1>1, <1>2, <1>6, AtFacts, AbortsOK
<1>7. ASSUME ~DryRun, Len(stack) < MaxDepth, NEW body \in Bodies(Top.node), NEW g \in Frame,
             g.node = Top.node, Settled(g),
             \/ Throws(Append(WithTop(g), NewFrame(body, {})), FALSE)
             \/ /\ Kind(body) = "sql"
                /\ Advances(Append(WithTop(g), NewFrame(body, {})), "normal", TRUE)
      PROVE  Consistent'
    <2> DEFINE f == NewFrame(body, {})
               s == WithTop(g)
    <2>1. /\ f \in Frame /\ f.node = body /\ body \in Node /\ HandlerDepth(body) = 0
          /\ Settled(f) /\ "exception" \notin DOMAIN Succ(body) /\ body # End
        <3>1. Top.node \in Node /\ Kind(Top.node) # "call"
            BY <1>1, <1>3, AtFacts, SMTT(30)
        <3>2. Scope(body) = {}
            BY <3>1, NewFrameFacts, SMTT(30)
        <3>3. body # End
            BY <3>1, NewFrameFacts, GraphAssumption
        <3> QED
            BY <3>1, <3>2, <3>3, NewFrameFacts, Zenon
    <2>a. s \in Seq(Frame)
        BY StackFacts, ReplaceTop DEF WithTop
    <2> HIDE DEF s
    <2>2. stack' = Append(s, f)
        BY <1>7, Zenon DEF Throws, Advances, s
    <2>3. stack' \in Seq(Frame) /\ Len(stack') >= 1 /\ stack'[Len(stack')] = f
        BY <2>a, <2>1, <2>2, Push, SMTT(30)
    <2>4. run' \in RunState /\ run'.op # "internal" /\ TopConsistent(stack', run')
        <3>1. CASE Throws(Append(s, f), FALSE)
            <4>1. PICK exc \in Exc : run' = MaybeDispatch(stack', exc, FALSE)
                BY <3>1, Zenon DEF Throws
            <4> QED
                BY <4>1, <2>1, <2>3, Thrown, Zenon
        <3>2. CASE Kind(body) = "sql" /\ Advances(Append(s, f), "normal", TRUE)
            <4>1. "normal" \in DOMAIN Succ(body)
                BY <2>1, <3>2, GraphAssumption DEF NormalKinds, PlainKinds
            <4>2. Completed(f, "normal")
                BY <2>1, <3>2, <4>1, SettledCompleted
            <4> QED
                BY <3>2, <4>2, <2>3, SMTT(30)
                DEF Advances, Advancing, RunState, EdgeKinds, TopConsistent
        <3> QED
            BY <1>7, <3>1, <3>2, Zenon DEF s
    <2>5. {"execInto"} \in SUBSET CallKinds
        BY DEF CallKinds
    <2> HIDE DEF f
    <2> QED
        BY <1>1, <1>2, <1>7, <2>1, <2>2, <2>4, <2>5, PushOK, Zenon DEF s
<1>8. ASSUME NEW g \in {Top} \cup Assigned(Top) \cup AssignedInPart(Top)
      PROVE  g \in Frame /\ g.node = Top.node /\ Settled(g)
    BY <1>1, <1>8, StackFacts, AtFacts, AssignedFacts, Zenon
<1>9. stack = WithTop(Top)
    BY StackFacts, KeepTop DEF WithTop
<1>10. CASE \E f \in AssignedInPart(Top) : Throws(WithTop(f), FALSE)
    BY <1>1, <1>2, <1>3, <1>10, AssignedThrows, Zenon
<1>11. ASSUME ~DryRun, Len(stack) < MaxDepth, NEW body \in Bodies(Top.node),
              NEW g \in {Top} \cup Assigned(Top) \cup AssignedInPart(Top),
              \/ Throws(Append(WithTop(g), NewFrame(body, {})), FALSE)
              \/ /\ Kind(body) = "sql"
                 /\ Advances(Append(WithTop(g), NewFrame(body, {})), "normal", TRUE)
       PROVE  Consistent'
    BY <1>7, <1>8, <1>11, Zenon
<1> QED
    BY <1>4, <1>5, <1>6, <1>10, <1>11, Zenon DEF ExecuteDynamicIntoStatement

=============================================================================
