# GoogleSQL: a TLA+ development

GoogleSQL parses, analyses and, in its reference implementation, evaluates SQL.
Most of it is a set of pure functions over trees and values. This development
models the parts with a control state of their own, four of them:

* **Scripts** (`googlesql/scripting`): the parse tree of a script and what makes it
  valid, the control-flow graph built from it, and the executor that walks the
  graph one statement at a time, on behalf of an engine that may stop between any
  two statements and go on in another process. Each layer trusts the one before
  it: the executor keeps no record of which blocks, loops or handlers it is in; it
  follows an edge, and the edge says how many iterators to pop, which variables
  to destroy and how many handlers have been left.
* **The local service** (`googlesql/local_service`): descriptor pools, catalogs and
  prepared statements that clients register, use and release through concurrent
  calls.
* **MATCH_RECOGNIZE** (`googlesql/common/match_recognize` and the operator in
  `reference_impl/pattern_matching_op.cc`): from a pattern to an automaton, and from
  rows that come one by one to matches.
* **The lifetime of types** (`googlesql/public/types`): the reference counts that keep
  the types of a destroyed factory alive for as long as they are needed.

The four share no state, so they are separate specifications.

## 1. Inventory

### 1.1 Parts of the repository

| Part | State and operations | Here |
| --- | --- | --- |
| Script control flow | tree to graph; edges with side effects | modelled |
| Parsed scripts | validation visitors; variables in scope | modelled in part: no query parameters, no lookup by position |
| Executor: control | call stack, pending exceptions, `@@error`, loop stacks, CASE indices; one handler per statement kind, dispatch, save, restore, reset | modelled |
| Executor: memory accounting | `total_memory_usage_`, sizes of variables and iterators | which variables exceed the per-variable limit; no sums (section 8) |
| Executor: procedure arguments | positional, named, OUT, INOUT | not modelled, beyond the names a frame starts with |
| Error locations, segments, value encodings | pure text and protocol buffers | no control state |
| Parser and macro expander | generated grammar; expansion of macros | only the shapes of script statements |
| Analyzer and rewriters | tree to tree | out of reach of an explicit-state model |
| Resolved AST | generated | no |
| Reference implementation | algebra over values | only the operator that matches patterns |
| Prepared expressions and queries | executions against re-preparation, under a mutex | not modelled |
| MATCH_RECOGNIZE matcher | NFA construction, epsilon removal, streaming match of a partition | modelled in part: valid bounds only, no deferred compilation |
| Pattern matching operator | iterator over partitions, rows and matches | modelled |
| Local service | five pools of registered states under concurrent calls | all calls that use registered states |
| Types and values | stores, reference counts, dependencies | the lifetime of types; not their contents |
| SQL functions, catalogs, formatter, tools, compliance tests, Java client | text, numbers, maps, input and output | no |

`PROJECT.json` lists the same parts with their sources.

### 1.2 The state, and who changes it

Of a script:

* `callstack_`: one frame per procedure or dynamic statement, with its current
  control-flow node, its variables and its stack of FOR iterators. CALL and
  EXECUTE IMMEDIATE push; reaching the end of a body, and unwinding, pop.
* `pending_exceptions_`: one entry for each exception being handled, of all
  frames together. Entering a handler pushes; leaving one pops.
* `@@error.*`: copied from the last pending exception when that changes.
* `case_stmt_true_branch_index_`, `case_stmt_current_branch_index_`: which WHEN
  clause holds, and the last one met. They belong to the executor, not to a frame.
* `returned_from_script_`: the main script ended by RETURN.
* On the engine's side: which procedures it has been told are open
  (`OnProcedureEntered`, `OnProcedureExited`).

Of the local service: five `SharedStatePool`s, each a map from ids to states and a
counter under a mutex of its own. Prepare, RegisterCatalog and the evaluation of
unprepared expressions add to several of them in turn, and take everything back when
they fail; Unprepare and UnregisterCatalog delete a state and what it owns, one critical
section each.

Of the matcher: the automaton, fixed once built; in a partition, the edges marked for
the rows that matches may still run through (`EdgeTracker`), the offset of the first of
them, the next match id; in the operator, the partition, the next row to feed and the
rows still to be returned.

Of a type store: a counter, and two sets that record, under the mutexes of two
different stores, that one depends on the other. Factories, Values and stores each hold
references; whoever gives up the last one runs the destructor.

### 1.3 Behaviours that are hard to test

* Every call the executor makes to the evaluator may succeed, raise an
  exception that the script can catch, or fail for good, and the executor may be
  half way through a statement then: FOR has pushed a placeholder, created its
  variable or stored its iterator; DECLARE has created some of its variables.
* An exception is dispatched through any number of frames, out of handlers,
  loops and blocks of each.
* The evaluator can fail again *during* a transition, when an iterator is closed
  or a procedure is left.
* The state is saved and restored between any two statements, and the restoring
  executor checks the sizes of all values again.
* A dry run follows the graph without evaluating anything and must stop.
* Two clients release one handle while a third call uses the pool that it owns; a call
  fails after it has registered half of what it needs.
* Matches are settled in batches: what has been reported for a batch must stay right
  whatever rows come later, and anchors hold in one row of a partition only.
* The last reference to a store is given up in one thread while another builds a type
  from its types, between the two halves of recording the dependency.

The `hazards` of `PROJECT.json` give the line for each.

## 2. Modules

| Module | Models | Lines it stands for |
| --- | --- | --- |
| `ParsedScript` | parse trees as functions from paths to nodes; the validation of DECLARE positions, redeclarations, RAISE outside handlers and nesting depth; `VariablesInScopeAt` | `parsed_script.cc` |
| `ControlFlowGraph` | the builder: end edges of each statement, linking of lists, branches, loops and blocks, exception edges, labels, pruning of unreachable nodes; `ComputeSideEffects` | `control_flow_graph.cc` |
| `ScriptSyntax` | the state machine whose states are all valid scripts up to a size, and a reference semantics to compare the graph with | uses the two above |
| `ScriptControl` | `ScriptExecutorImpl`: state and `ExecuteNext`, `GetState`, `SetState`, `Reset` | `script_executor_impl.cc` |
| `ScriptControlStatements`, `ScriptControlTransitions`, `ScriptControlProofs` | lemmas and theorems about `ScriptControl` | |
| `Registry` | what the local service promises: handles that open and close at once with all they own | abstract |
| `LocalService` | the calls, step by step; its instance `Service` of `Registry` is the refinement mapping | `local_service.cc`, `state.h` |
| `LocalServiceProofs` | lemmas and theorems about `LocalService`; the refinement | |
| `MatchAutomaton` | automata and what their validation checks | `nfa.h`, `nfa.cc`, `compiled_nfa.cc` |
| `MatchPattern` | pattern to automaton: builder and epsilon remover; and, as a reference, the ways a pattern matches | `nfa_builder.cc`, `nfa.cc`, `epsilon_remover.cc` |
| `MatchPartition` | edge tracker, row edge list, extraction of matches | `edge_tracker.cc`, `row_edge_list.cc`, `nfa_match_partition.cc` |
| `MatchRuns` | the runs of an automaton over a whole partition and which of them are preferred: the reference for `MatchPartition` | |
| `PatternMatching` | the iterator that feeds partitions and returns rows | `pattern_matching_op.cc` |
| `PatternMatchingReference` | its output compared with the meaning of the pattern | |
| `MatchPartitionFacts`, `MatchPartitionProofs`, `PatternMatchingProofs` | lemmas and theorems about the matcher and its iterator | |
| `TypeStore` | stores, factories, Values and threads | `type.cc`, `type_factory.cc`, `value.cc` |
| `TypeStoreProofs` | lemmas and theorems about `TypeStore` | |
| `MCScriptSyntax`, `MCScriptControl`, `MCScriptControlAll`, `MCScriptControlModes`, `MCScriptControlFaults`, `MCLocalService`, `MCPatternMatching`, `MCTypeStore` | instances | |

**Scripts and graphs.** A node of the parse tree is the sequence of child
indices that leads to it. `Shape` gives the node kinds a form of statement
consists of (an IF has a list, a TRY block a list and a handler with a list,
and so on), and `AppendStatement` puts one at the end of a list. The builder of
the source is a bottom-up visitor that keeps, for each statement, the edges that
are still open (`NodeData::end_edges`); `EndEdges` is that table, and `ListLinks`,
`BranchLinks`, `LoopLinks` and `BlockLinks` are the `LinkNodes` calls of the
visitors. A FOR has two nodes, as in the source. Expressions have no structure: a
condition is true or false, and a statement that may throw may throw.

**The executor.** `ScriptControl` takes the graph as a constant, one for all the
scripts, procedures and dynamic statements together. `stack`, `pending`,
`errorVar`, `caseTrue`, `caseCurrent` and `returned` are the fields of 1.2; `open` is
the engine's count of open procedures. A call of `ExecuteNext` is one statement action
(`Jump`, `Return`, `PlainStatement`, `ExecuteAssignment`, `ExecuteVariableDeclaration`, `EvaluateCondition`,
`ExecuteCaseStatement`, `EvaluateWhenThenClause`, `BeginForLoop`, `AdvanceForLoop`,
`ExecuteCallStatement`, `ExecuteDynamicStatement`, `ExecuteDynamicIntoStatement`,
`ExecuteRaiseStatement`) followed by one step for each iteration of the loops in
`AdvanceInternal` and `DispatchException`. The variable `run` says what is left of
the call; nothing else is enabled until it is idle, so splitting a call adds no
interleaving. It is what lets "ExecuteNext returns" be stated.

The evaluator is external. Its answers are success, an exception in `Exc` or a
fatal error (`Failed(NoExc)`, after which the engine gives up). Where the code can
fail at several points of one statement, the action has one disjunct for each
state it can leave behind. `LateFaults` names the calls that may raise an
exception during a transition; the code's answer to these is a different one
(see the finding `late_fault`), so they can be switched off.

`MCScriptControl` makes the graphs for the instances with the modules
`ParsedScript` and `ControlFlowGraph`, so the executor runs on what the builder
builds, and TLC evaluates the assumptions about graphs on them.

A frame's `large` are its variables with a value above the per-variable memory limit. A
value is stored before its size is checked, in an assignment and in EXECUTE IMMEDIATE ...
INTO, so one that is refused stays in the variable when the
exception is caught. `SetState` checks sizes again and refuses such a state:
`Restart` then leaves an executor without a stack, as the code does.

**Left out of the executor**: values and their types, other sizes, time zones, query
parameters, the text of errors and their locations, system variables other than
`@@error`, and the argument binding of CALL beyond the names it creates.

**The local service.** `saved` is all five `saved_states_` together: an id is a pair of a
pool and a number, and a state is the set of ids it owns, which is what releasing it
deletes. `call[t]` holds the local variables of the call a thread is in. Every critical
section is a step: `GetDescriptorPool`, `RegisterNewDescriptorPool`, `GetCatalogState`,
`Publish`, `Cleanup` of the calls that make things, `Lookup`, `DeleteOwned`, `DeleteTarget` of
those that release them, `Find` and `EvaluatePrepared` of those that use them. `issued` and
`asked` are the clients' side: which ids they have been given, and for which handle; which
handles somebody has asked to release. A client names only ids it was given, at any
time, also after their release. UnregisterCatalog has the same steps as UnprepareImpl.

**MATCH_RECOGNIZE.** A pattern is a small tree; `Compile` is the builder followed by the
epsilon remover with its merge of the edges for the start, the middle and the end of
a partition. `AddRow` and `Finalize` are functions from a match partition to the next and
its new matches; each loop of the matcher is a recursive function, its state after each
iteration. There are two references. `Runs` gives the accepting runs of the automaton that
begin in a row, over all the rows of the partition at once: what the streaming matcher has
to find. `Ways` gives all ways to match from a row, best first, defined over the pattern and
not over any automaton: what automaton and matcher together have to find. In `PatternMatching` the
loop of `Next` is split at its natural points: load a partition, feed one row (and finalize
with the last), return one row; `Fail` is an error of the input, of a predicate or
of the memory limit at any of them. A tuple of the input is the rank of its partition keys
and the set of variables whose predicates hold on it. Partitions are cut from the sorted
input as in the code: tuples are read until one has other keys, and that one (`ahead`,
`first_tuple_in_next_partition_`) begins the next partition.

**Type stores.** A type is abstracted to its store and the store of its component.
`MakeType`, `Insert`, `Link`, `Create` are a call of MakeArrayType, split where AddDependency
releases one mutex and takes another; `NewValue` and `Clear` are the Values; `DestroyFactory`
is ~TypeFactory; `Unref`, `Unlink`, `Destroyed` are the count and the destructor, nested as
deep as the cascade goes (`dying[t]`).

## 3. Properties and runs

### 3.1 `syntax`: the graph is that of the script

`ScriptSyntax.cfg` enumerates every valid script of up to three statements of all
17 forms, with labels, and of up to five statements of the five forms that have
side effects on the edges leaving them (block with handler, FOR, DECLARE,
BREAK, SQL): about 81,000 scripts, up to the renaming of variables. For each:

* `TypeOK`: the tree is a tree of the shapes of the parser.
* `OneSuccessorPerKind`: the builder never links a second successor of one kind
  to a node, which the source answers with an internal error.
* `GraphFollowsProgram`: the edges are exactly those of a top-down definition of
  where control goes (`Continuation`, `Successor`). The builder works bottom-up from
  open ends, so the two have no structure in common.
* `SideEffectsMatchNesting`: following an edge pops as many iterators and handlers
  and destroys the variables that the nesting of its two ends demands. This is
  the assumption `ScriptControl` makes about graphs.

Three statements are enough for each form inside, before and after each other
form, and five for a handler in a loop in a handler with a jump out of both.

### 3.2 `control`, `control_modes`: the executor

The main scripts are all valid ones with two statements out of all 21 forms, all
with three out of the eight with handlers, loops, variables and calls, and one
written to nest calls, loops and handlers three frames deep. Each may call a
procedure that declares a variable and raises, and execute a query; the nested
one also calls a procedure that catches an exception and calls again from its
handler, and a dynamic block whose handler raises again.

| Run | Options | Shows |
| --- | --- | --- |
| `control` | two exceptions, depth 3 | `TypeOK`, `NoInternalError`, `Consistent`, `PendingCoverHandlers`, `CaseInStep`, `HandledNeverEscapes`, `RestartInvisible`, `ExecuteNextReturns`; 29,272 states |
| `control_modes` | depth 2; in one mode exceptions also in the middle of transitions | `CallersSettled`, `TopSettled`, `ErrorVarCurrent`; 35,340 states with both modes |
| | in the other mode `dry_run` | the same three, `DryConsistent`, `DryRunTerminates` |

* `NoInternalError`: no `GOOGLESQL_RET_CHECK` on these paths fails.
* `CallersSettled`, `TopSettled`: each frame has exactly the iterators and variables
  of its position.
* `PendingCoverHandlers`: the pending exceptions can be divided among the frames so
  that every handler has one.
* `ErrorVarCurrent`: `@@error` is the innermost one, and set in a handler.
* `CaseInStep`: the WHEN clauses are met in order although the indices are shared.
* `HandledNeverEscapes`: an exception that some frame handles does not make
  ExecuteNext fail.
* `RestartInvisible`: saving and restoring changes nothing the script can see, or SetState
  refuses a script that is not complete, for its size or for an iterator that cannot be
  read back, and leaves no stack. It refuses no state for its variables or its depth.
* `ExecuteNextReturns`: a call of ExecuteNext returns.
* `DryConsistent`, `DryRunTerminates`: a dry run keeps all of this in step, and ends.

**Bounds.** `Exc` has two members so that handling one exception during another is
distinguishable from handling one twice; `control_modes` needs only one. `MaxDepth`
(`options_.maximum_stack_depth()`) of 3 has a frame above and a frame below the one
that changes, and recursion reaches it. Scripts that call a catching
procedure in a loop are not among the generated ones: by the finding
`pending_leak` such a script has infinitely many states.

**Deadlock** is not checked: a script that has ended and an executor that has failed stop.

**Fairness.** `WF_vars(FinishCall)` says that ExecuteNext, once called, goes on: it is
sequential code with no waiting. Nothing says that the engine ever calls it again,
except in the dry mode of `control_modes` (`ModeSpec`), where the engine is the loop around
`ExecuteNext` that the interface prescribes.

### 3.3 `local_service`: calls that run concurrently

Two threads, one kind of prepared statement beside catalogs, at most one descriptor pool
per request; over a behaviour, one prepared statement, two catalogs and two descriptor pools
besides the builtin one are registered: 128,394 states.

* `OwnedByExactlyOne`: whatever is registered for a handle has exactly one owner, a state or
  a call under way, so nothing leaks when a call fails and nothing is deleted twice.
* `IssuedUntilAsked`: ids in a response stay valid until their release is asked for.
* `AskedAreGone`: once the releasing calls have returned, with or without an error,
  nothing issued for the handle is left.
* `ErrorsMeanContention`: the "horrible internal state error" of UnprepareImpl comes only
  from a second release of the same handle.
* `NewIdsAreUnknown`: a new id is one that nobody holds.
* `ImplementsRegistry`: the calls implement `Registry`, including that a handle closes when
  somebody asks. A handle counts as closed from the deletion of the first thing it owns.
* `CallsReturn`: every call returns.

**Bounds.** Two threads give every pair of calls in every interleaving, and a call beside
the effects of finished ones; the theorems of 4.2 are not limited by these bounds. With two
kinds of statements (625,170 states) the run passes as well. `Fits` keeps the bound on ids from stopping a call in the middle. **Fairness:**
`WF_vars(Step(t))`, a thread in a call goes on; the critical sections are short and wait for
nothing else. Nothing makes clients call.

### 3.4 `match_recognize`: the matches are those of the pattern

85 patterns over two variables: hand-picked plain ones with quantifiers greedy and reluctant,
bounded and not; patterns with anchors; quantifiers over patterns that may match nothing; and
every pair of five small patterns, in sequence and as alternatives. Four combinations
of modes; all inputs of up to three rows in any division into partitions. 1,823,560 states.

* `MatchesAreRight`: at every point of the stream, the matches reported for the rows that
  are settled are those of the reference, in the preferred way (or the longest), with
  the skip rule applied, whatever rows follow.
* `MatchesFollowAutomaton`: at every point of the stream, each match is labelled as the
  preferred run of the automaton from its row, over all the rows fed so far, and each settled
  row where a run begins has its match or is covered by one.
* `NoInternalError`: no check of the builder, the epsilon remover or the matcher fails.
* `MatchesAreNumbered`: ids count from 1 in each partition, starts increase, and rows are not
  shared unless matches may overlap.
* `OutputIsComplete`: at the end, the tuples returned are those of the reference's matches,
  each match closed by its sentinel, in the partitions of the input taken as a whole: the
  tuple that is read ahead is neither lost nor repeated, and no match crosses a border.

**Bounds.** Three rows have a first, a middle and a last one, so each of the three edge lists
of the remover is used, and matches are settled in two batches in one partition. The
plain, anchored and looping patterns were also run with four rows (3,921,376 states).
**Where the reference is weaker:** when a quantifier may repeat on nothing, what is preferred
depends on how the epsilon remover walks a cycle, which the reference does not define; for
these patterns a match must be one of the accepted ways and need not be the first, and
`OutputIsComplete` says nothing. There is no liveness property: the consumer may stop at any time.

### 3.5 `type_store`: types outlive their use and not more

Two threads, three stores of which two are kept alive by Values, two Values, and a
dependency that may go from each store to later ones: 84,244 states.

* `TypesOutliveValues`: the store of a Value's type, and the stores of the components of
  the types of every store that exists, have not been destroyed.
* `NoUseAfterDelete`: no step of a call works on a store whose destruction has begun.
* `NeverUnsafe`: the destructor never has to log that destroying is unsafe.
* `NoIdleStore`: a store exists only while something refers to it.
* `Reclaimed`: once all factories and Values are gone, all stores are destroyed.

**Bounds.** Three stores give a chain, whose destruction cascades, and a store shared by two
dependents. The run also passes with three Values (460,220 states), with three threads
(1,365,295), with all stores kept alive (146,272), and in debug builds, where Values are
counted in every store (95,199). **Fairness:** a thread in a call goes on.

### 3.6 Where the code departs from its comments

Each of these runs ends with a counterexample.

* `syntax_sysvar`: **variables that outlive their block.** `AddDestroyedVariables`
  stops at the first statement that is not a DECLARE, because "Variable
  declarations are allowed only at the start of a block". With
  `system_variables_allowed_before_declare`, a DECLARE may follow `SET @@v = ...`.
* `pending_leak`: **an exception that nobody handles any more stays pending.**
  Unwinding a procedure whose handler raised leaves the exception that this
  handler was handling. A caller that is itself in a handler then sees the wrong
  `@@error` and RAISE raises the wrong exception.
* `hooks`: **an unmatched OnProcedureEntered.** EXECUTE IMMEDIATE ... INTO pops its
  frame itself when the value is rejected, and does not tell the engine.
* `late_fault`: **a handled exception makes ExecuteNext fail**, when closing an iterator
  on the way to the handler raises another.
* `reset`: **Reset does not reset** `@@error`, the loop stack, the CASE indices and
  `returned_from_script_`.
* `input_past_end`: **the input is asked again after its end.** A missing
  `first_tuple_in_next_partition_` means the first partition or the end;
  `LoadNextPartition` takes it for the first and calls `input_iter_->Next()`, which has
  returned NULL while the last partition was loaded. "The behavior of Next() is undefined
  after it has returned NULL." `finished_last_partition_`, which would tell, is never read.
  The inputs that the algebrizer provides return NULL again.

One more was met and has no run of its own: if the end of a FOR leaves a handler
and closing its iterator raises, the exception is dispatched again from the same
node after the handler's pending exception has been popped, and its exception edge,
which leaves the same handler, fails the check on `pending_exceptions_`
(`script_executor_impl.cc:372`). This is why `NoInternalError` is not among the
properties of `control_modes`.

## 4. What is proved

### 4.1 The script executor

The theorems of `ScriptControlProofs` hold for every graph that meets the
assumptions, every number of frames, variables and exceptions, dry runs or not
(`RestartsAreInvisible`: not in a dry run, which may end with a loop still open).
They rest on `ScriptControlStatements` (frames, the call stack, pending exceptions, the
ways a statement ends; one lemma per statement action) and `ScriptControlTransitions`
(following edges, unwinding, save and restore).

| Theorem | Property |
| --- | --- |
| `ExecutorConsistent` | `Consistent`, the inductive invariant |
| `TypeCorrect` | `TypeOK` |
| `ChecksNeverFail` | `NoInternalError` |
| `CallersStaySettled`, `TopIsSettled` | `CallersSettled`, `TopSettled` |
| `HandlersHaveExceptions` | `PendingCoverHandlers` |
| `ErrorVariableCurrent` | `ErrorVarCurrent` |
| `HandledExceptionsAreHandled` | `HandledNeverEscapes` |
| `RestartsAreInvisible` | `RestartInvisible` |
| `CasesInStep` | `CaseInStep` |

**Assumptions.** `GraphAssumption`, `EdgeAssumption` and `CaseAssumption` say what the builder
and the validation guarantee: a statement has the edges it looks for, bodies start outside
loops and handlers, an edge's side effects fit its ends, and the WHEN clauses of a CASE are
a chain that is entered at its first clause only. TLC evaluates them on
every graph of the runs, and `SideEffectsMatchNesting` checks the part about side effects on
all the scripts of 3.1. `OptionsAssumption` types the options. The theorems also assume
`LateFaults = {}`: with exceptions during transitions some of them are false (3.6).

**The argument.** No single property is inductive. A transition within a call starts
from a state in which the current statement has done its work and the edge has not
yet been followed, so `Consistent` adds `TopConsistent`, which describes the top frame
at each stage: `Settled` between calls, `Completed` while an edge is being followed
(a FOR has its iterator, a DECLARE its variables), `Interrupted` while an exception
is being dispatched from it (a FOR has at least its placeholder, any of the new
variables may exist). The assumption about edges then says that following a normal
edge from a completed frame, or an exception edge from an interrupted one, gives a
settled frame. Frames below the top are settled at a call; unwinding exposes
one of them, and a settled frame at a call is both completed and interrupted.

The pending exceptions need more than their number, because of the leak of 3.6: the
invariant cannot say that there is exactly one for each handler. `Covers` says that
there is a division of them among the frames, each frame's part at least as long as
the handlers it is in; popping and pushing at the end changes only the last part,
and a frame that is unwound gives its part to the one below, which is the leak.

`HandledNeverEscapes` and `RestartInvisible` are action properties that follow from
`Consistent` at the start of the step: dispatching is only begun when `Handled` holds,
unwinding keeps it until the frame with the handler is on top, and a settled
frame has no placeholders for `GetState` to lose. In a settled frame the variables are those
of its position, so the checks of `SetState` on variables and depth succeed, and a refusal
can only come from the sizes and iterators.

`CaseInStep` needs `CaseConsistent`, which adds what the indices are while an edge is being
followed: reset when it leaves a CASE, equal to the clause when it leaves a clause that does
not hold. Every other step leaves the indices alone and, by the assumption on the chain, does
not arrive at a clause (`AwayFromCase`): a frame that is entered or returned to, and a
handler, are never in the middle of a CASE's clauses.

### 4.2 The local service

The theorems of `LocalServiceProofs` hold for any number of threads, any kinds of prepared
statements and any number of pools per request.

| Theorem | Property |
| --- | --- |
| `AlwaysIInv` | `IInv`, the inductive invariant |
| `TypeCorrect` | `TypeOK` |
| `Ownership` | `OwnedByExactlyOne` |
| `Validity` | `IssuedUntilAsked` |
| `Release` | `AskedAreGone` |
| `Contention` | `ErrorsMeanContention` |
| `FreshIds` | `NewIdsAreUnknown` |
| `Refinement` | the safety part of `ImplementsRegistry` |

**Assumptions.** `KindAssumption`: the names of the kinds are not those of the other pools.
`BoundAssumption` types the bounds; how large they are is not used.

**The argument.** Everything follows from who may delete an id. `Numbered` says that
registered, issued, owned and targeted ids lie below their pool's counter, so a new id is
unknown to everybody. `Held`, `States` and `Accounted` say that a resource belongs to the
call that registered it until `Publish` hands it to the state, in one step with issuing it.
The delicate part is two releases of one handle, each with its own list of what is left:
`Deletions` and `BeingReleased` say that a resource of a handle that is missing is missing
because a release of that handle has passed it, and that whatever a release has passed
is gone; so the last of them leaves nothing. `Issues` connects ids in responses with the
handle whose state owns them. `CallsInOrder` says which local variables are in use at
which point of a call. For the refinement, a step closes a handle exactly when it deletes
the first of its resources, or the state itself if it owns none.

### 4.3 Type stores

The theorems of `TypeStoreProofs` hold for any finite sets of threads, stores and Values, in
both builds, and whatever the dependencies allowed.

| Theorem | Property |
| --- | --- |
| `AlwaysIInv` | `IInv`, the inductive invariant |
| `TypeCorrect` | `TypeOK` |
| `Lifetime` | `TypesOutliveValues` |
| `NoUse` | `NoUseAfterDelete` |
| `Order` | `NeverUnsafe` |
| `NoLeak` | `NoIdleStore` |

**The argument.** `Counts` is the heart: the counter of a store is the number of references
there are, one for its factory, one for each Value that counts, one for each registered
dependent that counts, and one for each thread about to call `Unref`. Finding 1 in the
counter therefore means that nobody else refers to the store. `Pinned` says what keeps the
store of a component alive before the dependency is registered, and is why a thread that
finds the dependency recorded already, and returns from AddDependency before the other
thread has taken the reference, does no harm: what it holds itself keeps the store, and
so does the other thread's call. `Recorded`, `Registered` and `Needed` connect the two sets of
a dependency and the types made under it; `Dying` describes the nested destructors, `Dead`
and `Outlived` what is true of stores that are gone.

### 4.4 MATCH_RECOGNIZE

The theorems of `PatternMatchingProofs` hold for any pattern variables, any automaton that
passes its validation, both options, and partitions of any number and length.

| Theorem | Property |
| --- | --- |
| `MatcherInvariant` | `IInv`, the inductive invariant |
| `TypeCorrect` | `TypeOK` |
| `MatcherNeverFails` | `NoInternalError`, once the automaton has been built |
| `MatchesNumbered` | `MatchesAreNumbered` |
| `MatchesFollow` | `MatchesFollowAutomaton` |

**Assumptions.** `VarAssumption`: "no variable" is not the name of one. `InputAssumption`: inputs
are sorted by their keys. `QueryAssumption`: the
options are two Booleans, and an automaton whose validation succeeded is one that
`ValidateInternal` accepts (`IsAutomaton`). TLC evaluates these on the 340 queries of the run.
What `Compile` makes of a pattern is not part of the theorems: an automaton is any
graph, with any edges and anchors, that the validation lets through.

**The argument** has three layers.

*What the operators compute* (`MatchPartitionFacts`). A loop is a recursive function;
`RecursionUp` and `RecursionDown` show once that such a definition has the solution it
describes, from an induction over subsets of an interval that itself follows from the library's
facts about finite sets. Then: the marks of the rows are exactly the edges on paths from
the starts (`PathsAreMarked`); `FinalizeMarkedEdges` keeps exactly those from which the final
state can be reached, so there are no dead ends (`PathsAreKept`, `KeptEdges`); following the marked edge of
the highest precedence therefore never gets stuck and yields the run that comes first
(`WalkGreedy`, `GreedyIsEarlier`). In longest-match mode, the second tracker starts in
one row and keeps an end only where nothing goes on (`LongestKept`), so all the runs it keeps
have the greatest length, and it finds a list before the rows end (`SearchEnds`,
`SpecificStarts`). Together
(`ComputeMatchIsBest`): wherever an edge out of the start state is marked, `ComputeMatch`
succeeds and returns the preferred run.

*One partition* (`MatchPartitionProofs`). `Streaming` says of a match partition in the
middle of its rows that the matches of the rows before `row_offset_` have been reported
(`Reported`), that no path crosses `row_offset_` (`NoCrossing`: this is what an empty set of
marks that go on means), and that the tracker has marked the paths in the rows since;
`Ended` says that all has been reported. A list ends where nothing goes on, so what has been
reported stays right whatever rows follow (`ReportedAgrees`), although `$` and the sentinel row
change which edges can be used at the end. `AddRow` keeps `Streaming` and `Finalize` turns it
into `Ended` (`AddRowStreams`, `FinalizeEnds`). `RunsAccept` connects the paths of the proofs
with `Runs`.

*The iterator* (`PatternMatchingProofs`). `IInv` says that the match partition stands in one
of these two relations to the rows fed so far; loading a partition starts again.

### 4.5 Only model-checked

* Liveness (`ExecuteNextReturns`, `DryRunTerminates`, `CallsReturn`, `Reclaimed`, and the liveness part of
  `ImplementsRegistry`): fairness is beyond the prover.
* `MatchesAreRight` and `OutputIsComplete`, and the half of `NoInternalError` that is about
  building the automaton: the builder, the epsilon remover and `Ways` recur over patterns, and
  what such a definition computes for every pattern takes an induction over data. What
  is proved is that the matcher does what the automaton says.
* Everything about `ScriptSyntax`, whose definitions compute over parse trees.
* The executor with late faults.

## 5. Mutants

Every property has a mutant in `PROJECT.json`: a definition next to the original,
marked `Mutant:`, with a bug such as a dropped placeholder, an unrestored `@@error` or
a list linked past a jump. TLC finds the property violated when the mutant takes the
place of the original.

## 6. Running

    tlc -config ScriptSyntax.cfg MCScriptSyntax            # about 2 minutes
    tlc -config ScriptControl.cfg MCScriptControlAll       # half a minute
    tlc -config ScriptControlModes.cfg MCScriptControlModes
    tlc -config LocalService.cfg MCLocalService            # half a minute
    tlc -config PatternMatching.cfg MCPatternMatching      # some minutes
    tlc -config TypeStore.cfg MCTypeStore
    tlc -config ScriptSyntaxSysVar.cfg MCScriptSyntax      # these end in a counterexample
    tlc -config ScriptPendingLeak.cfg MCScriptControlFaults
    tlc -config ScriptHooks.cfg MCScriptControlFaults
    tlc -config ScriptLateFault.cfg MCScriptControlFaults
    tlc -config ScriptReset.cfg MCScriptControlFaults
    tlc -config PatternMatchingPastEnd.cfg MCPatternMatching
    tlapm ScriptControlStatements.tla                      # the proofs: some minutes each
    tlapm ScriptControlTransitions.tla
    tlapm ScriptControlProofs.tla
    tlapm LocalServiceProofs.tla
    tlapm TypeStoreProofs.tla
    tlapm MatchPartitionFacts.tla
    tlapm MatchPartitionProofs.tla
    tlapm PatternMatchingProofs.tla

## 7. Abstractions to keep in mind

* Two variables with one name in different frames are different; within a
  script, names are compared as they are, without case folding.
* `Restart` restores into an executor created for the same script and procedures; a
  saved state that was edited or belongs to another script is not considered.
* After a fatal error nothing is said of the executor: the engine discards it. `Reset`
  may follow it.
* The procedures of an instance are given; CALL may find any of its family, be
  delegated to the evaluator, or fail.
* The local service: requests are validated before any state is touched, and a failed
  validation is the same as no call. What a raw pointer into a catalog or pool refers to
  after the release of its owner is not modelled; a call that has looked a state up
  holds it by a shared pointer.
* MATCH_RECOGNIZE: quantifier bounds are given and in order; NULL and negative bounds, a
  lower bound above the upper one, the limit on the number of edges, and compiling only
  when query parameters are known are left out. The input is sorted by the partition keys
  (`InputAssumption`); the iterator compares the keys of neighbouring tuples. What an input
  does when it is asked again after NULL is not defined by its interface; in the model it
  returns NULL again or an error, as the iterators of AnalyticOp and SortOp do.
* Type stores: a caller keeps the factory, and what it has the component's type from
  (its factory, or a Value), for the duration of a call. A factory whose store is not kept
  alive is destroyed only when no Value has a type of it and no store depends on it; the
  header asks that factories outlive those that depend on them, and this says the same of
  stores, since a store that is kept alive outlives its factory. Stores do not depend on
  each other in a cycle (the code logs that this "is not legal"); the proofs do not need
  this, `Reclaimed` does. A type has one component; makers with several call
  AddDependency for each. The static factory is never destroyed and is left out.

## 8. Not modelled, and what could come next

* `total_memory_usage_` of the executor, beside the sum of the sizes of what exists: what is
  left after unwinding a frame with open iterators, or after a native procedure. It needs
  sizes of values in `ScriptControl`. The errors of the limits are modelled without the
  sums. Where a statement, a transition or `SetState` compares the total with its limit, the
  error is an outcome that is always possible (in a transition, with `LateFaults`). In
  `SetState` it cannot be told from an iterator that the evaluator cannot read back. The
  limit on one variable is followed through the variables that exceed it (`large`).
* Argument binding of CALL: parameters by position and by name, OUT and INOUT written back.
  The parameter of a named argument is found by name, its type and mode by position.
* Prepared expressions under concurrent execution, the memory accountant of the reference
  implementation, lazy resolution in catalogs, the macro expander.
* Proofs: `ScriptControl` as the implementation of an abstract machine that has only
  blocks entered and left; what `OutputIsComplete` says of the rows, relative to the matches
  reported (the part of it that needs no reference).
* The analyzer, the rewriters, SQL functions, formatter and tools are pure functions over
  trees, strings and numbers, or input and output; a model would only repeat them.
