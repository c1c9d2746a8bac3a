----------------------- MODULE MCScriptControlFaults -----------------------
(***************************************************************************)
(* Instances of ScriptControl for the runs that show where the executor    *)
(* departs from what its comments and assertions say.                      *)
(***************************************************************************)
EXTENDS MCScriptControl

\* The INTO clause of a dynamic query in a block with a handler.
IntoMain == Main("fault", <<
    << <<1>>, "try", <<>> >>,
      << <<1, 1, 1>>, "execInto", <<>> >> >>)

\* A FOR loop that ends the handler of a block in a block with a handler.
LoopMain == Main("fault", <<
    << <<1>>, "try", <<>> >>,
      << <<1, 1, 1>>, "try", <<>> >>,
        << <<1, 1, 1, 1, 1>>, "raise", <<>> >>,
        << <<1, 1, 1, 1, 2, 1>>, "for", <<"r">> >> >>)

\* A call in the handler of a block, in a block with a handler of its own, and
\* then RAISE.
CallMain == Main("fault", <<
    << <<1>>, "try", <<>> >>,
      << <<1, 1, 1>>, "raise", <<>> >>,
      << <<1, 1, 2, 1>>, "try", <<>> >>,
        << <<1, 1, 2, 1, 1, 1>>, "call", <<>> >>,
      << <<1, 1, 2, 1>>, "rethrow", <<>> >> >>)

\* A procedure whose handler raises another exception.
RaisingInHandler == Procedure("fault", <<
    << <<1>>, "try", <<>> >>,
      << <<1, 1, 1>>, "raise", <<>> >>,
      << <<1, 1, 2, 1>>, "raise", <<>> >> >>, {})

FaultScripts == {IntoMain, LoopMain, CallMain, RaisingInHandler, Query("fault")}
\* Graph, in steps that TLC evaluates once.
FaultGraphs == GraphsOf(FaultScripts)
FaultGraphValue == Together(FaultGraphs)
FaultGraph == LET graph == FaultGraphValue IN graph
FaultStarts == MainStartsOf(FaultScripts)
=============================================================================
