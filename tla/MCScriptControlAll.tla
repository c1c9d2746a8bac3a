------------------------- MODULE MCScriptControlAll -------------------------
(***************************************************************************)
(* ScriptControl with, as the main script, every script of two statements, *)
(* every script of three statements of the forms that matter to handlers,  *)
(* loops and variables, and one that nests all of them.                    *)
(***************************************************************************)
EXTENDS MCScriptControl

TwoForms ==
    {"sql", "assign", "sysvar", "begin", "try", "if", "ifElse", "case", "caseNoExpr", "while",
     "loop", "repeat", "for", "break", "continue", "return", "raise", "rethrow",
     "declare", "call", "exec", "execInto"}
ThreeForms ==
    {"sql", "assign", "try", "for", "break", "rethrow", "declare", "call", "return"}
Created == [declare |-> <<"x", "y">>, for |-> <<"r">>]

\* A procedure that catches an exception and calls again in its handler, and a
\* dynamic block with variables and a handler that raises again.
Catching == Procedure("nested", <<
    << <<1>>, "try", <<>> >>,
      << <<1, 1, 1>>, "sql", <<>> >>,
      << <<1, 1, 2, 1>>, "call", <<>> >> >>, {"a"})
Block == Statement("nested", <<
    << <<1>>, "try", <<>> >>,
      << <<1, 1, 1>>, "declare", <<"x", "y">> >>,
      << <<1, 1, 2, 1>>, "rethrow", <<>> >> >>)

\* Calls, loops, variables and handlers in one another.
NestedMain == Main("nested", <<
    << <<1>>, "try", <<>> >>,
      << <<1, 1, 1>>, "declare", <<"x", "y">> >>,
      << <<1, 1, 1>>, "for", <<"r">> >>,
        << <<1, 1, 1, 2, 1>>, "call", <<>> >>,
        << <<1, 1, 1, 2, 1>>, "break", <<>> >>,
      << <<1, 1, 2, 1>>, "exec", <<>> >>,
    << <<1>>, "execInto", <<>> >> >>)

AllScripts ==
    Plain(ScriptsOf(2, TwoForms, Created) \cup ScriptsOf(3, ThreeForms, Created))
      \cup {NestedMain, Catching, Raising("nested"), Block, Query("nested")}
\* Graph, in steps that TLC evaluates once.
AllGraphs == GraphsOf(AllScripts)
AllGraphValue == Together(AllGraphs)
AllGraph == LET graph == AllGraphValue IN graph
AllStarts == MainStartsOf(AllScripts)
=============================================================================
