--------------------------- MODULE MCScriptSyntax ---------------------------
(***************************************************************************)
(* Instances of ScriptSyntax for TLC.                                      *)
(***************************************************************************)
EXTENDS ScriptSyntax, TLC

\* Every form of statement, with labels.
AllForms ==
    {"begin", "try", "if", "ifElse", "case", "caseNoExpr", "repeat", "while",
     "loop", "for", "sql", "declare", "raise", "rethrow", "return", "break",
     "continue"}

\* The forms with side effects on the edges that leave them, for deeper scripts.
NestingForms == {"try", "for", "declare", "break", "sql"}

AllProfiles == {[forms |-> AllForms, labels |-> {"L"}, size |-> 3],
                [forms |-> NestingForms, labels |-> {}, size |-> 5]}

\* Scripts whose options allow an assignment to a system variable before DECLARE.
SysVarProfiles ==
    {[forms |-> {"begin", "sysvar", "declare", "sql"}, labels |-> {}, size |-> 3]}

\* Nothing depends on the names of variables but whether they are the same.
VarSymmetry == Permutations(Vars)
=============================================================================
