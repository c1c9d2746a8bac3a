------------------------ MODULE MCScriptControlModes ------------------------
(***************************************************************************)
(* The executor in two modes that a behaviour never leaves: an execution   *)
(* in which calls may also fail while a transition is under way, which is  *)
(* ScriptControl as extended here, and a dry run driven to its end.        *)
(***************************************************************************)
EXTENDS MCScriptControlAll

VARIABLE mode

Dry == INSTANCE ScriptControl WITH DryRun <- TRUE, LateFaults <- {}

ModeVars == <<vars, mode>>

ModeInit == Init /\ mode \in {"late", "dry"}

ModeNext ==
    /\ \/ mode = "late" /\ Next
       \/ mode = "dry" /\ Dry!Next
    /\ UNCHANGED mode

\* A dry run is driven: ExecuteNext is called until the script is complete or fails.
ModeSpec ==
    /\ ModeInit /\ [][ModeNext]_ModeVars
    /\ WF_ModeVars(mode = "dry" /\ Dry!ExecuteStatement /\ UNCHANGED mode)
    /\ WF_ModeVars(mode = "dry" /\ Dry!FinishCall /\ UNCHANGED mode)

\* A dry run keeps its stack, loops, variables and exceptions in step with the script
\* between and within the calls of ExecuteNext, although it stops at every branch.
DryConsistent == mode = "dry" => Dry!Consistent

\* A dry run ends, whatever loops the script has: it stops at the first condition and
\* rather than follow an edge that leads back in the text.
DryRunTerminates == mode = "dry" => Dry!DryRunEnds
=============================================================================
