--------------------------- MODULE MCLocalService ---------------------------
(***************************************************************************)
(* LocalService for TLC: two threads, one pool of prepared statements.     *)
(***************************************************************************)
EXTENDS LocalService

\* Ids of each pool; the builtin pool takes one of the descriptor pools'.
MCMaxId == [tag \in Tag |-> IF tag = "pool" THEN 3 ELSE IF tag = "catalog" THEN 2 ELSE 1]
=============================================================================
