----------------------------- MODULE MCTypeStore -----------------------------
(***************************************************************************)
(* TypeStore for TLC: one store builds on two others, one of them also on  *)
(* the other, which is not kept alive by Values.                           *)
(***************************************************************************)
EXTENDS TypeStore, TLC

CONSTANTS s1, s2, s3

MCMayUse == (s1 :> {s2, s3}) @@ (s2 :> {s3}) @@ (s3 :> {})
=============================================================================
