----------------------------- MODULE MCRetrain -----------------------------
(***************************************************************************)
(* Retrain for TLC, with and without a Production version to begin with.   *)
(***************************************************************************)
EXTENDS Retrain

AnyRegistry == {<<>>, <<"Production">>}
=============================================================================
