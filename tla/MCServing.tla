----------------------------- MODULE MCServing -----------------------------
(***************************************************************************)
(* Serving for TLC: a registry without a Production version, one with, and *)
(* one where an older version than Production is still staged.             *)
(***************************************************************************)
EXTENDS Serving

AnyRegistry == {<<"none", "none">>, <<"Production">>, <<"Staging", "Production">>}
=============================================================================
