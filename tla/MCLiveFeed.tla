----------------------------- MODULE MCLiveFeed ----------------------------
(***************************************************************************)
(* LiveFeed for TLC.  Delays are counted in seconds.                       *)
(***************************************************************************)
EXTENDS LiveFeed
=============================================================================
