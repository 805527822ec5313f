---------------------------- MODULE MCLegacyTimes ----------------------------
(***************************************************************************)
(* The legacy report under a clock that may advance, or not, between any   *)
(* two calls; two cases per suite.  The TMS pattern is always well formed. *)
(***************************************************************************)
EXTENDS LegacyReport

CONSTANTS n1, p1

MCNames == {n1}
MCPatterns == {p1}
=============================================================================
