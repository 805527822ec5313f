---------------------------- MODULE MCLegacyTree ----------------------------
(***************************************************************************)
(* The legacy report's tree on small instances: one name, two suites, two  *)
(* cases, nested and throwing steps, an aborted run and the run after it.  *)
(***************************************************************************)
EXTENDS LegacyRefinesLog

CONSTANTS n1, p1, p2

MCNames == {n1}
MCPatterns == {p1, p2}
MCSlotted == {p1}
=============================================================================
