---------------------------- MODULE MCAllure2Steps ----------------------------
(***************************************************************************)
(* Steps and items of Allure2Report: nested, returning and throwing steps  *)
(* with something added inside, between and after them, one test after the *)
(* other.  No text is set but the empty name.                              *)
(***************************************************************************)
EXTENDS Allure2Report

CONSTANTS t1

MCGTestNames == {t1}
=============================================================================
