---------------------------- MODULE MCAllure2Texts ----------------------------
(***************************************************************************)
(* Names, labels and TMS ids of Allure2Report: set before, in and between  *)
(* suites and tests, in one run after another; no steps and no items.      *)
(***************************************************************************)
EXTENDS Allure2Report

CONSTANTS t1, t2, n1, p1

MCGTestNames == {t1, t2}
MCNames == {n1}
MCPatterns == {p1}
=============================================================================
