---------------------------- MODULE MCBothReports ----------------------------
(***************************************************************************)
(* One test per run under both listeners, in any number of runs, with      *)
(* nested, returning and throwing steps, named by itself or from outside.  *)
(***************************************************************************)
EXTENDS BothReports

CONSTANTS n1, n2, p1

MCTexts == {n2}
MCGTestNames == {n1}
MCNames == MCGTestNames \cup MCTexts \cup (MCGTestNames \X MCGTestNames)
MCPatterns == {p1}
=============================================================================
