------------------------------ MODULE ReportLog ------------------------------
(***************************************************************************)
(* What the legacy report promises, without searching for anything: a log  *)
(* of closed suites, at most one open suite and at most one open case.  A  *)
(* suite carries one value per label; a case carries the verdicts of its   *)
(* closed steps in the order they were started and the number of steps     *)
(* that are still open.                                                    *)
(***************************************************************************)
EXTENDS Naturals, Sequences

CONSTANTS Names, Labels

VARIABLES log,      \* the closed suites
          suite,    \* the open suite, <<>> or <<suite>>
          case      \* the open case, <<>> or <<case>>

vars == <<log, suite, case>>

Verdicts     == {"PASSED", "FAILED"}
StepVerdicts == {"PASSED", "FAILED", "SKIPPED"}

OpenSuiteOf(name) == [name |-> name, tmsId |-> name, labels |-> <<>>,
                      cases |-> <<>>, verdict |-> "UNKNOWN"]
OpenCaseOf(name)  == [name |-> name, steps |-> <<>>, pending |-> 0,
                      verdict |-> "UNKNOWN"]

Init == log = <<>> /\ suite = <<>> /\ case = <<>>

\* A new run forgets everything, whatever the last one left open.
Restart == log' = <<>> /\ suite' = <<>> /\ case' = <<>>

OpenSuite(name) == /\ suite = <<>>
                   /\ suite' = <<OpenSuiteOf(name)>>
                   /\ UNCHANGED <<log, case>>

OpenCase(name) == /\ suite # <<>>
                  /\ case = <<>>
                  /\ case' = <<OpenCaseOf(name)>>
                  /\ UNCHANGED <<log, suite>>

OpenStep == /\ case # <<>>
            /\ case' = [case EXCEPT ![1].pending = @ + 1]
            /\ UNCHANGED <<log, suite>>

CloseStep(verdict) == /\ case # <<>>
                      /\ case[1].pending > 0
                      /\ case' = [case EXCEPT ![1].pending = @ - 1,
                                              ![1].steps = Append(@, verdict)]
                      /\ UNCHANGED <<log, suite>>

CloseCase(verdict) ==
  /\ case # <<>>
  /\ suite' = [suite EXCEPT ![1].cases = Append(@, [case[1] EXCEPT !.verdict = verdict])]
  /\ case' = <<>>
  /\ UNCHANGED log

CloseSuite(verdict) == /\ suite # <<>>
                       /\ case = <<>>
                       /\ log' = Append(log, [suite[1] EXCEPT !.verdict = verdict])
                       /\ suite' = <<>>
                       /\ UNCHANGED case

Describe(name, tmsId) == /\ suite # <<>>
                         /\ suite' = [suite EXCEPT ![1].name = name, ![1].tmsId = tmsId]
                         /\ UNCHANGED <<log, case>>

SetLabel(label, value) ==
  /\ suite # <<>>
  /\ suite' = [suite EXCEPT ![1].labels =
                  [l \in DOMAIN @ \cup {label} |-> IF l = label THEN value ELSE @[l]]]
  /\ UNCHANGED <<log, case>>

RenameCase(name) == /\ case # <<>>
                    /\ case' = [case EXCEPT ![1].name = name]
                    /\ UNCHANGED <<log, suite>>

\* Most calls of the detailed report are invisible here: steps and times of it
\* that the log does not hold.
Next == \/ UNCHANGED vars
        \/ Restart
        \/ OpenStep
        \/ \E name \in Names : OpenSuite(name) \/ OpenCase(name) \/ RenameCase(name)
        \/ \E name, tmsId \in Names : Describe(name, tmsId)
        \/ \E label \in Labels, value \in Names : SetLabel(label, value)
        \/ \E verdict \in StepVerdicts : CloseStep(verdict)
        \/ \E verdict \in Verdicts : CloseCase(verdict) \/ CloseSuite(verdict)

Spec == Init /\ [][Next]_vars
=============================================================================
