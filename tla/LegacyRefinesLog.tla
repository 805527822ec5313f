-------------------------- MODULE LegacyRefinesLog --------------------------
(***************************************************************************)
(* The legacy report implements ReportLog: searching the whole tree for    *)
(* the first RUNNING item always comes out at the one open suite, the one  *)
(* open case and the oldest open step.                                     *)
(*                                                                         *)
(* The mapping takes the last suite, and the last case of it, for the open *)
(* one unless it is finished, and all others for closed ones.              *)
(***************************************************************************)
EXTENDS LegacyReport

\* The open item of a sequence of suites or cases: a sequence of length 0 or 1.
OpenItem(items) ==
  IF items = <<>> \/ Finished(items[Len(items)]) THEN <<>> ELSE <<items[Len(items)]>>

ClosedLen(items) == Len(items) - Len(OpenItem(items))

ClosedSteps(steps) == Cardinality({ k \in DOMAIN steps : Finished(steps[k]) })

LabelsOf(labels) ==
  [l \in { labels[i].name : i \in DOMAIN labels } |->
     labels[SelectInSeq(labels, LAMBDA x : x.name = l)].value]

StepsLog(steps) == [k \in 1..ClosedSteps(steps) |-> steps[k].status]

Pending(steps) == Len(steps) - ClosedSteps(steps)

CaseLog(c) ==
  [name |-> c.name, verdict |-> c.status,
   steps |-> StepsLog(c.steps), pending |-> Pending(c.steps)]

CasesLog(cases) == [j \in 1..ClosedLen(cases) |-> CaseLog(cases[j])]

SuiteLog(s) ==
  [name |-> s.name, tmsId |-> s.tmsId, verdict |-> s.status,
   labels |-> LabelsOf(s.labels), cases |-> CasesLog(s.cases)]

ClosedSuites(tree) == [i \in 1..ClosedLen(tree) |-> SuiteLog(tree[i])]

OpenSuite(tree) == IF OpenItem(tree) = <<>> THEN <<>> ELSE <<SuiteLog(OpenItem(tree)[1])>>

OpenCases(tree) ==
  IF OpenItem(tree) = <<>> THEN <<>> ELSE OpenItem(OpenItem(tree)[1].cases)

OpenCase(tree) == IF OpenCases(tree) = <<>> THEN <<>> ELSE <<CaseLog(OpenCases(tree)[1])>>

Log == INSTANCE ReportLog WITH
         log <- ClosedSuites(suites), suite <- OpenSuite(suites), case <- OpenCase(suites)

\* Every handler call is one operation of the abstract log, or invisible in it.
RefinesLog == Log!Spec
=============================================================================
