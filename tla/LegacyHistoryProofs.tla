-------------------------- MODULE LegacyHistoryProofs --------------------------
(***************************************************************************)
(* What the legacy report tells of a run's past is right, for every bound  *)
(* and every set of names: steps close in order, times nest, verdicts      *)
(* agree, labels are unique, only finished work is published, and what is  *)
(* finished stays as it is.                                                *)
(***************************************************************************)
EXTENDS LegacyReportProofs

(***************************************************************************)
(* What the tree tells of the past, at time t: a step, a case and a suite  *)
(* each of their own, so that a call that changes one leaves the others'   *)
(* part alone.                                                             *)
(***************************************************************************)
\* Steps are closed in start order, with rising times and severities.
ClosedInOrder(steps) ==
  \A k, l \in 1..Len(steps) :
    k < l /\ Finished(steps[l]) =>
      /\ Finished(steps[k])
      /\ steps[k].stop <= steps[l].stop
      /\ Severity[steps[k].status] <= Severity[steps[l].status]

StepHistory(step, from, t) ==
  /\ from <= step.start
  /\ step.start <= t
  /\ Finished(step) => /\ step.start <= step.stop
                       /\ step.stop <= t
                       /\ step.status \in DOMAIN Severity

\* An item that is closed ended between its start and t with a verdict.
ItemHistory(item, t) ==
  /\ item.start <= t
  /\ IF Finished(item)
     THEN item.start <= item.stop /\ item.stop <= t /\ item.status \in {"PASSED", "FAILED"}
     ELSE item.status = "UNKNOWN"

CaseHistory(case, t) ==
  /\ ItemHistory(case, t)
  /\ ClosedInOrder(case.steps)
  /\ \A k \in 1..Len(case.steps) :
       /\ StepHistory(case.steps[k], case.start, t)
       /\ Finished(case.steps[k]) /\ Finished(case) => case.steps[k].stop <= case.stop
       /\ Finished(case.steps[k]) /\ case.status = "PASSED" => case.steps[k].status = "PASSED"

NoStepFailed(case) ==
  \A k \in 1..Len(case.steps) : Finished(case.steps[k]) => case.steps[k].status # "FAILED"

LabelsOnce(labels) ==
  \A k, l \in 1..Len(labels) : labels[k].name = labels[l].name => k = l

SuiteHistory(suite, t) ==
  /\ ItemHistory(suite, t)
  /\ LabelsOnce(suite.labels)
  /\ \A j \in 1..Len(suite.cases) :
       /\ CaseHistory(suite.cases[j], t)
       /\ suite.start <= suite.cases[j].start
       /\ j < Len(suite.cases) => suite.cases[j].stop <= suite.cases[j + 1].start
       /\ Finished(suite) => suite.cases[j].stop <= suite.stop
       /\ suite.status = "PASSED" => NoStepFailed(suite.cases[j])

TreeHistory ==
  \A i \in 1..Len(suites) :
    /\ SuiteHistory(suites[i], now)
    /\ i < Len(suites) => suites[i].stop <= suites[i + 1].start

\* gtest's results remember what the closed steps of the open suite and of the
\* open case were told.
ResultsRemember ==
  /\ phase \in {"Suite", "Test"} =>
       \A j \in 1..Len(LastSuite.cases) :
         Finished(LastSuite.cases[j]) /\ ~suiteFailed => NoStepFailed(LastSuite.cases[j])
  /\ phase = "Test" =>
       \A k \in 1..Len(LastCase.steps) :
         Finished(LastCase.steps[k]) =>
           Severity[LastCase.steps[k].status] <= Severity[CurrentTestStatus]

\* While a run goes on, a suite has its link exactly when it is closed.
LinksFollowClosing ==
  phase # "Idle" =>
    \A i \in 1..Len(suites) : Len(suites[i].links) = IF Finished(suites[i]) THEN 1 ELSE 0

HistoryInv == TreeHistory /\ ResultsRemember /\ LinksFollowClosing /\ OnlyFinishedIsPublished

-----------------------------------------------------------------------------
(***************************************************************************)
(* Facts about single steps and cases.                                     *)
(***************************************************************************)
LEMMA SeverityFacts ==
  /\ DOMAIN Severity = {"PASSED", "SKIPPED", "FAILED"}
  /\ Severity["PASSED"] = 0 /\ Severity["SKIPPED"] = 1 /\ Severity["FAILED"] = 2
BY DEF Severity

LEMMA StepOf ==
  ASSUME NEW case \in TestCase
  PROVE  /\ case.steps \in Seq(Step) /\ Len(case.steps) \in Nat
         /\ case.start \in Nat /\ case.stop \in Nat
         /\ \A k \in 1..Len(case.steps) :
              /\ case.steps[k] \in Step
              /\ case.steps[k].start \in Nat /\ case.steps[k].stop \in Nat
<1>1. case.steps \in Seq(Step) /\ case.start \in Nat /\ case.stop \in Nat
  BY DEF TestCase
<1>2. \A k \in 1..Len(case.steps) : case.steps[k] \in Step
  BY <1>1, ElementOfSeq
<1>3. \A k \in 1..Len(case.steps) : case.steps[k].start \in Nat /\ case.steps[k].stop \in Nat
  BY <1>2 DEF Step
<1>. QED BY <1>1, <1>2, <1>3, LenProperties

LEMMA NewCaseHistory ==
  ASSUME NEW name \in Names, NEW t \in Nat
  PROVE  CaseHistory(NewCase(name, t), t)
<1>. DEFINE case == NewCase(name, t)
<1>1. case.steps = <<>> /\ case.start = t /\ case.status = "UNKNOWN" /\ case.stage = "RUNNING"
  BY DEF NewCase
<1>2. Len(case.steps) = 0
  BY <1>1, EmptySeq
<1>. HIDE DEF case
<1>3. ItemHistory(case, t)
  BY <1>1 DEF ItemHistory, Finished
<1>4. \A k \in 1..Len(case.steps) : FALSE
  BY <1>2
<1>5. CaseHistory(case, t)
  BY <1>3, <1>4 DEF CaseHistory, ClosedInOrder
<1>. QED BY <1>5 DEF case

\* Time goes on.
LEMMA CaseHistoryLater ==
  ASSUME NEW case \in TestCase, NEW t \in Nat, NEW u \in Nat, t <= u, CaseHistory(case, t)
  PROVE  CaseHistory(case, u)
<1>1. ItemHistory(case, u)
  BY StepOf DEF CaseHistory, ItemHistory
<1>2. \A k \in 1..Len(case.steps) : StepHistory(case.steps[k], case.start, u)
  BY StepOf DEF CaseHistory, StepHistory
<1>. QED BY <1>1, <1>2 DEF CaseHistory

LEMMA CaseHistoryRenamed ==
  ASSUME NEW case \in TestCase, NEW name \in Names, NEW t \in Nat, CaseHistory(case, t)
  PROVE  CaseHistory([case EXCEPT !.name = name], t)
<1>. DEFINE new == [case EXCEPT !.name = name]
<1>1. /\ new.steps = case.steps /\ new.start = case.start /\ new.stop = case.stop
      /\ new.stage = case.stage /\ new.status = case.status
  BY DEF TestCase
<1>. HIDE DEF new
<1>. QED BY <1>1 DEF CaseHistory, ItemHistory, Finished

\* A case is closed now; PASSED only if all its closed steps passed.
LEMMA CaseHistoryClosed ==
  ASSUME NEW case \in TestCase, NEW t \in Nat, NEW status \in {"PASSED", "FAILED"},
         CaseHistory(case, t),
         \A k \in 1..Len(case.steps) :
           Finished(case.steps[k]) /\ status = "PASSED" => case.steps[k].status = "PASSED"
  PROVE  CaseHistory(Closed(case, t, status), t)
<1>. DEFINE new == Closed(case, t, status)
<1>1. /\ new.steps = case.steps /\ new.start = case.start /\ new.stop = t
      /\ new.stage = "FINISHED" /\ new.status = status
  BY DEF TestCase, Closed
<1>. HIDE DEF new
<1>2. ItemHistory(new, t)
  BY <1>1, StepOf DEF CaseHistory, ItemHistory, Finished
<1>3. \A k \in 1..Len(case.steps) :
        /\ StepHistory(case.steps[k], new.start, t)
        /\ Finished(case.steps[k]) => case.steps[k].stop <= new.stop
        /\ Finished(case.steps[k]) /\ new.status = "PASSED" => case.steps[k].status = "PASSED"
  BY <1>1 DEF CaseHistory, StepHistory
<1>4. ClosedInOrder(new.steps)
  BY <1>1 DEF CaseHistory
<1>5. CaseHistory(new, t)
  BY <1>1, <1>2, <1>3, <1>4 DEF CaseHistory
<1>. QED BY <1>5 DEF new

LEMMA CaseHistoryStepAdded ==
  ASSUME NEW case \in TestCase, NEW t \in Nat, NEW type \in StepType,
         CaseHistory(case, t), ~Finished(case)
  PROVE  CaseHistory([case EXCEPT !.steps = Append(case.steps, NewStep(type, t))], t)
<1>. DEFINE step  == NewStep(type, t)
            n     == Len(case.steps)
            steps == Append(case.steps, step)
            new   == [case EXCEPT !.steps = steps]
<1>1. step \in Step /\ step.start = t /\ ~Finished(step)
  <2>1. \E name \in Names : TRUE
    BY DEF TestCase
  <2>. QED BY <2>1, NewItemTypes DEF NewStep, Finished
<1>2. n \in Nat /\ case.steps \in Seq(Step) /\ case.start \in Nat
  BY StepOf
<1>. HIDE DEF step
<1>3. /\ Len(steps) = n + 1 /\ steps[n + 1] = step
      /\ \A k \in 1..n : steps[k] = case.steps[k]
  BY <1>1, <1>2, AppendFacts
<1>4. /\ new.steps = steps /\ new.start = case.start /\ new.stop = case.stop
      /\ new.stage = case.stage /\ new.status = case.status
  BY DEF TestCase
<1>. HIDE DEF steps, new, n
<1>5. \A k \in 1..Len(steps) : k \in 1..n \/ k = n + 1
  BY <1>2, <1>3
<1>6. ClosedInOrder(steps)
  <2>. SUFFICES ASSUME NEW k \in 1..Len(steps), NEW l \in 1..Len(steps),
                       k < l, Finished(steps[l])
                PROVE  /\ Finished(steps[k])
                       /\ steps[k].stop <= steps[l].stop
                       /\ Severity[steps[k].status] <= Severity[steps[l].status]
    BY DEF ClosedInOrder
  <2>1. l \in 1..n /\ k \in 1..n
    BY <1>1, <1>2, <1>3, <1>5
  <2>. QED BY <1>3, <2>1 DEF CaseHistory, ClosedInOrder, n
<1>7. \A k \in 1..Len(steps) : StepHistory(steps[k], case.start, t)
  <2>1. StepHistory(step, case.start, t)
    BY <1>1, <1>2 DEF CaseHistory, ItemHistory, StepHistory
  <2>. QED BY <1>3, <1>5, <2>1 DEF CaseHistory, n
<1>8. \A k \in 1..Len(steps) : case.status # "PASSED" /\ ~Finished(new)
  BY <1>4 DEF CaseHistory, ItemHistory, Finished
<1>9. ItemHistory(new, t)
  BY <1>4 DEF CaseHistory, ItemHistory, Finished
<1>10. CaseHistory(new, t)
  BY <1>4, <1>6, <1>7, <1>8, <1>9 DEF CaseHistory
<1>. QED BY <1>10 DEF new, steps, step

\* The first open step of a case is closed now, with a severity that no step
\* closed before exceeds.
LEMMA CaseHistoryStepClosed ==
  ASSUME NEW case \in TestCase, NEW t \in Nat, NEW m \in 1..Len(case.steps),
         NEW status \in DOMAIN Severity,
         CaseHistory(case, t), ~Finished(case), ~Finished(case.steps[m]),
         \A k \in 1..Len(case.steps) : k < m => Finished(case.steps[k]),
         \A k \in 1..Len(case.steps) :
           Finished(case.steps[k]) => Severity[case.steps[k].status] <= Severity[status]
  PROVE  CaseHistory([case EXCEPT !.steps =
                        [case.steps EXCEPT ![m] = Closed(case.steps[m], t, status)]], t)
<1>. DEFINE step  == Closed(case.steps[m], t, status)
            n     == Len(case.steps)
            steps == [case.steps EXCEPT ![m] = step]
            new   == [case EXCEPT !.steps = steps]
<1>1. n \in Nat /\ case.steps \in Seq(Step) /\ case.start \in Nat /\ case.steps[m] \in Step
  BY StepOf
<1>2. /\ step \in Step /\ Finished(step)
      /\ step.start = case.steps[m].start /\ step.stop = t /\ step.status = status
  <2>1. status \in Status
    BY SeverityFacts DEF Status
  <2>2. step \in Step /\ step.stage = "FINISHED"
    BY <1>1, <2>1, ClosedStep
  <2>. QED BY <1>1, <2>2 DEF Closed, Step, Finished
<1>3. /\ new.steps = steps /\ new.start = case.start /\ new.stop = case.stop
      /\ new.stage = case.stage /\ new.status = case.status
  BY DEF TestCase
<1>. HIDE DEF step
<1>4. Len(steps) = n /\ \A k \in 1..n : steps[k] = IF k = m THEN step ELSE case.steps[k]
  BY <1>1, <1>2, ExceptSeq
<1>. HIDE DEF steps, new, n
<1>5. ClosedInOrder(steps)
  <2>. SUFFICES ASSUME NEW k \in 1..n, NEW l \in 1..n, k < l, Finished(steps[l])
                PROVE  /\ Finished(steps[k])
                       /\ steps[k].stop <= steps[l].stop
                       /\ Severity[steps[k].status] <= Severity[steps[l].status]
    BY <1>4 DEF ClosedInOrder
  <2>1. CASE l = m
    <3>1. k < m /\ k # m /\ Finished(case.steps[k])
      BY <1>1, <2>1 DEF n
    <3>2. case.steps[k].stop <= t
      BY <3>1 DEF CaseHistory, StepHistory, n
    <3>. QED BY <1>2, <1>4, <2>1, <3>1, <3>2 DEF n
  <2>2. CASE l # m
    <3>1. Finished(case.steps[l])
      BY <1>4, <2>2
    <3>2. k # m
      BY <3>1 DEF CaseHistory, ClosedInOrder, n
    <3>. QED BY <1>4, <2>2, <3>1, <3>2 DEF CaseHistory, ClosedInOrder, n
  <2>. QED BY <2>1, <2>2
<1>6. \A k \in 1..n : StepHistory(steps[k], case.start, t)
  <2>1. StepHistory(case.steps[m], case.start, t)
    BY DEF CaseHistory
  <2>2. StepHistory(step, case.start, t)
    BY <1>2, <2>1 DEF StepHistory
  <2>. QED BY <1>4, <2>2 DEF CaseHistory, n
<1>7. case.status # "PASSED" /\ ~Finished(new)
  BY <1>3 DEF CaseHistory, ItemHistory, Finished
<1>8. ItemHistory(new, t)
  BY <1>3 DEF CaseHistory, ItemHistory, Finished
<1>9. CaseHistory(new, t)
  BY <1>3, <1>4, <1>5, <1>6, <1>7, <1>8 DEF CaseHistory
<1>. QED BY <1>9 DEF new, steps, step

-----------------------------------------------------------------------------
(***************************************************************************)
(* Facts about single suites.                                              *)
(***************************************************************************)
LEMMA CaseOf ==
  ASSUME NEW suite \in TestSuite
  PROVE  /\ suite.cases \in Seq(TestCase) /\ Len(suite.cases) \in Nat
         /\ suite.start \in Nat /\ suite.stop \in Nat
         /\ suite.labels \in Seq(Label)
         /\ \A j \in 1..Len(suite.cases) :
              /\ suite.cases[j] \in TestCase
              /\ suite.cases[j].start \in Nat /\ suite.cases[j].stop \in Nat
<1>1. /\ suite.cases \in Seq(TestCase) /\ suite.start \in Nat /\ suite.stop \in Nat
      /\ suite.labels \in Seq(Label)
  BY DEF TestSuite
<1>2. \A j \in 1..Len(suite.cases) : suite.cases[j] \in TestCase
  BY <1>1, ElementOfSeq
<1>3. \A j \in 1..Len(suite.cases) : suite.cases[j].start \in Nat /\ suite.cases[j].stop \in Nat
  BY <1>2 DEF TestCase
<1>. QED BY <1>1, <1>2, <1>3, LenProperties

LEMMA NewSuiteHistory ==
  ASSUME NEW uuid, NEW name, NEW fmt, NEW t \in Nat
  PROVE  SuiteHistory(NewSuite(uuid, name, fmt, t), t)
<1>. DEFINE suite == NewSuite(uuid, name, fmt, t)
<1>1. /\ suite.cases = <<>> /\ suite.labels = <<>> /\ suite.start = t
      /\ suite.status = "UNKNOWN" /\ suite.stage = "RUNNING"
  BY DEF NewSuite
<1>2. Len(suite.cases) = 0 /\ Len(suite.labels) = 0
  BY <1>1, EmptySeq
<1>. HIDE DEF suite
<1>3. ItemHistory(suite, t)
  BY <1>1 DEF ItemHistory, Finished
<1>4. /\ \A j \in 1..Len(suite.cases) : FALSE
      /\ \A k \in 1..Len(suite.labels) : FALSE
  BY <1>2
<1>5. SuiteHistory(suite, t)
  BY <1>3, <1>4 DEF SuiteHistory, LabelsOnce
<1>. QED BY <1>5 DEF suite

LEMMA SuiteHistoryLater ==
  ASSUME NEW suite \in TestSuite, NEW t \in Nat, NEW u \in Nat, t <= u, SuiteHistory(suite, t)
  PROVE  SuiteHistory(suite, u)
<1>1. ItemHistory(suite, u)
  BY CaseOf DEF SuiteHistory, ItemHistory
<1>2. \A j \in 1..Len(suite.cases) : CaseHistory(suite.cases[j], u)
  BY CaseOf, CaseHistoryLater DEF SuiteHistory
<1>. QED BY <1>1, <1>2 DEF SuiteHistory

\* The texts of a suite do not matter, as long as no label appears twice.
LEMMA SuiteHistoryTexts ==
  ASSUME NEW suite, NEW new, NEW t, SuiteHistory(suite, t),
         new.cases = suite.cases, new.start = suite.start, new.stop = suite.stop,
         new.stage = suite.stage, new.status = suite.status, LabelsOnce(new.labels)
  PROVE  SuiteHistory(new, t)
<1>1. ItemHistory(new, t)
  BY DEF SuiteHistory, ItemHistory, Finished
<1>. QED BY <1>1 DEF SuiteHistory, Finished

(***************************************************************************)
(* A sequence with its last item replaced: what the search comes to, as    *)
(* only the last suite and its last case may be open.                      *)
(***************************************************************************)
WithLast(items, item) == [items EXCEPT ![Len(items)] = item]

LEMMA WithLastFacts ==
  ASSUME NEW S, NEW items \in Seq(S), Len(items) # 0, NEW item \in S
  PROVE  /\ WithLast(items, item) \in Seq(S)
         /\ Len(WithLast(items, item)) = Len(items)
         /\ WithLast(items, item)[Len(items)] = item
         /\ \A i \in 1..Len(items) :
              WithLast(items, item)[i] = IF i = Len(items) THEN item ELSE items[i]
<1>1. Len(items) \in Nat /\ Len(items) \in 1..Len(items)
  BY LenProperties
<1>. QED BY <1>1, ExceptSeq DEF WithLast

LEMMA SuiteHistoryCaseAdded ==
  ASSUME NEW suite \in TestSuite, NEW t \in Nat, NEW name \in Names,
         SuiteHistory(suite, t), ~Finished(suite),
         \A j \in 1..Len(suite.cases) : Finished(suite.cases[j])
  PROVE  SuiteHistory([suite EXCEPT !.cases = Append(suite.cases, NewCase(name, t))], t)
<1>. DEFINE case  == NewCase(name, t)
            n     == Len(suite.cases)
            cases == Append(suite.cases, case)
            new   == [suite EXCEPT !.cases = cases]
<1>1. case \in TestCase /\ CaseHistory(case, t) /\ case.start = t
  BY NewItemTypes, NewCaseHistory DEF NewCase
<1>2. n \in Nat /\ suite.cases \in Seq(TestCase) /\ suite.start \in Nat
  BY CaseOf
<1>. HIDE DEF case
<1>3. Len(cases) = n + 1 /\ cases[n + 1] = case /\ \A j \in 1..n : cases[j] = suite.cases[j]
  BY <1>1, <1>2, AppendFacts
<1>4. /\ new.cases = cases /\ new.start = suite.start /\ new.stop = suite.stop
      /\ new.stage = suite.stage /\ new.status = suite.status /\ new.labels = suite.labels
  BY DEF TestSuite
<1>. HIDE DEF cases, new, n
<1>5. \A j \in 1..Len(cases) : j \in 1..n \/ j = n + 1
  BY <1>2, <1>3
<1>6. \A j \in 1..Len(cases) : CaseHistory(cases[j], t) /\ suite.start <= cases[j].start
  <2>1. suite.start <= t
    BY DEF SuiteHistory, ItemHistory
  <2>. QED BY <1>1, <1>3, <1>5, <2>1 DEF SuiteHistory, n
<1>7. \A j \in 1..Len(cases) : j < Len(cases) => cases[j].stop <= cases[j + 1].start
  <2>. SUFFICES ASSUME NEW j \in 1..n PROVE cases[j].stop <= cases[j + 1].start
    BY <1>2, <1>3, <1>5
  <2>1. CASE j = n
    <3>1. suite.cases[j].stop <= t
      BY DEF SuiteHistory, CaseHistory, ItemHistory, n
    <3>. QED BY <1>1, <1>3, <2>1, <3>1
  <2>2. CASE j # n
    <3>1. j < n /\ j + 1 \in 1..n
      BY <1>2, <2>2
    <3>. QED BY <1>3, <3>1 DEF SuiteHistory, n
  <2>. QED BY <2>1, <2>2
<1>8. ~Finished(new) /\ new.status = "UNKNOWN" /\ ItemHistory(new, t)
  BY <1>4 DEF SuiteHistory, ItemHistory, Finished
<1>9. SuiteHistory(new, t)
  BY <1>4, <1>6, <1>7, <1>8 DEF SuiteHistory
<1>. QED BY <1>9 DEF new, cases, case

LEMMA SuiteHistoryCaseChanged ==
  ASSUME NEW suite \in TestSuite, NEW t \in Nat, NEW case \in TestCase,
         SuiteHistory(suite, t), ~Finished(suite), Len(suite.cases) # 0,
         CaseHistory(case, t), case.start = suite.cases[Len(suite.cases)].start
  PROVE  SuiteHistory([suite EXCEPT !.cases = WithLast(suite.cases, case)], t)
<1>. DEFINE n     == Len(suite.cases)
            cases == WithLast(suite.cases, case)
            new   == [suite EXCEPT !.cases = cases]
<1>1. n \in Nat /\ n \in 1..n /\ suite.cases \in Seq(TestCase)
  BY CaseOf
<1>2. /\ Len(cases) = n /\ cases[n] = case
      /\ \A j \in 1..n : j < n => cases[j] = suite.cases[j]
      /\ \A j \in 1..n : j < n \/ j = n
  <2>1. /\ Len(cases) = n /\ cases[n] = case
        /\ \A j \in 1..n : cases[j] = IF j = n THEN case ELSE suite.cases[j]
    BY <1>1, ExceptSeq DEF WithLast
  <2>. HIDE DEF cases, n
  <2>. QED BY <1>1, <2>1
<1>3. /\ new.cases = cases /\ new.start = suite.start /\ new.stop = suite.stop
      /\ new.stage = suite.stage /\ new.status = suite.status /\ new.labels = suite.labels
  BY DEF TestSuite
<1>. HIDE DEF cases, new, n
<1>4. \A j \in 1..n : /\ CaseHistory(cases[j], t)
                      /\ cases[j].start = suite.cases[j].start
                      /\ suite.start <= cases[j].start
  BY <1>2 DEF SuiteHistory, n
<1>5. \A j \in 1..n : j < n => cases[j].stop <= cases[j + 1].start
  <2>1. \A j \in 1..n : j < n => j + 1 \in 1..n
    BY <1>1
  <2>. QED BY <1>2, <1>4, <2>1 DEF SuiteHistory, n
<1>6. ~Finished(new) /\ new.status = "UNKNOWN" /\ ItemHistory(new, t)
  BY <1>3 DEF SuiteHistory, ItemHistory, Finished
<1>7. SuiteHistory(new, t)
  BY <1>2, <1>3, <1>4, <1>5, <1>6 DEF SuiteHistory
<1>. QED BY <1>7 DEF new, cases

\* A suite is closed now; PASSED only if no closed step failed.
LEMMA SuiteHistoryClosed ==
  ASSUME NEW suite \in TestSuite, NEW t \in Nat, NEW status \in {"PASSED", "FAILED"},
         NEW p \in Patterns, SuiteHistory(suite, t),
         \A j \in 1..Len(suite.cases) :
           /\ Finished(suite.cases[j])
           /\ status = "PASSED" => NoStepFailed(suite.cases[j])
  PROVE  SuiteHistory(AddTMSLink(Closed(suite, t, status), p), t)
<1>. DEFINE new == AddTMSLink(Closed(suite, t, status), p)
<1>1. /\ new.cases = suite.cases /\ new.start = suite.start /\ new.stop = t
      /\ new.stage = "FINISHED" /\ new.status = status /\ new.labels = suite.labels
  BY DEF TestSuite, Closed, AddTMSLink
<1>. HIDE DEF new
<1>2. ItemHistory(new, t)
  BY <1>1, CaseOf DEF SuiteHistory, ItemHistory, Finished
<1>3. \A j \in 1..Len(suite.cases) : suite.cases[j].stop <= t
  BY DEF SuiteHistory, CaseHistory, ItemHistory
<1>4. SuiteHistory(new, t)
  BY <1>1, <1>2, <1>3 DEF SuiteHistory
<1>. QED BY <1>4 DEF new

-----------------------------------------------------------------------------
(***************************************************************************)
(* The running suite and the running case are the last ones, in every      *)
(* phase: also after a run that was cut short, where setters may still     *)
(* find them.                                                              *)
(***************************************************************************)
LEMMA RunningIsLast ==
  ASSUME IndInv
  PROVE  /\ RunningSuite(suites) # 0 =>
              /\ RunningSuite(suites) = Len(suites) /\ Len(suites) # 0
              /\ LastSuite = suites[RunningSuite(suites)]
              /\ LastSuite \in TestSuite /\ ~Finished(LastSuite)
         /\ RunningCase(suites) # 0 =>
              /\ RunningSuite(suites) # 0
              /\ RunningCase(suites) = Len(LastSuite.cases) /\ Len(LastSuite.cases) # 0
              /\ LastCase = suites[RunningSuite(suites)].cases[RunningCase(suites)]
              /\ LastCase \in TestCase /\ ~Finished(LastCase)
<1>. DEFINE r == RunningSuite(suites)
            c == RunningCase(suites)
<1>1. suites \in Seq(TestSuite) /\ Len(suites) \in Nat
  BY LenProperties DEF IndInv, TypeOK
<1>2. ASSUME r # 0
      PROVE  /\ r = Len(suites) /\ Len(suites) # 0 /\ LastSuite = suites[r]
             /\ LastSuite \in TestSuite /\ ~Finished(LastSuite)
  <2>1. r \in 1..Len(suites) /\ IsRunning(suites[r]) /\ suites[r] \in TestSuite
    BY <1>1, <1>2, FirstRunningFacts, LookupFacts DEF RunningSuite
  <2>2. r = Len(suites)
    BY <1>1, <2>1 DEF IndInv, OpenPath, IsRunning, Finished
  <2>. QED BY <1>1, <2>1, <2>2 DEF LastSuite, IsRunning, Finished
<1>3. ASSUME c # 0
      PROVE  /\ r # 0 /\ c = Len(LastSuite.cases) /\ Len(LastSuite.cases) # 0
             /\ LastCase = suites[r].cases[c]
             /\ LastCase \in TestCase /\ ~Finished(LastCase)
  <2>1. /\ r # 0 /\ c \in 1..Len(suites[r].cases)
        /\ suites[r].cases \in Seq(TestCase) /\ suites[r].cases[c] \in TestCase
        /\ c = FirstRunning(suites[r].cases)
    BY <1>1, <1>3, LookupFacts DEF RunningCase
  <2>2. LastSuite = suites[r] /\ r \in 1..Len(suites)
    BY <1>1, <1>2, <2>1
  <2>3. IsRunning(suites[r].cases[c])
    BY <1>3, <2>1, FirstRunningFacts
  <2>4. Len(suites[r].cases) \in Nat
    BY <2>1, LenProperties
  <2>5. c = Len(suites[r].cases)
    BY <2>1, <2>2, <2>3, <2>4 DEF IndInv, OpenPath, IsRunning, Finished
  <2>. QED BY <2>1, <2>2, <2>3, <2>4, <2>5 DEF LastCase, IsRunning, Finished
<1>. QED BY <1>2, <1>3

WithLastCase(suite, case) == [suite EXCEPT !.cases = WithLast(suite.cases, case)]

LEMMA WithCaseIsWithSuite ==
  ASSUME IndInv, RunningCase(suites) # 0, NEW case \in TestCase
  PROVE  /\ WithCase(suites, case) = WithSuite(suites, WithLastCase(LastSuite, case))
         /\ WithLastCase(LastSuite, case) \in TestSuite
         /\ WithLastCase(LastSuite, case).cases = WithLast(LastSuite.cases, case)
         /\ Len(WithLast(LastSuite.cases, case)) = Len(LastSuite.cases)
         /\ \A j \in 1..Len(LastSuite.cases) :
              WithLast(LastSuite.cases, case)[j]
                = IF j = Len(LastSuite.cases) THEN case ELSE LastSuite.cases[j]
<1>. DEFINE cases == WithLast(LastSuite.cases, case)
            n     == Len(LastSuite.cases)
<1>1. /\ RunningSuite(suites) # 0 /\ LastSuite = suites[RunningSuite(suites)]
      /\ LastSuite \in TestSuite
      /\ RunningCase(suites) = n /\ n # 0
  BY RunningIsLast
<1>2. LastSuite.cases \in Seq(TestCase) /\ n \in 1..n
  BY <1>1, CaseOf
<1>3. /\ cases \in Seq(TestCase) /\ Len(cases) = n
      /\ \A j \in 1..n : cases[j] = IF j = n THEN case ELSE LastSuite.cases[j]
  BY <1>2, ExceptSeq DEF WithLast
<1>4. WithCase(suites, case) = WithSuite(suites, WithLastCase(LastSuite, case))
  BY <1>1 DEF WithCase, WithLastCase, WithLast
<1>. HIDE DEF cases
<1>5. /\ [LastSuite EXCEPT !.cases = cases] \in TestSuite
      /\ [LastSuite EXCEPT !.cases = cases].cases = cases
  BY <1>1, <1>3, SuiteWithCases
<1>. QED BY <1>3, <1>4, <1>5 DEF cases, WithLastCase

(***************************************************************************)
(* The running suite is replaced, at the same time of the clock: what is   *)
(* left to show speaks of the new suite only.                              *)
(***************************************************************************)
LEMMA SuiteReplacedKeepsHistory ==
  ASSUME IndInv, HistoryInv, RunningSuite(suites) # 0,
         NEW suite \in TestSuite, suites' = WithSuite(suites, suite),
         UNCHANGED <<now, files>>,
         SuiteHistory(suite, now), suite.start = LastSuite.start,
         phase' # "Idle" =>
           phase # "Idle" /\ Len(suite.links) = (IF Finished(suite) THEN 1 ELSE 0),
         phase' \in {"Suite", "Test"} =>
           \A j \in 1..Len(suite.cases) :
             Finished(suite.cases[j]) /\ ~suiteFailed' => NoStepFailed(suite.cases[j]),
         phase' = "Test" =>
           LET steps == suite.cases[Len(suite.cases)].steps
           IN  \A k \in 1..Len(steps) :
                 Finished(steps[k]) => Severity[steps[k].status] <= Severity[CurrentTestStatus']
  PROVE  HistoryInv'
<1>. DEFINE n == Len(suites)
<1>1. suites \in Seq(TestSuite) /\ n \in Nat /\ n \in 1..n /\ RunningSuite(suites) = n
  BY RunningIsLast, LenProperties DEF IndInv, TypeOK
<1>2. Len(suites') = n /\ \A i \in 1..n : suites'[i] = IF i = n THEN suite ELSE suites[i]
  BY <1>1, WithSuiteFacts
<1>3. LastSuite' = suite /\ LastCase' = suite.cases[Len(suite.cases)]
  BY <1>1, <1>2 DEF LastSuite, LastCase
<1>4. TreeHistory'
  <2>1. \A i \in 1..n : SuiteHistory(suites'[i], now)
    BY <1>2 DEF HistoryInv, TreeHistory
  <2>2. \A i \in 1..n : i < n => i + 1 \in 1..n
    BY <1>1
  <2>3. \A i \in 1..n : suites'[i].start = suites[i].start
    BY <1>2 DEF LastSuite
  <2>4. \A i \in 1..n : i < n => suites'[i].stop <= suites'[i + 1].start
    BY <1>1, <1>2, <2>2, <2>3 DEF HistoryInv, TreeHistory
  <2>. QED BY <1>2, <2>1, <2>4 DEF TreeHistory, SuiteHistory, ItemHistory, CaseHistory, StepHistory
<1>5. ResultsRemember'
  BY <1>3 DEF ResultsRemember, NoStepFailed
<1>6. LinksFollowClosing'
  <2>. SUFFICES ASSUME phase' # "Idle", NEW i \in 1..n
                PROVE  Len(suites'[i].links) = IF Finished(suites'[i]) THEN 1 ELSE 0
    BY <1>2 DEF LinksFollowClosing, Finished
  <2>. QED BY <1>2 DEF HistoryInv, LinksFollowClosing
<1>7. OnlyFinishedIsPublished'
  BY DEF HistoryInv, OnlyFinishedIsPublished
<1>. QED BY <1>4, <1>5, <1>6, <1>7 DEF HistoryInv

LEMMA CaseReplacedKeepsHistory ==
  ASSUME IndInv, HistoryInv, RunningCase(suites) # 0,
         NEW case \in TestCase, suites' = WithCase(suites, case),
         UNCHANGED <<now, files>>,
         CaseHistory(case, now), case.start = LastCase.start,
         phase' # "Idle" => phase # "Idle",
         phase' \in {"Suite", "Test"} =>
           /\ phase \in {"Suite", "Test"}
           /\ suiteFailed => suiteFailed'
           /\ Finished(case) /\ ~suiteFailed' => NoStepFailed(case),
         phase' = "Test" =>
           \A k \in 1..Len(case.steps) :
             Finished(case.steps[k]) => Severity[case.steps[k].status] <= Severity[CurrentTestStatus']
  PROVE  HistoryInv'
<1>. DEFINE suite == WithLastCase(LastSuite, case)
            n     == Len(LastSuite.cases)
<1>1. /\ RunningSuite(suites) # 0 /\ LastSuite \in TestSuite /\ ~Finished(LastSuite)
      /\ Len(suites) # 0 /\ n # 0
  BY RunningIsLast
<1>2. /\ suites' = WithSuite(suites, suite) /\ suite \in TestSuite
      /\ Len(suite.cases) = n
      /\ \A j \in 1..n : suite.cases[j] = IF j = n THEN case ELSE LastSuite.cases[j]
  BY WithCaseIsWithSuite
<1>3. /\ suite.start = LastSuite.start /\ suite.links = LastSuite.links
      /\ suite.stage = LastSuite.stage
  BY <1>1 DEF WithLastCase, TestSuite
<1>4. now \in Nat /\ Len(suites) \in 1..Len(suites) /\ n \in 1..n
  BY <1>1, CaseOf, LenProperties DEF IndInv, TypeOK
<1>5. SuiteHistory(LastSuite, now)
  BY <1>4 DEF HistoryInv, TreeHistory, LastSuite
<1>6. SuiteHistory(suite, now)
  BY <1>1, <1>4, <1>5, SuiteHistoryCaseChanged DEF WithLastCase, LastCase
<1>. HIDE DEF suite, n
<1>7. phase' # "Idle" =>
        phase # "Idle" /\ Len(suite.links) = (IF Finished(suite) THEN 1 ELSE 0)
  BY <1>1, <1>3, <1>4 DEF HistoryInv, LinksFollowClosing, LastSuite, Finished
<1>8. ASSUME phase' \in {"Suite", "Test"}, NEW j \in 1..n, Finished(suite.cases[j]), ~suiteFailed'
      PROVE  NoStepFailed(suite.cases[j])
  BY <1>2, <1>8 DEF HistoryInv, ResultsRemember, n
<1>9. suite.cases[Len(suite.cases)] = case
  BY <1>2, <1>4
<1>. QED BY <1>1, <1>2, <1>3, <1>6, <1>7, <1>8, <1>9, SuiteReplacedKeepsHistory

-----------------------------------------------------------------------------
(***************************************************************************)
(* One lemma per action: it keeps HistoryInv.                              *)
(***************************************************************************)
LEMMA StatusSeverity ==
  /\ CurrentTestStatus \in DOMAIN Severity
  /\ testFailed => Severity[CurrentTestStatus] = 2
  /\ ~testFailed /\ testSkipped => Severity[CurrentTestStatus] = 1
  /\ ~testFailed => Severity[CurrentTestStatus] \in {0, 1}
  /\ ~testFailed /\ ~testSkipped => Severity[CurrentTestStatus] = 0
BY SeverityFacts DEF CurrentTestStatus, Skipped

\* A closed step has one of the three severities.
LEMMA ClosedStepSeverity ==
  ASSUME NEW case, NEW t, CaseHistory(case, t), NEW k \in 1..Len(case.steps),
         Finished(case.steps[k])
  PROVE  /\ Severity[case.steps[k].status] \in 0..2
         /\ Severity[case.steps[k].status] = 0 => case.steps[k].status = "PASSED"
         /\ Severity[case.steps[k].status] # 2 => case.steps[k].status # "FAILED"
BY SeverityFacts DEF CaseHistory, StepHistory

LEMMA SameTreeKeepsHistory ==
  ASSUME IndInv, HistoryInv, UNCHANGED suites, OnlyFinishedIsPublished',
         now' \in Nat, now <= now',
         phase' # "Idle" => phase' = phase /\ (suiteFailed => suiteFailed'),
         phase' = "Test" => Severity[CurrentTestStatus] <= Severity[CurrentTestStatus']
  PROVE  HistoryInv'
<1>1. suites \in Seq(TestSuite) /\ now \in Nat
  BY DEF IndInv, TypeOK
<1>2. TreeHistory'
  <2>1. \A i \in 1..Len(suites) : suites[i] \in TestSuite
    BY <1>1, ElementOfSeq
  <2>2. \A i \in 1..Len(suites) : SuiteHistory(suites[i], now')
    BY <1>1, <2>1, SuiteHistoryLater DEF HistoryInv, TreeHistory
  <2>3. \A i \in 1..Len(suites) : i < Len(suites) => suites[i].stop <= suites[i + 1].start
    BY DEF HistoryInv, TreeHistory
  <2>. QED
    BY <2>2, <2>3 DEF TreeHistory
<1>3. ResultsRemember'
  <2>1. /\ LastSuite' = LastSuite /\ LastCase' = LastCase
    BY DEF LastSuite, LastCase
  <2>2. ASSUME phase' = "Test", NEW k \in 1..Len(LastCase.steps), Finished(LastCase.steps[k])
        PROVE  Severity[LastCase.steps[k].status] <= Severity[CurrentTestStatus']
    <3>1. /\ Severity[LastCase.steps[k].status] <= Severity[CurrentTestStatus]
          /\ Severity[CurrentTestStatus] <= Severity[CurrentTestStatus']
      BY <2>2 DEF HistoryInv, ResultsRemember
    <3>2. CaseHistory(LastCase, now)
      <4>1. LastCase \in TestCase /\ Len(suites) \in 1..Len(suites)
            /\ Len(LastSuite.cases) \in 1..Len(LastSuite.cases)
        <5>1. Len(suites) # 0 /\ Len(LastSuite.cases) # 0
          BY <2>2 DEF IndInv, OpenPath
        <5>2. LastSuite \in TestSuite
          BY <1>1, <5>1, LenProperties, ElementOfSeq DEF LastSuite
        <5>. QED BY <1>1, <5>1, <5>2, CaseOf, LenProperties DEF LastCase
      <4>. QED BY <4>1 DEF HistoryInv, TreeHistory, SuiteHistory, LastCase, LastSuite
    <3>3. Severity[LastCase.steps[k].status] \in Int
      BY <2>2, <3>2, ClosedStepSeverity
    <3>4. Severity[CurrentTestStatus] \in Int /\ Severity[CurrentTestStatus'] \in Int
      <4>1. CurrentTestStatus' \in DOMAIN Severity
        BY DEF CurrentTestStatus, Severity
      <4>. QED BY <4>1, StatusSeverity, SeverityFacts
    <3>. QED BY <3>1, <3>3, <3>4
  <2>. QED BY <2>1, <2>2 DEF HistoryInv, ResultsRemember, NoStepFailed
<1>4. LinksFollowClosing'
  BY DEF HistoryInv, LinksFollowClosing
<1>. QED BY <1>2, <1>3, <1>4 DEF HistoryInv

LEMMA InitEstablishesHistory == Init => HistoryInv
<1>. SUFFICES ASSUME Init PROVE HistoryInv
  OBVIOUS
<1>1. /\ \A i \in 1..Len(suites) : FALSE
      /\ \A i \in 1..Len(files) : FALSE
      /\ phase = "Idle"
  BY EmptySeq DEF Init, GTestInit
<1>. QED
  BY <1>1 DEF HistoryInv, TreeHistory, ResultsRemember, LinksFollowClosing,
              OnlyFinishedIsPublished

LEMMA ProgramStartKeepsHistory == OnTestProgramStart => HistoryInv'
<1>. SUFFICES ASSUME OnTestProgramStart PROVE HistoryInv'
  OBVIOUS
<1>1. /\ \A i \in 1..Len(suites') : FALSE
      /\ \A i \in 1..Len(files') : FALSE
      /\ phase' = "Program"
  BY EmptySeq DEF OnTestProgramStart, HandleTestProgramStart, GProgramStart
<1>. QED
  BY <1>1 DEF HistoryInv, TreeHistory, ResultsRemember, LinksFollowClosing,
              OnlyFinishedIsPublished

LEMMA SuiteStartKeepsHistory ==
  ASSUME IndInv, HistoryInv, NEW name \in Names, OnTestSuiteStart(name)
  PROVE  HistoryInv'
<1>. DEFINE suite == NewSuite(Len(suites) + 1, name, format, now)
            n     == Len(suites)
<1>1. /\ suites \in Seq(TestSuite) /\ n \in Nat /\ format \in Format /\ now \in Nat
      /\ phase = "Program" /\ phase' = "Suite" /\ UNCHANGED <<now, files>>
      /\ suites' = Append(suites, suite)
  BY LenProperties
     DEF IndInv, TypeOK, OnTestSuiteStart, GSuiteStart, HandleTestSuiteStart, FreshUUID
<1>2. suite \in TestSuite /\ SuiteHistory(suite, now)
  BY <1>1, NewItemTypes, NewSuiteHistory
<1>3. ~Finished(suite) /\ Len(suite.cases) = 0 /\ suite.start = now /\ Len(suite.links) = 0
  BY EmptySeq DEF NewSuite, Finished
<1>. HIDE DEF suite
<1>4. /\ Len(suites') = n + 1 /\ suites'[n + 1] = suite
      /\ \A i \in 1..n : suites'[i] = suites[i]
  BY <1>1, <1>2, AppendFacts
<1>. HIDE DEF n
<1>5. \A i \in 1..(n + 1) : i \in 1..n \/ i = n + 1
  BY <1>1
<1>6. TreeHistory'
  <2>1. \A i \in 1..(n + 1) : SuiteHistory(suites'[i], now)
    BY <1>2, <1>4, <1>5 DEF HistoryInv, TreeHistory, n
  <2>2. ASSUME NEW i \in 1..n PROVE suites'[i].stop <= suites'[i + 1].start
    <3>1. CASE i = n
      <4>1. Finished(suites[i])
        BY <1>1 DEF IndInv, OpenPath, n
      <4>2. suites[i].stop <= now
        BY <4>1 DEF HistoryInv, TreeHistory, SuiteHistory, ItemHistory, n
      <4>. QED BY <1>3, <1>4, <3>1, <4>2
    <3>2. CASE i # n
      <4>1. i < n /\ i + 1 \in 1..n
        BY <1>1, <3>2
      <4>. QED BY <1>4, <4>1 DEF HistoryInv, TreeHistory, n
    <3>. QED BY <3>1, <3>2
  <2>3. \A i \in 1..(n + 1) : i < n + 1 => i \in 1..n
    BY <1>1
  <2>4. now' = now
    BY <1>1
  <2>. QED BY <1>4, <2>1, <2>2, <2>3, <2>4 DEF TreeHistory
<1>7. ResultsRemember'
  <2>1. LastSuite' = suite
    BY <1>4 DEF LastSuite
  <2>2. \A j \in 1..Len(suite.cases) : FALSE
    BY <1>3
  <2>. QED BY <1>1, <2>1, <2>2 DEF ResultsRemember
<1>8. LinksFollowClosing'
  <2>. SUFFICES ASSUME NEW i \in 1..(n + 1)
                PROVE  Len(suites'[i].links) = IF Finished(suites'[i]) THEN 1 ELSE 0
    BY <1>4 DEF LinksFollowClosing, Finished
  <2>. QED BY <1>1, <1>3, <1>4, <1>5 DEF HistoryInv, LinksFollowClosing, n
<1>9. OnlyFinishedIsPublished'
  BY <1>1 DEF HistoryInv, OnlyFinishedIsPublished
<1>. QED BY <1>6, <1>7, <1>8, <1>9 DEF HistoryInv

LEMMA TestStartKeepsHistory ==
  ASSUME IndInv, HistoryInv, NEW name \in Names, OnTestStart(name)
  PROVE  HistoryInv'
<1>. DEFINE case  == NewCase(name, now)
            cases == Append(LastSuite.cases, case)
            suite == [LastSuite EXCEPT !.cases = cases]
            n     == Len(LastSuite.cases)
<1>1. /\ phase = "Suite" /\ now \in Nat
      /\ RunningSuite(suites) # 0 /\ Len(suites) # 0 /\ Len(suites) \in 1..Len(suites)
      /\ LastSuite \in TestSuite /\ ~Finished(LastSuite)
      /\ LastSuite = suites[RunningSuite(suites)]
      /\ SuiteError = "none"
  BY OpenSuiteFacts, RunningIsLast, LenProperties, SearchFindsOpenPath DEF OnTestStart, IndInv, TypeOK
<1>2. /\ phase' = "Test" /\ UNCHANGED <<suiteFailed, now, files>>
      /\ suites' = WithSuite(suites, suite)
  BY <1>1, CaseStartShape DEF OnTestStart, GTestStart
<1>3. \A j \in 1..n : Finished(LastSuite.cases[j])
  BY <1>1 DEF IndInv, OpenPath
<1>4. SuiteHistory(LastSuite, now)
  BY <1>1 DEF HistoryInv, TreeHistory, LastSuite
<1>5. SuiteHistory(suite, now)
  BY <1>1, <1>3, <1>4, SuiteHistoryCaseAdded
<1>6. case \in TestCase /\ ~Finished(case) /\ Len(case.steps) = 0
  BY <1>1, NewItemTypes, EmptySeq DEF NewCase, Finished
<1>. HIDE DEF case
<1>7. /\ LastSuite.cases \in Seq(TestCase) /\ n \in Nat
      /\ cases \in Seq(TestCase) /\ Len(cases) = n + 1 /\ cases[n + 1] = case
      /\ \A j \in 1..n : cases[j] = LastSuite.cases[j]
  BY <1>1, <1>6, CaseOf, AppendFacts
<1>. HIDE DEF cases
<1>8. /\ suite \in TestSuite /\ suite.cases = cases /\ suite.stage = LastSuite.stage
      /\ suite.start = LastSuite.start /\ suite.links = LastSuite.links
  BY <1>1, <1>7, SuiteWithCases DEF TestSuite
<1>. HIDE DEF suite, n
<1>9. Len(suite.links) = IF Finished(suite) THEN 1 ELSE 0
  BY <1>1, <1>8 DEF HistoryInv, LinksFollowClosing, LastSuite, Finished
<1>10. ASSUME NEW j \in 1..Len(suite.cases), Finished(suite.cases[j]), ~suiteFailed'
       PROVE  NoStepFailed(suite.cases[j])
  <2>1. j \in 1..n
    BY <1>6, <1>7, <1>8, <1>10
  <2>. QED BY <1>1, <1>2, <1>7, <1>8, <1>10, <2>1 DEF HistoryInv, ResultsRemember, n
<1>11. \A k \in 1..Len(suite.cases[Len(suite.cases)].steps) : FALSE
  BY <1>6, <1>7, <1>8
<1>. QED
  BY <1>1, <1>2, <1>5, <1>8, <1>9, <1>10, <1>11, SuiteReplacedKeepsHistory

LEMMA OpenCaseHistory ==
  ASSUME IndInv, HistoryInv, RunningCase(suites) # 0
  PROVE  LastCase \in TestCase /\ ~Finished(LastCase) /\ CaseHistory(LastCase, now) /\ now \in Nat
<1>1. /\ Len(suites) # 0 /\ Len(LastSuite.cases) # 0 /\ LastSuite \in TestSuite
      /\ LastCase \in TestCase /\ ~Finished(LastCase)
  BY RunningIsLast
<1>2. Len(suites) \in 1..Len(suites) /\ Len(LastSuite.cases) \in 1..Len(LastSuite.cases)
  BY <1>1, CaseOf, LenProperties DEF IndInv, TypeOK
<1>3. SuiteHistory(LastSuite, now)
  BY <1>2 DEF HistoryInv, TreeHistory, LastSuite
<1>. QED BY <1>1, <1>2, <1>3 DEF SuiteHistory, LastCase, IndInv, TypeOK

LEMMA TestEndKeepsHistory == IndInv /\ HistoryInv /\ OnTestEnd => HistoryInv'
<1>. SUFFICES ASSUME IndInv, HistoryInv, OnTestEnd PROVE HistoryInv'
  OBVIOUS
<1>. DEFINE case == Closed(LastCase, now, CaseVerdict)
<1>1. phase = "Test" /\ CaseError = "none" /\ RunningCase(suites) # 0
  BY OpenCaseFacts, SearchFindsOpenPath DEF OnTestEnd
<1>2. /\ LastCase \in TestCase /\ ~Finished(LastCase) /\ CaseHistory(LastCase, now) /\ now \in Nat
      /\ LastCase = suites[RunningSuite(suites)].cases[RunningCase(suites)]
  BY <1>1, OpenCaseHistory, OpenCaseFacts
<1>3. /\ phase' = "Suite" /\ suiteFailed' = (suiteFailed \/ testFailed)
      /\ UNCHANGED <<now, files>>
      /\ suites' = WithCase(suites, case)
  BY <1>1, <1>2, CaseEndShape DEF OnTestEnd, GTestEnd
<1>4. /\ CaseVerdict \in {"PASSED", "FAILED"}
      /\ CaseVerdict = "PASSED" => ~testFailed /\ ~testSkipped
  BY DEF CaseVerdict, Passed
<1>5. ASSUME NEW k \in 1..Len(LastCase.steps), Finished(LastCase.steps[k])
      PROVE  /\ CaseVerdict = "PASSED" => LastCase.steps[k].status = "PASSED"
             /\ ~testFailed => LastCase.steps[k].status # "FAILED"
  <2>1. Severity[LastCase.steps[k].status] <= Severity[CurrentTestStatus]
    BY <1>1, <1>5 DEF HistoryInv, ResultsRemember
  <2>2. /\ Severity[LastCase.steps[k].status] \in 0..2
        /\ Severity[LastCase.steps[k].status] = 0 => LastCase.steps[k].status = "PASSED"
        /\ Severity[LastCase.steps[k].status] # 2 => LastCase.steps[k].status # "FAILED"
    BY <1>2, <1>5, ClosedStepSeverity
  <2>3. /\ ~testFailed => Severity[CurrentTestStatus] \in {0, 1}
        /\ ~testFailed /\ ~testSkipped => Severity[CurrentTestStatus] = 0
    BY StatusSeverity
  <2>. QED BY <1>4, <2>1, <2>2, <2>3
<1>6. case \in TestCase /\ case.start = LastCase.start /\ case.steps = LastCase.steps
  BY <1>2, VerdictTypes, ClosedCase DEF Closed, TestCase
<1>7. CaseHistory(case, now)
  BY <1>2, <1>4, <1>5, CaseHistoryClosed
<1>. HIDE DEF case
<1>8. ~suiteFailed' => NoStepFailed(case)
  BY <1>3, <1>5, <1>6 DEF NoStepFailed
<1>. QED BY <1>1, <1>3, <1>6, <1>7, <1>8, CaseReplacedKeepsHistory

LEMMA SuiteEndKeepsHistory == IndInv /\ HistoryInv /\ OnTestSuiteEnd => HistoryInv'
<1>. SUFFICES ASSUME IndInv, HistoryInv, OnTestSuiteEnd PROVE HistoryInv'
  OBVIOUS
<1>. DEFINE closed == Closed(LastSuite, now, SuiteVerdict)
            suite  == AddTMSLink(closed, pattern)
<1>1. /\ phase = "Suite" /\ now \in Nat /\ pattern \in Patterns
      /\ RunningSuite(suites) # 0 /\ Len(suites) # 0 /\ Len(suites) \in 1..Len(suites)
      /\ LastSuite \in TestSuite /\ ~Finished(LastSuite)
      /\ LastSuite = suites[RunningSuite(suites)]
      /\ SuiteError = "none"
  BY OpenSuiteFacts, RunningIsLast, LenProperties, SearchFindsOpenPath
     DEF OnTestSuiteEnd, IndInv, TypeOK
<1>2. suites' = WithSuite(suites, suite) /\ UNCHANGED <<now, files>>
  BY <1>1, SuiteEndShape DEF OnTestSuiteEnd
<1>3. phase' \in {"Program", "Idle"} /\ (phase' # "Idle" => pattern \in Slotted)
  BY <1>1 DEF OnTestSuiteEnd, GSuiteEnd, GAbort
<1>4. SuiteVerdict \in {"PASSED", "FAILED"} /\ (SuiteVerdict = "PASSED" => ~suiteFailed)
  BY DEF SuiteVerdict
<1>5. \A j \in 1..Len(LastSuite.cases) :
        /\ Finished(LastSuite.cases[j])
        /\ SuiteVerdict = "PASSED" => NoStepFailed(LastSuite.cases[j])
  BY <1>1, <1>4 DEF IndInv, OpenPath, HistoryInv, ResultsRemember
<1>6. SuiteHistory(LastSuite, now)
  BY <1>1 DEF HistoryInv, TreeHistory, LastSuite
<1>7. SuiteHistory(suite, now)
  BY <1>1, <1>4, <1>5, <1>6, SuiteHistoryClosed
<1>8. /\ closed \in TestSuite /\ closed.stage = "FINISHED"
      /\ closed.links = LastSuite.links /\ closed.start = LastSuite.start
  BY <1>1, VerdictTypes, ClosedSuite DEF Closed, TestSuite
<1>. HIDE DEF closed
<1>9. suite \in TestSuite /\ Finished(suite) /\ suite.start = LastSuite.start
  BY <1>1, <1>8, TMSLinkFacts DEF Finished, AddTMSLink, TestSuite
<1>10. pattern \in Slotted => Len(suite.links) = 1
  <2>. DEFINE link == [name |-> closed.tmsId, pattern |-> pattern]
  <2>1. Len(LastSuite.links) = 0
    BY <1>1 DEF HistoryInv, LinksFollowClosing, LastSuite
  <2>2. link \in Link /\ closed.links \in Seq(Link)
    BY <1>1, <1>8 DEF TestSuite, Link
  <2>. HIDE DEF link
  <2>3. Len(Append(closed.links, link)) = 1
    BY <1>8, <2>1, <2>2, AppendProperties
  <2>4. pattern \in Slotted => suite.links = Append(closed.links, link)
    BY <1>8 DEF AddTMSLink, link, TestSuite
  <2>. QED BY <2>3, <2>4
<1>. HIDE DEF suite
<1>11. phase' # "Idle" =>
         phase # "Idle" /\ Len(suite.links) = (IF Finished(suite) THEN 1 ELSE 0)
  BY <1>1, <1>3, <1>9, <1>10
<1>12. phase' \notin {"Suite", "Test"} /\ phase' # "Test"
  BY <1>3
<1>. QED BY <1>1, <1>2, <1>7, <1>9, <1>11, <1>12, SuiteReplacedKeepsHistory

LEMMA StepStartKeepsHistory ==
  ASSUME IndInv, HistoryInv, NEW type \in StepTypes, StepStart(type)
  PROVE  HistoryInv'
<1>. DEFINE step  == NewStep(type, now)
            steps == Append(LastCase.steps, step)
            case  == [LastCase EXCEPT !.steps = steps]
            n     == Len(LastCase.steps)
<1>1. phase = "Test" /\ RunningCase(suites) # 0 /\ type \in StepType
  BY SearchFindsOpenPath, LegacyAssumption DEF StepStart
<1>2. /\ LastCase \in TestCase /\ ~Finished(LastCase) /\ CaseHistory(LastCase, now) /\ now \in Nat
      /\ LastCase = suites[RunningSuite(suites)].cases[RunningCase(suites)]
      /\ LastCase.steps \in Seq(Step) /\ n \in Nat
  BY <1>1, OpenCaseHistory, OpenCaseFacts
<1>3. /\ UNCHANGED <<phase, testFailed, testSkipped, suiteFailed, now, files>>
      /\ suites' = WithCase(suites, case)
  BY <1>2, StepStartShape DEF StepStart, gtestVars
<1>4. CaseHistory(case, now)
  BY <1>1, <1>2, CaseHistoryStepAdded
<1>5. step \in Step /\ ~Finished(step)
  <2>1. \E name \in Names : TRUE
    BY <1>2 DEF TestCase
  <2>. QED BY <1>1, <1>2, <2>1, NewItemTypes DEF NewStep, Finished
<1>. HIDE DEF step
<1>6. /\ steps \in Seq(Step) /\ Len(steps) = n + 1 /\ steps[n + 1] = step
      /\ \A k \in 1..n : steps[k] = LastCase.steps[k]
  <2>1. LastCase.steps \in Seq(Step)
    BY <1>2
  <2>. QED BY <1>5, <2>1, AppendFacts
<1>. HIDE DEF steps
<1>7. case \in TestCase /\ case.steps = steps /\ case.start = LastCase.start /\ ~Finished(case)
  BY <1>2, <1>6, CaseWithSteps DEF Finished, TestCase
<1>. HIDE DEF case, n
<1>8. ASSUME NEW k \in 1..Len(case.steps), Finished(case.steps[k])
      PROVE  Severity[case.steps[k].status] <= Severity[CurrentTestStatus']
  <2>1. k \in 1..n
    BY <1>2, <1>5, <1>6, <1>7, <1>8
  <2>2. CurrentTestStatus' = CurrentTestStatus
    BY <1>3 DEF CurrentTestStatus, Skipped
  <2>3. Severity[LastCase.steps[k].status] <= Severity[CurrentTestStatus]
    BY <1>1, <1>6, <1>7, <1>8, <2>1 DEF HistoryInv, ResultsRemember, n
  <2>. QED BY <1>6, <1>7, <2>1, <2>2, <2>3
<1>. QED BY <1>1, <1>3, <1>4, <1>7, <1>8, CaseReplacedKeepsHistory

LEMMA StepReturnKeepsHistory == IndInv /\ HistoryInv /\ StepReturn => HistoryInv'
<1>. SUFFICES ASSUME IndInv, HistoryInv, StepReturn PROVE HistoryInv'
  OBVIOUS
<1>. DEFINE n     == Len(LastCase.steps)
            m     == n - (frames + thrown) + 1
            step  == Closed(LastCase.steps[m], now, CurrentTestStatus)
            steps == [LastCase.steps EXCEPT ![m] = step]
            case  == [LastCase EXCEPT !.steps = steps]
<1>1. frames \in Nat /\ thrown \in Nat /\ frames > 0 /\ phase = "Test" /\ RunningCase(suites) # 0
  <2>1. frames \in Nat /\ thrown \in Nat /\ frames > 0 /\ phase = "Test"
    BY DEF StepReturn, IndInv, TypeOK, OpenPath
  <2>. QED BY <2>1, SearchFindsOpenPath
<1>2. /\ LastCase \in TestCase /\ ~Finished(LastCase) /\ CaseHistory(LastCase, now) /\ now \in Nat
      /\ LastCase = suites[RunningSuite(suites)].cases[RunningCase(suites)]
      /\ LastCase.steps \in Seq(Step) /\ n \in Nat /\ CaseError = "none"
  BY <1>1, OpenCaseHistory, OpenCaseFacts
<1>3. /\ m \in 1..n /\ ~Finished(LastCase.steps[m])
      /\ \A k \in 1..n : k < m => Finished(LastCase.steps[k])
  <2>1. /\ frames + thrown <= n
        /\ \A k \in 1..n : IF k <= n - (frames + thrown)
                           THEN Finished(LastCase.steps[k]) ELSE IsRunning(LastCase.steps[k])
    BY <1>1 DEF IndInv, OpenSteps
  <2>2. m \in 1..n /\ ~(m <= n - (frames + thrown))
    <3>1. n \in Nat /\ frames + thrown \in Nat /\ frames + thrown > 0
      BY <1>1, <1>2
    <3>. HIDE DEF n
    <3>. QED BY <2>1, <3>1
  <2>3. \A k \in 1..n : k < m => k <= n - (frames + thrown)
    BY <1>1, <1>2
  <2>. HIDE DEF m, n
  <2>. QED BY <2>1, <2>2, <2>3 DEF IsRunning, Finished
<1>4. RunningStep(suites) = m /\ StepError = "none"
  BY <1>1, <1>2, <1>3, SearchFindsOpenPath DEF StepError
<1>5. /\ UNCHANGED <<phase, testFailed, testSkipped, suiteFailed, now, files>>
      /\ suites' = WithCase(suites, case)
  BY <1>2, <1>4, StepEndShape DEF StepReturn, gtestVars
<1>6. \A k \in 1..n : Finished(LastCase.steps[k]) =>
        Severity[LastCase.steps[k].status] <= Severity[CurrentTestStatus]
  BY <1>1 DEF HistoryInv, ResultsRemember
<1>7. CurrentTestStatus \in DOMAIN Severity
  BY StatusSeverity
<1>. HIDE DEF m
<1>8. CaseHistory(case, now)
  BY <1>2, <1>3, <1>6, <1>7, CaseHistoryStepClosed
<1>9. step \in Step /\ step.status = CurrentTestStatus
  <2>1. LastCase.steps[m] \in Step
    BY <1>2, <1>3, ElementOfSeq
  <2>. QED BY <1>2, <2>1, VerdictTypes, ClosedStep DEF Closed, Step
<1>. HIDE DEF step
<1>10. /\ steps \in Seq(Step) /\ Len(steps) = n
       /\ \A k \in 1..n : steps[k] = IF k = m THEN step ELSE LastCase.steps[k]
  BY <1>2, <1>3, <1>9, ExceptSeq
<1>. HIDE DEF steps
<1>11. case \in TestCase /\ case.steps = steps /\ case.start = LastCase.start /\ ~Finished(case)
  BY <1>2, <1>10, CaseWithSteps DEF Finished, TestCase
<1>. HIDE DEF case, n
<1>12. ASSUME NEW k \in 1..n, Finished(steps[k])
       PROVE  Severity[steps[k].status] <= Severity[CurrentTestStatus]
  <2>1. CASE k = m
    <3>1. Severity[CurrentTestStatus] \in Int
      BY StatusSeverity, SeverityFacts
    <3>. QED BY <1>9, <1>10, <2>1, <3>1
  <2>2. CASE k # m
    BY <1>6, <1>10, <1>12, <2>2 DEF n
  <2>. QED BY <2>1, <2>2
<1>13. CurrentTestStatus' = CurrentTestStatus
  BY <1>5 DEF CurrentTestStatus, Skipped
<1>. QED BY <1>1, <1>5, <1>8, <1>10, <1>11, <1>12, <1>13, CaseReplacedKeepsHistory

LEMMA SetCaseNameKeepsHistory ==
  ASSUME IndInv, HistoryInv, NEW value \in Names, SetTestCaseName(value)
  PROVE  HistoryInv'
<1>. DEFINE case == [LastCase EXCEPT !.name = value]
<1>1. RunningCase(suites) # 0
  BY DEF SetTestCaseName, CaseError, SuiteError
<1>2. /\ LastCase \in TestCase /\ ~Finished(LastCase) /\ CaseHistory(LastCase, now) /\ now \in Nat
      /\ LastCase = suites[RunningSuite(suites)].cases[RunningCase(suites)]
  BY <1>1, OpenCaseHistory, RunningIsLast
<1>3. /\ UNCHANGED <<phase, testFailed, testSkipped, suiteFailed, now, files>>
      /\ suites' = WithCase(suites, case)
  BY <1>2, CaseNameShape DEF SetTestCaseName, gtestVars
<1>4. CaseHistory(case, now)
  BY <1>2, CaseHistoryRenamed
<1>5. /\ case \in TestCase /\ case.steps = LastCase.steps /\ case.start = LastCase.start
      /\ ~Finished(case)
  BY <1>2, CaseWithName DEF Finished, TestCase
<1>. HIDE DEF case
<1>6. CurrentTestStatus' = CurrentTestStatus
  BY <1>3 DEF CurrentTestStatus, Skipped
<1>7. phase = "Test" => \A k \in 1..Len(case.steps) : Finished(case.steps[k]) =>
        Severity[case.steps[k].status] <= Severity[CurrentTestStatus']
  BY <1>5, <1>6 DEF HistoryInv, ResultsRemember
<1>. QED BY <1>1, <1>3, <1>4, <1>5, <1>7, CaseReplacedKeepsHistory

(***************************************************************************)
(* A suite that is given a text differs from the old one in its texts and  *)
(* labels only, and a label that is set is there once.                     *)
(***************************************************************************)
LEMMA AddLabelFacts ==
  ASSUME NEW labels \in Seq(Label), NEW label \in Label
  PROVE  LET new == AddLabel(labels, label)
             n   == Len(labels)
         IN  \E k \in 1..(n + 1) :
               /\ Len(new) = IF k <= n THEN n ELSE n + 1
               /\ new[k] = label
               /\ IF k <= n THEN labels[k].name = label.name
                  ELSE \A i \in 1..n : labels[i].name # label.name
               /\ \A i \in 1..n : i # k => new[i] = labels[i]
<1>. DEFINE I == { i \in 1..Len(labels) : labels[i].name = label.name }
            k == IF I # {} THEN Min(I) ELSE 0
            new == AddLabel(labels, label)
            n == Len(labels)
<1>1. new = IF k # 0 THEN [labels EXCEPT ![k] = label] ELSE Append(labels, label)
  BY DEF AddLabel, SelectInSeq
<1>2. n \in Nat
  BY LenProperties
<1>3. /\ k # 0 => k \in 1..n /\ labels[k].name = label.name
      /\ k = 0 => \A i \in 1..n : labels[i].name # label.name
  <2>1. I \in SUBSET Nat /\ I \subseteq 1..n
    OBVIOUS
  <2>2. I # {} => Min(I) \in I
    <3>. HIDE DEF I
    <3>. QED BY <2>1, MinExists
  <2>3. I # {} => Min(I) \in 1..n /\ labels[Min(I)].name = label.name
    BY <2>2
  <2>4. I = {} => \A i \in 1..n : labels[i].name # label.name
    OBVIOUS
  <2>. HIDE DEF I, n
  <2>. QED BY <2>3, <2>4
<1>. HIDE DEF k
<1>4. CASE k # 0
  <2>1. Len(new) = n /\ \A i \in 1..n : new[i] = IF i = k THEN label ELSE labels[i]
    BY <1>1, <1>3, <1>4, ExceptSeq
  <2>. HIDE DEF new, n
  <2>2. k \in 1..(n + 1) /\ k <= n
    BY <1>2, <1>3, <1>4
  <2>. QED BY <1>3, <1>4, <2>1, <2>2 DEF new, n
<1>5. CASE k = 0
  <2>1. Len(new) = n + 1 /\ new[n + 1] = label /\ \A i \in 1..n : new[i] = labels[i]
    BY <1>1, <1>5, AppendFacts
  <2>. HIDE DEF new, n
  <2>2. n + 1 \in 1..(n + 1) /\ ~(n + 1 <= n)
    BY <1>2
  <2>. QED BY <1>3, <1>5, <2>1, <2>2 DEF new, n
<1>. QED BY <1>4, <1>5

LEMMA AddLabelOnce ==
  ASSUME NEW labels \in Seq(Label), NEW label \in Label, LabelsOnce(labels)
  PROVE  LabelsOnce(AddLabel(labels, label))
<1>. DEFINE new == AddLabel(labels, label)
            n == Len(labels)
<1>1. n \in Nat
  BY LenProperties
<1>2. PICK k \in 1..(n + 1) :
        /\ Len(new) = IF k <= n THEN n ELSE n + 1
        /\ new[k] = label
        /\ IF k <= n THEN labels[k].name = label.name
           ELSE \A i \in 1..n : labels[i].name # label.name
        /\ \A i \in 1..n : i # k => new[i] = labels[i]
  BY AddLabelFacts
<1>3. \A i, j \in 1..n : labels[i].name = labels[j].name => i = j
  BY DEF LabelsOnce
<1>. HIDE DEF new, n
<1>4. CASE k <= n
  <2>1. \A i \in 1..n : new[i].name = labels[i].name
    BY <1>1, <1>2, <1>4
  <2>. QED BY <1>2, <1>3, <1>4, <2>1 DEF LabelsOnce, new
<1>5. CASE k = n + 1
  <2>1. \A i \in 1..(n + 1) : i \in 1..n \/ i = n + 1
    BY <1>1
  <2>2. Len(new) = n + 1 /\ \A i \in 1..n : new[i] = labels[i] /\ new[i].name # label.name
    BY <1>1, <1>2, <1>5
  <2>. QED BY <1>2, <1>3, <1>5, <2>1, <2>2 DEF LabelsOnce, new
<1>6. k <= n \/ k = n + 1
  BY <1>1
<1>. QED BY <1>4, <1>5, <1>6

WithText(suite, property, value) ==
  CASE property = "TMS_ID" -> [suite EXCEPT !.tmsId = value]
    [] property = "NAME"   -> [suite EXCEPT !.name = value]
    [] OTHER -> [suite EXCEPT !.labels =
                   AddLabel(suite.labels, [name |-> property, value |-> value])]

LEMMA WithTextFacts ==
  ASSUME NEW suite \in TestSuite, NEW property \in SuiteProperties, NEW value \in Names,
         LabelsOnce(suite.labels)
  PROVE  LET new == WithText(suite, property, value)
         IN  /\ new \in TestSuite /\ LabelsOnce(new.labels)
             /\ new.cases = suite.cases /\ new.start = suite.start /\ new.stop = suite.stop
             /\ new.stage = suite.stage /\ new.status = suite.status /\ new.links = suite.links
<1>. DEFINE label  == [name |-> property, value |-> value]
            labels == AddLabel(suite.labels, label)
            new    == WithText(suite, property, value)
<1>1. CASE property = "TMS_ID"
  BY <1>1, SuiteWithText DEF WithText, TestSuite
<1>2. CASE property = "NAME"
  BY <1>2, SuiteWithText DEF WithText, TestSuite
<1>3. CASE property \notin {"TMS_ID", "NAME"}
  <2>1. label \in Label /\ suite.labels \in Seq(Label)
    BY <1>3 DEF Label, SuiteProperties, TestSuite
  <2>2. labels \in Seq(Label) /\ LabelsOnce(labels)
    BY <2>1, AddLabelType, AddLabelOnce
  <2>3. new = [suite EXCEPT !.labels = labels]
    BY <1>3 DEF WithText
  <2>. HIDE DEF labels, new
  <2>4. /\ new \in TestSuite /\ new.labels = labels
        /\ new.cases = suite.cases /\ new.start = suite.start /\ new.stop = suite.stop
        /\ new.stage = suite.stage /\ new.status = suite.status /\ new.links = suite.links
    BY <2>2, <2>3, SuiteWithLabels DEF TestSuite
  <2>5. LabelsOnce(new.labels)
    BY <2>2, <2>4
  <2>. QED BY <2>4, <2>5 DEF new
<1>. QED BY <1>1, <1>2, <1>3

LEMMA SetSuitePropertyIsWithText ==
  ASSUME NEW property, NEW value
  PROVE  SetSuiteProperty(suites, property, value)
           = WithSuite(suites, WithText(suites[RunningSuite(suites)], property, value))
BY DEF SetSuiteProperty, InRunningSuite, WithSuite, WithText

LEMMA SetSuitePropertyKeepsHistory ==
  ASSUME IndInv, HistoryInv, NEW property \in SuiteProperties, NEW value \in Names,
         SetTestSuiteProperty(property, value)
  PROVE  HistoryInv'
<1>. DEFINE suite == WithText(LastSuite, property, value)
<1>1. RunningSuite(suites) # 0
  BY DEF SetTestSuiteProperty, SuiteError
<1>2. /\ Len(suites) # 0 /\ LastSuite = suites[RunningSuite(suites)]
      /\ LastSuite \in TestSuite /\ ~Finished(LastSuite)
      /\ Len(suites) \in 1..Len(suites) /\ now \in Nat
  BY <1>1, RunningIsLast, LenProperties DEF IndInv, TypeOK
<1>3. /\ UNCHANGED <<phase, testFailed, testSkipped, suiteFailed, now, files>>
      /\ suites' = WithSuite(suites, suite)
  BY <1>2, SetSuitePropertyIsWithText DEF SetTestSuiteProperty, gtestVars
<1>4. SuiteHistory(LastSuite, now)
  BY <1>2 DEF HistoryInv, TreeHistory, LastSuite
<1>5. /\ suite \in TestSuite /\ LabelsOnce(suite.labels)
      /\ suite.cases = LastSuite.cases /\ suite.start = LastSuite.start
      /\ suite.stop = LastSuite.stop /\ suite.stage = LastSuite.stage
      /\ suite.status = LastSuite.status /\ suite.links = LastSuite.links
  BY <1>2, <1>4, WithTextFacts DEF SuiteHistory
<1>. HIDE DEF suite
<1>6. SuiteHistory(suite, now)
  BY <1>4, <1>5, SuiteHistoryTexts
<1>7. phase # "Idle" => Len(suite.links) = (IF Finished(suite) THEN 1 ELSE 0)
  BY <1>2, <1>5 DEF HistoryInv, LinksFollowClosing, LastSuite, Finished
<1>8. CurrentTestStatus' = CurrentTestStatus
  BY <1>3 DEF CurrentTestStatus, Skipped
<1>9. /\ phase \in {"Suite", "Test"} =>
           \A j \in 1..Len(suite.cases) :
             Finished(suite.cases[j]) /\ ~suiteFailed => NoStepFailed(suite.cases[j])
      /\ phase = "Test" =>
           LET steps == suite.cases[Len(suite.cases)].steps
           IN  \A k \in 1..Len(steps) :
                 Finished(steps[k]) => Severity[steps[k].status] <= Severity[CurrentTestStatus]
  BY <1>5 DEF HistoryInv, ResultsRemember, LastCase
<1>. QED
  BY <1>1, <1>3, <1>5, <1>6, <1>7, <1>8, <1>9, SuiteReplacedKeepsHistory

(***************************************************************************)
(* What is written at the end of the program: every suite is closed then.  *)
(***************************************************************************)
LEMMA SuiteDocFinished ==
  ASSUME NEW suite \in TestSuite, NEW t, SuiteHistory(suite, t), Finished(suite),
         Len(suite.links) = 1, \A j \in 1..Len(suite.cases) : Finished(suite.cases[j])
  PROVE  /\ SuiteDoc(suite).stage = "finished"
         /\ SuiteDoc(suite).status \in {"passed", "failed"}
         /\ Len(SuiteDoc(suite).links) = 1
         /\ \A j \in 1..Len(SuiteDoc(suite).steps) :
              /\ SuiteDoc(suite).steps[j].stage = "finished"
              /\ SuiteDoc(suite).steps[j].status \in {"passed", "failed"}
<1>. DEFINE docs == [j \in 1..Len(suite.cases) |-> CaseDoc(suite.cases[j])]
<1>1. /\ StatusText["PASSED"] = "passed" /\ StatusText["FAILED"] = "failed"
      /\ StageText["FINISHED"] = "finished"
  BY DEF StatusText, StageText
<1>2. suite.status \in {"PASSED", "FAILED"} /\ suite.stage = "FINISHED"
  BY DEF SuiteHistory, ItemHistory, Finished
<1>3. \A j \in 1..Len(suite.cases) :
        /\ suite.cases[j].status \in {"PASSED", "FAILED"}
        /\ suite.cases[j].stage = "FINISHED"
  BY DEF SuiteHistory, CaseHistory, ItemHistory, Finished
<1>4. \A j \in 1..Len(suite.cases) :
        /\ CaseDoc(suite.cases[j]).stage = "finished"
        /\ CaseDoc(suite.cases[j]).status \in {"passed", "failed"}
  BY <1>1, <1>3 DEF CaseDoc
<1>5. Len(suite.cases) \in Nat
  BY CaseOf
<1>6. /\ SuiteDoc(suite).stage = StageText[suite.stage]
      /\ SuiteDoc(suite).status = StatusText[suite.status]
      /\ SuiteDoc(suite).links = suite.links
      /\ SuiteDoc(suite).steps = docs
  BY DEF SuiteDoc
<1>7. Len(docs) = Len(suite.cases)
  BY <1>5
<1>8. \A j \in 1..Len(suite.cases) : docs[j] = CaseDoc(suite.cases[j])
  OBVIOUS
<1>. HIDE DEF docs
<1>. QED BY <1>1, <1>2, <1>4, <1>6, <1>7, <1>8

LEMMA ProgramEndKeepsHistory ==
  ASSUME IndInv, HistoryInv, NEW n \in 0..Len(suites), OnTestProgramEnd(n)
  PROVE  HistoryInv'
<1>1. /\ phase = "Program" /\ phase' = "Idle" /\ UNCHANGED <<suites, now, suiteFailed>>
      /\ files' = Saved(n) /\ now \in Nat
      /\ suites \in Seq(TestSuite) /\ Len(suites) \in Nat
  BY LenProperties DEF OnTestProgramEnd, GProgramEnd, IndInv, TypeOK
<1>2. Len(files') = n /\ \A i \in 1..n : files'[i] = SuiteDoc(suites[i])
  BY <1>1 DEF Saved
<1>3. OnlyFinishedIsPublished'
  <2>. SUFFICES ASSUME NEW i \in 1..n
                PROVE  /\ SuiteDoc(suites[i]).stage = "finished"
                       /\ SuiteDoc(suites[i]).status \in {"passed", "failed"}
                       /\ Len(SuiteDoc(suites[i]).links) = 1
                       /\ \A j \in 1..Len(SuiteDoc(suites[i]).steps) :
                            /\ SuiteDoc(suites[i]).steps[j].stage = "finished"
                            /\ SuiteDoc(suites[i]).steps[j].status \in {"passed", "failed"}
    BY <1>2 DEF OnlyFinishedIsPublished
  <2>1. i \in 1..Len(suites)
    BY <1>1
  <2>2. suites[i] \in TestSuite
    BY <1>1, <2>1, ElementOfSeq
  <2>3. /\ Finished(suites[i])
        /\ \A j \in 1..Len(suites[i].cases) : Finished(suites[i].cases[j])
    BY <1>1, <2>1 DEF IndInv, OpenPath
  <2>4. Len(suites[i].links) = 1
    BY <1>1, <2>1, <2>3 DEF HistoryInv, LinksFollowClosing
  <2>5. SuiteHistory(suites[i], now)
    BY <2>1 DEF HistoryInv, TreeHistory
  <2>. QED BY <2>2, <2>3, <2>4, <2>5, SuiteDocFinished
<1>. QED BY <1>1, <1>3, SameTreeKeepsHistory

LEMMA EnvironmentKeepsHistory ==
  ASSUME IndInv, HistoryInv,
         \/ OnTestProgramEndDisabled
         \/ \E n \in 1..frames : StepThrow(n)
         \/ Configure \/ FailAssertion \/ SkipTest \/ OtherListenerThrows \/ Tick
         \/ UNCHANGED vars
  PROVE  HistoryInv'
<1>. USE DEF gtestVars, GFailInTest, GFailInSuite, GSkip, GAbort, GProgramEnd
<1>1. UNCHANGED <<suites, files>>
  BY DEF OnTestProgramEndDisabled, StepThrow, Configure, FailAssertion, SkipTest,
         OtherListenerThrows, Tick, vars
<1>2. now \in Nat /\ now' \in Nat /\ now <= now'
  BY DEF IndInv, TypeOK, OnTestProgramEndDisabled, StepThrow, Configure, FailAssertion, SkipTest,
         OtherListenerThrows, Tick, vars
<1>3. phase' # "Idle" =>
        /\ phase' = phase
        /\ suiteFailed => suiteFailed'
        /\ testFailed => testFailed'
        /\ testSkipped => testSkipped'
  BY DEF OnTestProgramEndDisabled, StepThrow, Configure, FailAssertion, SkipTest,
         OtherListenerThrows, Tick, vars
<1>4. phase' # "Idle" => Severity[CurrentTestStatus] <= Severity[CurrentTestStatus']
  BY <1>3, SeverityFacts DEF CurrentTestStatus, Skipped
<1>5. OnlyFinishedIsPublished'
  BY <1>1 DEF HistoryInv, OnlyFinishedIsPublished
<1>. QED BY <1>1, <1>2, <1>3, <1>4, <1>5, SameTreeKeepsHistory

LEMMA NextKeepsHistory == IndInv /\ HistoryInv /\ [Next]_vars => HistoryInv'
<1>. SUFFICES ASSUME IndInv, HistoryInv, [Next]_vars PROVE HistoryInv'
  OBVIOUS
<1>1. CASE OnTestProgramStart
  BY <1>1, ProgramStartKeepsHistory
<1>2. CASE \E name \in Names : OnTestSuiteStart(name) \/ OnTestStart(name)
  BY <1>2, SuiteStartKeepsHistory, TestStartKeepsHistory
<1>3. CASE OnTestEnd
  BY <1>3, TestEndKeepsHistory
<1>4. CASE OnTestSuiteEnd
  BY <1>4, SuiteEndKeepsHistory
<1>5. CASE \E n \in 0..Len(suites) : OnTestProgramEnd(n)
  BY <1>5, ProgramEndKeepsHistory
<1>6. CASE \E type \in StepTypes : StepStart(type)
  BY <1>6, StepStartKeepsHistory
<1>7. CASE StepReturn
  BY <1>7, StepReturnKeepsHistory
<1>8. CASE \E property \in SuiteProperties, value \in Names : SetTestSuiteProperty(property, value)
  BY <1>8, SetSuitePropertyKeepsHistory
<1>9. CASE \E value \in Names : SetTestCaseName(value)
  BY <1>9, SetCaseNameKeepsHistory
<1>10. CASE \/ OnTestProgramEndDisabled
            \/ \E n \in 1..frames : StepThrow(n)
            \/ Configure \/ FailAssertion \/ SkipTest \/ OtherListenerThrows \/ Tick
            \/ UNCHANGED vars
  BY <1>10, EnvironmentKeepsHistory
<1>. QED
  BY <1>1, <1>2, <1>3, <1>4, <1>5, <1>6, <1>7, <1>8, <1>9, <1>10 DEF Next

-----------------------------------------------------------------------------
(***************************************************************************)
(* The theorems.                                                           *)
(***************************************************************************)
\* The tree tells the past of the run correctly, in every state of every run.
THEOREM HistoryHolds == Spec => []HistoryInv
BY InvariantHolds, InitEstablishesHistory, NextKeepsHistory, PTL DEF Spec

\* Nested, thrown and failed steps included, the steps of a case are closed in
\* the order they were started, with rising stop times and severities.
THEOREM StepsAlwaysCloseInStartOrder == Spec => []StepsCloseInStartOrder
<1>1. HistoryInv => StepsCloseInStartOrder
  BY DEF HistoryInv, TreeHistory, SuiteHistory, CaseHistory, ClosedInOrder, StepsCloseInStartOrder
<1>. QED BY <1>1, HistoryHolds, PTL

\* No case is reported PASSED over a step that did not pass, and no suite over
\* a step that failed.
THEOREM VerdictsAlwaysPropagate == Spec => []VerdictsPropagate
<1>1. HistoryInv => VerdictsPropagate
  BY DEF HistoryInv, TreeHistory, SuiteHistory, CaseHistory, NoStepFailed, VerdictsPropagate
<1>. QED BY <1>1, HistoryHolds, PTL

\* The reported times of suites, cases and steps nest and do not overlap.
THEOREM IntervalsAlwaysNest == Spec => []IntervalsNest
<1>1. HistoryInv => IntervalsNest
  <2>. SUFFICES ASSUME HistoryInv, NEW i \in 1..Len(suites)
                PROVE  /\ i < Len(suites) => suites[i].stop <= suites[i + 1].start
                       /\ \A j \in 1..Len(suites[i].cases) :
                            /\ Within(suites[i].cases[j], suites[i])
                            /\ j < Len(suites[i].cases) =>
                                 suites[i].cases[j].stop <= suites[i].cases[j + 1].start
                            /\ \A k \in 1..Len(suites[i].cases[j].steps) :
                                 Within(suites[i].cases[j].steps[k], suites[i].cases[j])
    BY DEF IntervalsNest
  <2>1. /\ i < Len(suites) => suites[i].stop <= suites[i + 1].start
        /\ SuiteHistory(suites[i], now)
    BY DEF HistoryInv, TreeHistory
  <2>2. ASSUME NEW j \in 1..Len(suites[i].cases)
        PROVE  /\ Within(suites[i].cases[j], suites[i])
               /\ j < Len(suites[i].cases) =>
                    suites[i].cases[j].stop <= suites[i].cases[j + 1].start
               /\ CaseHistory(suites[i].cases[j], now)
    BY <2>1 DEF SuiteHistory, CaseHistory, ItemHistory, Within
  <2>3. ASSUME NEW j \in 1..Len(suites[i].cases), NEW k \in 1..Len(suites[i].cases[j].steps)
        PROVE  Within(suites[i].cases[j].steps[k], suites[i].cases[j])
    BY <2>2 DEF CaseHistory, StepHistory, Within
  <2>. QED BY <2>1, <2>2, <2>3
<1>. QED BY <1>1, HistoryHolds, PTL

\* However often a label is set, a suite has it once.
THEOREM LabelsAlwaysUnique == Spec => []LabelsUnique
<1>1. HistoryInv => LabelsUnique
  BY DEF HistoryInv, TreeHistory, SuiteHistory, LabelsOnce, LabelsUnique
<1>. QED BY <1>1, HistoryHolds, PTL

\* No document describes a suite or a case that is not finished.
THEOREM OnlyFinishedIsEverPublished == Spec => []OnlyFinishedIsPublished
<1>1. HistoryInv => OnlyFinishedIsPublished
  BY DEF HistoryInv
<1>. QED BY <1>1, HistoryHolds, PTL

-----------------------------------------------------------------------------
(***************************************************************************)
(* What each call that changes the tree replaces: the last suite, or its   *)
(* last case.                                                              *)
(***************************************************************************)
LEMMA TestStartEffect ==
  ASSUME IndInv, NEW name \in Names, OnTestStart(name)
  PROVE  /\ RunningSuite(suites) # 0 /\ phase = "Suite" /\ phase' = "Test"
         /\ suites' = WithSuite(suites,
                        [LastSuite EXCEPT !.cases = Append(LastSuite.cases, NewCase(name, now))])
<1>1. phase = "Suite"
  BY DEF OnTestStart
<1>2. RunningSuite(suites) # 0 /\ LastSuite = suites[RunningSuite(suites)] /\ SuiteError = "none"
  BY <1>1, OpenSuiteFacts, SearchFindsOpenPath
<1>. QED BY <1>1, <1>2, CaseStartShape DEF OnTestStart, GTestStart

LEMMA TestEndEffect ==
  ASSUME IndInv, OnTestEnd
  PROVE  /\ RunningCase(suites) # 0 /\ phase = "Test" /\ phase' = "Suite"
         /\ suites' = WithCase(suites, Closed(LastCase, now, CaseVerdict))
<1>1. phase = "Test" /\ CaseError = "none" /\ RunningCase(suites) # 0
  BY OpenCaseFacts, SearchFindsOpenPath DEF OnTestEnd
<1>2. LastCase = suites[RunningSuite(suites)].cases[RunningCase(suites)]
  BY <1>1, OpenCaseFacts
<1>. QED BY <1>1, <1>2, CaseEndShape DEF OnTestEnd, GTestEnd

LEMMA SuiteEndEffect ==
  ASSUME IndInv, OnTestSuiteEnd
  PROVE  /\ RunningSuite(suites) # 0 /\ phase = "Suite" /\ phase' \in {"Program", "Idle"}
         /\ suites' = WithSuite(suites, AddTMSLink(Closed(LastSuite, now, SuiteVerdict), pattern))
<1>1. phase = "Suite"
  BY DEF OnTestSuiteEnd
<1>2. RunningSuite(suites) # 0 /\ LastSuite = suites[RunningSuite(suites)] /\ SuiteError = "none"
  BY <1>1, OpenSuiteFacts, SearchFindsOpenPath
<1>. QED BY <1>1, <1>2, SuiteEndShape DEF OnTestSuiteEnd, GSuiteEnd, GAbort

LEMMA StepStartEffect ==
  ASSUME IndInv, NEW type \in StepTypes, StepStart(type)
  PROVE  /\ RunningCase(suites) # 0 /\ phase = "Test" /\ phase' = "Test" /\ type \in StepType
         /\ suites' = WithCase(suites,
                        [LastCase EXCEPT !.steps = Append(LastCase.steps, NewStep(type, now))])
<1>1. phase = "Test" /\ RunningCase(suites) # 0 /\ type \in StepType
  BY SearchFindsOpenPath, LegacyAssumption DEF StepStart
<1>2. LastCase = suites[RunningSuite(suites)].cases[RunningCase(suites)]
  BY <1>1, OpenCaseFacts
<1>. QED BY <1>1, <1>2, StepStartShape DEF StepStart, gtestVars

LEMMA StepReturnEffect ==
  ASSUME IndInv, StepReturn
  PROVE  LET m == Len(LastCase.steps) - (frames + thrown) + 1
         IN  /\ RunningCase(suites) # 0 /\ phase = "Test" /\ phase' = "Test"
             /\ m \in 1..Len(LastCase.steps) /\ ~Finished(LastCase.steps[m])
             /\ \A k \in 1..Len(LastCase.steps) : Finished(LastCase.steps[k]) <=> k < m
             /\ suites' = WithCase(suites,
                  [LastCase EXCEPT !.steps =
                     [LastCase.steps EXCEPT ![m] = Closed(LastCase.steps[m], now, CurrentTestStatus)]])
<1>. DEFINE n == Len(LastCase.steps)
            m == n - (frames + thrown) + 1
<1>1. frames \in Nat /\ thrown \in Nat /\ frames > 0 /\ phase = "Test" /\ RunningCase(suites) # 0
  <2>1. frames \in Nat /\ thrown \in Nat /\ frames > 0 /\ phase = "Test"
    BY DEF StepReturn, IndInv, TypeOK, OpenPath
  <2>. QED BY <2>1, SearchFindsOpenPath
<1>2. /\ LastCase = suites[RunningSuite(suites)].cases[RunningCase(suites)]
      /\ n \in Nat /\ CaseError = "none"
  BY <1>1, OpenCaseFacts
<1>3. /\ m \in 1..n /\ ~Finished(LastCase.steps[m])
      /\ \A k \in 1..n : Finished(LastCase.steps[k]) <=> k < m
  <2>1. /\ frames + thrown <= n
        /\ \A k \in 1..n : IF k <= n - (frames + thrown)
                           THEN Finished(LastCase.steps[k]) ELSE IsRunning(LastCase.steps[k])
    BY <1>1 DEF IndInv, OpenSteps
  <2>2. m \in 1..n /\ ~(m <= n - (frames + thrown))
    <3>1. n \in Nat /\ frames + thrown \in Nat /\ frames + thrown > 0
      BY <1>1, <1>2
    <3>. HIDE DEF n
    <3>. QED BY <2>1, <3>1
  <2>3. \A k \in 1..n : k < m <=> k <= n - (frames + thrown)
    BY <1>1, <1>2
  <2>. HIDE DEF m, n
  <2>. QED BY <2>1, <2>2, <2>3 DEF IsRunning, Finished
<1>4. RunningStep(suites) = m /\ StepError = "none"
  BY <1>1, <1>2, <1>3, SearchFindsOpenPath DEF StepError
<1>5. suites' = HandleTestStepEnd(suites, now, CurrentTestStatus) /\ phase' = phase
  BY <1>4 DEF StepReturn, gtestVars
<1>6. suites' = WithCase(suites,
        [LastCase EXCEPT !.steps =
           [LastCase.steps EXCEPT ![m] = Closed(LastCase.steps[m], now, CurrentTestStatus)]])
  BY <1>2, <1>4, <1>5, StepEndShape
<1>. QED BY <1>1, <1>3, <1>5, <1>6

LEMMA SetCaseNameEffect ==
  ASSUME IndInv, NEW value \in Names, SetTestCaseName(value)
  PROVE  /\ RunningCase(suites) # 0 /\ phase' = phase
         /\ suites' = WithCase(suites, [LastCase EXCEPT !.name = value])
<1>1. RunningCase(suites) # 0
  BY DEF SetTestCaseName, CaseError, SuiteError
<1>2. LastCase = suites[RunningSuite(suites)].cases[RunningCase(suites)]
  BY <1>1, RunningIsLast
<1>. QED BY <1>1, <1>2, CaseNameShape DEF SetTestCaseName, gtestVars

LEMMA SetSuitePropertyEffect ==
  ASSUME IndInv, NEW property \in SuiteProperties, NEW value \in Names,
         SetTestSuiteProperty(property, value)
  PROVE  /\ RunningSuite(suites) # 0 /\ phase' = phase
         /\ suites' = WithSuite(suites, WithText(LastSuite, property, value))
<1>1. RunningSuite(suites) # 0
  BY DEF SetTestSuiteProperty, SuiteError
<1>2. LastSuite = suites[RunningSuite(suites)]
  BY <1>1, RunningIsLast
<1>. QED BY <1>1, <1>2, SetSuitePropertyIsWithText DEF SetTestSuiteProperty, gtestVars

-----------------------------------------------------------------------------
(***************************************************************************)
(* A step of the program keeps what is finished, unless a run starts.      *)
(***************************************************************************)
StepsKept(old, new) ==
  \A k \in 1..Len(old) : k <= Len(new) /\ (Finished(old[k]) => new[k] = old[k])

CaseKept(old, new) == (Finished(old) => new = old) /\ StepsKept(old.steps, new.steps)

CasesKept(old, new) == \A j \in 1..Len(old) : j <= Len(new) /\ CaseKept(old[j], new[j])

SuiteKept(old, new) == (Finished(old) => new = old) /\ CasesKept(old.cases, new.cases)

TreeKept == \A i \in 1..Len(suites) : i <= Len(suites') /\ SuiteKept(suites[i], suites'[i])

LEMMA SameIsKept ==
  /\ \A steps : Len(steps) \in Nat => StepsKept(steps, steps)
  /\ \A case \in TestCase : CaseKept(case, case)
  /\ \A suite \in TestSuite : SuiteKept(suite, suite)
<1>1. \A steps : Len(steps) \in Nat => StepsKept(steps, steps)
  BY DEF StepsKept
<1>2. \A case \in TestCase : CaseKept(case, case)
  BY <1>1, StepOf DEF CaseKept
<1>3. ASSUME NEW suite \in TestSuite PROVE SuiteKept(suite, suite)
  <2>1. \A j \in 1..Len(suite.cases) : j <= Len(suite.cases) /\ suite.cases[j] \in TestCase
    BY CaseOf
  <2>. QED BY <1>2, <2>1 DEF SuiteKept, CasesKept
<1>. QED BY <1>1, <1>2, <1>3

LEMMA SuiteReplacedKeepsTree ==
  ASSUME IndInv, RunningSuite(suites) # 0,
         NEW suite \in TestSuite, suites' = WithSuite(suites, suite),
         CasesKept(LastSuite.cases, suite.cases)
  PROVE  TreeKept
<1>1. /\ suites \in Seq(TestSuite) /\ Len(suites) \in Nat
      /\ RunningSuite(suites) = Len(suites) /\ ~Finished(LastSuite)
  BY RunningIsLast, LenProperties DEF IndInv, TypeOK
<1>2. /\ Len(suites') = Len(suites)
      /\ \A i \in 1..Len(suites) : suites'[i] = IF i = Len(suites) THEN suite ELSE suites[i]
  BY <1>1, WithSuiteFacts
<1>3. SuiteKept(LastSuite, suite)
  BY <1>1 DEF SuiteKept
<1>4. \A i \in 1..Len(suites) : SuiteKept(suites[i], suites[i])
  <2>1. \A i \in 1..Len(suites) : suites[i] \in TestSuite
    BY <1>1, ElementOfSeq
  <2>. QED BY <2>1, SameIsKept
<1>5. ASSUME NEW i \in 1..Len(suites) PROVE SuiteKept(suites[i], suites'[i])
  BY <1>2, <1>3, <1>4 DEF LastSuite
<1>. QED BY <1>1, <1>2, <1>5 DEF TreeKept

LEMMA CaseReplacedKeepsTree ==
  ASSUME IndInv, RunningCase(suites) # 0,
         NEW case \in TestCase, suites' = WithCase(suites, case),
         StepsKept(LastCase.steps, case.steps)
  PROVE  TreeKept
<1>. DEFINE suite == WithLastCase(LastSuite, case)
            n     == Len(LastSuite.cases)
<1>1. /\ RunningSuite(suites) # 0 /\ LastSuite \in TestSuite /\ ~Finished(LastCase)
  BY RunningIsLast
<1>2. /\ suites' = WithSuite(suites, suite) /\ suite \in TestSuite
      /\ Len(suite.cases) = n
      /\ \A j \in 1..n : suite.cases[j] = IF j = n THEN case ELSE LastSuite.cases[j]
  BY WithCaseIsWithSuite
<1>3. n \in Nat /\ \A j \in 1..n : CaseKept(LastSuite.cases[j], LastSuite.cases[j])
  BY <1>1, CaseOf, SameIsKept
<1>4. CaseKept(LastCase, case)
  BY <1>1 DEF CaseKept
<1>. HIDE DEF suite
<1>5. CasesKept(LastSuite.cases, suite.cases)
  <2>1. \A j \in 1..n : CaseKept(LastSuite.cases[j], suite.cases[j])
    BY <1>2, <1>3, <1>4 DEF LastCase
  <2>. HIDE DEF n
  <2>. QED BY <1>2, <1>3, <2>1 DEF CasesKept, n
<1>. QED BY <1>1, <1>2, <1>5, SuiteReplacedKeepsTree

LEMMA TestStartKeepsTree ==
  ASSUME IndInv, NEW name \in Names, OnTestStart(name)
  PROVE  TreeKept
<1>. DEFINE case  == NewCase(name, now)
            cases == Append(LastSuite.cases, case)
            suite == [LastSuite EXCEPT !.cases = cases]
            n     == Len(LastSuite.cases)
<1>1. RunningSuite(suites) # 0 /\ suites' = WithSuite(suites, suite)
  BY TestStartEffect
<1>2. /\ LastSuite \in TestSuite /\ LastSuite.cases \in Seq(TestCase) /\ n \in Nat
      /\ \A j \in 1..n : CaseKept(LastSuite.cases[j], LastSuite.cases[j])
  BY <1>1, RunningIsLast, CaseOf, SameIsKept
<1>3. case \in TestCase
  BY NewItemTypes DEF IndInv, TypeOK
<1>. HIDE DEF case
<1>4. /\ cases \in Seq(TestCase) /\ Len(cases) = n + 1
      /\ \A j \in 1..n : cases[j] = LastSuite.cases[j]
  BY <1>2, <1>3, AppendFacts
<1>. HIDE DEF cases
<1>5. suite \in TestSuite /\ suite.cases = cases
  BY <1>2, <1>4, SuiteWithCases
<1>. HIDE DEF suite
<1>6. CasesKept(LastSuite.cases, cases)
  <2>. HIDE DEF n
  <2>. QED BY <1>2, <1>4 DEF CasesKept, n
<1>. QED BY <1>1, <1>5, <1>6, SuiteReplacedKeepsTree

LEMMA TestEndKeepsTree == IndInv /\ OnTestEnd => TreeKept
<1>. SUFFICES ASSUME IndInv, OnTestEnd PROVE TreeKept
  OBVIOUS
<1>. DEFINE case == Closed(LastCase, now, CaseVerdict)
<1>1. RunningCase(suites) # 0 /\ suites' = WithCase(suites, case)
  BY TestEndEffect
<1>2. LastCase \in TestCase /\ now \in Nat
  BY <1>1, RunningIsLast DEF IndInv, TypeOK
<1>3. case \in TestCase /\ case.steps = LastCase.steps
  BY <1>2, VerdictTypes, ClosedCase
<1>. HIDE DEF case
<1>4. StepsKept(LastCase.steps, case.steps)
  BY <1>2, <1>3, StepOf, SameIsKept
<1>. QED BY <1>1, <1>3, <1>4, CaseReplacedKeepsTree

LEMMA SuiteEndKeepsTree == IndInv /\ OnTestSuiteEnd => TreeKept
<1>. SUFFICES ASSUME IndInv, OnTestSuiteEnd PROVE TreeKept
  OBVIOUS
<1>. DEFINE closed == Closed(LastSuite, now, SuiteVerdict)
            suite  == AddTMSLink(closed, pattern)
<1>1. RunningSuite(suites) # 0 /\ suites' = WithSuite(suites, suite)
  BY SuiteEndEffect
<1>2. LastSuite \in TestSuite /\ now \in Nat /\ pattern \in Patterns
  BY <1>1, RunningIsLast DEF IndInv, TypeOK
<1>3. suite \in TestSuite /\ suite.cases = LastSuite.cases
  <2>1. closed \in TestSuite /\ closed.cases = LastSuite.cases
    BY <1>2, VerdictTypes, ClosedSuite
  <2>. HIDE DEF closed
  <2>. QED BY <1>2, <2>1, TMSLinkFacts
<1>. HIDE DEF suite
<1>4. CasesKept(LastSuite.cases, suite.cases)
  BY <1>2, <1>3, SameIsKept DEF SuiteKept
<1>. QED BY <1>1, <1>3, <1>4, SuiteReplacedKeepsTree

LEMMA StepStartKeepsTree ==
  ASSUME IndInv, NEW type \in StepTypes, StepStart(type)
  PROVE  TreeKept
<1>. DEFINE step  == NewStep(type, now)
            steps == Append(LastCase.steps, step)
            case  == [LastCase EXCEPT !.steps = steps]
            n     == Len(LastCase.steps)
<1>1. RunningCase(suites) # 0 /\ suites' = WithCase(suites, case) /\ type \in StepType
  BY StepStartEffect
<1>2. LastCase \in TestCase /\ LastCase.steps \in Seq(Step) /\ n \in Nat /\ now \in Nat
  BY <1>1, RunningIsLast, StepOf DEF IndInv, TypeOK
<1>3. step \in Step
  <2>1. \E name \in Names : TRUE
    BY <1>2 DEF TestCase
  <2>. QED BY <1>1, <1>2, <2>1, NewItemTypes
<1>. HIDE DEF step
<1>4. /\ steps \in Seq(Step) /\ Len(steps) = n + 1
      /\ \A k \in 1..n : steps[k] = LastCase.steps[k]
  BY <1>2, <1>3, AppendFacts
<1>. HIDE DEF steps
<1>5. case \in TestCase /\ case.steps = steps
  BY <1>2, <1>4, CaseWithSteps
<1>. HIDE DEF case
<1>6. StepsKept(LastCase.steps, steps)
  <2>. HIDE DEF n
  <2>. QED BY <1>2, <1>4 DEF StepsKept, n
<1>. QED BY <1>1, <1>5, <1>6, CaseReplacedKeepsTree

LEMMA StepReturnKeepsTree == IndInv /\ StepReturn => TreeKept
<1>. SUFFICES ASSUME IndInv, StepReturn PROVE TreeKept
  OBVIOUS
<1>. DEFINE n     == Len(LastCase.steps)
            m     == n - (frames + thrown) + 1
            step  == Closed(LastCase.steps[m], now, CurrentTestStatus)
            steps == [LastCase.steps EXCEPT ![m] = step]
            case  == [LastCase EXCEPT !.steps = steps]
<1>1. /\ RunningCase(suites) # 0 /\ suites' = WithCase(suites, case)
      /\ m \in 1..n /\ ~Finished(LastCase.steps[m])
  BY StepReturnEffect
<1>2. LastCase \in TestCase /\ LastCase.steps \in Seq(Step) /\ n \in Nat /\ now \in Nat
  BY <1>1, RunningIsLast, StepOf DEF IndInv, TypeOK
<1>. HIDE DEF m
<1>3. step \in Step
  <2>1. LastCase.steps[m] \in Step
    BY <1>1, <1>2, ElementOfSeq
  <2>. QED BY <1>2, <2>1, VerdictTypes, ClosedStep
<1>. HIDE DEF step
<1>4. /\ steps \in Seq(Step) /\ Len(steps) = n
      /\ \A k \in 1..n : steps[k] = IF k = m THEN step ELSE LastCase.steps[k]
  BY <1>1, <1>2, <1>3, ExceptSeq
<1>. HIDE DEF steps
<1>5. case \in TestCase /\ case.steps = steps
  BY <1>2, <1>4, CaseWithSteps
<1>. HIDE DEF case
<1>6. StepsKept(LastCase.steps, steps)
  <2>. HIDE DEF n
  <2>. QED BY <1>1, <1>2, <1>4 DEF StepsKept, n
<1>. QED BY <1>1, <1>5, <1>6, CaseReplacedKeepsTree

LEMMA SettersKeepTree ==
  ASSUME IndInv, HistoryInv,
         \/ \E property \in SuiteProperties, value \in Names : SetTestSuiteProperty(property, value)
         \/ \E value \in Names : SetTestCaseName(value)
  PROVE  TreeKept
<1>1. ASSUME NEW property \in SuiteProperties, NEW value \in Names,
             SetTestSuiteProperty(property, value)
      PROVE  TreeKept
  <2>. DEFINE suite == WithText(LastSuite, property, value)
  <2>1. RunningSuite(suites) # 0 /\ suites' = WithSuite(suites, suite)
    BY <1>1, SetSuitePropertyEffect
  <2>2. LastSuite \in TestSuite /\ LabelsOnce(LastSuite.labels)
    <3>1. LastSuite \in TestSuite /\ Len(suites) # 0
      BY <2>1, RunningIsLast
    <3>2. Len(suites) \in 1..Len(suites)
      BY <3>1, LenProperties DEF IndInv, TypeOK
    <3>. QED BY <3>1, <3>2 DEF HistoryInv, TreeHistory, SuiteHistory, LastSuite
  <2>3. suite \in TestSuite /\ suite.cases = LastSuite.cases
    BY <2>2, WithTextFacts
  <2>. HIDE DEF suite
  <2>4. CasesKept(LastSuite.cases, suite.cases)
    BY <2>2, <2>3, SameIsKept DEF SuiteKept
  <2>. QED BY <2>1, <2>3, <2>4, SuiteReplacedKeepsTree
<1>2. ASSUME NEW value \in Names, SetTestCaseName(value)
      PROVE  TreeKept
  <2>. DEFINE case == [LastCase EXCEPT !.name = value]
  <2>1. RunningCase(suites) # 0 /\ suites' = WithCase(suites, case)
    BY <1>2, SetCaseNameEffect
  <2>2. LastCase \in TestCase
    BY <2>1, RunningIsLast
  <2>3. case \in TestCase /\ case.steps = LastCase.steps
    BY <2>2, CaseWithName
  <2>. HIDE DEF case
  <2>4. StepsKept(LastCase.steps, case.steps)
    BY <2>2, <2>3, StepOf, SameIsKept
  <2>. QED BY <2>1, <2>3, <2>4, CaseReplacedKeepsTree
<1>. QED BY <1>1, <1>2

LEMMA SuiteStartKeepsTree ==
  ASSUME IndInv, NEW name \in Names, OnTestSuiteStart(name)
  PROVE  TreeKept
<1>. DEFINE suite == NewSuite(Len(suites) + 1, name, format, now)
<1>1. /\ suites \in Seq(TestSuite) /\ Len(suites) \in Nat /\ format \in Format /\ now \in Nat
      /\ suites' = Append(suites, suite)
  BY LenProperties DEF IndInv, TypeOK, OnTestSuiteStart, HandleTestSuiteStart, FreshUUID
<1>2. suite \in TestSuite
  BY <1>1, NewItemTypes
<1>. HIDE DEF suite
<1>3. Len(suites') = Len(suites) + 1 /\ \A i \in 1..Len(suites) : suites'[i] = suites[i]
  BY <1>1, <1>2, AppendFacts
<1>4. \A i \in 1..Len(suites) : SuiteKept(suites[i], suites[i])
  <2>1. \A i \in 1..Len(suites) : suites[i] \in TestSuite
    BY <1>1, ElementOfSeq
  <2>. QED BY <2>1, SameIsKept
<1>. QED BY <1>1, <1>3, <1>4 DEF TreeKept

\* The calls that leave the tree as it is.
TreeUntouched ==
  \/ OnTestProgramEndDisabled
  \/ \E n \in 0..Len(suites) : OnTestProgramEnd(n)
  \/ \E n \in 1..frames : StepThrow(n)
  \/ Configure \/ FailAssertion \/ SkipTest \/ OtherListenerThrows \/ Tick
  \/ UNCHANGED vars

LEMMA UntouchedTree == TreeUntouched => UNCHANGED suites
BY DEF TreeUntouched, OnTestProgramEndDisabled, OnTestProgramEnd, StepThrow, Configure,
       FailAssertion, SkipTest, OtherListenerThrows, Tick, vars

LEMMA NextKeepsTree == IndInv /\ HistoryInv /\ [Next]_vars => suites' = <<>> \/ TreeKept
<1>. SUFFICES ASSUME IndInv, HistoryInv, [Next]_vars PROVE suites' = <<>> \/ TreeKept
  OBVIOUS
<1>1. CASE OnTestProgramStart
  BY <1>1 DEF OnTestProgramStart, HandleTestProgramStart
<1>2. CASE \E name \in Names : OnTestSuiteStart(name) \/ OnTestStart(name)
  BY <1>2, SuiteStartKeepsTree, TestStartKeepsTree
<1>3. CASE OnTestEnd
  BY <1>3, TestEndKeepsTree
<1>4. CASE OnTestSuiteEnd
  BY <1>4, SuiteEndKeepsTree
<1>5. CASE \E type \in StepTypes : StepStart(type)
  BY <1>5, StepStartKeepsTree
<1>6. CASE StepReturn
  BY <1>6, StepReturnKeepsTree
<1>7. CASE \/ \E property \in SuiteProperties, value \in Names : SetTestSuiteProperty(property, value)
           \/ \E value \in Names : SetTestCaseName(value)
  BY <1>7, SettersKeepTree
<1>8. CASE TreeUntouched
  <2>1. \A i \in 1..Len(suites) : suites[i] \in TestSuite
    BY ElementOfSeq DEF IndInv, TypeOK
  <2>2. Len(suites) \in Nat /\ suites' = suites
    BY <1>8, UntouchedTree, LenProperties DEF IndInv, TypeOK
  <2>. QED BY <2>1, <2>2, SameIsKept DEF TreeKept
<1>. QED
  BY <1>1, <1>2, <1>3, <1>4, <1>5, <1>6, <1>7, <1>8 DEF Next, TreeUntouched

\* What is finished is never changed again: neither by the search of a later
\* handler, nor by a setter called after the run was cut short.
THEOREM FinishedStaysFrozen == Spec => FinishedIsFrozen
<1>1. IndInv /\ HistoryInv /\ [Next]_vars =>
        [\/ suites' = <<>>
         \/ \A i \in 1..Len(suites) :
              /\ i <= Len(suites')
              /\ Finished(suites[i]) => suites'[i] = suites[i]
              /\ \A j \in 1..Len(suites[i].cases) :
                   /\ j <= Len(suites'[i].cases)
                   /\ Finished(suites[i].cases[j]) => suites'[i].cases[j] = suites[i].cases[j]
                   /\ \A k \in 1..Len(suites[i].cases[j].steps) :
                        /\ k <= Len(suites'[i].cases[j].steps)
                        /\ Finished(suites[i].cases[j].steps[k]) =>
                             suites'[i].cases[j].steps[k] = suites[i].cases[j].steps[k]]_vars
  BY NextKeepsTree DEF TreeKept, SuiteKept, CasesKept, CaseKept, StepsKept
<1>. QED BY <1>1, InvariantHolds, HistoryHolds, PTL DEF Spec, FinishedIsFrozen

-----------------------------------------------------------------------------
(***************************************************************************)
(* The end of a run.                                                       *)
(***************************************************************************)
LEMMA SavedAll ==
  ASSUME IndInv
  PROVE  /\ Len(Saved(Len(suites))) = Len(suites)
         /\ \A i \in 1..Len(suites) : /\ Saved(Len(suites))[i].uuid \subseteq {suites[i].uuid}
                                      /\ Saved(Len(suites))[i].name = suites[i].name
<1>1. Len(suites) \in Nat
  BY LenProperties DEF IndInv, TypeOK
<1>2. \A i \in 1..Len(suites) : Saved(Len(suites))[i] = SuiteDoc(suites[i])
  BY <1>1 DEF Saved
<1>3. \A i \in 1..Len(suites) : /\ SuiteDoc(suites[i]).uuid \subseteq {suites[i].uuid}
                                /\ SuiteDoc(suites[i]).name = suites[i].name
  BY DEF SuiteDoc
<1>4. Len(Saved(Len(suites))) = Len(suites)
  BY <1>1 DEF Saved
<1>. QED BY <1>2, <1>3, <1>4

\* A run that ends without an exception has written every suite, in order.
THEOREM EveryRunPublishesItsSuites == Spec => RunPublishesEverySuite
<1>1. ASSUME IndInv, [Next]_vars,
             phase = "Program", phase' = "Idle", error' = "none", legacyResults
      PROVE  /\ Len(files') = Len(suites)
             /\ \A i \in 1..Len(suites) : /\ files'[i].uuid \subseteq {suites[i].uuid}
                                          /\ files'[i].name = suites[i].name
  <2>1. PICK n \in 0..Len(suites) : OnTestProgramEnd(n)
    BY <1>1
       DEF Next, vars, gtestVars, OnTestProgramStart, OnTestSuiteStart, OnTestStart, OnTestEnd,
           OnTestSuiteEnd, OnTestProgramEndDisabled, StepStart, StepReturn, StepThrow,
           SetTestSuiteProperty, SetTestCaseName, Configure, FailAssertion, SkipTest,
           OtherListenerThrows, Tick, GProgramStart, GSuiteStart, GFailInTest, GFailInSuite, GSkip
  <2>2. n = Len(suites) /\ files' = Saved(n)
    BY <1>1, <2>1 DEF OnTestProgramEnd
  <2>. QED BY <1>1, <2>2, SavedAll
<1>2. IndInv /\ [Next]_vars =>
        [phase = "Program" /\ phase' = "Idle" /\ error' = "none" /\ legacyResults =>
           /\ Len(files') = Len(suites)
           /\ \A i \in 1..Len(suites) : /\ files'[i].uuid \subseteq {suites[i].uuid}
                                        /\ files'[i].name = suites[i].name]_vars
  BY <1>1
<1>. QED BY <1>2, InvariantHolds, PTL DEF Spec, RunPublishesEverySuite
=============================================================================
