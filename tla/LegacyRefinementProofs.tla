------------------------ MODULE LegacyRefinementProofs ------------------------
(***************************************************************************)
(* LegacyReport implements ReportLog, for every bound and every set of     *)
(* names, labels and patterns: each call is one operation of the abstract  *)
(* log or leaves the log as it is.                                         *)
(***************************************************************************)
EXTENDS LegacyRefinesLog, LegacyHistoryProofs

(***************************************************************************)
(* Facts about the mapping's operators.                                    *)
(***************************************************************************)
LEMMA OpenItemFacts ==
  ASSUME NEW S, NEW items \in Seq(S)
  PROVE  /\ items = <<>> <=> Len(items) = 0
         /\ Len(items) = 0 => OpenItem(items) = <<>> /\ ClosedLen(items) = 0
         /\ Len(items) # 0 /\ Finished(items[Len(items)]) =>
              OpenItem(items) = <<>> /\ ClosedLen(items) = Len(items)
         /\ Len(items) # 0 /\ ~Finished(items[Len(items)]) =>
              /\ OpenItem(items) # <<>> /\ OpenItem(items)[1] = items[Len(items)]
              /\ ClosedLen(items) = Len(items) - 1
<1>1. Len(items) \in Nat /\ (items = <<>> <=> Len(items) = 0)
  BY LenProperties, EmptySeq
<1>. QED BY <1>1, EmptySeq DEF OpenItem, ClosedLen

\* A closed prefix of n steps counts n closed steps.
LEMMA ClosedPrefix ==
  ASSUME NEW S, NEW steps \in Seq(S), NEW n \in 0..Len(steps),
         \A k \in 1..Len(steps) : Finished(steps[k]) <=> k <= n
  PROVE  ClosedSteps(steps) = n
<1>1. Len(steps) \in Nat /\ DOMAIN steps = 1..Len(steps)
  BY LenProperties
<1>2. { k \in DOMAIN steps : Finished(steps[k]) } = 1..n
  BY <1>1
<1>3. Cardinality(1..n) = n
  <2>1. n \in Int /\ 1 \in Int
    BY <1>1
  <2>2. Cardinality(1..n) = IF 1 > n THEN 0 ELSE n - 1 + 1
    BY <2>1, FS_Interval
  <2>. QED BY <1>1, <2>2
<1>. QED BY <1>2, <1>3 DEF ClosedSteps

\* A sequence that goes on where another one ends.
LEMMA OneMore ==
  ASSUME NEW S, NEW n \in Nat, NEW s \in [1..n -> S], NEW t \in [1..(n + 1) -> S],
         \A i \in 1..n : t[i] = s[i]
  PROVE  t = Append(s, t[n + 1])
<1>1. s \in Seq(S) /\ Len(s) = n /\ t \in Seq(S) /\ Len(t) = n + 1 /\ t[n + 1] \in S
  OBVIOUS
<1>2. /\ Append(s, t[n + 1]) \in Seq(S)
      /\ Len(Append(s, t[n + 1])) = n + 1
      /\ Append(s, t[n + 1])[n + 1] = t[n + 1]
      /\ \A i \in 1..n : Append(s, t[n + 1])[i] = s[i]
  BY <1>1, AppendFacts
<1>3. \A i \in 1..(n + 1) : i \in 1..n \/ i = n + 1
  OBVIOUS
<1>4. \A i \in 1..(n + 1) : t[i] = Append(s, t[n + 1])[i]
  BY <1>2, <1>3
<1>. QED BY <1>1, <1>2, <1>4, SeqEqual

(***************************************************************************)
(* The log of a tree whose last suite, or whose last case, is replaced.    *)
(***************************************************************************)
LEMMA SuiteReplacedLog ==
  ASSUME IndInv, RunningSuite(suites) # 0,
         NEW suite \in TestSuite, suites' = WithSuite(suites, suite)
  PROVE  /\ OpenSuite(suites) = <<SuiteLog(LastSuite)>>
         /\ OpenCases(suites) = OpenItem(LastSuite.cases)
         /\ ~Finished(suite) => /\ ClosedSuites(suites') = ClosedSuites(suites)
                                /\ OpenSuite(suites') = <<SuiteLog(suite)>>
                                /\ OpenCases(suites') = OpenItem(suite.cases)
         /\ Finished(suite) =>
              /\ ClosedSuites(suites') = Append(ClosedSuites(suites), SuiteLog(suite))
              /\ OpenSuite(suites') = <<>>
              /\ OpenCases(suites') = <<>>
<1>. DEFINE n == Len(suites)
<1>1. /\ suites \in Seq(TestSuite) /\ n \in Nat /\ n # 0 /\ n \in 1..n
      /\ RunningSuite(suites) = n /\ LastSuite = suites[n] /\ ~Finished(LastSuite)
  BY RunningIsLast, LenProperties DEF IndInv, TypeOK, LastSuite
<1>2. /\ suites' \in Seq(TestSuite) /\ Len(suites') = n
      /\ \A i \in 1..n : suites'[i] = IF i = n THEN suite ELSE suites[i]
  BY <1>1, WithSuiteFacts
<1>3. suites'[n] = suite /\ \A i \in 1..(n - 1) : suites'[i] = suites[i]
  <2>1. \A i \in 1..(n - 1) : i \in 1..n /\ i # n
    BY <1>1
  <2>. QED BY <1>1, <1>2, <2>1
<1>4. /\ OpenItem(suites) # <<>> /\ OpenItem(suites)[1] = LastSuite
      /\ ClosedLen(suites) = n - 1
  BY <1>1, OpenItemFacts
<1>5. /\ ~Finished(suite) => /\ OpenItem(suites') # <<>> /\ OpenItem(suites')[1] = suite
                             /\ ClosedLen(suites') = n - 1
      /\ Finished(suite) => OpenItem(suites') = <<>> /\ ClosedLen(suites') = n
  BY <1>1, <1>2, <1>3, OpenItemFacts
<1>. HIDE DEF n
<1>6. ~Finished(suite) => ClosedSuites(suites') = ClosedSuites(suites)
  BY <1>3, <1>4, <1>5 DEF ClosedSuites
<1>7. ASSUME Finished(suite)
      PROVE  ClosedSuites(suites') = Append(ClosedSuites(suites), SuiteLog(suite))
  <2>. DEFINE s == ClosedSuites(suites)
              t == ClosedSuites(suites')
              m == n - 1
  <2>1. m \in Nat /\ m + 1 = n
    BY <1>1
  <2>2. s = [i \in 1..m |-> SuiteLog(suites[i])] /\ t = [i \in 1..n |-> SuiteLog(suites'[i])]
    BY <1>4, <1>5, <1>7 DEF ClosedSuites
  <2>3. \A i \in 1..m : i \in 1..n
    BY <1>1
  <2>4. t[n] = SuiteLog(suite) /\ \A i \in 1..m : t[i] = s[i]
    BY <1>1, <1>3, <2>2, <2>3
  <2>. HIDE DEF s, t, m
  <2>. DEFINE S == { t[i] : i \in 1..n }
  <2>5. s \in [1..m -> S] /\ t \in [1..(m + 1) -> S]
    BY <2>1, <2>2, <2>3, <2>4
  <2>. HIDE DEF S
  <2>6. t = Append(s, t[m + 1])
    BY <2>1, <2>3, <2>4, <2>5, OneMore
  <2>. QED BY <2>1, <2>4, <2>6 DEF s, t
<1>. QED BY <1>4, <1>5, <1>6, <1>7 DEF OpenSuite, OpenCases

LEMMA CaseReplacedLog ==
  ASSUME IndInv, RunningCase(suites) # 0,
         NEW case \in TestCase, suites' = WithCase(suites, case)
  PROVE  /\ OpenSuite(suites) = <<SuiteLog(LastSuite)>>
         /\ OpenCase(suites) = <<CaseLog(LastCase)>>
         /\ ClosedSuites(suites') = ClosedSuites(suites)
         /\ ~Finished(case) => /\ OpenSuite(suites') = OpenSuite(suites)
                               /\ OpenCase(suites') = <<CaseLog(case)>>
         /\ Finished(case) =>
              /\ OpenSuite(suites') =
                   <<[SuiteLog(LastSuite) EXCEPT !.cases = Append(@, CaseLog(case))]>>
              /\ OpenCase(suites') = <<>>
<1>. DEFINE suite == WithLastCase(LastSuite, case)
            n     == Len(LastSuite.cases)
<1>1. /\ RunningSuite(suites) # 0 /\ LastSuite \in TestSuite /\ ~Finished(LastSuite)
      /\ n # 0 /\ LastCase = LastSuite.cases[n] /\ ~Finished(LastCase)
  BY RunningIsLast DEF LastCase
<1>2. /\ suites' = WithSuite(suites, suite) /\ suite \in TestSuite
      /\ Len(suite.cases) = n
      /\ \A j \in 1..n : suite.cases[j] = IF j = n THEN case ELSE LastSuite.cases[j]
  BY WithCaseIsWithSuite
<1>3. /\ suite.name = LastSuite.name /\ suite.tmsId = LastSuite.tmsId
      /\ suite.status = LastSuite.status /\ suite.labels = LastSuite.labels
      /\ suite.stage = LastSuite.stage
  BY <1>1 DEF WithLastCase, TestSuite
<1>4. /\ LastSuite.cases \in Seq(TestCase) /\ suite.cases \in Seq(TestCase)
      /\ n \in Nat /\ n \in 1..n
  BY <1>1, <1>2, CaseOf
<1>. HIDE DEF suite
<1>5. suite.cases[n] = case /\ \A j \in 1..(n - 1) : suite.cases[j] = LastSuite.cases[j]
  <2>1. \A j \in 1..(n - 1) : j \in 1..n /\ j # n
    BY <1>4
  <2>. QED BY <1>2, <1>4, <2>1
<1>6. /\ OpenItem(LastSuite.cases) # <<>> /\ OpenItem(LastSuite.cases)[1] = LastCase
      /\ ClosedLen(LastSuite.cases) = n - 1
  BY <1>1, <1>4, OpenItemFacts
<1>7. /\ ~Finished(case) => /\ OpenItem(suite.cases) # <<>> /\ OpenItem(suite.cases)[1] = case
                            /\ ClosedLen(suite.cases) = n - 1
      /\ Finished(case) => OpenItem(suite.cases) = <<>> /\ ClosedLen(suite.cases) = n
  BY <1>1, <1>2, <1>4, <1>5, OpenItemFacts
<1>. HIDE DEF n
<1>8. ~Finished(case) => SuiteLog(suite) = SuiteLog(LastSuite)
  BY <1>3, <1>5, <1>6, <1>7 DEF SuiteLog, CasesLog
<1>9. ASSUME Finished(case)
      PROVE  SuiteLog(suite) = [SuiteLog(LastSuite) EXCEPT !.cases = Append(@, CaseLog(case))]
  <2>. DEFINE s == [j \in 1..(n - 1) |-> CaseLog(LastSuite.cases[j])]
              t == [j \in 1..n |-> CaseLog(suite.cases[j])]
              m == n - 1
  <2>1. m \in Nat /\ m + 1 = n
    BY <1>1, <1>4
  <2>2. \A j \in 1..m : j \in 1..n
    BY <1>4
  <2>3. t[n] = CaseLog(case) /\ \A j \in 1..m : t[j] = s[j]
    BY <1>4, <1>5, <2>2
  <2>. DEFINE S == { t[j] : j \in 1..n }
  <2>4. s \in [1..m -> S] /\ t \in [1..(m + 1) -> S]
    BY <2>1, <2>2, <2>3
  <2>5. SuiteLog(LastSuite).cases = s /\ SuiteLog(suite).cases = t
    BY <1>6, <1>7, <1>9 DEF SuiteLog, CasesLog
  <2>. HIDE DEF s, t, m, S
  <2>6. t = Append(s, t[m + 1])
    BY <2>1, <2>3, <2>4, OneMore
  <2>7. SuiteLog(suite) = [SuiteLog(LastSuite) EXCEPT !.cases = t]
    BY <1>3, <2>5 DEF SuiteLog
  <2>. QED BY <2>1, <2>3, <2>5, <2>6, <2>7
<1>10. ~Finished(suite)
  BY <1>1, <1>3 DEF Finished
<1>11. /\ OpenSuite(suites) = <<SuiteLog(LastSuite)>>
       /\ OpenCases(suites) = OpenItem(LastSuite.cases)
       /\ ClosedSuites(suites') = ClosedSuites(suites)
       /\ OpenSuite(suites') = <<SuiteLog(suite)>>
       /\ OpenCases(suites') = OpenItem(suite.cases)
  BY <1>1, <1>2, <1>10, SuiteReplacedLog
<1>. QED BY <1>6, <1>7, <1>8, <1>9, <1>11 DEF OpenCase

-----------------------------------------------------------------------------
(***************************************************************************)
(* The logs of new and of changed cases and suites.                        *)
(***************************************************************************)
LEMMA NewCaseLog ==
  ASSUME NEW name, NEW t
  PROVE  CaseLog(NewCase(name, t)) = [name |-> name, steps |-> <<>>, pending |-> 0,
                                      verdict |-> "UNKNOWN"]
<1>1. <<>> \in Seq(Step) /\ Len(<<>>) = 0
  BY EmptySeq
<1>2. StepsLog(<<>>) = <<>> /\ Pending(<<>>) = 0
  <2>1. ClosedSteps(<<>>) = 0
    <3>1. { k \in DOMAIN <<>> : Finished(<<>>[k]) } = {}
      OBVIOUS
    <3>. QED BY <3>1, FS_EmptySet DEF ClosedSteps
  <2>. QED BY <1>1, <2>1 DEF StepsLog, Pending
<1>3. /\ NewCase(name, t).steps = <<>> /\ NewCase(name, t).name = name
      /\ NewCase(name, t).status = "UNKNOWN"
  BY DEF NewCase
<1>. QED BY <1>2, <1>3 DEF CaseLog

LEMMA ClosedCaseLog ==
  ASSUME NEW case \in TestCase, NEW t, NEW verdict
  PROVE  CaseLog(Closed(case, t, verdict)) = [CaseLog(case) EXCEPT !.verdict = verdict]
<1>. DEFINE new == Closed(case, t, verdict)
<1>1. new.steps = case.steps /\ new.name = case.name /\ new.status = verdict
  BY DEF Closed, TestCase
<1>. HIDE DEF new
<1>2. CaseLog(new) = [CaseLog(case) EXCEPT !.verdict = verdict]
  BY <1>1 DEF CaseLog
<1>. QED BY <1>2 DEF new

LEMMA RenamedCaseLog ==
  ASSUME NEW case \in TestCase, NEW name
  PROVE  CaseLog([case EXCEPT !.name = name]) = [CaseLog(case) EXCEPT !.name = name]
<1>. DEFINE new == [case EXCEPT !.name = name]
<1>1. new.steps = case.steps /\ new.name = name /\ new.status = case.status
  BY DEF TestCase
<1>. HIDE DEF new
<1>2. CaseLog(new) = [CaseLog(case) EXCEPT !.name = name]
  BY <1>1 DEF CaseLog
<1>. QED BY <1>2 DEF new

\* An open step is added behind a closed prefix of p steps.
LEMMA StepAddedLog ==
  ASSUME NEW case \in TestCase, NEW step \in Step, ~Finished(step),
         NEW p \in 0..Len(case.steps),
         \A k \in 1..Len(case.steps) : Finished(case.steps[k]) <=> k <= p
  PROVE  CaseLog([case EXCEPT !.steps = Append(case.steps, step)])
           = [CaseLog(case) EXCEPT !.pending = @ + 1]
<1>. DEFINE n     == Len(case.steps)
            steps == Append(case.steps, step)
            new   == [case EXCEPT !.steps = steps]
<1>1. case.steps \in Seq(Step) /\ n \in Nat
  BY StepOf
<1>2. /\ steps \in Seq(Step) /\ Len(steps) = n + 1 /\ steps[n + 1] = step
      /\ \A k \in 1..n : steps[k] = case.steps[k]
  BY <1>1, AppendFacts
<1>3. new.steps = steps /\ new.name = case.name /\ new.status = case.status
  BY DEF TestCase
<1>. HIDE DEF steps, new
<1>4. ClosedSteps(case.steps) = p
  BY <1>1, ClosedPrefix
<1>5. ClosedSteps(steps) = p
  <2>1. p \in 0..Len(steps)
    BY <1>1, <1>2
  <2>2. ASSUME NEW k \in 1..Len(steps) PROVE Finished(steps[k]) <=> k <= p
    <3>1. CASE k = n + 1
      BY <1>1, <1>2, <3>1
    <3>2. CASE k # n + 1
      <4>1. k \in 1..n
        <5>. HIDE DEF n
        <5>. QED BY <1>1, <1>2, <3>2
      <4>. QED BY <1>2, <4>1
    <3>. QED BY <3>1, <3>2
  <2>. QED BY <1>2, <2>1, <2>2, ClosedPrefix
<1>6. \A k \in 1..p : steps[k] = case.steps[k]
  BY <1>1, <1>2
<1>7. StepsLog(steps) = StepsLog(case.steps)
  BY <1>4, <1>5, <1>6 DEF StepsLog
<1>8. Pending(steps) = Pending(case.steps) + 1
  <2>1. Pending(steps) = n + 1 - p /\ Pending(case.steps) = n - p
    BY <1>2, <1>4, <1>5 DEF Pending
  <2>. QED BY <1>1, <2>1
<1>9. CaseLog(new) = [CaseLog(case) EXCEPT !.pending = @ + 1]
  BY <1>3, <1>7, <1>8 DEF CaseLog
<1>. QED BY <1>9 DEF new, steps

\* The first step behind a closed prefix is closed.
LEMMA StepClosedLog ==
  ASSUME NEW case \in TestCase, NEW m \in 1..Len(case.steps), NEW step \in Step, Finished(step),
         \A k \in 1..Len(case.steps) : Finished(case.steps[k]) <=> k < m
  PROVE  /\ CaseLog([case EXCEPT !.steps = [case.steps EXCEPT ![m] = step]])
              = [CaseLog(case) EXCEPT !.pending = @ - 1, !.steps = Append(@, step.status)]
         /\ CaseLog(case).pending \in Nat /\ CaseLog(case).pending > 0
<1>. DEFINE n     == Len(case.steps)
            p     == m - 1
            steps == [case.steps EXCEPT ![m] = step]
            new   == [case EXCEPT !.steps = steps]
            S     == { steps[k].status : k \in 1..m }
<1>1. case.steps \in Seq(Step) /\ n \in Nat /\ m \in 1..n
  BY StepOf
<1>2. /\ steps \in Seq(Step) /\ Len(steps) = n
      /\ \A k \in 1..n : steps[k] = IF k = m THEN step ELSE case.steps[k]
  BY <1>1, ExceptSeq
<1>3. new.steps = steps /\ new.name = case.name /\ new.status = case.status
  BY DEF TestCase
<1>. HIDE DEF steps, new, n
<1>4. p \in 0..n /\ p \in Nat /\ p + 1 = m
  BY <1>1
<1>5. ClosedSteps(case.steps) = p
  <2>1. \A k \in 1..n : Finished(case.steps[k]) <=> k <= p
    BY <1>1 DEF n
  <2>. HIDE DEF p
  <2>. QED BY <1>1, <1>4, <2>1, ClosedPrefix DEF n
<1>6. ClosedSteps(steps) = m
  <2>1. \A k \in 1..n : Finished(steps[k]) <=> k <= m
    BY <1>1, <1>2 DEF n
  <2>2. m \in 0..Len(steps)
    BY <1>1, <1>2
  <2>. QED BY <1>2, <2>1, <2>2, ClosedPrefix
<1>7. steps[m] = step /\ \A k \in 1..p : steps[k] = case.steps[k]
  BY <1>1, <1>2
<1>8. StepsLog(steps) = Append(StepsLog(case.steps), step.status)
  <2>. DEFINE s == StepsLog(case.steps)
              t == StepsLog(steps)
  <2>1. s = [k \in 1..p |-> case.steps[k].status] /\ t = [k \in 1..m |-> steps[k].status]
    BY <1>5, <1>6 DEF StepsLog
  <2>. HIDE DEF s, t
  <2>2. \A k \in 1..p : k \in 1..m
    BY <1>1
  <2>3. \A k \in 1..p : t[k] = s[k]
    BY <1>7, <2>1, <2>2
  <2>4. t[m] = step.status
    BY <1>1, <1>7, <2>1
  <2>5. t \in [1..(p + 1) -> S]
    BY <1>4, <2>1
  <2>6. s \in [1..p -> S]
    BY <1>7, <2>1, <2>2
  <2>. HIDE DEF S, p
  <2>7. t = Append(s, t[p + 1])
    BY <1>4, <2>3, <2>5, <2>6, OneMore
  <2>. QED BY <1>4, <2>4, <2>7 DEF s, t
<1>9. /\ Pending(steps) = Pending(case.steps) - 1
      /\ Pending(case.steps) \in Nat /\ Pending(case.steps) > 0
  <2>1. Pending(steps) = n - m /\ Pending(case.steps) = n - p
    BY <1>2, <1>5, <1>6 DEF Pending, n
  <2>. QED BY <1>1, <2>1
<1>10. CaseLog(new) = [CaseLog(case) EXCEPT !.pending = @ - 1, !.steps = Append(@, step.status)]
  <2>. DEFINE l == CaseLog(case)
              x == l.pending - 1
              y == Append(l.steps, step.status)
  <2>1. l.pending = Pending(case.steps) /\ l.steps = StepsLog(case.steps)
    BY DEF CaseLog
  <2>2. CaseLog(new) = [name |-> case.name, verdict |-> case.status, steps |-> y, pending |-> x]
    BY <1>3, <1>8, <1>9, <2>1 DEF CaseLog
  <2>. HIDE DEF x, y
  <2>. DEFINE z == [l EXCEPT !.pending = x]
  <2>. HIDE DEF l
  <2>4. [l EXCEPT !.pending = x, !.steps = y] = [z EXCEPT !.steps = y]
    OBVIOUS
  <2>5. z = [name |-> case.name, verdict |-> case.status, steps |-> StepsLog(case.steps),
             pending |-> x]
    BY DEF l, CaseLog
  <2>. HIDE DEF z
  <2>6. [z EXCEPT !.steps = y]
          = [name |-> case.name, verdict |-> case.status, steps |-> y, pending |-> x]
    BY <2>5
  <2>7. CaseLog(new) = [l EXCEPT !.pending = x, !.steps = y]
    BY <2>2, <2>4, <2>6
  <2>. QED BY <2>7 DEF x, y, l
<1>11. CaseLog(case).pending = Pending(case.steps)
  BY DEF CaseLog
<1>. QED BY <1>9, <1>10, <1>11 DEF new, steps

-----------------------------------------------------------------------------
LEMMA NewSuiteLog ==
  ASSUME NEW uuid, NEW name, NEW fmt, NEW t
  PROVE  SuiteLog(NewSuite(uuid, name, fmt, t)) =
           [name |-> name, tmsId |-> name, labels |-> <<>>, cases |-> <<>>, verdict |-> "UNKNOWN"]
<1>. DEFINE s == NewSuite(uuid, name, fmt, t)
<1>1. /\ s.name = name /\ s.tmsId = name /\ s.labels = <<>> /\ s.cases = <<>>
      /\ s.status = "UNKNOWN"
  BY DEF NewSuite
<1>. HIDE DEF s
<1>2. LabelsOf(<<>>) = <<>>
  BY DEF LabelsOf
<1>3. ClosedLen(<<>>) = 0
  BY EmptySeq, OpenItemFacts
<1>4. CasesLog(<<>>) = <<>>
  BY <1>3 DEF CasesLog
<1>5. SuiteLog(s) = [name |-> name, tmsId |-> name, labels |-> <<>>, cases |-> <<>>,
                     verdict |-> "UNKNOWN"]
  BY <1>1, <1>2, <1>4 DEF SuiteLog
<1>. QED BY <1>5 DEF s

\* Closing a suite, with or without its link, gives it a verdict.
LEMMA ClosedSuiteLog ==
  ASSUME NEW suite \in TestSuite, NEW t \in Nat, NEW verdict \in Status, NEW tmsPattern \in Patterns
  PROVE  LET new == AddTMSLink(Closed(suite, t, verdict), tmsPattern)
         IN  /\ SuiteLog(new) = [SuiteLog(suite) EXCEPT !.verdict = verdict]
             /\ new \in TestSuite /\ Finished(new)
<1>. DEFINE closed == Closed(suite, t, verdict)
            new    == AddTMSLink(closed, tmsPattern)
<1>1. closed \in TestSuite /\ closed.stage = "FINISHED"
  BY ClosedSuite
<1>2. /\ closed.name = suite.name /\ closed.tmsId = suite.tmsId /\ closed.labels = suite.labels
      /\ closed.cases = suite.cases /\ closed.status = verdict
  BY DEF Closed, TestSuite
<1>. HIDE DEF closed
<1>3. new \in TestSuite /\ new.stage = "FINISHED" /\ new.cases = suite.cases
  BY <1>1, <1>2, TMSLinkFacts
<1>4. /\ new.name = suite.name /\ new.tmsId = suite.tmsId /\ new.labels = suite.labels
      /\ new.status = verdict
  BY <1>1, <1>2 DEF AddTMSLink, TestSuite
<1>. HIDE DEF new
<1>5. SuiteLog(new) = [SuiteLog(suite) EXCEPT !.verdict = verdict]
  BY <1>3, <1>4 DEF SuiteLog
<1>6. Finished(new)
  BY <1>3 DEF Finished
<1>. QED BY <1>3, <1>5, <1>6 DEF new, closed

\* A case that starts is not in its suite's log yet: it is the open case.
LEMMA CaseAddedLog ==
  ASSUME NEW suite \in TestSuite, NEW case \in TestCase, ~Finished(case),
         \A j \in 1..Len(suite.cases) : Finished(suite.cases[j])
  PROVE  LET new == [suite EXCEPT !.cases = Append(suite.cases, case)]
         IN  /\ SuiteLog(new) = SuiteLog(suite)
             /\ OpenItem(suite.cases) = <<>>
             /\ OpenItem(new.cases) # <<>> /\ OpenItem(new.cases)[1] = case
<1>. DEFINE n     == Len(suite.cases)
            cases == Append(suite.cases, case)
            new   == [suite EXCEPT !.cases = cases]
<1>1. suite.cases \in Seq(TestCase) /\ n \in Nat
  BY CaseOf
<1>2. /\ cases \in Seq(TestCase) /\ Len(cases) = n + 1 /\ cases[n + 1] = case
      /\ \A j \in 1..n : cases[j] = suite.cases[j]
  BY <1>1, AppendFacts
<1>3. /\ new.cases = cases /\ new.name = suite.name /\ new.tmsId = suite.tmsId
      /\ new.labels = suite.labels /\ new.status = suite.status
  BY DEF TestSuite
<1>. HIDE DEF cases, new
<1>4. OpenItem(suite.cases) = <<>> /\ ClosedLen(suite.cases) = n
  <2>1. n # 0 => Finished(suite.cases[n])
    BY <1>1
  <2>. QED BY <1>1, <2>1, OpenItemFacts
<1>5. OpenItem(cases) # <<>> /\ OpenItem(cases)[1] = case /\ ClosedLen(cases) = n
  <2>1. Len(cases) # 0 /\ Len(cases) - 1 = n
    BY <1>1, <1>2
  <2>. QED BY <1>2, <2>1, OpenItemFacts
<1>6. CasesLog(cases) = CasesLog(suite.cases)
  <2>. HIDE DEF n
  <2>. QED BY <1>2, <1>4, <1>5 DEF CasesLog
<1>7. SuiteLog(new) = SuiteLog(suite)
  BY <1>3, <1>6 DEF SuiteLog
<1>8. OpenItem(new.cases) = OpenItem(cases)
  BY <1>3
<1>. QED BY <1>4, <1>5, <1>7, <1>8 DEF new, cases

(***************************************************************************)
(* Labels that occur once are a function, and adding one updates it.       *)
(***************************************************************************)
LEMMA LabelsOfFacts ==
  ASSUME NEW labels \in Seq(Label), LabelsOnce(labels)
  PROVE  /\ DOMAIN LabelsOf(labels) = { labels[i].name : i \in 1..Len(labels) }
         /\ \A i \in 1..Len(labels) : LabelsOf(labels)[labels[i].name] = labels[i].value
<1>1. DOMAIN labels = 1..Len(labels)
  BY LenProperties
<1>2. ASSUME NEW i \in 1..Len(labels)
      PROVE  LabelsOf(labels)[labels[i].name] = labels[i].value
  <2>. DEFINE l == labels[i].name
              I == { j \in 1..Len(labels) : labels[j].name = l }
  <2>1. SelectInSeq(labels, LAMBDA x : x.name = l) = IF I # {} THEN Min(I) ELSE 0
    BY DEF SelectInSeq
  <2>2. i \in I /\ I \in SUBSET Nat
    OBVIOUS
  <2>3. Min(I) \in I
    <3>. HIDE DEF I
    <3>. QED BY <2>2, MinExists
  <2>4. Min(I) \in 1..Len(labels) /\ labels[Min(I)].name = labels[i].name
    BY <2>3
  <2>5. Min(I) = i
    BY <2>4 DEF LabelsOnce
  <2>6. SelectInSeq(labels, LAMBDA x : x.name = l) = i
    BY <2>1, <2>2, <2>5
  <2>7. l \in { labels[j].name : j \in DOMAIN labels }
    BY <1>1
  <2>8. LabelsOf(labels)[l] = labels[SelectInSeq(labels, LAMBDA x : x.name = l)].value
    BY <2>7 DEF LabelsOf
  <2>. QED BY <2>6, <2>8
<1>. QED BY <1>1, <1>2 DEF LabelsOf

\* A log's labels after label is set to value.
Labelled(labels, label, value) ==
  [l \in DOMAIN labels \cup {label} |-> IF l = label THEN value ELSE labels[l]]

LEMMA AddedLabelLog ==
  ASSUME NEW labels \in Seq(Label), NEW label \in Label, LabelsOnce(labels)
  PROVE  LabelsOf(AddLabel(labels, label)) = Labelled(LabelsOf(labels), label.name, label.value)
<1>. DEFINE new == AddLabel(labels, label)
            n   == Len(labels)
            m   == Len(new)
            old == LabelsOf(labels)
            f   == LabelsOf(new)
            g   == [l \in DOMAIN old \cup {label.name} |->
                      IF l = label.name THEN label.value ELSE old[l]]
<1>1. new \in Seq(Label) /\ LabelsOnce(new) /\ n \in Nat
  BY AddLabelType, AddLabelOnce, LenProperties
<1>2. PICK k \in 1..(n + 1) :
        /\ m = IF k <= n THEN n ELSE n + 1
        /\ new[k] = label
        /\ IF k <= n THEN labels[k].name = label.name
           ELSE \A i \in 1..n : labels[i].name # label.name
        /\ \A i \in 1..n : i # k => new[i] = labels[i]
  BY AddLabelFacts
<1>3. /\ DOMAIN old = { labels[i].name : i \in 1..n }
      /\ \A i \in 1..n : old[labels[i].name] = labels[i].value
  BY LabelsOfFacts
<1>4. /\ DOMAIN f = { new[i].name : i \in 1..m }
      /\ \A i \in 1..m : f[new[i].name] = new[i].value
  <2>. HIDE DEF new
  <2>. QED BY <1>1, LabelsOfFacts
<1>5. f = [l \in DOMAIN f |-> f[l]]
  BY DEF LabelsOf
<1>6. k \in 1..m /\ \A i \in 1..n : i \in 1..m
  BY <1>1, <1>2
<1>7. \A i \in 1..m : i = k \/ (i \in 1..n /\ new[i] = labels[i])
  <2>1. \A i \in 1..m : i = k \/ i \in 1..n
    BY <1>1, <1>2
  <2>. QED BY <1>2, <2>1
<1>8. \A i, j \in 1..n : labels[i].name = labels[j].name => i = j
  BY DEF LabelsOnce
<1>9. \A i \in 1..n : labels[i].name # label.name => new[i] = labels[i]
  BY <1>1, <1>2
<1>. HIDE DEF new, n, m, old, f
<1>10. DOMAIN f = DOMAIN old \cup {label.name}
  <2>1. \A i \in 1..m : new[i].name \in DOMAIN old \cup {label.name}
    BY <1>2, <1>3, <1>7
  <2>2. label.name \in DOMAIN f
    BY <1>2, <1>4, <1>6
  <2>3. \A i \in 1..n : labels[i].name \in DOMAIN f
    BY <1>4, <1>6, <1>9, <2>2
  <2>. QED BY <1>3, <1>4, <2>1, <2>2, <2>3
<1>11. \A l \in DOMAIN f : f[l] = g[l]
  <2>1. f[label.name] = label.value
    BY <1>2, <1>4, <1>6
  <2>2. \A i \in 1..n : labels[i].name # label.name => f[labels[i].name] = old[labels[i].name]
    BY <1>3, <1>4, <1>6, <1>9
  <2>3. \A l \in DOMAIN old : l # label.name => f[l] = old[l]
    BY <1>3, <2>2
  <2>. QED BY <1>10, <2>1, <2>3
<1>12. f = g
  BY <1>5, <1>10, <1>11
<1>. QED BY <1>12 DEF f, old, new, Labelled

\* A text that is set is a description or a label of the log's suite.
LEMMA WithTextLog ==
  ASSUME NEW s \in TestSuite, NEW property \in SuiteProperties, NEW value \in Names,
         LabelsOnce(s.labels)
  PROVE  LET new == WithText(s, property, value)
         IN  SuiteLog(new) =
               CASE property = "TMS_ID" -> [SuiteLog(s) EXCEPT !.tmsId = value]
                 [] property = "NAME"   -> [SuiteLog(s) EXCEPT !.name = value]
                 [] OTHER -> [SuiteLog(s) EXCEPT !.labels = Labelled(@, property, value)]
<1>. DEFINE label == [name |-> property, value |-> value]
            new   == WithText(s, property, value)
<1>1. CASE property = "TMS_ID"
  <2>1. /\ new.name = s.name /\ new.tmsId = value /\ new.labels = s.labels
        /\ new.cases = s.cases /\ new.status = s.status
    BY <1>1 DEF WithText, TestSuite
  <2>. HIDE DEF new
  <2>2. SuiteLog(new) = [SuiteLog(s) EXCEPT !.tmsId = value]
    BY <2>1 DEF SuiteLog
  <2>. QED BY <1>1, <2>2 DEF new
<1>2. CASE property = "NAME"
  <2>1. /\ new.name = value /\ new.tmsId = s.tmsId /\ new.labels = s.labels
        /\ new.cases = s.cases /\ new.status = s.status
    BY <1>2 DEF WithText, TestSuite
  <2>. HIDE DEF new
  <2>2. SuiteLog(new) = [SuiteLog(s) EXCEPT !.name = value]
    BY <2>1 DEF SuiteLog
  <2>. QED BY <1>2, <2>2 DEF new
<1>3. CASE property \notin {"TMS_ID", "NAME"}
  <2>. DEFINE labels == AddLabel(s.labels, label)
              added  == Labelled(SuiteLog(s).labels, property, value)
  <2>1. label \in Label /\ s.labels \in Seq(Label)
    BY <1>3 DEF Label, SuiteProperties, TestSuite
  <2>2. LabelsOf(labels) = added
    <3>1. LabelsOf(labels) = Labelled(LabelsOf(s.labels), label.name, label.value)
      <4>. HIDE DEF label
      <4>. QED BY <2>1, AddedLabelLog
    <3>2. SuiteLog(s).labels = LabelsOf(s.labels)
      BY DEF SuiteLog
    <3>. HIDE DEF labels
    <3>. QED BY <3>1, <3>2
  <2>3. new = [s EXCEPT !.labels = labels]
    BY <1>3 DEF WithText
  <2>. HIDE DEF labels, new, added
  <2>4. /\ new.labels = labels /\ new.name = s.name /\ new.tmsId = s.tmsId
        /\ new.cases = s.cases /\ new.status = s.status
    BY <2>3 DEF TestSuite
  <2>5. SuiteLog(new) = [SuiteLog(s) EXCEPT !.labels = added]
    BY <2>2, <2>4 DEF SuiteLog
  <2>. QED BY <1>3, <2>5 DEF new, added
<1>. QED BY <1>1, <1>2, <1>3

-----------------------------------------------------------------------------
(***************************************************************************)
(* Each call is an operation of the log.                                   *)
(***************************************************************************)
LEMMA InitRefines == Init => Log!Init
<1>1. <<>> \in Seq(TestSuite) /\ Len(<<>>) = 0
  BY EmptySeq
<1>2. OpenItem(<<>>) = <<>> /\ ClosedLen(<<>>) = 0
  BY <1>1, OpenItemFacts
<1>3. ClosedSuites(<<>>) = <<>> /\ OpenSuite(<<>>) = <<>> /\ OpenCase(<<>>) = <<>>
  BY <1>2 DEF ClosedSuites, OpenSuite, OpenCase, OpenCases
<1>. QED BY <1>3 DEF Init, Log!Init

LEMMA ProgramStartRefines == OnTestProgramStart => Log!Next
<1>1. <<>> \in Seq(TestSuite) /\ Len(<<>>) = 0
  BY EmptySeq
<1>2. OpenItem(<<>>) = <<>> /\ ClosedLen(<<>>) = 0
  BY <1>1, OpenItemFacts
<1>3. ClosedSuites(<<>>) = <<>> /\ OpenSuite(<<>>) = <<>> /\ OpenCase(<<>>) = <<>>
  BY <1>2 DEF ClosedSuites, OpenSuite, OpenCase, OpenCases
<1>4. OnTestProgramStart => Log!Restart
  BY <1>3 DEF OnTestProgramStart, HandleTestProgramStart, Log!Restart
<1>. QED BY <1>4 DEF Log!Next

LEMMA UntouchedRefines == TreeUntouched => Log!Next
<1>1. TreeUntouched => UNCHANGED Log!vars
  BY UntouchedTree DEF Log!vars
<1>. QED BY <1>1 DEF Log!Next

\* Outside of the running suite, or the running case, none is open in the log.
LEMMA NothingOpen ==
  ASSUME IndInv
  PROVE  /\ phase = "Program" => /\ OpenSuite(suites) = <<>> /\ OpenCase(suites) = <<>>
                                 /\ ClosedLen(suites) = Len(suites)
         /\ phase = "Suite" => OpenItem(LastSuite.cases) = <<>>
<1>1. suites \in Seq(TestSuite) /\ Len(suites) \in Nat
  BY LenProperties DEF IndInv, TypeOK
<1>2. ASSUME phase = "Program"
      PROVE  /\ OpenSuite(suites) = <<>> /\ OpenCase(suites) = <<>>
             /\ ClosedLen(suites) = Len(suites)
  <2>1. Len(suites) # 0 => Finished(suites[Len(suites)])
    BY <1>1, <1>2 DEF IndInv, OpenPath
  <2>2. OpenItem(suites) = <<>> /\ ClosedLen(suites) = Len(suites)
    BY <1>1, <2>1, OpenItemFacts
  <2>. QED BY <2>2 DEF OpenSuite, OpenCase, OpenCases
<1>3. ASSUME phase = "Suite"
      PROVE  OpenItem(LastSuite.cases) = <<>>
  <2>1. LastSuite \in TestSuite
    BY <1>3, OpenSuiteFacts
  <2>2. LastSuite.cases \in Seq(TestCase) /\ Len(LastSuite.cases) \in Nat
    BY <2>1, CaseOf
  <2>3. Len(LastSuite.cases) # 0 => Finished(LastSuite.cases[Len(LastSuite.cases)])
    BY <1>3, <2>2 DEF IndInv, OpenPath
  <2>. QED BY <2>2, <2>3, OpenItemFacts
<1>. QED BY <1>2, <1>3

\* The open suite, or the open case, of the log is replaced by another.
LEMMA OnlyReplaced ==
  ASSUME NEW old, NEW new
  PROVE  [<<old>> EXCEPT ![1] = new] = <<new>>
OBVIOUS

LEMMA SuiteStartRefines ==
  ASSUME IndInv, NEW name \in Names, OnTestSuiteStart(name)
  PROVE  Log!Next
<1>. DEFINE s == NewSuite(FreshUUID, name, format, now)
            n == Len(suites)
<1>1. /\ phase = "Program" /\ suites \in Seq(TestSuite) /\ n \in Nat
      /\ suites' = Append(suites, s) /\ FreshUUID \in Nat /\ format \in Format /\ now \in Nat
  BY LenProperties DEF IndInv, TypeOK, OnTestSuiteStart, HandleTestSuiteStart, GSuiteStart,
                       FreshUUID
<1>2. s \in TestSuite /\ s.cases = <<>> /\ ~Finished(s)
  BY <1>1, NewItemTypes DEF NewSuite, Finished
<1>3. SuiteLog(s) = Log!OpenSuiteOf(name)
  BY NewSuiteLog DEF Log!OpenSuiteOf
<1>. HIDE DEF s
<1>4. /\ suites' \in Seq(TestSuite) /\ Len(suites') = n + 1 /\ suites'[n + 1] = s
      /\ \A i \in 1..n : suites'[i] = suites[i]
  BY <1>1, <1>2, AppendFacts
<1>5. OpenItem(suites') # <<>> /\ OpenItem(suites')[1] = s /\ ClosedLen(suites') = n
  <2>1. Len(suites') # 0 /\ Len(suites') - 1 = n
    BY <1>1, <1>4
  <2>. QED BY <1>2, <1>4, <2>1, OpenItemFacts
<1>6. OpenSuite(suites) = <<>> /\ OpenCase(suites) = <<>> /\ ClosedLen(suites) = n
  BY <1>1, NothingOpen
<1>7. ClosedSuites(suites') = ClosedSuites(suites)
  <2>. HIDE DEF n
  <2>. QED BY <1>4, <1>5, <1>6 DEF ClosedSuites
<1>8. OpenSuite(suites') = <<Log!OpenSuiteOf(name)>>
  BY <1>3, <1>5 DEF OpenSuite
<1>9. OpenCase(suites') = <<>>
  <2>1. OpenItem(<<>>) = <<>>
    BY EmptySeq, OpenItemFacts
  <2>. QED BY <1>2, <1>5, <2>1 DEF OpenCase, OpenCases
<1>10. Log!OpenSuite(name)
  BY <1>6, <1>7, <1>8, <1>9 DEF Log!OpenSuite
<1>. QED BY <1>10 DEF Log!Next

LEMMA TestStartRefines ==
  ASSUME IndInv, NEW name \in Names, OnTestStart(name)
  PROVE  Log!Next
<1>. DEFINE case == NewCase(name, now)
            s    == [LastSuite EXCEPT !.cases = Append(LastSuite.cases, case)]
<1>1. /\ RunningSuite(suites) # 0 /\ phase = "Suite" /\ suites' = WithSuite(suites, s)
      /\ now \in Nat /\ LastSuite \in TestSuite /\ ~Finished(LastSuite)
  BY TestStartEffect, RunningIsLast DEF IndInv, TypeOK
<1>2. case \in TestCase /\ ~Finished(case)
  BY <1>1, NewItemTypes DEF NewCase, Finished
<1>3. CaseLog(case) = Log!OpenCaseOf(name)
  BY NewCaseLog DEF Log!OpenCaseOf
<1>. HIDE DEF case
<1>4. s \in TestSuite /\ ~Finished(s)
  <2>1. Append(LastSuite.cases, case) \in Seq(TestCase)
    BY <1>1, <1>2, CaseOf, AppendFacts
  <2>. QED BY <1>1, <2>1, SuiteWithCases DEF Finished
<1>5. /\ SuiteLog(s) = SuiteLog(LastSuite) /\ OpenItem(LastSuite.cases) = <<>>
      /\ OpenItem(s.cases) # <<>> /\ OpenItem(s.cases)[1] = case
  <2>1. \A j \in 1..Len(LastSuite.cases) : Finished(LastSuite.cases[j])
    BY <1>1 DEF IndInv, OpenPath
  <2>. QED BY <1>1, <1>2, <2>1, CaseAddedLog
<1>. HIDE DEF s
<1>6. /\ OpenSuite(suites) = <<SuiteLog(LastSuite)>>
      /\ OpenCases(suites) = OpenItem(LastSuite.cases)
      /\ ClosedSuites(suites') = ClosedSuites(suites)
      /\ OpenSuite(suites') = <<SuiteLog(s)>>
      /\ OpenCases(suites') = OpenItem(s.cases)
  BY <1>1, <1>4, SuiteReplacedLog
<1>7. OpenCase(suites) = <<>> /\ OpenCase(suites') = <<Log!OpenCaseOf(name)>>
  BY <1>3, <1>5, <1>6 DEF OpenCase
<1>8. Log!OpenCase(name)
  BY <1>5, <1>6, <1>7 DEF Log!OpenCase
<1>. QED BY <1>8 DEF Log!Next

LEMMA SuiteEndRefines == IndInv /\ OnTestSuiteEnd => Log!Next
<1>. SUFFICES ASSUME IndInv, OnTestSuiteEnd PROVE Log!Next
  OBVIOUS
<1>. DEFINE s == AddTMSLink(Closed(LastSuite, now, SuiteVerdict), pattern)
            old == SuiteLog(LastSuite)
<1>1. /\ RunningSuite(suites) # 0 /\ phase = "Suite" /\ suites' = WithSuite(suites, s)
      /\ now \in Nat /\ pattern \in Patterns /\ LastSuite \in TestSuite
  BY SuiteEndEffect, RunningIsLast DEF IndInv, TypeOK
<1>2. s \in TestSuite /\ Finished(s) /\ SuiteLog(s) = [old EXCEPT !.verdict = SuiteVerdict]
  BY <1>1, VerdictTypes, ClosedSuiteLog
<1>. HIDE DEF s
<1>3. /\ OpenSuite(suites) = <<old>>
      /\ OpenCases(suites) = OpenItem(LastSuite.cases)
      /\ ClosedSuites(suites') = Append(ClosedSuites(suites), SuiteLog(s))
      /\ OpenSuite(suites') = <<>>
      /\ OpenCases(suites') = <<>>
  BY <1>1, <1>2, SuiteReplacedLog
<1>4. OpenCase(suites) = <<>> /\ OpenCase(suites') = <<>>
  BY <1>1, <1>3, NothingOpen DEF OpenCase
<1>. HIDE DEF old
<1>5. OpenSuite(suites)[1] = old /\ OpenSuite(suites) # <<>>
  BY <1>3
<1>6. Log!CloseSuite(SuiteVerdict)
  BY <1>2, <1>3, <1>4, <1>5 DEF Log!CloseSuite
<1>7. SuiteVerdict \in Log!Verdicts
  BY DEF SuiteVerdict, Log!Verdicts
<1>. QED BY <1>6, <1>7 DEF Log!Next

LEMMA TestEndRefines == IndInv /\ OnTestEnd => Log!Next
<1>. SUFFICES ASSUME IndInv, OnTestEnd PROVE Log!Next
  OBVIOUS
<1>. DEFINE case  == Closed(LastCase, now, CaseVerdict)
            old   == CaseLog(LastCase)
            outer == SuiteLog(LastSuite)
<1>1. /\ RunningCase(suites) # 0 /\ suites' = WithCase(suites, case)
      /\ now \in Nat /\ LastCase \in TestCase
  BY TestEndEffect, RunningIsLast DEF IndInv, TypeOK
<1>2. case \in TestCase /\ Finished(case) /\ CaseLog(case) = [old EXCEPT !.verdict = CaseVerdict]
  BY <1>1, VerdictTypes, ClosedCase, ClosedCaseLog DEF Finished
<1>. HIDE DEF case
<1>3. /\ OpenSuite(suites) = <<outer>>
      /\ OpenCase(suites) = <<old>>
      /\ ClosedSuites(suites') = ClosedSuites(suites)
      /\ OpenSuite(suites') = <<[outer EXCEPT !.cases = Append(@, CaseLog(case))]>>
      /\ OpenCase(suites') = <<>>
  BY <1>1, <1>2, CaseReplacedLog
<1>. HIDE DEF old, outer
<1>4. Log!CloseCase(CaseVerdict)
  <2>1. OpenCase(suites)[1] = old /\ OpenCase(suites) # <<>>
    BY <1>3
  <2>2. OpenSuite(suites') = [OpenSuite(suites) EXCEPT ![1].cases = Append(@, CaseLog(case))]
    <3>. DEFINE o == OpenSuite(suites)
                e == [o[1] EXCEPT !.cases = Append(@, CaseLog(case))]
    <3>1. o = <<outer>> /\ OpenSuite(suites') = <<e>>
      BY <1>3
    <3>. HIDE DEF o
    <3>2. [o EXCEPT ![1].cases = Append(@, CaseLog(case))] = [o EXCEPT ![1] = e]
      OBVIOUS
    <3>. HIDE DEF e
    <3>3. [o EXCEPT ![1] = e] = <<e>>
      BY <3>1, OnlyReplaced
    <3>. QED BY <3>1, <3>2, <3>3 DEF o
  <2>. QED BY <1>2, <1>3, <2>1, <2>2 DEF Log!CloseCase
<1>5. CaseVerdict \in Log!Verdicts
  BY DEF CaseVerdict, Log!Verdicts
<1>. QED BY <1>4, <1>5 DEF Log!Next

LEMMA StepStartRefines ==
  ASSUME IndInv, NEW type \in StepTypes, StepStart(type)
  PROVE  Log!Next
<1>. DEFINE step == NewStep(type, now)
            case == [LastCase EXCEPT !.steps = Append(LastCase.steps, step)]
            n    == Len(LastCase.steps)
            p    == n - (frames + thrown)
            o    == OpenCase(suites)
            e    == [o[1] EXCEPT !.pending = @ + 1]
<1>1. /\ RunningCase(suites) # 0 /\ phase = "Test" /\ suites' = WithCase(suites, case)
      /\ now \in Nat /\ type \in StepType /\ LastCase \in TestCase /\ ~Finished(LastCase)
      /\ frames \in Nat /\ thrown \in Nat
  BY StepStartEffect, RunningIsLast DEF IndInv, TypeOK
<1>2. step \in Step /\ ~Finished(step) /\ LastCase.steps \in Seq(Step) /\ n \in Nat
  <2>1. LastCase.name \in Names
    BY <1>1 DEF TestCase
  <2>2. step \in Step
    BY <1>1, <2>1, NewItemTypes
  <2>. QED BY <1>1, <2>2, StepOf DEF NewStep, Finished
<1>. HIDE DEF step
<1>3. case \in TestCase /\ ~Finished(case)
  <2>1. Append(LastCase.steps, step) \in Seq(Step)
    BY <1>2, AppendFacts
  <2>. QED BY <1>1, <2>1, CaseWithSteps DEF Finished
<1>4. p \in 0..n /\ \A k \in 1..n : Finished(LastCase.steps[k]) <=> k <= p
  <2>1. /\ frames + thrown <= n
        /\ \A k \in 1..n : IF k <= p THEN Finished(LastCase.steps[k])
                                     ELSE IsRunning(LastCase.steps[k])
    BY <1>1 DEF IndInv, OpenSteps
  <2>2. p \in 0..n
    BY <1>1, <1>2, <2>1
  <2>. QED BY <2>1, <2>2 DEF IsRunning, Finished
<1>5. CaseLog(case) = [CaseLog(LastCase) EXCEPT !.pending = @ + 1]
  <2>. HIDE DEF p
  <2>. QED BY <1>1, <1>2, <1>4, StepAddedLog
<1>. HIDE DEF case
<1>6. /\ o = <<CaseLog(LastCase)>>
      /\ ClosedSuites(suites') = ClosedSuites(suites) /\ OpenSuite(suites') = OpenSuite(suites)
      /\ OpenCase(suites') = <<CaseLog(case)>>
  BY <1>1, <1>3, CaseReplacedLog
<1>. HIDE DEF o
<1>7. o # <<>> /\ e = CaseLog(case)
  BY <1>5, <1>6
<1>8. [o EXCEPT ![1].pending = @ + 1] = [o EXCEPT ![1] = e]
  OBVIOUS
<1>. HIDE DEF e
<1>9. [o EXCEPT ![1] = e] = <<e>>
  BY <1>6, OnlyReplaced
<1>10. Log!OpenStep
  BY <1>6, <1>7, <1>8, <1>9 DEF o, Log!OpenStep
<1>. QED BY <1>10 DEF Log!Next

LEMMA StepReturnRefines == IndInv /\ StepReturn => Log!Next
<1>. SUFFICES ASSUME IndInv, StepReturn PROVE Log!Next
  OBVIOUS
<1>. DEFINE n       == Len(LastCase.steps)
            m       == n - (frames + thrown) + 1
            verdict == CurrentTestStatus
            step    == Closed(LastCase.steps[m], now, verdict)
            case    == [LastCase EXCEPT !.steps = [LastCase.steps EXCEPT ![m] = step]]
            old     == CaseLog(LastCase)
            o       == OpenCase(suites)
            e       == [[o[1] EXCEPT !.pending = @ - 1] EXCEPT !.steps = Append(@, verdict)]
<1>1. /\ RunningCase(suites) # 0 /\ m \in 1..n
      /\ \A k \in 1..n : Finished(LastCase.steps[k]) <=> k < m
      /\ suites' = WithCase(suites, case)
  BY StepReturnEffect
<1>2. now \in Nat /\ LastCase \in TestCase /\ ~Finished(LastCase) /\ verdict \in Status
  BY <1>1, RunningIsLast, VerdictTypes DEF IndInv, TypeOK
<1>. HIDE DEF m
<1>3. /\ LastCase.steps \in Seq(Step) /\ LastCase.steps[m] \in Step
      /\ step \in Step /\ Finished(step) /\ step.status = verdict
  <2>1. LastCase.steps \in Seq(Step) /\ LastCase.steps[m] \in Step
    BY <1>1, <1>2, StepOf
  <2>2. LastCase.steps[m].stage \in Stage
    BY <2>1 DEF Step
  <2>3. step \in Step /\ Finished(step)
    BY <1>2, <2>1, ClosedStep DEF Finished
  <2>4. step.status = verdict
    BY <2>1 DEF Closed, Step
  <2>. QED BY <2>1, <2>3, <2>4
<1>. HIDE DEF step
<1>4. case \in TestCase /\ ~Finished(case)
  <2>1. [LastCase.steps EXCEPT ![m] = step] \in Seq(Step)
    BY <1>1, <1>3, ExceptSeq
  <2>. QED BY <1>2, <2>1, CaseWithSteps DEF Finished
<1>5. /\ CaseLog(case) = [old EXCEPT !.pending = @ - 1, !.steps = Append(@, verdict)]
      /\ old.pending > 0
  <2>1. CaseLog(case) = [old EXCEPT !.pending = @ - 1, !.steps = Append(@, step.status)]
        /\ old.pending > 0
    <3>. HIDE DEF verdict
    <3>. QED BY <1>1, <1>2, <1>3, StepClosedLog
  <2>. HIDE DEF old, case, verdict
  <2>. QED BY <1>3, <2>1
<1>. HIDE DEF case, n, verdict
<1>6. /\ o = <<old>>
      /\ ClosedSuites(suites') = ClosedSuites(suites) /\ OpenSuite(suites') = OpenSuite(suites)
      /\ OpenCase(suites') = <<CaseLog(case)>>
  BY <1>1, <1>4, CaseReplacedLog
<1>. HIDE DEF o, old
<1>7. o # <<>> /\ o[1].pending > 0 /\ e = CaseLog(case)
  <2>1. o # <<>> /\ o[1] = old
    BY <1>6
  <2>2. e = [[old EXCEPT !.pending = @ - 1] EXCEPT !.steps = Append(@, verdict)]
    BY <2>1
  <2>3. [[old EXCEPT !.pending = @ - 1] EXCEPT !.steps = Append(@, verdict)]
          = [old EXCEPT !.pending = @ - 1, !.steps = Append(@, verdict)]
    OBVIOUS
  <2>. HIDE DEF e
  <2>. QED BY <1>5, <2>1, <2>2, <2>3
<1>8. [o EXCEPT ![1].pending = @ - 1, ![1].steps = Append(@, verdict)] = [o EXCEPT ![1] = e]
  OBVIOUS
<1>. HIDE DEF e
<1>9. [o EXCEPT ![1] = e] = <<e>>
  BY <1>6, OnlyReplaced
<1>10. Log!CloseStep(verdict)
  BY <1>6, <1>7, <1>8, <1>9 DEF o, Log!CloseStep
<1>11. verdict \in Log!StepVerdicts
  BY DEF verdict, CurrentTestStatus, Log!StepVerdicts
<1>. QED BY <1>10, <1>11 DEF Log!Next

LEMMA SetCaseNameRefines ==
  ASSUME IndInv, NEW value \in Names, SetTestCaseName(value)
  PROVE  Log!Next
<1>. DEFINE case == [LastCase EXCEPT !.name = value]
            o    == OpenCase(suites)
            e    == [o[1] EXCEPT !.name = value]
<1>1. /\ RunningCase(suites) # 0 /\ suites' = WithCase(suites, case)
      /\ LastCase \in TestCase /\ ~Finished(LastCase)
  BY SetCaseNameEffect, RunningIsLast
<1>2. /\ case \in TestCase /\ ~Finished(case)
      /\ CaseLog(case) = [CaseLog(LastCase) EXCEPT !.name = value]
  BY <1>1, CaseWithName, RenamedCaseLog DEF Finished
<1>. HIDE DEF case
<1>3. /\ o = <<CaseLog(LastCase)>>
      /\ ClosedSuites(suites') = ClosedSuites(suites) /\ OpenSuite(suites') = OpenSuite(suites)
      /\ OpenCase(suites') = <<CaseLog(case)>>
  BY <1>1, <1>2, CaseReplacedLog
<1>. HIDE DEF o
<1>4. o # <<>> /\ e = CaseLog(case)
  BY <1>2, <1>3
<1>5. [o EXCEPT ![1].name = value] = [o EXCEPT ![1] = e]
  OBVIOUS
<1>. HIDE DEF e
<1>6. [o EXCEPT ![1] = e] = <<e>>
  BY <1>3, OnlyReplaced
<1>7. Log!RenameCase(value)
  BY <1>3, <1>4, <1>5, <1>6 DEF o, Log!RenameCase
<1>. QED BY <1>7 DEF Log!Next

LEMMA SetSuitePropertyRefines ==
  ASSUME IndInv, HistoryInv, NEW property \in SuiteProperties, NEW value \in Names,
         SetTestSuiteProperty(property, value)
  PROVE  Log!Next
<1>. DEFINE s   == WithText(LastSuite, property, value)
            old == SuiteLog(LastSuite)
            o   == OpenSuite(suites)
            labels == Labelled(o[1].labels, property, value)
<1>1. /\ RunningSuite(suites) # 0 /\ suites' = WithSuite(suites, s)
      /\ Len(suites) # 0 /\ LastSuite \in TestSuite /\ ~Finished(LastSuite)
  BY SetSuitePropertyEffect, RunningIsLast
<1>2. LabelsOnce(LastSuite.labels)
  <2>1. Len(suites) \in 1..Len(suites)
    BY <1>1, LenProperties DEF IndInv, TypeOK
  <2>. QED BY <2>1 DEF HistoryInv, TreeHistory, SuiteHistory, LastSuite
<1>3. s \in TestSuite /\ ~Finished(s) /\ s.cases = LastSuite.cases
  BY <1>1, <1>2, WithTextFacts DEF Finished
<1>4. SuiteLog(s) =
        CASE property = "TMS_ID" -> [old EXCEPT !.tmsId = value]
          [] property = "NAME"   -> [old EXCEPT !.name = value]
          [] OTHER -> [old EXCEPT !.labels = Labelled(@, property, value)]
  BY <1>1, <1>2, WithTextLog
<1>5. old.name \in Names /\ old.tmsId \in Names
  BY <1>1 DEF SuiteLog, TestSuite
<1>. HIDE DEF s
<1>6. /\ o = <<old>> /\ OpenCases(suites') = OpenCases(suites)
      /\ ClosedSuites(suites') = ClosedSuites(suites)
      /\ OpenSuite(suites') = <<SuiteLog(s)>>
  BY <1>1, <1>3, SuiteReplacedLog
<1>7. OpenCase(suites') = OpenCase(suites)
  BY <1>6 DEF OpenCase
<1>. HIDE DEF o
<1>8. o # <<>> /\ o[1] = old
  BY <1>6
<1>9. CASE property = "TMS_ID"
  <2>. DEFINE e == [[o[1] EXCEPT !.name = old.name] EXCEPT !.tmsId = value]
  <2>1. e = SuiteLog(s)
    <3>1. [old EXCEPT !.name = old.name] = old
      BY DEF SuiteLog
    <3>. HIDE DEF old
    <3>2. [o[1] EXCEPT !.name = old.name] = old
      BY <1>8, <3>1
    <3>. QED BY <1>4, <1>9, <3>2
  <2>2. [o EXCEPT ![1].name = old.name, ![1].tmsId = value] = [o EXCEPT ![1] = e]
    OBVIOUS
  <2>. HIDE DEF e
  <2>3. [o EXCEPT ![1] = e] = <<e>>
    BY <1>6, OnlyReplaced
  <2>4. Log!Describe(old.name, value)
    BY <1>6, <1>7, <1>8, <2>1, <2>2, <2>3 DEF o, Log!Describe
  <2>. QED BY <1>5, <2>4 DEF Log!Next
<1>10. CASE property = "NAME"
  <2>. DEFINE e == [[o[1] EXCEPT !.name = value] EXCEPT !.tmsId = old.tmsId]
  <2>1. e = SuiteLog(s)
    <3>1. [[old EXCEPT !.name = value] EXCEPT !.tmsId = old.tmsId] = [old EXCEPT !.name = value]
      <4>. DEFINE new == [old EXCEPT !.name = value]
      <4>1. new = [new EXCEPT !.tmsId = new.tmsId]
        BY DEF SuiteLog
      <4>2. new.tmsId = old.tmsId
        BY DEF SuiteLog
      <4>. HIDE DEF old
      <4>. QED BY <4>1, <4>2
    <3>. HIDE DEF old
    <3>2. e = [[old EXCEPT !.name = value] EXCEPT !.tmsId = old.tmsId]
      BY <1>8
    <3>. QED BY <1>4, <1>10, <3>1, <3>2
  <2>2. [o EXCEPT ![1].name = value, ![1].tmsId = old.tmsId] = [o EXCEPT ![1] = e]
    OBVIOUS
  <2>. HIDE DEF e
  <2>3. [o EXCEPT ![1] = e] = <<e>>
    BY <1>6, OnlyReplaced
  <2>4. Log!Describe(value, old.tmsId)
    BY <1>6, <1>7, <1>8, <2>1, <2>2, <2>3 DEF o, Log!Describe
  <2>. QED BY <1>5, <2>4 DEF Log!Next
<1>11. CASE property \notin {"TMS_ID", "NAME"}
  <2>. DEFINE e == [o[1] EXCEPT !.labels = labels]
  <2>1. e = SuiteLog(s)
    BY <1>4, <1>8, <1>11
  <2>2. [o EXCEPT ![1].labels = [l \in DOMAIN @ \cup {property} |->
                                   IF l = property THEN value ELSE @[l]]]
          = [o EXCEPT ![1] = e]
    BY DEF Labelled
  <2>. HIDE DEF e
  <2>3. [o EXCEPT ![1] = e] = <<e>>
    BY <1>6, OnlyReplaced
  <2>4. Log!SetLabel(property, value)
    BY <1>6, <1>7, <1>8, <2>1, <2>2, <2>3 DEF o, Log!SetLabel
  <2>5. property \in Labels
    BY <1>11 DEF SuiteProperties
  <2>. QED BY <2>4, <2>5 DEF Log!Next
<1>. QED BY <1>9, <1>10, <1>11

LEMMA NextRefines == IndInv /\ HistoryInv /\ [Next]_vars => [Log!Next]_(Log!vars)
<1>. SUFFICES ASSUME IndInv, HistoryInv, [Next]_vars PROVE Log!Next
  OBVIOUS
<1>1. CASE OnTestProgramStart
  BY <1>1, ProgramStartRefines
<1>2. CASE \E name \in Names : OnTestSuiteStart(name) \/ OnTestStart(name)
  BY <1>2, SuiteStartRefines, TestStartRefines
<1>3. CASE OnTestEnd
  BY <1>3, TestEndRefines
<1>4. CASE OnTestSuiteEnd
  BY <1>4, SuiteEndRefines
<1>5. CASE \E type \in StepTypes : StepStart(type)
  BY <1>5, StepStartRefines
<1>6. CASE StepReturn
  BY <1>6, StepReturnRefines
<1>7. CASE \E property \in SuiteProperties, value \in Names : SetTestSuiteProperty(property, value)
  BY <1>7, SetSuitePropertyRefines
<1>8. CASE \E value \in Names : SetTestCaseName(value)
  BY <1>8, SetCaseNameRefines
<1>9. CASE TreeUntouched
  BY <1>9, UntouchedRefines
<1>. QED
  BY <1>1, <1>2, <1>3, <1>4, <1>5, <1>6, <1>7, <1>8, <1>9 DEF Next, TreeUntouched

\* The detailed report implements the abstract log: with every suite and case
\* that is found by searching the tree for a running one, the same is closed,
\* renamed or given a step as in the log that only has one open suite and case.
THEOREM LegacyReportRefinesLog == Spec => RefinesLog
<1>1. Init => Log!Init
  BY InitRefines
<1>2. IndInv /\ HistoryInv /\ [Next]_vars => [Log!Next]_(Log!vars)
  BY NextRefines
<1>. QED BY <1>1, <1>2, InvariantHolds, HistoryHolds, PTL DEF Spec, RefinesLog, Log!Spec
=============================================================================
