------------------------- MODULE LegacyReportProofs -------------------------
(***************************************************************************)
(* IndInv is an inductive invariant of LegacyReport, for every bound on    *)
(* the tree and every set of names; type correctness, the single running   *)
(* path and the absence of NoRunning... exceptions follow from it.         *)
(*                                                                         *)
(* First, facts about the handlers' functions on trees of every size: what *)
(* the search returns and which part of the tree each handler replaces.    *)
(***************************************************************************)
EXTENDS LegacyReport, LeastElement, SequenceTheorems, TLAPS

(***************************************************************************)
(* FirstRunning returns the least position of a RUNNING item, or 0.        *)
(***************************************************************************)
LEMMA FirstRunningFacts ==
  ASSUME NEW S, NEW items \in Seq(S)
  PROVE  /\ FirstRunning(items) \in 0..Len(items)
         /\ FirstRunning(items) = 0 <=> \A i \in 1..Len(items) : ~IsRunning(items[i])
         /\ FirstRunning(items) # 0 =>
              /\ IsRunning(items[FirstRunning(items)])
              /\ \A i \in 1..Len(items) : i < FirstRunning(items) => ~IsRunning(items[i])
<1>. DEFINE I == { i \in 1..Len(items) : IsRunning(items[i]) }
<1>1. FirstRunning(items) = IF I # {} THEN Min(I) ELSE 0
  BY DEF FirstRunning, SelectInSeq
<1>2. CASE I = {}
  BY <1>1, <1>2
<1>3. CASE I # {}
  <2>1. I \in SUBSET Nat
    OBVIOUS
  <2>. HIDE DEF I
  <2>. DEFINE m == Min(I)
  <2>2. FirstRunning(items) = m
    BY <1>1, <1>3
  <2>3. m \in I /\ \A y \in I : m =< y
    BY <1>3, <2>1, MinExists
  <2>. HIDE DEF m
  <2>4. m \in 1..Len(items) /\ IsRunning(items[m])
    BY <2>3 DEF I
  <2>5. \A i \in 1..Len(items) : i < m => ~IsRunning(items[i])
    BY <2>3, <2>4 DEF I
  <2>. QED BY <2>2, <2>4, <2>5
<1>. QED BY <1>2, <1>3

LEMMA AppendFacts ==
  ASSUME NEW S, NEW items \in Seq(S), NEW item \in S
  PROVE  /\ Append(items, item) \in Seq(S)
         /\ Len(Append(items, item)) = Len(items) + 1
         /\ Append(items, item)[Len(items) + 1] = item
         /\ \A i \in 1..Len(items) : Append(items, item)[i] = items[i]
BY AppendProperties

-----------------------------------------------------------------------------
(***************************************************************************)
(* Types and fields of single records.                                     *)
(***************************************************************************)
LEMMA NewItemTypes ==
  ASSUME NEW name \in Names, NEW t \in Nat
  PROVE  /\ \A type \in StepType : NewStep(type, t) \in Step
         /\ NewCase(name, t) \in TestCase
         /\ \A uuid \in Nat, f \in Format : NewSuite(uuid, name, f, t) \in TestSuite
<1>1. \A type \in StepType : NewStep(type, t) \in Step
  BY DEF NewStep, Step, Stage, Status
<1>2. NewCase(name, t) \in TestCase
  BY EmptySeq DEF NewCase, TestCase, Stage, Status
<1>3. \A uuid \in Nat, f \in Format : NewSuite(uuid, name, f, t) \in TestSuite
  BY EmptySeq DEF NewSuite, TestSuite, Stage, Status
<1>. QED BY <1>1, <1>2, <1>3

LEMMA ClosedStep ==
  ASSUME NEW step \in Step, NEW t \in Nat, NEW status \in Status
  PROVE  /\ Closed(step, t, status) \in Step
         /\ Closed(step, t, status).stage = "FINISHED"
BY DEF Closed, Step, Stage

LEMMA ClosedCase ==
  ASSUME NEW case \in TestCase, NEW t \in Nat, NEW status \in Status
  PROVE  /\ Closed(case, t, status) \in TestCase
         /\ Closed(case, t, status).stage = "FINISHED"
         /\ Closed(case, t, status).steps = case.steps
BY DEF Closed, TestCase, Stage

LEMMA ClosedSuite ==
  ASSUME NEW suite \in TestSuite, NEW t \in Nat, NEW status \in Status
  PROVE  /\ Closed(suite, t, status) \in TestSuite
         /\ Closed(suite, t, status).stage = "FINISHED"
         /\ Closed(suite, t, status).cases = suite.cases
BY DEF Closed, TestSuite, Stage

LEMMA SuiteWithCases ==
  ASSUME NEW suite \in TestSuite, NEW cases \in Seq(TestCase)
  PROVE  /\ [suite EXCEPT !.cases = cases] \in TestSuite
         /\ [suite EXCEPT !.cases = cases].cases = cases
         /\ [suite EXCEPT !.cases = cases].stage = suite.stage
BY DEF TestSuite

LEMMA SuiteWithText ==
  ASSUME NEW suite \in TestSuite, NEW value \in Names
  PROVE  /\ [suite EXCEPT !.tmsId = value] \in TestSuite
         /\ [suite EXCEPT !.tmsId = value].stage = suite.stage
         /\ [suite EXCEPT !.tmsId = value].cases = suite.cases
         /\ [suite EXCEPT !.name = value] \in TestSuite
         /\ [suite EXCEPT !.name = value].stage = suite.stage
         /\ [suite EXCEPT !.name = value].cases = suite.cases
BY DEF TestSuite

LEMMA SuiteWithLabels ==
  ASSUME NEW suite \in TestSuite, NEW labels \in Seq(Label)
  PROVE  /\ [suite EXCEPT !.labels = labels] \in TestSuite
         /\ [suite EXCEPT !.labels = labels].stage = suite.stage
         /\ [suite EXCEPT !.labels = labels].cases = suite.cases
BY DEF TestSuite

LEMMA CaseWithSteps ==
  ASSUME NEW case \in TestCase, NEW steps \in Seq(Step)
  PROVE  /\ [case EXCEPT !.steps = steps] \in TestCase
         /\ [case EXCEPT !.steps = steps].steps = steps
         /\ [case EXCEPT !.steps = steps].stage = case.stage
BY DEF TestCase

LEMMA CaseWithName ==
  ASSUME NEW case \in TestCase, NEW name \in Names
  PROVE  /\ [case EXCEPT !.name = name] \in TestCase
         /\ [case EXCEPT !.name = name].steps = case.steps
         /\ [case EXCEPT !.name = name].stage = case.stage
BY DEF TestCase

(***************************************************************************)
(* Closing a suite keeps its cases, with or without the TMS link.          *)
(***************************************************************************)
LEMMA TMSLinkFacts ==
  ASSUME NEW suite \in TestSuite, NEW p \in Patterns
  PROVE  /\ AddTMSLink(suite, p) \in TestSuite
         /\ AddTMSLink(suite, p).stage = suite.stage
         /\ AddTMSLink(suite, p).cases = suite.cases
<1>. DEFINE link == [name |-> suite.tmsId, pattern |-> p]
<1>1. link \in Link /\ suite.links \in Seq(Link)
  BY DEF TestSuite, Link
<1>2. Append(suite.links, link) \in Seq(Link)
  BY <1>1, AppendProperties
<1>. QED BY <1>2 DEF AddTMSLink, TestSuite

LEMMA AddLabelType ==
  ASSUME NEW labels \in Seq(Label), NEW label \in Label
  PROVE  AddLabel(labels, label) \in Seq(Label)
<1>. DEFINE I == { i \in 1..Len(labels) : labels[i].name = label.name }
            k == IF I # {} THEN Min(I) ELSE 0
<1>1. AddLabel(labels, label) = IF k # 0 THEN [labels EXCEPT ![k] = label]
                                         ELSE Append(labels, label)
  BY DEF AddLabel, SelectInSeq
<1>2. k # 0 => k \in 1..Len(labels)
  <2>1. I \in SUBSET Nat /\ I \subseteq 1..Len(labels)
    OBVIOUS
  <2>. HIDE DEF I
  <2>. QED BY <2>1, MinExists
<1>. HIDE DEF k
<1>. QED BY <1>1, <1>2, ExceptSeq, AppendProperties

-----------------------------------------------------------------------------
(***************************************************************************)
(* The lookups, and the two shapes of change: the running suite is         *)
(* replaced, or the running case within it.                                *)
(***************************************************************************)
LEMMA LookupFacts ==
  ASSUME NEW tree \in Seq(TestSuite)
  PROVE  /\ RunningSuite(tree) \in 0..Len(tree)
         /\ RunningSuite(tree) # 0 => tree[RunningSuite(tree)] \in TestSuite
         /\ RunningCase(tree) # 0 =>
              /\ RunningSuite(tree) # 0
              /\ RunningCase(tree) \in 1..Len(tree[RunningSuite(tree)].cases)
              /\ tree[RunningSuite(tree)].cases \in Seq(TestCase)
              /\ tree[RunningSuite(tree)].cases[RunningCase(tree)] \in TestCase
              /\ CurrentSteps(tree) \in Seq(Step)
         /\ RunningStep(tree) # 0 =>
              /\ RunningCase(tree) # 0
              /\ RunningStep(tree) \in 1..Len(CurrentSteps(tree))
<1>. DEFINE r == RunningSuite(tree)
            c == RunningCase(tree)
<1>1. r \in 0..Len(tree)
  BY FirstRunningFacts DEF RunningSuite
<1>2. r # 0 => tree[r] \in TestSuite
  BY <1>1, ElementOfSeq
<1>3. ASSUME c # 0
      PROVE  /\ r # 0
             /\ c \in 1..Len(tree[r].cases)
             /\ tree[r].cases \in Seq(TestCase)
             /\ tree[r].cases[c] \in TestCase
             /\ CurrentSteps(tree) \in Seq(Step)
  <2>1. r # 0 /\ c = FirstRunning(tree[r].cases)
    BY <1>3 DEF RunningCase
  <2>2. tree[r].cases \in Seq(TestCase)
    BY <1>2, <2>1 DEF TestSuite
  <2>3. c \in 1..Len(tree[r].cases)
    BY <1>3, <2>1, <2>2, FirstRunningFacts
  <2>4. tree[r].cases[c] \in TestCase
    BY <2>2, <2>3, ElementOfSeq
  <2>. QED BY <2>1, <2>2, <2>3, <2>4 DEF TestCase, CurrentSteps
<1>4. ASSUME RunningStep(tree) # 0
      PROVE  c # 0 /\ RunningStep(tree) \in 1..Len(CurrentSteps(tree))
  <2>1. c # 0 /\ RunningStep(tree) = FirstRunning(CurrentSteps(tree))
    BY <1>4 DEF RunningStep
  <2>. QED BY <1>3, <1>4, <2>1, FirstRunningFacts
<1>. QED BY <1>1, <1>2, <1>3, <1>4

WithSuite(tree, suite) == [tree EXCEPT ![RunningSuite(tree)] = suite]

WithCase(tree, case) ==
  WithSuite(tree,
    [tree[RunningSuite(tree)] EXCEPT
       !.cases = [tree[RunningSuite(tree)].cases EXCEPT ![RunningCase(tree)] = case]])

LEMMA WithSuiteFacts ==
  ASSUME NEW tree \in Seq(TestSuite), RunningSuite(tree) # 0, NEW suite \in TestSuite
  PROVE  /\ WithSuite(tree, suite) \in Seq(TestSuite)
         /\ Len(WithSuite(tree, suite)) = Len(tree)
         /\ \A i \in 1..Len(tree) :
              WithSuite(tree, suite)[i] = IF i = RunningSuite(tree) THEN suite ELSE tree[i]
<1>1. RunningSuite(tree) \in 1..Len(tree)
  BY LookupFacts
<1>. QED BY <1>1, ExceptSeq DEF WithSuite

LEMMA WithCaseFacts ==
  ASSUME NEW tree \in Seq(TestSuite), RunningCase(tree) # 0, NEW case \in TestCase
  PROVE  /\ WithCase(tree, case) \in Seq(TestSuite)
         /\ Len(WithCase(tree, case)) = Len(tree)
         /\ \A i \in 1..Len(tree) :
              /\ i # RunningSuite(tree) => WithCase(tree, case)[i] = tree[i]
              /\ WithCase(tree, case)[i].stage = tree[i].stage
              /\ Len(WithCase(tree, case)[i].cases) = Len(tree[i].cases)
              /\ \A j \in 1..Len(tree[i].cases) :
                   WithCase(tree, case)[i].cases[j] =
                     IF i = RunningSuite(tree) /\ j = RunningCase(tree)
                     THEN case ELSE tree[i].cases[j]
<1>. DEFINE r == RunningSuite(tree)
            c == RunningCase(tree)
            cases == [tree[r].cases EXCEPT ![c] = case]
            suite == [tree[r] EXCEPT !.cases = cases]
<1>1. /\ r \in 1..Len(tree)
      /\ tree[r] \in TestSuite
      /\ tree[r].cases \in Seq(TestCase)
      /\ c \in 1..Len(tree[r].cases)
  BY LookupFacts
<1>2. /\ cases \in Seq(TestCase)
      /\ Len(cases) = Len(tree[r].cases)
      /\ \A j \in 1..Len(tree[r].cases) :
           cases[j] = IF j = c THEN case ELSE tree[r].cases[j]
  BY <1>1, ExceptSeq
<1>. HIDE DEF cases
<1>3. suite \in TestSuite /\ suite.cases = cases /\ suite.stage = tree[r].stage
  BY <1>1, <1>2, SuiteWithCases
<1>4. WithCase(tree, case) = WithSuite(tree, suite)
  BY DEF WithCase, cases
<1>. HIDE DEF suite
<1>5. /\ WithSuite(tree, suite) \in Seq(TestSuite)
      /\ Len(WithSuite(tree, suite)) = Len(tree)
      /\ \A i \in 1..Len(tree) :
           WithSuite(tree, suite)[i] = IF i = r THEN suite ELSE tree[i]
  BY <1>1, <1>3, WithSuiteFacts
<1>. QED BY <1>2, <1>3, <1>4, <1>5

-----------------------------------------------------------------------------
(***************************************************************************)
(* Each handler is one of the two changes.                                 *)
(***************************************************************************)
LEMMA CaseStartShape ==
  ASSUME NEW tree, NEW name, NEW t
  PROVE  LET suite == tree[RunningSuite(tree)]
         IN  HandleTestCaseStart(tree, name, t)
               = WithSuite(tree, [suite EXCEPT !.cases = Append(suite.cases, NewCase(name, t))])
BY DEF HandleTestCaseStart, InRunningSuite, WithSuite

LEMMA SuiteEndShape ==
  ASSUME NEW tree, NEW t, NEW status, NEW p
  PROVE  HandleTestSuiteEnd(tree, t, status, p)
           = WithSuite(tree, AddTMSLink(Closed(tree[RunningSuite(tree)], t, status), p))
BY DEF HandleTestSuiteEnd, InRunningSuite, WithSuite

LEMMA StepStartShape ==
  ASSUME NEW tree, NEW type, NEW t
  PROVE  LET case == tree[RunningSuite(tree)].cases[RunningCase(tree)]
         IN  HandleTestStepStart(tree, type, t)
               = WithCase(tree, [case EXCEPT !.steps = Append(case.steps, NewStep(type, t))])
BY DEF HandleTestStepStart, InRunningCase, WithCase, WithSuite

LEMMA StepEndShape ==
  ASSUME NEW tree, NEW t, NEW status
  PROVE  LET case == tree[RunningSuite(tree)].cases[RunningCase(tree)]
             k == RunningStep(tree)
         IN  HandleTestStepEnd(tree, t, status)
               = WithCase(tree, [case EXCEPT !.steps =
                   [case.steps EXCEPT ![k] = Closed(case.steps[k], t, status)]])
BY DEF HandleTestStepEnd, InRunningCase, WithCase, WithSuite

LEMMA CaseEndShape ==
  ASSUME NEW tree, NEW t, NEW status
  PROVE  HandleTestCaseEnd(tree, t, status)
           = WithCase(tree,
               Closed(tree[RunningSuite(tree)].cases[RunningCase(tree)], t, status))
BY DEF HandleTestCaseEnd, InRunningCase, WithCase, WithSuite

LEMMA CaseNameShape ==
  ASSUME NEW tree, NEW name
  PROVE  SetCaseName(tree, name)
           = WithCase(tree,
               [tree[RunningSuite(tree)].cases[RunningCase(tree)] EXCEPT !.name = name])
BY DEF SetCaseName, InRunningCase, WithCase, WithSuite

(***************************************************************************)
(* SetSuiteProperty replaces the running suite by one with the same stage  *)
(* and the same cases.                                                     *)
(***************************************************************************)
LEMMA SuitePropertyShape ==
  ASSUME NEW tree, NEW property \in SuiteProperties, NEW value \in Names,
         tree[RunningSuite(tree)] \in TestSuite
  PROVE  \E suite \in TestSuite :
           /\ SetSuiteProperty(tree, property, value) = WithSuite(tree, suite)
           /\ suite.stage = tree[RunningSuite(tree)].stage
           /\ suite.cases = tree[RunningSuite(tree)].cases
<1>. DEFINE old == tree[RunningSuite(tree)]
            label == [name |-> property, value |-> value]
            labels == AddLabel(old.labels, label)
            new == CASE property = "TMS_ID" -> [old EXCEPT !.tmsId = value]
                     [] property = "NAME"   -> [old EXCEPT !.name = value]
                     [] OTHER -> [old EXCEPT !.labels = labels]
<1>1. SetSuiteProperty(tree, property, value) = WithSuite(tree, new)
  BY DEF SetSuiteProperty, InRunningSuite, WithSuite
<1>2. new \in TestSuite /\ new.stage = old.stage /\ new.cases = old.cases
  <2>. HIDE DEF labels
  <2>1. CASE property = "TMS_ID"
    BY <2>1, SuiteWithText
  <2>2. CASE property = "NAME"
    BY <2>2, SuiteWithText
  <2>3. CASE property \notin {"TMS_ID", "NAME"}
    <3>1. label \in Label
      BY <2>3 DEF Label, SuiteProperties
    <3>2. labels \in Seq(Label)
      BY <3>1, AddLabelType DEF labels, TestSuite
    <3>. QED BY <2>3, <3>2, SuiteWithLabels
  <2>. QED BY <2>1, <2>2, <2>3
<1>. HIDE DEF new
<1>. QED BY <1>1, <1>2

-----------------------------------------------------------------------------
(***************************************************************************)
(* The inductive invariant.                                                *)
(***************************************************************************)
LEMMA InitEstablishesIndInv == Init => IndInv
<1>. SUFFICES ASSUME Init PROVE IndInv
  OBVIOUS
<1>1. TypeOK
  BY ModelAssumption, EmptySeq
     DEF Init, TypeOK, GTestInit, GTestTypeOK, Phases, Format, Errors
<1>2. Len(suites) = 0
  BY EmptySeq DEF Init
<1>3. OpenPath
  BY <1>2 DEF Init, GTestInit, OpenPath
<1>. QED
  BY <1>1, <1>3 DEF IndInv, Init, GTestInit, OpenSteps, HandlersFindTheirTarget

(***************************************************************************)
(* Under IndInv the search finds the end of the open path.                 *)
(***************************************************************************)
LEMMA SearchFindsOpenPath ==
  ASSUME IndInv
  PROVE  /\ phase = "Program" => RunningSuite(suites) = 0
         /\ phase \in {"Suite", "Test"} =>
              RunningSuite(suites) = Len(suites) /\ RunningSuite(suites) # 0
         /\ phase = "Suite" => RunningCase(suites) = 0
         /\ phase = "Test" =>
              /\ RunningCase(suites) = Len(LastSuite.cases)
              /\ RunningCase(suites) # 0
              /\ CurrentSteps(suites) = LastCase.steps
         /\ phase = "Test" /\ frames + thrown > 0 =>
              RunningStep(suites) = Len(LastCase.steps) - (frames + thrown) + 1
<1>. USE DEF IndInv
<1>1. suites \in Seq(TestSuite) /\ frames \in Nat /\ thrown \in Nat /\ Len(suites) \in Nat
  BY LenProperties DEF TypeOK
<1>2. phase = "Program" => RunningSuite(suites) = 0
  BY <1>1, FirstRunningFacts DEF OpenPath, Finished, IsRunning, RunningSuite
<1>3. ASSUME phase \in {"Suite", "Test"}
      PROVE  RunningSuite(suites) = Len(suites) /\ RunningSuite(suites) # 0
  <2>1. Len(suites) \in 1..Len(suites) /\ IsRunning(suites[Len(suites)])
    BY <1>1, <1>3 DEF OpenPath, LastSuite
  <2>2. \A i \in 1..Len(suites) : i < Len(suites) => ~IsRunning(suites[i])
    BY DEF OpenPath, Finished, IsRunning
  <2>. QED BY <1>1, <2>1, <2>2, FirstRunningFacts DEF RunningSuite
<1>4. ASSUME phase \in {"Suite", "Test"}
      PROVE  /\ LastSuite.cases \in Seq(TestCase)
             /\ Len(LastSuite.cases) \in Nat
             /\ RunningCase(suites) = FirstRunning(LastSuite.cases)
  <2>1. LastSuite \in TestSuite
    BY <1>1, <1>3, <1>4, ElementOfSeq DEF LastSuite
  <2>2. LastSuite.cases \in Seq(TestCase)
    BY <2>1 DEF TestSuite
  <2>. QED BY <1>3, <1>4, <2>2, LenProperties DEF RunningCase, LastSuite
<1>5. ASSUME phase = "Suite"
      PROVE  RunningCase(suites) = 0
  <2>1. \A j \in 1..Len(LastSuite.cases) : ~IsRunning(LastSuite.cases[j])
    BY <1>5 DEF OpenPath, Finished, IsRunning
  <2>. QED BY <1>4, <1>5, <2>1, FirstRunningFacts
<1>6. ASSUME phase = "Test"
      PROVE  /\ RunningCase(suites) = Len(LastSuite.cases)
             /\ RunningCase(suites) # 0
             /\ CurrentSteps(suites) = LastCase.steps
             /\ LastCase.steps \in Seq(Step)
  <2>1. Len(suites) \in 1..Len(suites)
    BY <1>1, <1>3, <1>6
  <2>2. \A j \in 1..Len(LastSuite.cases) :
          j < Len(LastSuite.cases) => ~IsRunning(LastSuite.cases[j])
    BY <2>1 DEF OpenPath, Finished, IsRunning, LastSuite
  <2>3. /\ Len(LastSuite.cases) \in 1..Len(LastSuite.cases)
        /\ IsRunning(LastSuite.cases[Len(LastSuite.cases)])
    BY <1>4, <1>6 DEF OpenPath, LastCase
  <2>4. RunningCase(suites) = Len(LastSuite.cases) /\ RunningCase(suites) # 0
    BY <1>4, <1>6, <2>2, <2>3, FirstRunningFacts
  <2>5. CurrentSteps(suites) = LastCase.steps
    BY <1>3, <1>6, <2>4 DEF CurrentSteps, LastCase, LastSuite
  <2>. QED BY <1>1, <2>4, <2>5, LookupFacts
<1>7. ASSUME phase = "Test", frames + thrown > 0
      PROVE  RunningStep(suites) = Len(LastCase.steps) - (frames + thrown) + 1
  <2>. DEFINE m == Len(LastCase.steps) - (frames + thrown) + 1
  <2>1. Len(LastCase.steps) \in Nat
    BY <1>6, <1>7, LenProperties
  <2>2. /\ m \in 1..Len(LastCase.steps)
        /\ IsRunning(LastCase.steps[m])
        /\ \A k \in 1..Len(LastCase.steps) : k < m => ~IsRunning(LastCase.steps[k])
    BY <1>1, <1>7, <2>1 DEF OpenSteps, Finished, IsRunning
  <2>3. FirstRunning(LastCase.steps) = m
    <3>. HIDE DEF m
    <3>. QED BY <1>6, <1>7, <2>1, <2>2, FirstRunningFacts
  <2>. QED BY <1>6, <1>7, <2>3 DEF RunningStep
<1>. QED BY <1>2, <1>3, <1>5, <1>6, <1>7

-----------------------------------------------------------------------------
(***************************************************************************)
(* Steps that leave the tree alone.                                        *)
(***************************************************************************)
LEMMA SameTree ==
  ASSUME IndInv, TypeOK', HandlersFindTheirTarget',
         suites' = suites, phase' = phase,
         frames' <= frames, frames' + thrown' = frames + thrown
  PROVE  IndInv'
<1>1. frames \in Nat /\ frames' \in Nat
  BY DEF IndInv, TypeOK
<1>2. OpenPath'
  BY <1>1 DEF IndInv, OpenPath, LastSuite, LastCase
<1>3. OpenSteps'
  BY DEF IndInv, OpenSteps, LastSuite, LastCase
<1>. QED BY <1>2, <1>3 DEF IndInv

LEMMA RunEnds ==
  ASSUME IndInv, TypeOK', HandlersFindTheirTarget',
         suites' = suites, phase' = "Idle", frames' = 0, thrown' = 0
  PROVE  IndInv'
BY DEF IndInv, OpenPath, OpenSteps, LastSuite, LastCase

LEMMA StepThrowKeepsIndInv ==
  ASSUME IndInv, NEW n \in 1..frames, StepThrow(n)
  PROVE  IndInv'
<1>1. frames \in Nat /\ thrown \in Nat /\ n \in Nat /\ n <= frames
  BY DEF IndInv, TypeOK
<1>2. TypeOK'
  <2>1. GTestTypeOK'
    BY Zenon DEF IndInv, TypeOK, GTestTypeOK, StepThrow, GFailInTest, gtestVars
  <2>2. frames' \in Nat /\ thrown' \in Nat
    BY <1>1 DEF StepThrow
  <2>. QED
    BY <2>1, <2>2 DEF IndInv, TypeOK, StepThrow, configVars
<1>3. phase' = phase
  BY DEF StepThrow, GFailInTest, gtestVars
<1>. QED
  BY <1>1, <1>2, <1>3, SameTree DEF IndInv, HandlersFindTheirTarget, StepThrow

LEMMA EnvironmentKeepsIndInv ==
  ASSUME IndInv,
         Configure \/ FailAssertion \/ SkipTest \/ Tick \/ UNCHANGED vars
  PROVE  IndInv'
<1>. USE DEF configVars, gtestVars
<1>1. TypeOK'
  <2>1. GTestTypeOK'
    <3>1. CASE gtestVars' = gtestVars
      BY <3>1, Zenon DEF IndInv, TypeOK, GTestTypeOK
    <3>2. CASE FailAssertion
      BY <3>2, Zenon DEF IndInv, TypeOK, GTestTypeOK, FailAssertion, GFailInTest, GFailInSuite
    <3>3. CASE SkipTest
      BY <3>3, Zenon DEF IndInv, TypeOK, GTestTypeOK, SkipTest, GSkip
    <3>. QED BY <3>1, <3>2, <3>3, Zenon DEF Configure, Tick, vars
  <2>2. format' \in Format /\ pattern' \in Patterns /\ legacyResults' \in BOOLEAN
    BY Zenon, LegacyAssumption
       DEF IndInv, TypeOK, Configure, FailAssertion, SkipTest, Tick, vars
  <2>3. now' \in Nat
    BY DEF IndInv, TypeOK, Configure, FailAssertion, SkipTest, Tick, vars
  <2>. QED
    BY <2>1, <2>2, <2>3 DEF IndInv, TypeOK, Configure, FailAssertion, SkipTest, Tick, vars
<1>2. suites' = suites /\ phase' = phase /\ frames' = frames /\ thrown' = thrown /\ error' = error
  BY DEF Configure, FailAssertion, SkipTest, Tick, vars, GFailInTest, GFailInSuite, GSkip
<1>3. frames \in Nat
  BY DEF IndInv, TypeOK
<1>. QED
  BY <1>1, <1>2, <1>3, SameTree DEF IndInv, HandlersFindTheirTarget

LEMMA RunEndsKeepsIndInv ==
  ASSUME IndInv,
         \/ OnTestProgramEndDisabled
         \/ \E n \in 0..Len(suites) : OnTestProgramEnd(n)
         \/ OtherListenerThrows
  PROVE  IndInv'
<1>. USE DEF configVars, OnTestProgramEndDisabled, OnTestProgramEnd, OtherListenerThrows,
             GProgramEnd, GAbort
<1>1. TypeOK' /\ HandlersFindTheirTarget'
  BY DEF IndInv, TypeOK, GTestTypeOK, Phases, Errors, HandlersFindTheirTarget
<1>2. suites' = suites /\ phase' = "Idle"
  OBVIOUS
<1>3. frames' = 0 /\ thrown' = 0
  BY DEF IndInv, TypeOK, OpenPath
<1>. QED BY <1>1, <1>2, <1>3, RunEnds

-----------------------------------------------------------------------------
(***************************************************************************)
(* Callbacks and calls that change the tree.                               *)
(***************************************************************************)
LEMMA ProgramStartKeepsIndInv == IndInv /\ OnTestProgramStart => IndInv'
<1>. SUFFICES ASSUME IndInv, OnTestProgramStart PROVE IndInv'
  OBVIOUS
<1>. USE DEF OnTestProgramStart, GProgramStart, configVars
<1>1. suites' = <<>> /\ Len(suites') = 0 /\ suites' \in Seq(TestSuite)
  BY EmptySeq DEF HandleTestProgramStart
<1>2. TypeOK' /\ HandlersFindTheirTarget'
  BY <1>1 DEF IndInv, TypeOK, GTestTypeOK, Phases, Errors, HandlersFindTheirTarget
<1>3. OpenPath'
  BY <1>1 DEF IndInv, TypeOK, OpenPath
<1>. QED BY <1>2, <1>3 DEF IndInv, OpenSteps

LEMMA SuiteStartKeepsIndInv ==
  ASSUME IndInv, NEW name \in Names, OnTestSuiteStart(name)
  PROVE  IndInv'
<1>. DEFINE suite == NewSuite(Len(suites) + 1, name, format, now)
<1>. USE DEF OnTestSuiteStart, FreshUUID, GSuiteStart, configVars
<1>1. /\ suites \in Seq(TestSuite) /\ Len(suites) \in Nat
      /\ format \in Format /\ now \in Nat /\ frames \in Nat
  BY LenProperties DEF IndInv, TypeOK
<1>2. suite \in TestSuite
  BY <1>1, NewItemTypes
<1>3. IsRunning(suite) /\ ~Finished(suite) /\ suite.cases = <<>>
  BY DEF NewSuite, IsRunning, Finished
<1>. HIDE DEF suite
<1>4. /\ suites' \in Seq(TestSuite)
      /\ Len(suites') = Len(suites) + 1
      /\ \A i \in 1..Len(suites) : suites'[i] = suites[i]
      /\ suites'[Len(suites) + 1] = suite
  BY <1>1, <1>2, AppendProperties DEF HandleTestSuiteStart, suite
<1>5. TypeOK' /\ HandlersFindTheirTarget'
  BY <1>4 DEF IndInv, TypeOK, GTestTypeOK, Phases, HandlersFindTheirTarget
<1>6. OpenPath'
  <2>1. \A i \in 1..Len(suites') : i \in 1..Len(suites) \/ i = Len(suites) + 1
    BY <1>1, <1>4
  <2>2. \A i \in 1..Len(suites) : Finished(suites[i])
    BY DEF IndInv, OpenPath
  <2>3. Len(suite.cases) = 0
    BY <1>3, EmptySeq
  <2>4. \A i \in 1..Len(suites') :
          /\ IsRunning(suites'[i]) \/ Finished(suites'[i])
          /\ i < Len(suites') => Finished(suites'[i])
          /\ \A j \in 1..Len(suites'[i].cases) :
               /\ IsRunning(suites'[i].cases[j]) \/ Finished(suites'[i].cases[j])
               /\ j < Len(suites'[i].cases) \/ Finished(suites'[i]) => Finished(suites'[i].cases[j])
    <3>1. CASE Len(suites) = 0
      BY <1>1, <1>3, <1>4, <2>1, <2>3, <3>1
    <3>. SUFFICES ASSUME NEW i \in 1..Len(suites')
                  PROVE  /\ IsRunning(suites'[i]) \/ Finished(suites'[i])
                         /\ i < Len(suites') => Finished(suites'[i])
                         /\ \A j \in 1..Len(suites'[i].cases) :
                              /\ IsRunning(suites'[i].cases[j]) \/ Finished(suites'[i].cases[j])
                              /\ j < Len(suites'[i].cases) \/ Finished(suites'[i])
                                   => Finished(suites'[i].cases[j])
      OBVIOUS
    <3>2. CASE i \in 1..Len(suites)
      BY <1>4, <2>2, <3>2 DEF IndInv, OpenPath
    <3>3. CASE i = Len(suites) + 1
      BY <1>1, <1>3, <1>4, <2>3, <3>3
    <3>. QED BY <2>1, <3>2, <3>3
  <2>. QED
    BY <1>1, <1>3, <1>4, <2>3, <2>4 DEF IndInv, OpenPath, LastSuite
<1>. QED BY <1>5, <1>6 DEF IndInv, OpenSteps

(***************************************************************************)
(* A change of the running suite or case replaces the last one, and all    *)
(* before it stay finished.                                                *)
(***************************************************************************)
LEMMA SuiteChange ==
  ASSUME IndInv, phase \in {"Suite", "Test"}, NEW suite \in TestSuite,
         suites' = WithSuite(suites, suite)
  PROVE  /\ suites' \in Seq(TestSuite)
         /\ Len(suites') = Len(suites)
         /\ LastSuite' = suite
         /\ \A i \in 1..Len(suites) : i < Len(suites) => suites'[i] = suites[i]
<1>1. /\ suites \in Seq(TestSuite) /\ Len(suites) \in Nat
      /\ RunningSuite(suites) = Len(suites) /\ RunningSuite(suites) # 0
  BY SearchFindsOpenPath, LenProperties DEF IndInv, TypeOK
<1>2. /\ suites' \in Seq(TestSuite)
      /\ Len(suites') = Len(suites)
      /\ \A i \in 1..Len(suites) :
           suites'[i] = IF i = RunningSuite(suites) THEN suite ELSE suites[i]
  BY <1>1, WithSuiteFacts
<1>. QED BY <1>1, <1>2 DEF LastSuite

LEMMA SuiteChangeKeepsOpenPath ==
  ASSUME IndInv, phase \in {"Suite", "Test"}, NEW suite \in TestSuite,
         suites' = WithSuite(suites, suite),
         IsRunning(suite) \/ Finished(suite),
         \A j \in 1..Len(suite.cases) :
           /\ IsRunning(suite.cases[j]) \/ Finished(suite.cases[j])
           /\ j < Len(suite.cases) \/ Finished(suite) => Finished(suite.cases[j]),
         phase' = "Program" => Finished(suite),
         phase' \in {"Suite", "Test"} => IsRunning(suite),
         phase' = "Suite" => \A j \in 1..Len(suite.cases) : Finished(suite.cases[j]),
         phase' = "Test" => Len(suite.cases) # 0 /\ IsRunning(suite.cases[Len(suite.cases)]),
         frames' + thrown' > 0 => phase' = "Test"
  PROVE  OpenPath'
<1>1. /\ Len(suites) \in Nat /\ Len(suites) # 0
      /\ Len(suites') = Len(suites)
      /\ suites'[Len(suites)] = suite
      /\ LastSuite' = suite
      /\ \A i \in 1..Len(suites) : i < Len(suites) => suites'[i] = suites[i]
  BY SuiteChange, SearchFindsOpenPath, LenProperties DEF IndInv, TypeOK, LastSuite
<1>2. \A i \in 1..Len(suites') :
        /\ IsRunning(suites'[i]) \/ Finished(suites'[i])
        /\ i < Len(suites') => Finished(suites'[i])
        /\ \A j \in 1..Len(suites'[i].cases) :
             /\ IsRunning(suites'[i].cases[j]) \/ Finished(suites'[i].cases[j])
             /\ j < Len(suites'[i].cases) \/ Finished(suites'[i]) => Finished(suites'[i].cases[j])
  <2>. SUFFICES ASSUME NEW i \in 1..Len(suites)
                PROVE  /\ IsRunning(suites'[i]) \/ Finished(suites'[i])
                       /\ i < Len(suites') => Finished(suites'[i])
                       /\ \A j \in 1..Len(suites'[i].cases) :
                            /\ IsRunning(suites'[i].cases[j]) \/ Finished(suites'[i].cases[j])
                            /\ j < Len(suites'[i].cases) \/ Finished(suites'[i])
                                 => Finished(suites'[i].cases[j])
    BY <1>1
  <2>1. CASE i = Len(suites)
    BY <1>1, <2>1
  <2>2. CASE i < Len(suites)
    BY <1>1, <2>2 DEF IndInv, OpenPath
  <2>. QED BY <1>1, <2>1, <2>2
<1>3. phase' = "Program" => \A i \in 1..Len(suites') : Finished(suites'[i])
  <2>. SUFFICES ASSUME phase' = "Program", NEW i \in 1..Len(suites)
                PROVE  Finished(suites'[i])
    BY <1>1
  <2>1. CASE i = Len(suites)
    BY <1>1, <2>1
  <2>2. CASE i < Len(suites)
    BY <1>1, <1>2, <2>2
  <2>. QED BY <1>1, <2>1, <2>2
<1>. QED BY <1>1, <1>2, <1>3 DEF OpenPath, LastCase

LEMMA CaseChange ==
  ASSUME IndInv, phase = "Test", NEW case \in TestCase,
         suites' = WithCase(suites, case)
  PROVE  /\ suites' \in Seq(TestSuite)
         /\ LastCase' = case
<1>1. /\ suites \in Seq(TestSuite)
      /\ RunningSuite(suites) = Len(suites) /\ RunningSuite(suites) # 0
      /\ RunningCase(suites) = Len(LastSuite.cases) /\ RunningCase(suites) # 0
  BY SearchFindsOpenPath DEF IndInv, TypeOK
<1>2. /\ Len(suites) \in 1..Len(suites)
      /\ Len(LastSuite.cases) \in 1..Len(LastSuite.cases)
  BY <1>1, LookupFacts DEF LastSuite
<1>. QED BY <1>1, <1>2, WithCaseFacts DEF LastCase, LastSuite

LEMMA CaseChangeKeepsOpenPath ==
  ASSUME IndInv, phase = "Test", NEW case \in TestCase,
         suites' = WithCase(suites, case),
         \/ phase' = "Test" /\ IsRunning(case)
         \/ phase' = "Suite" /\ Finished(case) /\ frames' + thrown' = 0
  PROVE  OpenPath'
<1>. DEFINE n == Len(suites)
            c == Len(LastSuite.cases)
            ss == WithCase(suites, case)
<1>1. /\ suites \in Seq(TestSuite)
      /\ RunningSuite(suites) = n /\ RunningSuite(suites) # 0
      /\ RunningCase(suites) = c /\ RunningCase(suites) # 0
  BY SearchFindsOpenPath DEF IndInv, TypeOK
<1>2. n \in Nat /\ n \in 1..n /\ c \in Nat /\ c \in 1..c
  BY <1>1, LookupFacts DEF LastSuite
<1>3. /\ Len(ss) = n
      /\ \A i \in 1..n :
           /\ ss[i].stage = suites[i].stage
           /\ Len(ss[i].cases) = Len(suites[i].cases)
           /\ \A j \in 1..Len(suites[i].cases) :
                ss[i].cases[j] = IF i = n /\ j = c THEN case ELSE suites[i].cases[j]
  BY <1>1, WithCaseFacts
<1>4. \A i \in 1..n : /\ IsRunning(ss[i]) <=> IsRunning(suites[i])
                      /\ Finished(ss[i]) <=> Finished(suites[i])
  BY <1>3 DEF IsRunning, Finished
<1>. HIDE DEF ss
<1>5. \A j \in 1..c : j < c => Finished(LastSuite.cases[j])
  BY <1>1, <1>2 DEF IndInv, OpenPath, LastSuite
<1>6. /\ Len(ss[n].cases) = c /\ ss[n].cases[c] = case
      /\ \A j \in 1..c : j < c => ss[n].cases[j] = LastSuite.cases[j]
      /\ IsRunning(ss[n]) /\ ~Finished(ss[n])
  BY <1>1, <1>2, <1>3, <1>4 DEF IndInv, OpenPath, LastSuite, IsRunning, Finished
<1>7. \A i \in 1..n :
        /\ IsRunning(ss[i]) \/ Finished(ss[i])
        /\ i < n => Finished(ss[i])
        /\ \A j \in 1..Len(ss[i].cases) :
             /\ IsRunning(ss[i].cases[j]) \/ Finished(ss[i].cases[j])
             /\ j < Len(ss[i].cases) \/ Finished(ss[i]) => Finished(ss[i].cases[j])
  <2>. SUFFICES ASSUME NEW i \in 1..n
                PROVE  /\ IsRunning(ss[i]) \/ Finished(ss[i])
                       /\ i < n => Finished(ss[i])
                       /\ \A j \in 1..Len(ss[i].cases) :
                            /\ IsRunning(ss[i].cases[j]) \/ Finished(ss[i].cases[j])
                            /\ j < Len(ss[i].cases) \/ Finished(ss[i]) => Finished(ss[i].cases[j])
    OBVIOUS
  <2>1. CASE i = n
    <3>1. \A j \in 1..c : j = c \/ j < c
      BY <1>2
    <3>. QED BY <1>2, <1>5, <1>6, <2>1, <3>1
  <2>2. CASE i < n
    BY <1>2, <1>3, <1>4, <2>2 DEF IndInv, OpenPath
  <2>. QED BY <1>2, <2>1, <2>2
<1>8. suites' = ss
  BY DEF ss
<1>9. \A j \in 1..c : Finished(case) => Finished(ss[n].cases[j])
  <2>1. \A j \in 1..c : j = c \/ j < c
    BY <1>2
  <2>. QED BY <1>2, <1>5, <1>6, <2>1
<1>. QED
  BY <1>2, <1>3, <1>6, <1>7, <1>8, <1>9 DEF OpenPath, LastCase, LastSuite

LEMMA TestStartKeepsIndInv ==
  ASSUME IndInv, NEW name \in Names, OnTestStart(name)
  PROVE  IndInv'
<1>. DEFINE case  == NewCase(name, now)
            cases == Append(LastSuite.cases, case)
            suite == [LastSuite EXCEPT !.cases = cases]
<1>. USE DEF configVars
<1>1. /\ phase = "Suite" /\ suites \in Seq(TestSuite) /\ now \in Nat /\ frames \in Nat
      /\ RunningSuite(suites) = Len(suites) /\ RunningSuite(suites) # 0
  BY SearchFindsOpenPath DEF OnTestStart, IndInv, TypeOK
<1>2. /\ phase' = "Test" /\ UNCHANGED <<testFailed, testSkipped, suiteFailed, testRan>>
      /\ suites' = HandleTestCaseStart(suites, name, now)
      /\ UNCHANGED <<error, format, pattern, legacyResults, frames, thrown, now>>
  BY <1>1 DEF OnTestStart, SuiteError, GTestStart
<1>3. LastSuite \in TestSuite /\ LastSuite.cases \in Seq(TestCase) /\ Len(LastSuite.cases) \in Nat
  <2>1. LastSuite \in TestSuite
    BY <1>1, LookupFacts DEF LastSuite
  <2>2. LastSuite.cases \in Seq(TestCase)
    BY <2>1 DEF TestSuite
  <2>. QED BY <2>1, <2>2, LenProperties
<1>4. case \in TestCase /\ IsRunning(case) /\ case.steps = <<>>
  <2>1. case \in TestCase
    BY <1>1, NewItemTypes
  <2>. QED BY <2>1 DEF NewCase, IsRunning
<1>. HIDE DEF case
<1>5. /\ cases \in Seq(TestCase)
      /\ Len(cases) = Len(LastSuite.cases) + 1
      /\ cases[Len(cases)] = case
      /\ \A j \in 1..Len(LastSuite.cases) : cases[j] = LastSuite.cases[j]
  BY <1>3, <1>4, AppendProperties
<1>. HIDE DEF cases
<1>6. suite \in TestSuite /\ suite.cases = cases /\ suite.stage = LastSuite.stage
  BY <1>3, <1>5, SuiteWithCases
<1>7. suites' = WithSuite(suites, suite)
  BY <1>1, <1>2, CaseStartShape DEF case, cases, LastSuite
<1>. HIDE DEF suite
<1>8. IsRunning(suite) /\ ~Finished(suite)
  BY <1>1, <1>6 DEF IndInv, OpenPath, IsRunning, Finished
<1>9. \A j \in 1..Len(cases) : /\ IsRunning(cases[j]) \/ Finished(cases[j])
                               /\ j < Len(cases) => Finished(cases[j])
  <2>1. \A j \in 1..Len(cases) : j \in 1..Len(LastSuite.cases) \/ j = Len(cases)
    BY <1>3, <1>5
  <2>2. \A j \in 1..Len(LastSuite.cases) : Finished(LastSuite.cases[j])
    BY <1>1 DEF IndInv, OpenPath
  <2>3. \A j \in 1..Len(cases) : j < Len(cases) => j \in 1..Len(LastSuite.cases)
    BY <1>3, <1>5
  <2>. QED BY <1>4, <1>5, <2>1, <2>2, <2>3
<1>10. OpenPath'
  <2>1. Len(cases) # 0
    BY <1>3, <1>5
  <2>. QED
    BY <1>1, <1>2, <1>4, <1>5, <1>6, <1>7, <1>8, <1>9, <2>1, SuiteChangeKeepsOpenPath
       DEF IndInv, OpenPath
<1>11. suites' \in Seq(TestSuite) /\ LastCase' = case
  BY <1>1, <1>5, <1>6, <1>7, SuiteChange DEF LastCase
<1>12. TypeOK' /\ HandlersFindTheirTarget'
  BY <1>2, <1>11 DEF IndInv, TypeOK, GTestTypeOK, Phases, HandlersFindTheirTarget
<1>13. OpenSteps'
  <2>1. frames + thrown = 0
    BY <1>1 DEF IndInv, TypeOK, OpenPath
  <2>. QED BY <1>2, <1>4, <1>11, <2>1, EmptySeq DEF OpenSteps
<1>. QED BY <1>10, <1>12, <1>13 DEF IndInv

LEMMA VerdictTypes == /\ CaseVerdict \in Status
                      /\ SuiteVerdict \in Status
                      /\ CurrentTestStatus \in Status
BY DEF CaseVerdict, SuiteVerdict, CurrentTestStatus, Status

\* The case and the steps a test's calls work on.
LEMMA OpenCaseFacts ==
  ASSUME IndInv, phase = "Test"
  PROVE  /\ suites \in Seq(TestSuite)
         /\ LastCase \in TestCase /\ IsRunning(LastCase)
         /\ LastCase.steps \in Seq(Step) /\ Len(LastCase.steps) \in Nat
         /\ LastCase = suites[RunningSuite(suites)].cases[RunningCase(suites)]
         /\ CaseError = "none"
<1>1. /\ suites \in Seq(TestSuite)
      /\ RunningSuite(suites) = Len(suites) /\ RunningSuite(suites) # 0
      /\ RunningCase(suites) = Len(LastSuite.cases) /\ RunningCase(suites) # 0
  BY SearchFindsOpenPath DEF IndInv, TypeOK
<1>2. LastCase = suites[RunningSuite(suites)].cases[RunningCase(suites)]
  BY <1>1 DEF LastCase, LastSuite
<1>3. LastCase \in TestCase
  BY <1>1, <1>2, LookupFacts
<1>4. LastCase.steps \in Seq(Step) /\ Len(LastCase.steps) \in Nat
  BY <1>3, LenProperties DEF TestCase
<1>. QED
  BY <1>1, <1>2, <1>3, <1>4 DEF IndInv, OpenPath, CaseError, SuiteError

LEMMA TestEndKeepsIndInv == IndInv /\ OnTestEnd => IndInv'
<1>. SUFFICES ASSUME IndInv, OnTestEnd PROVE IndInv'
  OBVIOUS
<1>. DEFINE case == Closed(LastCase, now, CaseVerdict)
<1>. USE DEF configVars
<1>1. phase = "Test" /\ now \in Nat /\ CaseError = "none"
  BY OpenCaseFacts DEF OnTestEnd, IndInv, TypeOK
<1>2. /\ GTestEnd
      /\ suites' = HandleTestCaseEnd(suites, now, CaseVerdict)
      /\ frames' = 0 /\ thrown' = 0
      /\ UNCHANGED <<error, format, pattern, legacyResults, now>>
  BY <1>1 DEF OnTestEnd
<1>3. case \in TestCase /\ Finished(case)
  BY <1>1, OpenCaseFacts, VerdictTypes, ClosedCase DEF Finished
<1>4. suites' = WithCase(suites, case)
  BY <1>1, <1>2, OpenCaseFacts, CaseEndShape
<1>. HIDE DEF case
<1>5. OpenPath' /\ suites' \in Seq(TestSuite)
  BY <1>1, <1>2, <1>3, <1>4, CaseChange, CaseChangeKeepsOpenPath DEF GTestEnd
<1>6. GTestTypeOK'
  BY <1>2, Zenon DEF IndInv, TypeOK, GTestTypeOK, GTestEnd, Phases
<1>7. TypeOK' /\ HandlersFindTheirTarget'
  BY <1>2, <1>5, <1>6 DEF IndInv, TypeOK, HandlersFindTheirTarget
<1>. QED BY <1>2, <1>5, <1>7 DEF IndInv, OpenSteps, GTestEnd

LEMMA StepStartKeepsIndInv ==
  ASSUME IndInv, NEW type \in StepTypes, StepStart(type)
  PROVE  IndInv'
<1>. DEFINE step  == NewStep(type, now)
            steps == Append(LastCase.steps, step)
            case  == [LastCase EXCEPT !.steps = steps]
<1>. USE DEF configVars
<1>1. /\ phase = "Test" /\ now \in Nat /\ frames \in Nat /\ thrown \in Nat
      /\ type \in StepType
      /\ suites' = HandleTestStepStart(suites, type, now)
      /\ frames' = frames + 1 /\ thrown' = thrown
      /\ UNCHANGED <<gtestVars, error, format, pattern, legacyResults, now>>
  BY LegacyAssumption DEF StepStart, IndInv, TypeOK
<1>2. /\ LastCase \in TestCase /\ IsRunning(LastCase)
      /\ LastCase.steps \in Seq(Step) /\ Len(LastCase.steps) \in Nat
      /\ LastCase = suites[RunningSuite(suites)].cases[RunningCase(suites)]
  BY <1>1, OpenCaseFacts
<1>3. step \in Step /\ IsRunning(step)
  <2>1. \E name \in Names : TRUE
    BY <1>2 DEF TestCase
  <2>2. step \in Step
    BY <1>1, <2>1, NewItemTypes
  <2>. QED BY <2>2 DEF NewStep, IsRunning
<1>4. suites' = WithCase(suites, case)
  BY <1>1, <1>2, StepStartShape
<1>. HIDE DEF step
<1>5. /\ steps \in Seq(Step)
      /\ Len(steps) = Len(LastCase.steps) + 1
      /\ steps[Len(steps)] = step
      /\ \A k \in 1..Len(LastCase.steps) : steps[k] = LastCase.steps[k]
  <2>1. LastCase.steps \in Seq(Step) /\ step \in Step
    BY <1>2, <1>3
  <2>. QED BY <2>1, AppendFacts
<1>. HIDE DEF steps
<1>6. case \in TestCase /\ case.steps = steps /\ IsRunning(case)
  BY <1>2, <1>5, CaseWithSteps DEF IsRunning
<1>. HIDE DEF case
<1>7. suites' \in Seq(TestSuite) /\ LastCase' = case
  BY <1>1, <1>4, <1>6, CaseChange
<1>8. OpenPath'
  BY <1>1, <1>4, <1>6, CaseChangeKeepsOpenPath DEF gtestVars
<1>9. GTestTypeOK'
  BY <1>1, Zenon DEF IndInv, TypeOK, GTestTypeOK, gtestVars
<1>10. TypeOK' /\ HandlersFindTheirTarget'
  BY <1>1, <1>7, <1>9 DEF IndInv, TypeOK, HandlersFindTheirTarget
<1>11. OpenSteps'
  <2>1. frames + thrown <= Len(LastCase.steps)
    BY <1>1 DEF IndInv, OpenSteps
  <2>2. ASSUME NEW k \in 1..Len(steps)
        PROVE  IF k <= Len(steps) - (frames + 1 + thrown)
               THEN Finished(steps[k]) ELSE IsRunning(steps[k])
    <3>1. CASE k = Len(steps)
      BY <1>1, <1>2, <1>3, <1>5, <3>1
    <3>2. CASE k \in 1..Len(LastCase.steps)
      <4>1. IF k <= Len(LastCase.steps) - (frames + thrown)
            THEN Finished(LastCase.steps[k]) ELSE IsRunning(LastCase.steps[k])
        BY <1>1, <3>2 DEF IndInv, OpenSteps
      <4>2. k <= Len(LastCase.steps) - (frames + thrown)
              <=> k <= Len(steps) - (frames + 1 + thrown)
        BY <1>1, <1>2, <1>5
      <4>. QED BY <1>5, <3>2, <4>1, <4>2
    <3>3. k = Len(steps) \/ k \in 1..Len(LastCase.steps)
      <4>. DEFINE n == Len(LastCase.steps)
      <4>1. n \in Nat /\ Len(steps) = n + 1
        BY <1>2, <1>5
      <4>. HIDE DEF n
      <4>2. k = Len(steps) \/ k \in 1..n
        BY <4>1
      <4>. QED BY <4>2 DEF n
    <3>. QED BY <3>1, <3>2, <3>3
  <2>3. LastCase'.steps = steps /\ frames' + thrown' = frames + 1 + thrown
    BY <1>1, <1>6, <1>7
  <2>4. frames + 1 + thrown <= Len(steps)
    BY <1>1, <1>2, <1>5, <2>1
  <2>. QED BY <2>2, <2>3, <2>4 DEF OpenSteps
<1>. QED BY <1>8, <1>10, <1>11 DEF IndInv

LEMMA StepReturnKeepsIndInv == IndInv /\ StepReturn => IndInv'
<1>. SUFFICES ASSUME IndInv, StepReturn PROVE IndInv'
  OBVIOUS
<1>. DEFINE n     == Len(LastCase.steps)
            open  == frames + thrown
            m     == n - open + 1
            step  == Closed(LastCase.steps[m], now, CurrentTestStatus)
            steps == [LastCase.steps EXCEPT ![m] = step]
            case  == [LastCase EXCEPT !.steps = steps]
<1>. USE DEF configVars
<1>1. /\ frames \in Nat /\ thrown \in Nat /\ now \in Nat /\ frames > 0
      /\ phase = "Test"
  BY DEF StepReturn, IndInv, TypeOK, OpenPath
<1>2. /\ LastCase \in TestCase /\ IsRunning(LastCase)
      /\ LastCase.steps \in Seq(Step) /\ n \in Nat
      /\ LastCase = suites[RunningSuite(suites)].cases[RunningCase(suites)]
      /\ CaseError = "none"
  BY <1>1, OpenCaseFacts
<1>3. open <= n /\ m \in 1..n
  BY <1>1, <1>2 DEF IndInv, OpenSteps
<1>4. RunningStep(suites) = m /\ StepError = "none"
  BY <1>1, <1>2, <1>3, SearchFindsOpenPath DEF StepError
<1>5. /\ suites' = HandleTestStepEnd(suites, now, CurrentTestStatus)
      /\ frames' = frames - 1 /\ thrown' = thrown
      /\ UNCHANGED <<gtestVars, error, format, pattern, legacyResults, now>>
  BY <1>4 DEF StepReturn
<1>6. suites' = WithCase(suites, case)
  BY <1>2, <1>4, <1>5, StepEndShape
<1>7. step \in Step /\ Finished(step)
  <2>1. LastCase.steps[m] \in Step
    BY <1>2, <1>3, ElementOfSeq
  <2>. HIDE DEF m
  <2>. QED BY <1>1, <2>1, VerdictTypes, ClosedStep DEF Finished
<1>. HIDE DEF step
<1>8. /\ steps \in Seq(Step)
      /\ Len(steps) = n
      /\ \A k \in 1..n : steps[k] = IF k = m THEN step ELSE LastCase.steps[k]
  <2>. HIDE DEF m
  <2>. QED BY <1>2, <1>3, <1>7, ExceptSeq
<1>. HIDE DEF steps
<1>9. case \in TestCase /\ case.steps = steps /\ IsRunning(case)
  BY <1>2, <1>8, CaseWithSteps DEF IsRunning
<1>. HIDE DEF case
<1>10. suites' \in Seq(TestSuite) /\ LastCase' = case
  BY <1>1, <1>6, <1>9, CaseChange
<1>11. OpenPath'
  BY <1>1, <1>5, <1>6, <1>9, CaseChangeKeepsOpenPath DEF gtestVars
<1>12. GTestTypeOK'
  BY <1>5, Zenon DEF IndInv, TypeOK, GTestTypeOK, gtestVars
<1>13. frames' \in Nat
  BY <1>1, <1>5
<1>14. TypeOK' /\ HandlersFindTheirTarget'
  BY <1>1, <1>5, <1>10, <1>12, <1>13 DEF IndInv, TypeOK, HandlersFindTheirTarget
<1>15. OpenSteps'
  <2>1. ASSUME NEW k \in 1..n
        PROVE  IF k <= n - (frames - 1 + thrown)
               THEN Finished(steps[k]) ELSE IsRunning(steps[k])
    <3>1. CASE k = m
      <4>1. k <= n - (frames - 1 + thrown)
        BY <1>1, <1>2, <3>1
      <4>2. steps[k] = step
        <5>. HIDE DEF m
        <5>. QED BY <1>8, <3>1
      <4>. QED BY <1>7, <4>1, <4>2
    <3>2. CASE k # m
      <4>1. IF k <= n - open THEN Finished(LastCase.steps[k]) ELSE IsRunning(LastCase.steps[k])
        BY <1>1 DEF IndInv, OpenSteps
      <4>2. k <= n - open <=> k <= n - (frames - 1 + thrown)
        BY <1>1, <1>2, <3>2
      <4>. QED BY <1>8, <3>2, <4>1, <4>2
    <3>. QED BY <3>1, <3>2
  <2>2. LastCase'.steps = steps /\ frames' + thrown' = frames - 1 + thrown
    BY <1>1, <1>5, <1>9, <1>10
  <2>3. frames - 1 + thrown <= n
    BY <1>1, <1>2, <1>3
  <2>. HIDE DEF n
  <2>. QED BY <1>8, <2>1, <2>2, <2>3 DEF OpenSteps
<1>. QED BY <1>11, <1>14, <1>15 DEF IndInv

LEMMA OpenSuiteFacts ==
  ASSUME IndInv, phase \in {"Suite", "Test"}
  PROVE  /\ LastSuite \in TestSuite /\ IsRunning(LastSuite) /\ ~Finished(LastSuite)
         /\ LastSuite = suites[RunningSuite(suites)]
         /\ SuiteError = "none"
<1>1. /\ suites \in Seq(TestSuite)
      /\ RunningSuite(suites) = Len(suites) /\ RunningSuite(suites) # 0
  BY SearchFindsOpenPath DEF IndInv, TypeOK
<1>2. LastSuite = suites[RunningSuite(suites)]
  BY <1>1 DEF LastSuite
<1>3. LastSuite \in TestSuite
  BY <1>1, <1>2, LookupFacts
<1>4. IsRunning(LastSuite) /\ ~Finished(LastSuite)
  BY DEF IndInv, OpenPath, IsRunning, Finished
<1>. QED BY <1>1, <1>2, <1>3, <1>4 DEF SuiteError

LEMMA SuiteEndKeepsIndInv == IndInv /\ OnTestSuiteEnd => IndInv'
<1>. SUFFICES ASSUME IndInv, OnTestSuiteEnd PROVE IndInv'
  OBVIOUS
<1>. DEFINE closed == Closed(LastSuite, now, SuiteVerdict)
            suite  == AddTMSLink(closed, pattern)
<1>. USE DEF configVars
<1>1. /\ phase = "Suite" /\ now \in Nat /\ pattern \in Patterns
      /\ frames + thrown = 0 /\ frames = 0 /\ thrown = 0
  BY DEF OnTestSuiteEnd, IndInv, TypeOK, OpenPath
<1>2. /\ LastSuite \in TestSuite
      /\ LastSuite = suites[RunningSuite(suites)]
      /\ SuiteError = "none"
  BY <1>1, OpenSuiteFacts
<1>3. suites' = WithSuite(suites, suite)
  BY <1>2, SuiteEndShape DEF OnTestSuiteEnd
<1>4. /\ suite \in TestSuite /\ Finished(suite) /\ ~IsRunning(suite)
      /\ suite.cases = LastSuite.cases
  <2>1. /\ closed \in TestSuite /\ closed.stage = "FINISHED"
        /\ closed.cases = LastSuite.cases
    BY <1>1, <1>2, VerdictTypes, ClosedSuite
  <2>. HIDE DEF closed
  <2>. QED BY <1>1, <2>1, TMSLinkFacts DEF Finished, IsRunning
<1>. HIDE DEF suite
<1>5. phase' \in {"Program", "Idle"}
  BY <1>1, <1>2 DEF OnTestSuiteEnd, GSuiteEnd, GAbort
<1>6. error' \in {error, "OutOfRange"}
  BY <1>2 DEF OnTestSuiteEnd
<1>7. GTestTypeOK'
  BY <1>2, Zenon DEF IndInv, TypeOK, GTestTypeOK, OnTestSuiteEnd, GSuiteEnd, GAbort, Phases
<1>8. suites' \in Seq(TestSuite)
  BY <1>1, <1>3, <1>4, SuiteChange
<1>9. frames' = 0 /\ thrown' = 0 /\ UNCHANGED <<format, pattern, legacyResults, now>>
  BY <1>1 DEF OnTestSuiteEnd
<1>10. TypeOK' /\ HandlersFindTheirTarget'
  BY <1>6, <1>7, <1>8, <1>9 DEF IndInv, TypeOK, Errors, HandlersFindTheirTarget
<1>11. \A j \in 1..Len(suite.cases) : Finished(suite.cases[j])
  BY <1>1, <1>4 DEF IndInv, OpenPath
<1>12. OpenPath'
  BY <1>1, <1>3, <1>4, <1>5, <1>9, <1>11, SuiteChangeKeepsOpenPath
<1>. QED BY <1>5, <1>10, <1>12 DEF IndInv, OpenSteps

LEMMA SetSuitePropertyKeepsIndInv ==
  ASSUME IndInv, NEW property \in SuiteProperties, NEW value \in Names,
         SetTestSuiteProperty(property, value)
  PROVE  IndInv'
<1>. USE DEF configVars
<1>1. /\ SuiteError = "none"
      /\ suites' = SetSuiteProperty(suites, property, value)
      /\ UNCHANGED <<gtestVars, format, pattern, legacyResults, frames, thrown, error, now>>
  BY DEF SetTestSuiteProperty
<1>2. suites \in Seq(TestSuite) /\ RunningSuite(suites) # 0
  BY <1>1 DEF SuiteError, IndInv, TypeOK
<1>3. suites[RunningSuite(suites)] \in TestSuite
  BY <1>2, LookupFacts
<1>4. PICK suite \in TestSuite :
        /\ suites' = WithSuite(suites, suite)
        /\ suite.stage = suites[RunningSuite(suites)].stage
        /\ suite.cases = suites[RunningSuite(suites)].cases
  BY <1>1, <1>3, SuitePropertyShape
<1>5. /\ RunningSuite(suites) \in 1..Len(suites)
      /\ suites' \in Seq(TestSuite)
      /\ Len(suites') = Len(suites)
      /\ \A i \in 1..Len(suites) :
           /\ suites'[i].stage = suites[i].stage
           /\ suites'[i].cases = suites[i].cases
  <2>1. RunningSuite(suites) \in 1..Len(suites)
    BY <1>2, LookupFacts
  <2>. QED BY <1>2, <1>4, <2>1, WithSuiteFacts
<1>6. GTestTypeOK'
  BY <1>1, Zenon DEF IndInv, TypeOK, GTestTypeOK, gtestVars
<1>7. TypeOK' /\ HandlersFindTheirTarget'
  BY <1>1, <1>5, <1>6 DEF IndInv, TypeOK, HandlersFindTheirTarget
<1>8. /\ Len(suites) \in Nat /\ phase' = phase
      /\ LastSuite'.stage = LastSuite.stage /\ LastSuite'.cases = LastSuite.cases
      /\ LastCase' = LastCase
  BY <1>1, <1>2, <1>5 DEF LastSuite, LastCase, gtestVars
<1>9. OpenPath'
  BY <1>1, <1>5, <1>8 DEF IndInv, OpenPath, IsRunning, Finished
<1>10. OpenSteps'
  BY <1>1, <1>8 DEF IndInv, OpenSteps
<1>. QED BY <1>7, <1>9, <1>10 DEF IndInv

LEMMA SetCaseNameKeepsIndInv ==
  ASSUME IndInv, NEW value \in Names, SetTestCaseName(value)
  PROVE  IndInv'
<1>. DEFINE r == RunningSuite(suites)
            c == RunningCase(suites)
            case == [suites[r].cases[c] EXCEPT !.name = value]
            ss == WithCase(suites, case)
<1>. USE DEF configVars
<1>1. /\ CaseError = "none"
      /\ suites' = SetCaseName(suites, value)
      /\ UNCHANGED <<gtestVars, format, pattern, legacyResults, frames, thrown, error, now>>
  BY DEF SetTestCaseName
<1>2. suites \in Seq(TestSuite) /\ c # 0
  BY <1>1 DEF CaseError, SuiteError, IndInv, TypeOK
<1>3. /\ case \in TestCase
      /\ case.steps = suites[r].cases[c].steps
      /\ case.stage = suites[r].cases[c].stage
  <2>1. suites[r].cases[c] \in TestCase
    BY <1>2, LookupFacts
  <2>. QED BY <2>1, CaseWithName
<1>4. suites' = ss
  BY <1>1, CaseNameShape
<1>. HIDE DEF case
<1>5. /\ ss \in Seq(TestSuite)
      /\ Len(ss) = Len(suites)
      /\ \A i \in 1..Len(suites) :
           /\ ss[i].stage = suites[i].stage
           /\ Len(ss[i].cases) = Len(suites[i].cases)
           /\ \A j \in 1..Len(suites[i].cases) :
                /\ ss[i].cases[j].stage = suites[i].cases[j].stage
                /\ ss[i].cases[j].steps = suites[i].cases[j].steps
  <2>1. /\ ss \in Seq(TestSuite)
        /\ Len(ss) = Len(suites)
        /\ \A i \in 1..Len(suites) :
             /\ ss[i].stage = suites[i].stage
             /\ Len(ss[i].cases) = Len(suites[i].cases)
             /\ \A j \in 1..Len(suites[i].cases) :
                  ss[i].cases[j] = IF i = r /\ j = c THEN case ELSE suites[i].cases[j]
    BY <1>2, <1>3, WithCaseFacts
  <2>. HIDE DEF ss, r, c
  <2>2. ASSUME NEW i \in 1..Len(suites), NEW j \in 1..Len(suites[i].cases)
        PROVE  /\ ss[i].cases[j].stage = suites[i].cases[j].stage
               /\ ss[i].cases[j].steps = suites[i].cases[j].steps
    BY <1>3, <2>1
  <2>. QED BY <2>1, <2>2
<1>. HIDE DEF ss
<1>6. GTestTypeOK'
  BY <1>1, Zenon DEF IndInv, TypeOK, GTestTypeOK, gtestVars
<1>7. TypeOK' /\ HandlersFindTheirTarget'
  BY <1>1, <1>4, <1>5, <1>6 DEF IndInv, TypeOK, HandlersFindTheirTarget
<1>8. /\ Len(suites) \in Nat /\ phase' = phase
      /\ \A i \in 1..Len(suites) : Len(suites[i].cases) \in Nat
  <2>1. \A i \in 1..Len(suites) : suites[i].cases \in Seq(TestCase)
    <3>1. \A i \in 1..Len(suites) : suites[i] \in TestSuite
      BY <1>2, ElementOfSeq
    <3>. QED BY <3>1 DEF TestSuite
  <2>. QED BY <1>1, <1>2, <2>1, LenProperties DEF gtestVars
<1>9. OpenPath'
  <2>1. \A i \in 1..Len(suites) :
          /\ IsRunning(ss[i]) <=> IsRunning(suites[i])
          /\ Finished(ss[i]) <=> Finished(suites[i])
          /\ \A j \in 1..Len(suites[i].cases) :
               /\ IsRunning(ss[i].cases[j]) <=> IsRunning(suites[i].cases[j])
               /\ Finished(ss[i].cases[j]) <=> Finished(suites[i].cases[j])
    BY <1>5 DEF IsRunning, Finished
  <2>2. /\ Len(suites) # 0 => Len(suites) \in 1..Len(suites)
        /\ \A i \in 1..Len(suites) :
             Len(suites[i].cases) # 0 => Len(suites[i].cases) \in 1..Len(suites[i].cases)
    BY <1>8
  <2>3. /\ Len(suites') = Len(suites)
        /\ \A i \in 1..Len(suites) : Len(suites'[i].cases) = Len(suites[i].cases)
    BY <1>4, <1>5
  <2>. QED
    BY <1>1, <1>4, <1>8, <2>1, <2>2, <2>3 DEF IndInv, OpenPath, LastSuite, LastCase
<1>10. OpenSteps'
  <2>. SUFFICES ASSUME phase = "Test" PROVE LastCase'.steps = LastCase.steps
    BY <1>1, <1>8 DEF IndInv, OpenSteps
  <2>1. Len(suites) # 0 /\ Len(LastSuite.cases) # 0
    BY DEF IndInv, OpenPath
  <2>. QED BY <1>4, <1>5, <1>8, <2>1 DEF LastSuite, LastCase
<1>. QED BY <1>7, <1>9, <1>10 DEF IndInv

-----------------------------------------------------------------------------
(***************************************************************************)
(* The theorems.                                                           *)
(***************************************************************************)
LEMMA NextKeepsIndInv == IndInv /\ [Next]_vars => IndInv'
<1>. SUFFICES ASSUME IndInv, [Next]_vars PROVE IndInv'
  OBVIOUS
<1>1. CASE OnTestProgramStart
  BY <1>1, ProgramStartKeepsIndInv
<1>2. CASE \E name \in Names : OnTestSuiteStart(name) \/ OnTestStart(name)
  BY <1>2, SuiteStartKeepsIndInv, TestStartKeepsIndInv
<1>3. CASE OnTestEnd
  BY <1>3, TestEndKeepsIndInv
<1>4. CASE OnTestSuiteEnd
  BY <1>4, SuiteEndKeepsIndInv
<1>5. CASE \/ OnTestProgramEndDisabled
           \/ \E n \in 0..Len(suites) : OnTestProgramEnd(n)
           \/ OtherListenerThrows
  BY <1>5, RunEndsKeepsIndInv
<1>6. CASE \E type \in StepTypes : StepStart(type)
  BY <1>6, StepStartKeepsIndInv
<1>7. CASE StepReturn
  BY <1>7, StepReturnKeepsIndInv
<1>8. CASE \E n \in 1..frames : StepThrow(n)
  BY <1>8, StepThrowKeepsIndInv
<1>9. CASE \E property \in SuiteProperties, value \in Names : SetTestSuiteProperty(property, value)
  BY <1>9, SetSuitePropertyKeepsIndInv
<1>10. CASE \E value \in Names : SetTestCaseName(value)
  BY <1>10, SetCaseNameKeepsIndInv
<1>11. CASE Configure \/ FailAssertion \/ SkipTest \/ Tick \/ UNCHANGED vars
  BY <1>11, EnvironmentKeepsIndInv
<1>. QED
  BY <1>1, <1>2, <1>3, <1>4, <1>5, <1>6, <1>7, <1>8, <1>9, <1>10, <1>11 DEF Next

\* IndInv holds in every state of every run.
THEOREM InvariantHolds == Spec => []IndInv
BY InitEstablishesIndInv, NextKeepsIndInv, PTL DEF Spec

\* The tree is made of the model's records, whatever the tests call.
THEOREM TypeCorrect == Spec => []TypeOK
<1>1. IndInv => TypeOK
  BY DEF IndInv
<1>. QED BY <1>1, InvariantHolds, PTL

\* The event handlers of the library never throw their NoRunning... exceptions
\* when gtest calls them or when a step returns.
THEOREM HandlersAlwaysFindTheirTarget == Spec => []HandlersFindTheirTarget
<1>1. IndInv => HandlersFindTheirTarget
  BY DEF IndInv
<1>. QED BY <1>1, InvariantHolds, PTL

\* At most the last suite and its last case are open, and they are exactly
\* while gtest is inside them.
THEOREM PathIsSingle == Spec => []SingleRunningPath
<1>1. IndInv => SingleRunningPath
  BY SearchFindsOpenPath DEF SingleRunningPath, IndInv, OpenPath
<1>. QED BY <1>1, InvariantHolds, PTL

\* The open case has as many RUNNING steps as addStep calls that did not end
\* by returning.
THEOREM StepsBalance == Spec => []RunningStepsBalance
<1>1. ASSUME IndInv, phase = "Test"
      PROVE  Cardinality({ i \in DOMAIN CurrentSteps(suites) : IsRunning(CurrentSteps(suites)[i]) })
               = frames + thrown
  <2>. DEFINE steps == LastCase.steps
              n     == Len(steps)
              open  == frames + thrown
              S     == { i \in DOMAIN steps : IsRunning(steps[i]) }
  <2>1. CurrentSteps(suites) = steps
    BY <1>1, SearchFindsOpenPath
  <2>2. steps \in Seq(Step) /\ n \in Nat /\ DOMAIN steps = 1..n /\ open \in Nat /\ open <= n
    BY <1>1, OpenCaseFacts, LenProperties DEF IndInv, TypeOK, OpenSteps
  <2>3. \A k \in 1..n : IF k <= n - open THEN Finished(steps[k]) ELSE IsRunning(steps[k])
    BY <1>1 DEF IndInv, OpenSteps
  <2>. HIDE DEF steps, n, open
  <2>4. \A k \in 1..n : IsRunning(steps[k]) <=> k > n - open
    BY <2>2, <2>3 DEF IsRunning, Finished
  <2>5. S = (n - open + 1)..n
    BY <2>2, <2>4
  <2>6. Cardinality(S) = open
    <3>1. n - open + 1 \in Int /\ n \in Int
      BY <2>2
    <3>2. Cardinality((n - open + 1)..n)
            = IF n - open + 1 > n THEN 0 ELSE n - (n - open + 1) + 1
      BY <3>1, FS_Interval
    <3>3. (IF n - open + 1 > n THEN 0 ELSE n - (n - open + 1) + 1) = open
      BY <2>2
    <3>. HIDE DEF S
    <3>. QED BY <2>5, <3>2, <3>3
  <2>. QED BY <2>1, <2>6 DEF open
<1>2. IndInv => RunningStepsBalance
  BY <1>1 DEF RunningStepsBalance
<1>. QED BY <1>2, InvariantHolds, PTL
=============================================================================
