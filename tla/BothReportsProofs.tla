-------------------------- MODULE BothReportsProofs --------------------------
(***************************************************************************)
(* The two reports of one run agree on steps, verdicts and names, for      *)
(* every bound and every nesting of steps that return or throw.  What each *)
(* half does is proved in its own module; here is the coupling of the      *)
(* legacy tree with the thread-local variables.                            *)
(***************************************************************************)
EXTENDS BothReports, LegacyHistoryProofs

AP == INSTANCE Allure2ReportProofs WITH MaxItems <- 0, Names <- Texts, now <- 0, MaxTime <- 0

-----------------------------------------------------------------------------
(***************************************************************************)
(* Every step of both is a step of each.                                   *)
(***************************************************************************)
LEMMA InitOfBoth == BothInit => Init /\ A!Init /\ AP!Init
BY DEF BothInit, A!Init, AP!Init, A!GTestInit, AP!GTestInit, A!NoItems, AP!NoItems, A!Kinds,
       AP!Kinds, A!StepKinds, AP!StepKinds, A!GlobalKeys, AP!GlobalKeys

LEMMA QualifiedIsName ==
  ASSUME AP!TypeInv, NEW name \in GTestNames
  PROVE  Qualified(testSuite, name) \in Names
BY BothAssumption DEF AP!TypeInv

LEMMA LegacyHalf == AP!TypeInv /\ [BothNext]_bothVars => [Next]_vars
<1>. SUFFICES ASSUME AP!TypeInv, [BothNext]_bothVars PROVE [Next]_vars
  OBVIOUS
<1>1. CASE UNCHANGED bothVars
  BY <1>1 DEF bothVars
<1>2. CASE \E name \in GTestNames : SuiteStarts(name) \/ TestStarts(name)
  BY <1>2, BothAssumption, QualifiedIsName DEF SuiteStarts, TestStarts, Next
<1>3. CASE \E name \in Texts : CaseIsNamed(name)
  <2>1. PICK name \in Texts : CaseIsNamed(name)
    BY <1>3
  <2>2. CASE SetTestCaseName(name)
    BY <2>2, BothAssumption DEF Next
  <2>3. CASE UNCHANGED legacyVars
    <3>1. UNCHANGED gtestVars
      BY <2>1 DEF CaseIsNamed, A!SetTestCaseName, A!gtestVars, gtestVars
    <3>. QED BY <2>3, <3>1 DEF legacyVars, vars
  <2>. QED BY <2>1, <2>2, <2>3 DEF CaseIsNamed
<1>4. CASE ProgramStarts \/ TestEnds \/ SuiteEnds \/ ProgramEnds \/ Allure2Throws
  BY <1>4 DEF ProgramStarts, TestEnds, SuiteEnds, ProgramEnds, Allure2Throws, Next
<1>5. CASE \/ \E type \in StepTypes : StepStarts(type)
           \/ StepReturns
           \/ \E n \in 1..frames : StepThrows(n)
  BY <1>5 DEF StepStarts, StepReturns, StepThrows, Next
<1>6. CASE AssertionFails \/ TestIsSkipped \/ TimePasses
  BY <1>6 DEF AssertionFails, TestIsSkipped, TimePasses, Next
<1>7. CASE BuildListener \/ \E enable \in BOOLEAN : SetGenerateLegacyResults(enable)
  BY <1>7 DEF BuildListener, SetGenerateLegacyResults, Next
<1>. QED BY <1>1, <1>2, <1>3, <1>4, <1>5, <1>6, <1>7 DEF BothNext

\* Configuration and the legacy clock leave Allure 2 alone, and an exception
\* passes as many addStep calls as it has Step objects for.
LEMMA Allure2Half == frames = Len(stack) /\ [BothNext]_bothVars => [A!Next]_(A!vars)
<1>. SUFFICES ASSUME frames = Len(stack), [BothNext]_bothVars PROVE [A!Next]_(A!vars)
  OBVIOUS
<1>1. CASE UNCHANGED bothVars
  BY <1>1 DEF bothVars
<1>2. CASE \E name \in GTestNames : SuiteStarts(name) \/ TestStarts(name)
  BY <1>2 DEF SuiteStarts, TestStarts, A!Next
<1>3. CASE \E name \in Texts : CaseIsNamed(name)
  BY <1>3 DEF CaseIsNamed, A!Next
<1>4. CASE ProgramStarts \/ TestEnds \/ SuiteEnds \/ ProgramEnds \/ Allure2Throws
  BY <1>4 DEF ProgramStarts, TestEnds, SuiteEnds, ProgramEnds, Allure2Throws, A!Next
<1>5. CASE \/ \E type \in StepTypes : StepStarts(type)
           \/ StepReturns
           \/ \E n \in 1..frames : StepThrows(n)
  BY <1>5 DEF StepStarts, StepReturns, StepThrows, A!Next
<1>6. CASE AssertionFails \/ TestIsSkipped
  BY <1>6 DEF AssertionFails, TestIsSkipped, A!Next
<1>7. CASE \/ BuildListener \/ TimePasses
           \/ \E enable \in BOOLEAN : SetGenerateLegacyResults(enable)
  <2>1. UNCHANGED <<allure2Vars, gtestVars>>
    BY <1>7 DEF BuildListener, SetGenerateLegacyResults, Configure, TimePasses, Tick
  <2>. QED BY <2>1 DEF allure2Vars, gtestVars, A!vars, A!gtestVars, A!testInfo, A!tlVars, A!history
<1>. QED BY <1>1, <1>2, <1>3, <1>4, <1>5, <1>6, <1>7 DEF BothNext

-----------------------------------------------------------------------------
(***************************************************************************)
(* The actions of A are those that Allure2ReportProofs is about.           *)
(***************************************************************************)
LEMMA SameVars == UNCHANGED A!vars => UNCHANGED AP!vars
BY DEF A!vars, AP!vars, A!gtestVars, AP!gtestVars, A!testInfo, AP!testInfo, A!tlVars, AP!tlVars,
       A!history, AP!history

LEMMA SameSteps ==
  /\ A!StepStart <=> AP!StepStart
  /\ A!StepReturn <=> AP!StepReturn
  /\ \A n : A!StepThrow(n) <=> AP!StepThrow(n)
BY DEF A!StepStart, AP!StepStart, A!StepReturn, AP!StepReturn, A!StepThrow, AP!StepThrow,
       A!Catch, AP!Catch, A!Unwound, AP!Unwound, A!Ended, AP!Ended, A!NewStep, AP!NewStep,
       A!Front, AP!Front, A!Last, AP!Last,
       A!GFailInTest, AP!GFailInTest, A!gtestVars, AP!gtestVars, A!testInfo, AP!testInfo,
       A!history, AP!history

LEMMA SameTests ==
  /\ \A name : A!OnTestStart(name) <=> AP!OnTestStart(name)
  /\ A!OnTestEnd <=> AP!OnTestEnd
  /\ A!RunIsCutShort <=> AP!RunIsCutShort
<1>1. A!Result = AP!Result
  BY DEF A!Result, AP!Result, A!SuiteName, AP!SuiteName, A!CaseName, AP!CaseName,
         A!ResultStatus, AP!ResultStatus, A!Skipped, AP!Skipped, A!StopMs, AP!StopMs,
         A!TMSLink, AP!TMSLink, A!Kinds, AP!Kinds, A!StepKinds, AP!StepKinds
<1>. QED
  BY <1>1 DEF A!OnTestStart, AP!OnTestStart, A!BeginTestCase, AP!BeginTestCase,
         A!NoItems, AP!NoItems, A!Kinds, AP!Kinds, A!StepKinds, AP!StepKinds,
         A!OnTestEnd, AP!OnTestEnd, A!EndTestCase, AP!EndTestCase,
         A!RunIsCutShort, AP!RunIsCutShort, A!GTestStart, AP!GTestStart,
         A!GTestEnd, AP!GTestEnd, A!GAbort, AP!GAbort,
         A!testInfo, AP!testInfo, A!tlVars, AP!tlVars

LEMMA SameCalls ==
  /\ A!Kinds = AP!Kinds /\ A!GlobalKeys = AP!GlobalKeys
  /\ \A kind : A!Add(kind) <=> AP!Add(kind)
  /\ \A name : A!SetTestSuiteName(name) <=> AP!SetTestSuiteName(name)
  /\ \A name : A!SetTestCaseName(name) <=> AP!SetTestCaseName(name)
  /\ \A key, value : A!SetGlobal(key, value) <=> AP!SetGlobal(key, value)
BY DEF A!Kinds, AP!Kinds, A!StepKinds, AP!StepKinds, A!GlobalKeys, AP!GlobalKeys, A!Add, AP!Add,
       A!SetTestSuiteName, AP!SetTestSuiteName, A!SetTestCaseName, AP!SetTestCaseName,
       A!SetGlobal, AP!SetGlobal, A!gtestVars, AP!gtestVars, A!testInfo, AP!testInfo,
       A!tlVars, AP!tlVars

LEMMA SameRun ==
  /\ A!ProgramStart <=> AP!ProgramStart
  /\ A!ProgramEnd <=> AP!ProgramEnd
  /\ \A name : A!SuiteStart(name) <=> AP!SuiteStart(name)
  /\ A!SuiteEnd <=> AP!SuiteEnd
  /\ A!FailAssertion <=> AP!FailAssertion
  /\ A!SkipTest <=> AP!SkipTest
  /\ A!Tick <=> AP!Tick
BY DEF A!ProgramStart, AP!ProgramStart, A!ProgramEnd, AP!ProgramEnd, A!SuiteStart, AP!SuiteStart,
       A!SuiteEnd, AP!SuiteEnd, A!FailAssertion, AP!FailAssertion, A!SkipTest, AP!SkipTest,
       A!Tick, AP!Tick, A!GProgramStart, AP!GProgramStart, A!GProgramEnd, AP!GProgramEnd,
       A!GSuiteStart, AP!GSuiteStart, A!GSuiteEnd, AP!GSuiteEnd, A!GFailInTest, AP!GFailInTest,
       A!GFailInSuite, AP!GFailInSuite, A!GSkip, AP!GSkip,
       A!gtestVars, AP!gtestVars, A!testInfo, AP!testInfo, A!tlVars, AP!tlVars,
       A!history, AP!history

LEMMA SameNext == [A!Next]_(A!vars) => [AP!Next]_(AP!vars)
<1>1. A!Next => AP!Next
  BY SameSteps, SameTests, SameCalls, SameRun DEF A!Next, AP!Next
<1>. QED BY <1>1, SameVars

LEMMA Allure2Assumed == AP!Allure2Assumption
BY ModelAssumption, LegacyAssumption, BothAssumption DEF AP!Allure2Assumption

LEMMA Allure2Types ==
  ASSUME AP!TypeInv, frames = Len(stack), [BothNext]_bothVars
  PROVE  AP!TypeInv'
BY Allure2Half, SameNext, AP!NextKeepsTypeInv, Allure2Assumed

-----------------------------------------------------------------------------
(***************************************************************************)
(* Counting the steps that returned.                                       *)
(***************************************************************************)
LEMMA ReturnedFacts ==
  ASSUME NEW steps, NEW k \in Nat
  PROVE  /\ Returned(steps, k) \in 0..k
         /\ Returned(steps, k + 1) =
              IF IsBroken(steps[k + 1]) THEN Returned(steps, k) ELSE Returned(steps, k) + 1
<1>. DEFINE R(n) == { i \in 1..n : ~IsBroken(steps[i]) }
<1>1. \A n \in Nat : IsFiniteSet(R(n)) /\ Cardinality(R(n)) \in 0..n
  <2>. SUFFICES ASSUME NEW n \in Nat
                PROVE  IsFiniteSet(R(n)) /\ Cardinality(R(n)) \in 0..n
    OBVIOUS
  <2>1. IsFiniteSet(1..n) /\ Cardinality(1..n) = n
    <3>1. n \in Int /\ 1 \in Int
      OBVIOUS
    <3>2. IsFiniteSet(1..n) /\ Cardinality(1..n) = IF 1 > n THEN 0 ELSE n - 1 + 1
      BY <3>1, FS_Interval
    <3>. QED BY <3>2
  <2>2. R(n) \subseteq 1..n
    OBVIOUS
  <2>. HIDE DEF R
  <2>3. IsFiniteSet(R(n)) /\ Cardinality(R(n)) <= n
    BY <2>1, <2>2, FS_Subset
  <2>. QED BY <2>3, FS_CardinalityType
<1>2. CASE IsBroken(steps[k + 1])
  <2>1. R(k + 1) = R(k)
    BY <1>2
  <2>. QED BY <1>1, <1>2, <2>1 DEF Returned
<1>3. CASE ~IsBroken(steps[k + 1])
  <2>1. R(k + 1) = R(k) \cup {k + 1} /\ k + 1 \notin R(k)
    BY <1>3
  <2>. HIDE DEF R
  <2>2. Cardinality(R(k + 1)) = Cardinality(R(k)) + 1
    BY <1>1, <2>1, FS_AddElement
  <2>. QED BY <1>1, <1>3, <2>2 DEF Returned, R
<1>. QED BY <1>2, <1>3

\* Of the steps up to m, one that returned is counted by then and not before.
LEMMA ReturnedInOrder ==
  ASSUME NEW steps, NEW m \in Nat, NEW k \in 1..m, ~IsBroken(steps[k])
  PROVE  Returned(steps, k) \in 1..Returned(steps, m)
<1>. DEFINE R(n) == { i \in 1..n : ~IsBroken(steps[i]) }
<1>1. IsFiniteSet(R(m)) /\ R(k) \subseteq R(m)
  <2>1. IsFiniteSet(1..m)
    BY FS_Interval
  <2>2. R(m) \subseteq 1..m /\ R(k) \subseteq R(m)
    OBVIOUS
  <2>. HIDE DEF R
  <2>. QED BY <2>1, <2>2, FS_Subset
<1>2. k \in R(k)
  OBVIOUS
<1>. HIDE DEF R
<1>3. IsFiniteSet(R(k)) /\ Cardinality(R(k)) <= Cardinality(R(m))
  BY <1>1, FS_Subset
<1>4. Cardinality(R(k)) \in Nat /\ Cardinality(R(m)) \in Nat
  BY <1>1, <1>3, FS_CardinalityType
<1>5. Cardinality(R(k)) # 0
  BY <1>2, <1>3, FS_EmptySet
<1>. QED BY <1>3, <1>4, <1>5 DEF Returned, R

\* What is counted up to k depends on the steps up to k.
LEMMA ReturnedSame ==
  ASSUME NEW s, NEW t, NEW k \in Nat, \A i \in 1..k : t[i] = s[i]
  PROVE  Returned(t, k) = Returned(s, k)
<1>1. { i \in 1..k : ~IsBroken(t[i]) } = { i \in 1..k : ~IsBroken(s[i]) }
  OBVIOUS
<1>. QED BY <1>1 DEF Returned

-----------------------------------------------------------------------------
(***************************************************************************)
(* What each call makes of the last case of the legacy report.             *)
(***************************************************************************)
LEMMA TestStartCase ==
  ASSUME IndInv, NEW name \in Names, OnTestStart(name)
  PROVE  LastCase' = NewCase(name, now) /\ phase' = "Test"
<1>. DEFINE case  == NewCase(name, now)
            cases == Append(LastSuite.cases, case)
            suite == [LastSuite EXCEPT !.cases = cases]
<1>1. phase = "Suite" /\ phase' = "Test" /\ suites' = WithSuite(suites, suite)
  BY TestStartEffect
<1>2. LastSuite \in TestSuite /\ LastSuite.cases \in Seq(TestCase) /\ case \in TestCase
  BY <1>1, OpenSuiteFacts, NewItemTypes DEF IndInv, TypeOK, TestSuite
<1>. HIDE DEF case
<1>3. cases \in Seq(TestCase) /\ cases[Len(cases)] = case
  BY <1>2, AppendFacts
<1>. HIDE DEF cases
<1>4. suite \in TestSuite /\ suite.cases = cases
  BY <1>2, <1>3, SuiteWithCases
<1>. HIDE DEF suite
<1>5. LastSuite' = suite
  BY <1>1, <1>4, SuiteChange
<1>. QED BY <1>1, <1>3, <1>4, <1>5 DEF LastCase, case

LEMMA TestEndCase ==
  ASSUME IndInv, OnTestEnd
  PROVE  LastCase' = Closed(LastCase, now, CaseVerdict)
<1>1. phase = "Test" /\ suites' = WithCase(suites, Closed(LastCase, now, CaseVerdict))
  BY TestEndEffect
<1>2. Closed(LastCase, now, CaseVerdict) \in TestCase
  BY <1>1, OpenCaseFacts, VerdictTypes, ClosedCase DEF IndInv, TypeOK
<1>. QED BY <1>1, <1>2, CaseChange

LEMMA StepStartCase ==
  ASSUME IndInv, NEW type \in StepTypes, StepStart(type)
  PROVE  /\ phase = "Test" /\ phase' = "Test"
         /\ LastCase' = [LastCase EXCEPT !.steps = Append(LastCase.steps, NewStep(type, now))]
         /\ LastCase.steps' = Append(LastCase.steps, NewStep(type, now))
         /\ NewStep(type, now) \in Step
<1>. DEFINE steps == Append(LastCase.steps, NewStep(type, now))
            case  == [LastCase EXCEPT !.steps = steps]
<1>1. /\ phase = "Test" /\ phase' = "Test" /\ type \in StepType
      /\ suites' = WithCase(suites, case)
  BY StepStartEffect
<1>2. LastCase \in TestCase /\ LastCase.steps \in Seq(Step) /\ NewStep(type, now) \in Step
  <2>1. \E name : name \in Names
    BY <1>1, OpenCaseFacts DEF TestCase
  <2>. QED BY <1>1, <2>1, OpenCaseFacts, NewItemTypes DEF IndInv, TypeOK
<1>3. steps \in Seq(Step)
  BY <1>2, AppendFacts
<1>. HIDE DEF steps
<1>4. case \in TestCase /\ case.steps = steps
  BY <1>2, <1>3, CaseWithSteps
<1>. HIDE DEF case
<1>5. LastCase' = case
  BY <1>1, <1>4, CaseChange
<1>. QED BY <1>1, <1>2, <1>4, <1>5 DEF case, steps

LEMMA StepReturnCase ==
  ASSUME IndInv, StepReturn
  PROVE  LET m == Len(LastCase.steps) - (frames + thrown) + 1
             steps == [LastCase.steps EXCEPT ![m] =
                         Closed(LastCase.steps[m], now, CurrentTestStatus)]
         IN  /\ phase = "Test" /\ phase' = "Test"
             /\ m \in 1..Len(LastCase.steps) /\ LastCase.steps[m] \in Step
             /\ LastCase' = [LastCase EXCEPT !.steps = steps]
             /\ LastCase.steps' = steps
<1>. DEFINE m == Len(LastCase.steps) - (frames + thrown) + 1
            steps == [LastCase.steps EXCEPT ![m] =
                        Closed(LastCase.steps[m], now, CurrentTestStatus)]
            case  == [LastCase EXCEPT !.steps = steps]
<1>1. /\ phase = "Test" /\ phase' = "Test" /\ m \in 1..Len(LastCase.steps)
      /\ suites' = WithCase(suites, case)
  BY StepReturnEffect
<1>. HIDE DEF m
<1>2. LastCase \in TestCase /\ LastCase.steps \in Seq(Step) /\ LastCase.steps[m] \in Step
  BY <1>1, OpenCaseFacts, ElementOfSeq
<1>3. steps \in Seq(Step)
  <2>1. Closed(LastCase.steps[m], now, CurrentTestStatus) \in Step
    BY <1>2, VerdictTypes, ClosedStep DEF IndInv, TypeOK
  <2>. QED BY <1>1, <1>2, <2>1, ExceptSeq
<1>. HIDE DEF steps
<1>4. case \in TestCase /\ case.steps = steps
  BY <1>2, <1>3, CaseWithSteps
<1>. HIDE DEF case
<1>5. LastCase' = case
  BY <1>1, <1>4, CaseChange
<1>. QED BY <1>1, <1>2, <1>4, <1>5 DEF case, steps, m

LEMMA SetCaseNameCase ==
  ASSUME IndInv, NEW name \in Names, phase = "Test", SetTestCaseName(name)
  PROVE  LastCase' = [LastCase EXCEPT !.name = name] /\ UNCHANGED LastCase.steps
<1>1. suites' = WithCase(suites, [LastCase EXCEPT !.name = name])
  BY SetCaseNameEffect
<1>2. /\ [LastCase EXCEPT !.name = name] \in TestCase
      /\ [LastCase EXCEPT !.name = name].steps = LastCase.steps
  BY OpenCaseFacts, CaseWithName
<1>3. LastCase' = [LastCase EXCEPT !.name = name]
  BY <1>1, <1>2, CaseChange
<1>. QED BY <1>2, <1>3

-----------------------------------------------------------------------------
(***************************************************************************)
(* The coupling of the steps.  The first steps of the legacy case, as many *)
(* as returned, are closed; of the others one is open for each addStep     *)
(* call and one for each that threw.                                       *)
(***************************************************************************)
SameVerdict(closed, returned) == closed.status = "FAILED" <=> returned.status = "failed"

StepsPaired(closed, ended) ==
  \A k \in 1..Len(ended) :
    ~IsBroken(ended[k]) => SameVerdict(closed[Returned(ended, k)], ended[k])

StepsCoupled ==
  /\ frames = Len(stack)
  /\ phase = "Test" =>
       /\ Len(LastCase.steps) = frames + Len(tl_steps)
       /\ Returned(tl_steps, Len(tl_steps)) + frames + thrown = Len(LastCase.steps)
       /\ StepsPaired(LastCase.steps, tl_steps)

LEMMA CoupledTypes ==
  ASSUME IndInv, AP!TypeInv
  PROVE  /\ Len(stack) \in Nat /\ Len(tl_steps) \in Nat /\ frames \in Nat /\ thrown \in Nat
         /\ phase = "Test" => /\ LastCase \in TestCase
                              /\ LastCase.steps \in Seq(Step)
                              /\ Len(LastCase.steps) \in Nat
<1>1. Len(stack) \in Nat /\ Len(tl_steps) \in Nat
  BY LenProperties DEF AP!TypeInv, AP!TypeOK
<1>. QED BY <1>1, OpenCaseFacts, LenProperties DEF IndInv, TypeOK

\* Calls that leave the steps alone, and those that end or begin no test.
LEMMA OtherCallsKeepSteps ==
  ASSUME StepsCoupled, UNCHANGED <<stack, frames>>,
         phase' = "Test" => phase = "Test" /\ UNCHANGED <<tl_steps, thrown, LastCase.steps>>
  PROVE  StepsCoupled'
BY DEF StepsCoupled

LEMMA TestStartsKeepsSteps ==
  ASSUME IndInv, AP!TypeInv, StepsCoupled, NEW name \in GTestNames, TestStarts(name)
  PROVE  StepsCoupled'
<1>1. OnTestStart(Qualified(testSuite, name)) /\ AP!OnTestStart(name)
  BY SameTests DEF TestStarts
<1>2. Len(stack') = 0 /\ Len(tl_steps') = 0
  BY <1>1, AP!TestStartEffect, Allure2Assumed
<1>3. phase = "Suite" /\ thrown = 0 /\ frames = 0 /\ thrown' = thrown /\ frames' = frames
  <2>1. phase = "Suite" /\ frames \in Nat /\ thrown \in Nat
    BY <1>1 DEF OnTestStart, IndInv, TypeOK
  <2>2. thrown' = thrown /\ frames' = frames
    BY <1>1 DEF OnTestStart
  <2>3. ~(frames + thrown > 0)
    BY <2>1 DEF IndInv, OpenPath
  <2>. QED BY <2>1, <2>2, <2>3
<1>4. LastCase.steps' = <<>>
  BY <1>1, QualifiedIsName, TestStartCase DEF NewCase
<1>5. Returned(tl_steps', 0) = 0
  BY ReturnedFacts
<1>. QED BY <1>2, <1>3, <1>4, <1>5, EmptySeq DEF StepsCoupled, StepsPaired

\* A new step goes behind all that are counted.
LEMMA StepStartsKeepsSteps ==
  ASSUME IndInv, AP!TypeInv, StepsCoupled, NEW type \in StepTypes, StepStarts(type)
  PROVE  StepsCoupled'
<1>. DEFINE old == LastCase.steps
            new == NewStep(type, now)
            n   == Len(old)
            m   == Len(tl_steps)
            c   == Returned(tl_steps, m)
<1>1. StepStart(type) /\ AP!StepStart
  BY SameSteps DEF StepStarts
<1>2. /\ phase = "Test" /\ LastCase.steps' = Append(old, new) /\ new \in Step
      /\ frames' = frames + 1 /\ thrown' = thrown
  BY <1>1, StepStartCase DEF StepStart
<1>3. Len(stack') = Len(stack) + 1 /\ tl_steps' = tl_steps
  BY <1>1, AP!StepStartEffect, Allure2Assumed
<1>4. /\ frames \in Nat /\ thrown \in Nat /\ m \in Nat /\ n \in Nat /\ old \in Seq(Step)
      /\ c \in 0..m
  BY <1>2, CoupledTypes, ReturnedFacts
<1>5. /\ frames = Len(stack) /\ n = frames + m /\ c + frames + thrown = n
      /\ \A k \in 1..m : ~IsBroken(tl_steps[k]) => SameVerdict(old[Returned(tl_steps, k)], tl_steps[k])
  BY <1>2 DEF StepsCoupled, StepsPaired
<1>6. /\ Len(Append(old, new)) = n + 1
      /\ \A i \in 1..n : Append(old, new)[i] = old[i]
  BY <1>2, <1>4, AppendFacts
<1>7. \A k \in 1..m : ~IsBroken(tl_steps[k]) => Returned(tl_steps, k) \in 1..c
  BY <1>4, ReturnedInOrder
<1>8. c <= n
  <2>. HIDE DEF c, n, m
  <2>. QED BY <1>4, <1>5
<1>. HIDE DEF old, new, n, c
<1>9. \A k \in 1..m :
        ~IsBroken(tl_steps[k]) => SameVerdict(Append(old, new)[Returned(tl_steps, k)], tl_steps[k])
  BY <1>4, <1>5, <1>6, <1>7, <1>8
<1>10. /\ n + 1 = (frames + 1) + m
       /\ c + (frames + 1) + thrown = n + 1
  <2>. HIDE DEF m
  <2>. QED BY <1>4, <1>5
<1>. QED BY <1>2, <1>3, <1>5, <1>6, <1>9, <1>10 DEF StepsCoupled, StepsPaired, c

LEMMA CurrentStatusFails == CurrentTestStatus = "FAILED" <=> testFailed
BY DEF CurrentTestStatus, Skipped

\* The step that is closed is the next one that is counted, with the verdict that
\* Allure 2 records.
LEMMA StepReturnsKeepsSteps ==
  ASSUME IndInv, AP!TypeInv, StepsCoupled, StepReturns
  PROVE  StepsCoupled'
<1>. DEFINE old == LastCase.steps
            n   == Len(old)
            m   == Len(tl_steps)
            c   == Returned(tl_steps, m)
            closed == Closed(old[c + 1], now, CurrentTestStatus)
            status == IF testFailed THEN "failed" ELSE "passed"
            d   == Len(stack)
<1>1. StepReturn /\ AP!StepReturn
  BY SameSteps DEF StepReturns
<1>2. 1 \in 1..d /\ AP!StepsEnd(1, status)
  BY <1>1, AP!StepReturnEnds, Allure2Assumed
<1>3. phase = "Test" /\ frames' = frames - 1 /\ thrown' = thrown
  BY <1>1, StepReturnCase DEF StepReturn
<1>4. /\ frames \in Nat /\ thrown \in Nat /\ m \in Nat /\ n \in Nat /\ old \in Seq(Step)
      /\ d \in Nat /\ c \in 0..m
  BY <1>3, CoupledTypes, ReturnedFacts
<1>5. /\ frames = d /\ n = frames + m /\ c + frames + thrown = n
      /\ \A k \in 1..m : ~IsBroken(tl_steps[k]) => SameVerdict(old[Returned(tl_steps, k)], tl_steps[k])
  BY <1>3 DEF StepsCoupled, StepsPaired
<1>6. /\ c + 1 \in 1..n /\ old[c + 1] \in Step
      /\ LastCase.steps' = [old EXCEPT ![c + 1] = closed]
  <2>1. n - (frames + thrown) + 1 = c + 1
    <3>. HIDE DEF n, c, m, d
    <3>. QED BY <1>4, <1>5
  <2>. QED BY <1>1, <2>1, StepReturnCase
<1>7. closed.status = CurrentTestStatus
  BY <1>6 DEF Closed, Step
<1>8. /\ Len(tl_steps') = m + 1
      /\ \A k \in 1..m : tl_steps'[k] = tl_steps[k]
      /\ tl_steps'[m + 1].status = status
      /\ Len(stack') = d - 1
  <2>1. /\ Len(tl_steps') = m + 1 /\ Len(stack') = d - 1
        /\ \A k \in 1..m : tl_steps'[k] = tl_steps[k]
    BY <1>2 DEF AP!StepsEnd
  <2>2. m + 1 \in 1..Len(tl_steps') /\ ~(m + 1 <= m)
    <3>. HIDE DEF m
    <3>. QED BY <1>4, <2>1
  <2>3. status \in {"passed", "failed", "broken"}
    OBVIOUS
  <2>. HIDE DEF status
  <2>4. tl_steps'[m + 1].status = status
    BY <1>2, <2>2, <2>3, AP!StepsEndFacts, Allure2Assumed
  <2>. QED BY <2>1, <2>4
<1>9. /\ \A k \in 1..m : Returned(tl_steps', k) = Returned(tl_steps, k)
      /\ Returned(tl_steps', m) = c
  BY <1>4, <1>8, ReturnedSame
<1>10. ~IsBroken(tl_steps'[m + 1]) /\ Returned(tl_steps', m + 1) = c + 1
  <2>1. ~IsBroken(tl_steps'[m + 1])
    BY <1>8 DEF IsBroken
  <2>. QED BY <1>4, <1>9, <2>1, ReturnedFacts
<1>11. \A k \in 1..m : ~IsBroken(tl_steps[k]) => Returned(tl_steps, k) \in 1..c
  BY <1>4, ReturnedInOrder
<1>12. SameVerdict(closed, tl_steps'[m + 1])
  BY <1>7, <1>8, CurrentStatusFails DEF SameVerdict
<1>. HIDE DEF old, n, c, closed, status, d
<1>. DEFINE steps == [old EXCEPT ![c + 1] = closed]
<1>13. /\ Len(steps) = n /\ steps[c + 1] = closed
       /\ \A i \in 1..n : i # c + 1 => steps[i] = old[i]
  BY <1>4, <1>6 DEF n
<1>. HIDE DEF steps
<1>14. ASSUME NEW k \in 1..(m + 1), ~IsBroken(tl_steps'[k])
       PROVE  SameVerdict(steps[Returned(tl_steps', k)], tl_steps'[k])
  <2>1. CASE k = m + 1
    BY <1>10, <1>12, <1>13, <2>1
  <2>2. CASE k \in 1..m
    <3>1. Returned(tl_steps', k) = Returned(tl_steps, k) /\ tl_steps'[k] = tl_steps[k]
      BY <1>8, <1>9, <2>2
    <3>2. Returned(tl_steps, k) \in 1..c
      BY <1>11, <1>14, <2>2, <3>1
    <3>3. Returned(tl_steps, k) \in 1..n /\ Returned(tl_steps, k) # c + 1
      BY <1>4, <1>6, <3>2
    <3>. QED BY <1>5, <1>13, <1>14, <2>2, <3>1, <3>3
  <2>. QED BY <1>4, <2>1, <2>2
<1>15. /\ frames' = Len(stack') /\ n = frames' + (m + 1)
       /\ (c + 1) + frames' + thrown' = n
  <2>. HIDE DEF m
  <2>. QED BY <1>3, <1>4, <1>5, <1>8
<1>16. LastCase.steps' = steps
  BY <1>6 DEF steps
<1>. QED BY <1>8, <1>10, <1>13, <1>14, <1>15, <1>16 DEF StepsCoupled, StepsPaired

\* Steps that threw are not counted, and the legacy case keeps them open.
LEMMA BrokenNotCounted ==
  ASSUME NEW s, NEW t, NEW m \in Nat, NEW n \in Nat,
         \A k \in 1..m : t[k] = s[k],
         \A k \in 1..(m + n) : k <= m \/ IsBroken(t[k])
  PROVE  Returned(t, m + n) = Returned(s, m)
<1>1. { k \in 1..(m + n) : ~IsBroken(t[k]) } = { k \in 1..m : ~IsBroken(s[k]) }
  OBVIOUS
<1>. QED BY <1>1 DEF Returned

LEMMA StepThrowsKeepsSteps ==
  ASSUME IndInv, AP!TypeInv, StepsCoupled, NEW n \in 1..frames, StepThrows(n)
  PROVE  StepsCoupled'
<1>. DEFINE m == Len(tl_steps)
            c == Returned(tl_steps, m)
            d == Len(stack)
<1>1. StepThrow(n) /\ AP!StepThrow(n) /\ frames = d
  BY SameSteps DEF StepThrows, StepsCoupled
<1>2. AP!StepsEnd(n, "broken")
  BY <1>1, AP!StepThrowEnds, Allure2Assumed
<1>3. /\ frames \in Nat /\ thrown \in Nat /\ m \in Nat /\ d \in Nat /\ c \in 0..m /\ n \in 1..frames
  BY CoupledTypes, ReturnedFacts
<1>4. phase = "Test"
  BY <1>3 DEF IndInv, OpenPath
<1>5. /\ frames' = frames - n /\ thrown' = thrown + n /\ suites' = suites
  BY <1>1 DEF StepThrow
<1>6. /\ Len(LastCase.steps) = frames + m /\ c + frames + thrown = Len(LastCase.steps)
      /\ StepsPaired(LastCase.steps, tl_steps)
  BY <1>4 DEF StepsCoupled
<1>7. /\ Len(tl_steps') = m + n /\ Len(stack') = d - n
      /\ \A k \in 1..m : tl_steps'[k] = tl_steps[k]
      /\ \A k \in 1..(m + n) : k <= m \/ IsBroken(tl_steps'[k])
  <2>1. /\ Len(tl_steps') = m + n /\ Len(stack') = d - n
        /\ \A k \in 1..m : tl_steps'[k] = tl_steps[k]
    BY <1>2 DEF AP!StepsEnd
  <2>2. ASSUME NEW k \in 1..Len(tl_steps'), ~(k <= m)
        PROVE  tl_steps'[k].status = "broken"
    BY <1>1, <1>2, <2>2, AP!StepsEndFacts, Allure2Assumed
  <2>. QED BY <2>1, <2>2 DEF IsBroken
<1>8. Returned(tl_steps', m + n) = c /\ \A k \in 1..m : Returned(tl_steps', k) = Returned(tl_steps, k)
  <2>1. Returned(tl_steps', m + n) = c
    <3>1. m \in Nat /\ n \in Nat
      BY <1>3
    <3>. HIDE DEF m
    <3>. QED BY <1>7, <3>1, BrokenNotCounted
  <2>2. ASSUME NEW k \in 1..m
        PROVE  Returned(tl_steps', k) = Returned(tl_steps, k)
    BY <1>3, <1>7, ReturnedSame
  <2>. QED BY <2>1, <2>2
<1>9. StepsPaired(LastCase.steps, tl_steps')
  <2>. SUFFICES ASSUME NEW k \in 1..(m + n), ~IsBroken(tl_steps'[k])
                PROVE  SameVerdict(LastCase.steps[Returned(tl_steps', k)], tl_steps'[k])
    BY <1>7 DEF StepsPaired
  <2>1. k \in 1..m
    BY <1>3, <1>7
  <2>. QED BY <1>6, <1>7, <1>8, <2>1 DEF StepsPaired
<1>10. LastCase.steps' = LastCase.steps
  BY <1>5 DEF LastCase, LastSuite
<1>. HIDE DEF c
<1>11. /\ frames' = Len(stack') /\ Len(LastCase.steps) = frames' + (m + n)
       /\ c + frames' + thrown' = Len(LastCase.steps)
  BY <1>1, <1>3, <1>5, <1>6, <1>7
<1>. QED BY <1>7, <1>8, <1>9, <1>10, <1>11 DEF StepsCoupled

LEMMA NextKeepsSteps ==
  ASSUME IndInv, AP!TypeInv, StepsCoupled, [BothNext]_bothVars
  PROVE  StepsCoupled'
<1>1. CASE \E type \in StepTypes : StepStarts(type)
  BY <1>1, StepStartsKeepsSteps
<1>2. CASE StepReturns
  BY <1>2, StepReturnsKeepsSteps
<1>3. CASE \E n \in 1..frames : StepThrows(n)
  BY <1>3, StepThrowsKeepsSteps
<1>4. CASE \E name \in GTestNames : TestStarts(name)
  BY <1>4, TestStartsKeepsSteps
<1>5. CASE \/ ProgramStarts \/ TestEnds \/ SuiteEnds \/ ProgramEnds \/ Allure2Throws
           \/ \E name \in GTestNames : SuiteStarts(name)
  <2>1. UNCHANGED <<stack, frames>> /\ phase' # "Test"
    BY <1>5 DEF ProgramStarts, TestEnds, SuiteEnds, ProgramEnds, Allure2Throws, SuiteStarts,
                OnTestProgramStart, OnTestEnd, OnTestSuiteEnd, OnTestProgramEndDisabled,
                OnTestProgramEnd, OtherListenerThrows, OnTestSuiteStart,
                GProgramStart, GTestEnd, GSuiteEnd, GProgramEnd, GAbort, GSuiteStart,
                A!ProgramStart, A!OnTestEnd, A!SuiteEnd, A!ProgramEnd, A!RunIsCutShort,
                A!SuiteStart
  <2>. QED BY <2>1, OtherCallsKeepSteps
<1>6. CASE \E name \in Texts : CaseIsNamed(name)
  <2>1. PICK name \in Texts : CaseIsNamed(name)
    BY <1>6
  <2>2. UNCHANGED <<stack, frames, tl_steps, thrown>> /\ phase' = phase
    BY <2>1 DEF CaseIsNamed, A!SetTestCaseName, A!gtestVars, SetTestCaseName, legacyVars
  <2>3. phase = "Test" => UNCHANGED LastCase.steps
    BY <2>1, BothAssumption, SetCaseNameCase, OpenCaseFacts DEF CaseIsNamed
  <2>. QED BY <2>2, <2>3, OtherCallsKeepSteps
<1>7. CASE \/ BuildListener \/ \E enable \in BOOLEAN : SetGenerateLegacyResults(enable)
           \/ AssertionFails \/ TestIsSkipped \/ TimePasses \/ UNCHANGED bothVars
  <2>1. UNCHANGED <<stack, frames, tl_steps, thrown, suites>> /\ phase' = phase
    BY <1>7 DEF BuildListener, SetGenerateLegacyResults, Configure, allure2Vars,
                AssertionFails, TestIsSkipped, TimePasses, FailAssertion, SkipTest, Tick,
                GFailInTest, GFailInSuite, GSkip, gtestVars, bothVars, vars,
                A!FailAssertion, A!SkipTest, A!tlVars, A!vars
  <2>2. UNCHANGED LastCase.steps
    BY <2>1 DEF LastCase, LastSuite
  <2>. QED BY <2>1, <2>2, OtherCallsKeepSteps
<1>. QED BY <1>1, <1>2, <1>3, <1>4, <1>5, <1>6, <1>7 DEF BothNext

\* So the steps of the two reports match all through a test.
LEMMA CoupledStepsMatch ==
  ASSUME IndInv, AP!TypeInv, StepsCoupled, phase = "Test"
  PROVE  /\ Len(LastCase.steps) = Len(stack) + Len(tl_steps)
         /\ StepsMatch(LastCase.steps, tl_steps)
<1>. DEFINE steps == LastCase.steps
            n == Len(steps)
            m == Len(tl_steps)
            c == Returned(tl_steps, m)
<1>1. /\ frames \in Nat /\ thrown \in Nat /\ m \in Nat /\ n \in Nat /\ c \in 0..m
      /\ DOMAIN steps = 1..n /\ DOMAIN tl_steps = 1..m
  <2>1. /\ frames \in Nat /\ thrown \in Nat /\ m \in Nat /\ n \in Nat /\ steps \in Seq(Step)
    BY CoupledTypes
  <2>2. DOMAIN tl_steps = 1..m
    BY LenProperties DEF AP!TypeInv, AP!TypeOK
  <2>. QED BY <2>1, <2>2, ReturnedFacts, LenProperties
<1>2. /\ frames = Len(stack) /\ n = frames + m /\ c + frames + thrown = n
      /\ StepsPaired(steps, tl_steps)
  BY DEF StepsCoupled
<1>3. \A k \in 1..n : Finished(steps[k]) <=> k <= n - (frames + thrown)
  BY DEF IndInv, OpenSteps, Finished, IsRunning
<1>4. c = n - (frames + thrown) /\ c <= n
  <2>. HIDE DEF n, c, m
  <2>. QED BY <1>1, <1>2
<1>5. { k \in 1..n : Finished(steps[k]) } = 1..c
  <2>. HIDE DEF n, c, m, steps
  <2>. QED BY <1>1, <1>3, <1>4
<1>. QED BY <1>1, <1>2, <1>5 DEF StepsPaired, StepsMatch, SameVerdict

-----------------------------------------------------------------------------
(***************************************************************************)
(* The coupling of the tests: the last case of a suite is the one whose    *)
(* result was written last.                                                *)
(***************************************************************************)
SameTest(case, r) ==
  /\ r.status = "passed" <=> case.status = "PASSED"
  /\ Len(case.steps) = Len(r.steps)
  /\ StepsMatch(case.steps, r.steps)

CaseCoupled ==
  /\ phase = "Test" => result = <<>>
  /\ phase = "Suite" /\ result # <<>> /\ LastSuite.cases # <<>> => SameTest(LastCase, result[1])

LEMMA OtherCallsKeepCases ==
  ASSUME CaseCoupled,
         phase' \in {"Suite", "Test"} => phase' = phase /\ UNCHANGED result,
         phase' = "Suite" => UNCHANGED suites
  PROVE  CaseCoupled'
<1>1. UNCHANGED suites => UNCHANGED <<LastSuite, LastCase>>
  BY DEF LastSuite, LastCase
<1>. QED BY <1>1 DEF CaseCoupled

\* The result and the closed case are made from the same flags, and no step is
\* on the stack when the test ends.
LEMMA TestEndsKeepsCases ==
  ASSUME IndInv, AP!TypeInv, StepsCoupled, CaseCoupled, TestEnds
  PROVE  CaseCoupled'
<1>1. OnTestEnd /\ A!OnTestEnd
  BY DEF TestEnds
<1>2. phase = "Test" /\ phase' = "Suite" /\ result' \in {<<>>, <<A!Result>>} /\ stack = <<>>
  BY <1>1 DEF OnTestEnd, A!OnTestEnd, A!GTestEnd, CaseCoupled
<1>. DEFINE case == Closed(LastCase, now, CaseVerdict)
<1>3. case.status = CaseVerdict /\ case.steps = LastCase.steps
  BY <1>2, OpenCaseFacts DEF Closed, TestCase
<1>4. A!Result.status = A!ResultStatus /\ A!Result.steps = tl_steps
  BY DEF A!Result
<1>5. A!ResultStatus = "passed" <=> CaseVerdict = "PASSED"
  BY DEF A!ResultStatus, A!Skipped, CaseVerdict, Passed
<1>6. Len(LastCase.steps) = Len(tl_steps) /\ StepsMatch(LastCase.steps, tl_steps)
  <2>1. /\ Len(LastCase.steps) = Len(stack) + Len(tl_steps)
        /\ StepsMatch(LastCase.steps, tl_steps)
    BY <1>2, CoupledStepsMatch
  <2>2. Len(stack) = 0 /\ Len(tl_steps) \in Nat
    BY <1>2, CoupledTypes, EmptySeq
  <2>. QED BY <2>1, <2>2
<1>7. LastCase' = case
  BY <1>1, TestEndCase
<1>. HIDE DEF case
<1>8. SameTest(case, A!Result)
  <2>. HIDE DEF A!Result
  <2>. QED BY <1>3, <1>4, <1>5, <1>6 DEF SameTest
<1>9. result' # <<>> => result'[1] = A!Result
  <2>. HIDE DEF A!Result
  <2>. QED BY <1>2
<1>. QED BY <1>2, <1>7, <1>8, <1>9 DEF CaseCoupled

LEMMA NextKeepsCases ==
  ASSUME IndInv, AP!TypeInv, StepsCoupled, CaseCoupled, [BothNext]_bothVars
  PROVE  CaseCoupled'
<1>1. CASE TestEnds
  BY <1>1, TestEndsKeepsCases
<1>2. CASE \E name \in GTestNames : TestStarts(name)
  <2>1. phase' = "Test" /\ result' = <<>>
    BY <1>2 DEF TestStarts, A!OnTestStart, A!GTestStart
  <2>. QED BY <2>1 DEF CaseCoupled
<1>3. CASE \E name \in GTestNames : SuiteStarts(name)
  <2>1. PICK name \in GTestNames : SuiteStarts(name)
    BY <1>3
  <2>2. /\ phase' = "Suite"
        /\ suites' = Append(suites, NewSuite(Len(suites) + 1, name, format, now))
    BY <2>1 DEF SuiteStarts, OnTestSuiteStart, GSuiteStart, HandleTestSuiteStart, FreshUUID
  <2>. DEFINE suite == NewSuite(Len(suites) + 1, name, format, now)
  <2>3. suites \in Seq(TestSuite) /\ suite \in TestSuite
    BY <2>1, BothAssumption, NewItemTypes, LenProperties DEF IndInv, TypeOK
  <2>4. suite.cases = <<>>
    BY DEF NewSuite
  <2>. HIDE DEF suite
  <2>5. Append(suites, suite)[Len(Append(suites, suite))] = suite
    BY <2>3, AppendFacts
  <2>6. LastSuite.cases' = <<>>
    BY <2>2, <2>4, <2>5 DEF LastSuite, suite
  <2>. QED BY <2>2, <2>6 DEF CaseCoupled
<1>4. CASE ProgramStarts \/ SuiteEnds \/ ProgramEnds \/ Allure2Throws
  <2>1. phase' \in {"Program", "Idle"}
    BY <1>4 DEF ProgramStarts, SuiteEnds, ProgramEnds, Allure2Throws, OnTestProgramStart,
                OnTestSuiteEnd, OnTestProgramEndDisabled, OnTestProgramEnd, OtherListenerThrows,
                GProgramStart, GSuiteEnd, GProgramEnd, GAbort
  <2>. QED BY <2>1, OtherCallsKeepCases
<1>5. CASE (\E type \in StepTypes : StepStarts(type)) \/ StepReturns
  <2>1. phase = "Test" /\ phase' = "Test"
    BY <1>5, StepStartCase, StepReturnCase DEF StepStarts, StepReturns
  <2>2. UNCHANGED result
    BY <1>5 DEF StepStarts, A!StepStart, StepReturns, A!StepReturn
  <2>. QED BY <2>1, <2>2, OtherCallsKeepCases
<1>6. CASE \E name \in Texts : CaseIsNamed(name)
  <2>1. PICK name \in Texts : CaseIsNamed(name)
    BY <1>6
  <2>2. phase' = phase /\ UNCHANGED result
    BY <2>1 DEF CaseIsNamed, A!SetTestCaseName, A!gtestVars
  <2>3. phase = "Suite" => UNCHANGED suites
    BY <2>1, SearchFindsOpenPath DEF CaseIsNamed, SetTestCaseName, CaseError, legacyVars
  <2>. QED BY <2>2, <2>3, OtherCallsKeepCases
<1>7. CASE \/ BuildListener \/ (\E enable \in BOOLEAN : SetGenerateLegacyResults(enable))
           \/ \E n \in 1..frames : StepThrows(n)
           \/ AssertionFails \/ TestIsSkipped \/ TimePasses \/ UNCHANGED bothVars
  <2>1. UNCHANGED <<suites, phase, result>>
    BY <1>7 DEF BuildListener, SetGenerateLegacyResults, Configure, allure2Vars,
                StepThrows, StepThrow, A!StepThrow,
                AssertionFails, TestIsSkipped, TimePasses, FailAssertion, SkipTest, Tick,
                GFailInTest, GFailInSuite, GSkip, gtestVars, bothVars, vars,
                A!FailAssertion, A!SkipTest, A!vars
  <2>. QED BY <2>1, OtherCallsKeepCases
<1>. QED BY <1>1, <1>2, <1>3, <1>4, <1>5, <1>6, <1>7 DEF BothNext

-----------------------------------------------------------------------------
(***************************************************************************)
(* The coupling of the names.  The thread-local name is the test's own, or *)
(* what was left behind; between tests it is empty unless a stray name was *)
(* set or a test was cut short.                                            *)
(***************************************************************************)
NameCoupled ==
  /\ phase = "Test" =>
       LastCase.name = IF ownName # NoText THEN ownName ELSE Qualified(testSuite, testCase)
  /\ phase = "Test" /\ ownName # NoText => tl_case = ownName
  /\ ~stray => IF phase = "Test" THEN ownName = NoText => tl_case = testCase
                                 ELSE tl_case = NoText

LEMMA OtherCallsKeepNames ==
  ASSUME NameCoupled, UNCHANGED <<tl_case, ownName, stray>>,
         IF phase' = "Test" THEN phase = "Test" /\ UNCHANGED <<testSuite, testCase, LastCase.name>>
         ELSE phase # "Test"
  PROVE  NameCoupled'
<1>1. CASE phase' = "Test"
  <2>1. phase = "Test" /\ UNCHANGED <<testSuite, testCase, LastCase.name>>
    BY <1>1
  <2>2. Qualified(testSuite, testCase)' = Qualified(testSuite, testCase)
    BY <2>1 DEF Qualified
  <2>. QED BY <1>1, <2>1, <2>2, Zenon DEF NameCoupled
<1>2. CASE phase' # "Test"
  <2>1. phase # "Test"
    BY <1>2
  <2>. QED BY <1>2, <2>1, Zenon DEF NameCoupled
<1>. QED BY <1>1, <1>2

\* The legacy case is Suite.test; the thread-local name is the test's unless
\* another one is there already.
LEMMA TestStartsKeepsNames ==
  ASSUME IndInv, AP!TypeInv, NameCoupled, NEW name \in GTestNames, TestStarts(name)
  PROVE  NameCoupled'
<1>1. /\ LastCase' = NewCase(Qualified(testSuite, name), now)
      /\ phase' = "Test" /\ phase = "Suite"
  BY QualifiedIsName, TestStartCase, TestStartEffect DEF TestStarts
<1>2. /\ testCase' = name /\ testSuite' = testSuite /\ ownName' = NoText /\ stray' = stray
      /\ tl_case' = IF tl_case = NoText THEN name ELSE tl_case
  BY DEF TestStarts, A!OnTestStart, A!BeginTestCase
<1>3. LastCase.name' = Qualified(testSuite, testCase)'
  BY <1>1, <1>2 DEF NewCase, Qualified
<1>4. ~stray' => tl_case' = testCase'
  <2>1. ~stray' => tl_case = NoText
    BY <1>1, <1>2, Zenon DEF NameCoupled
  <2>. QED BY <1>2, <2>1
<1>. QED BY <1>1, <1>2, <1>3, <1>4, Zenon DEF NameCoupled

LEMMA CaseIsNamedKeepsNames ==
  ASSUME IndInv, NameCoupled, NEW name \in Texts, CaseIsNamed(name)
  PROVE  NameCoupled'
<1>1. phase' = phase /\ tl_case' = name /\ name # NoText /\ name \in Names
  BY BothAssumption DEF CaseIsNamed, A!SetTestCaseName, A!gtestVars
<1>2. CASE phase # "Test"
  <2>1. stray'
    BY <1>2, Zenon DEF CaseIsNamed
  <2>. QED BY <1>1, <1>2, <2>1, Zenon DEF NameCoupled
<1>3. CASE phase = "Test"
  <2>1. SetTestCaseName(name)
    BY <1>3, OpenCaseFacts DEF CaseIsNamed
  <2>2. LastCase.name' = name
    BY <1>1, <1>3, <2>1, SetCaseNameCase, OpenCaseFacts DEF TestCase
  <2>3. ownName' = name
    BY <1>3, Zenon DEF CaseIsNamed
  <2>. QED BY <1>1, <1>3, <2>2, <2>3, Zenon DEF NameCoupled
<1>. QED BY <1>2, <1>3

LEMMA NextKeepsNames ==
  ASSUME IndInv, AP!TypeInv, NameCoupled, [BothNext]_bothVars
  PROVE  NameCoupled'
<1>1. CASE \E name \in GTestNames : TestStarts(name)
  BY <1>1, TestStartsKeepsNames
<1>2. CASE \E name \in Texts : CaseIsNamed(name)
  BY <1>2, CaseIsNamedKeepsNames
<1>3. CASE TestEnds
  <2>1. tl_case' = NoText /\ phase' = "Suite"
    BY <1>3 DEF TestEnds, A!OnTestEnd, A!EndTestCase, A!GTestEnd
  <2>. QED BY <2>1 DEF NameCoupled
<1>4. CASE Allure2Throws
  <2>1. phase' = "Idle" /\ tl_case' = tl_case /\ stray' = (stray \/ phase = "Test")
    BY <1>4 DEF Allure2Throws, A!RunIsCutShort, A!GAbort, A!tlVars
  <2>2. ~stray' => tl_case' = NoText
    BY <2>1, Zenon DEF NameCoupled
  <2>. QED BY <2>1, <2>2, Zenon DEF NameCoupled
<1>5. CASE \/ ProgramStarts \/ SuiteEnds \/ ProgramEnds
           \/ \E name \in GTestNames : SuiteStarts(name)
  <2>1. /\ UNCHANGED <<tl_case, ownName, stray>> /\ phase # "Test" /\ phase' # "Test"
    BY <1>5 DEF ProgramStarts, SuiteEnds, ProgramEnds, SuiteStarts, A!ProgramStart, A!SuiteEnd,
                A!ProgramEnd, A!SuiteStart, A!GProgramStart, A!GSuiteEnd, A!GProgramEnd,
                A!GSuiteStart, A!tlVars, ownVars, nameVars
  <2>. QED BY <2>1, OtherCallsKeepNames
<1>6. CASE \E type \in StepTypes : StepStarts(type)
  <2>1. PICK type \in StepTypes : StepStarts(type)
    BY <1>6
  <2>2. /\ phase = "Test" /\ phase' = "Test"
        /\ LastCase' = [LastCase EXCEPT !.steps = Append(LastCase.steps, NewStep(type, now))]
    BY <2>1, StepStartCase DEF StepStarts
  <2>3. UNCHANGED LastCase.name
    BY <2>2, OpenCaseFacts DEF TestCase
  <2>4. UNCHANGED <<tl_case, testSuite, testCase, ownName, stray>>
    BY <2>1 DEF StepStarts, A!StepStart, A!testInfo, ownVars, nameVars
  <2>. QED BY <2>2, <2>3, <2>4, OtherCallsKeepNames
<1>7. CASE StepReturns
  <2>1. /\ phase = "Test" /\ phase' = "Test"
        /\ \E steps : LastCase' = [LastCase EXCEPT !.steps = steps]
    BY <1>7, StepReturnCase DEF StepReturns
  <2>2. UNCHANGED LastCase.name
    BY <2>1, OpenCaseFacts DEF TestCase
  <2>3. UNCHANGED <<tl_case, testSuite, testCase, ownName, stray>>
    BY <1>7 DEF StepReturns, A!StepReturn, A!testInfo, ownVars, nameVars
  <2>. QED BY <2>1, <2>2, <2>3, OtherCallsKeepNames
<1>8. CASE \/ BuildListener \/ (\E enable \in BOOLEAN : SetGenerateLegacyResults(enable))
           \/ \E n \in 1..frames : StepThrows(n)
           \/ AssertionFails \/ TestIsSkipped \/ TimePasses \/ UNCHANGED bothVars
  <2>1. UNCHANGED <<suites, phase, tl_case, testSuite, testCase, ownName, stray>>
    BY <1>8 DEF BuildListener, SetGenerateLegacyResults, Configure, allure2Vars,
                StepThrows, StepThrow, A!StepThrow, A!testInfo, ownVars, nameVars,
                AssertionFails, TestIsSkipped, TimePasses, FailAssertion, SkipTest, Tick,
                GFailInTest, GFailInSuite, GSkip, gtestVars, bothVars, vars,
                A!FailAssertion, A!SkipTest, A!tlVars, A!vars
  <2>2. UNCHANGED LastCase.name
    BY <2>1 DEF LastCase, LastSuite
  <2>. QED BY <2>1, <2>2, OtherCallsKeepNames
<1>. QED BY <1>1, <1>2, <1>3, <1>4, <1>5, <1>6, <1>7, <1>8 DEF BothNext

-----------------------------------------------------------------------------
(***************************************************************************)
(* The switch of the legacy results, from the construction of the listener *)
(* on: documents are only written while it is on, and the first run comes  *)
(* after the construction.                                                 *)
(***************************************************************************)
SwitchCoupled ==
  /\ built /\ legacyResults => asked
  /\ built /\ files # <<>> => asked
  /\ ~built => phase = "Idle" /\ files = <<>>

LEMMA NextKeepsSwitch ==
  ASSUME SwitchCoupled, [BothNext]_bothVars
  PROVE  SwitchCoupled'
<1>1. CASE BuildListener
  <2>1. built' /\ ~legacyResults' /\ files' = <<>>
    BY <1>1 DEF BuildListener, Configure, SwitchCoupled
  <2>. QED BY <2>1 DEF SwitchCoupled
<1>2. CASE \E enable \in BOOLEAN : SetGenerateLegacyResults(enable)
  <2>1. PICK enable \in BOOLEAN : SetGenerateLegacyResults(enable)
    BY <1>2
  <2>2. /\ legacyResults' = enable /\ asked' = (asked \/ enable) /\ built' = built
        /\ files' = files /\ phase' = phase
    BY <2>1, Zenon DEF SetGenerateLegacyResults, Configure, gtestVars
  <2>3. built' /\ legacyResults' => asked'
    BY <2>2, Zenon
  <2>4. built' /\ files' # <<>> => asked'
    BY <2>2, Zenon DEF SwitchCoupled
  <2>. QED BY <2>2, <2>3, <2>4, Zenon DEF SwitchCoupled
<1>3. CASE ProgramStarts
  <2>1. built /\ files' = <<>> /\ UNCHANGED <<legacyResults, built, asked>>
    BY <1>3 DEF ProgramStarts, OnTestProgramStart, configVars, ownVars
  <2>. QED BY <2>1, Zenon DEF SwitchCoupled
<1>4. CASE ProgramEnds
  <2>1. /\ phase # "Idle" /\ UNCHANGED <<legacyResults, built, asked>>
        /\ legacyResults \/ files' = files
    BY <1>4 DEF ProgramEnds, OnTestProgramEndDisabled, OnTestProgramEnd, GProgramEnd,
                configVars, ownVars
  <2>. QED BY <2>1, Zenon DEF SwitchCoupled
<1>5. CASE \/ \E name \in GTestNames : SuiteStarts(name) \/ TestStarts(name)
           \/ TestEnds \/ SuiteEnds \/ Allure2Throws
  <2>1. phase # "Idle" /\ UNCHANGED <<legacyResults, built, asked, files>>
    BY <1>5 DEF SuiteStarts, TestStarts, TestEnds, SuiteEnds, Allure2Throws, OnTestSuiteStart,
                OnTestStart, OnTestEnd, OnTestSuiteEnd, OtherListenerThrows, GSuiteStart,
                GTestStart, GTestEnd, GSuiteEnd, GAbort, configVars, ownVars
  <2>. QED BY <2>1, Zenon DEF SwitchCoupled
<1>6. CASE \/ \E type \in StepTypes : StepStarts(type)
           \/ StepReturns
           \/ \E n \in 1..frames : StepThrows(n)
           \/ \E name \in Texts : CaseIsNamed(name)
           \/ AssertionFails \/ TestIsSkipped \/ TimePasses \/ UNCHANGED bothVars
  <2>1. UNCHANGED <<legacyResults, built, asked, files>> /\ phase' = phase
    BY <1>6 DEF StepStarts, StepReturns, StepThrows, CaseIsNamed, AssertionFails, TestIsSkipped,
                TimePasses, StepStart, StepReturn, StepThrow, SetTestCaseName, FailAssertion,
                SkipTest, Tick, GFailInTest, GFailInSuite, GSkip, gtestVars, configVars,
                A!SetTestCaseName, A!gtestVars, legacyVars, ownVars, bothVars, vars
  <2>. QED BY <2>1, Zenon DEF SwitchCoupled
<1>. QED BY <1>1, <1>2, <1>3, <1>4, <1>5, <1>6 DEF BothNext

-----------------------------------------------------------------------------
(***************************************************************************)
(* Both halves and their coupling together are inductive.                  *)
(***************************************************************************)
BothInv == /\ IndInv
           /\ AP!TypeInv
           /\ StepsCoupled
           /\ CaseCoupled
           /\ NameCoupled
           /\ SwitchCoupled

LEMMA InitEstablishesBothInv == BothInit => BothInv
<1>. SUFFICES ASSUME BothInit PROVE BothInv
  OBVIOUS
<1>1. Init /\ A!Init /\ AP!Init
  BY InitOfBoth
<1>2. IndInv
  BY <1>1, InitEstablishesIndInv
<1>3. AP!TypeInv
  BY <1>1, AP!InitEstablishesTypeInv, Allure2Assumed
<1>4. phase = "Idle" /\ frames = 0 /\ Len(stack) = 0 /\ tl_case = NoText /\ files = <<>> /\ ~built
  BY <1>1, EmptySeq DEF Init, GTestInit, A!Init, BothInit
<1>. QED
  BY <1>2, <1>3, <1>4 DEF BothInv, StepsCoupled, CaseCoupled, NameCoupled, SwitchCoupled

LEMMA NextKeepsBothInv == BothInv /\ [BothNext]_bothVars => BothInv'
<1>. SUFFICES ASSUME BothInv, [BothNext]_bothVars PROVE BothInv'
  OBVIOUS
<1>1. IndInv'
  BY LegacyHalf, NextKeepsIndInv DEF BothInv
<1>2. AP!TypeInv'
  BY Allure2Types DEF BothInv, StepsCoupled
<1>3. StepsCoupled' /\ CaseCoupled' /\ NameCoupled' /\ SwitchCoupled'
  BY NextKeepsSteps, NextKeepsCases, NextKeepsNames, NextKeepsSwitch DEF BothInv
<1>. QED BY <1>1, <1>2, <1>3 DEF BothInv

\* At every moment the legacy tree and the thread-local variables are coupled: as
\* many addStep frames as Step objects, as many closed steps as returned ones with
\* the same verdicts, and names that differ only by the suite in front.
THEOREM CouplingHolds == BothSpec => []BothInv
BY InitEstablishesBothInv, NextKeepsBothInv, PTL DEF BothSpec

\* The two reports always have the same number of steps; the legacy report has
\* closed as many as returned, with their verdicts in their order.
THEOREM StepsAlwaysAgree == BothSpec => []StepsAgree
<1>1. BothInv => StepsAgree
  BY CoupledStepsMatch, SearchFindsOpenPath DEF BothInv, StepsAgree
<1>. QED BY <1>1, CouplingHolds, PTL

\* The case and the result of a test always agree on whether it passed, and on how
\* many steps it had and how those that returned went.
THEOREM CasesAndResultsAlwaysAgree == BothSpec => []CaseAndResultAgree
<1>1. BothInv => CaseAndResultAgree
  BY DEF BothInv, CaseCoupled, CaseAndResultAgree, SameTest, LastCase, LastSuite
<1>. QED BY <1>1, CouplingHolds, PTL

\* A test that names itself always has that name in both reports; one that does
\* not is Suite.test and test, but for one test after a stray name.
THEOREM CaseNamesAlwaysAgree == BothSpec => []CaseNamesAgree
<1>1. BothInv => CaseNamesAgree
  <2>. SUFFICES ASSUME BothInv, phase = "Test"
                PROVE  IF ownName # NoText
                       THEN LastCase.name = ownName /\ A!CaseName = ownName
                       ELSE /\ LastCase.name = Qualified(testSuite, testCase)
                            /\ ~stray => A!CaseName = testCase
    BY OpenCaseFacts DEF BothInv, CaseNamesAgree
  <2>1. NameCoupled
    BY DEF BothInv
  <2>2. CASE ownName # NoText
    <3>1. LastCase.name = ownName /\ tl_case = ownName
      BY <2>1, <2>2, Zenon DEF NameCoupled
    <3>. QED BY <2>2, <3>1 DEF A!CaseName
  <2>3. CASE ownName = NoText
    <3>1. LastCase.name = Qualified(testSuite, testCase) /\ (~stray => tl_case = testCase)
      BY <2>1, <2>3, Zenon DEF NameCoupled
    <3>. QED BY <2>3, <3>1 DEF A!CaseName
  <2>. QED BY <2>2, <2>3
<1>. QED BY <1>1, CouplingHolds, PTL

\* With Allure2Listener the legacy documents always have to be asked for after it
\* was constructed: no order of setters, runs and aborted runs makes them appear.
THEOREM LegacyReportIsAlwaysAskedFor == BothSpec => []LegacyReportIsAskedFor
<1>1. BothInv => LegacyReportIsAskedFor
  BY Zenon DEF BothInv, SwitchCoupled, LegacyReportIsAskedFor
<1>. QED BY <1>1, CouplingHolds, PTL
=============================================================================
