-------------------------- MODULE Allure2ReportProofs --------------------------
(***************************************************************************)
(* The results of Allure2Listener are right for every bound, every set of  *)
(* names and every nesting of steps that return or throw: the pointer to   *)
(* the active step never dangles, the variables keep their types, and a    *)
(* result holds its own test's steps, items, times, verdicts and name.     *)
(***************************************************************************)
EXTENDS Allure2Report, SequenceTheorems, TLAPS

(***************************************************************************)
(* The pointer: at every moment null or the address of the Step object of  *)
(* the innermost addStep call.                                             *)
(***************************************************************************)
AddedItem == [kind : Kinds, open : SUBSET Nat]

\* The part of the state the pointer depends on.
PointerInv == /\ stack \in Seq(StepRecord)
              /\ added \in Seq(AddedItem)
              /\ opened \in Nat
              /\ now \in Nat
              /\ ActiveStepIsLive

LEMMA InitEstablishesPointerInv == Init => PointerInv
BY EmptySeq DEF Init, PointerInv, ActiveStepIsLive

\* Steps that neither push nor pop nor write through the pointer.
LEMMA SameStack ==
  ASSUME PointerInv, stack' = stack, tl_activeStep' \in {0, tl_activeStep},
         opened' \in Nat, now' \in Nat, added' \in Seq(AddedItem)
  PROVE  PointerInv'
BY DEF PointerInv, ActiveStepIsLive

LEMMA StepStartKeepsPointer == PointerInv /\ StepStart => PointerInv'
<1>. SUFFICES ASSUME PointerInv, StepStart PROVE PointerInv'
  OBVIOUS
<1>1. NewStep \in StepRecord
  <2>1. opened + 1 \in Nat /\ now \in Nat /\ 0 \in Nat
    BY DEF PointerInv
  <2>2. << >> \in Seq(Nat)
    BY EmptySeq
  <2>. QED BY <2>1, <2>2 DEF NewStep, StepRecord
<1>2. stack' \in Seq(StepRecord) /\ Len(stack') = Len(stack) + 1
  BY <1>1, AppendProperties DEF StepStart, PointerInv
<1>. QED BY <1>2 DEF StepStart, PointerInv, ActiveStepIsLive

LEMMA StepReturnKeepsPointer == PointerInv /\ StepReturn => PointerInv'
<1>. SUFFICES ASSUME PointerInv, StepReturn PROVE PointerInv'
  OBVIOUS
<1>1. stack \in Seq(StepRecord) /\ Len(stack) \in Nat
  BY LenProperties DEF PointerInv
<1>2. \A i \in 1..(Len(stack) - 1) : stack[i] \in StepRecord
  BY <1>1, ElementOfSeq
<1>3. stack' \in Seq(StepRecord)
  BY <1>1, <1>2, SubSeqProperties DEF StepReturn, Front
<1>. QED BY <1>3 DEF StepReturn, history, PointerInv, ActiveStepIsLive

LEMMA StepThrowKeepsPointer ==
  ASSUME PointerInv, NEW n \in 1..Len(stack), StepThrow(n)
  PROVE  PointerInv'
<1>1. stack \in Seq(StepRecord) /\ Len(stack) \in Nat /\ n \in Nat
  BY LenProperties DEF PointerInv
<1>2. \A i \in 1..(Len(stack) - n) : stack[i] \in StepRecord
  BY <1>1, ElementOfSeq
<1>3. stack' \in Seq(StepRecord)
  BY <1>1, <1>2, SubSeqProperties DEF StepThrow, Catch
<1>. QED BY <1>3 DEF StepThrow, Catch, history, PointerInv, ActiveStepIsLive

\* A write through the pointer replaces the top of the stack by a Step object.
LEMMA AddKeepsPointer ==
  ASSUME PointerInv, NEW kind \in Kinds, Add(kind)
  PROVE  PointerInv'
<1>. DEFINE item == Len(added) + 1
            k == tl_activeStep
            items == Append(stack[k].items, item)
            step == [stack[k] EXCEPT !.items = items]
            open == { stack[i].no : i \in DOMAIN stack }
<1>1. /\ item \in Nat /\ stack \in Seq(StepRecord) /\ Len(stack) \in Nat
      /\ DOMAIN stack = 1..Len(stack)
  BY LenProperties DEF PointerInv
<1>2. added' \in Seq(AddedItem)
  <2>1. open \in SUBSET Nat
    <3>1. \A i \in 1..Len(stack) : stack[i] \in StepRecord
      BY <1>1, ElementOfSeq
    <3>2. \A i \in 1..Len(stack) : stack[i].no \in Nat
      BY <3>1 DEF StepRecord
    <3>. QED BY <1>1, <3>2
  <2>. HIDE DEF open
  <2>2. [kind |-> kind, open |-> open] \in AddedItem
    BY <2>1 DEF AddedItem
  <2>3. added' = Append(added, [kind |-> kind, open |-> open])
    BY DEF Add, open
  <2>. QED BY <2>2, <2>3, AppendProperties DEF PointerInv
<1>3. CASE stack' = stack
  BY <1>2, <1>3, SameStack DEF Add, PointerInv
<1>4. CASE stack' # stack
  <2>1. k # 0 /\ k = Len(stack) /\ k \in 1..Len(stack)
    BY <1>1, <1>4 DEF Add, PointerInv, ActiveStepIsLive
  <2>2. stack' = [stack EXCEPT ![k] = step]
    BY <1>4 DEF Add
  <2>3. stack[k] \in StepRecord
    BY <1>1, <2>1, ElementOfSeq
  <2>4. items \in Seq(Nat)
    BY <1>1, <2>3, AppendProperties DEF StepRecord
  <2>. HIDE DEF items
  <2>5. step \in StepRecord
    BY <2>3, <2>4 DEF StepRecord
  <2>. HIDE DEF step
  <2>6. stack' \in Seq(StepRecord) /\ Len(stack') = Len(stack)
    BY <1>1, <2>1, <2>2, <2>5, ExceptSeq
  <2>. QED BY <1>2, <2>1, <2>6 DEF Add, PointerInv, ActiveStepIsLive
<1>. QED BY <1>3, <1>4

LEMMA NextKeepsPointerInv == PointerInv /\ [Next]_vars => PointerInv'
<1>. SUFFICES ASSUME PointerInv, [Next]_vars PROVE PointerInv'
  OBVIOUS
<1>1. CASE StepStart
  BY <1>1, StepStartKeepsPointer
<1>2. CASE StepReturn
  BY <1>2, StepReturnKeepsPointer
<1>3. CASE \E n \in 1..Len(stack) : StepThrow(n)
  BY <1>3, StepThrowKeepsPointer
<1>4. CASE \E kind \in Kinds : Add(kind)
  BY <1>4, AddKeepsPointer
<1>5. CASE \E name \in GTestNames : SuiteStart(name) \/ OnTestStart(name)
  <2>1. /\ stack' = stack /\ tl_activeStep' \in {0, tl_activeStep}
        /\ opened' \in Nat /\ now' \in Nat /\ added' \in Seq(AddedItem)
    <3>1. << >> \in Seq(AddedItem)
      BY EmptySeq
    <3>2. CASE \E name \in GTestNames : SuiteStart(name)
      BY <3>2 DEF SuiteStart, tlVars, history, PointerInv
    <3>3. CASE \E name \in GTestNames : OnTestStart(name)
      BY <3>1, <3>3 DEF OnTestStart, BeginTestCase, PointerInv
    <3>. QED BY <1>5, <3>2, <3>3
  <2>. QED BY <2>1, SameStack
<1>6. CASE \/ ProgramStart \/ OnTestEnd \/ RunIsCutShort \/ SuiteEnd \/ ProgramEnd
           \/ FailAssertion \/ SkipTest \/ Tick \/ UNCHANGED vars
  <2>1. /\ stack' = stack /\ tl_activeStep' = tl_activeStep
        /\ opened' = opened /\ added' = added /\ now' \in Nat
    BY <1>6 DEF ProgramStart, OnTestEnd, RunIsCutShort, SuiteEnd, ProgramEnd, FailAssertion,
                SkipTest, Tick, vars, history, tlVars, PointerInv
  <2>. QED BY <2>1, SameStack DEF PointerInv
<1>7. CASE \/ \E name \in Names : SetTestSuiteName(name)
           \/ \E name \in Names \cup {NoText} : SetTestCaseName(name)
           \/ \E key \in GlobalKeys, value \in Names \cup Patterns : SetGlobal(key, value)
  <2>1. /\ stack' = stack /\ tl_activeStep' = tl_activeStep
        /\ opened' = opened /\ added' = added /\ now' = now
    BY <1>7 DEF SetTestSuiteName, SetTestCaseName, SetGlobal, tlVars
  <2>. QED BY <2>1, SameStack DEF PointerInv
<1>. QED
  BY <1>1, <1>2, <1>3, <1>4, <1>5, <1>6, <1>7 DEF Next, GlobalKeys

\* AllureAPI never keeps a pointer to a Step object whose addStep call has ended.
THEOREM ActiveStepNeverDangles == Spec => []ActiveStepIsLive
<1>1. PointerInv => ActiveStepIsLive
  BY DEF PointerInv
<1>. QED BY <1>1, InitEstablishesPointerInv, NextKeepsPointerInv, PTL DEF Spec

-----------------------------------------------------------------------------
(***************************************************************************)
(* Types.  A step is only open while gtest is in a test.                   *)
(***************************************************************************)
TypeInv == /\ TypeOK
           /\ PointerInv
           /\ testSuite \in GTestNames
           /\ testCase \in GTestNames
           /\ stack # <<>> => phase = "Test"

LEMMA StepsOf ==
  ASSUME NEW steps \in Seq(StepRecord)
  PROVE  /\ Len(steps) \in Nat /\ DOMAIN steps = 1..Len(steps)
         /\ \A i \in 1..Len(steps) :
              /\ steps[i] \in StepRecord
              /\ steps[i].no \in Nat /\ steps[i].start \in Nat /\ steps[i].stop \in Nat
              /\ steps[i].items \in Seq(Nat) /\ Len(steps[i].items) \in Nat
<1>1. Len(steps) \in Nat /\ DOMAIN steps = 1..Len(steps)
  BY LenProperties
<1>2. ASSUME NEW i \in 1..Len(steps)
      PROVE  /\ steps[i] \in StepRecord
             /\ steps[i].no \in Nat /\ steps[i].start \in Nat /\ steps[i].stop \in Nat
             /\ steps[i].items \in Seq(Nat) /\ Len(steps[i].items) \in Nat
  <2>1. steps[i] \in StepRecord
    BY ElementOfSeq
  <2>2. /\ steps[i].no \in Nat /\ steps[i].start \in Nat /\ steps[i].stop \in Nat
        /\ steps[i].items \in Seq(Nat)
    BY <2>1 DEF StepRecord
  <2>. QED BY <2>1, <2>2, LenProperties
<1>. QED BY <1>1, <1>2

LEMMA EndedFacts ==
  ASSUME NEW step \in StepRecord, NEW status \in {"passed", "failed", "broken"}, now \in Nat
  PROVE  LET ended == Ended(step, status)
         IN  /\ ended \in StepRecord
             /\ ended.no = step.no /\ ended.start = step.start /\ ended.items = step.items
             /\ ended.stop = now /\ ended.status = status
BY DEF Ended, StepRecord

(***************************************************************************)
(* The innermost n steps end, innermost first: step j of the new ones is   *)
(* the one that was at position Closing(j) of the stack.                   *)
(***************************************************************************)
Closing(j) == Len(stack) + 1 + Len(tl_steps) - j

StepsEnd(n, status) ==
  /\ stack' \in Seq(StepRecord)
  /\ Len(stack') = Len(stack) - n
  /\ \A i \in 1..(Len(stack) - n) : stack'[i] = stack[i]
  /\ tl_steps' \in Seq(StepRecord)
  /\ Len(tl_steps') = Len(tl_steps) + n
  /\ \A j \in 1..Len(tl_steps) : tl_steps'[j] = tl_steps[j]
  /\ \A j \in (Len(tl_steps) + 1)..(Len(tl_steps) + n) :
       tl_steps'[j] = Ended(stack[Closing(j)], status)

LEMMA StepReturnEnds ==
  ASSUME TypeInv, StepReturn
  PROVE  1 \in 1..Len(stack) /\ StepsEnd(1, IF testFailed THEN "failed" ELSE "passed")
<1>. DEFINE d == Len(stack)
            m == Len(tl_steps)
            status == IF testFailed THEN "failed" ELSE "passed"
            step == Ended(stack[d], status)
<1>1. /\ stack \in Seq(StepRecord) /\ tl_steps \in Seq(StepRecord) /\ now \in Nat
      /\ d \in Nat /\ m \in Nat
  BY LenProperties DEF TypeInv, TypeOK
<1>2. d # 0 /\ d \in 1..d /\ stack[d] \in StepRecord
  <2>1. d # 0
    BY <1>1, EmptySeq DEF StepReturn
  <2>. QED BY <1>1, <2>1, StepsOf
<1>3. stack' = SubSeq(stack, 1, d - 1) /\ tl_steps' = Append(tl_steps, step)
  BY DEF StepReturn, Front, Last
<1>4. step \in StepRecord
  BY <1>1, <1>2, EndedFacts
<1>5. /\ stack' \in Seq(StepRecord) /\ Len(stack') = d - 1
      /\ \A i \in 1..(d - 1) : stack'[i] = stack[i]
  <2>1. \A i \in 1..(d - 1) : stack[i] \in StepRecord
    BY <1>1, StepsOf
  <2>2. d - 1 \in Nat /\ 1 \in Nat
    BY <1>1, <1>2
  <2>. HIDE DEF d
  <2>. QED BY <1>1, <1>3, <2>1, <2>2, SubSeqProperties
<1>. HIDE DEF step
<1>6. /\ tl_steps' \in Seq(StepRecord) /\ Len(tl_steps') = m + 1 /\ tl_steps'[m + 1] = step
      /\ \A j \in 1..m : tl_steps'[j] = tl_steps[j]
  BY <1>1, <1>3, <1>4, AppendProperties
<1>7. ASSUME NEW j \in (m + 1)..(m + 1)
      PROVE  tl_steps'[j] = Ended(stack[Closing(j)], status)
  <2>1. j = m + 1 /\ Closing(j) = d
    BY <1>1 DEF Closing
  <2>. QED BY <1>6, <2>1 DEF step
<1>. QED BY <1>2, <1>5, <1>6, <1>7 DEF StepsEnd

LEMMA StepThrowEnds ==
  ASSUME TypeInv, NEW n \in 1..Len(stack), StepThrow(n)
  PROVE  StepsEnd(n, "broken")
<1>. DEFINE d == Len(stack)
            m == Len(tl_steps)
            ended == [i \in 1..n |-> Ended(Unwound(n)[i], "broken")]
<1>1. /\ stack \in Seq(StepRecord) /\ tl_steps \in Seq(StepRecord) /\ now \in Nat
      /\ d \in Nat /\ m \in Nat /\ n \in Nat
  BY LenProperties DEF TypeInv, TypeOK
<1>2. stack' = SubSeq(stack, 1, d - n) /\ tl_steps' = tl_steps \o ended
  BY DEF StepThrow, Catch
<1>3. /\ stack' \in Seq(StepRecord) /\ Len(stack') = d - n
      /\ \A i \in 1..(d - n) : stack'[i] = stack[i]
  <2>1. \A i \in 1..(d - n) : stack[i] \in StepRecord
    BY <1>1, StepsOf
  <2>. QED BY <1>1, <1>2, <2>1, SubSeqProperties
<1>4. \A i \in 1..n : ended[i] = Ended(stack[d + 1 - i], "broken") /\ ended[i] \in StepRecord
  <2>1. ASSUME NEW i \in 1..n
        PROVE  /\ d + 1 - i \in 1..d /\ Unwound(n)[i] = stack[d + 1 - i]
    BY <1>1 DEF Unwound
  <2>2. \A i \in 1..n : Unwound(n)[i] \in StepRecord
    BY <1>1, <2>1, StepsOf
  <2>3. \A i \in 1..n : Ended(Unwound(n)[i], "broken") \in StepRecord
    BY <1>1, <2>2, EndedFacts
  <2>. QED BY <2>1, <2>3
<1>5. ended \in Seq(StepRecord) /\ Len(ended) = n
  <2>1. ended = [i \in 1..n |-> ended[i]]
    OBVIOUS
  <2>. HIDE DEF ended
  <2>2. ended \in [1..n -> StepRecord]
    BY <1>4, <2>1
  <2>. QED BY <1>1, <2>2
<1>. HIDE DEF ended
<1>6. /\ tl_steps' \in Seq(StepRecord) /\ Len(tl_steps') = m + n
      /\ \A j \in 1..(m + n) : tl_steps'[j] = IF j <= m THEN tl_steps[j] ELSE ended[j - m]
  BY <1>1, <1>2, <1>5, ConcatProperties
<1>7. ASSUME NEW j \in (m + 1)..(m + n)
      PROVE  tl_steps'[j] = Ended(stack[Closing(j)], "broken")
  <2>1. j - m \in 1..n /\ j \in 1..(m + n) /\ ~(j <= m) /\ d + 1 - (j - m) = Closing(j)
    BY <1>1 DEF Closing
  <2>. QED BY <1>4, <1>6, <2>1
<1>8. \A j \in 1..m : tl_steps'[j] = tl_steps[j]
  BY <1>1, <1>6
<1>. QED BY <1>3, <1>6, <1>7, <1>8 DEF StepsEnd

(***************************************************************************)
(* The actions by what they leave alone.                                   *)
(***************************************************************************)
GTestStep == \/ GProgramStart \/ GSuiteStart \/ GTestStart \/ GTestEnd \/ GSuiteEnd
             \/ GProgramEnd \/ GAbort \/ GFailInTest \/ GFailInSuite \/ GSkip
             \/ UNCHANGED gtestVars

LEMMA GTestTypesKept == GTestTypeOK /\ GTestStep => GTestTypeOK'
<1>. SUFFICES ASSUME GTestTypeOK, GTestStep PROVE GTestTypeOK'
  OBVIOUS
<1>1. CASE GProgramStart \/ GSuiteStart \/ GTestStart \/ GProgramEnd \/ UNCHANGED gtestVars
  BY <1>1, Zenon DEF GTestTypeOK, Phases, GProgramStart, GSuiteStart, GTestStart, GProgramEnd,
                     gtestVars
<1>2. CASE GTestEnd \/ GSuiteEnd \/ GAbort
  BY <1>2, Zenon DEF GTestTypeOK, Phases, GTestEnd, GSuiteEnd, GAbort
<1>3. CASE GFailInTest \/ GFailInSuite \/ GSkip
  BY <1>3, Zenon DEF GTestTypeOK, Phases, GFailInTest, GFailInSuite, GSkip
<1>. QED BY <1>1, <1>2, <1>3 DEF GTestStep

SetText == \/ \E name \in Names : SetTestSuiteName(name)
           \/ \E name \in Names \cup {NoText} : SetTestCaseName(name)
           \/ \E key \in GlobalKeys, value \in Names \cup Patterns : SetGlobal(key, value)

\* gtest, the setters and the clock: nothing of the current test's record
\* changes but the time, and gtest neither starts a test nor forgets a failure.
Quiet == \/ ProgramStart \/ OnTestEnd \/ RunIsCutShort \/ SuiteEnd \/ ProgramEnd
         \/ \E name \in GTestNames : SuiteStart(name)
         \/ SetText \/ FailAssertion \/ SkipTest \/ Tick \/ UNCHANGED vars

LEMMA NextCases ==
  ASSUME [Next]_vars
  PROVE  \/ Quiet
         \/ \E name \in GTestNames : OnTestStart(name)
         \/ StepStart
         \/ StepReturn
         \/ \E n \in 1..Len(stack) : StepThrow(n)
         \/ \E kind \in Kinds : Add(kind)
BY DEF Next, Quiet, SetText, GlobalKeys

LEMMA NextIsGTestStep == [Next]_vars => GTestStep
<1>. SUFFICES ASSUME [Next]_vars PROVE GTestStep
  OBVIOUS
<1>1. CASE Quiet
  BY <1>1 DEF Quiet, SetText, GTestStep, ProgramStart, OnTestEnd, RunIsCutShort, SuiteEnd,
              ProgramEnd, SuiteStart, SetTestSuiteName, SetTestCaseName, SetGlobal,
              FailAssertion, SkipTest, Tick, vars
<1>2. CASE \/ \E name \in GTestNames : OnTestStart(name)
           \/ StepStart \/ StepReturn
           \/ \E n \in 1..Len(stack) : StepThrow(n)
           \/ \E kind \in Kinds : Add(kind)
  BY <1>2 DEF GTestStep, OnTestStart, StepStart, StepReturn, StepThrow, Add
<1>. QED BY <1>1, <1>2, NextCases

LEMMA QuietLeaves ==
  ASSUME TypeInv, Quiet
  PROVE  /\ UNCHANGED <<tl_startMs, tl_steps, tl_items, tl_activeStep, stack, opened, added>>
         /\ now' \in Nat /\ now <= now'
         /\ phase' = "Test" => phase = "Test" /\ (testFailed => testFailed')
<1>. USE DEF tlVars, history, gtestVars, vars
<1>1. now \in Nat
  BY DEF TypeInv, TypeOK
<1>2. CASE ProgramStart \/ SuiteEnd \/ ProgramEnd \/ \E name \in GTestNames : SuiteStart(name)
  BY <1>1, <1>2 DEF ProgramStart, SuiteEnd, ProgramEnd, SuiteStart, GProgramStart, GSuiteEnd,
                    GProgramEnd, GSuiteStart
<1>3. CASE OnTestEnd \/ RunIsCutShort
  BY <1>1, <1>3 DEF OnTestEnd, RunIsCutShort, EndTestCase, GTestEnd, GAbort
<1>4. CASE SetText
  BY <1>1, <1>4 DEF SetText, SetTestSuiteName, SetTestCaseName, SetGlobal
<1>5. CASE FailAssertion \/ SkipTest \/ UNCHANGED vars
  <2>1. UNCHANGED <<tl_startMs, tl_steps, tl_items, tl_activeStep, stack, opened, added, now>>
    BY <1>5 DEF FailAssertion, SkipTest
  <2>2. phase' = phase /\ (testFailed => testFailed')
    <3>1. CASE FailAssertion
      <4>1. CASE GFailInTest
        BY <4>1, Zenon DEF GFailInTest
      <4>2. CASE GFailInSuite
        <5>1. phase' = phase /\ testFailed' = testFailed
          BY <4>2 DEF GFailInSuite
        <5>. QED BY <5>1, Zenon
      <4>. QED BY <3>1, <4>1, <4>2 DEF FailAssertion
    <3>2. CASE SkipTest
      BY <3>2, Zenon DEF SkipTest, GSkip
    <3>3. CASE UNCHANGED vars
      BY <3>3, Zenon
    <3>. QED BY <1>5, <3>1, <3>2, <3>3
  <2>. QED BY <1>1, <2>1, <2>2
<1>6. CASE Tick
  BY <1>1, <1>6 DEF Tick
<1>. QED BY <1>2, <1>3, <1>4, <1>5, <1>6 DEF Quiet

-----------------------------------------------------------------------------
(***************************************************************************)
(* TypeInv, variable by variable.                                          *)
(***************************************************************************)
LEMMA InitEstablishesTypeInv == Init => TypeInv
<1>. SUFFICES ASSUME Init PROVE TypeInv
  OBVIOUS
<1>1. PointerInv
  BY InitEstablishesPointerInv
<1>2. GTestTypeOK
  BY Zenon DEF Init, GTestInit, GTestTypeOK, Phases
<1>3. tl_items \in [Kinds -> Seq(Nat)]
  <2>1. <<>> \in Seq(Nat)
    BY EmptySeq
  <2>. QED BY <2>1 DEF Init, NoItems
<1>4. tl_steps \in Seq(StepRecord) /\ stack = <<>> /\ stack \in Seq(StepRecord)
  BY EmptySeq DEF Init
<1>5. TypeOK
  BY <1>2, <1>3, <1>4 DEF Init, TypeOK
<1>. QED BY <1>1, <1>4, <1>5 DEF Init, TypeInv

\* The names and texts.
TextTypes == /\ testSuite \in GTestNames
             /\ testCase \in GTestNames
             /\ tl_suite \in GTestNames \cup Names \cup {NoText}
             /\ tl_case \in GTestNames \cup Names \cup {NoText}
             /\ g \in [GlobalKeys -> Names \cup Patterns \cup {NoText}]
             /\ aborted \in BOOLEAN

LEMMA TextTypesKept == TextTypes /\ [Next]_vars => TextTypes'
<1>. SUFFICES ASSUME TextTypes, [Next]_vars PROVE TextTypes'
  OBVIOUS
<1>. USE DEF testInfo, tlVars, history, vars, TextTypes
<1>1. CASE SetText
  <2>1. CASE \E name \in Names : SetTestSuiteName(name)
    BY <2>1 DEF SetTestSuiteName
  <2>2. CASE \E name \in Names \cup {NoText} : SetTestCaseName(name)
    BY <2>2 DEF SetTestCaseName
  <2>3. CASE \E key \in GlobalKeys, value \in Names \cup Patterns : SetGlobal(key, value)
    BY <2>3 DEF SetGlobal
  <2>. QED BY <1>1, <2>1, <2>2, <2>3 DEF SetText
<1>2. CASE \E name \in GTestNames : SuiteStart(name)
  BY <1>2 DEF SuiteStart
<1>3. CASE \E name \in GTestNames : OnTestStart(name)
  BY <1>3 DEF OnTestStart, BeginTestCase
<1>4. CASE OnTestEnd
  BY <1>4 DEF OnTestEnd, EndTestCase
<1>5. CASE RunIsCutShort
  BY <1>5 DEF RunIsCutShort
<1>6. CASE ProgramStart \/ SuiteEnd \/ ProgramEnd \/ FailAssertion \/ SkipTest \/ Tick \/ UNCHANGED vars
  BY <1>6 DEF ProgramStart, SuiteEnd, ProgramEnd, FailAssertion, SkipTest, Tick
<1>7. CASE \/ StepStart \/ StepReturn
           \/ \E n \in 1..Len(stack) : StepThrow(n)
           \/ \E kind \in Kinds : Add(kind)
  BY <1>7 DEF StepStart, StepReturn, StepThrow, Add
<1>. QED BY <1>1, <1>2, <1>3, <1>4, <1>5, <1>6, <1>7, NextCases DEF Quiet

\* The record of the current test; the stack is PointerInv's.
RecordTypes == /\ tl_startMs \in Nat
               /\ tl_steps \in Seq(StepRecord)
               /\ tl_items \in [Kinds -> Seq(Nat)]
               /\ stack # <<>> => phase = "Test"

\* What a test adds goes to the innermost step, or to the test.
LEMMA AddEffect ==
  ASSUME TypeInv, NEW kind \in Kinds, Add(kind)
  PROVE  LET item  == Len(added) + 1
             d     == Len(stack)
             entry == [kind |-> kind, open |-> { stack[i].no : i \in 1..d }]
         IN  /\ item \in Nat /\ entry \in AddedItem
             /\ Len(added') = item /\ added'[item] = entry
             /\ \A x \in 1..Len(added) : added'[x] = added[x]
             /\ UNCHANGED <<phase, testFailed, tl_startMs, tl_steps, tl_activeStep, now, opened>>
             /\ stack' \in Seq(StepRecord) /\ Len(stack') = d
             /\ \/ /\ stack' = stack
                   /\ tl_items' = [tl_items EXCEPT ![kind] = Append(tl_items[kind], item)]
                \/ /\ tl_items' = tl_items
                   /\ kind \in StepKinds
                   /\ d \in 1..d
                   /\ \A i \in 1..d :
                        stack'[i] = IF i = d
                                    THEN [stack[d] EXCEPT !.items = Append(stack[d].items, item)]
                                    ELSE stack[i]
<1>. DEFINE item  == Len(added) + 1
            d     == Len(stack)
            open  == { stack[i].no : i \in 1..d }
            entry == [kind |-> kind, open |-> open]
            k     == tl_activeStep
            items == Append(stack[k].items, item)
            step  == [stack[k] EXCEPT !.items = items]
<1>1. /\ added \in Seq(AddedItem) /\ item \in Nat
      /\ stack \in Seq(StepRecord) /\ d \in Nat /\ DOMAIN stack = 1..d
      /\ k \in {0, d}
  BY LenProperties DEF TypeInv, PointerInv, ActiveStepIsLive
<1>2. open \in SUBSET Nat
  BY <1>1, StepsOf
<1>. HIDE DEF open
<1>3. entry \in AddedItem
  BY <1>2 DEF AddedItem
<1>4. added' = Append(added, entry)
  BY <1>1 DEF Add, open
<1>. HIDE DEF entry
<1>5. /\ Len(added') = item /\ added'[item] = entry
      /\ \A x \in 1..Len(added) : added'[x] = added[x]
  <2>1. added \in Seq(AddedItem)
    BY <1>1
  <2>2. /\ Len(Append(added, entry)) = Len(added) + 1
        /\ Append(added, entry)[Len(added) + 1] = entry
        /\ \A x \in 1..Len(added) : Append(added, entry)[x] = added[x]
    BY <1>3, <2>1, AppendProperties
  <2>. QED BY <1>4, <2>2
<1>6. UNCHANGED <<phase, testFailed, tl_startMs, tl_steps, tl_activeStep, now, opened>>
  BY DEF Add, gtestVars
<1>7. CASE kind \in StepKinds /\ k # 0
  <2>1. k = d /\ d \in 1..d
    <3>. HIDE DEF k, d
    <3>. QED BY <1>1, <1>7
  <2>2. tl_items' = tl_items /\ stack' = [stack EXCEPT ![k] = step]
    BY <1>7 DEF Add
  <2>3. stack[k] \in StepRecord /\ stack[k].items \in Seq(Nat)
    BY <1>1, <2>1, StepsOf
  <2>4. items \in Seq(Nat)
    BY <1>1, <2>3, AppendProperties
  <2>. HIDE DEF items
  <2>5. step \in StepRecord
    BY <2>3, <2>4 DEF StepRecord
  <2>. HIDE DEF step
  <2>6. /\ stack' \in Seq(StepRecord) /\ Len(stack') = d
        /\ \A i \in 1..d : stack'[i] = IF i = k THEN step ELSE stack[i]
    BY <1>1, <2>1, <2>2, <2>5, ExceptSeq
  <2>7. step = [stack[d] EXCEPT !.items = Append(stack[d].items, item)]
    BY <2>1 DEF step, items
  <2>. HIDE DEF d, k, item
  <2>. QED BY <1>1, <1>3, <1>5, <1>6, <1>7, <2>1, <2>2, <2>6, <2>7 DEF d, item, open, entry
<1>8. CASE ~(kind \in StepKinds /\ k # 0)
  <2>1. stack' = stack /\ tl_items' = [tl_items EXCEPT ![kind] = Append(tl_items[kind], item)]
    BY <1>8 DEF Add
  <2>. QED BY <1>1, <1>3, <1>5, <1>6, <2>1 DEF open, entry
<1>. QED BY <1>7, <1>8

LEMMA RecordTypesKept == TypeInv /\ [Next]_vars => RecordTypes'
<1>. SUFFICES ASSUME TypeInv, [Next]_vars PROVE RecordTypes'
  OBVIOUS
<1>1. /\ tl_startMs \in Nat /\ now \in Nat /\ tl_steps \in Seq(StepRecord)
      /\ tl_items \in [Kinds -> Seq(Nat)] /\ Len(added) + 1 \in Nat
      /\ stack \in Seq(StepRecord) /\ (stack # <<>> => phase = "Test")
  BY LenProperties DEF TypeInv, TypeOK, PointerInv
<1>2. CASE Quiet
  <2>1. UNCHANGED <<tl_startMs, tl_steps, tl_items, stack>>
    BY <1>2, QuietLeaves
  <2>2. stack # <<>> => phase' = phase
    BY <1>1, <1>2 DEF Quiet, ProgramStart, OnTestEnd, RunIsCutShort, SuiteEnd, ProgramEnd,
             SuiteStart, SetText, SetTestSuiteName, SetTestCaseName, SetGlobal, FailAssertion,
             SkipTest, Tick, vars, gtestVars, GProgramStart, GSuiteStart, GTestEnd, GSuiteEnd,
             GProgramEnd, GAbort, GFailInTest, GFailInSuite, GSkip
  <2>. QED BY <1>1, <2>1, <2>2 DEF RecordTypes
<1>3. CASE \E name \in GTestNames : OnTestStart(name)
  <2>1. tl_startMs' = now /\ tl_steps' = <<>> /\ tl_items' = NoItems /\ phase' = "Test"
    BY <1>3 DEF OnTestStart, BeginTestCase, GTestStart
  <2>2. <<>> \in Seq(Nat) /\ <<>> \in Seq(StepRecord)
    BY EmptySeq
  <2>3. NoItems \in [Kinds -> Seq(Nat)]
    BY <2>2 DEF NoItems
  <2>. QED BY <1>1, <2>1, <2>2, <2>3 DEF RecordTypes
<1>4. CASE StepStart
  BY <1>1, <1>4 DEF StepStart, RecordTypes, gtestVars
<1>5. CASE StepReturn
  <2>1. tl_steps' \in Seq(StepRecord)
    BY <1>5, StepReturnEnds DEF StepsEnd
  <2>2. stack # <<>> /\ UNCHANGED <<phase, tl_startMs, tl_items>>
    BY <1>5 DEF StepReturn, gtestVars
  <2>. QED BY <1>1, <2>1, <2>2 DEF RecordTypes
<1>6. CASE \E n \in 1..Len(stack) : StepThrow(n)
  <2>1. PICK n \in 1..Len(stack) : StepThrow(n)
    BY <1>6
  <2>2. tl_steps' \in Seq(StepRecord)
    BY <2>1, StepThrowEnds DEF StepsEnd
  <2>3. UNCHANGED <<phase, tl_startMs, tl_items>>
    BY <2>1 DEF StepThrow, gtestVars, GFailInTest
  <2>4. stack # <<>>
    BY <1>1, EmptySeq
  <2>. QED BY <1>1, <2>2, <2>3, <2>4 DEF RecordTypes
<1>7. CASE \E kind \in Kinds : Add(kind)
  <2>1. PICK kind \in Kinds : Add(kind)
    BY <1>7
  <2>. DEFINE items == Append(tl_items[kind], Len(added) + 1)
  <2>2. /\ UNCHANGED <<phase, tl_startMs, tl_steps>> /\ Len(stack') = Len(stack)
        /\ stack' \in Seq(StepRecord)
        /\ tl_items' = tl_items \/ tl_items' = [tl_items EXCEPT ![kind] = items]
    BY <2>1, AddEffect
  <2>3. items \in Seq(Nat)
    BY <1>1, AppendProperties
  <2>. HIDE DEF items
  <2>4. tl_items' \in [Kinds -> Seq(Nat)]
    BY <1>1, <2>2, <2>3
  <2>5. stack' # <<>> => stack # <<>>
    BY <1>1, <2>2, EmptySeq
  <2>. QED BY <1>1, <2>2, <2>4, <2>5 DEF RecordTypes
<1>. QED BY <1>2, <1>3, <1>4, <1>5, <1>6, <1>7, NextCases

LEMMA NextKeepsTypeInv == TypeInv /\ [Next]_vars => TypeInv'
<1>. SUFFICES ASSUME TypeInv, [Next]_vars PROVE TypeInv'
  OBVIOUS
<1>1. TextTypes'
  BY TextTypesKept DEF TypeInv, TypeOK, TextTypes
<1>2. RecordTypes'
  BY RecordTypesKept
<1>3. PointerInv'
  BY NextKeepsPointerInv DEF TypeInv
<1>4. GTestTypeOK'
  BY GTestTypesKept, NextIsGTestStep DEF TypeInv, TypeOK
<1>5. tl_activeStep' \in Nat
  BY <1>3, LenProperties DEF PointerInv, ActiveStepIsLive
<1>6. TypeOK'
  BY <1>1, <1>2, <1>3, <1>4, <1>5 DEF TypeOK, TextTypes, RecordTypes, PointerInv
<1>. QED BY <1>1, <1>2, <1>3, <1>6 DEF TypeInv, TextTypes, RecordTypes

THEOREM TypesHold == Spec => []TypeInv
BY InitEstablishesTypeInv, NextKeepsTypeInv, PTL DEF Spec

\* The thread-local and global variables always hold what C++ declares: each
\* text is a name or unset, each step and item a whole record.
THEOREM TypeCorrect == Spec => []TypeOK
<1>1. TypeInv => TypeOK
  BY DEF TypeInv
<1>. QED BY <1>1, TypesHold, PTL

-----------------------------------------------------------------------------
(***************************************************************************)
(* The other actions that change the record of the current test.           *)
(***************************************************************************)
LEMMA TestStartEffect ==
  ASSUME TypeInv, NEW name \in GTestNames, OnTestStart(name)
  PROVE  /\ Len(stack') = 0 /\ Len(tl_steps') = 0 /\ Len(added') = 0 /\ opened' = 0
         /\ tl_items' = NoItems /\ tl_startMs' = now' /\ now' \in Nat
<1>1. stack = <<>> /\ stack' = stack
  BY DEF OnTestStart, GTestStart, TypeInv
<1>. QED BY <1>1, EmptySeq DEF OnTestStart, BeginTestCase, TypeInv, TypeOK

LEMMA StepStartEffect ==
  ASSUME TypeInv, StepStart
  PROVE  /\ UNCHANGED <<phase, testFailed, tl_startMs, tl_steps, tl_items, now, added>>
         /\ stack' \in Seq(StepRecord) /\ Len(stack') = Len(stack) + 1
         /\ \A i \in 1..Len(stack) : stack'[i] = stack[i]
         /\ stack'[Len(stack) + 1] = NewStep
         /\ opened' = opened + 1
<1>1. opened \in Nat /\ now \in Nat /\ stack \in Seq(StepRecord) /\ opened + 1 \in Nat
  BY DEF TypeInv, TypeOK
<1>2. NewStep \in StepRecord
  <2>1. <<>> \in Seq(Nat)
    BY EmptySeq
  <2>. QED BY <1>1, <2>1 DEF NewStep, StepRecord
<1>3. /\ Append(stack, NewStep) \in Seq(StepRecord)
      /\ Len(Append(stack, NewStep)) = Len(stack) + 1
      /\ \A i \in 1..Len(stack) : Append(stack, NewStep)[i] = stack[i]
      /\ Append(stack, NewStep)[Len(stack) + 1] = NewStep
  BY <1>1, <1>2, AppendProperties
<1>. QED BY <1>3 DEF StepStart, gtestVars

\* What a new position of tl_steps holds after n steps ended.
LEMMA StepsEndFacts ==
  ASSUME TypeInv, NEW n \in 1..Len(stack), NEW status \in {"passed", "failed", "broken"},
         StepsEnd(n, status),
         NEW j \in 1..Len(tl_steps'), ~(j <= Len(tl_steps))
  PROVE  LET k == Closing(j)
         IN  /\ k \in 1..Len(stack) /\ ~(k <= Len(stack) - n)
             /\ tl_steps'[j].no = stack[k].no /\ tl_steps'[j].start = stack[k].start
             /\ tl_steps'[j].items = stack[k].items
             /\ tl_steps'[j].stop = now /\ tl_steps'[j].status = status
<1>. DEFINE m == Len(tl_steps)
            d == Len(stack)
            k == Closing(j)
<1>1. /\ stack \in Seq(StepRecord) /\ tl_steps \in Seq(StepRecord) /\ now \in Nat
      /\ m \in Nat /\ d \in Nat
  BY LenProperties DEF TypeInv, TypeOK
<1>2. Len(tl_steps') = m + n
  BY DEF StepsEnd
<1>3. j \in (m + 1)..(m + n) /\ k \in 1..d /\ ~(k <= d - n)
  <2>. HIDE DEF m, d
  <2>1. j \in (m + 1)..(m + n)
    BY <1>1, <1>2 DEF m
  <2>2. k = d + 1 + m - j
    BY DEF Closing, m, d
  <2>3. n \in 1..d
    BY DEF d
  <2>. HIDE DEF k
  <2>. QED BY <1>1, <2>1, <2>2, <2>3
<1>4. tl_steps'[j] = Ended(stack[k], status)
  BY <1>3 DEF StepsEnd
<1>5. stack[k] \in StepRecord
  BY <1>1, <1>3, StepsOf
<1>. HIDE DEF k
<1>6. /\ Ended(stack[k], status).no = stack[k].no
      /\ Ended(stack[k], status).start = stack[k].start
      /\ Ended(stack[k], status).items = stack[k].items
      /\ Ended(stack[k], status).stop = now /\ Ended(stack[k], status).status = status
  BY <1>1, <1>5, EndedFacts
<1>. QED BY <1>3, <1>4, <1>6 DEF k

\* The way back: a position that was popped is one of the new ones.
LEMMA PoppedIsEnded ==
  ASSUME TypeInv, NEW n \in 1..Len(stack), NEW status, StepsEnd(n, status),
         NEW k \in 1..Len(stack), ~(k <= Len(stack) - n)
  PROVE  /\ Closing(k) \in 1..Len(tl_steps') /\ ~(Closing(k) <= Len(tl_steps))
         /\ Closing(Closing(k)) = k
<1>. DEFINE m == Len(tl_steps)
            d == Len(stack)
<1>1. m \in Nat /\ d \in Nat /\ n \in 1..d
  BY LenProperties DEF TypeInv, TypeOK
<1>2. Len(tl_steps') = m + n
  BY DEF StepsEnd
<1>. HIDE DEF m, d
<1>3. \A x : Closing(x) = d + 1 + m - x
  BY DEF Closing, m, d
<1>. QED BY <1>1, <1>2, <1>3 DEF m, d

-----------------------------------------------------------------------------
(***************************************************************************)
(* Every number up to opened is that of one step, on the stack in order or *)
(* among the steps that ended.                                             *)
(***************************************************************************)
StepsNumbered ==
  /\ Len(tl_steps) + Len(stack) = opened
  /\ \A i \in 1..Len(stack) : stack[i].no \in 1..opened
  /\ \A i \in 1..Len(tl_steps) : tl_steps[i].no \in 1..opened
  /\ \A i, j \in 1..Len(stack) : i < j => stack[i].no < stack[j].no
  /\ \A no \in 1..opened : \/ \E i \in 1..Len(stack) : stack[i].no = no
                           \/ \E i \in 1..Len(tl_steps) : tl_steps[i].no = no

LEMMA StepStartKeepsNumbers == TypeInv /\ StepsNumbered /\ StepStart => StepsNumbered'
<1>. SUFFICES ASSUME TypeInv, StepsNumbered, StepStart PROVE StepsNumbered'
  OBVIOUS
<1>. DEFINE d == Len(stack)
            m == Len(tl_steps)
<1>1. d \in Nat /\ m \in Nat /\ opened \in Nat
  BY LenProperties DEF TypeInv, TypeOK
<1>2. /\ Len(stack') = d + 1 /\ \A i \in 1..d : stack'[i].no = stack[i].no
      /\ stack'[d + 1].no = opened + 1 /\ opened' = opened + 1 /\ tl_steps' = tl_steps
  <2>1. NewStep.no = opened + 1 /\ NewStep.start = now
    BY DEF NewStep
  <2>. QED BY <2>1, StepStartEffect
<1>3. /\ m + d = opened
      /\ \A i \in 1..d : stack[i].no \in 1..opened
      /\ \A i \in 1..m : tl_steps[i].no \in 1..opened
      /\ \A i, j \in 1..d : i < j => stack[i].no < stack[j].no
      /\ \A no \in 1..opened : \/ \E i \in 1..d : stack[i].no = no
                               \/ \E i \in 1..m : tl_steps[i].no = no
  BY DEF StepsNumbered
<1>. HIDE DEF d, m
<1>4. /\ \A i \in 1..(d + 1) : i \in 1..d \/ i = d + 1
      /\ \A i \in 1..d : i \in 1..(d + 1)
      /\ d + 1 \in 1..(d + 1)
  BY <1>1
<1>5. /\ \A i \in 1..opened : i \in 1..(opened + 1)
      /\ \A i \in 1..(opened + 1) : i \in 1..opened \/ i = opened + 1
      /\ opened + 1 \in 1..(opened + 1)
  BY <1>1
<1>6. \A i \in 1..(d + 1) : stack'[i].no \in 1..(opened + 1)
  BY <1>2, <1>3, <1>4, <1>5
<1>7. \A i, j \in 1..(d + 1) : i < j => stack'[i].no < stack'[j].no
  <2>1. SUFFICES ASSUME NEW i \in 1..(d + 1), NEW j \in 1..(d + 1), i < j
                 PROVE  stack'[i].no < stack'[j].no
    OBVIOUS
  <2>2. i \in 1..d
    BY <1>1, <2>1
  <2>3. CASE j = d + 1
    <3>1. stack[i].no \in 1..opened
      BY <1>3, <2>2
    <3>2. stack[i].no < opened + 1
      BY <1>1, <3>1
    <3>. QED BY <1>2, <2>2, <2>3, <3>2
  <2>4. CASE j \in 1..d
    BY <1>2, <1>3, <2>1, <2>2, <2>4
  <2>. QED BY <1>4, <2>3, <2>4
<1>8. \A no \in 1..(opened + 1) : \/ \E i \in 1..(d + 1) : stack'[i].no = no
                                  \/ \E i \in 1..m : tl_steps[i].no = no
  BY <1>2, <1>3, <1>4, <1>5
<1>9. m + (d + 1) = opened + 1
  BY <1>1, <1>3
<1>. QED BY <1>2, <1>3, <1>5, <1>6, <1>7, <1>8, <1>9 DEF StepsNumbered, m

LEMMA StepsEndKeepsNumbers ==
  ASSUME TypeInv, StepsNumbered,
         NEW n \in 1..Len(stack), NEW status \in {"passed", "failed", "broken"},
         StepsEnd(n, status), opened' = opened
  PROVE  StepsNumbered'
<1>. DEFINE d == Len(stack)
            m == Len(tl_steps)
            M == Len(tl_steps')
<1>1. d \in Nat /\ m \in Nat /\ opened \in Nat /\ n \in 1..d
  BY LenProperties DEF TypeInv, TypeOK
<1>2. /\ Len(stack') = d - n /\ \A i \in 1..(d - n) : stack'[i] = stack[i]
      /\ M = m + n /\ \A j \in 1..m : tl_steps'[j] = tl_steps[j]
  BY DEF StepsEnd
<1>3. \A j \in 1..M : j \in 1..m \/ (Closing(j) \in 1..d /\ tl_steps'[j].no = stack[Closing(j)].no)
  <2>1. ASSUME NEW j \in 1..M, j \notin 1..m
        PROVE  Closing(j) \in 1..d /\ tl_steps'[j].no = stack[Closing(j)].no
    <3>1. ~(j <= m)
      <4>. HIDE DEF m, M
      <4>. QED BY <1>1, <2>1
    <3>. QED BY <3>1, StepsEndFacts
  <2>. QED BY <2>1
<1>4. \A k \in 1..d : k \in 1..(d - n) \/ \E j \in 1..M : tl_steps'[j].no = stack[k].no
  <2>1. ASSUME NEW k \in 1..d, k \notin 1..(d - n)
        PROVE  \E j \in 1..M : tl_steps'[j].no = stack[k].no
    <3>1. ~(k <= d - n)
      <4>. HIDE DEF d
      <4>. QED BY <1>1, <2>1
    <3>2. Closing(k) \in 1..M /\ ~(Closing(k) <= m) /\ Closing(Closing(k)) = k
      BY <3>1, PoppedIsEnded
    <3>3. tl_steps'[Closing(k)].no = stack[k].no
      BY <3>2, StepsEndFacts
    <3>. QED BY <3>2, <3>3
  <2>. QED BY <2>1
<1>5. /\ m + d = opened
      /\ \A i \in 1..d : stack[i].no \in 1..opened
      /\ \A i \in 1..m : tl_steps[i].no \in 1..opened
      /\ \A i, j \in 1..d : i < j => stack[i].no < stack[j].no
      /\ \A no \in 1..opened : \/ \E i \in 1..d : stack[i].no = no
                               \/ \E i \in 1..m : tl_steps[i].no = no
  BY DEF StepsNumbered
<1>. HIDE DEF d, m, M
<1>6. M + (d - n) = opened /\ (\A i \in 1..(d - n) : i \in 1..d) /\ \A j \in 1..m : j \in 1..M
  BY <1>1, <1>2, <1>5
<1>7. /\ \A i \in 1..(d - n) : stack'[i].no \in 1..opened
      /\ \A i, j \in 1..(d - n) : i < j => stack'[i].no < stack'[j].no
  BY <1>2, <1>5, <1>6
<1>8. \A j \in 1..M : tl_steps'[j].no \in 1..opened
  BY <1>2, <1>3, <1>5
<1>9. \A no \in 1..opened : \/ \E i \in 1..(d - n) : stack'[i].no = no
                            \/ \E j \in 1..M : tl_steps'[j].no = no
  <2>1. \A k \in 1..d : \/ \E i \in 1..(d - n) : stack'[i].no = stack[k].no
                       \/ \E j \in 1..M : tl_steps'[j].no = stack[k].no
    BY <1>2, <1>4
  <2>2. \A k \in 1..m : \E j \in 1..M : tl_steps'[j].no = tl_steps[k].no
    BY <1>2, <1>6
  <2>. QED BY <1>5, <2>1, <2>2
<1>. QED BY <1>2, <1>6, <1>7, <1>8, <1>9 DEF StepsNumbered, M

(***************************************************************************)
(* Steps that ended are in the order they ended, nested or one after the   *)
(* other, and those on the stack contain or follow them.                   *)
(***************************************************************************)
EndedBefore(s, t) == IF s.no < t.no THEN s.stop <= t.start
                     ELSE t.start <= s.start /\ s.stop <= t.stop

StepsTimed ==
  /\ tl_startMs <= now
  /\ \A i \in 1..Len(stack) : tl_startMs <= stack[i].start /\ stack[i].start <= now
  /\ \A i, j \in 1..Len(stack) : i < j => stack[i].start <= stack[j].start
  /\ \A i \in 1..Len(tl_steps) : /\ tl_startMs <= tl_steps[i].start
                                 /\ tl_steps[i].start <= tl_steps[i].stop
                                 /\ tl_steps[i].stop <= now
  /\ \A i, j \in 1..Len(tl_steps) : i < j => EndedBefore(tl_steps[i], tl_steps[j])
  /\ \A i \in 1..Len(tl_steps), j \in 1..Len(stack) :
       IF tl_steps[i].no < stack[j].no THEN tl_steps[i].stop <= stack[j].start
       ELSE stack[j].start <= tl_steps[i].start

LEMMA StepStartKeepsTimes == TypeInv /\ StepsNumbered /\ StepsTimed /\ StepStart => StepsTimed'
<1>. SUFFICES ASSUME TypeInv, StepsNumbered, StepsTimed, StepStart PROVE StepsTimed'
  OBVIOUS
<1>. DEFINE d == Len(stack)
            m == Len(tl_steps)
<1>1. /\ d \in Nat /\ m \in Nat /\ now \in Nat /\ tl_startMs \in Nat /\ opened \in Nat
      /\ stack \in Seq(StepRecord) /\ tl_steps \in Seq(StepRecord)
  BY LenProperties DEF TypeInv, TypeOK
<1>2. /\ Len(stack') = d + 1 /\ \A i \in 1..d : stack'[i] = stack[i]
      /\ stack'[d + 1].no = opened + 1 /\ stack'[d + 1].start = now
      /\ UNCHANGED <<tl_steps, tl_startMs, now>>
  <2>1. NewStep.no = opened + 1 /\ NewStep.start = now
    BY DEF NewStep
  <2>. QED BY <2>1, StepStartEffect
<1>3. \A i \in 1..m : tl_steps[i].no < opened + 1
  <2>1. \A i \in 1..m : tl_steps[i].no \in 1..opened
    BY DEF StepsNumbered
  <2>. QED BY <1>1, <2>1
<1>. HIDE DEF d
<1>4. \A i \in 1..(d + 1) : i \in 1..d \/ i = d + 1
  BY <1>1
<1>5. \A i \in 1..(d + 1) : tl_startMs <= stack'[i].start /\ stack'[i].start <= now
  <2>1. /\ \A i \in 1..d : tl_startMs <= stack[i].start /\ stack[i].start <= now
        /\ tl_startMs <= now /\ now <= now
    BY <1>1 DEF StepsTimed, d
  <2>. QED BY <1>2, <1>4, <2>1
<1>6. \A i, j \in 1..(d + 1) : i < j => stack'[i].start <= stack'[j].start
  <2>1. SUFFICES ASSUME NEW i \in 1..(d + 1), NEW j \in 1..(d + 1), i < j
                 PROVE  stack'[i].start <= stack'[j].start
    OBVIOUS
  <2>2. i \in 1..d
    BY <1>1, <2>1
  <2>3. CASE j = d + 1
    BY <1>2, <1>5, <2>3
  <2>4. CASE j \in 1..d
    BY <1>2, <2>1, <2>2, <2>4 DEF StepsTimed, d
  <2>. QED BY <1>4, <2>3, <2>4
<1>7. \A i \in 1..m, j \in 1..(d + 1) :
        IF tl_steps[i].no < stack'[j].no THEN tl_steps[i].stop <= stack'[j].start
        ELSE stack'[j].start <= tl_steps[i].start
  <2>1. ASSUME NEW i \in 1..m, NEW j \in 1..d
        PROVE  IF tl_steps[i].no < stack'[j].no THEN tl_steps[i].stop <= stack'[j].start
               ELSE stack'[j].start <= tl_steps[i].start
    BY <1>2 DEF StepsTimed, d
  <2>2. ASSUME NEW i \in 1..m
        PROVE  tl_steps[i].no < stack'[d + 1].no /\ tl_steps[i].stop <= stack'[d + 1].start
    BY <1>2, <1>3 DEF StepsTimed
  <2>. QED BY <1>4, <2>1, <2>2
<1>8. /\ tl_startMs <= now
      /\ \A i \in 1..m : /\ tl_startMs <= tl_steps[i].start
                         /\ tl_steps[i].start <= tl_steps[i].stop
                         /\ tl_steps[i].stop <= now
      /\ \A i, j \in 1..m : i < j => EndedBefore(tl_steps[i], tl_steps[j])
  BY DEF StepsTimed
<1>. QED BY <1>2, <1>5, <1>6, <1>7, <1>8 DEF StepsTimed

LEMMA StepsEndKeepsTimes ==
  ASSUME TypeInv, StepsNumbered, StepsTimed,
         NEW n \in 1..Len(stack), NEW status \in {"passed", "failed", "broken"},
         StepsEnd(n, status), UNCHANGED <<tl_startMs, now>>
  PROVE  StepsTimed'
<1>. DEFINE d == Len(stack)
            m == Len(tl_steps)
            M == Len(tl_steps')
<1>1. /\ d \in Nat /\ m \in Nat /\ now \in Nat /\ tl_startMs \in Nat /\ n \in 1..d
      /\ stack \in Seq(StepRecord) /\ tl_steps \in Seq(StepRecord)
  BY LenProperties DEF TypeInv, TypeOK
<1>2. /\ Len(stack') = d - n /\ \A i \in 1..(d - n) : stack'[i] = stack[i]
      /\ M = m + n /\ \A j \in 1..m : tl_steps'[j] = tl_steps[j]
  BY DEF StepsEnd
<1>3. ASSUME NEW j \in 1..M, j \notin 1..m
      PROVE  /\ Closing(j) \in 1..d /\ ~(Closing(j) <= d - n)
             /\ Closing(j) = d + 1 + m - j
             /\ tl_steps'[j].no = stack[Closing(j)].no
             /\ tl_steps'[j].start = stack[Closing(j)].start
             /\ tl_steps'[j].stop = now
  <2>1. ~(j <= m)
    <3>. HIDE DEF m, M
    <3>. QED BY <1>1, <1>3
  <2>. QED BY <2>1, StepsEndFacts DEF Closing
<1>4. /\ \A i \in 1..d : /\ stack[i].no \in Nat /\ stack[i].start \in Nat
                         /\ tl_startMs <= stack[i].start /\ stack[i].start <= now
      /\ \A i \in 1..m : /\ tl_steps[i].no \in Nat /\ tl_steps[i].start \in Nat
                         /\ tl_steps[i].stop \in Nat
                         /\ tl_startMs <= tl_steps[i].start
                         /\ tl_steps[i].start <= tl_steps[i].stop
                         /\ tl_steps[i].stop <= now
  BY <1>1, StepsOf DEF StepsTimed
<1>5. /\ \A i, j \in 1..d : i < j => /\ stack[i].start <= stack[j].start
                                     /\ stack[i].no < stack[j].no
      /\ \A i, j \in 1..m : i < j => EndedBefore(tl_steps[i], tl_steps[j])
      /\ \A i \in 1..m, j \in 1..d :
           IF tl_steps[i].no < stack[j].no THEN tl_steps[i].stop <= stack[j].start
           ELSE stack[j].start <= tl_steps[i].start
  BY DEF StepsTimed, StepsNumbered
<1>. HIDE DEF d, m, M
<1>6. (\A i \in 1..(d - n) : i \in 1..d) /\ \A j \in 1..m : j \in 1..M
  BY <1>1, <1>2
<1>7. /\ \A i \in 1..(d - n) : tl_startMs <= stack'[i].start /\ stack'[i].start <= now
      /\ \A i, j \in 1..(d - n) : i < j => stack'[i].start <= stack'[j].start
  BY <1>2, <1>4, <1>5, <1>6
<1>8. \A j \in 1..M : /\ tl_startMs <= tl_steps'[j].start
                      /\ tl_steps'[j].start <= tl_steps'[j].stop
                      /\ tl_steps'[j].stop <= now
  <2>1. ASSUME NEW j \in 1..M, j \notin 1..m
        PROVE  /\ tl_startMs <= tl_steps'[j].start
               /\ tl_steps'[j].start <= tl_steps'[j].stop
               /\ tl_steps'[j].stop <= now
    BY <1>1, <1>3, <1>4, <2>1
  <2>. QED BY <1>2, <1>4, <2>1
<1>9. \A i, j \in 1..M : i < j => EndedBefore(tl_steps'[i], tl_steps'[j])
  <2>1. SUFFICES ASSUME NEW i \in 1..M, NEW j \in 1..M, i < j
                 PROVE  EndedBefore(tl_steps'[i], tl_steps'[j])
    OBVIOUS
  <2>2. CASE j \in 1..m
    <3>1. i \in 1..m
      BY <1>1, <2>1, <2>2
    <3>. QED BY <1>2, <1>5, <2>1, <2>2, <3>1
  <2>3. CASE j \notin 1..m /\ i \in 1..m
    <3>. DEFINE k == Closing(j)
    <3>1. /\ k \in 1..d /\ tl_steps'[j].no = stack[k].no
          /\ tl_steps'[j].start = stack[k].start /\ tl_steps'[j].stop = now
      BY <1>3, <2>3
    <3>. HIDE DEF k
    <3>. QED BY <1>2, <1>4, <1>5, <2>3, <3>1 DEF EndedBefore
  <2>4. CASE j \notin 1..m /\ i \notin 1..m
    <3>. DEFINE k == Closing(i)
                l == Closing(j)
    <3>1. /\ k \in 1..d /\ tl_steps'[i].no = stack[k].no
          /\ tl_steps'[i].start = stack[k].start /\ tl_steps'[i].stop = now
          /\ l \in 1..d /\ tl_steps'[j].no = stack[l].no
          /\ tl_steps'[j].start = stack[l].start /\ tl_steps'[j].stop = now
          /\ k = d + 1 + m - i /\ l = d + 1 + m - j
      BY <1>3, <2>4
    <3>. HIDE DEF k, l
    <3>2. l < k
      BY <1>1, <1>2, <2>1, <3>1
    <3>3. stack[l].start <= stack[k].start /\ stack[l].no < stack[k].no
      BY <1>5, <3>1, <3>2
    <3>4. stack[k].no \in Nat /\ stack[l].no \in Nat
      BY <1>4, <3>1
    <3>5. ~(stack[k].no < stack[l].no) /\ now <= now
      BY <1>1, <3>3, <3>4
    <3>. QED BY <3>1, <3>3, <3>5 DEF EndedBefore
  <2>. QED BY <2>2, <2>3, <2>4
<1>10. \A i \in 1..M, j \in 1..(d - n) :
         IF tl_steps'[i].no < stack'[j].no THEN tl_steps'[i].stop <= stack'[j].start
         ELSE stack'[j].start <= tl_steps'[i].start
  <2>1. SUFFICES ASSUME NEW i \in 1..M, NEW j \in 1..(d - n)
                 PROVE  IF tl_steps'[i].no < stack'[j].no
                        THEN tl_steps'[i].stop <= stack'[j].start
                        ELSE stack'[j].start <= tl_steps'[i].start
    OBVIOUS
  <2>2. stack'[j] = stack[j] /\ j \in 1..d
    BY <1>2, <1>6
  <2>3. CASE i \in 1..m
    BY <1>2, <1>5, <2>2, <2>3
  <2>4. CASE i \notin 1..m
    <3>. DEFINE k == Closing(i)
    <3>1. /\ k \in 1..d /\ ~(k <= d - n) /\ tl_steps'[i].no = stack[k].no
          /\ tl_steps'[i].start = stack[k].start
      BY <1>3, <2>4
    <3>. HIDE DEF k
    <3>2. j < k
      BY <1>1, <3>1
    <3>3. stack[j].start <= stack[k].start /\ stack[j].no < stack[k].no
      BY <1>5, <2>2, <3>1, <3>2
    <3>4. ~(stack[k].no < stack[j].no)
      BY <1>4, <2>2, <3>1, <3>3
    <3>. QED BY <2>2, <3>1, <3>3, <3>4
  <2>. QED BY <2>3, <2>4
<1>11. tl_startMs <= now
  BY DEF StepsTimed
<1>. QED BY <1>2, <1>7, <1>8, <1>9, <1>10, <1>11 DEF StepsTimed, M

\* Adding to the innermost step changes neither numbers nor times.
LEMMA AddKeepsNumbersAndTimes ==
  ASSUME TypeInv, StepsNumbered, StepsTimed, NEW kind \in Kinds, Add(kind)
  PROVE  StepsNumbered' /\ StepsTimed'
<1>1. /\ Len(stack') = Len(stack)
      /\ UNCHANGED <<tl_startMs, tl_steps, now, opened>>
      /\ \A i \in 1..Len(stack) : stack'[i].no = stack[i].no /\ stack'[i].start = stack[i].start
  <2>1. /\ Len(stack') = Len(stack)
        /\ UNCHANGED <<tl_startMs, tl_steps, now, opened>>
        /\ \/ stack' = stack
           \/ \A i \in 1..Len(stack) :
                stack'[i] = IF i = Len(stack)
                            THEN [stack[Len(stack)] EXCEPT
                                    !.items = Append(stack[Len(stack)].items, Len(added) + 1)]
                            ELSE stack[i]
    BY AddEffect
  <2>2. ASSUME NEW i \in 1..Len(stack), NEW items
        PROVE  /\ [stack[i] EXCEPT !.items = items].no = stack[i].no
               /\ [stack[i] EXCEPT !.items = items].start = stack[i].start
    <3>1. stack[i] \in StepRecord
      BY StepsOf DEF TypeInv, TypeOK
    <3>. QED BY <3>1 DEF StepRecord
  <2>3. ASSUME NEW i \in 1..Len(stack)
        PROVE  stack'[i].no = stack[i].no /\ stack'[i].start = stack[i].start
    <3>. DEFINE items == Append(stack[Len(stack)].items, Len(added) + 1)
    <3>1. stack'[i] = stack[i] \/ stack'[i] = [stack[i] EXCEPT !.items = items]
      BY <2>1
    <3>. HIDE DEF items
    <3>. QED BY <2>2, <3>1
  <2>. QED BY <2>1, <2>3
<1>2. StepsNumbered'
  <2>. DEFINE d == Len(stack)
  <2>1. Len(stack') = d /\ tl_steps' = tl_steps /\ opened' = opened
        /\ \A i \in 1..d : stack'[i].no = stack[i].no
    BY <1>1
  <2>2. /\ Len(tl_steps) + d = opened
        /\ \A i \in 1..d : stack[i].no \in 1..opened
        /\ \A i \in 1..Len(tl_steps) : tl_steps[i].no \in 1..opened
        /\ \A i, j \in 1..d : i < j => stack[i].no < stack[j].no
        /\ \A no \in 1..opened : \/ \E i \in 1..d : stack[i].no = no
                                 \/ \E i \in 1..Len(tl_steps) : tl_steps[i].no = no
    BY DEF StepsNumbered
  <2>. HIDE DEF d
  <2>. QED BY <2>1, <2>2 DEF StepsNumbered
<1>. QED BY <1>1, <1>2 DEF StepsTimed

LEMMA NextKeepsNumbersAndTimes ==
  TypeInv /\ StepsNumbered /\ StepsTimed /\ [Next]_vars => StepsNumbered' /\ StepsTimed'
<1>. SUFFICES ASSUME TypeInv, StepsNumbered, StepsTimed, [Next]_vars
              PROVE  StepsNumbered' /\ StepsTimed'
  OBVIOUS
<1>1. CASE Quiet
  <2>1. /\ UNCHANGED <<tl_startMs, tl_steps, stack, opened>>
        /\ now' \in Nat /\ now <= now'
    BY <1>1, QuietLeaves
  <2>2. StepsNumbered'
    BY <2>1 DEF StepsNumbered
  <2>3. /\ now \in Nat /\ tl_startMs \in Nat
        /\ \A i \in 1..Len(stack) : stack[i].start \in Nat
        /\ \A i \in 1..Len(tl_steps) : tl_steps[i].stop \in Nat
    BY StepsOf DEF TypeInv, TypeOK
  <2>4. /\ tl_startMs <= now'
        /\ \A i \in 1..Len(stack) : tl_startMs <= stack[i].start /\ stack[i].start <= now'
        /\ \A i \in 1..Len(tl_steps) : /\ tl_startMs <= tl_steps[i].start
                                       /\ tl_steps[i].start <= tl_steps[i].stop
                                       /\ tl_steps[i].stop <= now'
    BY <2>1, <2>3 DEF StepsTimed
  <2>. QED BY <2>1, <2>2, <2>4 DEF StepsTimed
<1>2. CASE \E name \in GTestNames : OnTestStart(name)
  <2>1. /\ Len(stack') = 0 /\ Len(tl_steps') = 0 /\ opened' = 0
        /\ tl_startMs' = now' /\ now' \in Nat
    BY <1>2, TestStartEffect
  <2>. QED BY <2>1 DEF StepsNumbered, StepsTimed
<1>3. CASE StepStart
  BY <1>3, StepStartKeepsNumbers, StepStartKeepsTimes
<1>4. CASE StepReturn
  <2>1. UNCHANGED <<tl_startMs, now, opened>>
    BY <1>4 DEF StepReturn, history
  <2>2. \E status \in {"passed", "failed", "broken"} : 1 \in 1..Len(stack) /\ StepsEnd(1, status)
    BY <1>4, StepReturnEnds
  <2>. QED BY <2>1, <2>2, StepsEndKeepsNumbers, StepsEndKeepsTimes
<1>5. CASE \E n \in 1..Len(stack) : StepThrow(n)
  <2>1. PICK n \in 1..Len(stack) : StepThrow(n)
    BY <1>5
  <2>2. UNCHANGED <<tl_startMs, now, opened>>
    BY <2>1 DEF StepThrow, history
  <2>. QED BY <2>1, <2>2, StepThrowEnds, StepsEndKeepsNumbers, StepsEndKeepsTimes
<1>6. CASE \E kind \in Kinds : Add(kind)
  BY <1>6, AddKeepsNumbersAndTimes
<1>. QED BY <1>1, <1>2, <1>3, <1>4, <1>5, <1>6, NextCases

LEMMA InitNumbersAndTimes == Init => StepsNumbered /\ StepsTimed
<1>. SUFFICES ASSUME Init PROVE StepsNumbered /\ StepsTimed
  OBVIOUS
<1>1. Len(stack) = 0 /\ Len(tl_steps) = 0 /\ opened = 0 /\ tl_startMs = 0 /\ now = 0
  BY EmptySeq DEF Init
<1>. QED BY <1>1 DEF StepsNumbered, StepsTimed

-----------------------------------------------------------------------------
(***************************************************************************)
(* A step that ended failed: its test has failed as long as it runs, so no *)
(* step that ends later is passed.                                         *)
(***************************************************************************)
VerdictsRemembered ==
  \A i \in 1..Len(tl_steps) : tl_steps[i].status = "failed" =>
    /\ phase = "Test" => testFailed
    /\ \A j \in 1..Len(tl_steps) : i < j => tl_steps[j].status # "passed"

LEMMA StepsEndKeepsVerdicts ==
  ASSUME TypeInv, VerdictsRemembered, phase = "Test", testFailed => testFailed',
         NEW n \in 1..Len(stack), NEW status \in {"passed", "failed", "broken"},
         StepsEnd(n, status),
         status = "failed" => testFailed, testFailed => status # "passed"
  PROVE  VerdictsRemembered'
<1>. DEFINE m == Len(tl_steps)
            M == Len(tl_steps')
<1>1. /\ m \in Nat /\ M \in Nat /\ M = m + n /\ n \in Nat
      /\ \A j \in 1..m : tl_steps'[j] = tl_steps[j]
      /\ \A j \in 1..M : j <= m \/ tl_steps'[j].status = status
  <2>1. m \in Nat /\ n \in Nat /\ M = m + n
    BY LenProperties DEF TypeInv, TypeOK, StepsEnd
  <2>2. \A j \in 1..M : j <= m \/ tl_steps'[j].status = status
    BY StepsEndFacts
  <2>. QED BY <2>1, <2>2 DEF StepsEnd
<1>. HIDE DEF M
<1>2. ASSUME NEW i \in 1..M, tl_steps'[i].status = "failed"
      PROVE  testFailed /\ \A j \in 1..M : i < j => tl_steps'[j].status # "passed"
  <2>1. CASE i <= m
    <3>1. i \in 1..m /\ tl_steps[i].status = "failed"
      BY <1>1, <1>2, <2>1
    <3>2. testFailed
      BY <3>1, Zenon DEF VerdictsRemembered
    <3>3. \A j \in 1..m : i < j => tl_steps[j].status # "passed"
      BY <3>1 DEF VerdictsRemembered
    <3>4. status # "passed"
      BY <3>2, Zenon
    <3>5. \A j \in 1..M : j <= m => j \in 1..m
      BY <1>1
    <3>6. ASSUME NEW j \in 1..M, i < j PROVE tl_steps'[j].status # "passed"
      BY <1>1, <3>3, <3>4, <3>5, <3>6
    <3>. QED BY <3>2, <3>6, Zenon
  <2>2. CASE ~(i <= m)
    <3>1. status = "failed"
      BY <1>1, <1>2, <2>2
    <3>2. testFailed
      BY <3>1, Zenon
    <3>3. \A j \in 1..M : i < j => ~(j <= m)
      BY <1>1, <2>2
    <3>4. \A j \in 1..M : i < j => tl_steps'[j].status # "passed"
      BY <1>1, <3>1, <3>3
    <3>. QED BY <3>2, <3>4, Zenon
  <2>. QED BY <2>1, <2>2
<1>. QED BY <1>2, Zenon DEF VerdictsRemembered, M

LEMMA NextKeepsVerdicts == TypeInv /\ VerdictsRemembered /\ [Next]_vars => VerdictsRemembered'
<1>. SUFFICES ASSUME TypeInv, VerdictsRemembered, [Next]_vars PROVE VerdictsRemembered'
  OBVIOUS
<1>1. CASE Quiet
  <2>1. tl_steps' = tl_steps /\ (phase' = "Test" => phase = "Test" /\ (testFailed => testFailed'))
    BY <1>1, QuietLeaves
  <2>. QED BY <2>1, Zenon DEF VerdictsRemembered
<1>2. CASE \E name \in GTestNames : OnTestStart(name)
  <2>1. Len(tl_steps') = 0
    BY <1>2, TestStartEffect
  <2>2. \A i \in 1..Len(tl_steps') : FALSE
    BY <2>1
  <2>. QED BY <2>2, Zenon DEF VerdictsRemembered
<1>3. CASE StepStart \/ \E kind \in Kinds : Add(kind)
  <2>1. UNCHANGED <<phase, testFailed, tl_steps>>
    BY <1>3 DEF StepStart, Add, gtestVars
  <2>. QED BY <2>1 DEF VerdictsRemembered
<1>4. CASE StepReturn
  <2>. DEFINE status == IF testFailed THEN "failed" ELSE "passed"
  <2>1. 1 \in 1..Len(stack) /\ StepsEnd(1, status)
    BY <1>4, StepReturnEnds
  <2>2. phase = "Test" /\ testFailed' = testFailed
    BY <1>4 DEF StepReturn, gtestVars, TypeInv
  <2>3. /\ status \in {"passed", "failed", "broken"}
        /\ status = "failed" => testFailed
        /\ testFailed => status # "passed"
    OBVIOUS
  <2>4. testFailed => testFailed'
    BY <2>2, Zenon
  <2>. HIDE DEF status
  <2>. QED BY <2>1, <2>2, <2>3, <2>4, StepsEndKeepsVerdicts
<1>5. CASE \E n \in 1..Len(stack) : StepThrow(n)
  <2>1. PICK n \in 1..Len(stack) : StepThrow(n)
    BY <1>5
  <2>2. phase = "Test"
    BY EmptySeq DEF TypeInv
  <2>3. testFailed => testFailed'
    BY <2>1, Zenon DEF StepThrow, GFailInTest, gtestVars
  <2>. QED BY <2>1, <2>2, <2>3, StepThrowEnds, StepsEndKeepsVerdicts
<1>. QED BY <1>1, <1>2, <1>3, <1>4, <1>5, NextCases

LEMMA InitVerdictsRemembered == Init => VerdictsRemembered
<1>. SUFFICES ASSUME Init PROVE VerdictsRemembered
  OBVIOUS
<1>1. \A i \in 1..Len(tl_steps) : FALSE
  BY EmptySeq DEF Init
<1>. QED BY <1>1, Zenon DEF VerdictsRemembered

-----------------------------------------------------------------------------
(***************************************************************************)
(* Where an item is: with the test or, an attachment or parameter, with a  *)
(* step that was open when it was added.  tests is what the test holds of  *)
(* each kind, log what was added.                                          *)
(***************************************************************************)
IsIn(x, items) == \E p \in 1..Len(items) : items[p] = x

TestHolds(tests, log) ==
  \A kind \in Kinds :
    /\ \A p \in 1..Len(tests[kind]) :
         tests[kind][p] \in 1..Len(log) /\ log[tests[kind][p]].kind = kind
    /\ \A p, q \in 1..Len(tests[kind]) : tests[kind][p] = tests[kind][q] => p = q

StepHolds(step, tests, log) ==
  \A p \in 1..Len(step.items) :
    /\ step.items[p] \in 1..Len(log)
    /\ log[step.items[p]].kind \in StepKinds
    /\ step.no \in log[step.items[p]].open
    /\ \A kind \in Kinds : ~IsIn(step.items[p], tests[kind])

ItemsKept ==
  /\ TestHolds(tl_items, added)
  /\ \A i \in 1..Len(stack) : StepHolds(stack[i], tl_items, added)
  /\ \A i \in 1..Len(tl_steps) : StepHolds(tl_steps[i], tl_items, added)
  /\ \A x \in 1..Len(added) : \/ IsIn(x, tl_items[added[x].kind])
                              \/ \E i \in 1..Len(stack) : IsIn(x, stack[i].items)
                              \/ \E i \in 1..Len(tl_steps) : IsIn(x, tl_steps[i].items)

LEMMA IsInAppend ==
  ASSUME NEW items \in Seq(Nat), NEW e \in Nat, NEW x
  PROVE  IsIn(x, Append(items, e)) <=> IsIn(x, items) \/ x = e
<1>1. /\ Len(items) \in Nat /\ Len(Append(items, e)) = Len(items) + 1
      /\ \A i \in 1..Len(items) : Append(items, e)[i] = items[i]
      /\ Append(items, e)[Len(items) + 1] = e
  BY AppendProperties, LenProperties
<1>. DEFINE n == Len(items)
            s == Append(items, e)
<1>. HIDE DEF n, s
<1>2. n \in Nat /\ Len(s) = n + 1 /\ (\A i \in 1..n : s[i] = items[i]) /\ s[n + 1] = e
  BY <1>1 DEF n, s
<1>3. \A i : i \in 1..(n + 1) <=> i \in 1..n \/ i = n + 1
  BY <1>2
<1>4. (\E p \in 1..Len(s) : s[p] = x) <=> (\E p \in 1..n : items[p] = x) \/ x = e
  BY <1>2, <1>3
<1>. QED BY <1>4 DEF IsIn, n, s

\* A step holds what it is given while it is open.
LEMMA NewItemHeldByStep ==
  ASSUME NEW step \in StepRecord, NEW tests, NEW log \in Seq(AddedItem), NEW entry \in AddedItem,
         TestHolds(tests, log), StepHolds(step, tests, log),
         entry.kind \in StepKinds, step.no \in entry.open
  PROVE  LET item == Len(log) + 1
         IN  StepHolds([step EXCEPT !.items = Append(step.items, item)], tests, Append(log, entry))
<1>. DEFINE n == Len(log)
            item == n + 1
            log2 == Append(log, entry)
            m == Len(step.items)
            items == Append(step.items, item)
            step2 == [step EXCEPT !.items = items]
<1>1. n \in Nat /\ item \in Nat /\ step.items \in Seq(Nat) /\ m \in Nat
  <2>1. step.items \in Seq(Nat)
    BY DEF StepRecord
  <2>. QED BY <2>1, LenProperties
<1>2. /\ Len(log2) = n + 1 /\ log2[item] = entry
      /\ \A x \in 1..n : log2[x] = log[x]
  BY AppendProperties
<1>3. /\ Len(items) = m + 1 /\ items[m + 1] = item
      /\ \A p \in 1..m : items[p] = step.items[p]
  <2>. HIDE DEF item
  <2>1. step.items \in Seq(Nat)
    BY <1>1
  <2>. QED BY <1>1, <2>1, AppendProperties
<1>. HIDE DEF items, log2
<1>4. step2.items = items /\ step2.no = step.no
  BY DEF StepRecord
<1>5. \A kind \in Kinds : ~IsIn(item, tests[kind])
  <2>1. ASSUME NEW kind \in Kinds, NEW p \in 1..Len(tests[kind])
        PROVE  tests[kind][p] # item
    <3>1. tests[kind][p] \in 1..n
      BY DEF TestHolds
    <3>. HIDE DEF n
    <3>. QED BY <1>1, <3>1
  <2>. QED BY <2>1 DEF IsIn
<1>. HIDE DEF n, m, step2
<1>6. ASSUME NEW p \in 1..(m + 1)
      PROVE  /\ items[p] \in 1..(n + 1)
             /\ log2[items[p]].kind \in StepKinds
             /\ step.no \in log2[items[p]].open
             /\ \A kind \in Kinds : ~IsIn(items[p], tests[kind])
  <2>1. CASE p = m + 1
    <3>1. n + 1 \in 1..(n + 1)
      BY <1>1
    <3>. QED BY <1>2, <1>3, <1>5, <2>1, <3>1
  <2>2. CASE p \in 1..m
    <3>1. /\ step.items[p] \in 1..n
          /\ log[step.items[p]].kind \in StepKinds
          /\ step.no \in log[step.items[p]].open
          /\ \A kind \in Kinds : ~IsIn(step.items[p], tests[kind])
      BY <2>2 DEF StepHolds, n, m
    <3>2. items[p] = step.items[p]
      BY <1>3, <2>2
    <3>3. \A x \in 1..n : x \in 1..(n + 1)
      BY <1>1
    <3>. QED BY <1>2, <3>1, <3>2, <3>3
  <2>. QED BY <1>1, <2>1, <2>2
<1>7. StepHolds(step2, tests, log2)
  BY <1>2, <1>3, <1>4, <1>6 DEF StepHolds
<1>. QED BY <1>7 DEF step2, items, log2, n

\* What a step holds it still holds when something else is added.
LEMMA OldItemsHeldByStep ==
  ASSUME NEW step \in StepRecord, NEW tests, NEW tests2,
         NEW log \in Seq(AddedItem), NEW entry \in AddedItem,
         StepHolds(step, tests, log),
         \A kind \in Kinds, x \in 1..Len(log) : IsIn(x, tests2[kind]) => IsIn(x, tests[kind])
  PROVE  StepHolds(step, tests2, Append(log, entry))
<1>. DEFINE n == Len(log)
            log2 == Append(log, entry)
<1>1. /\ n \in Nat /\ Len(log2) = n + 1 /\ \A x \in 1..n : log2[x] = log[x]
  BY AppendProperties, LenProperties
<1>2. \A x \in 1..n : x \in 1..Len(log2)
  BY <1>1
<1>3. \A p \in 1..Len(step.items) : /\ step.items[p] \in 1..n
                                    /\ log[step.items[p]].kind \in StepKinds
                                    /\ step.no \in log[step.items[p]].open
                                    /\ \A kind \in Kinds : ~IsIn(step.items[p], tests[kind])
  BY DEF StepHolds
<1>. HIDE DEF log2
<1>4. \A p \in 1..Len(step.items) : log2[step.items[p]] = log[step.items[p]]
  BY <1>1, <1>3
<1>5. StepHolds(step, tests2, log2)
  BY <1>2, <1>3, <1>4 DEF StepHolds
<1>. QED BY <1>5 DEF log2

LEMMA TestHoldsNew ==
  ASSUME NEW tests \in [Kinds -> Seq(Nat)], NEW log \in Seq(AddedItem), NEW entry \in AddedItem,
         TestHolds(tests, log)
  PROVE  LET item == Len(log) + 1
         IN  /\ TestHolds(tests, Append(log, entry))
             /\ TestHolds([tests EXCEPT ![entry.kind] = Append(tests[entry.kind], item)],
                          Append(log, entry))
<1>. DEFINE n == Len(log)
            item == n + 1
            log2 == Append(log, entry)
            new == Append(tests[entry.kind], item)
            tests2 == [tests EXCEPT ![entry.kind] = new]
<1>1. n \in Nat /\ item \in Nat /\ entry.kind \in Kinds /\ tests[entry.kind] \in Seq(Nat)
  BY LenProperties DEF AddedItem
<1>2. /\ Len(log2) = n + 1 /\ log2[item] = entry
      /\ \A x \in 1..n : log2[x] = log[x]
  BY AppendProperties
<1>3. /\ Len(tests[entry.kind]) \in Nat
      /\ Len(new) = Len(tests[entry.kind]) + 1
      /\ new[Len(tests[entry.kind]) + 1] = item
      /\ \A p \in 1..Len(tests[entry.kind]) : new[p] = tests[entry.kind][p]
  <2>. HIDE DEF item
  <2>1. tests[entry.kind] \in Seq(Nat)
    BY <1>1
  <2>. QED BY <1>1, <2>1, AppendProperties, LenProperties
<1>4. \A x \in 1..n : x \in 1..(n + 1) /\ x # item
  BY <1>1
<1>5. \A kind \in Kinds :
        /\ \A p \in 1..Len(tests[kind]) :
             tests[kind][p] \in 1..n /\ log[tests[kind][p]].kind = kind
        /\ \A p, q \in 1..Len(tests[kind]) : tests[kind][p] = tests[kind][q] => p = q
  BY DEF TestHolds
<1>. HIDE DEF new, log2, n
<1>6. ASSUME NEW kind \in Kinds
      PROVE  /\ \A p \in 1..Len(tests[kind]) :
                  tests[kind][p] \in 1..(n + 1) /\ log2[tests[kind][p]].kind = kind
             /\ \A p, q \in 1..Len(tests[kind]) : tests[kind][p] = tests[kind][q] => p = q
  BY <1>2, <1>4, <1>5
<1>7. /\ \A p \in 1..Len(new) : new[p] \in 1..(n + 1) /\ log2[new[p]].kind = entry.kind
      /\ \A p, q \in 1..Len(new) : new[p] = new[q] => p = q
  <2>. DEFINE l == Len(tests[entry.kind])
  <2>1. /\ \A p \in 1..l : new[p] \in 1..(n + 1) /\ log2[new[p]].kind = entry.kind /\ new[p] # item
        /\ \A p, q \in 1..l : new[p] = new[q] => p = q
    BY <1>1, <1>3, <1>4, <1>5, <1>6
  <2>2. n + 1 \in 1..(n + 1) /\ l \in Nat /\ Len(new) = l + 1
    BY <1>1, <1>3
  <2>. HIDE DEF l
  <2>3. \A p \in 1..(l + 1) : p \in 1..l \/ p = l + 1
    BY <2>2
  <2>4. new[l + 1] = item
    BY <1>3 DEF l
  <2>. QED BY <1>2, <2>1, <2>2, <2>3, <2>4
<1>8. \A kind \in Kinds : tests2[kind] = IF kind = entry.kind THEN new ELSE tests[kind]
  OBVIOUS
<1>. HIDE DEF tests2, item
<1>9. TestHolds(tests, log2)
  BY <1>2, <1>6 DEF TestHolds
<1>10. ASSUME NEW kind \in Kinds
       PROVE  /\ \A p \in 1..Len(tests2[kind]) :
                   tests2[kind][p] \in 1..(n + 1) /\ log2[tests2[kind][p]].kind = kind
              /\ \A p, q \in 1..Len(tests2[kind]) : tests2[kind][p] = tests2[kind][q] => p = q
  <2>1. CASE kind = entry.kind
    <3>1. tests2[kind] = new
      BY <1>8, <2>1
    <3>. QED BY <1>7, <2>1, <3>1
  <2>2. CASE kind # entry.kind
    <3>1. tests2[kind] = tests[kind]
      BY <1>8, <2>2
    <3>. QED BY <1>6, <3>1
  <2>. QED BY <2>1, <2>2
<1>11. TestHolds(tests2, log2)
  BY <1>2, <1>10 DEF TestHolds
<1>. QED BY <1>9, <1>11 DEF tests2, item, new, log2, n

LEMMA AddKeepsItems ==
  ASSUME TypeInv, ItemsKept, NEW kind \in Kinds, Add(kind)
  PROVE  ItemsKept'
<1>. DEFINE n     == Len(added)
            item  == n + 1
            d     == Len(stack)
            m     == Len(tl_steps)
            open  == { stack[i].no : i \in 1..d }
            entry == [kind |-> kind, open |-> open]
            new   == Append(tl_items[kind], item)
            last  == [stack[d] EXCEPT !.items = Append(stack[d].items, item)]
<1>1. /\ added \in Seq(AddedItem) /\ n \in Nat /\ item \in Nat
      /\ stack \in Seq(StepRecord) /\ d \in Nat /\ DOMAIN stack = 1..d
      /\ tl_steps \in Seq(StepRecord) /\ tl_items \in [Kinds -> Seq(Nat)]
      /\ \A i \in 1..d : stack[i] \in StepRecord /\ stack[i].items \in Seq(Nat)
      /\ \A i \in 1..m : tl_steps[i] \in StepRecord
  BY LenProperties, StepsOf DEF TypeInv, TypeOK, PointerInv
<1>2. /\ Len(stack') = d /\ tl_steps' = tl_steps
      /\ entry \in AddedItem /\ Len(added') = item /\ added'[item] = entry
      /\ \A x \in 1..n : added'[x] = added[x]
      /\ \/ /\ stack' = stack
            /\ tl_items' = [tl_items EXCEPT ![kind] = new]
         \/ /\ tl_items' = tl_items
            /\ kind \in StepKinds
            /\ d \in 1..d
            /\ \A i \in 1..d : stack'[i] = IF i = d THEN last ELSE stack[i]
  BY AddEffect
<1>3. added' = Append(added, entry)
  BY <1>1 DEF Add
<1>4. /\ TestHolds(tl_items, added)
      /\ \A i \in 1..d : StepHolds(stack[i], tl_items, added)
      /\ \A i \in 1..m : StepHolds(tl_steps[i], tl_items, added)
      /\ \A x \in 1..n : \/ IsIn(x, tl_items[added[x].kind])
                         \/ \E i \in 1..d : IsIn(x, stack[i].items)
                         \/ \E i \in 1..m : IsIn(x, tl_steps[i].items)
  BY DEF ItemsKept
<1>5. entry.kind = kind /\ entry.open = open
  OBVIOUS
<1>. HIDE DEF entry
<1>6. \A x \in 1..item : x \in 1..n \/ x = item
  BY <1>1
<1>7. \A x \in 1..n : x # item
  BY <1>1
<1>8. CASE /\ stack' = stack
           /\ tl_items' = [tl_items EXCEPT ![kind] = new]
  <2>1. \A x : IsIn(x, new) <=> IsIn(x, tl_items[kind]) \/ x = item
    <3>. HIDE DEF item
    <3>. QED BY <1>1, IsInAppend
  <2>2. tl_items' = [tl_items EXCEPT ![entry.kind] = Append(tl_items[entry.kind], Len(added) + 1)]
    BY <1>5, <1>8
  <2>3. TestHolds(tl_items', added')
    <3>1. TestHolds([tl_items EXCEPT ![entry.kind] = Append(tl_items[entry.kind], Len(added) + 1)],
                    Append(added, entry))
      BY <1>1, <1>2, <1>4, TestHoldsNew
    <3>. QED BY <1>3, <2>2, <3>1
  <2>. HIDE DEF new
  <2>4. /\ tl_items'[kind] = new
        /\ \A k \in Kinds : k # kind => tl_items'[k] = tl_items[k]
    BY <1>1, <1>8
  <2>. HIDE DEF item
  <2>5. \A k \in Kinds, x \in 1..n : IsIn(x, tl_items'[k]) <=> IsIn(x, tl_items[k])
    BY <1>7, <2>1, <2>4
  <2>6. /\ \A i \in 1..d : StepHolds(stack'[i], tl_items', added')
        /\ \A i \in 1..m : StepHolds(tl_steps'[i], tl_items', added')
    <3>1. \A k \in Kinds, x \in 1..Len(added) : IsIn(x, tl_items'[k]) => IsIn(x, tl_items[k])
      BY <2>5
    <3>2. ASSUME NEW step \in StepRecord, StepHolds(step, tl_items, added)
          PROVE  StepHolds(step, tl_items', Append(added, entry))
      BY <1>1, <1>2, <3>1, <3>2, OldItemsHeldByStep
    <3>. QED BY <1>1, <1>2, <1>3, <1>4, <1>8, <3>2
  <2>7. ASSUME NEW x \in 1..item
        PROVE  \/ IsIn(x, tl_items'[added'[x].kind])
               \/ \E i \in 1..d : IsIn(x, stack'[i].items)
               \/ \E i \in 1..m : IsIn(x, tl_steps'[i].items)
    <3>1. CASE x = item
      BY <1>2, <1>5, <2>1, <2>4, <3>1
    <3>2. CASE x \in 1..n
      <4>1. added[x].kind \in Kinds
        <5>1. added[x] \in AddedItem
          BY <1>1, <3>2, ElementOfSeq
        <5>. QED BY <5>1 DEF AddedItem
      <4>. QED BY <1>2, <1>4, <1>8, <2>5, <3>2, <4>1
    <3>. QED BY <1>6, <3>1, <3>2
  <2>. QED BY <1>2, <2>3, <2>6, <2>7 DEF ItemsKept
<1>9. CASE /\ tl_items' = tl_items
           /\ kind \in StepKinds
           /\ d \in 1..d
           /\ \A i \in 1..d : stack'[i] = IF i = d THEN last ELSE stack[i]
  <2>1. TestHolds(tl_items', added')
    BY <1>1, <1>2, <1>3, <1>4, <1>9, TestHoldsNew
  <2>2. stack[d] \in StepRecord /\ stack[d].no \in entry.open /\ entry.kind \in StepKinds
    <3>1. stack[d].no \in open
      BY <1>9
    <3>. QED BY <1>1, <1>5, <1>9, <3>1
  <2>3. StepHolds(last, tl_items, Append(added, entry))
    BY <1>1, <1>2, <1>4, <1>9, <2>2, NewItemHeldByStep
  <2>4. last.items = Append(stack[d].items, item)
    BY <2>2 DEF StepRecord
  <2>5. \A x : IsIn(x, last.items) <=> IsIn(x, stack[d].items) \/ x = item
    <3>. HIDE DEF item, last
    <3>1. stack[d].items \in Seq(Nat)
      BY <1>1, <1>9
    <3>. QED BY <1>1, <2>4, <3>1, IsInAppend
  <2>. HIDE DEF last, item
  <2>6. stack'[d] = last /\ \A i \in 1..d : i # d => stack'[i] = stack[i]
    BY <1>9
  <2>7. /\ \A i \in 1..d : i # d => StepHolds(stack'[i], tl_items', added')
        /\ \A i \in 1..m : StepHolds(tl_steps'[i], tl_items', added')
    BY <1>1, <1>2, <1>3, <1>4, <1>9, <2>6, OldItemsHeldByStep
  <2>8. \A i \in 1..d : StepHolds(stack'[i], tl_items', added')
    BY <1>3, <1>9, <2>3, <2>6, <2>7
  <2>9. \A x, i : i \in 1..d /\ IsIn(x, stack[i].items) => IsIn(x, stack'[i].items)
    BY <2>5, <2>6
  <2>10. IsIn(item, stack'[d].items)
    BY <2>5, <2>6
  <2>11. ASSUME NEW x \in 1..item
         PROVE  \/ IsIn(x, tl_items'[added'[x].kind])
                \/ \E i \in 1..d : IsIn(x, stack'[i].items)
                \/ \E i \in 1..m : IsIn(x, tl_steps'[i].items)
    <3>1. CASE x = item
      BY <1>9, <2>10, <3>1
    <3>2. CASE x \in 1..n
      BY <1>2, <1>4, <1>9, <2>9, <3>2
    <3>. QED BY <1>6, <3>1, <3>2
  <2>. QED BY <1>2, <2>1, <2>7, <2>8, <2>11 DEF ItemsKept
<1>. QED BY <1>2, <1>8, <1>9

LEMMA StepsEndKeepsItems ==
  ASSUME TypeInv, ItemsKept,
         NEW n \in 1..Len(stack), NEW status \in {"passed", "failed", "broken"},
         StepsEnd(n, status), UNCHANGED <<tl_items, added>>
  PROVE  ItemsKept'
<1>. DEFINE d == Len(stack)
            m == Len(tl_steps)
            M == Len(tl_steps')
<1>1. d \in Nat /\ m \in Nat /\ n \in 1..d
  BY LenProperties DEF TypeInv, TypeOK
<1>2. /\ Len(stack') = d - n /\ \A i \in 1..(d - n) : stack'[i] = stack[i]
      /\ M = m + n /\ \A j \in 1..m : tl_steps'[j] = tl_steps[j]
  BY DEF StepsEnd
<1>3. \A j \in 1..M : ~(j <= m) => /\ Closing(j) \in 1..d
                                   /\ tl_steps'[j].no = stack[Closing(j)].no
                                   /\ tl_steps'[j].items = stack[Closing(j)].items
  BY StepsEndFacts
<1>4. \A k \in 1..d : ~(k <= d - n) => \E j \in 1..M : tl_steps'[j].items = stack[k].items
  <2>1. ASSUME NEW k \in 1..d, ~(k <= d - n)
        PROVE  \E j \in 1..M : tl_steps'[j].items = stack[k].items
    <3>1. Closing(k) \in 1..M /\ ~(Closing(k) <= m) /\ Closing(Closing(k)) = k
      BY <2>1, PoppedIsEnded
    <3>. QED BY <1>3, <3>1
  <2>. QED BY <2>1
<1>5. /\ TestHolds(tl_items, added)
      /\ \A i \in 1..d : StepHolds(stack[i], tl_items, added)
      /\ \A i \in 1..m : StepHolds(tl_steps[i], tl_items, added)
      /\ \A x \in 1..Len(added) : \/ IsIn(x, tl_items[added[x].kind])
                                  \/ \E i \in 1..d : IsIn(x, stack[i].items)
                                  \/ \E i \in 1..m : IsIn(x, tl_steps[i].items)
  BY DEF ItemsKept
<1>. HIDE DEF d, m, M
<1>6. /\ \A i \in 1..(d - n) : i \in 1..d
      /\ \A k \in 1..d : k \in 1..(d - n) \/ ~(k <= d - n)
      /\ \A j \in 1..m : j \in 1..M
      /\ \A j \in 1..M : j \in 1..m \/ ~(j <= m)
  BY <1>1, <1>2
<1>7. \A i \in 1..(d - n) : StepHolds(stack'[i], tl_items, added)
  BY <1>2, <1>5, <1>6
<1>8. \A j \in 1..M : StepHolds(tl_steps'[j], tl_items, added)
  <2>1. ASSUME NEW j \in 1..M, ~(j <= m)
        PROVE  StepHolds(tl_steps'[j], tl_items, added)
    <3>1. StepHolds(stack[Closing(j)], tl_items, added)
      BY <1>3, <1>5, <2>1
    <3>. QED BY <1>3, <2>1, <3>1 DEF StepHolds
  <2>. QED BY <1>2, <1>5, <1>6, <2>1
<1>9. \A x \in 1..Len(added) : \/ IsIn(x, tl_items[added[x].kind])
                               \/ \E i \in 1..(d - n) : IsIn(x, stack'[i].items)
                               \/ \E j \in 1..M : IsIn(x, tl_steps'[j].items)
  <2>1. ASSUME NEW x, NEW k \in 1..d, IsIn(x, stack[k].items)
        PROVE  \/ \E i \in 1..(d - n) : IsIn(x, stack'[i].items)
               \/ \E j \in 1..M : IsIn(x, tl_steps'[j].items)
    BY <1>2, <1>4, <1>6, <2>1
  <2>2. ASSUME NEW x, NEW k \in 1..m, IsIn(x, tl_steps[k].items)
        PROVE  \E j \in 1..M : IsIn(x, tl_steps'[j].items)
    BY <1>2, <1>6, <2>2
  <2>. QED BY <1>5, <2>1, <2>2
<1>. QED BY <1>2, <1>5, <1>7, <1>8, <1>9 DEF ItemsKept, M

LEMMA NextKeepsItems == TypeInv /\ ItemsKept /\ [Next]_vars => ItemsKept'
<1>. SUFFICES ASSUME TypeInv, ItemsKept, [Next]_vars PROVE ItemsKept'
  OBVIOUS
<1>1. CASE Quiet
  <2>1. UNCHANGED <<tl_items, tl_steps, stack, added>>
    BY <1>1, QuietLeaves
  <2>. QED BY <2>1 DEF ItemsKept
<1>2. CASE \E name \in GTestNames : OnTestStart(name)
  <2>1. Len(stack') = 0 /\ Len(tl_steps') = 0 /\ Len(added') = 0 /\ tl_items' = NoItems
    BY <1>2, TestStartEffect
  <2>2. \A kind \in Kinds : Len(NoItems[kind]) = 0
    BY EmptySeq DEF NoItems
  <2>3. TestHolds(tl_items', added')
    BY <2>1, <2>2 DEF TestHolds
  <2>. QED BY <2>1, <2>3 DEF ItemsKept
<1>3. CASE StepStart
  <2>. DEFINE d == Len(stack)
  <2>1. /\ UNCHANGED <<tl_items, tl_steps, added>> /\ Len(stack') = d + 1 /\ d \in Nat
        /\ \A i \in 1..d : stack'[i] = stack[i]
        /\ stack'[d + 1] = NewStep
    BY <1>3, StepStartEffect, LenProperties DEF TypeInv, TypeOK
  <2>2. StepHolds(NewStep, tl_items, added)
    <3>1. Len(NewStep.items) = 0
      BY EmptySeq DEF NewStep
    <3>. QED BY <3>1 DEF StepHolds
  <2>3. /\ TestHolds(tl_items, added)
        /\ \A i \in 1..d : StepHolds(stack[i], tl_items, added)
        /\ \A i \in 1..Len(tl_steps) : StepHolds(tl_steps[i], tl_items, added)
        /\ \A x \in 1..Len(added) : \/ IsIn(x, tl_items[added[x].kind])
                                    \/ \E i \in 1..d : IsIn(x, stack[i].items)
                                    \/ \E i \in 1..Len(tl_steps) : IsIn(x, tl_steps[i].items)
    BY DEF ItemsKept
  <2>. HIDE DEF d
  <2>4. (\A i \in 1..(d + 1) : i \in 1..d \/ i = d + 1) /\ \A i \in 1..d : i \in 1..(d + 1)
    BY <2>1
  <2>5. \A i \in 1..(d + 1) : StepHolds(stack'[i], tl_items, added)
    BY <2>1, <2>2, <2>3, <2>4
  <2>6. \A x \in 1..Len(added) : \/ IsIn(x, tl_items[added[x].kind])
                                 \/ \E i \in 1..(d + 1) : IsIn(x, stack'[i].items)
                                 \/ \E i \in 1..Len(tl_steps) : IsIn(x, tl_steps[i].items)
    BY <2>1, <2>3, <2>4
  <2>. QED BY <2>1, <2>3, <2>5, <2>6 DEF ItemsKept
<1>4. CASE StepReturn
  <2>1. UNCHANGED <<tl_items, added>>
    BY <1>4 DEF StepReturn, history
  <2>2. \E status \in {"passed", "failed", "broken"} : 1 \in 1..Len(stack) /\ StepsEnd(1, status)
    BY <1>4, StepReturnEnds
  <2>. QED BY <2>1, <2>2, StepsEndKeepsItems
<1>5. CASE \E n \in 1..Len(stack) : StepThrow(n)
  <2>1. PICK n \in 1..Len(stack) : StepThrow(n)
    BY <1>5
  <2>2. UNCHANGED <<tl_items, added>>
    BY <2>1 DEF StepThrow, history
  <2>. QED BY <2>1, <2>2, StepThrowEnds, StepsEndKeepsItems
<1>6. CASE \E kind \in Kinds : Add(kind)
  BY <1>6, AddKeepsItems
<1>. QED BY <1>1, <1>2, <1>3, <1>4, <1>5, <1>6, NextCases

LEMMA InitItemsKept == Init => ItemsKept
<1>. SUFFICES ASSUME Init PROVE ItemsKept
  OBVIOUS
<1>1. Len(stack) = 0 /\ Len(tl_steps) = 0 /\ Len(added) = 0 /\ tl_items = NoItems
  BY EmptySeq DEF Init
<1>2. \A kind \in Kinds : Len(NoItems[kind]) = 0
  BY EmptySeq DEF NoItems
<1>. QED BY <1>1, <1>2 DEF ItemsKept, TestHolds

-----------------------------------------------------------------------------
(***************************************************************************)
(* The case name that was set, or gtest's from beginTestCase on; nothing   *)
(* is promised after a run that was cut short.                             *)
(***************************************************************************)
NameRemembered ==
  ~aborted => IF phase = "Test" /\ caseNamed = NoText THEN tl_case \in {NoText, testCase}
              ELSE tl_case = caseNamed

LEMMA NextKeepsName == NameRemembered /\ [Next]_vars => NameRemembered'
<1>. SUFFICES ASSUME NameRemembered, [Next]_vars PROVE NameRemembered'
  OBVIOUS
<1>. USE DEF testInfo, tlVars, history, gtestVars, vars
<1>1. CASE ProgramStart \/ ProgramEnd \/ SuiteEnd \/ \E name \in GTestNames : SuiteStart(name)
  <2>1. UNCHANGED <<aborted, tl_case, caseNamed>> /\ phase # "Test" /\ phase' # "Test"
    BY <1>1 DEF ProgramStart, ProgramEnd, SuiteEnd, SuiteStart, GProgramStart, GProgramEnd,
                GSuiteEnd, GSuiteStart
  <2>. QED BY <2>1, Zenon DEF NameRemembered
<1>2. CASE OnTestEnd
  <2>1. tl_case' = NoText /\ caseNamed' = NoText /\ phase' = "Suite"
    BY <1>2 DEF OnTestEnd, EndTestCase, GTestEnd
  <2>. QED BY <2>1 DEF NameRemembered
<1>3. CASE RunIsCutShort
  BY <1>3, Zenon DEF RunIsCutShort, NameRemembered
<1>4. CASE SetText
  <2>1. CASE \E name \in Names \cup {NoText} : SetTestCaseName(name)
    BY <2>1 DEF SetTestCaseName, NameRemembered
  <2>2. CASE \/ \E name \in Names : SetTestSuiteName(name)
             \/ \E key \in GlobalKeys, value \in Names \cup Patterns : SetGlobal(key, value)
    <3>1. UNCHANGED <<aborted, tl_case, caseNamed, phase, testCase>>
      BY <2>2 DEF SetTestSuiteName, SetGlobal
    <3>. QED BY <3>1, Zenon DEF NameRemembered
  <2>. QED BY <1>4, <2>1, <2>2 DEF SetText
<1>5. CASE \E name \in GTestNames : OnTestStart(name)
  <2>1. /\ phase # "Test" /\ phase' = "Test" /\ UNCHANGED <<aborted, caseNamed>>
        /\ tl_case' = IF tl_case = NoText THEN testCase' ELSE tl_case
    BY <1>5 DEF OnTestStart, BeginTestCase, GTestStart
  <2>2. ASSUME ~aborted
        PROVE  IF caseNamed = NoText THEN tl_case' \in {NoText, testCase'} ELSE tl_case' = caseNamed
    <3>1. tl_case = caseNamed
      BY <2>1, <2>2, Zenon DEF NameRemembered
    <3>. QED BY <2>1, <3>1
  <2>. QED BY <2>1, <2>2, Zenon DEF NameRemembered
<1>6. CASE \/ FailAssertion \/ SkipTest \/ Tick \/ StepStart \/ StepReturn
           \/ \E n \in 1..Len(stack) : StepThrow(n)
           \/ \E kind \in Kinds : Add(kind)
           \/ UNCHANGED vars
  <2>1. UNCHANGED <<aborted, tl_case, caseNamed, phase, testCase>>
    BY <1>6 DEF FailAssertion, SkipTest, Tick, StepStart, StepReturn, StepThrow, Add,
                GFailInTest, GFailInSuite, GSkip
  <2>. QED BY <2>1, Zenon DEF NameRemembered
<1>. QED BY <1>1, <1>2, <1>3, <1>4, <1>5, <1>6, NextCases DEF Quiet

LEMMA InitNameRemembered == Init => NameRemembered
BY DEF Init, GTestInit, NameRemembered

-----------------------------------------------------------------------------
(***************************************************************************)
(* What a result is made from: all of it together is inductive.            *)
(***************************************************************************)
RecordInv == /\ TypeInv
             /\ StepsNumbered
             /\ StepsTimed
             /\ VerdictsRemembered
             /\ ItemsKept
             /\ NameRemembered

\* At every moment the variables of the current test hold exactly the steps that
\* ended, in the order they ended, the items that were added, the first failure
\* and the name that was set.
THEOREM RecordHolds == Spec => []RecordInv
<1>1. Init => RecordInv
  BY InitEstablishesTypeInv, InitNumbersAndTimes, InitVerdictsRemembered, InitItemsKept,
     InitNameRemembered DEF RecordInv
<1>2. RecordInv /\ [Next]_vars => RecordInv'
  BY NextKeepsTypeInv, NextKeepsNumbersAndTimes, NextKeepsVerdicts, NextKeepsItems,
     NextKeepsName DEF RecordInv
<1>. QED BY <1>1, <1>2, PTL DEF Spec

\* Only the end of a test, with every addStep call over, writes a result.
LEMMA NewResult ==
  ASSUME RecordInv, [Next]_vars, result' # result, result' # <<>>
  PROVE  /\ phase = "Test"
         /\ result' = <<Result>> /\ result'[1] = Result
         /\ Len(stack) = 0
<1>1. OnTestEnd
  BY DEF vars, Next, ProgramStart, SuiteStart, OnTestStart, RunIsCutShort, SuiteEnd, ProgramEnd,
         StepStart, StepReturn, StepThrow, Add, SetTestSuiteName, SetTestCaseName, SetGlobal,
         FailAssertion, SkipTest, Tick
<1>2. phase = "Test" /\ stack = <<>> /\ result' \in {result, <<Result>>}
  BY <1>1 DEF OnTestEnd, GTestEnd
<1>. HIDE DEF Result
<1>. QED BY <1>2, EmptySeq

LEMMA ResultFields ==
  /\ Result.case = CaseName
  /\ Result.status = ResultStatus
  /\ Result.steps = tl_steps
  /\ Result.items = [kind \in Kinds \ {"namelessLabel"} |-> tl_items[kind]]
  /\ Result.start = tl_startMs
  /\ Result.stop = StopMs
BY DEF Result

\* A result does not change while it is kept.
LEMMA ResultTimesAreRight ==
  ASSUME RecordInv, ResultTimesNest, [Next]_vars
  PROVE  ResultTimesNest'
<1>1. CASE result' = result
  BY <1>1 DEF ResultTimesNest
<1>2. CASE result' = <<>>
  BY <1>2 DEF ResultTimesNest
<1>3. CASE result' # result /\ result' # <<>>
  <2>. DEFINE r == result'[1]
              m == Len(tl_steps)
  <2>1. r.start = tl_startMs /\ r.stop = StopMs /\ r.steps = tl_steps
    BY <1>3, NewResult, ResultFields
  <2>2. /\ tl_startMs \in Nat /\ now \in Nat /\ m \in Nat /\ DOMAIN tl_steps = 1..m
        /\ \A i \in 1..m : tl_steps[i].stop \in Nat
    BY StepsOf DEF RecordInv, TypeInv, TypeOK
  <2>3. StopMs \in Nat /\ tl_startMs < StopMs /\ now <= StopMs
    BY <2>2 DEF StopMs
  <2>4. /\ \A i \in 1..m : /\ tl_startMs <= tl_steps[i].start
                           /\ tl_steps[i].start <= tl_steps[i].stop
                           /\ tl_steps[i].stop <= now
        /\ \A i, j \in 1..m : i < j => EndedBefore(tl_steps[i], tl_steps[j])
    BY DEF RecordInv, StepsTimed
  <2>5. \A i \in 1..m : tl_steps[i].stop <= StopMs
    <3>. HIDE DEF m
    <3>. QED BY <2>2, <2>3, <2>4
  <2>. HIDE DEF r, m
  <2>6. /\ r.start < r.stop
        /\ \A i \in DOMAIN r.steps :
             r.start <= r.steps[i].start /\ r.steps[i].start <= r.steps[i].stop
               /\ r.steps[i].stop <= r.stop
        /\ \A i, j \in DOMAIN r.steps : i < j =>
             IF r.steps[i].no < r.steps[j].no
             THEN r.steps[i].stop <= r.steps[j].start
             ELSE r.steps[j].start <= r.steps[i].start /\ r.steps[i].stop <= r.steps[j].stop
    BY <2>1, <2>2, <2>3, <2>4, <2>5 DEF EndedBefore
  <2>. QED BY <2>6 DEF ResultTimesNest, r
<1>. QED BY <1>1, <1>2, <1>3

\* In every result the steps nest or follow one another in the order they ended
\* and lie within the test's own times, whatever returned or threw.
THEOREM ResultTimesAlwaysNest == Spec => []ResultTimesNest
<1>1. Init => ResultTimesNest
  BY DEF Init, ResultTimesNest
<1>. QED BY <1>1, ResultTimesAreRight, RecordHolds, PTL DEF Spec

LEMMA ResultVerdictsAreRight ==
  ASSUME RecordInv, ResultVerdictsAgree, [Next]_vars
  PROVE  ResultVerdictsAgree'
<1>1. CASE result' = result
  BY <1>1 DEF ResultVerdictsAgree
<1>2. CASE result' = <<>>
  BY <1>2 DEF ResultVerdictsAgree
<1>3. CASE result' # result /\ result' # <<>>
  <2>. DEFINE r == result'[1]
              m == Len(tl_steps)
  <2>1. r.status = ResultStatus /\ r.steps = tl_steps /\ phase = "Test"
    BY <1>3, NewResult, ResultFields
  <2>2. DOMAIN tl_steps = 1..m
    BY StepsOf DEF RecordInv, TypeInv, TypeOK
  <2>3. testFailed => ResultStatus = "failed"
    BY DEF ResultStatus, Skipped
  <2>4. ASSUME NEW i \in 1..m, tl_steps[i].status = "failed"
        PROVE  /\ ResultStatus = "failed"
               /\ \A j \in 1..m : i < j => tl_steps[j].status # "passed"
    <3>1. testFailed
      BY <2>1, <2>4, Zenon DEF RecordInv, VerdictsRemembered
    <3>2. \A j \in 1..m : i < j => tl_steps[j].status # "passed"
      BY <2>4 DEF RecordInv, VerdictsRemembered
    <3>. QED BY <2>3, <3>1, <3>2, Zenon
  <2>. HIDE DEF r, m
  <2>5. \A i \in DOMAIN r.steps : r.steps[i].status = "failed" =>
          /\ r.status = "failed"
          /\ \A j \in DOMAIN r.steps : i < j => r.steps[j].status # "passed"
    BY <2>1, <2>2, <2>4
  <2>. QED BY <2>5 DEF ResultVerdictsAgree, r
<1>. QED BY <1>1, <1>2, <1>3

\* No result reports a failed step in a test that did not fail, nor a passed
\* step that ended after a failed one.
THEOREM ResultVerdictsAlwaysAgree == Spec => []ResultVerdictsAgree
<1>1. Init => ResultVerdictsAgree
  BY DEF Init, ResultVerdictsAgree
<1>. QED BY <1>1, ResultVerdictsAreRight, RecordHolds, PTL DEF Spec

\* Every step that a test started is in its result, once, and none of another.
THEOREM EveryStepIsReportedOnce == Spec => StepsReportedOnce
<1>1. ASSUME RecordInv, [Next]_vars, result' # result, result' # <<>>
      PROVE  LET steps == result'[1].steps
             IN  /\ Len(steps) = opened
                 /\ { steps[i].no : i \in DOMAIN steps } = 1..opened
  <2>. DEFINE m == Len(tl_steps)
  <2>1. result'[1].steps = tl_steps /\ Len(stack) = 0
    BY <1>1, NewResult, ResultFields
  <2>2. m \in Nat /\ opened \in Nat /\ DOMAIN tl_steps = 1..m
    BY <1>1, StepsOf DEF RecordInv, TypeInv, TypeOK
  <2>3. /\ m + 0 = opened
        /\ \A i \in 1..m : tl_steps[i].no \in 1..opened
        /\ \A no \in 1..opened : \E i \in 1..m : tl_steps[i].no = no
    <3>1. /\ m + Len(stack) = opened
          /\ \A i \in 1..m : tl_steps[i].no \in 1..opened
          /\ \A no \in 1..opened : \/ \E i \in 1..Len(stack) : stack[i].no = no
                                   \/ \E i \in 1..m : tl_steps[i].no = no
      BY <1>1 DEF RecordInv, StepsNumbered
    <3>2. \A i \in 1..Len(stack) : FALSE
      BY <2>1
    <3>. QED BY <2>1, <3>1, <3>2
  <2>. HIDE DEF m
  <2>4. { tl_steps[i].no : i \in 1..m } = 1..opened
    BY <2>3
  <2>5. m = opened
    BY <2>2, <2>3
  <2>. QED BY <2>1, <2>2, <2>4, <2>5 DEF m
<1>2. RecordInv /\ [Next]_vars =>
        [result' # result /\ result' # <<>> =>
           LET steps == result'[1].steps
           IN  /\ Len(steps) = opened
               /\ { steps[i].no : i \in DOMAIN steps } = 1..opened]_vars
  BY <1>1
<1>. QED BY <1>2, RecordHolds, PTL DEF Spec, StepsReportedOnce

\* What the test and its steps hold together is all that was added but the
\* labels without a name, and no item is held by both or twice by the test.
LEMMA ResultItemsAreRight ==
  ASSUME RecordInv, [Next]_vars, result' # result, result' # <<>>
  PROVE  LET r == result'[1]
             inTest == UNION { ToSet(r.items[kind]) : kind \in DOMAIN r.items }
             inSteps == UNION { ToSet(r.steps[i].items) : i \in DOMAIN r.steps }
         IN  /\ inTest \cap inSteps = {}
             /\ inTest \cup inSteps = { i \in DOMAIN added : added[i].kind # "namelessLabel" }
             /\ \A kind \in DOMAIN r.items : IsInjective(r.items[kind])
             /\ \A k \in DOMAIN r.steps : \A i \in ToSet(r.steps[k].items) :
                  /\ added[i].kind \in StepKinds
                  /\ r.steps[k].no \in added[i].open
<1>. DEFINE n == Len(added)
            m == Len(tl_steps)
            written == Kinds \ {"namelessLabel"}
            r == result'[1]
            inTest == UNION { ToSet(r.items[kind]) : kind \in DOMAIN r.items }
            inSteps == UNION { ToSet(r.steps[i].items) : i \in DOMAIN r.steps }
<1>1. /\ r.steps = tl_steps /\ r.items = [kind \in written |-> tl_items[kind]]
      /\ Len(stack) = 0
  BY NewResult, ResultFields
<1>2. /\ DOMAIN tl_steps = 1..m /\ DOMAIN added = 1..n /\ added \in Seq(AddedItem)
      /\ \A i \in 1..m : tl_steps[i].items \in Seq(Nat)
      /\ tl_items \in [Kinds -> Seq(Nat)]
  BY StepsOf, LenProperties DEF RecordInv, TypeInv, TypeOK, PointerInv
<1>3. DOMAIN r.items = written /\ \A kind \in written : r.items[kind] = tl_items[kind]
  BY <1>1
<1>4. /\ TestHolds(tl_items, added)
      /\ \A i \in 1..m : StepHolds(tl_steps[i], tl_items, added)
      /\ \A x \in 1..n : \/ IsIn(x, tl_items[added[x].kind])
                         \/ \E i \in 1..Len(stack) : IsIn(x, stack[i].items)
                         \/ \E i \in 1..m : IsIn(x, tl_steps[i].items)
  BY DEF RecordInv, ItemsKept
<1>5. \A x \in 1..n : \/ IsIn(x, tl_items[added[x].kind])
                      \/ \E i \in 1..m : IsIn(x, tl_steps[i].items)
  <2>1. \A i \in 1..Len(stack) : FALSE
    BY <1>1
  <2>. QED BY <1>4, <2>1
<1>6. ASSUME NEW items \in Seq(Nat), NEW x
      PROVE  x \in ToSet(items) <=> IsIn(x, items)
  <2>1. DOMAIN items = 1..Len(items)
    BY LenProperties
  <2>. QED BY <2>1 DEF ToSet, IsIn
<1>. HIDE DEF r, n, m
<1>7. \A x : x \in inTest <=> \E kind \in written : IsIn(x, tl_items[kind])
  <2>1. \A kind \in written : \A x : x \in ToSet(r.items[kind]) <=> IsIn(x, tl_items[kind])
    BY <1>2, <1>3, <1>6
  <2>. QED BY <1>3, <2>1
<1>8. \A x : x \in inSteps <=> \E i \in 1..m : IsIn(x, tl_steps[i].items)
  <2>1. \A i \in 1..m : \A x : x \in ToSet(r.steps[i].items) <=> IsIn(x, tl_steps[i].items)
    BY <1>1, <1>2, <1>6
  <2>2. DOMAIN r.steps = 1..m
    BY <1>1, <1>2
  <2>. QED BY <2>1, <2>2
<1>9. \A i \in 1..m : \A x : IsIn(x, tl_steps[i].items) =>
        /\ x \in 1..n /\ added[x].kind \in StepKinds /\ tl_steps[i].no \in added[x].open
        /\ \A kind \in Kinds : ~IsIn(x, tl_items[kind])
  <2>1. SUFFICES ASSUME NEW i \in 1..m, NEW x, NEW p \in 1..Len(tl_steps[i].items),
                        tl_steps[i].items[p] = x
                 PROVE  /\ x \in 1..n /\ added[x].kind \in StepKinds
                        /\ tl_steps[i].no \in added[x].open
                        /\ \A kind \in Kinds : ~IsIn(x, tl_items[kind])
    BY DEF IsIn
  <2>2. StepHolds(tl_steps[i], tl_items, added)
    BY <1>4
  <2>. QED BY <2>1, <2>2 DEF StepHolds, n
<1>10. \A kind \in Kinds : \A x : IsIn(x, tl_items[kind]) => x \in 1..n /\ added[x].kind = kind
  BY <1>4 DEF IsIn, TestHolds, n
<1>11. /\ \A x \in 1..n : added[x].kind \in Kinds
       /\ \A kind \in StepKinds : kind # "namelessLabel"
  <2>1. \A x \in 1..n : added[x] \in AddedItem
    BY <1>2, ElementOfSeq DEF n
  <2>. QED BY <2>1 DEF AddedItem, StepKinds
<1>12. inTest \cap inSteps = {}
  BY <1>7, <1>8, <1>9
<1>13. inTest \cup inSteps = { i \in DOMAIN added : added[i].kind # "namelessLabel" }
  <2>. HIDE DEF inTest, inSteps
  <2>1. \A x \in inTest \cup inSteps : x \in 1..n /\ added[x].kind # "namelessLabel"
    BY <1>7, <1>8, <1>9, <1>10, <1>11
  <2>2. \A x \in 1..n : added[x].kind # "namelessLabel" => x \in inTest \cup inSteps
    BY <1>5, <1>7, <1>8, <1>11
  <2>. QED BY <1>2, <2>1, <2>2
<1>14. \A kind \in DOMAIN r.items : IsInjective(r.items[kind])
  <2>1. ASSUME NEW kind \in written PROVE IsInjective(tl_items[kind])
    <3>1. DOMAIN tl_items[kind] = 1..Len(tl_items[kind])
      BY <1>2, LenProperties
    <3>. QED BY <1>4, <3>1 DEF IsInjective, TestHolds
  <2>. QED BY <1>3, <2>1
<1>15. \A k \in DOMAIN r.steps : \A i \in ToSet(r.steps[k].items) :
         /\ added[i].kind \in StepKinds
         /\ r.steps[k].no \in added[i].open
  BY <1>1, <1>2, <1>6, <1>9
<1>. QED BY <1>12, <1>13, <1>14, <1>15 DEF r

\* Everything a test added is in its result once, where it belongs, whatever
\* steps returned or threw in between.
THEOREM NothingAddedIsEverLost == Spec => NothingAddedIsLost
<1>1. RecordInv /\ [Next]_vars =>
        [result' # result /\ result' # <<>> =>
           LET r == result'[1]
               inTest == UNION { ToSet(r.items[kind]) : kind \in DOMAIN r.items }
               inSteps == UNION { ToSet(r.steps[i].items) : i \in DOMAIN r.steps }
           IN  /\ inTest \cap inSteps = {}
               /\ inTest \cup inSteps = { i \in DOMAIN added : added[i].kind # "namelessLabel" }
               /\ \A kind \in DOMAIN r.items : IsInjective(r.items[kind])
               /\ \A k \in DOMAIN r.steps : \A i \in ToSet(r.steps[k].items) :
                    /\ added[i].kind \in StepKinds
                    /\ r.steps[k].no \in added[i].open]_vars
  BY ResultItemsAreRight
<1>. QED BY <1>1, RecordHolds, PTL DEF Spec, NothingAddedIsLost

\* A result bears the last name its test set, or gtest's: never a name that an
\* earlier test set.
THEOREM CaseNameIsAlwaysOwn == Spec => CaseNameIsOwn
<1>1. ASSUME RecordInv, [Next]_vars, result' # result, result' # <<>>, ~aborted
      PROVE  result'[1].case = IF caseNamed # NoText THEN caseNamed ELSE testCase
  <2>1. result'[1].case = CaseName /\ phase = "Test"
    BY <1>1, NewResult, ResultFields
  <2>2. IF caseNamed = NoText THEN tl_case \in {NoText, testCase} ELSE tl_case = caseNamed
    BY <1>1, <2>1, Zenon DEF RecordInv, NameRemembered
  <2>. QED BY <2>1, <2>2 DEF CaseName
<1>2. RecordInv /\ [Next]_vars =>
        [result' # result /\ result' # <<>> /\ ~aborted =>
           result'[1].case = IF caseNamed # NoText THEN caseNamed ELSE testCase]_vars
  BY <1>1
<1>. QED BY <1>2, RecordHolds, PTL DEF Spec, CaseNameIsOwn
=============================================================================
