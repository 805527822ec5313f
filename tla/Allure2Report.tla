---------------------------- MODULE Allure2Report ----------------------------
(***************************************************************************)
(* The second reporting path: Allure2Listener writes one result file per   *)
(* test from what AllureAPI keeps for the current test (the tl_ variables, *)
(* cleared by beginTestCase) and for the process (the g_ variables, never  *)
(* cleared).  Both listeners are registered: the event handlers that       *)
(* AllureAPI calls find a running suite exactly inside of one and a        *)
(* running case exactly inside of a test (LegacyReport).                   *)
(*                                                                         *)
(* stack holds the Step object of every addStep call that has not returned *)
(* and tl_activeStep is a pointer into it.  The variables of the last line *)
(* are history: the steps and items of the current test, the names set     *)
(* since the last test or suite ended, and whether a run was cut short.    *)
(***************************************************************************)
EXTENDS GTestRun, Sequences, SequencesExt

CONSTANTS GTestNames,   \* the names gtest gives suites and tests
          Names,        \* the texts tests give: names, label values, TMS ids
          Labels,       \* the label names they give
          Patterns,     \* the TMS link patterns they configure
          Slotted,      \* those of them that contain the placeholder {}
          NoText,       \* the empty string: not set
          MaxSteps, MaxItems, MaxDepth, MaxTime    \* bounds

ASSUME Allure2Assumption ==
  /\ Slotted \subseteq Patterns
  /\ NoText \notin GTestNames \cup Names \cup Patterns
  /\ {MaxSteps, MaxItems, MaxDepth, MaxTime} \subseteq Nat

VARIABLES testSuite, testCase,             \* gtest's TestInfo (external)
          tl_suite, tl_case, tl_startMs, tl_steps, tl_items, tl_activeStep,
          g,                               \* g_tmsId, g_tmsPattern, g_description, g_suiteLabels
          stack,
          result,                          \* the file of the test that ended, until the next starts
          now,
          opened, added, caseNamed, labelNamed, aborted

testInfo == <<testSuite, testCase>>
tlVars   == <<tl_suite, tl_case, tl_startMs, tl_steps, tl_items, tl_activeStep>>
history  == <<opened, added, caseNamed, labelNamed, aborted>>
vars     == <<gtestVars, testInfo, tlVars, g, stack, result, now, history>>

-----------------------------------------------------------------------------
(***************************************************************************)
(* What a test may add to its report.  Attachments and parameters go to    *)
(* the active step if there is one; tags and labels always to the test.  A *)
(* label without a name is kept but not written.  An item is known by its  *)
(* position among all the test has added.                                  *)
(***************************************************************************)
StepKinds == {"attachment", "parameter"}
Kinds     == StepKinds \cup {"tag", "label", "namelessLabel"}

NoItems == [kind \in Kinds |-> <<>>]

NewStep == [no |-> opened + 1, status |-> "", start |-> now, stop |-> 0, items |-> <<>>]

Ended(step, status) == [step EXCEPT !.status = status, !.stop = now]

GlobalKeys == {"TMS_ID", "TMS_PATTERN", "DESCRIPTION", "NAME"} \cup Labels

\* formatTMSLink: no link without a pattern, and a pattern without {} is kept.
TMSLink == IF g["TMS_PATTERN"] = NoText THEN NoText
           ELSE [pattern |-> g["TMS_PATTERN"],
                 id |-> IF g["TMS_PATTERN"] \in Slotted THEN g["TMS_ID"] ELSE NoText]

\* Mutant: a skip hides a failure.
ResultStatusSkipFirst == IF testSkipped THEN "skipped" ELSE IF testFailed THEN "failed" ELSE "passed"

\* statusFromGTest
ResultStatus == IF Skipped THEN "skipped" ELSE IF testFailed THEN "failed" ELSE "passed"

\* Mutant: the stop is not moved past the start.
StopMsEqual == now

StopMs == IF now <= tl_startMs THEN tl_startMs + 1 ELSE now

SuiteName == IF tl_suite = NoText THEN testSuite ELSE tl_suite
CaseName  == IF tl_case = NoText THEN testCase ELSE tl_case

Result ==
  [suite |-> SuiteName,                    \* fullName and historyId are suite.case
   case |-> CaseName,
   suiteLabel |-> IF g["NAME"] # NoText THEN g["NAME"] ELSE SuiteName,
   description |-> g["DESCRIPTION"],
   labels |-> [key \in { k \in Labels : g[k] # NoText } |-> g[key]],
   links |-> IF g["TMS_ID"] = NoText THEN <<>>
             ELSE <<[name |-> g["TMS_ID"], url |-> TMSLink]>>,
   status |-> ResultStatus,
   steps |-> tl_steps,
   items |-> [kind \in Kinds \ {"namelessLabel"} |-> tl_items[kind]],
   start |-> tl_startMs, stop |-> StopMs]

-----------------------------------------------------------------------------
Init == /\ GTestInit
        /\ testSuite \in GTestNames
        /\ testCase \in GTestNames
        /\ tl_suite = NoText
        /\ tl_case = NoText
        /\ tl_startMs = 0
        /\ tl_steps = <<>>
        /\ tl_items = NoItems
        /\ tl_activeStep = 0
        /\ g = [key \in GlobalKeys |-> NoText]
        /\ stack = <<>>
        /\ result = <<>>
        /\ now = 0
        /\ opened = 0
        /\ added = <<>>
        /\ caseNamed = NoText
        /\ labelNamed = NoText
        /\ aborted = FALSE

\* Allure2Listener does not handle the callbacks around the tests.
ProgramStart == /\ GProgramStart
                /\ UNCHANGED <<testInfo, tlVars, g, stack, result, now, history>>

SuiteStart(name) ==
  /\ GSuiteStart
  /\ testSuite' = name
  /\ UNCHANGED <<testCase, tlVars, g, stack, result, now, history>>

SuiteEnd ==
  /\ GSuiteEnd
  /\ labelNamed' = NoText
  /\ UNCHANGED <<testInfo, tlVars, g, stack, result, now, opened, added, caseNamed, aborted>>

ProgramEnd == /\ GProgramEnd
              /\ UNCHANGED <<testInfo, tlVars, g, stack, result, now, history>>

\* Mutant: beginTestCase does not clear what the previous test added.
BeginTestCaseKeeps ==
  /\ tl_startMs' = now
  /\ tl_steps' = <<>>
  /\ UNCHANGED tl_items
  /\ tl_activeStep' = 0
  /\ tl_suite' = IF tl_suite = NoText THEN testSuite ELSE tl_suite
  /\ tl_case' = IF tl_case = NoText THEN testCase' ELSE tl_case

BeginTestCase ==
  /\ tl_startMs' = now
  /\ tl_steps' = <<>>
  /\ tl_items' = NoItems
  /\ tl_activeStep' = 0
  /\ tl_suite' = IF tl_suite = NoText THEN testSuite ELSE tl_suite
  /\ tl_case' = IF tl_case = NoText THEN testCase' ELSE tl_case

OnTestStart(name) ==
  /\ GTestStart
  /\ testCase' = name
  /\ BeginTestCase
  /\ result' = <<>>
  /\ opened' = 0
  /\ added' = <<>>
  /\ UNCHANGED <<testSuite, g, stack, now, caseNamed, labelNamed, aborted>>

\* Mutant: the case name survives its test.
EndTestCaseKeepsName == tl_suite' = NoText /\ UNCHANGED tl_case

\* The rest is kept until the next beginTestCase.
EndTestCase == tl_suite' = NoText /\ tl_case' = NoText

\* Nothing checks the stream: a file that cannot be written is lost silently.
OnTestEnd ==
  /\ stack = <<>>
  /\ GTestEnd
  /\ result' \in {result, <<Result>>}
  /\ EndTestCase
  /\ caseNamed' = NoText
  /\ UNCHANGED <<testInfo, tl_startMs, tl_steps, tl_items, tl_activeStep, g, stack, now,
                 opened, added, labelNamed, aborted>>

\* create_directories or another listener throws: endTestCase is not reached.
RunIsCutShort ==
  /\ stack = <<>>
  /\ GAbort
  /\ aborted' = TRUE
  /\ UNCHANGED <<testInfo, tlVars, g, stack, result, now, opened, added, caseNamed, labelNamed>>

-----------------------------------------------------------------------------
(***************************************************************************)
(* AllureAPI::addStep.  handleTestStepStart throws outside of a test,      *)
(* before the step is active and before its function is called.            *)
(***************************************************************************)
StepStart ==
  /\ phase = "Test"
  /\ Len(stack) < MaxDepth
  /\ opened < MaxSteps
  /\ stack' = Append(stack, NewStep)
  /\ tl_activeStep' = Len(stack) + 1
  /\ opened' = opened + 1
  /\ UNCHANGED <<gtestVars, testInfo, tl_suite, tl_case, tl_startMs, tl_steps, tl_items, g,
                 result, now, added, caseNamed, labelNamed, aborted>>

\* Mutant: a step is given the status of its test.
StepReturnByTest ==
  /\ stack # <<>>
  /\ stack' = Front(stack)
  /\ tl_steps' = Append(tl_steps, Ended(Last(stack), ResultStatus))
  /\ tl_activeStep' = 0
  /\ UNCHANGED <<gtestVars, testInfo, tl_suite, tl_case, tl_startMs, tl_items, g,
                 result, now, history>>

StepReturn ==
  /\ stack # <<>>
  /\ stack' = Front(stack)
  /\ tl_steps' = Append(tl_steps, Ended(Last(stack), IF testFailed THEN "failed" ELSE "passed"))
  /\ tl_activeStep' = 0
  /\ UNCHANGED <<gtestVars, testInfo, tl_suite, tl_case, tl_startMs, tl_items, g,
                 result, now, history>>

\* The Step objects of the innermost n calls, innermost first.
Unwound(n) == [i \in 1..n |-> stack[Len(stack) + 1 - i]]

\* Mutant: the pointer is not reset on the way out.
CatchKeepsActive(n) ==
  /\ stack' = SubSeq(stack, 1, Len(stack) - n)
  /\ tl_steps' = tl_steps \o [i \in 1..n |-> Ended(Unwound(n)[i], "broken")]
  /\ UNCHANGED tl_activeStep

\* Mutant: only a step that returns is recorded.
CatchLosesStep(n) ==
  /\ stack' = SubSeq(stack, 1, Len(stack) - n)
  /\ UNCHANGED tl_steps
  /\ tl_activeStep' = 0

Catch(n) ==
  /\ stack' = SubSeq(stack, 1, Len(stack) - n)
  /\ tl_steps' = tl_steps \o [i \in 1..n |-> Ended(Unwound(n)[i], "broken")]
  /\ tl_activeStep' = 0

\* An exception passes n addStep calls; then user code catches it or, past the
\* outermost call, it leaves the test and gtest records a failure.
StepThrow(n) ==
  /\ Catch(n)
  /\ \/ UNCHANGED gtestVars
     \/ n = Len(stack) /\ GFailInTest
  /\ UNCHANGED <<testInfo, tl_suite, tl_case, tl_startMs, tl_items, g, result, now, history>>

-----------------------------------------------------------------------------
(***************************************************************************)
(* addTag, addLabel, addAttachment and addParameter.                       *)
(***************************************************************************)
Add(kind) ==
  LET item == Len(added) + 1
  IN  /\ item <= MaxItems
      /\ IF kind \in StepKinds /\ tl_activeStep # 0
         THEN /\ stack' = [stack EXCEPT ![tl_activeStep].items = Append(@, item)]
              /\ UNCHANGED tl_items
         ELSE /\ tl_items' = [tl_items EXCEPT ![kind] = Append(@, item)]
              /\ UNCHANGED stack
      /\ added' = Append(added, [kind |-> kind, open |-> { stack[i].no : i \in DOMAIN stack }])
      /\ UNCHANGED <<gtestVars, testInfo, tl_suite, tl_case, tl_startMs, tl_steps,
                     tl_activeStep, g, result, now, opened, caseNamed, labelNamed, aborted>>

(***************************************************************************)
(* The setters write the variables of this module before they call the     *)
(* property setter, so also where that throws for want of a running suite. *)
(***************************************************************************)
SetTestSuiteName(name) ==
  /\ tl_suite' = name
  /\ g' = [g EXCEPT !["NAME"] = name]
  /\ labelNamed' = name
  /\ UNCHANGED <<gtestVars, testInfo, tl_case, tl_startMs, tl_steps, tl_items, tl_activeStep,
                 stack, result, now, opened, added, caseNamed, aborted>>

SetTestCaseName(name) ==
  /\ tl_case' = name
  /\ caseNamed' = name
  /\ UNCHANGED <<gtestVars, testInfo, tl_suite, tl_startMs, tl_steps, tl_items, tl_activeStep,
                 g, stack, result, now, opened, added, labelNamed, aborted>>

\* setTMSId, setTMSLinksPattern, setTestSuiteLabel and the setters built on it;
\* setTestSuiteDescription also sets the feature label.
SetGlobal(key, value) ==
  /\ g' = [k \in GlobalKeys |->
             IF k = key \/ (key = "DESCRIPTION" /\ k = "FEATURE") THEN value ELSE g[k]]
  /\ labelNamed' = IF key = "NAME" THEN value ELSE labelNamed
  /\ UNCHANGED <<gtestVars, testInfo, tlVars, stack, result, now, opened, added, caseNamed, aborted>>

-----------------------------------------------------------------------------
FailAssertion == /\ GFailInTest \/ GFailInSuite
                 /\ UNCHANGED <<testInfo, tlVars, g, stack, result, now, history>>

SkipTest == /\ GSkip
            /\ UNCHANGED <<testInfo, tlVars, g, stack, result, now, history>>

Tick == /\ now < MaxTime
        /\ now' = now + 1
        /\ UNCHANGED <<gtestVars, testInfo, tlVars, g, stack, result, history>>

Next ==
  \/ ProgramStart
  \/ \E name \in GTestNames : SuiteStart(name) \/ OnTestStart(name)
  \/ OnTestEnd
  \/ RunIsCutShort
  \/ SuiteEnd
  \/ ProgramEnd
  \/ StepStart
  \/ StepReturn
  \/ \E n \in 1..Len(stack) : StepThrow(n)
  \/ \E kind \in Kinds : Add(kind)
  \/ \E name \in Names : SetTestSuiteName(name)
  \/ \E name \in Names \cup {NoText} : SetTestCaseName(name)
  \/ \E key \in GlobalKeys \ {"TMS_PATTERN"}, value \in Names : SetGlobal(key, value)
  \/ \E pattern \in Patterns : SetGlobal("TMS_PATTERN", pattern)
  \/ FailAssertion
  \/ SkipTest
  \/ Tick

Spec == Init /\ [][Next]_vars

-----------------------------------------------------------------------------
(***************************************************************************)
(* Properties.  A result is checked when it appears: it is not kept longer *)
(* than until the next test starts.                                        *)
(***************************************************************************)
StepRecord == [no : Nat, status : {"", "passed", "failed", "broken"},
               start : Nat, stop : Nat, items : Seq(Nat)]

\* Types: the thread-local and global variables hold what C++ declares.
TypeOK == /\ GTestTypeOK
          /\ tl_suite \in GTestNames \cup Names \cup {NoText}
          /\ tl_case \in GTestNames \cup Names \cup {NoText}
          /\ tl_startMs \in Nat
          /\ tl_steps \in Seq(StepRecord)
          /\ tl_items \in [Kinds -> Seq(Nat)]
          /\ tl_activeStep \in Nat
          /\ g \in [GlobalKeys -> Names \cup Patterns \cup {NoText}]
          /\ stack \in Seq(StepRecord)
          /\ now \in Nat
          /\ opened \in Nat
          /\ aborted \in BOOLEAN

\* tl_activeStep points to an object on the stack of addStep: it is null or the
\* innermost call's step, whatever nests, returns or throws.
ActiveStepIsLive == tl_activeStep \in {0, Len(stack)}

\* Every step a test started is in its result once: those that returned, those
\* that threw, those inside others; and never one of another test.
StepsReportedOnce ==
  [][result' # result /\ result' # <<>> =>
       LET steps == result'[1].steps
       IN  /\ Len(steps) = opened
           /\ { steps[i].no : i \in DOMAIN steps } = 1..opened]_vars

\* Everything a test added is in its result once, and nothing else is: an
\* attachment or parameter with the test or with a step that was open when it
\* was added, the rest with the test.
NothingAddedIsLost ==
  [][result' # result /\ result' # <<>> =>
       LET r == result'[1]
           inTest == UNION { ToSet(r.items[kind]) : kind \in DOMAIN r.items }
           inSteps == UNION { ToSet(r.steps[i].items) : i \in DOMAIN r.steps }
       IN  /\ inTest \cap inSteps = {}
           /\ inTest \cup inSteps = { i \in DOMAIN added : added[i].kind # "namelessLabel" }
           /\ \A kind \in DOMAIN r.items : IsInjective(r.items[kind])
           /\ \A k \in DOMAIN r.steps : \A i \in ToSet(r.steps[k].items) :
                /\ added[i].kind \in StepKinds
                /\ r.steps[k].no \in added[i].open]_vars

\* The steps of a result are in the order they ended, inner before outer; two
\* of them nest or follow one another; and the test's own times, which end
\* strictly after they start, contain them all (but for the bump of the stop).
ResultTimesNest ==
  result # <<>> =>
    LET r == result[1]
    IN  /\ r.start < r.stop
        /\ \A i \in DOMAIN r.steps :
             r.start <= r.steps[i].start /\ r.steps[i].start <= r.steps[i].stop
               /\ r.steps[i].stop <= r.stop
        /\ \A i, j \in DOMAIN r.steps : i < j =>
             IF r.steps[i].no < r.steps[j].no
             THEN r.steps[i].stop <= r.steps[j].start
             ELSE r.steps[j].start <= r.steps[i].start /\ r.steps[i].stop <= r.steps[j].stop

\* The verdicts of a result agree: a step reported failed means that the test
\* is, and no step that ended after it is reported passed.
ResultVerdictsAgree ==
  result # <<>> =>
    LET r == result[1]
    IN  \A i \in DOMAIN r.steps : r.steps[i].status = "failed" =>
          /\ r.status = "failed"
          /\ \A j \in DOMAIN r.steps : i < j => r.steps[j].status # "passed"

\* The case name of a result is gtest's, or the last one the test set since the
\* test before it ended; unless an earlier run was cut short.
CaseNameIsOwn ==
  [][result' # result /\ result' # <<>> /\ ~aborted =>
       result'[1].case = IF caseNamed # NoText THEN caseNamed ELSE testCase]_vars

-----------------------------------------------------------------------------
(***************************************************************************)
(* Stated by the repository and not met by the code.                       *)
(***************************************************************************)
\* "By default, each test suite will be named as the associated test class"
\* (README): the suite label of a result is the test class, unless the suite set
\* another name.  The name that an earlier suite set is still in g_suiteLabels.
SuiteLabelIsOwn ==
  [][result' # result /\ result' # <<>> /\ ~aborted =>
       result'[1].suiteLabel = IF labelNamed # NoText THEN labelNamed ELSE testSuite]_vars
=============================================================================
