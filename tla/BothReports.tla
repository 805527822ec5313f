----------------------------- MODULE BothReports -----------------------------
(***************************************************************************)
(* Both reporting paths on one run of gtest: GTestEventListener and        *)
(* Allure2Listener are registered, and every AllureAPI call changes the    *)
(* tree of the one and the thread-local variables of the other.  Each      *)
(* action is one callback or call, conjoined from the two modules; gtest's *)
(* state is shared.                                                        *)
(*                                                                         *)
(* The times of the two cannot be compared: the legacy handlers read       *)
(* seconds, Allure 2 reads milliseconds at another moment of the same      *)
(* call, before or after folders and files are written.  No condition of   *)
(* either path depends on its clock.  Here the legacy clock (now) runs,    *)
(* that of Allure 2 stands still and nothing is stated of its readings.    *)
(* Tags, labels, attachments and parameters only concern Allure 2 and are  *)
(* left to Allure2Report; suite properties, formats and patterns are left  *)
(* to the modules they are in.                                             *)
(***************************************************************************)
EXTENDS LegacyReport

CONSTANTS GTestNames,   \* the names gtest gives suites and tests
          Texts,        \* the names tests set
          NoText        \* the empty string: not set

\* test_case_name() + "." + name(): what GTestEventListener calls a test.
Qualified(suite, test) == <<suite, test>>

\* A text that is not set is empty, and no name or pattern is.
ASSUME BothAssumption ==
  /\ GTestNames \cup Texts \subseteq Names
  /\ \A suite, test \in GTestNames : Qualified(suite, test) \in Names
  /\ NoText \notin Names \cup Patterns

VARIABLES testSuite, testCase, tl_suite, tl_case, tl_startMs, tl_steps, tl_items,
          tl_activeStep, g, stack, result,
          opened, added, caseNamed, labelNamed, aborted,
          built,     \* Allure2Listener has been constructed
          asked,     \* history: legacy results were turned on since then
          ownName,   \* history: the name the running test has set for itself
          stray      \* history: since a test last ended, a name was set while none
                     \* was running, or a run was cut short in a test

A == INSTANCE Allure2Report WITH MaxItems <- 0, Names <- Texts, now <- 0, MaxTime <- 0

allure2Vars == <<testSuite, testCase, tl_suite, tl_case, tl_startMs, tl_steps, tl_items,
                 tl_activeStep, g, stack, result,
                 opened, added, caseNamed, labelNamed, aborted>>
legacyVars == <<suites, configVars, frames, thrown, error, files, now>>
nameVars   == <<ownName, stray>>
ownVars    == <<built, asked, nameVars>>
bothVars   == <<vars, A!vars, ownVars>>

BothInit == /\ Init
            /\ A!Init
            /\ built = FALSE
            /\ asked = FALSE
            /\ ownName = NoText
            /\ stray = FALSE

\* Mutant: the constructor leaves the legacy results as they are.
BuildListenerKeeps ==
  /\ phase = "Idle" /\ ~built
  /\ built' = TRUE
  /\ asked' = FALSE
  /\ UNCHANGED <<vars, allure2Vars, nameVars>>

\* The constructor turns the legacy results off, also where they were turned on.
BuildListener ==
  /\ phase = "Idle" /\ ~built
  /\ built' = TRUE
  /\ Configure /\ legacyResults' = FALSE /\ UNCHANGED <<format, pattern>>
  /\ asked' = FALSE
  /\ UNCHANGED <<allure2Vars, nameVars>>

SetGenerateLegacyResults(enable) ==
  /\ Configure /\ legacyResults' = enable /\ UNCHANGED <<format, pattern>>
  /\ asked' = (asked \/ enable)
  /\ UNCHANGED <<allure2Vars, built, nameVars>>

\* The legacy callbacks find their targets (HandlersFindTheirTarget), and the
\* pattern is the default one: none of them throws.
ProgramStarts == built /\ OnTestProgramStart /\ A!ProgramStart /\ UNCHANGED ownVars

SuiteStarts(name) == OnTestSuiteStart(name) /\ A!SuiteStart(name) /\ UNCHANGED ownVars

\* One listener is given the suite's name and the test's, the other keeps the
\* test's alone.
TestStarts(name) ==
  /\ OnTestStart(Qualified(testSuite, name))
  /\ A!OnTestStart(name)
  /\ ownName' = NoText
  /\ UNCHANGED <<built, asked, stray>>

TestEnds == OnTestEnd /\ A!OnTestEnd /\ stray' = FALSE /\ UNCHANGED <<built, asked, ownName>>

SuiteEnds == OnTestSuiteEnd /\ A!SuiteEnd /\ UNCHANGED ownVars

ProgramEnds == /\ OnTestProgramEndDisabled \/ \E n \in 0..Len(suites) : OnTestProgramEnd(n)
               /\ A!ProgramEnd
               /\ UNCHANGED ownVars

\* gtest calls OnTestEnd of the listener that was added last first: a result
\* folder that cannot be created keeps the legacy case from being ended, and the
\* thread-local name from being cleared.
Allure2Throws ==
  /\ OtherListenerThrows
  /\ A!RunIsCutShort
  /\ stray' = (stray \/ phase = "Test")
  /\ UNCHANGED <<built, asked, ownName>>

StepStarts(type) == StepStart(type) /\ A!StepStart /\ UNCHANGED ownVars
StepReturns      == StepReturn /\ A!StepReturn /\ UNCHANGED ownVars
StepThrows(n)    == StepThrow(n) /\ A!StepThrow(n) /\ UNCHANGED ownVars

\* Without a running case the handler throws, after the thread-local name is set.
CaseIsNamed(name) ==
  /\ A!SetTestCaseName(name)
  /\ \/ SetTestCaseName(name)
     \/ CaseError # "none" /\ UNCHANGED legacyVars
  /\ IF phase = "Test" THEN ownName' = name /\ UNCHANGED stray
                       ELSE stray' = TRUE /\ UNCHANGED ownName
  /\ UNCHANGED <<built, asked>>

AssertionFails == FailAssertion /\ A!FailAssertion /\ UNCHANGED ownVars
TestIsSkipped  == SkipTest /\ A!SkipTest /\ UNCHANGED ownVars

TimePasses     == Tick /\ UNCHANGED <<allure2Vars, ownVars>>

BothNext ==
  \/ BuildListener
  \/ \E enable \in BOOLEAN : SetGenerateLegacyResults(enable)
  \/ ProgramStarts
  \/ \E name \in GTestNames : SuiteStarts(name) \/ TestStarts(name)
  \/ TestEnds
  \/ SuiteEnds
  \/ ProgramEnds
  \/ Allure2Throws
  \/ \E type \in StepTypes : StepStarts(type)
  \/ StepReturns
  \/ \E n \in 1..frames : StepThrows(n)
  \/ \E name \in Texts : CaseIsNamed(name)
  \/ AssertionFails
  \/ TestIsSkipped
  \/ TimePasses

BothSpec == BothInit /\ [][BothNext]_bothVars

-----------------------------------------------------------------------------
(***************************************************************************)
(* Properties.                                                             *)
(***************************************************************************)
IsBroken(step) == step.status = "broken"

\* How many of the first k steps returned.
Returned(steps, k) == Cardinality({ i \in 1..k : ~IsBroken(steps[i]) })

\* The steps of a legacy case and the ended steps of Allure 2 tell the same story:
\* as many are closed as returned, from the first on, and the one that returned as
\* the k-th has failed exactly if the k-th closed one has.
StepsMatch(steps, ended) ==
  /\ { k \in DOMAIN steps : Finished(steps[k]) } = 1..Returned(ended, Len(ended))
  /\ \A k \in DOMAIN ended :
       ~IsBroken(ended[k]) =>
         (steps[Returned(ended, k)].status = "FAILED" <=> ended[k].status = "failed")

\* At every moment of a test the two reports have the same number of steps, and
\* they match: the legacy handler closes the wrong steps, but the right number
\* with the right verdicts.  What Allure 2 calls broken the legacy report leaves
\* RUNNING.
StepsAgree ==
  phase = "Test" =>
    /\ Len(CurrentSteps(suites)) = Len(stack) + Len(tl_steps)
    /\ StepsMatch(CurrentSteps(suites), tl_steps)

\* When a test has ended, its case and its result have the same number of steps,
\* the steps match, and the two agree on whether the test passed.
CaseAndResultAgree ==
  phase = "Suite" /\ result # <<>> =>
    LET cases == suites[Len(suites)].cases
        case  == cases[Len(cases)]
        r     == result[1]
    IN  cases # <<>> =>
          /\ r.status = "passed" <=> case.status = "PASSED"
          /\ Len(case.steps) = Len(r.steps)
          /\ StepsMatch(case.steps, r.steps)

\* A test that names itself has that name in both reports, whatever happened
\* before.  One that does not is Suite.test in the legacy report and test in the
\* other; there a name that was set while no test was running, or left behind by
\* a test that was cut short, replaces it, but never in more than one test.
CaseNamesAgree ==
  phase = "Test" =>
    LET name == suites[RunningSuite(suites)].cases[RunningCase(suites)].name
    IN  IF ownName # NoText
        THEN name = ownName /\ A!CaseName = ownName
        ELSE /\ name = Qualified(testSuite, testCase)
             /\ ~stray => A!CaseName = testCase

\* With Allure2Listener a run is reported once: no legacy document appears, also
\* of repeated runs, unless the program asked for them after the listener was
\* constructed.  What it set before that does not count.
LegacyReportIsAskedFor == built /\ files # <<>> => asked
=============================================================================
