------------------------------ MODULE GTestRun ------------------------------
(***************************************************************************)
(* GoogleTest as the library sees it (external: gtest 1.14 is not part of  *)
(* the repository).  RUN_ALL_TESTS fires the listener's callbacks in the   *)
(* order Program ( Suite ( Test )* )*; around them it keeps the result of  *)
(* the current test and of the current suite.  Each action below is the    *)
(* moment gtest calls the listener or user code changes a result; a module *)
(* that EXTENDS this one conjoins what the library does at that moment.    *)
(***************************************************************************)
EXTENDS Naturals

VARIABLES phase,        \* where RUN_ALL_TESTS is
          testFailed,   \* the current test has a failed assertion
          testSkipped,  \* GTEST_SKIP was called in the current test
          suiteFailed,  \* a test of the suite, or its set-up or tear-down, failed
          testRan       \* a test of the suite has run: gtest passes over empty suites

gtestVars == <<phase, testFailed, testSkipped, suiteFailed, testRan>>

Phases == {"Idle", "Program", "Suite", "Test"}

GTestTypeOK == /\ phase \in Phases
               /\ testFailed \in BOOLEAN
               /\ testSkipped \in BOOLEAN
               /\ suiteFailed \in BOOLEAN
               /\ testRan \in BOOLEAN

GTestInit == /\ phase = "Idle"
             /\ testFailed = FALSE
             /\ testSkipped = FALSE
             /\ suiteFailed = FALSE
             /\ testRan = FALSE

\* TestResult::Skipped and TestResult::Passed: a failure outweighs a skip.
Skipped == testSkipped /\ ~testFailed
Passed  == ~testFailed /\ ~testSkipped

\* A result belongs to the test or suite that runs; outside of it nothing can
\* read it and it is kept FALSE.
GProgramStart == /\ phase = "Idle"
                 /\ phase' = "Program"
                 /\ UNCHANGED <<testFailed, testSkipped, suiteFailed, testRan>>

GSuiteStart == /\ phase = "Program"
               /\ phase' = "Suite"
               /\ UNCHANGED <<testFailed, testSkipped, suiteFailed, testRan>>

GTestStart == /\ phase = "Suite"
              /\ phase' = "Test"
              /\ UNCHANGED <<testFailed, testSkipped, suiteFailed, testRan>>

\* OnTestEnd and OnTestSuiteEnd: the listener still sees the result.
GTestEnd == /\ phase = "Test"
            /\ phase' = "Suite"
            /\ suiteFailed' = (suiteFailed \/ testFailed)
            /\ testFailed' = FALSE
            /\ testSkipped' = FALSE
            /\ testRan' = TRUE

GSuiteEnd == /\ phase = "Suite"
             /\ testRan
             /\ phase' = "Program"
             /\ suiteFailed' = FALSE
             /\ testRan' = FALSE
             /\ UNCHANGED <<testFailed, testSkipped>>

GProgramEnd == /\ phase = "Program"
               /\ phase' = "Idle"
               /\ UNCHANGED <<testFailed, testSkipped, suiteFailed, testRan>>

\* An exception that escapes a listener: RUN_ALL_TESTS catches it, returns a
\* failure and fires no further callback.
GAbort == /\ phase # "Idle"
          /\ phase' = "Idle"
          /\ testFailed' = FALSE
          /\ testSkipped' = FALSE
          /\ suiteFailed' = FALSE
          /\ testRan' = FALSE

\* A failed assertion or an exception that user code lets escape, in a test or
\* in SetUpTestSuite / TearDownTestSuite.
GFailInTest == /\ phase = "Test"
               /\ testFailed' = TRUE
               /\ UNCHANGED <<phase, testSkipped, suiteFailed, testRan>>

GFailInSuite == /\ phase = "Suite"
                /\ suiteFailed' = TRUE
                /\ UNCHANGED <<phase, testFailed, testSkipped, testRan>>

GSkip == /\ phase = "Test"
         /\ testSkipped' = TRUE
         /\ UNCHANGED <<phase, testFailed, suiteFailed, testRan>>
=============================================================================
