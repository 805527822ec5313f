---------------------------- MODULE EventHandlers ----------------------------
(***************************************************************************)
(* The handlers of Services/EventHandlers and Services/Property, as        *)
(* functions from the suites of the shared TestProgram to its suites after *)
(* the call.  RunningSuite, RunningCase and RunningStep are the lookups;   *)
(* where the one a handler needs is 0 the code throws before it changes    *)
(* anything, so the handlers below are applied only where it is not.       *)
(***************************************************************************)
EXTENDS TestProgramModel

RunningSuite(suites) == FirstRunning(suites)

RunningCase(suites) ==
  IF RunningSuite(suites) = 0 THEN 0
  ELSE FirstRunning(suites[RunningSuite(suites)].cases)

CurrentSteps(suites) ==
  suites[RunningSuite(suites)].cases[RunningCase(suites)].steps

RunningStep(suites) ==
  IF RunningCase(suites) = 0 THEN 0 ELSE FirstRunning(CurrentSteps(suites))

\* The suites with the running suite, or the running case, changed.
InRunningSuite(suites, Change(_)) ==
  [suites EXCEPT ![RunningSuite(suites)] = Change(@)]

InRunningCase(suites, Change(_)) ==
  [suites EXCEPT ![RunningSuite(suites)].cases[RunningCase(suites)] = Change(@)]

-----------------------------------------------------------------------------
(***************************************************************************)
(* Services/EventHandlers.                                                 *)
(***************************************************************************)
\* Mutant: the suites of an earlier run are kept.
HandleTestProgramStartKeeps(suites) == suites

HandleTestProgramStart(suites) == <<>>

HandleTestSuiteStart(suites, uuid, name, format, now) ==
  Append(suites, NewSuite(uuid, name, format, now))

HandleTestCaseStart(suites, name, now) ==
  InRunningSuite(suites,
    LAMBDA suite : [suite EXCEPT !.cases = Append(@, NewCase(name, now))])

HandleTestStepStart(suites, type, now) ==
  InRunningCase(suites,
    LAMBDA case : [case EXCEPT !.steps = Append(@, NewStep(type, now))])

\* Mutant: every running step of the case is closed, not only the first.
HandleTestStepEndAll(suites, now, status) ==
  InRunningCase(suites,
    LAMBDA case : [case EXCEPT !.steps =
      [i \in DOMAIN @ |-> IF IsRunning(@[i]) THEN Closed(@[i], now, status) ELSE @[i]]])

\* Mutant: setStage(FINISHED) is forgotten.
HandleTestStepEndNoStage(suites, now, status) ==
  InRunningCase(suites,
    LAMBDA case : [case EXCEPT !.steps[RunningStep(suites)].stop = now,
                               !.steps[RunningStep(suites)].status = status])

HandleTestStepEnd(suites, now, status) ==
  InRunningCase(suites,
    LAMBDA case : [case EXCEPT !.steps[RunningStep(suites)] = Closed(@, now, status)])

\* Mutant: setStage(FINISHED) is forgotten.
HandleTestCaseEndNoStage(suites, now, status) ==
  InRunningCase(suites, LAMBDA case : [case EXCEPT !.stop = now, !.status = status])

HandleTestCaseEnd(suites, now, status) ==
  InRunningCase(suites, LAMBDA case : Closed(case, now, status))

\* The suite is closed first; the link is added only if the pattern has a {},
\* else std::string::replace throws std::out_of_range on the position npos.
AddTMSLink(suite, pattern) ==
  IF pattern \in Slotted
  THEN [suite EXCEPT !.links = Append(@, [name |-> suite.tmsId, pattern |-> pattern])]
  ELSE suite

\* Mutant: the search for the running suite is left out.
HandleTestSuiteEndEvery(suites, now, status, pattern) ==
  [i \in DOMAIN suites |-> AddTMSLink(Closed(suites[i], now, status), pattern)]

HandleTestSuiteEnd(suites, now, status, pattern) ==
  InRunningSuite(suites,
    LAMBDA suite : AddTMSLink(Closed(suite, now, status), pattern))

-----------------------------------------------------------------------------
(***************************************************************************)
(* Services/Property.                                                      *)
(***************************************************************************)
SuiteProperties == {"TMS_ID", "NAME"} \cup Labels

SetSuiteProperty(suites, property, value) ==
  InRunningSuite(suites,
    LAMBDA suite :
      CASE property = "TMS_ID" -> [suite EXCEPT !.tmsId = value]
        [] property = "NAME"   -> [suite EXCEPT !.name = value]
        [] OTHER -> [suite EXCEPT !.labels =
                       AddLabel(@, [name |-> property, value |-> value])])

SetCaseName(suites, value) ==
  InRunningCase(suites, LAMBDA case : [case EXCEPT !.name = value])
=============================================================================
