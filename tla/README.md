# Verification of cpp-gtest-allure-utilities

The library turns a GoogleTest run into Allure reports. It listens to gtest's
callbacks, offers tests an API (`AllureAPI`) for names, labels, steps,
attachments and parameters, and writes JSON files. This directory holds TLA+
modules that model that code, TLC configurations that check them on small
instances, and proofs that TLAPS checks for every value of the constants.
Paths below are relative to `src/src/GTestAllureUtilities/`.

## The system

There are two reporting paths. They share `AllureAPI` and little else.

```
            gtest: RUN_ALL_TESTS (one thread)
      callbacks |                       | callbacks            test code
  GTestEventListener              Allure2Listener                  |
          |                      OnTestStart/End only          AllureAPI
   event handlers  <-- addStep, set... --- + --- add..., set... ---+
          |                                |
     TestProgram (tree)            tl_ and g_ variables
          | program end                    | test end
  JSON builder, serializer          one *-result.json per test
  one *.json per suite
```

| Component | State | Operations | What is hard | What makes it correct |
|---|---|---|---|---|
| Report tree (`Model/`) | program, suites, cases, steps, labels, links | constructors, setters, `addLabel` | deep copies, "the" running item is found by search | at most one path of running items |
| Event handlers (`Services/EventHandlers`) | none: they change the tree | one per callback, plus step start and end | each searches the tree for the first RUNNING item and throws if there is none | the item found is the one gtest is in; finished items stay as they are |
| Property setters (`Services/Property`) | none | `setProperty` | same search | labels unique, last value wins |
| `GTestEventListener`, `GTestStatusChecker` | none | six callbacks, current status | three notions of "passed" | verdicts do not contradict each other |
| `AllureAPI` | `m_testProgram`, `g_` globals behind a mutex, `tl_` thread-locals | steps, setters, configuration | nested and throwing step functions, a pointer to a local object, values that outlive their test | nothing lost, nothing twice, nothing of another test |
| JSON builder, serializer (`Services/Report`) | files | `buildJSONFiles` | a write that fails part of the way | only finished suites are published, all of them if no exception ended the run |
| `Allure2Listener` | uuid and start of the test | `OnTestStart`, `OnTestEnd` | reads what `AllureAPI` kept; may throw before `endTestCase` | the result is the test's own |
| File, time, UUID services (`Services/System`) | file system, clock | `saveFile`, `getCurrentTime`, `generateUUID` | check-then-create of folders against other programs; failed writes; hexadecimal without leading zeros | the folder is there when a file is opened, nothing finished is overwritten |
| RapidJSON adapter | caches of members and array values, list of free values | tree editing, JSON pointer | caches against a value whose elements move | cache and value agree, a built value has one owner |
| JSON schema validator | cache of remote schemas | `validate` | - | - |
| Services factory, interfaces, `Model/Attachment`, `Model/Parameter` | - | construction, declarations, unused classes | - | - |

`PROJECT.json` lists every component with its status and every hazard with the
line where it bites and the properties that cover it. At this commit
`AllureAPI::addTag` calls `TestCase::addTag`, which `Model/TestCase.h` does not
declare; the models take `addTag` to do what its first line does, append to
`tl_tags`.

## Modules

| Module | Models | Notes |
|---|---|---|
| `TestProgramModel` | the report tree as records, the search for the first RUNNING item, `TestSuite::addLabel` | operators only |
| `EventHandlers` | event handlers and property setters as functions from tree to tree | operators only; where a lookup is 0 the code throws |
| `GTestRun` | gtest as the library sees it | external; a phase and the results of the current test and suite |
| `LegacyReport` | the path the project's README registers: listener, `addStep`, setters, configuration, JSON documents | state machine, properties, inductive invariant |
| `ReportLog` | what the legacy report promises: a log of closed suites, one open suite, one open case | abstract specification, no searching |
| `LegacyRefinesLog` | the refinement mapping, by positions in the tree | `RefinesLog` |
| `Allure2Report` | the second path: `Allure2Listener` and the `tl_`/`g_` variables | state machine, properties |
| `BothReports` | both listeners on one gtest run | composition of `LegacyReport` and `Allure2Report` |
| `OutputFolder` | test programs that write to one output folder: `FileService`, the result file of `Allure2Listener`, UUID texts | state machine with failing calls and kills, properties, inductive invariant |
| `JSONValue` | one `JSONValue` of the RapidJSON adapter and its caches | state machine, properties, inductive invariant |
| `LeastElement` | a non-empty set of naturals has a least element | proof |
| `LegacyReportProofs` | what each handler does to a tree, and where running items are: `IndInv` | proofs |
| `LegacyHistoryProofs` | what the tree remembers of the run: `HistoryInv`, and the properties that follow from it | proofs |
| `LegacyRefinementProofs` | `LegacyReport` implements `ReportLog` | proofs |
| `Allure2ReportProofs` | all safety properties of `Allure2Report` | proofs |
| `BothReportsProofs` | the two reports agree on steps, verdicts and names | proofs |
| `OutputFolderProofs`, `JSONValueProofs` | all safety properties of these modules | proofs |
| `MC*` | instances for TLC | |

### State and actions of `LegacyReport`

* `suites` is `m_testProgram`'s vector of suites; `format` and `pattern` are
  the program's, `legacyResults` is `g_generateLegacyResults`.
* `frames` is the number of `addStep` calls on the C++ stack. It is what a
  nested step really is: the tree itself has no nesting below a case.
* `thrown` (history) counts the `addStep` calls of this test that an exception
  left; `error` is the exception that last escaped a handler; `files` are the
  documents of this run.
* One action per callback, `StepStart`/`StepReturn`/`StepThrow` for the three
  points at which `addStep` touches anything, one action per kind of setter.
  A callback whose lookup fails ends the run (`GAbort`), because the exception
  leaves `RUN_ALL_TESTS`. `OnTestSuiteEnd` closes the suite and then throws if
  the pattern has no `{}`. `OnTestProgramEnd(n)` is a loop whose
  `saveFile` fails after `n` suites.
* After `GAbort` or `OnTestProgramEnd` a new run may start in the same process
  with the tree as it was left.

### State and actions of `Allure2Report`

* The `tl_` variables and `g` are the variables of `AllureAPI.cpp`. `stack`
  holds the `Step` objects that are local variables of the active `addStep`
  calls, and `tl_activeStep` is an index into it: 0 is null, and an index past
  the end would be a pointer to an object that no longer exists.
* Items (tags, labels, attachments, parameters) are numbered in the order they
  are added, so that a loss, a duplicate or a wrong owner shows.
* A text that is empty counts as not set. Tests may set the empty case name, on which
  the listener falls back to gtest's; an empty suite name or label is not modelled.
* `result` is the file of the test that just ended. It is compared when it
  appears and forgotten when the next test starts.
* `RunIsCutShort` is an exception out of `OnTestEnd` (from
  `create_directories`) or out of another listener: `endTestCase` is not reached.

### State and actions of `BothReports`

Each action is one callback or one `AllureAPI` call and conjoins the actions of
the two modules that model its halves; gtest's state is shared. `Allure2Report`
is instantiated without items.

* Times are not compared. The legacy handlers read `std::time(0)`, in seconds; Allure 2
  reads milliseconds at another moment of the same call, before or after folders
  and files are written. No condition of the code depends on either. So
  `Allure2Report` is instantiated with a clock that stands still, only the legacy
  clock runs (`TimePasses`), and no property relates the readings of the two.
* `GTestEventListener` names a case `test_case_name() + "." + name()` (`Qualified`),
  `Allure2Listener` uses `name()` alone. Texts that tests set go to both.
* The constructor of `Allure2Listener` calls `setGenerateLegacyResults(false)`
  (`BuildListener`). It comes before the first run; the program may switch the legacy results
  before and after it. `asked` (history) is whether it turned them on afterwards.
* `setTestCaseName` outside of a test sets the thread-local name before its handler
  throws, and `Allure2Listener::OnTestEnd` may throw before the legacy listener is
  called (gtest calls the end callbacks in reverse order of registration) and
  before the name is cleared. `stray` (history) remembers either until a test ends;
  `ownName` (history) is the name the running test has set for itself.

### State and actions of `OutputFolder`

* `levels` is the number of levels of the output folder that exist. `disk` maps
  the names of files to whose report they hold, in which folder, and whether all
  of it was written. `pc[p]` and `level[p]` say where program `p` is between two
  calls of the operating system; each call is an action of its own, so that
  programs interleave between check and creation.
* A legacy program checks for each folder and creates it with `mkdir`, which fails
  if another program was faster; `create_directories` of the other path does not.
* `CallFails` is the operating system refusing a call, `Kill` the end of the process
  at any step, `Rerun` its next start. The stream of `FileService` throws when it
  fails, `Allure2Listener` looks at nothing and returns.
* A UUID is two groups of two digits to the base `Base`; in the code it is five
  groups of hexadecimal digits. The legacy text has leading zeros, the other
  has not; a text is a sequence of digits and dashes.
* On POSIX the backslash before the file name does not separate (`FileLevel`), and
  the first fragment of an absolute path is empty (`IsFolder`).

### State and actions of `JSONValue`

* `m_value` is a type, a block of RapidJSON's pool and a capacity; `heap` holds
  the blocks. The pool never frees, so a wrapper into an old block still reads
  and writes there. Whether a full block can grow in place is left open.
* `members` and `values` are the caches with their `Loaded` flags. A wrapper
  is a block and an index. A nested value is an identity that stands for its
  members; `read` says from which one the wrapper's own caches were loaded.
* `free` are the values the document owns until they are added.
* `mishaps` (history) names the calls after which caches and value may disagree:
  a name is repeated, a block moves under cached wrappers, a content is reset,
  an array is extended behind an unloaded cache, an element is moved under a
  wrapper that was read. Each is a hazard with its line. Without any of them
  `ReadsAgree` holds; `PointerStepsResolve` excepts only repeated names.

## Assumptions

* gtest (version 1.14) calls listeners on one thread in the order program,
  suite, test; passes over suites none of whose tests run; catches what the body
  of a test throws and records a failure; does not catch what a listener throws.
* Steps and setters are called on the thread that runs the tests.
* In `Allure2Report` both listeners are registered, so that the handlers
  `AllureAPI` calls find a running suite or case exactly when gtest is in one.
  `LegacyReport` shows that they do.
* The clocks do not go back. UUIDs are fresh. In `BothReports` the pattern is
  the default one, and `GTestEventListener`, the one the project's README registers,
  is registered before `Allure2Listener`. Names, labels and patterns are members of sets; that a
  pattern contains `{}` is all that is told of its text.

## Runs

Bounds are the constants `MaxSuites`, `MaxCases` (per suite), `MaxSteps` (per
case or test), `MaxDepth` (nested `addStep` calls), `MaxItems`, `MaxTime`;
`Depth` and `MaxFaults` of `OutputFolder`; `MaxElements`, `MaxBlocks` and
`MaxMishaps` (kinds of mishaps in one behaviour) of `JSONValue`.
They cap the tree of one run; the number of runs one after the other is not bounded.

| Run | Asks | Bounds |
|---|---|---|
| `legacy_tree` | Is there one running path, do handlers hit it, do verdicts and times agree, is only finished work published and left alone, and does the tree implement `ReportLog`? | 2 suites, 1 case, 2 steps, depth 2, patterns with and without `{}`, clock 0..1 |
| `legacy_labels` | The refinement and the uniqueness of labels for names, labels and TMS ids | 1 suite, 1 case, 2 names, 2 labels, both formats |
| `legacy_times` | Do neighbouring cases and their steps nest in time, does every case get its verdict (`FairSpec`)? | 1 suite, 2 cases, 2 steps, depth 2, clock 0..1 |
| `allure2_steps` | Is every step and item in the result once, is the pointer valid, do times nest and verdicts agree? | 2 steps, 2 items, depth 2, clock 0..1 |
| `allure2_texts` | Is the case name the test's own? | 2 gtest names, 1 user name, 1 label, 1 pattern |
| `both_reports` | Do the two reports tell the same of every step and every test, names included, and does the legacy one only appear when asked for? | 1 suite and 1 case per run, 1 gtest name, 1 user name, 3 steps, depth 2, legacy clock 0..1 |
| `output_folder` | Is the folder there, does nothing finished get lost or overwritten, does the race for the folder have a winner (`FairSpec`)? | 2 legacy programs and another, 2 levels, base 2, 2 faults, Windows, POSIX and an absolute POSIX path |
| `json_value` | Do caches and value agree, do JSON pointers resolve, does a built value have one owner? | 3 names, 1 nested value, 1 scalar, 3 elements, first block of 2, 2 blocks, 1 mishap |

Two of everything suffices for the search: a wrong choice needs one item that
was passed over and one that was taken. Three steps at depth two add the case
the handlers get wrong most easily, a step that threw, a nested one and one
after both; `both_reports` has it, and checks `StepsCloseInStartOrder` there as well.
A clock of two values tells "before" from "after". Three programs are a loser and a
winner of the race and one on the other path; base 2 already has texts of
different length, and two faults are a killed program and a failed call. Three
elements outgrow the first block once, and have a first, a last and a middle
one to remove. `output_folder` does not check for deadlock: the UUIDs are used up.

### What the repository states and the code does not do

Four runs have a counterexample as their result; `PROJECT.json` quotes the lines.

* `legacy_skip`: an integration test ends a case as skipped and expects
  `"skipped"`, but `GTestEventListener` reports a skipped test as failed.
* `allure2_suite_label`: a suite that sets no name should be labelled with its class,
  but is labelled with the name an earlier suite set (`g_suiteLabels` is never cleared).
* `json_remove`: `removeMember` swaps two wrappers so that "the last element is not
  lost"; if the removed member had been read, the last one now answers with its content.
* `output_folder_posix`: the reports should be in the configured folder; on POSIX
  the legacy ones are in the folder above it.

Further behaviours the models show without a run of their own: a step that threw
stays running and unknown in the legacy report (`RunningStepsBalance` counts
it), a suite's name is dropped from `fullName` after its first test, and on an
absolute POSIX path no legacy report is ever saved.

One more is a property of the model rather than a disagreement with
a text: the end of a nested step closes the outermost running one. The tree
then still has the right number of closed steps, in start order and with
monotone times and severities (`StepsCloseInStartOrder`), but not the ones
whose functions returned.

## Fairness

`FairSpec` of `LegacyReport` assumes weak fairness of `StepReturn`, of the end
of a test, a suite and a program. gtest runs tests one after the other on one
thread and each of these is its next step once the code before it is done; that
a step function returns or throws, and that a test ends, is an assumption about
the tests. No fairness is assumed of starting anything, of setters or of time.
Weak fairness is enough, because nothing disables these actions for good but
the exception that ends the run, which the property allows.

`FairSpec` of `OutputFolder` assumes weak fairness of every program's next step
while it saves a report: the operating system does not stop scheduling a
process. Nothing is assumed of faults, of reruns or of entering `saveFile`.

## Proofs

`tlapm` checks all proof modules. The assumptions are those the modules
state of their constants (`ModelAssumption`, `LegacyAssumption`, `Allure2Assumption`,
`BothAssumption`, `FolderAssumption`, `JSONAssumption`).

* **Legacy report.** `TypeOK`, `SingleRunningPath`, `HandlersFindTheirTarget`
  and `RunningStepsBalance` hold for all names, labels, patterns and bounds.
  None of them is inductive: the handlers look for the *first* RUNNING item
  of a sequence, and where it is depends on everything before it. `IndInv`
  replaces the search by positions: only the *last* suite and its *last* case may be
  open (`OpenPath`), and the steps of the open case are a finished prefix
  followed by `frames + thrown` running ones (`OpenSteps`). Lemma
  `SearchFindsOpenPath` turns positions back into what the search returns.
  The first lemmas say once per handler which item it changes and how; the
  proof that `Next` keeps `IndInv` has one lemma per action.
* **What the legacy report remembers.** Most properties compare items that
  were changed in different callbacks, so the invariant has to say what every item
  still tells of the callbacks it has seen. `HistoryInv` adds three parts to
  `IndInv`. `TreeHistory` says of every step, case and suite, open or finished,
  which times and which verdict it has, relative to the clock and to what is inside
  of it: a finished prefix of steps has growing starts, stops and severities, a finished case
  contains them, a case with a failed step is not passed, labels and names are
  unique. `ResultsRemember` ties gtest's results of the running test
  and suite to the tree: what the tree shows as failed, gtest counts as failed, so
  that the verdict written at the end cannot contradict what is inside.
  `LinksFollowClosing` orders the labels and links a suite gets. From it
  follow `StepsCloseInStartOrder`, `VerdictsPropagate`, `IntervalsNest` and
  `LabelsUnique`; `OnlyFinishedIsPublished` is a part of it. The action properties
  `FinishedIsFrozen` and `RunPublishesEverySuite` take the invariant and go through
  the actions: a handler changes the open item at its position and nothing before it.
* **The legacy report implements the log.** The mapping names the open suite, the
  open case and the closed steps by their positions, because
  `OpenPath` and `OpenSteps` put them there; the search is on the side of the
  code alone. Each handler is one action of `ReportLog` or a stutter: a step's start, for
  instance, is a stutter, since the log has closed steps only, and its
  end appends the first running step to the log whichever function returned.
* **Allure 2.** Every safety property holds for all constants. `PointerInv` says
  that the stack is a sequence and the pointer is 0 or its length.
  `RecordInv` numbers the `addStep` calls of a test: every number up to `opened`
  is on the stack, in order, or among the ended steps, once (`StepsNumbered`, which
  is `StepsReportedOnce` before the test ends); start and stop of each
  lie between the start of the test and the clock, and a nested step inside the one
  around it (`StepsTimed`); once a step that ended has failed, gtest's test has failed and no later
  step passes (`VerdictsRemembered`); each item is in the test's own list of its kind, or
  with a step that was open when it was added, on the stack or ended (`ItemsKept`).
  Only `OnTestEnd` writes a result, on an empty stack, so what the
  invariant says of the variables it says of the file (`NewResult`).
* **Both reports.** Each half takes only steps of its own module (`LegacyHalf`,
  `Allure2Half`), so the invariants of the two hold here, too; for the second an
  exception has to pass as many `addStep` calls of the one as of the other, the first
  part of the coupling. `StepsCoupled` says how the tree and the thread-local
  variables correspond although the handler closes the wrong steps: the legacy case has
  as many steps as are on the stack or ended, as many closed as returned (`Returned`
  counts them), and a step that returned as the k-th has the verdict of the k-th
  closed one (`StepsPaired`). A return closes the first running step, which by
  `OpenSteps` is the next after those; an exception closes none, and the step it
  leaves is not counted. `CaseCoupled` carries this over the end of the test, when the stack is
  empty, to the case and the result. `NameCoupled` says what the two names of the running
  test are: its own, or `Suite.test` and what `tl_case` had when the test
  began, which is empty unless `stray`. `SwitchCoupled` says that the legacy
  results are off, and no document is there, unless `asked`. From these follow
  `StepsAgree`, `CaseAndResultAgree`, `CaseNamesAgree` and `LegacyReportIsAskedFor`.
* **Output folder.** All safety properties, `FinishedReportsStay` among them,
  for any number of programs, any depth and any base. Two arguments
  meet. Folders are created from the top (`FoldersInOrder`), so that
  a program that reaches its file has all of them below it. And no two reports share
  a file: digits determine a number with or without leading zeros
  (`GroupTexts`), a dash is no digit and therefore separates
  (`DashSeparates`), so different UUIDs have different names
  (`NamesTellUUIDsApart`); a program that saves has a UUID that no other
  program and no finished report has (`OneUUIDEach`, `Settled`). The bound on
  lost reports is an argument about cardinalities, step by step.
* **JSON value.** All safety properties, for values of any size. `CachesCover`
  says that a loaded cache has every element, which needs different names only;
  `CachesMirror` that a cached wrapper stands for the element at its own
  position of the block in use. The proof of `removeMember` shows that
  swapping the wrappers is exactly what RapidJSON's move of the last element needs.
  `NamedIsThere` needs that a non-empty set of naturals has a least element (`LeastElement`).

Model-checked only:

* the liveness properties `StartedCasesGetVerdicts` and `SomeReportIsSaved`: liveness
  under fairness is outside of what TLAPS can prove;
* the four properties with a counterexample.

## Not modelled

* Calls of `AllureAPI` from worker threads, and the unlocked reference of
  `getTestSuiteLabels`: two threads that change one vector or map are undefined
  behaviour from the first overlap, after which nothing can be said, and the
  repository states nothing about threads that a model could be held to.
* The schema validator: its recursion happens inside RapidJSON, nothing
  in the report uses it, and what is left is a cache of remote schemas.
* The services factory, the interfaces and the unused classes have no behaviour.
* How the times of the two reports relate (seconds against milliseconds, read at
  different moments): within each report they are checked, between the two
  nothing is stated.
* The text of JSON pointers, of times and of the documents; `serialize` and
  `buildDocument` of the adapter, which RapidJSON does.
* The comparison operators of `Model/`, used by tests only.
* Test code, mocks, build files.

## Plan

1. *Done:* tree, handlers, legacy report, abstract log, Allure 2 report, both reports
   over one run, the output folder, the JSON value; the proofs above.
2. JSON pointers as a recursive function on fragments against a reference definition.
3. *Done:* the proofs of all safety properties of `LegacyReport`, `Allure2Report`,
   `OutputFolder`, `JSONValue` and `BothReports`, and of the refinement of `ReportLog`. Every
   safety property a run checks, but those with a counterexample, is a theorem.
