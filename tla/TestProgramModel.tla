-------------------------- MODULE TestProgramModel --------------------------
(***************************************************************************)
(* The report tree of the library (Model/TestProgram, TestSuite, TestCase, *)
(* Step, Label, Link): a program owns a sequence of suites, a suite a      *)
(* sequence of cases, a case a sequence of steps.  A suite, a case and a   *)
(* step are all "items": they have a start, a stop, a stage and a status.  *)
(* Everything here is a value; the state machines keep the tree in a       *)
(* variable of theirs.                                                     *)
(***************************************************************************)
EXTENDS Naturals, Sequences, SequencesExt

CONSTANTS Names,     \* the strings users and gtest give: names, TMS ids, label values
          Labels,    \* the label names users set (epic, severity, custom ones)
          Patterns,  \* the TMS link patterns a program may be configured with
          Slotted    \* those of them that contain the placeholder {}

ASSUME ModelAssumption == Slotted \subseteq Patterns

(***************************************************************************)
(* Model/Status.h, Model/Stage.h, Model/Format.h and Model/StepType.h.     *)
(***************************************************************************)
Status    == {"UNKNOWN", "PASSED", "FAILED", "BROKEN", "SKIPPED"}
Stage     == {"PENDING", "SCHEDULED", "RUNNING", "FINISHED", "INTERRUPTED"}
Format    == {"DEFAULT", "ALLURE_FOR_JENKINS"}
StepType  == {"ACTION_STEP", "EXPECTED_RESULT_STEP"}

Label == [name : Labels, value : Names]
Link  == [name : Names, pattern : Patterns]   \* url = pattern with {} replaced by name

Step == [type : StepType,
         start : Nat, stop : Nat, stage : Stage, status : Status]

TestCase == [name : Names, steps : Seq(Step),
             start : Nat, stop : Nat, stage : Stage, status : Status]

TestSuite == [uuid : Nat, name : Names, tmsId : Names, format : Format,
              labels : Seq(Label), links : Seq(Link), cases : Seq(TestCase),
              start : Nat, stop : Nat, stage : Stage, status : Status]

(***************************************************************************)
(* Items as the start handlers create them: the constructors' stop = 0,    *)
(* then RUNNING and UNKNOWN.  A suite's TMS id is its name until set.      *)
(***************************************************************************)
NewStep(type, now) ==
  [type |-> type, start |-> now, stop |-> 0,
   stage |-> "RUNNING", status |-> "UNKNOWN"]

NewCase(name, now) ==
  [name |-> name, steps |-> <<>>, start |-> now, stop |-> 0,
   stage |-> "RUNNING", status |-> "UNKNOWN"]

NewSuite(uuid, name, format, now) ==
  [uuid |-> uuid, name |-> name, tmsId |-> name, format |-> format,
   labels |-> <<>>, links |-> <<>>, cases |-> <<>>, start |-> now, stop |-> 0,
   stage |-> "RUNNING", status |-> "UNKNOWN"]

\* Mutant: setStop is forgotten.
ClosedNoStop(item, now, status) ==
  [item EXCEPT !.stage = "FINISHED", !.status = status]

\* What every end handler does to the item it found.
Closed(item, now, status) ==
  [item EXCEPT !.stop = now, !.stage = "FINISHED", !.status = status]

(***************************************************************************)
(* The search every handler repeats: the first item whose stage is         *)
(* RUNNING, 0 where the code throws its NoRunning...Exception.             *)
(***************************************************************************)
\* Mutant: any item that was started counts.
IsStarted(item) == item.stage # "PENDING"

IsRunning(item) == item.stage = "RUNNING"

\* Mutant: the innermost of nested items is taken.
LastRunning(items) == SelectLastInSeq(items, IsRunning)

FirstRunning(items) == SelectInSeq(items, IsRunning)

\* Mutant: a label is always appended.
AppendLabel(labels, label) == Append(labels, label)

\* Mutant: the new label takes the place of all others.
ReplaceLabels(labels, label) == <<label>>

\* TestSuite::addLabel: overwrite the label of that name, or append it.
AddLabel(labels, label) ==
  LET i == SelectInSeq(labels, LAMBDA l : l.name = label.name)
  IN  IF i # 0 THEN [labels EXCEPT ![i] = label] ELSE Append(labels, label)
=============================================================================
