----------------------------- MODULE OutputFolder -----------------------------
(***************************************************************************)
(* Test programs that run at the same time and write their reports into    *)
(* one output folder: FileService for the legacy report, Allure2Listener   *)
(* for the other.  The folder is Depth levels deep; the operating system   *)
(* (external) creates a level only below an existing one.                  *)
(*                                                                         *)
(* A program may be killed at any step, and any call of the operating      *)
(* system may fail; faults counts both.  A program that ended may be       *)
(* started again.                                                          *)
(***************************************************************************)
EXTENDS Naturals, Sequences, FiniteSets, SequencesExt

CONSTANTS Programs, Legacy,   \* the test programs, and those of the legacy report
          Depth,              \* levels of the output folder
          Settings,           \* subset of {"windows", "posix", "posixAbsolute"}
          Base, UUIDs,        \* pairs of two-digit numbers to this base
          MaxFaults           \* bound

ASSUME FolderAssumption ==
  /\ Legacy \subseteq Programs
  /\ Depth \in Nat \ {0}
  /\ Settings \subseteq {"windows", "posix", "posixAbsolute"}
  /\ Base \in Nat \ {0}
  /\ UUIDs \subseteq (0..(Base * Base - 1)) \X (0..(Base * Base - 1))
  /\ MaxFaults \in Nat

VARIABLES setting,       \* the platform and whether the path is absolute
          levels,        \* the levels of the output folder that exist
          disk,          \* the files: whose content, in which level, all of it?
          pc, level,     \* of every program: what it does next, and at which level
          uuid,          \* of the report it saves
          drawn,         \* the UUIDs in use
          saved,         \* the reports whose saving returned
          faults

vars == <<setting, levels, disk, pc, level, uuid, drawn, saved, faults>>

-----------------------------------------------------------------------------
(***************************************************************************)
(* The names of the files.  A UUID is two groups here, five in the code.   *)
(***************************************************************************)
Dash == Base

Padded(n)  == <<n \div Base, n % Base>>
Minimal(n) == IF n < Base THEN <<n>> ELSE Padded(n)

\* Mutant: the groups are not separated.
Allure2TextNoDash(u) == Minimal(u[1]) \o Minimal(u[2])

\* std::hex writes no leading zeros.
Allure2Text(u) == Minimal(u[1]) \o <<Dash>> \o Minimal(u[2])

LegacyText(u) == Padded(u[1]) \o <<Dash>> \o Padded(u[2])

FileName(p, u) == IF p \in Legacy THEN <<"suite", LegacyText(u)>>
                                  ELSE <<"result", Allure2Text(u)>>

\* The builder joins folder and file with a backslash.  It separates them when
\* folders are created, but to open the file the path is taken as it is: on
\* POSIX the backslash, and the last folder before it, belong to the file name.
FileLevel(p) == IF p \in Legacy /\ setting # "windows" THEN Depth - 1 ELSE Depth

-----------------------------------------------------------------------------
Init == /\ setting \in Settings
        /\ levels \in 0..Depth
        /\ disk = <<>>
        /\ pc = [p \in Programs |-> "idle"]
        /\ level = [p \in Programs |-> 1]
        /\ uuid = [p \in Programs |-> <<0, 0>>]
        /\ drawn = {}
        /\ saved = {}
        /\ faults = 0

Goto(p, step) == pc' = [pc EXCEPT ![p] = step]

\* saveFile, or OnTestEnd from the folder to the file, is entered.
SaveFile(p) ==
  /\ pc[p] = "idle"
  /\ \E u \in UUIDs \ drawn : uuid' = [uuid EXCEPT ![p] = u] /\ drawn' = drawn \cup {u}
  /\ level' = [level EXCEPT ![p] = 1]
  /\ Goto(p, IF p \in Legacy THEN "exists" ELSE "directories")
  /\ UNCHANGED <<setting, levels, disk, saved, faults>>

\* The folder of level[p] is there: go on with the next, then with the file.
NextLevel(p, step) ==
  IF level[p] = Depth THEN Goto(p, "open") /\ UNCHANGED level
                      ELSE Goto(p, step) /\ level' = [level EXCEPT ![p] = @ + 1]

\* The first fragment of an absolute POSIX path is empty and names no folder.
IsFolder(l) == setting # "posixAbsolute" /\ l <= levels

\* Mutant: the folder is created without a look whether it exists.
FolderExistsNever(p) ==
  /\ pc[p] = "exists"
  /\ Goto(p, "mkdir") /\ UNCHANGED level
  /\ UNCHANGED <<setting, levels, disk, uuid, drawn, saved, faults>>

FolderExists(p) ==
  /\ pc[p] = "exists"
  /\ IF IsFolder(level[p]) THEN NextLevel(p, "exists") ELSE Goto(p, "mkdir") /\ UNCHANGED level
  /\ UNCHANGED <<setting, levels, disk, uuid, drawn, saved, faults>>

\* Mutant: the program goes on when its folder could not be created.
CreateFolderUnchecked(p) ==
  /\ pc[p] = "mkdir"
  /\ levels' = IF level[p] = levels + 1 /\ setting # "posixAbsolute" THEN level[p] ELSE levels
  /\ NextLevel(p, "exists")
  /\ UNCHANGED <<setting, disk, uuid, drawn, saved, faults>>

\* mkdir fails if the folder exists by now; the exception leaves RUN_ALL_TESTS.
CreateFolder(p) ==
  /\ pc[p] = "mkdir"
  /\ IF level[p] = levels + 1 /\ setting # "posixAbsolute"
     THEN levels' = level[p] /\ NextLevel(p, "exists")
     ELSE Goto(p, "ended") /\ UNCHANGED <<levels, level>>
  /\ UNCHANGED <<setting, disk, uuid, drawn, saved, faults>>

\* Mutant: a folder is created without a look whether it exists, on top of it.
CreateDirectoriesBlindly(p) ==
  /\ pc[p] = "directories"
  /\ levels' = levels + 1
  /\ NextLevel(p, "directories")
  /\ UNCHANGED <<setting, disk, uuid, drawn, saved, faults>>

\* std::filesystem::create_directories takes a folder that exists by now as it is.
CreateDirectories(p) ==
  /\ pc[p] = "directories"
  /\ levels' = IF level[p] <= levels THEN levels ELSE level[p]
  /\ NextLevel(p, "directories")
  /\ UNCHANGED <<setting, disk, uuid, drawn, saved, faults>>

File(p, whole) == [of |-> uuid[p], level |-> FileLevel(p), whole |-> whole]

Put(name, file) == disk' = [n \in DOMAIN disk \cup {name} |-> IF n = name THEN file ELSE disk[n]]

Return(p) == /\ Goto(p, "idle")
             /\ saved' = saved \cup {[by |-> p, uuid |-> uuid[p]]}

\* Mutant: neither stream is checked.
StreamFailsUnchecked(p) == Return(p)

\* FileService has its stream throw; Allure2Listener looks at nothing.
StreamFails(p) == IF p \in Legacy THEN Goto(p, "ended") /\ UNCHANGED saved ELSE Return(p)

\* A file that exists is truncated.
Open(p) ==
  /\ pc[p] = "open"
  /\ IF FileLevel(p) <= levels
     THEN Put(FileName(p, uuid[p]), File(p, FALSE)) /\ Goto(p, "write") /\ UNCHANGED saved
     ELSE StreamFails(p) /\ UNCHANGED disk
  /\ UNCHANGED <<setting, levels, level, uuid, drawn, faults>>

Write(p) ==
  /\ pc[p] = "write"
  /\ Put(FileName(p, uuid[p]), File(p, TRUE))
  /\ Return(p)
  /\ UNCHANGED <<setting, levels, level, uuid, drawn, faults>>

\* The operating system refuses a call, for lack of space or of permission.
CallFails(p) ==
  /\ faults < MaxFaults
  /\ \/ pc[p] \in {"mkdir", "directories"} /\ Goto(p, "ended") /\ UNCHANGED saved
     \/ pc[p] \in {"open", "write"} /\ StreamFails(p)
  /\ faults' = faults + 1
  /\ UNCHANGED <<setting, levels, disk, level, uuid, drawn>>

Kill(p) ==
  /\ faults < MaxFaults
  /\ pc[p] \notin {"idle", "ended"}
  /\ Goto(p, "ended")
  /\ faults' = faults + 1
  /\ UNCHANGED <<setting, levels, disk, level, uuid, drawn, saved>>

Rerun(p) ==
  /\ pc[p] = "ended"
  /\ Goto(p, "idle")
  /\ UNCHANGED <<setting, levels, disk, level, uuid, drawn, saved, faults>>

Proceed(p) == FolderExists(p) \/ CreateFolder(p) \/ CreateDirectories(p) \/ Open(p) \/ Write(p)

Next == \E p \in Programs : SaveFile(p) \/ Proceed(p) \/ CallFails(p) \/ Kill(p) \/ Rerun(p)

Spec == Init /\ [][Next]_vars

\* A program that saves a report goes on until it has done so or ends.
FairSpec == Spec /\ \A p \in Programs : WF_vars(Proceed(p))

-----------------------------------------------------------------------------
(***************************************************************************)
(* Properties.                                                             *)
(***************************************************************************)
Steps == {"idle", "exists", "mkdir", "directories", "open", "write", "ended"}

Saving(p) == pc[p] \notin {"idle", "ended"}

TypeOK == /\ setting \in Settings
          /\ levels \in 0..Depth
          /\ \A n \in DOMAIN disk :
               disk[n] \in [of : UUIDs, level : 0..Depth, whole : BOOLEAN]
          /\ pc \in [Programs -> Steps]
          /\ level \in [Programs -> 1..Depth]
          /\ uuid \in [Programs -> Nat \X Nat]
          /\ \A p \in Programs : Saving(p) => uuid[p] \in drawn
          /\ drawn \subseteq UUIDs
          /\ saved \subseteq [by : Programs, uuid : UUIDs]
          /\ faults \in 0..MaxFaults

\* However the programs take turns at checking for folders and creating them,
\* the one that opens its file (saveFile, OnTestEnd) finds the folder.
FolderIsThereWhenOpened ==
  \A p \in Programs : pc[p] = "open" => FileLevel(p) <= levels

OnDisk(r) == LET name == FileName(r.by, r.uuid)
             IN  /\ name \in DOMAIN disk
                 /\ disk[name].of = r.uuid
                 /\ disk[name].whole

\* A saveFile that returned has written its report, and the report stays, whatever
\* the other programs write afterwards; Allure2Listener loses a report without a
\* word only where a call failed, and one for each such call.
Lost == { r \in saved : ~OnDisk(r) }

OnlyFailedCallsLoseReports == /\ \A r \in Lost : r.by \notin Legacy
                              /\ Cardinality(Lost) <= faults

\* The text of a fresh UUID never names a finished report of another program
\* although its groups differ in length: nothing finished is truncated.
FinishedReportsStay ==
  [][\A n \in DOMAIN disk : disk[n].whole => n \in DOMAIN disk' /\ disk'[n] = disk[n]]_vars

\* The race for the folders has a winner: a program that loses it because the
\* folder it wants to create exists by now ends without its report, but if no
\* call fails and nothing is killed, some report is saved.
SomeReportIsSaved ==
  (\E p \in Programs : Saving(p))
    ~> (saved # {} \/ faults > 0 \/ setting = "posixAbsolute")

-----------------------------------------------------------------------------
(***************************************************************************)
(* Stated by the repository and not met by the code.                       *)
(***************************************************************************)
\* "The folder where JSON Allure reports will be generated can be defined by using
\* the AllureAPI::setOutputFolder(...) method" (README.md): every file is in that
\* folder.  On POSIX the legacy files are in the folder above it.
ReportsAreInOutputFolder == \A n \in DOMAIN disk : disk[n].level = Depth

-----------------------------------------------------------------------------
(***************************************************************************)
(* The inductive invariant behind them: a program creates folders from the *)
(* top, and writes under a UUID that nothing else is known by.             *)
(***************************************************************************)
FoldersInOrder ==
  \A p \in Programs :
    /\ pc[p] \in {"exists", "mkdir", "directories"} => level[p] <= levels + 1
    /\ pc[p] \in {"open", "write"} => levels = Depth

\* u is in use, and no program that is saving has it.
Settled(u) == u \in drawn /\ \A p \in Programs : Saving(p) => uuid[p] # u

OneUUIDEach == \A p, q \in Programs : Saving(p) /\ Saving(q) /\ p # q => uuid[p] # uuid[q]

FilesAreNamed == \A n \in DOMAIN disk :
                   /\ disk[n].of \in drawn
                   /\ \E p \in Programs : n = FileName(p, disk[n].of)
                   /\ disk[n].whole => Settled(disk[n].of)

SavedIsSettled == \A r \in saved : Settled(r.uuid)

IndInv == /\ TypeOK
          /\ FoldersInOrder
          /\ OneUUIDEach
          /\ FilesAreNamed
          /\ SavedIsSettled
          /\ IsFiniteSet(saved)
          /\ OnlyFailedCallsLoseReports
=============================================================================
