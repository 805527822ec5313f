--------------------------- MODULE OutputFolderProofs ---------------------------
(***************************************************************************)
(* Reports that several programs write to one folder do not disturb each   *)
(* other, for any number of programs, any depth of the folder and any base *)
(* of the digits: the texts of two UUIDs differ although leading zeros are *)
(* left out, so every program has a file of its own.                       *)
(***************************************************************************)
EXTENDS OutputFolder, SequenceTheorems, FiniteSetTheorems, TLAPS

Digit  == 0..(Base - 1)
Symbol == 0..Base
Number == 0..(Base * Base - 1)

(***************************************************************************)
(* The texts.                                                              *)
(***************************************************************************)
LEMMA DivMod ==
  ASSUME NEW n \in Nat, NEW b \in Nat \ {0}
  PROVE  /\ n = b * (n \div b) + (n % b)
         /\ n \div b \in Nat
         /\ n % b \in 0..(b - 1)
  OBVIOUS

LEMMA TimesIsMonotonic ==
  ASSUME NEW a \in Nat, NEW b \in Nat, NEW c \in Nat, a >= b
  PROVE  c * a >= c * b
<1>1. PICK d \in Nat : a = b + d
  <2>1. a - b \in Nat /\ a = b + (a - b)
    OBVIOUS
  <2>. QED BY <2>1
<1>2. c * a = c * b + c * d /\ c * d \in Nat
  BY <1>1
<1>. QED BY <1>2

LEMMA TwoDigits ==
  ASSUME NEW n \in 0..(Base * Base - 1)
  PROVE  /\ n \div Base \in 0..(Base - 1)
         /\ n % Base \in 0..(Base - 1)
<1>1. Base \in Nat \ {0} /\ n \in Nat /\ n < Base * Base
  BY FolderAssumption
<1>2. n \div Base \in Nat /\ n % Base \in 0..(Base-1) /\ n = Base * (n \div Base) + (n % Base)
  BY <1>1, DivMod
<1>3. n \div Base < Base
  <2>1. SUFFICES ASSUME n \div Base >= Base PROVE FALSE
     BY <1>1, <1>2
  <2>2. Base * (n \div Base) >= Base * Base
     BY <1>1, <1>2, <2>1, TimesIsMonotonic
  <2>3. Base * Base \in Nat /\ Base * (n \div Base) \in Nat
     BY <1>1, <1>2
  <2>. QED BY <1>2, <2>2, <2>3
<1>. QED BY <1>1, <1>2, <1>3

LEMMA Dashed ==
  ASSUME NEW s \in Seq(Digit), NEW t \in Seq(Digit)
  PROVE  LET d == s \o <<Dash>> \o t
         IN  /\ d \in Seq(Symbol)
             /\ Len(d) = Len(s) + 1 + Len(t)
             /\ \A i \in 1..Len(s) : d[i] = s[i]
             /\ d[Len(s) + 1] = Dash
             /\ \A i \in 1..Len(t) : d[Len(s) + 1 + i] = t[i]
<1> DEFINE c == s \o <<Dash>>
<1>1. Base \in Nat \ {0}
  BY FolderAssumption
<1>2. s \in Seq(Symbol) /\ t \in Seq(Symbol) /\ <<Dash>> \in Seq(Symbol)
  <2>1. Digit \subseteq Symbol /\ Dash \in Symbol
    BY <1>1 DEF Digit, Symbol, Dash
  <2>. QED BY <2>1, SeqMonotonic
<1>3. /\ c \in Seq(Symbol)
      /\ Len(c) = Len(s) + 1
      /\ \A i \in 1..(Len(s) + 1) : c[i] = IF i <= Len(s) THEN s[i] ELSE <<Dash>>[i - Len(s)]
  BY <1>2, ConcatProperties
<1>. HIDE DEF c
<1>4. /\ c \o t \in Seq(Symbol)
      /\ Len(c \o t) = Len(c) + Len(t)
      /\ \A i \in 1..(Len(c) + Len(t)) : (c \o t)[i] = IF i <= Len(c) THEN c[i] ELSE t[i - Len(c)]
  BY <1>2, <1>3, ConcatProperties
<1>5. Len(s) \in Nat /\ Len(t) \in Nat
  BY LenProperties
<1>6. c[Len(s) + 1] = Dash
  BY <1>3, <1>5
<1>. QED BY <1>3, <1>4, <1>5, <1>6 DEF c

LEMMA DashSeparates ==
  ASSUME NEW s \in Seq(Digit), NEW t \in Seq(Digit),
         NEW u \in Seq(Digit), NEW v \in Seq(Digit),
         s \o <<Dash>> \o t = u \o <<Dash>> \o v
  PROVE  s = u /\ t = v
<1>1. Base \in Nat \ {0} /\ Dash \notin Digit
  BY FolderAssumption DEF Dash, Digit
<1>2. Len(s) \in Nat /\ Len(t) \in Nat /\ Len(u) \in Nat /\ Len(v) \in Nat
  BY LenProperties
<1>3. /\ \A i \in 1..Len(s) : s[i] \in Digit
      /\ \A i \in 1..Len(u) : u[i] \in Digit
  BY ElementOfSeq
<1> DEFINE d == s \o <<Dash>> \o t
<1>4. /\ Len(d) = Len(s) + 1 + Len(t)
      /\ \A i \in 1..Len(s) : d[i] = s[i]
      /\ d[Len(s) + 1] = Dash
      /\ \A i \in 1..Len(t) : d[Len(s) + 1 + i] = t[i]
  BY Dashed
<1> DEFINE e == u \o <<Dash>> \o v
<1>5. /\ Len(e) = Len(u) + 1 + Len(v)
      /\ \A i \in 1..Len(u) : e[i] = u[i]
      /\ e[Len(u) + 1] = Dash
      /\ \A i \in 1..Len(v) : e[Len(u) + 1 + i] = v[i]
  BY Dashed
<1>5a. d = e
  OBVIOUS
<1>. HIDE DEF d, e
<1>6. Len(s) = Len(u)
  <2>1. ASSUME Len(s) < Len(u) PROVE FALSE
    <3>1. Len(s) + 1 \in 1..Len(u)
      BY <2>1, <1>2
    <3>. QED BY <3>1, <1>1, <1>3, <1>4, <1>5, <1>5a
  <2>2. ASSUME Len(u) < Len(s) PROVE FALSE
    <3>1. Len(u) + 1 \in 1..Len(s)
      BY <2>2, <1>2
    <3>. QED BY <3>1, <1>1, <1>3, <1>4, <1>5, <1>5a
  <2>. QED BY <2>1, <2>2, <1>2
<1>7. s = u
  BY <1>2, <1>4, <1>5, <1>5a, <1>6, SeqEqual
<1>8. t = v
  <2>1. Len(t) = Len(v)
    BY <1>2, <1>4, <1>5, <1>5a, <1>6
  <2>2. \A i \in 1..Len(t) : t[i] = v[i]
    BY <2>1, <1>4, <1>5, <1>5a, <1>6
  <2>. QED BY <2>1, <2>2, SeqEqual
<1>. QED BY <1>7, <1>8

\* The digits of a group, with or without a leading zero, determine it.
LEMMA GroupTexts ==
  ASSUME NEW m \in Number, NEW n \in Number
  PROVE  /\ Padded(m) \in Seq(Digit) /\ Minimal(m) \in Seq(Digit)
         /\ Padded(m) = Padded(n) => m = n
         /\ Minimal(m) = Minimal(n) => m = n
<1>1. Base \in Nat \ {0} /\ m \in Nat /\ n \in Nat
  BY FolderAssumption DEF Number
<1>2. Padded(m) \in Seq(Digit)
  BY TwoDigits DEF Padded, Digit, Number
<1>3. Minimal(m) \in Seq(Digit)
  <2>1. m < Base => m \in Digit
    BY <1>1 DEF Digit
  <2>. QED BY <1>2, <2>1 DEF Minimal
<1>4. Padded(m) = Padded(n) => m = n
  <2>1. Padded(m) = Padded(n) => m \div Base = n \div Base /\ m % Base = n % Base
    BY DEF Padded
  <2>. QED BY <1>1, <2>1, DivMod
<1>5. Minimal(m) = Minimal(n) => m = n
  BY <1>4 DEF Minimal, Padded
<1>. QED BY <1>2, <1>3, <1>4, <1>5

\* Two UUIDs have different file names (generateUUID, generateUuidV4).
LEMMA NamesTellUUIDsApart ==
  ASSUME NEW p \in Programs, NEW q \in Programs, NEW u \in UUIDs, NEW v \in UUIDs,
         FileName(p, u) = FileName(q, v)
  PROVE  u = v
<1>1. /\ u = <<u[1], u[2]>> /\ u[1] \in Number /\ u[2] \in Number
      /\ v = <<v[1], v[2]>> /\ v[1] \in Number /\ v[2] \in Number
  BY FolderAssumption DEF Number
<1>2. ASSUME LegacyText(u) = LegacyText(v) PROVE u = v
  <2>1. /\ Padded(u[1]) \in Seq(Digit) /\ Padded(u[2]) \in Seq(Digit)
        /\ Padded(v[1]) \in Seq(Digit) /\ Padded(v[2]) \in Seq(Digit)
    BY <1>1, GroupTexts
  <2>2. Padded(u[1]) \o <<Dash>> \o Padded(u[2]) = Padded(v[1]) \o <<Dash>> \o Padded(v[2])
    BY <1>2 DEF LegacyText
  <2>3. Padded(u[1]) = Padded(v[1]) /\ Padded(u[2]) = Padded(v[2])
    <3> DEFINE a == Padded(u[1])
               b == Padded(u[2])
               c == Padded(v[1])
               d == Padded(v[2])
    <3>1. /\ a \in Seq(Digit) /\ b \in Seq(Digit) /\ c \in Seq(Digit) /\ d \in Seq(Digit)
          /\ a \o <<Dash>> \o b = c \o <<Dash>> \o d
      BY <2>1, <2>2
    <3>. HIDE DEF a, b, c, d
    <3>2. a = c /\ b = d
      BY <3>1, DashSeparates
    <3>. QED BY <3>2 DEF a, b, c, d
  <2>. QED BY <1>1, <2>3, GroupTexts
<1>3. ASSUME Allure2Text(u) = Allure2Text(v) PROVE u = v
  <2>1. /\ Minimal(u[1]) \in Seq(Digit) /\ Minimal(u[2]) \in Seq(Digit)
        /\ Minimal(v[1]) \in Seq(Digit) /\ Minimal(v[2]) \in Seq(Digit)
    BY <1>1, GroupTexts
  <2>2. Minimal(u[1]) \o <<Dash>> \o Minimal(u[2]) = Minimal(v[1]) \o <<Dash>> \o Minimal(v[2])
    BY <1>3 DEF Allure2Text
  <2>3. Minimal(u[1]) = Minimal(v[1]) /\ Minimal(u[2]) = Minimal(v[2])
    <3> DEFINE a == Minimal(u[1])
               b == Minimal(u[2])
               c == Minimal(v[1])
               d == Minimal(v[2])
    <3>1. /\ a \in Seq(Digit) /\ b \in Seq(Digit) /\ c \in Seq(Digit) /\ d \in Seq(Digit)
          /\ a \o <<Dash>> \o b = c \o <<Dash>> \o d
      BY <2>1, <2>2
    <3>. HIDE DEF a, b, c, d
    <3>2. a = c /\ b = d
      BY <3>1, DashSeparates
    <3>. QED BY <3>2 DEF a, b, c, d
  <2>. QED BY <1>1, <2>3, GroupTexts
<1>4. \/ LegacyText(u) = LegacyText(v)
      \/ Allure2Text(u) = Allure2Text(v)
  BY DEF FileName
<1>. QED BY <1>2, <1>3, <1>4

(***************************************************************************)
(* The invariant.                                                          *)
(***************************************************************************)
LEMMA InitEstablishesIndInv == Init => IndInv
<1>. SUFFICES ASSUME Init PROVE IndInv
  OBVIOUS
<1>1. TypeOK
  BY FolderAssumption DEF Init, TypeOK, Saving, Steps
<1>2. FoldersInOrder /\ OneUUIDEach /\ FilesAreNamed /\ SavedIsSettled
  BY FolderAssumption DEF Init, FoldersInOrder, OneUUIDEach, FilesAreNamed, SavedIsSettled, Saving
<1>3. IsFiniteSet(saved) /\ OnlyFailedCallsLoseReports
  <2>1. saved = {} /\ Lost = {} /\ faults = 0
    BY DEF Init, Lost
  <2>. QED BY <2>1, FS_EmptySet DEF OnlyFailedCallsLoseReports
<1>. QED BY <1>1, <1>2, <1>3 DEF IndInv

FilesInv == /\ OneUUIDEach
            /\ FilesAreNamed
            /\ SavedIsSettled
            /\ IsFiniteSet(saved)
            /\ OnlyFailedCallsLoseReports

\* Steps that touch no file and return from no call.
LEMMA FoldersOnly ==
  ASSUME IndInv,
         disk' = disk, uuid' = uuid, drawn' = drawn, saved' = saved,
         faults' \in Nat, faults' >= faults,
         \A p \in Programs : Saving(p)' => Saving(p)
  PROVE  FilesInv'
<1>1. OneUUIDEach'
  BY DEF IndInv, OneUUIDEach
<1>2. FilesAreNamed'
  BY DEF IndInv, FilesAreNamed, Settled
<1>3. SavedIsSettled'
  BY DEF IndInv, SavedIsSettled, Settled
<1>4. IsFiniteSet(saved)'
  BY DEF IndInv
<1>5. OnlyFailedCallsLoseReports'
  <2>1. Lost' = Lost
    BY DEF Lost, OnDisk
  <2>2. Lost \subseteq saved
    BY DEF Lost
  <2>3. Cardinality(Lost) \in Nat
    BY <2>2, FS_Subset, FS_CardinalityType DEF IndInv
  <2>4. faults \in Nat
    BY FolderAssumption DEF IndInv, TypeOK
  <2>. QED BY <2>1, <2>3, <2>4 DEF IndInv, OnlyFailedCallsLoseReports
<1>. QED BY <1>1, <1>2, <1>3, <1>4, <1>5 DEF FilesInv

LEMMA FolderExistsKeepsIndInv ==
  ASSUME IndInv, NEW p \in Programs, FolderExists(p)
  PROVE  IndInv'
<1>1. TypeOK'
  BY FolderAssumption DEF IndInv, TypeOK, FolderExists, NextLevel, Goto, IsFolder, Saving, Steps
<1>2. FoldersInOrder'
  BY FolderAssumption DEF IndInv, TypeOK, FoldersInOrder, FolderExists, NextLevel, Goto, IsFolder
<1>3. FilesInv'
  BY FoldersOnly, FolderAssumption DEF IndInv, TypeOK, FolderExists, NextLevel, Goto, Saving
<1>. QED BY <1>1, <1>2, <1>3 DEF IndInv, FilesInv

LEMMA CreateFolderKeepsIndInv ==
  ASSUME IndInv, NEW p \in Programs, CreateFolder(p)
  PROVE  IndInv'
<1>1. TypeOK'
  BY FolderAssumption DEF IndInv, TypeOK, CreateFolder, NextLevel, Goto, Saving, Steps
<1>2. FoldersInOrder'
  BY FolderAssumption DEF IndInv, TypeOK, FoldersInOrder, CreateFolder, NextLevel, Goto
<1>3. FilesInv'
  BY FoldersOnly, FolderAssumption DEF IndInv, TypeOK, CreateFolder, NextLevel, Goto, Saving
<1>. QED BY <1>1, <1>2, <1>3 DEF IndInv, FilesInv

LEMMA CreateDirectoriesKeepsIndInv ==
  ASSUME IndInv, NEW p \in Programs, CreateDirectories(p)
  PROVE  IndInv'
<1>1. TypeOK'
  BY FolderAssumption DEF IndInv, TypeOK, CreateDirectories, NextLevel, Goto, Saving, Steps
<1>2. FoldersInOrder'
  BY FolderAssumption DEF IndInv, TypeOK, FoldersInOrder, CreateDirectories, NextLevel, Goto
<1>3. FilesInv'
  BY FoldersOnly, FolderAssumption DEF IndInv, TypeOK, CreateDirectories, NextLevel, Goto, Saving
<1>. QED BY <1>1, <1>2, <1>3 DEF IndInv, FilesInv

LEMMA KillKeepsIndInv ==
  ASSUME IndInv, NEW p \in Programs, Kill(p)
  PROVE  IndInv'
<1>1. TypeOK'
  BY FolderAssumption DEF IndInv, TypeOK, Kill, Goto, Saving, Steps
<1>2. FoldersInOrder'
  BY DEF IndInv, TypeOK, FoldersInOrder, Kill, Goto
<1>3. FilesInv'
  BY FoldersOnly, FolderAssumption DEF IndInv, TypeOK, Kill, Goto, Saving
<1>. QED BY <1>1, <1>2, <1>3 DEF IndInv, FilesInv

LEMMA RerunKeepsIndInv ==
  ASSUME IndInv, NEW p \in Programs, Rerun(p)
  PROVE  IndInv'
<1>1. TypeOK'
  BY DEF IndInv, TypeOK, Rerun, Goto, Saving, Steps
<1>2. FoldersInOrder'
  BY DEF IndInv, TypeOK, FoldersInOrder, Rerun, Goto
<1>3. FilesInv'
  BY FoldersOnly, FolderAssumption DEF IndInv, TypeOK, Rerun, Goto, Saving
<1>. QED BY <1>1, <1>2, <1>3 DEF IndInv, FilesInv

LEMMA SaveFileKeepsIndInv ==
  ASSUME IndInv, NEW p \in Programs, SaveFile(p)
  PROVE  IndInv'
<1>1. PICK u \in UUIDs \ drawn : uuid' = [uuid EXCEPT ![p] = u] /\ drawn' = drawn \cup {u}
  BY DEF SaveFile
<1>2. u \in Nat \X Nat
  BY FolderAssumption
<1>3. TypeOK'
  BY <1>1, <1>2, FolderAssumption DEF IndInv, TypeOK, SaveFile, Goto, Saving, Steps
<1>4. FoldersInOrder'
  BY FolderAssumption DEF IndInv, TypeOK, FoldersInOrder, SaveFile, Goto
<1>5. /\ uuid'[p] = u
      /\ \A q \in Programs : q # p => uuid'[q] = uuid[q] /\ (Saving(q)' <=> Saving(q))
      /\ \A q \in Programs : Saving(q) => uuid[q] # u
  BY <1>1 DEF IndInv, TypeOK, SaveFile, Goto, Saving
<1>6. OneUUIDEach'
  BY <1>5 DEF IndInv, OneUUIDEach
<1>7. \A w : Settled(w) => Settled(w)'
  BY <1>1, <1>5 DEF Settled
<1>8. FilesAreNamed' /\ SavedIsSettled'
  BY <1>1, <1>7 DEF IndInv, FilesAreNamed, SavedIsSettled, SaveFile
<1>9. IsFiniteSet(saved)' /\ OnlyFailedCallsLoseReports'
  BY DEF IndInv, OnlyFailedCallsLoseReports, Lost, OnDisk, SaveFile
<1>. QED BY <1>3, <1>4, <1>6, <1>8, <1>9 DEF IndInv

\* Writing a file leaves every report that is saved, and every finished file, as it is.
LEMMA FilesApart ==
  ASSUME IndInv, NEW p \in Programs, Saving(p)
  PROVE  /\ \A r \in saved : FileName(r.by, r.uuid) # FileName(p, uuid[p])
         /\ \A n \in DOMAIN disk : disk[n].whole => n # FileName(p, uuid[p])
<1>1. uuid[p] \in UUIDs
  BY DEF IndInv, TypeOK
<1>2. ASSUME NEW r \in saved PROVE FileName(r.by, r.uuid) # FileName(p, uuid[p])
  <2>1. r.by \in Programs /\ r.uuid \in UUIDs /\ r.uuid # uuid[p]
    BY DEF IndInv, TypeOK, SavedIsSettled, Settled
  <2>. QED BY <1>1, <2>1, NamesTellUUIDsApart
<1>3. ASSUME NEW n \in DOMAIN disk, disk[n].whole PROVE n # FileName(p, uuid[p])
  <2>1. disk[n].of \in UUIDs /\ disk[n].of # uuid[p]
    BY <1>3 DEF IndInv, TypeOK, FilesAreNamed, Settled
  <2>2. PICK q \in Programs : n = FileName(q, disk[n].of)
    BY DEF IndInv, FilesAreNamed
  <2>. QED BY <1>1, <2>1, <2>2, NamesTellUUIDsApart
<1>. QED BY <1>2, <1>3

\* When a program opens its file, its folder is there.
LEMMA OpenFindsFolder ==
  ASSUME IndInv, NEW p \in Programs, pc[p] = "open"
  PROVE  FileLevel(p) <= levels
  BY FolderAssumption DEF IndInv, FoldersInOrder, FileLevel

LEMMA FileHasType ==
  ASSUME IndInv, NEW p \in Programs, Saving(p), NEW b \in BOOLEAN
  PROVE  File(p, b) \in [of : UUIDs, level : 0..Depth, whole : BOOLEAN]
<1>1. FileLevel(p) \in 0..Depth
  BY FolderAssumption DEF FileLevel
<1>2. uuid[p] \in UUIDs
  BY DEF IndInv, TypeOK
<1>. QED BY <1>1, <1>2 DEF File

LEMMA OpenKeepsIndInv ==
  ASSUME IndInv, NEW p \in Programs, Open(p)
  PROVE  IndInv'
<1> DEFINE name == FileName(p, uuid[p])
<1>1. pc[p] = "open" /\ Saving(p)
  BY DEF Open, Saving
<1>2. /\ disk' = [n \in DOMAIN disk \cup {name} |-> IF n = name THEN File(p, FALSE) ELSE disk[n]]
      /\ pc' = [pc EXCEPT ![p] = "write"]
      /\ UNCHANGED <<setting, levels, level, uuid, drawn, saved, faults>>
  BY <1>1, OpenFindsFolder DEF Open, Put, Goto
<1>3. File(p, FALSE) \in [of : UUIDs, level : 0..Depth, whole : BOOLEAN]
  BY <1>1, FileHasType
<1>4. \A q \in Programs : Saving(q)' <=> Saving(q)
  BY <1>1, <1>2 DEF IndInv, TypeOK, Saving
<1>5. TypeOK'
  <2>1. pc' \in [Programs -> Steps]
    BY <1>2 DEF IndInv, TypeOK, Steps
  <2>2. \A n \in DOMAIN disk' : disk'[n] \in [of : UUIDs, level : 0..Depth, whole : BOOLEAN]
    BY <1>2, <1>3 DEF IndInv, TypeOK
  <2>. QED BY <1>2, <1>4, <2>1, <2>2 DEF IndInv, TypeOK
<1>6. FoldersInOrder'
  BY <1>1, <1>2 DEF IndInv, TypeOK, FoldersInOrder
<1>7. OneUUIDEach'
  BY <1>2, <1>4 DEF IndInv, OneUUIDEach
<1>8. \A w : Settled(w) => Settled(w)'
  BY <1>2, <1>4 DEF Settled
<1>9. FilesAreNamed'
  <2> SUFFICES ASSUME NEW n \in DOMAIN disk', NEW u, u = disk'[n].of
               PROVE  /\ u \in drawn
                      /\ \E q \in Programs : n = FileName(q, u)
                      /\ disk'[n].whole => Settled(u)'
    BY <1>2 DEF FilesAreNamed
  <2>1. CASE n = name
    BY <1>1, <1>2, <2>1 DEF File, IndInv, TypeOK
  <2>2. CASE n # name
    BY <1>2, <1>8, <2>2 DEF IndInv, FilesAreNamed
  <2>. QED BY <2>1, <2>2
<1>10. SavedIsSettled'
  BY <1>2, <1>8 DEF IndInv, SavedIsSettled
<1>11. OnlyFailedCallsLoseReports'
  <2>1. \A r \in saved : OnDisk(r)' <=> OnDisk(r)
    BY <1>1, <1>2, FilesApart DEF OnDisk
  <2>2. Lost' = Lost
    BY <1>2, <2>1 DEF Lost
  <2>. QED BY <1>2, <2>2 DEF IndInv, OnlyFailedCallsLoseReports
<1>. QED BY <1>2, <1>5, <1>6, <1>7, <1>9, <1>10, <1>11 DEF IndInv

\* The program that returns gives up its UUID; the UUIDs of the others stay apart.
LEMMA ReturnSettles ==
  ASSUME IndInv, NEW p \in Programs, Saving(p), Return(p),
         UNCHANGED <<setting, levels, level, uuid, drawn>>
  PROVE  /\ pc' \in [Programs -> Steps]
         /\ \A q \in Programs : Saving(q)' => Saving(q)
         /\ saved' \subseteq [by : Programs, uuid : UUIDs]
         /\ FoldersInOrder'
         /\ OneUUIDEach'
         /\ \A w : Settled(w) => Settled(w)'
         /\ \A w : w = uuid[p] => Settled(w)'
         /\ SavedIsSettled'
         /\ IsFiniteSet(saved')
<1>1. /\ pc' = [pc EXCEPT ![p] = "idle"]
      /\ saved' = saved \cup {[by |-> p, uuid |-> uuid[p]]}
  BY DEF Return, Goto
<1>2. pc' \in [Programs -> Steps] /\ \A q \in Programs : Saving(q)' <=> Saving(q) /\ q # p
  BY <1>1 DEF IndInv, TypeOK, Steps, Saving
<1>3. uuid[p] \in UUIDs /\ uuid[p] \in drawn
  BY DEF IndInv, TypeOK
<1>4. saved' \subseteq [by : Programs, uuid : UUIDs]
  BY <1>1, <1>3 DEF IndInv, TypeOK
<1>5. FoldersInOrder'
  BY <1>1 DEF IndInv, TypeOK, FoldersInOrder
<1>6. OneUUIDEach'
  BY <1>2 DEF IndInv, OneUUIDEach
<1>7. \A w : Settled(w) => Settled(w)'
  BY <1>2 DEF Settled
<1>8. \A w : w = uuid[p] => Settled(w)'
  BY <1>2, <1>3 DEF IndInv, OneUUIDEach, Settled
<1>9. SavedIsSettled'
  BY <1>1, <1>7, <1>8 DEF IndInv, SavedIsSettled
<1>10. IsFiniteSet(saved')
  BY <1>1, FS_AddElement DEF IndInv
<1>. QED BY <1>2, <1>4, <1>5, <1>6, <1>7, <1>8, <1>9, <1>10

LEMMA WriteKeepsIndInv ==
  ASSUME IndInv, NEW p \in Programs, Write(p)
  PROVE  IndInv'
<1> DEFINE name == FileName(p, uuid[p])
           report == [by |-> p, uuid |-> uuid[p]]
<1>1. Saving(p) /\ Return(p) /\ UNCHANGED <<setting, levels, level, uuid, drawn, faults>>
  BY DEF Write, Saving
<1>2. /\ disk' = [n \in DOMAIN disk \cup {name} |-> IF n = name THEN File(p, TRUE) ELSE disk[n]]
      /\ saved' = saved \cup {report}
  BY DEF Write, Put, Return
<1>3. File(p, TRUE) \in [of : UUIDs, level : 0..Depth, whole : BOOLEAN]
  BY <1>1, FileHasType
<1>4. TypeOK'
  <2>1. \A n \in DOMAIN disk' : disk'[n] \in [of : UUIDs, level : 0..Depth, whole : BOOLEAN]
    BY <1>2, <1>3 DEF IndInv, TypeOK
  <2>. QED BY <1>1, <2>1, ReturnSettles DEF IndInv, TypeOK
<1>5. \A w : Settled(w) => Settled(w)'
  BY <1>1, ReturnSettles
<1>6. FilesAreNamed'
  <2> SUFFICES ASSUME NEW n \in DOMAIN disk', NEW u, u = disk'[n].of
               PROVE  /\ u \in drawn
                      /\ \E q \in Programs : n = FileName(q, u)
                      /\ disk'[n].whole => Settled(u)'
    BY <1>1 DEF FilesAreNamed
  <2>1. CASE n = name
    <3>1. u = uuid[p]
      BY <1>2, <2>1 DEF File
    <3>2. uuid[p] \in drawn /\ Settled(u)'
      BY <1>1, <3>1, ReturnSettles DEF IndInv, TypeOK
    <3>. QED BY <2>1, <3>1, <3>2
  <2>2. CASE n # name
    BY <1>2, <1>5, <2>2 DEF IndInv, FilesAreNamed
  <2>. QED BY <2>1, <2>2
<1>7. OnlyFailedCallsLoseReports'
  <2>1. \A r \in saved : OnDisk(r)' <=> OnDisk(r)
    BY <1>1, <1>2, FilesApart DEF OnDisk
  <2>2. OnDisk(report)'
    BY <1>1, <1>2 DEF OnDisk, File
  <2>3. Lost' = Lost
    <3>1. \A r : r \in Lost' <=> r \in Lost
      BY <1>1, <1>2, <2>1, <2>2 DEF Lost
    <3>. QED BY <3>1
  <2>. QED BY <1>1, <2>3 DEF IndInv, OnlyFailedCallsLoseReports
<1>. QED BY <1>1, <1>4, <1>6, <1>7, ReturnSettles DEF IndInv

LEMMA OneMore ==
  ASSUME NEW S, IsFiniteSet(S), NEW x
  PROVE  IsFiniteSet(S \cup {x}) /\ Cardinality(S \cup {x}) <= Cardinality(S) + 1
<1>1. Cardinality(S) \in Nat
  BY FS_CardinalityType
<1>. QED BY <1>1, FS_AddElement

\* A call that fails ends its program or, where nothing looks, adds one lost report.
LEMMA CallFailsKeepsIndInv ==
  ASSUME IndInv, NEW p \in Programs, CallFails(p)
  PROVE  IndInv'
<1>1. /\ Saving(p) /\ faults \in Nat /\ faults' = faults + 1 /\ faults' \in 0..MaxFaults
      /\ UNCHANGED <<setting, levels, disk, level, uuid, drawn>>
  BY FolderAssumption DEF CallFails, Saving, IndInv, TypeOK
<1>2. CASE Goto(p, "ended") /\ UNCHANGED saved
  <2>1. pc' = [pc EXCEPT ![p] = "ended"] /\ saved' = saved
    BY <1>2 DEF Goto
  <2>2. pc' \in [Programs -> Steps] /\ \A q \in Programs : Saving(q)' => Saving(q)
    BY <2>1 DEF IndInv, TypeOK, Steps, Saving
  <2>3. TypeOK'
    BY <1>1, <2>1, <2>2 DEF IndInv, TypeOK
  <2>4. FoldersInOrder'
    BY <1>1, <2>1 DEF IndInv, TypeOK, FoldersInOrder
  <2>5. FilesInv'
    BY <1>1, <2>1, <2>2, FoldersOnly
  <2>. QED BY <2>3, <2>4, <2>5 DEF IndInv, FilesInv
<1>3. CASE p \notin Legacy /\ Return(p)
  <2> DEFINE report == [by |-> p, uuid |-> uuid[p]]
  <2>1. saved' = saved \cup {report}
    BY <1>3 DEF Return
  <2>2. TypeOK'
    BY <1>1, <1>3, ReturnSettles DEF IndInv, TypeOK
  <2>3. FilesAreNamed'
    BY <1>1, <1>3, ReturnSettles DEF IndInv, FilesAreNamed
  <2>4. OnlyFailedCallsLoseReports'
    <3>1. Lost' \subseteq Lost \cup {report}
      BY <1>1, <2>1 DEF Lost, OnDisk
    <3>2. IsFiniteSet(Lost)
      BY FS_Subset DEF IndInv, Lost
    <3>3. /\ IsFiniteSet(Lost \cup {report})
          /\ Cardinality(Lost \cup {report}) <= Cardinality(Lost) + 1
      BY <3>2, OneMore
    <3>4. Cardinality(Lost') <= Cardinality(Lost \cup {report})
      BY <3>1, <3>3, FS_Subset
    <3>5. Cardinality(Lost) <= faults
      BY DEF IndInv, OnlyFailedCallsLoseReports
    <3>6. IsFiniteSet(Lost')
      BY <3>1, <3>3, FS_Subset
    <3>7. /\ Cardinality(Lost) \in Nat /\ Cardinality(Lost') \in Nat
          /\ Cardinality(Lost \cup {report}) \in Nat
      BY <3>2, <3>3, <3>6, FS_CardinalityType
    <3>8. Cardinality(Lost') <= faults'
      BY <1>1, <3>3, <3>4, <3>5, <3>7
    <3>9. \A r \in Lost' : r.by \notin Legacy
      BY <1>3, <3>1 DEF IndInv, OnlyFailedCallsLoseReports
    <3>. QED BY <3>8, <3>9 DEF OnlyFailedCallsLoseReports
  <2>. QED BY <1>1, <1>3, <2>2, <2>3, <2>4, ReturnSettles DEF IndInv
<1>. QED BY <1>2, <1>3 DEF CallFails, StreamFails

(***************************************************************************)
(* The theorems.                                                           *)
(***************************************************************************)
LEMMA NextKeepsIndInv == IndInv /\ [Next]_vars => IndInv'
<1>. SUFFICES ASSUME IndInv, [Next]_vars PROVE IndInv'
  OBVIOUS
<1>1. ASSUME NEW p \in Programs, SaveFile(p) PROVE IndInv'
  BY <1>1, SaveFileKeepsIndInv
<1>2. ASSUME NEW p \in Programs, FolderExists(p) PROVE IndInv'
  BY <1>2, FolderExistsKeepsIndInv
<1>3. ASSUME NEW p \in Programs, CreateFolder(p) PROVE IndInv'
  BY <1>3, CreateFolderKeepsIndInv
<1>4. ASSUME NEW p \in Programs, CreateDirectories(p) PROVE IndInv'
  BY <1>4, CreateDirectoriesKeepsIndInv
<1>5. ASSUME NEW p \in Programs, Open(p) PROVE IndInv'
  BY <1>5, OpenKeepsIndInv
<1>6. ASSUME NEW p \in Programs, Write(p) PROVE IndInv'
  BY <1>6, WriteKeepsIndInv
<1>7. ASSUME NEW p \in Programs, CallFails(p) PROVE IndInv'
  BY <1>7, CallFailsKeepsIndInv
<1>8. ASSUME NEW p \in Programs, Kill(p) PROVE IndInv'
  BY <1>8, KillKeepsIndInv
<1>9. ASSUME NEW p \in Programs, Rerun(p) PROVE IndInv'
  BY <1>9, RerunKeepsIndInv
<1>10. ASSUME UNCHANGED vars PROVE IndInv'
  BY <1>10 DEF vars, IndInv, TypeOK, FoldersInOrder, OneUUIDEach, FilesAreNamed,
       SavedIsSettled, OnlyFailedCallsLoseReports, Lost, OnDisk, Saving, Settled
<1>. QED
  BY <1>1, <1>2, <1>3, <1>4, <1>5, <1>6, <1>7, <1>8, <1>9, <1>10 DEF Next, Proceed

\* The inductive invariant holds in every state of programs that save reports.
THEOREM InvariantHolds == Spec => []IndInv
  BY InitEstablishesIndInv, NextKeepsIndInv, PTL DEF Spec

\* However programs that save reports take turns, fail and are killed, all
\* variables keep their types.
THEOREM TypeCorrect == Spec => []TypeOK
<1>1. IndInv => TypeOK
  BY DEF IndInv
<1>. QED BY <1>1, InvariantHolds, PTL

\* A program that opens its file (FileService::saveFile, Allure2Listener::OnTestEnd)
\* finds the folder there, whoever created it and at whatever depth.
THEOREM FolderIsThere == Spec => []FolderIsThereWhenOpened
<1>1. IndInv => FolderIsThereWhenOpened
  BY OpenFindsFolder DEF FolderIsThereWhenOpened
<1>. QED BY <1>1, InvariantHolds, PTL

\* A report whose saving returned is complete on the disk and stays there; only
\* Allure2Listener, which checks no stream, loses reports, and no more than
\* calls of the operating system failed.
THEOREM OnlyFailedCallsLose == Spec => []OnlyFailedCallsLoseReports
<1>1. IndInv => OnlyFailedCallsLoseReports
  BY DEF IndInv
<1>. QED BY <1>1, InvariantHolds, PTL

\* No step of any program opens, truncates or writes a file that is finished.
THEOREM FinishedStay == Spec => FinishedReportsStay
<1> DEFINE Stay == \A n \in DOMAIN disk :
                     disk[n].whole => n \in DOMAIN disk' /\ disk'[n] = disk[n]
<1>1. IndInv /\ [Next]_vars => [Stay]_vars
  <2>. SUFFICES ASSUME IndInv, Next PROVE Stay
    OBVIOUS
  <2>1. PICK p \in Programs : SaveFile(p) \/ Proceed(p) \/ CallFails(p) \/ Kill(p) \/ Rerun(p)
    BY DEF Next
  <2>2. CASE UNCHANGED disk
    BY <2>2
  <2>3. ASSUME Saving(p), NEW f, Put(FileName(p, uuid[p]), f) PROVE Stay
    BY <2>3, FilesApart DEF Put
  <2>4. CASE Open(p)
    <3>1. pc[p] = "open" /\ Saving(p)
      BY <2>4 DEF Open, Saving
    <3>2. Put(FileName(p, uuid[p]), File(p, FALSE))
      BY <2>4, <3>1, OpenFindsFolder DEF Open
    <3>. QED BY <2>3, <3>1, <3>2
  <2>5. CASE Write(p)
    <3>1. Saving(p) /\ Put(FileName(p, uuid[p]), File(p, TRUE))
      BY <2>5 DEF Write, Saving
    <3>. QED BY <2>3, <3>1
  <2>6. Open(p) \/ Write(p) \/ UNCHANGED disk
    BY <2>1 DEF Proceed, SaveFile, FolderExists, CreateFolder, CreateDirectories, CallFails, Kill, Rerun
  <2>. QED BY <2>2, <2>4, <2>5, <2>6
<1>. HIDE DEF Stay
<1>2. Spec => [][Stay]_vars
  BY <1>1, InvariantHolds, PTL DEF Spec
<1>. QED BY <1>2 DEF Stay, FinishedReportsStay
=============================================================================
