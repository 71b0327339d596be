------------------------------ MODULE SaveProofs ------------------------------
(***************************************************************************)
(* Theorems about SaveSystem, for every value of its constants.            *)
(***************************************************************************)
EXTENDS SaveInv, TLAPS

\* The parts of the assumption on the constants that the proofs below need.
LEMMA Constants ==
  /\ CURRENT_VERSION \in 1..3
  /\ Flags \subseteq BOOLEAN \X BOOLEAN
  /\ MutableSections \subseteq Sections
  /\ \A s \in MutableSections : s # "main"
  /\ NoFile # BadFile
  /\ \A i \in Image : i # NoFile /\ i # BadFile
  /\ InitialDisk \subseteq [Files -> Content]
  /\ \A d \in InitialDisk, f \in Files : d[f] # BadFile
BY SaveAssumption DEF SaveAssumption, Sections, Structs, Re_Lease, Dev, Content

LEMMA ThreadNames == "main" \in Threads /\ "worker" \in Threads /\ "main" # "worker"
BY DEF Threads

LEMMA StepNames ==
  /\ {"boot", "idle", "aborted", "load_parts", "migrate", "snapshot", "delete",
      "create", "open", "write", "commit", "return"} \subseteq Step
  /\ {"snapshot", "delete", "create", "open", "write", "commit", "return"} \subseteq SaveSteps
BY DEF Step, SaveSteps, LoadSteps

\* Giving one thread another step keeps the type of pc.
LEMMA GotoType ==
  ASSUME NEW t \in Threads, NEW step \in Step, pc \in [Threads -> Step], Goto(t, step),
         pc["worker"] \in SaveSteps \cup {"idle"},
         t = "worker" => step \in SaveSteps \cup {"idle"}
  PROVE  pc' \in [Threads -> Step] /\ pc'["worker"] \in SaveSteps \cup {"idle"}
BY ThreadNames DEF Goto

LEMMA BlankType == Blank \in Image /\ Unloaded \in Image
BY DEF Blank, Unloaded, Image, Garbage

LEMMA SetSection ==
  ASSUME NEW i \in Image, NEW s \in Sections, NEW v \in Int
  PROVE  [i EXCEPT ![s] = v] \in Image
BY DEF Image

LEMMA RequestType ==
  ASSUME NEW m \in BOOLEAN, NEW b \in BOOLEAN
  PROVE  [isBusy |-> TRUE, saveRequest |-> TRUE, writeMain |-> m, writeBackup |-> b]
           \in SaveSystemFields
BY DEF SaveSystemFields

LEMMA NewCallType ==
  ASSUME NEW m \in BOOLEAN, NEW b \in BOOLEAN, NEW i \in Image
  PROVE  NewCall(m, b, i) \in Call
BY BlankType DEF NewCall, Call, Files

LEMMA NoCallType == NoCall \in Call
BY BlankType, NewCallType DEF NoCall

LEMMA SectionOrderType ==
  Len(SectionOrder) = 6 /\ \A n \in 1..6 : SectionOrder[n] \in Sections
BY DEF SectionOrder, Sections

\* What the type of the records says of their fields.
LEMMA FieldTypes ==
  ASSUME TypeOK
  PROVE  /\ playerWork.isMainSave \in BOOLEAN /\ playerWork.isBackupSave \in BOOLEAN
         /\ saveSystem.writeMain \in BOOLEAN /\ saveSystem.writeBackup \in BOOLEAN
         /\ saveSystem.isBusy \in BOOLEAN /\ saveSystem.saveRequest \in BOOLEAN
BY DEF TypeOK, PlayerWork, SaveSystemFields

\* Writing to the target of a call keeps the type of the mount.
LEMMA SetFileType ==
  ASSUME TypeOK, NEW t \in Threads, NEW c \in Content, SetFile(t, c)
  PROVE  mount' \in [Files -> Content]
BY DEF SetFile, TypeOK

LEMMA ContentMembers ==
  NoFile \in Content /\ BadFile \in Content /\ Image \subseteq Content
BY DEF Content

LEMMA FlagTypes == \A f \in Flags : f[1] \in BOOLEAN /\ f[2] \in BOOLEAN
BY Constants

\* The migration of PlayerWork keeps it a number of its body type, and doing it again
\* changes nothing.
LEMMA Expansion ==
  /\ \A v \in Int : Expanded(v) \in Int /\ BodyColor(v) \in Int
  /\ \A v \in Nat : /\ Expanded(v) \in Nat /\ BodyColor(v) \in Nat
                    /\ Expanded(Expanded(v)) = Expanded(v)
                    /\ BodyColor(Expanded(v)) = BodyColor(v)
BY DEF Expanded, IsExpanded, BodyColor, BodyType

LEMMA TypeStep == TypeOK /\ [Next]_vars => TypeOK'
<1> USE Constants, ThreadNames, StepNames, ContentMembers
<1> SUFFICES ASSUME TypeOK, [Next]_vars PROVE TypeOK'
  OBVIOUS
<1>1. ASSUME NEW b \in BOOLEAN, CustomLoadOperation(b) PROVE TypeOK'
  <2> DEFINE file == FileOf(b)
  <2>1. file \in Files
    BY DEF FileOf, Files
  <2>2. mem' \in Image
    <3>1. IsImage(mount[file]) => mount[file] \in Image
      BY <2>1 DEF IsImage, TypeOK, Content
    <3>2. [mem EXCEPT !["main"] = Vanilla] \in Image
      BY SetSection DEF TypeOK, Sections, Vanilla
    <3>3. ASSUME NEW v \in Int
          PROVE [mem EXCEPT !["main"] = Vanilla, !["playerWork"] = v] \in Image
      BY <3>2, SetSection DEF Sections
    <3>4. IsImage(mount[file]) => mount[file]["playerWork"] \in Int
      BY <3>1 DEF Image, Sections
    <3>5. QED
      BY <1>1, <3>2, <3>3, <3>4 DEF CustomLoadOperation, LoadFound, LoadFailed, LoadNothing
  <2>3. playerWork' \in PlayerWork
    BY <1>1 DEF CustomLoadOperation, LoadFound, LoadFailed, LoadNothing, SetLoad,
                TypeOK, PlayerWork
  <2>4. loaded' \in Content
    BY <1>1, <2>1 DEF CustomLoadOperation, LoadFound, LoadFailed, LoadNothing, TypeOK
  <2>5. pc' \in [Threads -> Step] /\ pc'["worker"] \in SaveSteps \cup {"idle"}
    BY <1>1, GotoType DEF Goto, CustomLoadOperation, LoadFound, LoadFailed, LoadNothing, TypeOK
  <2>6. QED
    BY <1>1, <2>2, <2>3, <2>4, <2>5
    DEF CustomLoadOperation, LoadFound, LoadFailed, LoadNothing, Goto, IsImage, TypeOK
<1>2. ASSUME NEW f \in Flags, CustomSaveOperation(f) PROVE TypeOK'
  <2>1. call' \in [Threads -> Call]
    BY <1>2, NewCallType, FlagTypes DEF CustomSaveOperation, TypeOK
  <2>2. playerWork' \in PlayerWork
    BY <1>2, FlagTypes DEF CustomSaveOperation, SetFlags, TypeOK, PlayerWork
  <2>3. QED
    BY <1>2, <2>1, <2>2, GotoType DEF CustomSaveOperation, Goto, TypeOK
<1>3. ASSUME NEW f \in Flags, CustomSaveAsyncOperation(f) PROVE TypeOK'
  <2>1. call' \in [Threads -> Call]
    BY <1>3, NewCallType DEF CustomSaveAsyncOperation, SaveAsync, TypeOK
  <2>2. saveSystem' \in SaveSystemFields
    BY <1>3, FlagTypes, RequestType DEF CustomSaveAsyncOperation, SaveAsync, TypeOK
  <2>3. playerWork' \in PlayerWork
    BY <1>3 DEF CustomSaveAsyncOperation, SetFlags, TypeOK, PlayerWork
  <2>4. QED
    BY <1>3, <2>1, <2>2, <2>3 DEF CustomSaveAsyncOperation, TypeOK
<1>4. ASSUME NEW s \in MutableSections, ChangeSection(s) PROVE TypeOK'
  BY <1>4 DEF ChangeSection, NextValue, TypeOK, Image
<1>6. CASE LoadCustomSaveData
  <2>1. mem' \in Image
    BY <1>6 DEF LoadCustomSaveData, TypeOK, Image, Content, IsImage
  <2>2. QED
    BY <1>6, <2>1, GotoType DEF Goto, LoadCustomSaveData, TypeOK
<1>7. CASE MigrateStep
  <2>1. mem' \in Image
    <3>1. mem \in [Sections -> Int] /\ "playerWork" \in Sections
      BY DEF TypeOK, Image, Sections
    <3>2. migrateToReLease => mem' \in Image
      BY <3>1, Expansion DEF migrateToReLease, Image, Re_Lease
    <3>3. \A v \in Int : [mem EXCEPT !["main"] = v] \in Image
      BY <3>1 DEF Image
    <3>4. QED
      BY <1>7, <3>2, <3>3 DEF MigrateStep, Future, Dev
  <2>2. QED
    BY <1>7, <2>1 DEF MigrateStep, TypeOK
<1>8. CASE LoadReturns
  <2>1. playerWork' \in PlayerWork
    BY <1>8 DEF LoadReturns, TypeOK, PlayerWork
  <2>2. QED
    BY <1>8, <2>1, GotoType DEF Goto, LoadReturns, TypeOK
<1>9. CASE WorkerStarts
  <2>1. call' \in [Threads -> Call]
    BY <1>9 DEF WorkerStarts, Call, TypeOK, SaveSystemFields
  <2>2. QED
    BY <1>9, <2>1, GotoType DEF Goto, WorkerStarts, TypeOK
<1>10. ASSUME NEW t \in Threads, SnapshotSection(t) PROVE TypeOK'
  <2> DEFINE n == call[t].next
             image == [call[t].copy EXCEPT ![SectionOrder[n]] = mem[SectionOrder[n]]]
             f == IF call[t].main THEN "Main" ELSE "Backup"
  <2>1. n \in 1..7 /\ call[t].copy \in Image /\ call[t] \in Call /\ f \in Files
    BY DEF TypeOK, Call, Files
  <2>2. n \in 1..6 /\ n + 1 \in 1..7
    BY <1>10, <2>1, SectionOrderType DEF SnapshotSection
  <2>3. image \in Image
    BY <2>1, <2>2, SectionOrderType DEF TypeOK, Image
  <2>4. [call[t] EXCEPT !.copy = image, !.next = n + 1] \in Call
    BY <2>1, <2>2, <2>3 DEF Call
  <2>5. [[call[t] EXCEPT !.copy = image, !.next = n + 1] EXCEPT !.target = f] \in Call
    BY <2>1, <2>4 DEF Call
  <2>6. call' \in [Threads -> Call]
    <3>1. \/ call' = [call EXCEPT ![t] = [call[t] EXCEPT !.copy = image, !.next = n + 1]]
          \/ call' = [call EXCEPT ![t] = [[call[t] EXCEPT !.copy = image, !.next = n + 1]
                                           EXCEPT !.target = f]]
      BY <1>10 DEF SnapshotSection
    <3>2. QED
      BY <2>4, <2>5, <3>1 DEF TypeOK
  <2>7. pc' \in [Threads -> Step] /\ pc'["worker"] \in SaveSteps \cup {"idle"}
    BY <1>10, GotoType DEF SnapshotSection, TypeOK
  <2>8. pc'["main"] # "load_parts" \/ pc'["main"] = pc["main"]
    BY <1>10 DEF SnapshotSection, Goto, TypeOK
  <2>9. QED
    BY <1>10, <2>6, <2>7, <2>8 DEF SnapshotSection, TypeOK, IsImage
<1>11. ASSUME NEW t \in Threads, DeleteFile(t) PROVE TypeOK'
  BY <1>11, GotoType, SetFileType DEF Goto, DeleteFile, TypeOK
<1>12. ASSUME NEW t \in Threads, CreateFile(t) PROVE TypeOK'
  BY <1>12, GotoType, SetFileType DEF Goto, CreateFile, TypeOK
<1>13. ASSUME NEW t \in Threads, OpenFile(t) PROVE TypeOK'
  BY <1>13, GotoType DEF Goto, OpenFile, TypeOK
<1>14. ASSUME NEW t \in Threads, WriteFile(t) PROVE TypeOK'
  <2>1. call' \in [Threads -> Call]
    BY <1>14 DEF WriteFile, Call, TypeOK, Files
  <2>2. call[t].copy \in Content
    BY DEF TypeOK, Call
  <2>3. QED
    BY <1>14, <2>1, <2>2, GotoType, SetFileType DEF Goto, WriteFile, TypeOK
<1>15. ASSUME NEW t \in Threads, Commit(t) PROVE TypeOK'
  BY <1>15, GotoType DEF Goto, Commit, TypeOK
<1>16. ASSUME NEW t \in Threads, SaveReturns(t) PROVE TypeOK'
  <2>1. playerWork' \in PlayerWork
    BY <1>16 DEF SaveReturns, SetFlags, TypeOK, PlayerWork
  <2>2. saveSystem' \in SaveSystemFields
    BY <1>16 DEF SaveReturns, TypeOK, SaveSystemFields
  <2>3. call' \in [Threads -> Call]
    BY <1>16, NoCallType DEF SaveReturns, TypeOK
  <2>4. QED
    BY <1>16, <2>1, <2>2, <2>3, GotoType DEF Goto, SaveReturns, TypeOK
<1>17. CASE Crash
  BY <1>17, BlankType, NoCallType
  DEF Crash, TypeOK, NewPlayerWork, NewSaveSystem, PlayerWork, SaveSystemFields
<1>18. CASE UNCHANGED vars
  BY <1>18 DEF vars, TypeOK
<1>19. QED
  BY <1>1, <1>2, <1>3, <1>4, <1>6, <1>7, <1>8, <1>9, <1>10, <1>11, <1>12,
     <1>13, <1>14, <1>15, <1>16, <1>17, <1>18
  DEF Next, Game, LoadStep, SaveStep

LEMMA TypeInit == Init => TypeOK
BY Constants, ThreadNames, StepNames, ContentMembers, BlankType, NoCallType
DEF Init, TypeOK, NewPlayerWork, NewSaveSystem, PlayerWork, SaveSystemFields

\* Every variable keeps its type through every operation.
THEOREM TypeCorrect == Spec => []TypeOK
BY TypeInit, TypeStep, PTL DEF Spec
=============================================================================
