------------------------------ MODULE SaveSystem ------------------------------
(***************************************************************************)
(* The custom save of the mod: src/mod/save/save_hooks.cpp, the version    *)
(* migration of src/mod/save/migration and the file helper                 *)
(* src/common/helpers/fsHelper.cpp.                                        *)
(*                                                                         *)
(* Two threads run SaveSystem$$Save without a lock: the game's main thread *)
(* (CustomSaveOperation) and the save thread that SaveAsync starts.  Both  *)
(* read the live CustomSaveData section by section while the main thread   *)
(* may go on changing it, and both replace SaveData.bin and Backup.bin in  *)
(* place (delete, create, open, write) before one Commit of the mount.     *)
(*                                                                         *)
(* A value stands for one serialised section: 0 is what Initialize() sets, *)
(* a larger number a later change, Garbage the malloc'ed memory that no    *)
(* Initialize() and no FromJson() has written yet, Missing a key that a    *)
(* parsed file does not have.  Of PlayerWork, BodyType and IsExpanded tell *)
(* what the migration reads and writes.                                    *)
(***************************************************************************)
EXTENDS Integers, Sequences

CONSTANTS
  CURRENT_VERSION,  \* version this build migrates to (Dev in a debug build)
  InitialDisk,      \* what the save data may hold before the first boot
  Flags,            \* pairs <<main, backup>> the game saves with
  Faults,           \* file system calls that may fail
  Overlap,          \* may the game save or load while a save thread runs?
  MutableSections,  \* sections the running game changes in this instance
  MaxValue,         \* bound on the value of each of them
  NoFile, BadFile   \* contents: no such file; a file that is not whole JSON

Vanilla  == 0
Re_Lease == 1
Future   == 2
Dev      == 3

Garbage == -1
Missing == -2

\* "main" holds the version; the other four are the structs of CustomSaveData.
Sections     == {"playerWork", "main", "color", "dex", "ayou", "settings"}
SectionOrder == <<"playerWork", "main", "color", "dex", "ayou", "settings">>
Structs      == {"color", "dex", "ayou", "settings"}

Files   == {"Main", "Backup"}
Threads == {"main", "worker"}

\* What the value v of PlayerWork says: the body type (two are enough to tell which
\* palette is taken), and whether there are 80 boxes and the text is fast.  The
\* player may change the text speed, so later values are expanded or not.
BodyType(v)   == v % 2
IsExpanded(v) == v % 4 \in {2, 3}

\* trayMax = Re_Lease_BoxCount and msg_speed = MSGSPEED_FAST; the rest stays.
Expanded(v) == IF IsExpanded(v) THEN v ELSE v + 2

\* The ID and the palette (GetColorSet) of a body type, never what Initialize() sets.
BodyColor(v) == 1 + BodyType(v)

\* A parsed save file.
Image   == [Sections -> Int]
Content == Image \cup {NoFile, BadFile}
IsImage(c) == c \notin {NoFile, BadFile}

\* Every section is there and the version is one of the mod's.
Complete(i) == i["main"] \in Re_Lease..Dev /\ \A s \in Sections : i[s] \in Nat

\* An image that a load restores: complete, or without custom data at all, so
\* that the migration from Vanilla initialises the structs and wipes nothing.
Loadable(i) ==
  \/ Complete(i)
  \/ /\ i["main"] \in {Missing, Vanilla} /\ i["playerWork"] \in Nat
     /\ \A s \in Structs : i[s] = Missing

ASSUME SaveAssumption ==
  /\ CURRENT_VERSION \in Re_Lease..Dev
  /\ Flags \subseteq BOOLEAN \X BOOLEAN
  /\ \A f \in Flags : f[1] \/ f[2]
  /\ Faults \subseteq {"delete", "create", "open", "write", "commit"}
  /\ Overlap \in BOOLEAN
  /\ MutableSections \subseteq Structs \cup {"playerWork"}
  /\ MaxValue \in [MutableSections -> Nat]
  /\ NoFile # BadFile
  /\ NoFile \notin Image /\ BadFile \notin Image
  /\ InitialDisk \subseteq [Files -> Image \cup {NoFile}]
  /\ \A d \in InitialDisk, f \in Files : IsImage(d[f]) => Loadable(d[f])

VARIABLES
  mount,       \* files as the running game sees them, committed or not
  disk,        \* files as of the last successful Commit
  mem,         \* PlayerWork and CustomSaveData in memory
  playerWork,  \* fields of PlayerWork that steer saving and loading
  saveSystem,  \* fields of SaveSystem: the request to the save thread
  loaded,      \* the JSON that CustomLoadOperation is loading
  pc,          \* where each thread is
  call         \* arguments and locals of each thread's call of Save

vars == <<mount, disk, mem, playerWork, saveSystem, loaded, pc, call>>

SaveSteps == {"snapshot", "delete", "create", "open", "write", "commit", "return"}
LoadSteps == {"load_parts", "migrate"}

Unloaded      == [s \in Sections |-> IF s = "playerWork" THEN 0 ELSE Garbage]
NewPlayerWork == [isMainSave |-> TRUE, isBackupSave |-> FALSE, loadResult |-> "NOT_EXIST"]
NewSaveSystem == [isBusy |-> FALSE, saveRequest |-> FALSE,
                  writeMain |-> FALSE, writeBackup |-> FALSE]

\* copy is the image being serialised, up to section next; asked, a history
\* variable, is the memory at the moment the save was requested.
Blank  == [s \in Sections |-> Garbage]
NewCall(main, backup, memory) ==
  [main |-> main, backup |-> backup, target |-> "Main", next |-> 1,
   copy |-> Blank, asked |-> memory]
NoCall == NewCall(FALSE, FALSE, Blank)

Step == SaveSteps \cup LoadSteps \cup {"boot", "idle", "aborted"}
PlayerWork == [isMainSave : BOOLEAN, isBackupSave : BOOLEAN,
               loadResult : {"SUCCESS", "NOT_EXIST", "FAILED"}]
SaveSystemFields == [isBusy : BOOLEAN, saveRequest : BOOLEAN,
                     writeMain : BOOLEAN, writeBackup : BOOLEAN]
Call == [main : BOOLEAN, backup : BOOLEAN, target : Files, next : 1..7,
         copy : Image, asked : Image]

TypeOK ==
  /\ mount \in [Files -> Content]
  /\ disk \in [Files -> Content]
  /\ mem \in Image
  /\ playerWork \in PlayerWork
  /\ saveSystem \in SaveSystemFields
  /\ loaded \in Content
  /\ pc \in [Threads -> Step]
  /\ pc["worker"] \in SaveSteps \cup {"idle"}
  /\ call \in [Threads -> Call]
  /\ pc["main"] = "load_parts" => IsImage(loaded)

-----------------------------------------------------------------------------
Init ==
  /\ disk \in InitialDisk
  /\ mount = disk
  /\ mem = Unloaded
  /\ playerWork = NewPlayerWork
  /\ saveSystem = NewSaveSystem
  /\ loaded = NoFile
  /\ pc = [t \in Threads |-> IF t = "main" THEN "boot" ELSE "idle"]
  /\ call = [t \in Threads |-> NoCall]

\* Power loss, a crash or the user closing the game, and the next start: what
\* was not committed is gone, and CustomSaveData is memory nobody has written.
Crash ==
  /\ mount' = disk
  /\ mem' = Unloaded
  /\ playerWork' = NewPlayerWork
  /\ saveSystem' = NewSaveSystem
  /\ loaded' = NoFile
  /\ pc' = [t \in Threads |-> IF t = "main" THEN "boot" ELSE "idle"]
  /\ call' = [t \in Threads |-> NoCall]
  /\ UNCHANGED disk

Goto(t, step) == pc' = [pc EXCEPT ![t] = step]

-----------------------------------------------------------------------------
(* Loading: CustomLoadOperation on the main thread. *)

MainThreadFree == Overlap \/ ~saveSystem.isBusy

FileOf(fromBackup) == IF fromBackup THEN "Backup" ELSE "Main"

\* The game's SaveDataExists() sees SaveData.bin; whether a lone Backup.bin
\* counts is the game's business.
SaveDataExists(answer) ==
  /\ mount["Main"] # NoFile => answer
  /\ (\A f \in Files : mount[f] = NoFile) => ~answer

SetLoad(fromBackup, result) ==
  playerWork' = [playerWork EXCEPT !.isBackupSave = fromBackup, !.loadResult = result]

\* Mutant: is_discarded() is not looked at.
LoadFoundUnparsed(b) ==
  /\ mount[FileOf(b)] # NoFile
  /\ SetLoad(b, "SUCCESS")
  /\ loaded' = mount[FileOf(b)]
  /\ mem' = [mem EXCEPT !["main"] = Vanilla]
  /\ Goto("main", "load_parts")

LoadFound(b) ==
  /\ IsImage(mount[FileOf(b)])
  /\ SetLoad(b, "SUCCESS")
  /\ loaded' = mount[FileOf(b)]
  /\ mem' = [mem EXCEPT !["main"] = Vanilla,
                        !["playerWork"] = mount[FileOf(b)]["playerWork"]]
  /\ Goto("main", "load_parts")

\* FailedLoad() shows an error and aborts the process.
LoadFailed(b) ==
  /\ ~IsImage(mount[FileOf(b)])
  /\ SaveDataExists(TRUE)
  /\ SetLoad(b, "FAILED")
  /\ mem' = [mem EXCEPT !["main"] = Vanilla]
  /\ Goto("main", "aborted")
  /\ UNCHANGED loaded

LoadNothing(b) ==
  /\ ~IsImage(mount[FileOf(b)])
  /\ SaveDataExists(FALSE)
  /\ SetLoad(b, "NOT_EXIST")
  /\ mem' = [mem EXCEPT !["main"] = Vanilla]
  /\ Goto("main", "migrate")
  /\ UNCHANGED loaded

\* The game sets _isBackupSave to b and loads.
CustomLoadOperation(b) ==
  /\ pc["main"] \in {"boot", "idle"}
  /\ MainThreadFree
  /\ LoadFound(b) \/ LoadFailed(b) \/ LoadNothing(b)
  /\ UNCHANGED <<mount, disk, saveSystem, call>>

\* Mutant: the line that loads the forms of the Pokedex is missing.
LoadWithoutDex ==
  /\ pc["main"] = "load_parts"
  /\ mem' = [s \in Sections |-> IF s \notin {"playerWork", "dex"} /\ loaded[s] # Missing
                                THEN loaded[s] ELSE mem[s]]
  /\ Goto("main", "migrate")
  /\ UNCHANGED <<mount, disk, playerWork, saveSystem, loaded, call>>

\* Each struct is read if its key is there and left alone if it is not.
LoadCustomSaveData ==
  /\ pc["main"] = "load_parts"
  /\ mem' = [s \in Sections |-> IF s # "playerWork" /\ loaded[s] # Missing
                                THEN loaded[s] ELSE mem[s]]
  /\ Goto("main", "migrate")
  /\ UNCHANGED <<mount, disk, playerWork, saveSystem, loaded, call>>

\* Mutant: one struct is not initialised.
migrateWithoutAYou ==
  mem' = [s \in Sections |-> CASE s = "main" -> Re_Lease
                               [] s = "playerWork" -> Expanded(mem[s])
                               [] s = "color" -> BodyColor(mem["playerWork"])
                               [] s = "ayou" -> mem[s]
                               [] OTHER -> 0]

\* Mutant: the color is left as Initialize() sets it.
migrateWithoutColor ==
  mem' = [s \in Sections |-> CASE s = "main" -> Re_Lease
                               [] s = "playerWork" -> Expanded(mem[s])
                               [] OTHER -> 0]

\* Every struct is initialised, the color is that of the body type in PlayerWork,
\* and two fields of PlayerWork itself change.
migrateToReLease ==
  mem' = [s \in Sections |-> CASE s = "main" -> Re_Lease
                               [] s = "playerWork" -> Expanded(mem[s])
                               [] s = "color" -> BodyColor(mem["playerWork"])
                               [] OTHER -> 0]

\* Mutant: migrateToFuture does not set the version.
MigrateStepStuck ==
  /\ pc["main"] = "migrate"
  /\ mem["main"] < CURRENT_VERSION
  /\ \/ mem["main"] = Vanilla  /\ migrateToReLease
     \/ mem["main"] = Re_Lease /\ UNCHANGED mem
     \/ mem["main"] = Future   /\ mem' = [mem EXCEPT !["main"] = Dev]
  /\ UNCHANGED <<mount, disk, playerWork, saveSystem, loaded, pc, call>>

\* One turn of the while loop.  The case Dev is never reached inside it.
MigrateStep ==
  /\ pc["main"] = "migrate"
  /\ mem["main"] < CURRENT_VERSION
  /\ \/ mem["main"] = Vanilla  /\ migrateToReLease
     \/ mem["main"] = Re_Lease /\ mem' = [mem EXCEPT !["main"] = Future]
     \/ mem["main"] = Future   /\ mem' = [mem EXCEPT !["main"] = Dev]
  /\ UNCHANGED <<mount, disk, playerWork, saveSystem, loaded, pc, call>>

LoadReturns ==
  /\ pc["main"] = "migrate"
  /\ mem["main"] >= CURRENT_VERSION
  /\ playerWork' = [playerWork EXCEPT !.isBackupSave = FALSE]
  /\ loaded' = NoFile
  /\ Goto("main", "idle")
  /\ UNCHANGED <<mount, disk, mem, saveSystem, call>>

-----------------------------------------------------------------------------
(* The running game, on the main thread. *)

\* A change keeps the body type, and one of PlayerWork is one of the text speed.
NextValue(s) == mem[s] + IF s = "playerWork" THEN 2 ELSE 1

\* One section changes: ZukanWork$$SetPoke changes playerWork and then dex.
ChangeSection(s) ==
  /\ pc["main"] = "idle"
  /\ NextValue(s) <= MaxValue[s]
  /\ mem' = [mem EXCEPT ![s] = NextValue(s)]
  /\ UNCHANGED <<mount, disk, playerWork, saveSystem, loaded, pc, call>>

SetFlags(main, backup) ==
  playerWork' = [playerWork EXCEPT !.isMainSave = main, !.isBackupSave = backup]

\* The game sets _isMainSave and _isBackupSave to f and saves.
CustomSaveOperation(f) ==
  /\ pc["main"] = "idle"
  /\ MainThreadFree
  /\ SetFlags(f[1], f[2])
  /\ call' = [call EXCEPT !["main"] = NewCall(f[1], f[2], mem)]
  /\ Goto("main", "snapshot")
  /\ UNCHANGED <<mount, disk, mem, saveSystem, loaded>>

\* Mutant: the thread is started before _saveRequest is set, and does not see it.
SaveAsyncUnseen(main, backup) ==
  /\ ~saveSystem.isBusy
  /\ saveSystem' = [isBusy |-> TRUE, saveRequest |-> FALSE,
                    writeMain |-> main, writeBackup |-> backup]
  /\ call' = [call EXCEPT !["worker"] = NewCall(FALSE, FALSE, mem)]

\* A request made while a save is under way is ignored.
SaveAsync(main, backup) ==
  \/ /\ ~saveSystem.isBusy
     /\ saveSystem' = [isBusy |-> TRUE, saveRequest |-> TRUE,
                       writeMain |-> main, writeBackup |-> backup]
     /\ call' = [call EXCEPT !["worker"] = NewCall(FALSE, FALSE, mem)]
  \/ /\ saveSystem.isBusy
     /\ UNCHANGED <<saveSystem, call>>

\* The flags are reset whether or not SaveAsync took the request.
CustomSaveAsyncOperation(f) ==
  /\ pc["main"] = "idle"
  /\ SaveAsync(f[1], f[2])
  /\ SetFlags(TRUE, FALSE)
  /\ UNCHANGED <<mount, disk, mem, loaded, pc>>

-----------------------------------------------------------------------------
(* SaveSystem$$Save, on thread t. *)

\* The game's save thread picks the request up and calls Save.
WorkerStarts ==
  /\ pc["worker"] = "idle"
  /\ saveSystem.saveRequest
  /\ call' = [call EXCEPT !["worker"] = [@ EXCEPT !.main = saveSystem.writeMain,
                                                 !.backup = saveSystem.writeBackup]]
  /\ Goto("worker", "snapshot")
  /\ UNCHANGED <<mount, disk, mem, playerWork, saveSystem, loaded>>

\* Serialise one section; after the last, start on the first file to write, or
\* go straight to the Commit if there is none.
SnapshotSection(t) ==
  LET n == call[t].next
      s == SectionOrder[n]
      serialised == [call[t] EXCEPT !.copy = [@ EXCEPT ![s] = mem[s]], !.next = n + 1]
  IN /\ pc[t] = "snapshot"
     /\ \/ /\ n < Len(SectionOrder)
           /\ call' = [call EXCEPT ![t] = serialised]
           /\ UNCHANGED pc
        \/ /\ n = Len(SectionOrder)
           /\ call' = [call EXCEPT ![t] = [serialised EXCEPT
                          !.target = IF call[t].main THEN "Main" ELSE "Backup"]]
           /\ Goto(t, IF call[t].main \/ call[t].backup THEN "delete" ELSE "commit")
     /\ UNCHANGED <<mount, disk, mem, playerWork, saveSystem, loaded>>

Target(t)     == mount[call[t].target]
SetFile(t, c) == mount' = [mount EXCEPT ![call[t].target] = c]

\* The result of DeleteFile is not looked at.
DeleteFile(t) ==
  /\ pc[t] = "delete"
  /\ \/ SetFile(t, NoFile)
     \/ "delete" \in Faults /\ UNCHANGED mount
  /\ Goto(t, "create")
  /\ UNCHANGED <<disk, mem, playerWork, saveSystem, loaded, call>>

\* A created file has its size and no content; Create fails on a file that is
\* still there.
CreateFile(t) ==
  /\ pc[t] = "create"
  /\ \/ Target(t) = NoFile /\ SetFile(t, BadFile) /\ Goto(t, "open")
     \/ /\ Target(t) # NoFile \/ "create" \in Faults
        /\ Goto(t, "return") /\ UNCHANGED mount
  /\ UNCHANGED <<disk, mem, playerWork, saveSystem, loaded, call>>

OpenFile(t) ==
  /\ pc[t] = "open"
  /\ \/ Target(t) # NoFile /\ Goto(t, "write")
     \/ (Target(t) = NoFile \/ "open" \in Faults) /\ Goto(t, "return")
  /\ UNCHANGED <<mount, disk, mem, playerWork, saveSystem, loaded, call>>

\* Mutant: the result of WriteFile is not looked at.
WriteFileUnchecked(t) ==
  /\ pc[t] = "write"
  /\ Target(t) # NoFile
  /\ SetFile(t, call[t].copy) \/ ("write" \in Faults /\ SetFile(t, BadFile))
  /\ Goto(t, "commit")
  /\ UNCHANGED <<disk, mem, playerWork, saveSystem, loaded, call>>

\* Mutant: a save to both files stops after SaveData.bin.
WriteFileNoBackup(t) ==
  /\ pc[t] = "write"
  /\ Target(t) # NoFile /\ SetFile(t, call[t].copy)
  /\ Goto(t, "commit")
  /\ UNCHANGED <<disk, mem, playerWork, saveSystem, loaded, call>>

\* Mutant: a file that could not be written whole is removed.
WriteFileRemovesPartial(t) ==
  /\ pc[t] = "write"
  /\ \/ SetFile(t, call[t].copy) /\ Goto(t, "commit")
     \/ SetFile(t, NoFile) /\ Goto(t, "return")
  /\ UNCHANGED <<disk, mem, playerWork, saveSystem, loaded, call>>

\* A failed write returns at once; the handle stays open and the file holds
\* what had been written.  A file the other thread has deleted gets nothing.
WriteFile(t) ==
  /\ pc[t] = "write"
  /\ \/ /\ IF Target(t) = NoFile THEN UNCHANGED mount ELSE SetFile(t, call[t].copy)
        /\ \/ /\ call[t].target = "Main" /\ call[t].backup
              /\ call' = [call EXCEPT ![t] = [@ EXCEPT !.target = "Backup"]]
              /\ Goto(t, "delete")
           \/ /\ call[t].target = "Backup" \/ ~call[t].backup
              /\ Goto(t, "commit") /\ UNCHANGED call
     \/ /\ "write" \in Faults
        /\ (Target(t) # NoFile /\ SetFile(t, BadFile)) \/ UNCHANGED mount
        /\ Goto(t, "return") /\ UNCHANGED call
  /\ UNCHANGED <<disk, mem, playerWork, saveSystem, loaded>>

Commit(t) ==
  /\ pc[t] = "commit"
  /\ disk' = mount \/ ("commit" \in Faults /\ UNCHANGED disk)
  /\ Goto(t, "return")
  /\ UNCHANGED <<mount, mem, playerWork, saveSystem, loaded, call>>

\* Mutant: the end of a save leaves the flag that refuses the next request.
SaveReturnsBusy(t) ==
  /\ pc[t] = "return"
  /\ Goto(t, "idle")
  /\ call' = [call EXCEPT ![t] = NoCall]
  /\ \/ t = "main" /\ SetFlags(TRUE, FALSE) /\ UNCHANGED saveSystem
     \/ /\ t = "worker"
        /\ saveSystem' = [saveSystem EXCEPT !.saveRequest = FALSE]
        /\ UNCHANGED playerWork
  /\ UNCHANGED <<mount, disk, mem, loaded>>

\* Nobody looks at the result of Save.  CustomSaveOperation resets the flags of
\* PlayerWork; the game's save thread clears the request.
SaveReturns(t) ==
  /\ pc[t] = "return"
  /\ Goto(t, "idle")
  /\ call' = [call EXCEPT ![t] = NoCall]
  /\ \/ t = "main" /\ SetFlags(TRUE, FALSE) /\ UNCHANGED saveSystem
     \/ /\ t = "worker"
        /\ saveSystem' = [saveSystem EXCEPT !.isBusy = FALSE, !.saveRequest = FALSE]
        /\ UNCHANGED playerWork
  /\ UNCHANGED <<mount, disk, mem, loaded>>

SaveStep(t) ==
  \/ SnapshotSection(t)
  \/ DeleteFile(t) \/ CreateFile(t) \/ OpenFile(t) \/ WriteFile(t)
  \/ Commit(t)
  \/ SaveReturns(t)

LoadStep == LoadCustomSaveData \/ MigrateStep \/ LoadReturns

Game ==
  \/ \E b \in BOOLEAN : CustomLoadOperation(b)
  \/ \E f \in Flags : CustomSaveOperation(f) \/ CustomSaveAsyncOperation(f)
  \/ \E s \in MutableSections : ChangeSection(s)

Next ==
  \/ Game
  \/ LoadStep
  \/ WorkerStarts
  \/ \E t \in Threads : SaveStep(t)
  \/ Crash

Spec == Init /\ [][Next]_vars

\* The save thread and a call under way on the main thread keep running.
Fairness ==
  /\ WF_vars(WorkerStarts \/ SaveStep("worker"))
  /\ WF_vars(LoadStep \/ SaveStep("main"))

FairSpec == Spec /\ Fairness

-----------------------------------------------------------------------------
(* Safety. *)

\* When every save writes SaveData.bin, no crash, failed call or early return of
\* Save leaves a committed SaveData.bin that the next boot cannot parse.
MainAlwaysLoadable == disk["Main"] # BadFile

\* Every whole file, committed or not, is one that a load restores: Save never
\* writes a struct that was never initialised, and never writes structs under
\* a version below Re_Lease, which the next load would wipe in migrateToReLease.
ImagesLoadable ==
  \A f \in Files : /\ IsImage(mount[f]) => Loadable(mount[f])
                   /\ IsImage(disk[f]) => Loadable(disk[f])

\* The files a call of Save replaces.
Written(t) == {f \in Files : IF f = "Main" THEN call[t].main ELSE call[t].backup}

\* A Commit that changes the console's storage makes durable, in every file its
\* save was to write, an image no older in any section than the memory at the
\* request; a save on the main thread makes exactly that memory durable.
FreshCommit ==
  [][disk' # disk =>
       \E t \in Threads :
         /\ pc[t] = "commit"
         /\ \A f \in Written(t) :
              /\ IsImage(disk'[f])
              /\ \A s \in Sections : disk'[f][s] >= call[t].asked[s]
              /\ t = "main" => disk'[f] = call[t].asked]_vars

\* The save under way, from its request to its commit: its files, the memory at the
\* request, and whether the game waits for it.
Requested ==
  IF pc["worker"] # "idle" THEN Written("worker")
  ELSE {f \in Files : IF f = "Main" THEN saveSystem.writeMain ELSE saveSystem.writeBackup}
Pending ==
  CASE pc["main"] \in SaveSteps \ {"return"} ->
         [files |-> Written("main"), asked |-> call["main"].asked, waits |-> TRUE]
    [] saveSystem.isBusy /\ pc["worker"] # "return" ->
         [files |-> Requested, asked |-> call["worker"].asked, waits |-> FALSE]
    [] OTHER -> [files |-> {}, asked |-> Blank, waits |-> FALSE]

\* What the game plays with, once it is loaded.
Session == IF pc["main"] \in SaveSteps \cup {"idle"} THEN mem ELSE Blank

\* The session that migrate() makes of a PlayerWork without custom data.
Migrated(v) ==
  [s \in Sections |-> CASE s = "main" -> CURRENT_VERSION
                        [] s = "playerWork" -> Expanded(v)
                        [] s = "color" -> BodyColor(v)
                        [] OTHER -> 0]

Durable == INSTANCE DurableSave WITH
             durable <- disk, cached <- mount, live <- Session, pending <- Pending

\* Section by section, file by file and on two threads, a save is to the player one
\* step from a request to durable files, or to nothing; a failed one touches only
\* its own files, and a session begins with exactly what a file of the mod holds, or
\* with the migration of a file from before it.
ImplementsDurable == Durable!Spec

\* Whichever files the game saves to and whatever fails, once the console holds
\* a file that parses it always holds one.
SomeImageKept ==
  [][(\E f \in Files : IsImage(disk[f])) => (\E f \in Files : IsImage(disk'[f]))]_vars

\* A load ends with exactly the sections of a file of the mod: nothing is left of the
\* session before, nothing is wiped or migrated again.  Of a file from before the mod
\* it keeps PlayerWork but for boxes and text speed, with the color of its body type
\* and all other structs initial.
\* And, unless CreateFile fails, a load reports that there is no save only when
\* none is committed: earlier failed saves of the session do not hide it.
LoadRestores ==
  /\ [][pc["main"] = "migrate" /\ pc'["main"] = "idle" /\ IsImage(loaded) =>
         IF Complete(loaded) THEN \A s \in Sections \ {"main"} : mem[s] = loaded[s]
                             ELSE mem = Migrated(loaded["playerWork"])]_vars
  /\ [][pc["main"] \in {"boot", "idle"} /\ pc'["main"] = "migrate" => disk["Main"] = NoFile]_vars

-----------------------------------------------------------------------------
(* Liveness. *)

\* Every save the save thread takes ends, and SaveAsync takes requests again; the
\* migration loop reaches CURRENT_VERSION from every version a file has.
CallsEnd ==
  /\ saveSystem.isBusy ~> ~saveSystem.isBusy
  /\ pc["main"] \in LoadSteps ~> pc["main"] \notin LoadSteps

\* A call of the file system fails that could have succeeded.
Fails ==
  \E t \in Threads :
    \/ pc[t] = "delete" /\ pc'[t] = "create" /\ Target(t) # NoFile /\ UNCHANGED mount
    \/ pc[t] = "create" /\ pc'[t] = "return" /\ Target(t) = NoFile
    \/ pc[t] = "open"   /\ pc'[t] = "return" /\ Target(t) # NoFile
    \/ pc[t] = "write"  /\ pc'[t] = "return"
    \/ pc[t] = "commit" /\ pc'[t] = "return" /\ disk' # mount

\* A game that goes on asking for saves gets them: once calls no longer fail,
\* whatever earlier failures have left on the mount, the memory at the moment
\* SaveAsync took a request becomes durable unless the game is closed first.
SavesLand ==
  <>[][~Fails]_vars =>
    \A g \in 0..MaxValue["playerWork"] :
      []<>(saveSystem.isBusy /\ call["worker"].asked["playerWork"] >= g)
        => []<>(\/ pc["main"] = "boot"
                \/ \E f \in Files : IsImage(disk[f]) /\ disk[f]["playerWork"] >= g)

=============================================================================
