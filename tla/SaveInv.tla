-------------------------------- MODULE SaveInv --------------------------------
(***************************************************************************)
(* The inductive invariant behind the safety properties of SaveSystem when *)
(* the game does not save or load while its save thread runs.              *)
(***************************************************************************)
EXTENDS SaveSystem

Writing == {"delete", "create", "open", "write", "commit"}

\* The save thread runs only between SaveAsync and its return, and the main
\* thread is then in none of its own loads and saves.
OneCaller ==
  /\ saveSystem.saveRequest = saveSystem.isBusy
  /\ pc["worker"] # "idle" => saveSystem.isBusy
  /\ saveSystem.isBusy => pc["main"] = "idle"

\* The memory is complete but during the load itself.
MemoryLoaded ==
  /\ mem["playerWork"] \in Nat
  /\ pc["main"] = "load_parts" => mem["main"] = Vanilla /\ Loadable(loaded)
  /\ pc["main"] = "migrate" => mem["main"] = Vanilla \/ Complete(mem)
  /\ pc["main"] \in SaveSteps \cup {"idle"} => Complete(mem)

\* A save under way, from its request to its commit.
Saving(t) ==
  pc[t] \in Writing \cup {"snapshot"} \/ (t = "worker" /\ saveSystem.isBusy /\ pc[t] = "idle")

\* What is serialised so far lies between the memory at the request and now.
SnapshotBounded ==
  \A t \in Threads : Saving(t) =>
    /\ Complete(call[t].asked)
    /\ \A s \in Sections : call[t].asked[s] <= mem[s]
    /\ t = "main" => mem = call[t].asked
    /\ \A n \in 1..6 : n < call[t].next =>
         /\ call[t].asked[SectionOrder[n]] <= call[t].copy[SectionOrder[n]]
         /\ call[t].copy[SectionOrder[n]] <= mem[SectionOrder[n]]
    /\ pc[t] = "idle" => call[t].next = 1
    /\ pc[t] \in Writing => call[t].next = 7

\* The files a save has replaced so far hold its image, and the one it is
\* replacing is not whole before the write.
FilesWritten ==
  \A t \in Threads : pc[t] \in Writing =>
    /\ pc[t] \in {"open", "write"} => mount[call[t].target] = BadFile
    /\ call[t].main /\ (call[t].target = "Backup" \/ pc[t] = "commit")
         => mount["Main"] = call[t].copy
    /\ call[t].backup /\ pc[t] = "commit" => mount["Backup"] = call[t].copy
    /\ pc[t] # "commit" /\ call[t].target = "Main" => call[t].main

\* Every save writes a file.
SomeFile ==
  /\ saveSystem.isBusy => saveSystem.writeMain \/ saveSystem.writeBackup
  /\ \A t \in Threads : pc[t] \in Writing \cup {"snapshot"} => call[t].main \/ call[t].backup

IInv ==
  /\ TypeOK
  /\ OneCaller
  /\ MemoryLoaded
  /\ SnapshotBounded
  /\ FilesWritten
  /\ ImagesLoadable
  /\ SomeFile

\* When the game never saves to Backup.bin alone, every save writes SaveData.bin
\* and Commit finds it whole.
MainWritten ==
  /\ saveSystem.isBusy => saveSystem.writeMain
  /\ \A t \in Threads : pc[t] \in Writing \cup {"snapshot"} => call[t].main
  /\ disk["Main"] # BadFile

\* The memory is what the migration makes of the value v of PlayerWork.
IsMigrated(v) == \A s \in Sections \ {"main"} : mem[s] = Migrated(v)[s]

\* What a load has of the file so far: PlayerWork when it was parsed, every
\* struct once LoadCustomSaveData and, for a file that has none, the first
\* migration have run.
LoadedRight ==
  /\ pc["main"] \in {"boot", "idle"} \cup SaveSteps => loaded = NoFile
  /\ pc["main"] = "load_parts" => mem["playerWork"] = loaded["playerWork"]
  /\ pc["main"] = "migrate" /\ IsImage(loaded) =>
       CASE Complete(loaded) ->
              mem["main"] # Vanilla /\ \A s \in Sections \ {"main"} : mem[s] = loaded[s]
         [] ~Complete(loaded) /\ mem["main"] = Vanilla ->
              mem["playerWork"] = loaded["playerWork"]
         [] OTHER ->
              mem["main"] <= CURRENT_VERSION /\ IsMigrated(loaded["playerWork"])

\* A committed SaveData.bin is missing only between DeleteFile and CreateFile.
NotHidden ==
  mount["Main"] = NoFile /\ disk["Main"] # NoFile =>
    \E t \in Threads : pc[t] = "create" /\ call[t].target = "Main"

\* A load has read one of the files, or found no SaveData.bin, and has raised the
\* version from that of the file by no more than it takes.
LoadTraced ==
  pc["main"] \in LoadSteps =>
    /\ \/ IsImage(loaded) /\ \E f \in Files : mount[f] = loaded
       \/ loaded = NoFile /\ mount["Main"] = NoFile /\ pc["main"] = "migrate"
    /\ pc["main"] = "migrate" =>
         LET read == IF IsImage(loaded) THEN loaded["main"] ELSE Vanilla
         IN /\ read <= mem["main"]
            /\ mem["main"] \in {read} \cup 0 .. CURRENT_VERSION
            /\ loaded = NoFile /\ mem["main"] # Vanilla => IsMigrated(mem["playerWork"])

\* A save replaces only files it was asked to write.
OwnFiles ==
  \A t \in Threads : pc[t] \in Writing \ {"commit"} => call[t].target \in Written(t)

=============================================================================
