--------------------------- MODULE SaveSafetyProofs ---------------------------
(***************************************************************************)
(* The safety of saving, for every value of the constants, when the game   *)
(* does not save or load on its main thread while the save thread runs     *)
(* (~Overlap).  The invariant is IInv of SaveInv.                          *)
(***************************************************************************)
EXTENDS SaveProofs

LEMMA ThreadCases == \A t \in Threads : t = "main" \/ t = "worker"
BY DEF Threads

LEMMA ContentCases ==
  /\ ~IsImage(NoFile) /\ ~IsImage(BadFile)
  /\ \A i \in Image : IsImage(i)
  /\ \A c \in Content : IsImage(c) => c \in Image
  /\ BadFile # NoFile
BY Constants DEF IsImage, Content

LEMMA SectionOrderCovers ==
  /\ Len(SectionOrder) = 6
  /\ \A n \in 1..6 : SectionOrder[n] \in Sections
  /\ \A s \in Sections : \E n \in 1..6 : SectionOrder[n] = s
<1>1. SectionOrder[1] = "playerWork" /\ SectionOrder[2] = "main" /\ SectionOrder[3] = "color"
      /\ SectionOrder[4] = "dex" /\ SectionOrder[5] = "ayou" /\ SectionOrder[6] = "settings"
  BY DEF SectionOrder
<1>2. QED
  BY <1>1, SectionOrderType DEF Sections

\* While a thread is inside Save the other is not, nor is its save requested.
LEMMA Exclusive ==
  ASSUME ~Overlap, IInv, NEW t \in Threads, pc[t] \in SaveSteps,
         NEW u \in Threads, u # t
  PROVE  ~Saving(u) /\ pc[u] \notin SaveSteps /\ pc[u] \notin Writing
BY ThreadCases DEF IInv, OneCaller, Saving, SaveSteps, Writing

\* A finished snapshot is a complete image, not older than the request.
LEMMA SnapshotComplete ==
  ASSUME IInv, NEW t \in Threads, pc[t] \in Writing
  PROVE  /\ call[t].copy \in Image
         /\ Complete(call[t].copy)
         /\ \A s \in Sections : call[t].copy[s] >= call[t].asked[s] /\ call[t].copy[s] <= mem[s]
         /\ t = "main" => call[t].copy = call[t].asked
<1>1. call[t] \in Call /\ mem \in Image
  BY DEF IInv, TypeOK
<1>2. call[t].copy \in Image /\ call[t].asked \in Image
  BY <1>1 DEF Call
<1>3. /\ Saving(t) /\ call[t].next = 7
      /\ Complete(call[t].asked)
      /\ t = "main" => mem = call[t].asked
      /\ \A n \in 1..6 : /\ call[t].asked[SectionOrder[n]] <= call[t].copy[SectionOrder[n]]
                         /\ call[t].copy[SectionOrder[n]] <= mem[SectionOrder[n]]
  BY DEF IInv, SnapshotBounded, Saving
<1>4. \A s \in Sections : /\ call[t].asked[s] <= call[t].copy[s]
                          /\ call[t].copy[s] <= mem[s]
                          /\ call[t].asked[s] \in Int /\ call[t].copy[s] \in Int /\ mem[s] \in Int
  BY <1>1, <1>2, <1>3, SectionOrderCovers DEF Image
<1>5. Complete(mem)
  BY <1>3, ThreadCases DEF IInv, OneCaller, MemoryLoaded, Saving, Writing, SaveSteps
<1>6. Complete(call[t].copy)
  BY <1>3, <1>4, <1>5 DEF Complete, Sections, Re_Lease, Dev
<1>7. t = "main" => call[t].copy = call[t].asked
  BY <1>2, <1>3, <1>4 DEF Image
<1>8. QED
  BY <1>2, <1>4, <1>6, <1>7

-----------------------------------------------------------------------------
(* Each operation preserves IInv. *)

\* Inv without the type, for the steps below.
LEMMA InvOfParts ==
  ASSUME IInv, [Next]_vars, OneCaller', MemoryLoaded', SnapshotBounded', FilesWritten',
         ImagesLoadable', SomeFile'
  PROVE  IInv'
BY TypeStep DEF IInv

LEMMA LoadStarts ==
  ASSUME ~Overlap, IInv, NEW b \in BOOLEAN, CustomLoadOperation(b)
  PROVE  IInv'
<1> USE Constants, ThreadNames, ThreadCases, ContentCases
<1>1. [Next]_vars
  BY DEF Next, Game
<1>2. /\ ~saveSystem.isBusy /\ pc["worker"] = "idle" /\ pc["main"] \in {"boot", "idle"}
      /\ UNCHANGED <<mount, disk, saveSystem, call>>
  BY DEF CustomLoadOperation, MainThreadFree, IInv, OneCaller
<1>3. pc'["worker"] = "idle" /\ pc'["main"] \in {"load_parts", "migrate", "aborted"}
  BY <1>2 DEF CustomLoadOperation, LoadFound, LoadFailed, LoadNothing, Goto, IInv, TypeOK
<1>4. OneCaller'
  BY <1>2, <1>3 DEF OneCaller, IInv
<1>5. MemoryLoaded'
  <2>1. FileOf(b) \in Files
    BY DEF FileOf, Files
  <2>2. mem'["main"] = Vanilla
    BY DEF CustomLoadOperation, LoadFound, LoadFailed, LoadNothing, IInv, TypeOK, Image, Sections
  <2>3. CASE LoadFound(b)
    <3>1. Loadable(mount[FileOf(b)])
      <4>1. IsImage(mount[FileOf(b)])
        BY <2>3 DEF LoadFound
      <4>2. ImagesLoadable
        BY DEF IInv
      <4>3. QED
        BY <2>1, <4>1, <4>2, Zenon DEF ImagesLoadable
    <3>2. mount[FileOf(b)]["playerWork"] \in Nat
      BY <3>1 DEF Loadable, Complete, Sections
    <3>3. mem'["playerWork"] \in Nat
      BY <2>3, <3>2 DEF LoadFound, IInv, TypeOK, Image, Sections
    <3>4. QED
      BY <2>2, <2>3, <3>1, <3>3 DEF LoadFound, MemoryLoaded, Goto, IInv, TypeOK, SaveSteps
  <2>4. CASE LoadFailed(b) \/ LoadNothing(b)
    <3>1. mem'["playerWork"] \in Nat
      BY <2>4 DEF LoadFailed, LoadNothing, IInv, MemoryLoaded, TypeOK, Image, Sections
    <3>2. QED
      BY <2>2, <2>4, <3>1 DEF LoadFailed, LoadNothing, MemoryLoaded, Goto, IInv, TypeOK, SaveSteps
  <2>5. QED
    BY <2>3, <2>4 DEF CustomLoadOperation
<1>6. SnapshotBounded'
  BY <1>2, <1>3 DEF SnapshotBounded, Saving, Writing
<1>7. FilesWritten' /\ SomeFile'
  BY <1>2, <1>3 DEF FilesWritten, SomeFile, Writing
<1>8. ImagesLoadable'
  BY <1>2 DEF IInv, ImagesLoadable
<1>9. QED
  BY <1>1, <1>4, <1>5, <1>6, <1>7, <1>8, InvOfParts

LEMMA LoadContinues ==
  ASSUME ~Overlap, IInv, LoadStep
  PROVE  IInv'
<1> USE Constants, ThreadNames, ThreadCases, ContentCases
<1>1. [Next]_vars
  BY DEF Next
<1>2. /\ ~saveSystem.isBusy /\ pc["worker"] = "idle" /\ pc["main"] \in LoadSteps
      /\ UNCHANGED <<mount, disk, saveSystem, call>>
  BY DEF LoadStep, LoadCustomSaveData, MigrateStep, LoadReturns, IInv, OneCaller, LoadSteps
<1>3. pc'["worker"] = "idle" /\ pc'["main"] \in {"migrate", "idle"}
  BY <1>2 DEF LoadStep, LoadCustomSaveData, MigrateStep, LoadReturns, Goto, IInv, TypeOK
<1>4. OneCaller'
  BY <1>2, <1>3 DEF OneCaller, IInv
<1>5. MemoryLoaded'
  <2>1. CASE LoadCustomSaveData
    <3>1. mem["playerWork"] \in Nat /\ mem["main"] = Vanilla /\ Loadable(loaded)
      BY <2>1 DEF LoadCustomSaveData, IInv, MemoryLoaded
    <3>2. mem'["playerWork"] \in Nat
      BY <2>1, <3>1 DEF LoadCustomSaveData, Sections
    <3>3. mem'["main"] = Vanilla \/ Complete(mem')
      BY <2>1, <3>1, <3>2 DEF LoadCustomSaveData, Loadable, Complete, Sections, Missing,
                              Vanilla, Re_Lease, Dev
    <3>4. QED
      BY <2>1, <3>2, <3>3 DEF LoadCustomSaveData, MemoryLoaded, Goto, IInv, TypeOK, SaveSteps
  <2>2. CASE MigrateStep
    <3>1. mem["playerWork"] \in Nat /\ (mem["main"] = Vanilla \/ Complete(mem))
      BY <2>2 DEF MigrateStep, IInv, MemoryLoaded
    <3>2. Complete(mem')
      <4>1. Expanded(mem["playerWork"]) \in Nat /\ BodyColor(mem["playerWork"]) \in Nat
        BY <3>1, Expansion
      <4>2. CASE migrateToReLease
        BY <4>1, <4>2 DEF migrateToReLease, Complete, Sections, Re_Lease, Dev
      <4>3. CASE ~migrateToReLease
        BY <2>2, <3>1, <4>3 DEF MigrateStep, Complete, Sections,
                        Vanilla, Re_Lease, Future, Dev, IInv, TypeOK, Image
      <4>4. QED
        BY <4>2, <4>3
    <3>3. QED
      BY <2>2, <3>2 DEF MigrateStep, MemoryLoaded, Complete, Sections, SaveSteps
  <2>3. CASE LoadReturns
    <3>1. mem["main"] # Vanilla /\ Complete(mem) /\ UNCHANGED mem
      BY <2>3 DEF LoadReturns, IInv, MemoryLoaded, Vanilla
    <3>2. QED
      BY <2>3, <3>1 DEF LoadReturns, MemoryLoaded, Complete, Sections, Goto, IInv, TypeOK
  <2>4. QED
    BY <2>1, <2>2, <2>3 DEF LoadStep
<1>6. SnapshotBounded'
  BY <1>2, <1>3 DEF SnapshotBounded, Saving, Writing
<1>7. FilesWritten' /\ SomeFile'
  BY <1>2, <1>3 DEF FilesWritten, SomeFile, Writing
<1>8. ImagesLoadable'
  BY <1>2 DEF IInv, ImagesLoadable
<1>9. QED
  BY <1>1, <1>4, <1>5, <1>6, <1>7, <1>8, InvOfParts

\* A change of a section leaves a requested snapshot a lower bound of the memory.
LEMMA GameChanges ==
  ASSUME ~Overlap, IInv, NEW s \in MutableSections, ChangeSection(s)
  PROVE  IInv'
<1> USE Constants, ThreadNames, ThreadCases
<1>1. [Next]_vars
  BY DEF Next, Game
<1>2. /\ pc["main"] = "idle" /\ Complete(mem)
      /\ UNCHANGED <<mount, disk, playerWork, saveSystem, loaded, pc, call>>
      /\ mem' = [mem EXCEPT ![s] = NextValue(s)]
  BY DEF ChangeSection, IInv, MemoryLoaded
<1>3. /\ mem \in Image /\ s \in Sections /\ s # "main" /\ mem[s] \in Nat
      /\ NextValue(s) \in Nat /\ mem[s] <= NextValue(s)
  BY <1>2 DEF IInv, TypeOK, Complete, NextValue
<1>4. \A r \in Sections : mem'[r] \in Nat /\ mem[r] <= mem'[r] /\ mem[r] \in Nat
  BY <1>2, <1>3 DEF Image, Complete
<1>5. Complete(mem')
  BY <1>2, <1>3, <1>4 DEF Complete, Image, Sections
<1>6. MemoryLoaded'
  BY <1>2, <1>4, <1>5 DEF MemoryLoaded, Sections
<1>7. SnapshotBounded'
  <2> SUFFICES ASSUME NEW t \in Threads, Saving(t)
               PROVE  /\ \A r \in Sections : call[t].asked[r] <= mem'[r]
                      /\ t = "main" => mem' = call[t].asked
                      /\ \A n \in 1..6 : n < call[t].next =>
                           call[t].copy[SectionOrder[n]] <= mem'[SectionOrder[n]]
    BY <1>2 DEF SnapshotBounded, Saving, IInv
  <2>1. t # "main"
    BY <1>2 DEF Saving, Writing
  <2>2. call[t].asked \in Image /\ call[t].copy \in Image
    BY DEF IInv, TypeOK, Call
  <2>3. \A r \in Sections : call[t].asked[r] \in Int /\ call[t].copy[r] \in Int
    BY <2>2 DEF Image
  <2>4. \A r \in Sections : call[t].asked[r] <= mem'[r]
    BY <1>4, <2>3 DEF IInv, SnapshotBounded
  <2>5. \A n \in 1..6 : n < call[t].next =>
          call[t].copy[SectionOrder[n]] <= mem'[SectionOrder[n]]
    BY <1>4, <2>3, SectionOrderType DEF IInv, SnapshotBounded
  <2>6. QED
    BY <2>1, <2>4, <2>5
<1>8. OneCaller' /\ FilesWritten' /\ SomeFile' /\ ImagesLoadable'
  BY <1>2 DEF OneCaller, FilesWritten, SomeFile, ImagesLoadable, IInv
<1>9. QED
  BY <1>1, <1>6, <1>7, <1>8, InvOfParts

\* A save on the main thread starts with an empty copy of the memory it was
\* asked to save.
LEMMA MainSaves ==
  ASSUME ~Overlap, IInv, NEW f \in Flags, CustomSaveOperation(f)
  PROVE  IInv'
<1> USE Constants, ThreadNames, ThreadCases
<1>1. [Next]_vars
  BY DEF Next, Game
<1>2. /\ ~saveSystem.isBusy /\ pc["worker"] = "idle" /\ pc["main"] = "idle"
      /\ UNCHANGED <<mount, disk, mem, saveSystem, loaded>>
      /\ pc'["worker"] = "idle" /\ pc'["main"] = "snapshot"
  BY DEF CustomSaveOperation, MainThreadFree, Goto, IInv, OneCaller, TypeOK
<1>3. Complete(mem) /\ mem \in Image
  BY <1>2 DEF IInv, MemoryLoaded, TypeOK
<1>4. /\ call'["main"].asked = mem /\ call'["main"].next = 1
      /\ call'["main"].main = f[1] /\ call'["main"].backup = f[2]
  BY DEF CustomSaveOperation, NewCall, IInv, TypeOK
<1>5. f[1] \/ f[2]
  BY SaveAssumption
<1>6. OneCaller' /\ MemoryLoaded' /\ ImagesLoadable'
  BY <1>2, <1>3 DEF OneCaller, MemoryLoaded, ImagesLoadable, IInv, SaveSteps
<1>7. SnapshotBounded'
  BY <1>2, <1>3, <1>4 DEF SnapshotBounded, Saving, Writing, Image
<1>8. FilesWritten' /\ SomeFile'
  BY <1>2, <1>4, <1>5 DEF FilesWritten, SomeFile, Writing
<1>9. QED
  BY <1>1, <1>6, <1>7, <1>8, InvOfParts

\* A request that SaveAsync takes is one of a complete memory.
LEMMA SaveRequested ==
  ASSUME ~Overlap, IInv, NEW f \in Flags, CustomSaveAsyncOperation(f)
  PROVE  IInv'
<1> USE Constants, ThreadNames, ThreadCases
<1>1. [Next]_vars
  BY DEF Next, Game
<1>2. pc["main"] = "idle" /\ UNCHANGED <<mount, disk, mem, loaded, pc>>
  BY DEF CustomSaveAsyncOperation
<1>3. Complete(mem) /\ mem \in Image
  BY <1>2 DEF IInv, MemoryLoaded, TypeOK
<1>4. f[1] \/ f[2]
  BY SaveAssumption
<1>5. MemoryLoaded' /\ ImagesLoadable'
  BY <1>2, <1>3 DEF MemoryLoaded, ImagesLoadable, IInv
<1>6. CASE saveSystem.isBusy
  <2>1. UNCHANGED <<saveSystem, call>>
    BY <1>6 DEF CustomSaveAsyncOperation, SaveAsync
  <2>2. QED
    BY <1>1, <1>2, <1>5, <2>1, InvOfParts
    DEF OneCaller, SnapshotBounded, Saving, FilesWritten, SomeFile, IInv
<1>7. CASE ~saveSystem.isBusy
  <2>1. /\ pc["worker"] = "idle"
        /\ saveSystem'.isBusy /\ saveSystem'.saveRequest
        /\ saveSystem'.writeMain = f[1] /\ saveSystem'.writeBackup = f[2]
        /\ call' = [call EXCEPT !["worker"] = NewCall(FALSE, FALSE, mem)]
    <3>1. pc["worker"] = "idle"
      BY <1>7 DEF IInv, OneCaller
    <3>2. /\ saveSystem' = [isBusy |-> TRUE, saveRequest |-> TRUE,
                            writeMain |-> f[1], writeBackup |-> f[2]]
          /\ call' = [call EXCEPT !["worker"] = NewCall(FALSE, FALSE, mem)]
      BY <1>7 DEF CustomSaveAsyncOperation, SaveAsync
    <3>3. QED
      BY <3>1, <3>2
  <2>2. call'["worker"].asked = mem /\ call'["worker"].next = 1
    BY <2>1 DEF NewCall, IInv, TypeOK
  <2>3. OneCaller'
    BY <1>2, <2>1 DEF OneCaller, IInv
  <2>4. SnapshotBounded'
    <3>1. \A t \in Threads : Saving(t)' => t = "worker"
      BY <1>2 DEF Saving, Writing
    <3>2. \A s \in Sections : mem[s] \in Int /\ mem[s] <= mem[s]
      BY <1>3 DEF Image
    <3>3. pc'["worker"] = "idle" /\ UNCHANGED mem
      BY <1>2, <2>1
    <3>4. \A n \in 1..6 : ~(n < 1)
      OBVIOUS
    <3>5. QED
      BY <1>3, <2>2, <3>1, <3>2, <3>3, <3>4 DEF SnapshotBounded, Writing
  <2>5. FilesWritten' /\ SomeFile'
    BY <1>2, <1>4, <2>1 DEF FilesWritten, SomeFile, Writing
  <2>6. QED
    BY <1>1, <1>5, <2>3, <2>4, <2>5, InvOfParts
<1>8. QED
  BY <1>6, <1>7

\* The save thread starts on a request that is still bounded by the memory.
LEMMA WorkerBegins ==
  ASSUME ~Overlap, IInv, WorkerStarts
  PROVE  IInv'
<1> USE ThreadNames, ThreadCases
<1>1. [Next]_vars
  BY DEF Next
<1>2. /\ pc["worker"] = "idle" /\ saveSystem.saveRequest /\ saveSystem.isBusy
      /\ pc["main"] = "idle"
      /\ UNCHANGED <<mount, disk, mem, playerWork, saveSystem, loaded>>
      /\ pc'["worker"] = "snapshot" /\ pc'["main"] = "idle"
  BY DEF WorkerStarts, Goto, IInv, OneCaller, TypeOK
<1>3. call["worker"] \in Call
  BY DEF IInv, TypeOK
<1>4. /\ call'["worker"].asked = call["worker"].asked
      /\ call'["worker"].next = call["worker"].next
      /\ call'["worker"].copy = call["worker"].copy
      /\ call'["worker"].main = saveSystem.writeMain
      /\ call'["worker"].backup = saveSystem.writeBackup
  BY <1>3 DEF WorkerStarts, Call, IInv, TypeOK
<1>5. OneCaller' /\ MemoryLoaded' /\ ImagesLoadable'
  BY <1>2 DEF OneCaller, MemoryLoaded, ImagesLoadable, IInv
<1>6. SnapshotBounded'
  BY <1>2, <1>4 DEF SnapshotBounded, Saving, Writing, IInv
<1>7. FilesWritten' /\ SomeFile'
  BY <1>2, <1>4 DEF FilesWritten, SomeFile, Writing, IInv
<1>8. QED
  BY <1>1, <1>5, <1>6, <1>7, InvOfParts

\* What a step inside Save leaves alone, and that the other thread is outside.
LEMMA SaveFrame ==
  ASSUME ~Overlap, IInv, NEW t \in Threads, pc[t] \in SaveSteps, pc'[t] \in SaveSteps,
         \A u \in Threads : u # t => pc'[u] = pc[u],
         UNCHANGED <<mem, saveSystem, loaded>>
  PROVE  /\ OneCaller' /\ MemoryLoaded'
         /\ \A u \in Threads : u # t =>
              ~Saving(u)' /\ pc'[u] \notin Writing \cup {"snapshot"}
<1> USE ThreadNames, ThreadCases
<1>1. \A u \in Threads : u # t => ~Saving(u) /\ pc[u] \notin SaveSteps
  BY Exclusive
<1>2. Writing \cup {"snapshot"} \subseteq SaveSteps /\ "idle" \notin SaveSteps
  BY DEF Writing, SaveSteps
<1>3. \A u \in Threads : u # t => ~Saving(u)' /\ pc'[u] \notin Writing \cup {"snapshot"}
  BY <1>1, <1>2 DEF Saving
<1>4. OneCaller'
  BY <1>1, <1>2 DEF OneCaller, IInv
<1>5. MemoryLoaded'
  BY DEF MemoryLoaded, IInv, SaveSteps
<1>6. QED
  BY <1>3, <1>4, <1>5

\* A step of Save that keeps the copy keeps its bounds.
LEMMA SnapshotKept ==
  ASSUME ~Overlap, IInv, NEW t \in Threads, pc[t] \in Writing,
         pc'[t] \in Writing \cup {"return"}, UNCHANGED mem,
         call'[t].asked = call[t].asked, call'[t].copy = call[t].copy,
         call'[t].next = call[t].next,
         \A u \in Threads : u # t => ~Saving(u)'
  PROVE  SnapshotBounded'
<1>1. Saving(t) /\ call[t].next = 7
  BY DEF IInv, SnapshotBounded, Saving
<1>2. SUFFICES ASSUME pc'[t] \in Writing
               PROVE  /\ Complete(call[t].asked)
                      /\ \A s \in Sections : call[t].asked[s] <= mem[s]
                      /\ t = "main" => mem = call[t].asked
                      /\ \A n \in 1..6 : n < call[t].next =>
                           /\ call[t].asked[SectionOrder[n]] <= call[t].copy[SectionOrder[n]]
                           /\ call[t].copy[SectionOrder[n]] <= mem[SectionOrder[n]]
  <2>1. Saving(t)' => pc'[t] \in Writing
    BY DEF Saving, Writing
  <2>2. pc'[t] \in Writing => pc'[t] # "idle"
    BY DEF Writing
  <2>3. QED
    BY <1>1, <1>2, <2>1, <2>2 DEF SnapshotBounded
<1>3. QED
  BY <1>1 DEF IInv, SnapshotBounded

\* Replacing a file by nothing, by something unreadable or by a loadable image.
LEMMA FileReplaced ==
  ASSUME IInv, NEW t \in Threads, NEW c, IsImage(c) => Loadable(c),
         SetFile(t, c) \/ UNCHANGED mount, UNCHANGED disk
  PROVE  ImagesLoadable'
<1>1. mount \in [Files -> Content] /\ ImagesLoadable
  BY DEF IInv, TypeOK
<1>2. \A f \in Files : mount'[f] = c \/ mount'[f] = mount[f]
  BY <1>1 DEF SetFile
<1>3. \A f \in Files : IsImage(mount'[f]) => Loadable(mount'[f])
  BY <1>1, <1>2, Zenon DEF ImagesLoadable
<1>4. \A f \in Files : IsImage(disk'[f]) => Loadable(disk'[f])
  BY <1>1, Zenon DEF ImagesLoadable
<1>5. QED
  BY <1>3, <1>4, Zenon DEF ImagesLoadable

LEMMA FileDeleted ==
  ASSUME ~Overlap, IInv, NEW t \in Threads, DeleteFile(t)
  PROVE  IInv'
<1> USE Constants, ThreadNames, ThreadCases, ContentCases
<1>1. [Next]_vars
  BY DEF Next, SaveStep
<1>2. /\ pc[t] = "delete" /\ pc'[t] = "create" /\ pc[t] \in Writing /\ pc[t] \in SaveSteps
      /\ pc'[t] \in Writing /\ pc'[t] \in SaveSteps
      /\ \A u \in Threads : u # t => pc'[u] = pc[u]
      /\ UNCHANGED <<disk, mem, playerWork, saveSystem, loaded, call>>
  BY DEF DeleteFile, Goto, IInv, TypeOK, Writing, SaveSteps
<1>3. /\ OneCaller' /\ MemoryLoaded'
      /\ \A u \in Threads : u # t => ~Saving(u)' /\ pc'[u] \notin Writing \cup {"snapshot"}
  BY <1>2, SaveFrame
<1>4. SnapshotBounded'
  BY <1>2, <1>3, SnapshotKept
<1>5. ImagesLoadable'
  BY <1>2, FileReplaced DEF DeleteFile
<1>6. SomeFile'
  BY <1>2, <1>3 DEF SomeFile, IInv
<1>7. FilesWritten'
  <2>1. call[t].main /\ call[t].target = "Backup" => mount["Main"] = call[t].copy
    BY <1>2 DEF IInv, FilesWritten
  <2>2. call[t].target = "Main" => call[t].main
    BY <1>2 DEF IInv, FilesWritten
  <2>3. call[t].target = "Backup" => mount'["Main"] = mount["Main"]
    BY DEF DeleteFile, SetFile, IInv, TypeOK, Files
  <2>4. QED
    BY <1>2, <1>3, <2>1, <2>2, <2>3 DEF FilesWritten
<1>8. QED
  BY <1>1, <1>3, <1>4, <1>5, <1>6, <1>7, InvOfParts

LEMMA FileCreated ==
  ASSUME ~Overlap, IInv, NEW t \in Threads, CreateFile(t)
  PROVE  IInv'
<1> USE Constants, ThreadNames, ThreadCases, ContentCases
<1>1. [Next]_vars
  BY DEF Next, SaveStep
<1>2. /\ pc[t] = "create" /\ pc'[t] \in {"open", "return"}
      /\ pc[t] \in Writing /\ pc[t] \in SaveSteps
      /\ pc'[t] \in Writing \cup {"return"} /\ pc'[t] \in SaveSteps
      /\ \A u \in Threads : u # t => pc'[u] = pc[u]
      /\ UNCHANGED <<disk, mem, playerWork, saveSystem, loaded, call>>
  BY DEF CreateFile, Goto, IInv, TypeOK, Writing, SaveSteps
<1>3. /\ OneCaller' /\ MemoryLoaded'
      /\ \A u \in Threads : u # t => ~Saving(u)' /\ pc'[u] \notin Writing \cup {"snapshot"}
  BY <1>2, SaveFrame
<1>4. SnapshotBounded'
  BY <1>2, <1>3, SnapshotKept
<1>5. ImagesLoadable'
  BY <1>2, FileReplaced DEF CreateFile
<1>6. SomeFile'
  BY <1>2, <1>3 DEF SomeFile, IInv, Writing
<1>7. FilesWritten'
  <2>1. call[t].main /\ call[t].target = "Backup" => mount["Main"] = call[t].copy
    BY <1>2 DEF IInv, FilesWritten
  <2>2. call[t].target = "Main" => call[t].main
    BY <1>2 DEF IInv, FilesWritten
  <2>3. call[t].target = "Backup" => mount'["Main"] = mount["Main"]
    BY DEF CreateFile, SetFile, IInv, TypeOK, Files
  <2>4. pc'[t] = "open" => mount'[call[t].target] = BadFile
    <3>1. pc'[t] = "open" => SetFile(t, BadFile)
      BY DEF CreateFile, Goto, IInv, TypeOK
    <3>2. call[t].target \in Files
      BY DEF IInv, TypeOK, Call
    <3>3. QED
      BY <3>1, <3>2 DEF SetFile, IInv, TypeOK
  <2>5. QED
    BY <1>2, <1>3, <2>1, <2>2, <2>3, <2>4 DEF FilesWritten, Writing
<1>8. QED
  BY <1>1, <1>3, <1>4, <1>5, <1>6, <1>7, InvOfParts

LEMMA FileOpened ==
  ASSUME ~Overlap, IInv, NEW t \in Threads, OpenFile(t)
  PROVE  IInv'
<1> USE Constants, ThreadNames, ThreadCases, ContentCases
<1>1. [Next]_vars
  BY DEF Next, SaveStep
<1>2. /\ pc[t] = "open" /\ pc'[t] \in {"write", "return"}
      /\ pc[t] \in Writing /\ pc[t] \in SaveSteps
      /\ pc'[t] \in Writing \cup {"return"} /\ pc'[t] \in SaveSteps
      /\ \A u \in Threads : u # t => pc'[u] = pc[u]
      /\ UNCHANGED <<mount, disk, mem, playerWork, saveSystem, loaded, call>>
  BY DEF OpenFile, Goto, IInv, TypeOK, Writing, SaveSteps
<1>3. /\ OneCaller' /\ MemoryLoaded'
      /\ \A u \in Threads : u # t => ~Saving(u)' /\ pc'[u] \notin Writing \cup {"snapshot"}
  BY <1>2, SaveFrame
<1>4. SnapshotBounded'
  BY <1>2, <1>3, SnapshotKept
<1>5. ImagesLoadable' /\ SomeFile'
  BY <1>2, <1>3 DEF ImagesLoadable, SomeFile, IInv, Writing
<1>6. FilesWritten'
  BY <1>2, <1>3 DEF FilesWritten, IInv, Writing
<1>7. QED
  BY <1>1, <1>3, <1>4, <1>5, <1>6, InvOfParts

\* The file under way holds the whole copy after the write, or Save returns.
LEMMA FileWritten ==
  ASSUME ~Overlap, IInv, NEW t \in Threads, WriteFile(t)
  PROVE  IInv'
<1> USE Constants, ThreadNames, ThreadCases, ContentCases
<1>1. [Next]_vars
  BY DEF Next, SaveStep
<1>2. /\ pc[t] = "write" /\ pc'[t] \in {"delete", "commit", "return"}
      /\ pc[t] \in Writing /\ pc[t] \in SaveSteps
      /\ pc'[t] \in Writing \cup {"return"} /\ pc'[t] \in SaveSteps
      /\ \A u \in Threads : u # t => pc'[u] = pc[u]
      /\ UNCHANGED <<disk, mem, playerWork, saveSystem, loaded>>
  BY DEF WriteFile, Goto, IInv, TypeOK, Writing, SaveSteps
<1>3. /\ OneCaller' /\ MemoryLoaded'
      /\ \A u \in Threads : u # t => ~Saving(u)' /\ pc'[u] \notin Writing \cup {"snapshot"}
  BY <1>2, SaveFrame
<1>4. call[t] \in Call /\ call \in [Threads -> Call] /\ call[t].target \in Files
  BY DEF IInv, TypeOK, Call
<1>5. /\ call'[t].asked = call[t].asked /\ call'[t].copy = call[t].copy
      /\ call'[t].next = call[t].next
      /\ call'[t].main = call[t].main /\ call'[t].backup = call[t].backup
  BY <1>4 DEF WriteFile, Call
<1>6. SnapshotBounded'
  BY <1>2, <1>3, <1>5, SnapshotKept
<1>7. ImagesLoadable'
  <2>1. IsImage(call[t].copy) => Loadable(call[t].copy)
    BY <1>2, SnapshotComplete DEF Loadable
  <2>2. ~IsImage(BadFile)
    OBVIOUS
  <2>3. SetFile(t, call[t].copy) \/ SetFile(t, BadFile) \/ UNCHANGED mount
    BY DEF WriteFile
  <2>4. QED
    BY <1>2, <2>1, <2>2, <2>3, FileReplaced
<1>8. SomeFile'
  BY <1>2, <1>3, <1>5 DEF SomeFile, IInv, Writing
<1>9. FilesWritten'
  <2>1. /\ mount[call[t].target] = BadFile
        /\ call[t].main /\ call[t].target = "Backup" => mount["Main"] = call[t].copy
        /\ call[t].target = "Main" => call[t].main
    BY <1>2 DEF IInv, FilesWritten
  <2>2. Target(t) # NoFile
    BY <2>1 DEF Target
  <2>3. pc'[t] # "return" => SetFile(t, call[t].copy)
    BY <1>4, <2>2 DEF WriteFile, Goto, IInv, TypeOK
  <2>4. pc'[t] # "return" =>
           /\ mount'[call[t].target] = call[t].copy
           /\ call[t].target = "Backup" => mount'["Main"] = mount["Main"]
    BY <1>4, <2>3 DEF SetFile, IInv, TypeOK, Files
  <2>5. \/ pc'[t] = "delete" /\ call[t].target = "Main" /\ call'[t].target = "Backup"
        \/ pc'[t] = "commit" /\ UNCHANGED call /\ (call[t].target = "Backup" \/ ~call[t].backup)
        \/ pc'[t] = "return"
    BY <1>4 DEF WriteFile, Goto, IInv, TypeOK, Call
  <2>6. SUFFICES ASSUME pc'[t] \in Writing
                 PROVE /\ pc'[t] \notin {"open", "write"}
                       /\ call'[t].main => mount'["Main"] = call'[t].copy
                       /\ call'[t].backup /\ pc'[t] = "commit" => mount'["Backup"] = call'[t].copy
                       /\ pc'[t] # "commit" /\ call'[t].target = "Main" => call'[t].main
    BY <1>3 DEF FilesWritten
  <2>7. CASE pc'[t] = "delete"
    BY <1>5, <2>1, <2>4, <2>5, <2>7
  <2>8. CASE pc'[t] = "commit"
    <3>1. call[t].target = "Main" \/ call[t].target = "Backup"
      BY <1>4 DEF Files
    <3>2. QED
      BY <2>1, <2>4, <2>5, <2>8, <3>1
  <2>9. QED
    BY <2>5, <2>6, <2>7, <2>8 DEF Writing
<1>10. QED
  BY <1>1, <1>3, <1>6, <1>7, <1>8, <1>9, InvOfParts

\* A commit makes images durable that were loadable before it.
LEMMA Commits ==
  ASSUME ~Overlap, IInv, NEW t \in Threads, Commit(t)
  PROVE  IInv'
<1> USE Constants, ThreadNames, ThreadCases, ContentCases
<1>1. [Next]_vars
  BY DEF Next, SaveStep
<1>2. /\ pc[t] = "commit" /\ pc'[t] = "return"
      /\ pc[t] \in Writing /\ pc[t] \in SaveSteps
      /\ pc'[t] \in Writing \cup {"return"} /\ pc'[t] \in SaveSteps
      /\ \A u \in Threads : u # t => pc'[u] = pc[u]
      /\ UNCHANGED <<mount, mem, saveSystem, loaded, call>>
      /\ disk' = mount \/ disk' = disk
  BY DEF Commit, Goto, IInv, TypeOK, Writing, SaveSteps
<1>3. /\ OneCaller' /\ MemoryLoaded'
      /\ \A u \in Threads : u # t => ~Saving(u)' /\ pc'[u] \notin Writing \cup {"snapshot"}
  BY <1>2, SaveFrame
<1>4. SnapshotBounded'
  BY <1>2, <1>3, SnapshotKept
<1>5. ImagesLoadable'
  <2>1. ImagesLoadable
    BY DEF IInv
  <2>2. QED
    BY <1>2, <2>1 DEF ImagesLoadable
<1>6. FilesWritten' /\ SomeFile'
  BY <1>2, <1>3 DEF FilesWritten, SomeFile, IInv, Writing
<1>7. QED
  BY <1>1, <1>3, <1>4, <1>5, <1>6, InvOfParts

LEMMA SaveEnded ==
  ASSUME ~Overlap, IInv, NEW t \in Threads, SaveReturns(t)
  PROVE  IInv'
<1> USE Constants, ThreadNames, ThreadCases, ContentCases
<1>1. [Next]_vars
  BY DEF Next, SaveStep
<1>2. /\ pc[t] = "return" /\ pc'[t] = "idle"
      /\ \A u \in Threads : u # t => pc'[u] = pc[u] /\ ~Saving(u) /\ pc[u] \notin SaveSteps
      /\ UNCHANGED <<mount, disk, mem, loaded>>
      /\ pc[t] \in SaveSteps
  BY Exclusive DEF SaveReturns, Goto, IInv, TypeOK, SaveSteps
<1>3. ~saveSystem'.isBusy /\ ~saveSystem'.saveRequest
  <2>1. CASE t = "main"
    BY <1>2, <2>1 DEF SaveReturns, IInv, OneCaller, SaveSteps
  <2>2. CASE t = "worker"
    BY <2>2 DEF SaveReturns, IInv, TypeOK, SaveSystemFields
  <2>3. QED
    BY <2>1, <2>2
<1>4. \A u \in Threads : pc'[u] \notin SaveSteps /\ ~Saving(u)'
  BY <1>2, <1>3 DEF Saving, SaveSteps, Writing
<1>5. OneCaller'
  <2>1. saveSystem'.isBusy = FALSE /\ saveSystem'.saveRequest = FALSE
        /\ pc'["worker"] \in SaveSteps \cup {"idle"}
    BY <1>1, <1>3, TypeStep DEF IInv, TypeOK, SaveSystemFields
  <2>2. pc'["worker"] = "idle"
    BY <1>4, <2>1
  <2>3. QED
    BY <1>3, <2>1, <2>2 DEF OneCaller
<1>6. MemoryLoaded'
  BY <1>2 DEF MemoryLoaded, IInv, OneCaller, SaveSteps
<1>7. SnapshotBounded'
  BY <1>4 DEF SnapshotBounded
<1>8. FilesWritten' /\ SomeFile'
  BY <1>3, <1>4 DEF FilesWritten, SomeFile, SaveSteps, Writing
<1>9. ImagesLoadable'
  BY <1>2 DEF ImagesLoadable, IInv
<1>10. QED
  BY <1>1, <1>5, <1>6, <1>7, <1>8, <1>9, InvOfParts

\* What the serialisation of a section does to the call.
LEMMA SnapshotCall ==
  ASSUME TypeOK, NEW t \in Threads, SnapshotSection(t)
  PROVE  LET n == call[t].next
             s == SectionOrder[n]
         IN /\ call'[t].asked = call[t].asked /\ call'[t].main = call[t].main
            /\ call'[t].backup = call[t].backup
            /\ call'[t].copy = [call[t].copy EXCEPT ![s] = mem[s]] /\ call'[t].next = n + 1
            /\ \A u \in Threads : u # t => call'[u] = call[u]
<1> DEFINE n == call[t].next
           s == SectionOrder[n]
           serialised == [call[t] EXCEPT !.copy = [call[t].copy EXCEPT ![s] = mem[s]], !.next = n + 1]
<1>1. call[t] \in Call /\ call \in [Threads -> Call]
  BY DEF TypeOK
<1>2. \/ call' = [call EXCEPT ![t] = serialised]
      \/ call' = [call EXCEPT ![t] =
            [serialised EXCEPT !.target = IF call[t].main THEN "Main" ELSE "Backup"]]
  BY DEF SnapshotSection
<1>3. \/ call'[t] = serialised
      \/ call'[t] = [serialised EXCEPT !.target = IF call[t].main THEN "Main" ELSE "Backup"]
  BY <1>1, <1>2
<1>4. \A u \in Threads : u # t => call'[u] = call[u]
  BY <1>1, <1>2
<1>5. QED
  BY <1>1, <1>3, <1>4 DEF Call

\* One section more lies between the request and now; after the last, all do.
LEMMA SectionSerialised ==
  ASSUME ~Overlap, IInv, NEW t \in Threads, SnapshotSection(t)
  PROVE  IInv'
<1> USE Constants, ThreadNames, ThreadCases, ContentCases
<1> DEFINE n == call[t].next
           s == SectionOrder[n]
<1>1. [Next]_vars
  BY DEF Next, SaveStep
<1>2. /\ pc[t] = "snapshot" /\ pc'[t] \in {"snapshot", "delete", "commit"}
      /\ pc[t] \in SaveSteps /\ pc'[t] \in SaveSteps
      /\ \A u \in Threads : u # t => pc'[u] = pc[u]
      /\ UNCHANGED <<mount, disk, mem, playerWork, saveSystem, loaded>>
  BY DEF SnapshotSection, Goto, IInv, TypeOK, Writing, SaveSteps
<1>3. /\ OneCaller' /\ MemoryLoaded'
      /\ \A u \in Threads : u # t => ~Saving(u)' /\ pc'[u] \notin Writing \cup {"snapshot"}
  BY <1>2, SaveFrame
<1>4. call[t] \in Call /\ call \in [Threads -> Call] /\ call[t].copy \in Image /\ mem \in Image
      /\ call[t].asked \in Image /\ n \in 1..7
  BY DEF IInv, TypeOK, Call
<1>5. n \in 1..6 /\ s \in Sections
  BY <1>4, SectionOrderType, SectionOrderCovers DEF SnapshotSection
<1>6. /\ call'[t].asked = call[t].asked /\ call'[t].main = call[t].main
      /\ call'[t].backup = call[t].backup
      /\ call'[t].copy = [call[t].copy EXCEPT ![s] = mem[s]] /\ call'[t].next = n + 1
  BY SnapshotCall DEF IInv
<1>7. \/ pc'[t] = "snapshot"
      \/ /\ n = 6
         /\ call'[t].target = IF call[t].main THEN "Main" ELSE "Backup"
         /\ pc'[t] = IF call[t].main \/ call[t].backup THEN "delete" ELSE "commit"
  <2>1. CASE UNCHANGED pc
    BY <1>2, <2>1
  <2>2. CASE ~UNCHANGED pc
    <3>1. /\ n = 6
          /\ call' = [call EXCEPT ![t] =
                [[call[t] EXCEPT !.copy = [call[t].copy EXCEPT ![s] = mem[s]], !.next = n + 1]
                   EXCEPT !.target = IF call[t].main THEN "Main" ELSE "Backup"]]
          /\ Goto(t, IF call[t].main \/ call[t].backup THEN "delete" ELSE "commit")
      BY <2>2, SectionOrderCovers DEF SnapshotSection
    <3>2. call'[t].target = IF call[t].main THEN "Main" ELSE "Backup"
      BY <1>4, <3>1 DEF Call
    <3>3. pc'[t] = IF call[t].main \/ call[t].backup THEN "delete" ELSE "commit"
      BY <3>1 DEF Goto, IInv, TypeOK
    <3>4. QED
      BY <3>1, <3>2, <3>3
  <2>3. QED
    BY <2>1, <2>2
<1>8. Saving(t) /\ pc'[t] # "idle"
  BY <1>2 DEF Saving
<1>9. SnapshotBounded'
  <2>1. /\ Complete(call[t].asked)
        /\ \A r \in Sections : call[t].asked[r] <= mem[r]
        /\ t = "main" => mem = call[t].asked
        /\ \A k \in 1..6 : k < n =>
             /\ call[t].asked[SectionOrder[k]] <= call[t].copy[SectionOrder[k]]
             /\ call[t].copy[SectionOrder[k]] <= mem[SectionOrder[k]]
    BY <1>8 DEF IInv, SnapshotBounded
  <2>2. \A k \in 1..6 : k < n + 1 =>
          /\ call[t].asked[SectionOrder[k]] <= call'[t].copy[SectionOrder[k]]
          /\ call'[t].copy[SectionOrder[k]] <= mem[SectionOrder[k]]
    <3> SUFFICES ASSUME NEW k \in 1..6, k < n + 1
                 PROVE  /\ call[t].asked[SectionOrder[k]] <= call'[t].copy[SectionOrder[k]]
                        /\ call'[t].copy[SectionOrder[k]] <= mem[SectionOrder[k]]
      OBVIOUS
    <3>1. SectionOrder[k] \in Sections
      BY SectionOrderCovers
    <3>2. mem[SectionOrder[k]] \in Int
      BY <1>4, <3>1 DEF Image
    <3>3. CASE SectionOrder[k] = s
      BY <1>4, <1>5, <1>6, <2>1, <3>1, <3>2, <3>3 DEF Image
    <3>4. CASE SectionOrder[k] # s
      <4>1. k < n
        BY <1>4, <3>4
      <4>2. call'[t].copy[SectionOrder[k]] = call[t].copy[SectionOrder[k]]
        BY <1>4, <1>6, <3>1, <3>4 DEF Image
      <4>3. QED
        BY <2>1, <4>1, <4>2
    <3>5. QED
      BY <3>3, <3>4
  <2>3. pc'[t] \in Writing => n + 1 = 7
    BY <1>7 DEF Writing
  <2>4. \A u \in Threads : Saving(u)' => u = t
    BY <1>3
  <2>5. /\ Complete(call'[t].asked)
        /\ \A r \in Sections : call'[t].asked[r] <= mem'[r]
        /\ t = "main" => mem' = call'[t].asked
        /\ \A k \in 1..6 : k < call'[t].next =>
             /\ call'[t].asked[SectionOrder[k]] <= call'[t].copy[SectionOrder[k]]
             /\ call'[t].copy[SectionOrder[k]] <= mem'[SectionOrder[k]]
    BY <1>2, <1>6, <2>1, <2>2
  <2>6. pc'[t] \in Writing => call'[t].next = 7
    BY <1>6, <2>3
  <2>7. QED
    BY <1>8, <2>4, <2>5, <2>6 DEF SnapshotBounded
<1>10. SomeFile'
  BY <1>2, <1>3, <1>6 DEF SomeFile, IInv, Writing
<1>11. FilesWritten'
  <2>1. call[t].main \/ call[t].backup
    BY <1>2 DEF IInv, SomeFile
  <2>2. pc'[t] \in Writing => pc'[t] = "delete" /\ (call[t].main <=> call'[t].target = "Main")
    BY <1>7, <2>1 DEF Writing
  <2>3. QED
    BY <1>3, <1>6, <2>2 DEF FilesWritten
<1>12. ImagesLoadable'
  BY <1>2 DEF ImagesLoadable, IInv
<1>13. QED
  BY <1>1, <1>3, <1>9, <1>10, <1>11, <1>12, InvOfParts

\* A crash leaves the committed files and the memory of a new process.
LEMMA Crashes ==
  ASSUME IInv, Crash
  PROVE  IInv'
<1> USE Constants, ThreadNames, ThreadCases, ContentCases
<1>1. [Next]_vars
  BY DEF Next
<1>2. /\ pc'["main"] = "boot" /\ pc'["worker"] = "idle" /\ UNCHANGED disk /\ mount' = disk
      /\ mem'["playerWork"] \in Nat /\ ~saveSystem'.isBusy
      /\ saveSystem'.saveRequest = saveSystem'.isBusy
  BY DEF Crash, Unloaded, NewSaveSystem, Sections
<1>3. \A u \in Threads : pc'[u] \notin SaveSteps /\ ~Saving(u)'
  BY <1>2 DEF Saving, Writing, SaveSteps
<1>4. OneCaller' /\ MemoryLoaded'
  BY <1>2 DEF OneCaller, MemoryLoaded, SaveSteps
<1>5. SnapshotBounded' /\ FilesWritten' /\ SomeFile'
  BY <1>2, <1>3 DEF SnapshotBounded, FilesWritten, SomeFile, Writing, SaveSteps
<1>6. ImagesLoadable'
  <2>1. ImagesLoadable
    BY DEF IInv
  <2>2. QED
    BY <1>2, <2>1 DEF ImagesLoadable
<1>7. QED
  BY <1>1, <1>4, <1>5, <1>6, InvOfParts

LEMMA InvInit == Init => IInv
<1> SUFFICES ASSUME Init PROVE IInv
  OBVIOUS
<1> USE Constants, ThreadNames, ThreadCases, ContentCases
<1>1. /\ pc["main"] = "boot" /\ pc["worker"] = "idle" /\ mount = disk /\ disk \in InitialDisk
      /\ mem["playerWork"] \in Nat /\ ~saveSystem.isBusy
      /\ saveSystem.saveRequest = saveSystem.isBusy
  BY DEF Init, Unloaded, NewSaveSystem, Sections
<1>2. \A u \in Threads : pc[u] \notin SaveSteps /\ ~Saving(u)
  BY <1>1 DEF Saving, Writing, SaveSteps
<1>3. OneCaller /\ MemoryLoaded
  BY <1>1 DEF OneCaller, MemoryLoaded, SaveSteps
<1>4. SnapshotBounded /\ FilesWritten /\ SomeFile
  BY <1>1, <1>2 DEF SnapshotBounded, FilesWritten, SomeFile, Writing, SaveSteps
<1>5. ImagesLoadable
  BY <1>1, SaveAssumption DEF ImagesLoadable
<1>6. QED
  BY <1>3, <1>4, <1>5, TypeInit DEF IInv

LEMMA InvStep ==
  ASSUME ~Overlap, IInv, [Next]_vars
  PROVE  IInv'
<1>1. CASE UNCHANGED vars
  BY <1>1 DEF vars, IInv, TypeOK, OneCaller, MemoryLoaded, SnapshotBounded, Saving,
              FilesWritten, ImagesLoadable, SomeFile
<1>2. CASE Next
  BY <1>2, LoadStarts, LoadContinues, GameChanges, MainSaves, SaveRequested, WorkerBegins,
     SectionSerialised, FileDeleted, FileCreated, FileOpened, FileWritten, Commits, SaveEnded,
     Crashes
  DEF Next, Game, SaveStep
<1>3. QED
  BY <1>1, <1>2

-----------------------------------------------------------------------------
\* No call of Save ever leaves, committed or not, a whole file that the next
\* load would wipe or that lacks a section, if the game does not load or save
\* while its save thread runs.
THEOREM SavedImagesLoadable ==
  ASSUME ~Overlap
  PROVE  Spec => []ImagesLoadable
<1>1. IInv /\ [Next]_vars => IInv'
  BY InvStep
<1>2. IInv => ImagesLoadable
  BY DEF IInv
<1>3. QED
  BY <1>1, <1>2, InvInit, PTL DEF Spec

\* A commit makes the whole save durable: every file the call was to write, each
\* an image no older than the memory at its request.
THEOREM CommitsAreFresh ==
  ASSUME ~Overlap
  PROVE  Spec => FreshCommit
<1>1. ASSUME IInv, [Next]_vars, disk' # disk
      PROVE  \E t \in Threads :
               /\ pc[t] = "commit"
               /\ \A f \in Written(t) :
                    /\ IsImage(disk'[f])
                    /\ \A s \in Sections : disk'[f][s] >= call[t].asked[s]
                    /\ t = "main" => disk'[f] = call[t].asked
  <2>1. PICK t \in Threads : Commit(t) /\ disk' = mount
    BY <1>1 DEF Next, Game, CustomLoadOperation, CustomSaveOperation,
       CustomSaveAsyncOperation, ChangeSection, LoadStep, LoadCustomSaveData, MigrateStep,
       LoadReturns, WorkerStarts, SaveStep, SnapshotSection, DeleteFile, CreateFile, OpenFile,
       WriteFile, Commit, SaveReturns, Crash, vars
  <2>2. pc[t] = "commit" /\ pc[t] \in Writing
    BY <2>1 DEF Commit, Writing
  <2>3. \A f \in Written(t) : disk'[f] = call[t].copy
    BY <1>1, <2>1, <2>2 DEF IInv, FilesWritten, Written, Files
  <2>4. QED
    BY <1>1, <2>2, <2>3, SnapshotComplete, ContentCases
<1>2. IInv /\ [Next]_vars => IInv'
  BY InvStep
<1>3. IInv /\ [Next]_vars =>
        [disk' # disk =>
           \E t \in Threads :
             /\ pc[t] = "commit"
             /\ \A f \in Written(t) :
                  /\ IsImage(disk'[f])
                  /\ \A s \in Sections : disk'[f][s] >= call[t].asked[s]
                  /\ t = "main" => disk'[f] = call[t].asked]_vars
  BY <1>1
<1>4. QED
  BY <1>2, <1>3, InvInit, PTL DEF Spec, FreshCommit

\* Whatever fails and whichever files the game writes, a console that holds a
\* file that parses goes on holding one.
THEOREM KeepsSomeImage ==
  ASSUME ~Overlap
  PROVE  Spec => SomeImageKept
<1>1. ASSUME IInv, [Next]_vars, disk' # disk
      PROVE  \E f \in Files : IsImage(disk'[f])
  <2>1. PICK t \in Threads : Commit(t) /\ disk' = mount
    BY <1>1 DEF Next, Game, CustomLoadOperation, CustomSaveOperation,
       CustomSaveAsyncOperation, ChangeSection, LoadStep, LoadCustomSaveData, MigrateStep,
       LoadReturns, WorkerStarts, SaveStep, SnapshotSection, DeleteFile, CreateFile, OpenFile,
       WriteFile, Commit, SaveReturns, Crash, vars
  <2>2. pc[t] = "commit" /\ pc[t] \in Writing
    BY <2>1 DEF Commit, Writing
  <2>3. call[t].main \/ call[t].backup
    BY <1>1, <2>2 DEF IInv, SomeFile
  <2>4. mount["Main"] = call[t].copy \/ mount["Backup"] = call[t].copy
    BY <1>1, <2>2, <2>3 DEF IInv, FilesWritten
  <2>5. IsImage(call[t].copy)
    BY <1>1, <2>2, SnapshotComplete, ContentCases
  <2>6. QED
    BY <2>1, <2>4, <2>5 DEF Files
<1>2. IInv /\ [Next]_vars => IInv'
  BY InvStep
<1>3. IInv /\ [Next]_vars =>
        [(\E f \in Files : IsImage(disk[f])) => (\E f \in Files : IsImage(disk'[f]))]_vars
  BY <1>1
<1>4. QED
  BY <1>2, <1>3, InvInit, PTL DEF Spec, SomeImageKept

\* When every save of the game writes SaveData.bin, the committed SaveData.bin
\* always parses.
THEOREM MainStaysLoadable ==
  ASSUME ~Overlap, \A f \in Flags : f[1]
  PROVE  Spec => []MainAlwaysLoadable
<1> USE ThreadNames, ThreadCases
<1>1. Init => MainWritten
  <2> SUFFICES ASSUME Init PROVE MainWritten
    OBVIOUS
  <2>1. disk \in [Files -> Image \cup {NoFile}]
    BY SaveAssumption DEF Init
  <2>2. disk["Main"] # BadFile
    BY <2>1, SaveAssumption DEF Files
  <2>3. QED
    BY <2>2 DEF Init, MainWritten, NewSaveSystem, Writing
<1>2. ASSUME IInv, MainWritten, Next PROVE MainWritten'
  <2> USE <1>2
  <2>1. ASSUME NEW f \in Flags, CustomSaveOperation(f) PROVE MainWritten'
    BY <2>1 DEF CustomSaveOperation, Goto, NewCall, MainWritten, Writing, IInv, TypeOK
  <2>2. ASSUME NEW f \in Flags, CustomSaveAsyncOperation(f) PROVE MainWritten'
    <3>1. CASE saveSystem.isBusy
      BY <2>2, <3>1 DEF CustomSaveAsyncOperation, SaveAsync, MainWritten
    <3>2. CASE ~saveSystem.isBusy
      <4>1. pc["worker"] = "idle" /\ pc["main"] = "idle" /\ UNCHANGED <<pc, disk>>
        BY <2>2, <3>2 DEF CustomSaveAsyncOperation, IInv, OneCaller
      <4>2. saveSystem' = [isBusy |-> TRUE, saveRequest |-> TRUE,
                           writeMain |-> f[1], writeBackup |-> f[2]]
        BY <2>2, <3>2 DEF CustomSaveAsyncOperation, SaveAsync
      <4>3. QED
        BY <4>1, <4>2 DEF MainWritten, Writing
    <3>3. QED
      BY <3>1, <3>2
  <2>3. CASE WorkerStarts
    <3>1. call'["worker"].main = saveSystem.writeMain /\ call'["main"] = call["main"]
      BY <2>3 DEF WorkerStarts, IInv, TypeOK, Call
    <3>2. saveSystem.isBusy /\ UNCHANGED <<saveSystem, disk>> /\ pc'["main"] = pc["main"]
      BY <2>3 DEF WorkerStarts, Goto, IInv, OneCaller, TypeOK
    <3>3. QED
      BY <3>1, <3>2 DEF MainWritten
  <2>4. ASSUME NEW t \in Threads, SnapshotSection(t) \/ DeleteFile(t) \/ CreateFile(t)
                                  \/ OpenFile(t) \/ WriteFile(t)
        PROVE MainWritten'
    <3>1. call[t] \in Call /\ call \in [Threads -> Call]
      BY DEF IInv, TypeOK
    <3>2. call'[t].main = call[t].main /\ \A u \in Threads : u # t => call'[u] = call[u]
      <4>1. CASE SnapshotSection(t)
        BY <4>1, SnapshotCall DEF IInv
      <4>2. CASE WriteFile(t)
        BY <3>1, <4>2 DEF WriteFile, Call
      <4>3. CASE DeleteFile(t) \/ CreateFile(t) \/ OpenFile(t)
        BY <4>3 DEF DeleteFile, CreateFile, OpenFile
      <4>4. QED
        BY <2>4, <4>1, <4>2, <4>3
    <3>3. UNCHANGED <<saveSystem, disk>> /\ pc[t] \in Writing \cup {"snapshot"}
      BY <2>4 DEF SnapshotSection, DeleteFile, CreateFile, OpenFile, WriteFile, Writing
    <3>4. \A u \in Threads : u # t => pc'[u] = pc[u]
      BY <2>4 DEF SnapshotSection, DeleteFile, CreateFile, OpenFile, WriteFile, Goto, IInv, TypeOK
    <3>5. QED
      BY <3>2, <3>3, <3>4 DEF MainWritten
  <2>5. ASSUME NEW t \in Threads, Commit(t) PROVE MainWritten'
    <3>1. pc[t] = "commit" /\ pc[t] \in Writing
      BY <2>5 DEF Commit, Writing
    <3>2. mount["Main"] = call[t].copy
      BY <3>1 DEF IInv, FilesWritten, MainWritten
    <3>3. mount["Main"] # BadFile
      BY <3>1, <3>2, SnapshotComplete, ContentCases
    <3>4. pc' = [pc EXCEPT ![t] = "return"] /\ UNCHANGED <<saveSystem, call>>
          /\ disk'["Main"] # BadFile
      BY <2>5, <3>3 DEF Commit, Goto, MainWritten
    <3>5. QED
      BY <3>4 DEF MainWritten, Writing, IInv, TypeOK
  <2>6. ASSUME NEW t \in Threads, SaveReturns(t) PROVE MainWritten'
    <3>1. /\ \A u \in Threads : pc'[u] \in Writing \cup {"snapshot"} =>
               pc[u] \in Writing \cup {"snapshot"} /\ call'[u] = call[u]
          /\ UNCHANGED disk
      BY <2>6 DEF SaveReturns, Goto, Writing, IInv, TypeOK
    <3>2. saveSystem'.isBusy => saveSystem.isBusy /\ UNCHANGED saveSystem
      BY <2>6 DEF SaveReturns, IInv, TypeOK, SaveSystemFields
    <3>3. QED
      BY <3>1, <3>2 DEF MainWritten
  <2>7. CASE Crash
    BY <2>7 DEF Crash, MainWritten, NewSaveSystem, Writing
  <2>8. ASSUME NEW b \in BOOLEAN, CustomLoadOperation(b) PROVE MainWritten'
    BY <2>8 DEF CustomLoadOperation, LoadFound, LoadFailed, LoadNothing, Goto, MainWritten,
                Writing, IInv, TypeOK
  <2>9. CASE LoadStep
    BY <2>9 DEF LoadStep, LoadCustomSaveData, MigrateStep, LoadReturns, Goto, MainWritten,
                Writing, IInv, TypeOK
  <2>10. ASSUME NEW s \in MutableSections, ChangeSection(s) PROVE MainWritten'
    BY <2>10 DEF ChangeSection, MainWritten
  <2>11. QED
    BY <2>1, <2>2, <2>3, <2>4, <2>5, <2>6, <2>7, <2>8, <2>9, <2>10
    DEF Next, Game, SaveStep
<1>3. MainWritten /\ UNCHANGED vars => MainWritten'
  BY DEF MainWritten, vars
<1>4. IInv /\ MainWritten /\ [Next]_vars => IInv' /\ MainWritten'
  BY <1>2, <1>3, InvStep
<1>5. MainWritten => MainAlwaysLoadable
  BY DEF MainWritten, MainAlwaysLoadable
<1>6. QED
  BY <1>1, <1>4, <1>5, InvInit, PTL DEF Spec

-----------------------------------------------------------------------------
(* Loading: what a load has of the file, and that no save hides another. *)

\* The steps outside a load change neither the file being loaded nor, before
\* the game runs again, the memory.
LEMMA LoadedKept ==
  ASSUME IInv, LoadedRight, loaded' = loaded,
         pc["main"] \in LoadSteps => UNCHANGED mem,
         pc'["main"] \in {"boot", "idle"} \cup SaveSteps
           => pc["main"] \in {"boot", "idle"} \cup SaveSteps,
         pc'["main"] \in LoadSteps => pc'["main"] = pc["main"]
  PROVE  LoadedRight'
BY DEF LoadedRight, LoadSteps, IsMigrated

LEMMA LoadBegins ==
  ASSUME IInv, LoadedRight, NEW b \in BOOLEAN, CustomLoadOperation(b)
  PROVE  LoadedRight'
<1> USE ThreadNames, ContentCases
<1>1. pc["main"] \in {"boot", "idle"} /\ loaded = NoFile
  BY DEF CustomLoadOperation, LoadedRight
<1>2. CASE LoadFound(b)
  <2>1. loaded' = mount[FileOf(b)] /\ pc'["main"] = "load_parts"
    BY <1>2 DEF LoadFound, Goto, IInv, TypeOK
  <2>2. mem'["playerWork"] = mount[FileOf(b)]["playerWork"]
    BY <1>2 DEF LoadFound, IInv, TypeOK, Image, Sections
  <2>3. QED
    BY <2>1, <2>2 DEF LoadedRight, SaveSteps
<1>3. CASE LoadFailed(b) \/ LoadNothing(b)
  <2>1. loaded' = NoFile /\ pc'["main"] \in {"aborted", "migrate"}
    BY <1>1, <1>3 DEF LoadFailed, LoadNothing, Goto, IInv, TypeOK
  <2>2. QED
    BY <2>1 DEF LoadedRight, SaveSteps
<1>4. QED
  BY <1>2, <1>3 DEF CustomLoadOperation

LEMMA LoadGoesOn ==
  ASSUME IInv, LoadedRight, LoadStep
  PROVE  LoadedRight'
<1> USE ThreadNames, ContentCases
<1>1. CASE LoadCustomSaveData
  <2>1. /\ pc["main"] = "load_parts" /\ pc'["main"] = "migrate" /\ loaded' = loaded
        /\ mem' = [s \in Sections |-> IF s # "playerWork" /\ loaded[s] # Missing
                                      THEN loaded[s] ELSE mem[s]]
    BY <1>1 DEF LoadCustomSaveData, Goto, IInv, TypeOK
  <2>2. /\ mem["main"] = Vanilla /\ Loadable(loaded)
        /\ mem["playerWork"] = loaded["playerWork"]
    BY <2>1 DEF IInv, MemoryLoaded, LoadedRight
  <2>3. mem'["playerWork"] = loaded["playerWork"]
    BY <2>1, <2>2 DEF Sections
  <2>4. CASE Complete(loaded)
    <3>1. \A s \in Sections \ {"playerWork"} : mem'[s] = loaded[s]
      BY <2>1, <2>4 DEF Complete, Missing
    <3>2. mem'["main"] # Vanilla
      BY <2>4, <3>1 DEF Complete, Sections, Vanilla, Re_Lease, Dev
    <3>3. QED
      BY <2>1, <2>3, <2>4, <3>1, <3>2 DEF LoadedRight, SaveSteps
  <2>5. CASE ~Complete(loaded)
    <3>1. loaded["main"] \in {Missing, Vanilla}
      BY <2>2, <2>5 DEF Loadable
    <3>2. mem'["main"] = Vanilla
      BY <2>1, <2>2, <3>1 DEF Sections
    <3>3. QED
      BY <2>1, <2>3, <2>5, <3>2 DEF LoadedRight, SaveSteps
  <2>6. QED
    BY <2>4, <2>5
<1>2. CASE MigrateStep
  <2>1. /\ pc["main"] = "migrate" /\ UNCHANGED <<pc, loaded>> /\ mem \in [Sections -> Int]
        /\ mem["main"] \in Int /\ mem["main"] < CURRENT_VERSION /\ CURRENT_VERSION \in 1 .. 3
    BY <1>2, Constants DEF MigrateStep, IInv, TypeOK, Image, Sections
  <2>2. CASE mem["main"] = Vanilla
    <3>1. migrateToReLease
      BY <1>2, <2>2 DEF MigrateStep, Vanilla, Re_Lease, Future
    <3>2. /\ mem'["main"] = Re_Lease
          /\ \A s \in Sections \ {"main"} : mem'[s] = Migrated(mem["playerWork"])[s]
      BY <3>1 DEF migrateToReLease, Migrated, Sections
    <3>3. SUFFICES ASSUME IsImage(loaded)
                   PROVE  /\ ~Complete(loaded) /\ mem'["main"] # Vanilla
                          /\ mem'["main"] <= CURRENT_VERSION
                          /\ IsMigrated(loaded["playerWork"])'
      BY <2>1 DEF LoadedRight, SaveSteps
    <3>4. ~Complete(loaded) /\ mem["playerWork"] = loaded["playerWork"]
      BY <2>1, <2>2, <3>3 DEF LoadedRight
    <3>5. \A v : v = mem["playerWork"] => \A s \in Sections \ {"main"} : mem'[s] = Migrated(v)[s]
      BY <3>2
    <3>6. IsMigrated(loaded["playerWork"])'
      BY <2>1, <3>4, <3>5 DEF IsMigrated, Migrated
    <3>7. QED
      BY <2>1, <3>2, <3>4, <3>6 DEF Vanilla, Re_Lease
  <2>3. CASE mem["main"] # Vanilla
    <3>1. \E v \in {Future, Dev} : mem' = [mem EXCEPT !["main"] = v] /\ v = mem["main"] + 1
      BY <1>2, <2>3 DEF MigrateStep, Re_Lease, Future, Dev
    <3>2. /\ \A s \in Sections \ {"main"} : mem'[s] = mem[s]
          /\ mem'["main"] # Vanilla /\ mem'["main"] <= CURRENT_VERSION
      BY <2>1, <3>1 DEF Sections, Vanilla, Future, Dev
    <3>3. CASE IsImage(loaded) /\ Complete(loaded)
      BY <2>1, <2>3, <3>2, <3>3 DEF LoadedRight, SaveSteps
    <3>4. CASE IsImage(loaded) /\ ~Complete(loaded)
      <4>1. IsMigrated(loaded["playerWork"])
        BY <2>1, <2>3, <3>4 DEF LoadedRight
      <4>2. IsMigrated(loaded["playerWork"])'
        BY <2>1, <3>2, <4>1 DEF IsMigrated, Migrated
      <4>3. QED
        BY <2>1, <3>2, <3>4, <4>2 DEF LoadedRight, SaveSteps
    <3>5. CASE ~IsImage(loaded)
      BY <2>1, <3>5 DEF LoadedRight, SaveSteps
    <3>6. QED
      BY <3>3, <3>4, <3>5
  <2>4. QED
    BY <2>2, <2>3
<1>3. CASE LoadReturns
  BY <1>3 DEF LoadReturns, LoadedRight, Goto, IInv, TypeOK
<1>4. QED
  BY <1>1, <1>2, <1>3 DEF LoadStep

LEMMA LoadedStep ==
  ASSUME IInv, LoadedRight, [Next]_vars
  PROVE  LoadedRight'
<1> USE ThreadNames, ThreadCases
<1>1. CASE UNCHANGED vars
  BY <1>1 DEF vars, LoadedRight, IsMigrated
<1>2. ASSUME NEW f \in Flags, CustomSaveOperation(f) PROVE LoadedRight'
  BY <1>2, LoadedKept DEF CustomSaveOperation, Goto, IInv, TypeOK, SaveSteps, LoadSteps
<1>3. ASSUME NEW f \in Flags, CustomSaveAsyncOperation(f) PROVE LoadedRight'
  BY <1>3, LoadedKept DEF CustomSaveAsyncOperation
<1>4. ASSUME NEW s \in MutableSections, ChangeSection(s) PROVE LoadedRight'
  BY <1>4, LoadedKept DEF ChangeSection, LoadSteps
<1>5. CASE WorkerStarts
  <2>1. pc'["main"] = pc["main"] /\ UNCHANGED <<mem, loaded>>
    BY <1>5 DEF WorkerStarts, Goto, IInv, TypeOK
  <2>2. QED
    BY <2>1, LoadedKept
<1>6. ASSUME NEW t \in Threads, SaveStep(t) PROVE LoadedRight'
  <2>1. UNCHANGED <<mem, loaded>> /\ pc[t] \in SaveSteps
    BY <1>6 DEF SaveStep, SnapshotSection, DeleteFile, CreateFile, OpenFile, WriteFile, Commit,
                SaveReturns, SaveSteps
  <2>2. /\ \A u \in Threads : u # t => pc'[u] = pc[u]
        /\ pc'[t] \in SaveSteps \cup {"idle"}
    BY <1>6 DEF SaveStep, SnapshotSection, DeleteFile, CreateFile, OpenFile, WriteFile, Commit,
                SaveReturns, Goto, SaveSteps, IInv, TypeOK
  <2>3. QED
    BY <2>1, <2>2, LoadedKept DEF SaveSteps, LoadSteps
<1>7. CASE Crash
  BY <1>7 DEF Crash, LoadedRight
<1>8. QED
  BY <1>1, <1>2, <1>3, <1>4, <1>5, <1>6, <1>7, LoadBegins, LoadGoesOn DEF Next, Game

\* A step of Save on thread t leaves a committed SaveData.bin in sight, unless
\* CreateFile itself may fail.
LEMMA SaveHidesNothing ==
  ASSUME "create" \notin Faults, IInv, NotHidden, NEW t \in Threads, SaveStep(t)
  PROVE  NotHidden'
<1> USE ThreadNames, ThreadCases, Constants, ContentCases
<1>1. /\ call \in [Threads -> Call] /\ pc \in [Threads -> Step] /\ mount \in [Files -> Content]
      /\ call[t].target \in Files /\ "Main" \in Files
  BY DEF IInv, TypeOK, Call, Files
<1>2. \A u \in Threads : u # t => pc'[u] = pc[u] /\ call'[u] = call[u]
  <2>1. CASE SnapshotSection(t)
    BY <1>1, <2>1, SnapshotCall DEF SnapshotSection, Goto, IInv
  <2>2. CASE ~SnapshotSection(t)
    BY <1>1, <2>2 DEF SaveStep, DeleteFile, CreateFile, OpenFile, WriteFile, Commit, SaveReturns, Goto
  <2>3. QED
    BY <2>1, <2>2
<1>3. ASSUME disk'["Main"] = disk["Main"], mount'["Main"] = mount["Main"], pc[t] # "create"
      PROVE  NotHidden'
  BY <1>2, <1>3 DEF NotHidden
<1>4. CASE SnapshotSection(t)
  BY <1>3, <1>4 DEF SnapshotSection
<1>5. CASE DeleteFile(t)
  <2>1. UNCHANGED <<disk, call>> /\ pc[t] = "delete" /\ pc'[t] = "create"
    BY <1>1, <1>5 DEF DeleteFile, Goto
  <2>2. CASE call[t].target = "Main"
    BY <2>1, <2>2 DEF NotHidden
  <2>3. CASE call[t].target # "Main"
    <3>1. mount'["Main"] = mount["Main"]
      BY <1>1, <1>5, <2>3 DEF DeleteFile, SetFile
    <3>2. QED
      BY <1>3, <2>1, <3>1
  <2>4. QED
    BY <2>2, <2>3
<1>6. CASE CreateFile(t)
  <2>1. UNCHANGED <<disk, call>>
    BY <1>6 DEF CreateFile
  <2>2. CASE call[t].target = "Main"
    <3>1. mount'["Main"] # NoFile
      BY <1>1, <1>6, <2>2 DEF CreateFile, Target, SetFile
    <3>2. QED
      BY <3>1 DEF NotHidden
  <2>3. CASE call[t].target # "Main"
    <3>1. mount'["Main"] = mount["Main"]
      BY <1>1, <1>6, <2>3 DEF CreateFile, SetFile
    <3>2. QED
      BY <1>2, <2>1, <2>3, <3>1 DEF NotHidden
  <2>4. QED
    BY <2>2, <2>3
<1>7. CASE OpenFile(t)
  BY <1>3, <1>7 DEF OpenFile
<1>8. CASE WriteFile(t)
  <2>1. UNCHANGED disk /\ pc[t] = "write"
    BY <1>8 DEF WriteFile
  <2>2. call[t].copy \in Image
    BY <1>1 DEF Call
  <2>3. mount'["Main"] = mount["Main"] \/ mount'["Main"] # NoFile
    <3>1. UNCHANGED mount \/ SetFile(t, call[t].copy) \/ SetFile(t, BadFile)
      BY <1>8 DEF WriteFile
    <3>2. QED
      BY <1>1, <2>2, <3>1 DEF SetFile
  <2>4. QED
    BY <1>3, <2>1, <2>3 DEF NotHidden
<1>9. CASE Commit(t)
  <2>1. disk' = mount \/ disk' = disk
    BY <1>9 DEF Commit
  <2>2. UNCHANGED mount /\ pc[t] = "commit"
    BY <1>9 DEF Commit
  <2>3. QED
    BY <1>3, <2>1, <2>2 DEF NotHidden
<1>10. CASE SaveReturns(t)
  BY <1>3, <1>10 DEF SaveReturns
<1>11. QED
  BY <1>4, <1>5, <1>6, <1>7, <1>8, <1>9, <1>10 DEF SaveStep

LEMMA HiddenStep ==
  ASSUME "create" \notin Faults, IInv, NotHidden, [Next]_vars
  PROVE  NotHidden'
<1> USE ThreadNames, ThreadCases
<1>1. ASSUME UNCHANGED <<mount, disk>>,
             \A t \in Threads : pc[t] = "create" => pc'[t] = "create" /\ call'[t] = call[t]
      PROVE  NotHidden'
  BY <1>1 DEF NotHidden
<1>2. CASE UNCHANGED vars
  BY <1>1, <1>2 DEF vars
<1>3. ASSUME NEW b \in BOOLEAN, CustomLoadOperation(b) PROVE NotHidden'
  BY <1>1, <1>3 DEF CustomLoadOperation, LoadFound, LoadFailed, LoadNothing, Goto, IInv, TypeOK
<1>4. CASE LoadStep
  BY <1>1, <1>4 DEF LoadStep, LoadCustomSaveData, MigrateStep, LoadReturns, Goto, IInv, TypeOK
<1>5. ASSUME NEW f \in Flags, CustomSaveOperation(f) PROVE NotHidden'
  BY <1>1, <1>5 DEF CustomSaveOperation, Goto, IInv, TypeOK
<1>6. ASSUME NEW f \in Flags, CustomSaveAsyncOperation(f) PROVE NotHidden'
  BY <1>1, <1>6 DEF CustomSaveAsyncOperation, SaveAsync, IInv, OneCaller, TypeOK
<1>7. ASSUME NEW s \in MutableSections, ChangeSection(s) PROVE NotHidden'
  BY <1>1, <1>7 DEF ChangeSection
<1>8. CASE WorkerStarts
  BY <1>1, <1>8 DEF WorkerStarts, Goto, IInv, TypeOK
<1>9. CASE Crash
  BY <1>9 DEF Crash, NotHidden
<1>10. QED
  BY <1>2, <1>3, <1>4, <1>5, <1>6, <1>7, <1>8, <1>9, SaveHidesNothing DEF Next, Game

\* A load ends with exactly the sections of a file of the mod, and for a file from
\* before it with its PlayerWork, boxes and text speed raised, the color of its body type
\* and initial structs (migrateToReLease); and while CreateFile does not fail, a load
\* that reports no save is one on a console that holds no SaveData.bin, whatever
\* earlier saves of the session failed at.
THEOREM LoadsRestore ==
  ASSUME ~Overlap, "create" \notin Faults
  PROVE  Spec => LoadRestores
<1> USE ThreadNames
<1>1. Init => LoadedRight /\ NotHidden
  BY DEF Init, LoadedRight, NotHidden, SaveSteps
<1>2. ASSUME IInv, LoadedRight, [Next]_vars,
             pc["main"] = "migrate", pc'["main"] = "idle", IsImage(loaded)
      PROVE  IF Complete(loaded) THEN \A s \in Sections \ {"main"} : mem[s] = loaded[s]
                                 ELSE mem = Migrated(loaded["playerWork"])
  <2>1. mem["main"] >= CURRENT_VERSION
    <3>1. LoadReturns
      <4>1. \A t \in Threads : ~(SaveStep(t) /\ t = "main")
        BY <1>2 DEF SaveStep, SnapshotSection, DeleteFile, CreateFile, OpenFile, WriteFile,
                    Commit, SaveReturns
      <4>2. \A t \in Threads : SaveStep(t) /\ t # "main" => pc'["main"] = pc["main"]
        BY <1>2 DEF SaveStep, SnapshotSection, DeleteFile, CreateFile, OpenFile, WriteFile,
                    Commit, SaveReturns, Goto, IInv, TypeOK
      <4>3. ~Game
        BY <1>2 DEF Game, CustomLoadOperation, CustomSaveOperation, CustomSaveAsyncOperation,
                    ChangeSection
      <4>4. ~LoadCustomSaveData /\ ~MigrateStep /\ ~WorkerStarts /\ ~Crash /\ ~UNCHANGED vars
        BY <1>2 DEF LoadCustomSaveData, MigrateStep, WorkerStarts, Goto, Crash, vars, IInv, TypeOK
      <4>5. QED
        BY <1>2, <4>1, <4>2, <4>3, <4>4 DEF Next, LoadStep
    <3>2. QED
      BY <3>1 DEF LoadReturns
  <2>2. mem["main"] # Vanilla
    BY <2>1, Constants DEF Vanilla
  <2>3. CASE Complete(loaded)
    BY <1>2, <2>3 DEF LoadedRight
  <2>4. CASE ~Complete(loaded)
    <3>1. mem["main"] <= CURRENT_VERSION /\ IsMigrated(loaded["playerWork"])
      BY <1>2, <2>2, <2>4 DEF LoadedRight
    <3>2. /\ mem \in [Sections -> Int] /\ mem["main"] \in Int
          /\ mem["main"] = CURRENT_VERSION
      BY <1>2, <2>1, <3>1, Constants DEF IInv, TypeOK, Image, Sections
    <3>3. \A s \in Sections : mem[s] = Migrated(loaded["playerWork"])[s]
      BY <3>1, <3>2 DEF IsMigrated, Migrated
    <3>4. QED
      BY <2>4, <3>2, <3>3 DEF Migrated
  <2>5. QED
    BY <2>3, <2>4
<1>3. ASSUME IInv, NotHidden, [Next]_vars,
             pc["main"] \in {"boot", "idle"}, pc'["main"] = "migrate"
      PROVE  disk["Main"] = NoFile
  <2>1. PICK b \in BOOLEAN : CustomLoadOperation(b)
    <3>1. \A t \in Threads : SaveStep(t) => pc'["main"] # "migrate"
      <4> SUFFICES ASSUME NEW t \in Threads, SaveStep(t) PROVE pc'["main"] # "migrate"
        OBVIOUS
      <4>1. CASE t = "main"
        BY <1>3, <4>1 DEF SaveStep, SnapshotSection, DeleteFile, CreateFile, OpenFile, WriteFile,
                    Commit, SaveReturns
      <4>2. CASE t # "main"
        BY <1>3, <4>2 DEF SaveStep, SnapshotSection, DeleteFile, CreateFile, OpenFile, WriteFile,
                    Commit, SaveReturns, Goto, IInv, TypeOK
      <4>3. QED
        BY <4>1, <4>2
    <3>2. ~LoadStep /\ ~WorkerStarts /\ ~Crash /\ ~UNCHANGED vars
      BY <1>3 DEF LoadStep, LoadCustomSaveData, MigrateStep, LoadReturns, WorkerStarts, Goto,
                  Crash, vars, IInv, TypeOK
    <3>3. /\ \A f \in Flags : ~CustomSaveOperation(f) /\ ~CustomSaveAsyncOperation(f)
          /\ \A s \in MutableSections : ~ChangeSection(s)
      BY <1>3 DEF CustomSaveOperation, CustomSaveAsyncOperation, ChangeSection, Goto, IInv, TypeOK
    <3>4. QED
      BY <1>3, <3>1, <3>2, <3>3 DEF Next, Game
  <2>2. LoadNothing(b)
    BY <1>3, <2>1 DEF CustomLoadOperation, LoadFound, LoadFailed, Goto, IInv, TypeOK
  <2>3. mount["Main"] = NoFile
    BY <2>2 DEF LoadNothing, SaveDataExists
  <2>4. \A t \in Threads : pc[t] # "create"
    BY <1>3, <2>1, ThreadCases DEF CustomLoadOperation, MainThreadFree, IInv, OneCaller
  <2>5. QED
    BY <1>3, <2>3, <2>4 DEF NotHidden
<1>4. IInv /\ LoadedRight /\ NotHidden /\ [Next]_vars => (IInv /\ LoadedRight /\ NotHidden)'
  BY InvStep, LoadedStep, HiddenStep
<1>5. IInv /\ LoadedRight /\ NotHidden /\ [Next]_vars =>
        /\ [pc["main"] = "migrate" /\ pc'["main"] = "idle" /\ IsImage(loaded) =>
              IF Complete(loaded) THEN \A s \in Sections \ {"main"} : mem[s] = loaded[s]
                                  ELSE mem = Migrated(loaded["playerWork"])]_vars
        /\ [pc["main"] \in {"boot", "idle"} /\ pc'["main"] = "migrate"
              => disk["Main"] = NoFile]_vars
  BY <1>2, <1>3
<1>6. QED
  BY <1>1, <1>4, <1>5, InvInit, PTL DEF Spec, LoadRestores

-----------------------------------------------------------------------------
(* A save is durable or is not: the refinement of DurableSave.             *)

\* A save under way, to whoever waits for it.
PendingIs ==
  /\ \A t \in Threads : pc[t] \in Writing \cup {"snapshot"} =>
       Pending = [files |-> Written(t), asked |-> call[t].asked, waits |-> t = "main"]
  /\ saveSystem.isBusy /\ pc["worker"] = "idle" =>
       Pending = [files |-> Requested, asked |-> call["worker"].asked, waits |-> FALSE]
  /\ (\A t \in Threads : ~Saving(t)) => Pending = Durable!NoSave

LEMMA PendingKnown ==
  ~Overlap /\ IInv => PendingIs
<1> SUFFICES ASSUME ~Overlap, IInv PROVE PendingIs
  OBVIOUS
<1> USE ThreadNames, ThreadCases
<1>1. ASSUME pc["main"] \in Writing \cup {"snapshot"}
      PROVE  Pending = [files |-> Written("main"), asked |-> call["main"].asked, waits |-> TRUE]
  <2>1. pc["main"] \in SaveSteps \ {"return"} /\ ~saveSystem.isBusy
    BY <1>1 DEF SaveSteps, Writing, IInv, OneCaller
  <2>2. QED
    BY <2>1 DEF Pending
<1>2. ASSUME pc["worker"] \in Writing \cup {"snapshot"}
      PROVE  Pending = [files |-> Written("worker"), asked |-> call["worker"].asked, waits |-> FALSE]
  <2>1. saveSystem.isBusy /\ pc["main"] = "idle" /\ pc["worker"] \notin {"idle", "return"}
    BY <1>2 DEF IInv, OneCaller, Writing
  <2>2. QED
    BY <2>1 DEF Pending, Requested, SaveSteps
<1>3. ASSUME saveSystem.isBusy, pc["worker"] = "idle"
      PROVE  Pending = [files |-> Requested, asked |-> call["worker"].asked, waits |-> FALSE]
  <2>1. pc["main"] = "idle"
    BY <1>3 DEF IInv, OneCaller
  <2>2. QED
    BY <1>3, <2>1 DEF Pending, SaveSteps
<1>4. ASSUME \A t \in Threads : ~Saving(t) PROVE Pending = Durable!NoSave
  <2>1. pc["main"] \notin SaveSteps \ {"return"}
    BY <1>4 DEF Saving, SaveSteps, Writing
  <2>2. ~(saveSystem.isBusy /\ pc["worker"] # "return")
    <3>1. pc["worker"] \in SaveSteps \cup {"idle"}
      BY DEF IInv, TypeOK
    <3>2. QED
      BY <1>4, <3>1 DEF Saving, SaveSteps, Writing
  <2>3. Pending = [files |-> {}, asked |-> Blank, waits |-> FALSE]
    BY <2>1, <2>2 DEF Pending
  <2>4. QED
    BY <2>3 DEF Durable!NoSave, Durable!Off, Blank, Garbage
<1>5. QED
  BY <1>1, <1>2, <1>3, <1>4 DEF PendingIs

LEMMA PendingKnownNext ==
  ASSUME ~Overlap
  PROVE  IInv' => PendingIs'
<1>1. IInv => PendingIs
  BY PendingKnown
<1>2. QED
  BY <1>1, PTL

\* What is pending is a save of some file.
LEMMA PendingSaves ==
  ASSUME ~Overlap, IInv, NEW t \in Threads, pc[t] \in Writing \cup {"snapshot"}
  PROVE  /\ Pending # Durable!NoSave
         /\ Pending.files = Written(t) /\ Pending.asked = call[t].asked
<1>1. Pending = [files |-> Written(t), asked |-> call[t].asked, waits |-> t = "main"]
  BY PendingKnown DEF PendingIs
<1>2. Written(t) # {}
  BY DEF IInv, SomeFile, Written, Files
<1>3. QED
  BY <1>1, <1>2 DEF Durable!NoSave

\* The game plays with its memory while a save runs, and only when all is loaded.
LEMMA SessionKnown ==
  ASSUME ~Overlap, IInv
  PROVE  /\ pc["main"] \in SaveSteps \cup {"idle"} => Session = mem /\ Session # Durable!Off
         /\ pc["main"] \notin SaveSteps \cup {"idle"} => Session = Durable!Off
         /\ \A t \in Threads : Saving(t) => Session = mem
<1>1. Durable!Off = Blank /\ Durable!Off["main"] = -1
  BY DEF Durable!Off, Blank, Garbage, Sections
<1>2. ASSUME pc["main"] \in SaveSteps \cup {"idle"} PROVE mem["main"] \in 1 .. 3
  BY <1>2 DEF IInv, MemoryLoaded, Complete, Re_Lease, Dev
<1>3. ASSUME NEW t \in Threads, Saving(t) PROVE pc["main"] \in SaveSteps \cup {"idle"}
  BY <1>3, ThreadNames, ThreadCases DEF Saving, IInv, OneCaller, SaveSteps, Writing
<1>4. QED
  BY <1>1, <1>2, <1>3 DEF Session

\* A step of Save that ends neither the call nor changes what it was asked.
LEMMA PendingKept ==
  ASSUME ~Overlap, IInv, IInv', NEW t \in Threads,
         pc[t] \in Writing \cup {"snapshot"}, pc'[t] \in Writing \cup {"snapshot"},
         call'[t].main = call[t].main, call'[t].backup = call[t].backup,
         call'[t].asked = call[t].asked
  PROVE  Pending' = Pending
<1>1. Pending = [files |-> Written(t), asked |-> call[t].asked, waits |-> t = "main"]
  BY PendingKnown DEF PendingIs
<1>2. Pending' = [files |-> Written(t)', asked |-> call'[t].asked, waits |-> t = "main"]
  BY PendingKnownNext DEF PendingIs
<1>3. Written(t)' = Written(t)
  BY DEF Written
<1>4. QED
  BY <1>1, <1>2, <1>3

\* Once the call returns nothing is pending.
LEMMA PendingEnds ==
  ASSUME ~Overlap, IInv, IInv', NEW t \in Threads, pc[t] \in SaveSteps,
         pc'[t] = "return" \/ (pc[t] = "return" /\ pc'[t] = "idle" /\ ~saveSystem'.isBusy),
         \A u \in Threads : u # t => pc'[u] = pc[u]
  PROVE  Pending' = Durable!NoSave
<1> USE ThreadNames, ThreadCases
<1>1. CASE pc'[t] = "return"
  <2>1. pc'[t] \in SaveSteps
    BY <1>1 DEF SaveSteps
  <2>2. \A u \in Threads : u # t => ~Saving(u)'
    <3>1. ASSUME NEW u \in Threads, u # t PROVE ~Saving(u)'
      BY <2>1, <3>1 DEF IInv, OneCaller, Saving, SaveSteps, Writing
    <3>2. QED
      BY <3>1
  <2>3. ~Saving(t)'
    BY <1>1 DEF Saving, Writing
  <2>4. QED
    BY <2>2, <2>3, PendingKnownNext DEF PendingIs
<1>2. CASE pc[t] = "return" /\ pc'[t] = "idle" /\ ~saveSystem'.isBusy
  <2>1. \A u \in Threads : u # t => ~Saving(u) /\ pc[u] \notin Writing \cup {"snapshot"}
    BY <1>2, Exclusive DEF Saving
  <2>2. \A u \in Threads : ~Saving(u)'
    BY <1>2, <2>1 DEF Saving, Writing
  <2>3. QED
    BY <2>2, PendingKnownNext DEF PendingIs
<1>3. QED
  BY <1>1, <1>2

\* A save's own file, replaced.
LEMMA TargetTouched ==
  ASSUME ~Overlap, IInv, OwnFiles, NEW t \in Threads, pc[t] \in Writing \ {"commit"},
         UNCHANGED mount \/ SetFile(t, NoFile) \/ SetFile(t, BadFile)
           \/ (pc[t] = "write" /\ SetFile(t, call[t].copy))
  PROVE  Durable!Touch
<1>1. mount \in [Files -> Content] /\ call[t].target \in Pending.files
  BY PendingSaves DEF IInv, TypeOK, OwnFiles
<1>2. Session = mem /\ Pending.asked = call[t].asked
  BY SessionKnown, PendingSaves DEF Saving
<1>3. ASSUME NEW f \in Files
      PROVE  \/ mount'[f] = mount[f]
             \/ f = call[t].target /\ mount'[f] \in {NoFile, BadFile, call[t].copy}
  BY <1>1 DEF SetFile
<1>4. ASSUME pc[t] = "write" PROVE Durable!Between(call[t].copy)
  <2>1. \A s \in Sections : call[t].asked[s] <= call[t].copy[s] /\ call[t].copy[s] <= mem[s]
    BY <1>4, SnapshotComplete DEF Writing, IInv, TypeOK, Call, Image
  <2>2. QED
    BY <1>2, <2>1 DEF Durable!Between
<1>5. ASSUME NEW f \in Files, Durable!Whole(mount'[f]), mount'[f] # mount[f]
      PROVE  pc[t] = "write" /\ mount'[f] = call[t].copy
  BY <1>1, <1>5 DEF SetFile, Durable!Whole
<1>6. QED
  BY <1>1, <1>3, <1>4, <1>5 DEF Durable!Touch

\* What a load has read is still on the mount while it goes on.
LEMMA TracedStep ==
  ASSUME ~Overlap, IInv, LoadedRight, LoadTraced, [Next]_vars
  PROVE  LoadTraced'
<1> USE ThreadNames, ThreadCases, Constants, ContentCases
<1>1. CASE UNCHANGED vars
  BY <1>1 DEF vars, LoadTraced, IsMigrated
<1>2. ASSUME NEW b \in BOOLEAN, CustomLoadOperation(b) PROVE LoadTraced'
  <2>1. pc["main"] \in {"boot", "idle"} /\ loaded = NoFile /\ UNCHANGED mount
    BY <1>2 DEF CustomLoadOperation, LoadedRight
  <2>2. mem'["main"] = Vanilla
    BY <1>2 DEF CustomLoadOperation, LoadFound, LoadFailed, LoadNothing, IInv, TypeOK, Image, Sections
  <2>3. CASE LoadFound(b)
    BY <2>1, <2>2, <2>3 DEF LoadFound, FileOf, Files, Goto, IInv, TypeOK, LoadTraced
  <2>4. CASE LoadFailed(b)
    BY <2>4 DEF LoadFailed, Goto, IInv, TypeOK, LoadTraced, LoadSteps
  <2>5. CASE LoadNothing(b)
    BY <2>1, <2>2, <2>5 DEF LoadNothing, SaveDataExists, Goto, IInv, TypeOK, LoadTraced, Vanilla
  <2>6. QED
    BY <1>2, <2>3, <2>4, <2>5 DEF CustomLoadOperation
<1>3. CASE LoadCustomSaveData
  <2>1. /\ pc["main"] = "load_parts" /\ pc'["main"] = "migrate" /\ UNCHANGED <<mount, loaded>>
        /\ mem' = [s \in Sections |-> IF s # "playerWork" /\ loaded[s] # Missing
                                      THEN loaded[s] ELSE mem[s]]
    BY <1>3 DEF LoadCustomSaveData, Goto, IInv, TypeOK
  <2>2. IsImage(loaded) /\ mem["main"] = 0 /\ loaded \in Image
    BY <2>1 DEF IInv, TypeOK, MemoryLoaded, Vanilla
  <2>3. mem'["main"] = IF loaded["main"] # Missing THEN loaded["main"] ELSE 0
    BY <2>1, <2>2 DEF Sections
  <2>4. loaded["main"] \in Int /\ CURRENT_VERSION >= 1
    BY <2>2 DEF Image, Sections
  <2>5. loaded["main"] <= mem'["main"] /\ mem'["main"] \in {loaded["main"]} \cup 0 .. CURRENT_VERSION
    BY <2>3, <2>4 DEF Missing
  <2>6. QED
    BY <2>1, <2>2, <2>5 DEF LoadTraced, LoadSteps
<1>4. CASE MigrateStep
  <2>1. /\ pc["main"] = "migrate" /\ UNCHANGED <<pc, mount, loaded>> /\ mem["main"] < CURRENT_VERSION
        /\ mem \in [Sections -> Int] /\ "main" \in Sections /\ "main" \notin Structs
        /\ Structs \subseteq Sections
    BY <1>4 DEF MigrateStep, IInv, TypeOK, Image, Sections, Structs
  <2>2. /\ mem'["main"] = mem["main"] + 1 /\ mem["main"] \in 0 .. 2
        /\ mem["main"] # Vanilla => \A s \in Sections \ {"main"} : mem'[s] = mem[s]
        /\ mem["main"] = Vanilla => migrateToReLease
    <3>1. CASE mem["main"] = Vanilla /\ migrateToReLease
      BY <2>1, <3>1 DEF migrateToReLease, Vanilla, Re_Lease
    <3>2. CASE mem["main"] = Re_Lease /\ mem' = [mem EXCEPT !["main"] = Future]
      BY <2>1, <3>2 DEF Vanilla, Re_Lease, Future
    <3>3. CASE mem["main"] = Future /\ mem' = [mem EXCEPT !["main"] = Dev]
      BY <2>1, <3>3 DEF Vanilla, Future, Dev
    <3>4. QED
      BY <1>4, <3>1, <3>2, <3>3 DEF MigrateStep
  <2>3. DEFINE read == IF IsImage(loaded) THEN loaded["main"] ELSE Vanilla
  <2>4. read <= mem["main"] /\ read \in Int
    BY <2>1 DEF LoadTraced, LoadSteps, IInv, TypeOK, Image, Content, IsImage, Vanilla, Sections
  <2>5. read <= mem'["main"] /\ mem'["main"] \in 0 .. CURRENT_VERSION
    BY <2>1, <2>2, <2>4
  <2>6. loaded = NoFile => IsMigrated(mem["playerWork"])'
    <3>1. CASE mem["main"] = Vanilla
      <4>1. mem["playerWork"] \in Nat
        BY DEF IInv, MemoryLoaded
      <4>2. /\ mem'["playerWork"] = Expanded(mem["playerWork"])
            /\ mem'["color"] = BodyColor(mem["playerWork"])
            /\ \A s \in Sections \ {"main", "playerWork", "color"} : mem'[s] = 0
        BY <2>2, <3>1 DEF migrateToReLease, Sections
      <4>3. /\ Expanded(mem'["playerWork"]) = mem'["playerWork"]
            /\ BodyColor(mem'["playerWork"]) = mem'["color"]
        BY <4>1, <4>2, Expansion
      <4>4. QED
        BY <4>2, <4>3 DEF IsMigrated, Migrated
    <3>2. CASE mem["main"] # Vanilla
      <4>1. loaded = NoFile => IsMigrated(mem["playerWork"])
        BY <2>1, <3>2 DEF LoadTraced, LoadSteps
      <4>2. (\A s \in Sections \ {"main"} : mem'[s] = mem[s]) /\ "playerWork" \in Sections
        BY <2>2, <3>2 DEF Sections
      <4>3. QED
        BY <4>1, <4>2 DEF IsMigrated, Migrated
    <3>3. QED
      BY <3>1, <3>2
  <2>7. QED
    BY <2>1, <2>2, <2>5, <2>6 DEF LoadTraced, LoadSteps
<1>5. CASE LoadReturns
  BY <1>5 DEF LoadReturns, Goto, IInv, TypeOK, LoadTraced, LoadSteps
<1>6. ASSUME NEW f \in Flags, CustomSaveOperation(f) PROVE LoadTraced'
  BY <1>6 DEF CustomSaveOperation, Goto, IInv, TypeOK, LoadTraced, LoadSteps
<1>7. ASSUME NEW f \in Flags, CustomSaveAsyncOperation(f) PROVE LoadTraced'
  BY <1>7 DEF CustomSaveAsyncOperation, LoadTraced, LoadSteps
<1>8. ASSUME NEW s \in MutableSections, ChangeSection(s) PROVE LoadTraced'
  BY <1>8 DEF ChangeSection, LoadTraced, LoadSteps
<1>9. CASE WorkerStarts
  BY <1>9 DEF WorkerStarts, Goto, IInv, TypeOK, LoadTraced, IsMigrated
<1>10. ASSUME NEW t \in Threads, SaveStep(t) PROVE LoadTraced'
  <2>1. pc[t] \in SaveSteps
    BY <1>10 DEF SaveStep, SnapshotSection, DeleteFile, CreateFile, OpenFile, WriteFile, Commit,
                 SaveReturns, SaveSteps
  <2>2. pc'[t] \in SaveSteps \cup {"idle"} /\ \A u \in Threads : u # t => pc'[u] = pc[u]
    BY <1>10 DEF SaveStep, SnapshotSection, DeleteFile, CreateFile, OpenFile, WriteFile, Commit,
                 SaveReturns, Goto, SaveSteps, IInv, TypeOK
  <2>3. pc["main"] \notin LoadSteps
    BY <2>1 DEF IInv, OneCaller, SaveSteps, LoadSteps
  <2>4. QED
    BY <2>1, <2>2, <2>3 DEF LoadTraced, SaveSteps, LoadSteps
<1>11. CASE Crash
  BY <1>11 DEF Crash, LoadTraced, LoadSteps
<1>12. QED
  BY <1>1, <1>2, <1>3, <1>4, <1>5, <1>6, <1>7, <1>8, <1>9, <1>10, <1>11 DEF Next, Game, LoadStep

\* A save goes from SaveData.bin to Backup.bin only when it was asked to write both.
LEMMA OwnStep ==
  ASSUME ~Overlap, IInv, OwnFiles, [Next]_vars
  PROVE  OwnFiles'
<1> USE ThreadNames, ThreadCases
<1>1. ASSUME NEW t \in Threads, SaveStep(t) PROVE OwnFiles'
  <2>1. /\ call \in [Threads -> Call] /\ pc \in [Threads -> Step] /\ call[t].target \in Files
    BY DEF IInv, TypeOK, Call
  <2>2. \A u \in Threads : u # t => pc'[u] = pc[u] /\ call'[u] = call[u]
    <3>1. CASE SnapshotSection(t)
      BY <2>1, <3>1, SnapshotCall DEF SnapshotSection, Goto, IInv
    <3>2. CASE ~SnapshotSection(t)
      BY <1>1, <2>1, <3>2 DEF SaveStep, DeleteFile, CreateFile, OpenFile, WriteFile, Commit,
                             SaveReturns, Goto
    <3>3. QED
      BY <3>1, <3>2
  <2>3. pc'[t] \in Writing \ {"commit"} => call'[t].target \in Written(t)'
    <3>1. CASE SnapshotSection(t)
      <4>1. call'[t].main = call[t].main /\ call'[t].backup = call[t].backup
        BY <3>1, SnapshotCall DEF IInv
      <4>2. call[t].main \/ call[t].backup
        BY <3>1 DEF SnapshotSection, IInv, SomeFile
      <4>3. pc'[t] \in Writing =>
              call'[t].target = IF call[t].main THEN "Main" ELSE "Backup"
        <5> DEFINE n == call[t].next
                   s == SectionOrder[n]
                   serialised == [call[t] EXCEPT !.copy = [call[t].copy EXCEPT ![s] = mem[s]],
                                                 !.next = n + 1]
        <5>1. \/ UNCHANGED pc /\ pc[t] = "snapshot"
              \/ call' = [call EXCEPT ![t] =
                    [serialised EXCEPT !.target = IF call[t].main THEN "Main" ELSE "Backup"]]
          BY <3>1 DEF SnapshotSection
        <5>2. call[t] \in Call
          BY <2>1
        <5>3. ASSUME call'[t] = [serialised EXCEPT !.target = IF call[t].main THEN "Main" ELSE "Backup"]
              PROVE  call'[t].target = IF call[t].main THEN "Main" ELSE "Backup"
          BY <5>2, <5>3 DEF Call
        <5>4. UNCHANGED pc /\ pc[t] = "snapshot" => pc'[t] \notin Writing
          BY DEF Writing
        <5>5. QED
          BY <2>1, <5>1, <5>3, <5>4
      <4>4. QED
        BY <4>1, <4>2, <4>3 DEF Written, Files
    <3>2. CASE DeleteFile(t) \/ CreateFile(t) \/ OpenFile(t)
      BY <2>1, <3>2 DEF DeleteFile, CreateFile, OpenFile, OwnFiles, Writing, Written
    <3>3. CASE WriteFile(t)
      <4>1. CASE UNCHANGED call
        BY <2>1, <3>3, <4>1 DEF WriteFile, Goto, OwnFiles, Writing, Written
      <4>2. CASE call[t].backup /\ call' = [call EXCEPT ![t] = [@ EXCEPT !.target = "Backup"]]
        <5>1. call'[t].target = "Backup" /\ call'[t].backup
          BY <2>1, <4>2 DEF Call
        <5>2. QED
          BY <5>1 DEF Written, Files
      <4>3. QED
        BY <3>3, <4>1, <4>2 DEF WriteFile
    <3>4. CASE Commit(t) \/ SaveReturns(t)
      BY <2>1, <3>4 DEF Commit, SaveReturns, Goto, Writing
    <3>5. QED
      BY <1>1, <3>1, <3>2, <3>3, <3>4 DEF SaveStep
  <2>4. QED
    BY <2>2, <2>3 DEF OwnFiles, Written
<1>2. ASSUME \A t \in Threads : pc'[t] \in Writing => pc[t] = pc'[t] /\ call'[t] = call[t]
      PROVE  OwnFiles'
  BY <1>2 DEF OwnFiles, Written
<1>3. CASE LoadStep \/ Crash \/ UNCHANGED vars
  BY <1>2, <1>3 DEF LoadStep, LoadCustomSaveData, MigrateStep, LoadReturns, Crash, vars, Goto,
                    IInv, TypeOK, Writing
<1>4. ASSUME NEW b \in BOOLEAN, CustomLoadOperation(b) PROVE OwnFiles'
  BY <1>2, <1>4 DEF CustomLoadOperation, LoadFound, LoadFailed, LoadNothing, Goto, IInv, TypeOK, Writing
<1>5. ASSUME NEW f \in Flags, CustomSaveOperation(f) PROVE OwnFiles'
  BY <1>2, <1>5 DEF CustomSaveOperation, Goto, IInv, TypeOK, Writing
<1>6. ASSUME NEW f \in Flags, CustomSaveAsyncOperation(f) PROVE OwnFiles'
  BY <1>2, <1>6 DEF CustomSaveAsyncOperation, SaveAsync, IInv, OneCaller, TypeOK, Writing
<1>7. ASSUME NEW s \in MutableSections, ChangeSection(s) PROVE OwnFiles'
  BY <1>2, <1>7 DEF ChangeSection
<1>8. CASE WorkerStarts
  BY <1>2, <1>8 DEF WorkerStarts, Goto, IInv, TypeOK, Writing
<1>9. QED
  BY <1>1, <1>3, <1>4, <1>5, <1>6, <1>7, <1>8 DEF Next, Game

\* A step of Save replaces a file of its own, fails, or makes all of them durable.
LEMMA SaveRefines ==
  ASSUME ~Overlap, IInv, IInv', OwnFiles, NEW t \in Threads, SaveStep(t)
  PROVE  [Durable!Next]_(Durable!vars)
<1> USE ThreadNames, ThreadCases
<1>1. /\ call \in [Threads -> Call] /\ pc \in [Threads -> Step]
      /\ pc[t] \in SaveSteps /\ call[t] \in Call
  BY DEF IInv, TypeOK, SaveStep, SnapshotSection, DeleteFile, CreateFile, OpenFile, WriteFile,
         Commit, SaveReturns, SaveSteps
<1>2. UNCHANGED mem /\ (t = "main" => pc'["main"] \in SaveSteps \cup {"idle"})
      /\ \A u \in Threads : u # t => pc'[u] = pc[u]
  BY <1>1 DEF SaveStep, SnapshotSection, DeleteFile, CreateFile, OpenFile, WriteFile, Commit,
              SaveReturns, Goto, SaveSteps
<1>3. Session' = Session
  <2>1. pc["main"] \in SaveSteps \cup {"idle"} /\ pc'["main"] \in SaveSteps \cup {"idle"}
    BY <1>1, <1>2 DEF IInv, OneCaller, SaveSteps
  <2>2. QED
    BY <1>2, <2>1 DEF Session
<1>4. CASE SnapshotSection(t)
  <2>1. /\ call'[t].asked = call[t].asked /\ call'[t].main = call[t].main
        /\ call'[t].backup = call[t].backup
    BY <1>4, SnapshotCall DEF IInv
  <2>2. pc[t] = "snapshot" /\ pc'[t] \in Writing \cup {"snapshot"}
    BY <1>1, <1>4 DEF SnapshotSection, Goto, Writing
  <2>3. Pending' = Pending
    BY <2>1, <2>2, PendingKept
  <2>4. QED
    BY <1>3, <1>4, <2>3 DEF SnapshotSection, Durable!vars
<1>5. ASSUME pc[t] \in Writing \ {"commit"}, pc'[t] \in Writing, Durable!Touch, UNCHANGED disk,
             call'[t].main = call[t].main, call'[t].backup = call[t].backup,
             call'[t].asked = call[t].asked
      PROVE  Durable!Replace
  BY <1>3, <1>5, PendingKept, PendingSaves DEF Durable!Replace
<1>6. ASSUME pc[t] \in Writing, pc'[t] = "return", Durable!Touch, UNCHANGED disk
      PROVE  Durable!Fail
  BY <1>1, <1>2, <1>3, <1>6, PendingEnds, PendingSaves DEF Durable!Fail
<1>7. CASE DeleteFile(t)
  <2>1. /\ pc[t] = "delete" /\ pc'[t] = "create" /\ UNCHANGED <<disk, call>>
        /\ UNCHANGED mount \/ SetFile(t, NoFile)
    BY <1>1, <1>7 DEF DeleteFile, Goto
  <2>2. Durable!Touch
    BY <2>1, TargetTouched DEF Writing
  <2>3. QED
    BY <1>5, <2>1, <2>2 DEF Writing, Durable!Next
<1>8. CASE CreateFile(t)
  <2>1. /\ pc[t] = "create" /\ pc'[t] \in {"open", "return"} /\ UNCHANGED <<disk, call>>
        /\ UNCHANGED mount \/ SetFile(t, BadFile)
    BY <1>1, <1>8 DEF CreateFile, Goto
  <2>2. Durable!Touch
    BY <2>1, TargetTouched DEF Writing
  <2>3. QED
    BY <1>5, <1>6, <2>1, <2>2 DEF Writing, Durable!Next
<1>9. CASE OpenFile(t)
  <2>1. /\ pc[t] = "open" /\ pc'[t] \in {"write", "return"} /\ UNCHANGED <<disk, call, mount>>
    BY <1>1, <1>9 DEF OpenFile, Goto
  <2>2. Durable!Touch
    BY <2>1, TargetTouched DEF Writing
  <2>3. QED
    BY <1>5, <1>6, <2>1, <2>2 DEF Writing, Durable!Next
<1>10. CASE WriteFile(t)
  <2>1. /\ pc[t] = "write" /\ pc'[t] \in {"delete", "commit", "return"} /\ UNCHANGED disk
        /\ UNCHANGED mount \/ SetFile(t, BadFile) \/ SetFile(t, call[t].copy)
        /\ UNCHANGED call \/ call' = [call EXCEPT ![t] = [@ EXCEPT !.target = "Backup"]]
    BY <1>1, <1>10 DEF WriteFile, Goto
  <2>2. /\ call'[t].main = call[t].main /\ call'[t].backup = call[t].backup
        /\ call'[t].asked = call[t].asked
    BY <1>1, <2>1 DEF Call
  <2>3. Durable!Touch
    BY <2>1, TargetTouched DEF Writing
  <2>4. QED
    BY <1>5, <1>6, <2>1, <2>2, <2>3 DEF Writing, Durable!Next
<1>11. CASE Commit(t)
  <2>1. /\ pc[t] = "commit" /\ pc'[t] = "return" /\ UNCHANGED mount
        /\ disk' = mount \/ UNCHANGED disk
    BY <1>1, <1>11 DEF Commit, Goto
  <2>2. CASE UNCHANGED disk
    <3>1. Durable!Touch
      BY <2>1 DEF Durable!Touch
    <3>2. QED
      BY <1>6, <2>1, <2>2, <3>1 DEF Writing, Durable!Next
  <2>3. CASE disk' = mount
    <3>1. /\ Pending # Durable!NoSave /\ Pending.files = Written(t)
          /\ Pending.asked = call[t].asked /\ Session = mem
      BY <2>1, PendingSaves, SessionKnown DEF Writing, Saving
    <3>2. \A f \in Written(t) : mount[f] = call[t].copy
      BY <2>1 DEF IInv, FilesWritten, Written, Files, Writing
    <3>3. Durable!Whole(call[t].copy) /\ Durable!Between(call[t].copy)
      <4>1. call[t].copy \in Image
        BY <1>1 DEF Call
      <4>2. \A s \in Sections : call[t].asked[s] <= call[t].copy[s] /\ call[t].copy[s] <= mem[s]
        <5>1. \A s \in Sections : call[t].copy[s] \in Int /\ call[t].asked[s] \in Int
          BY <1>1 DEF Call, Image
        <5>2. QED
          BY <2>1, <5>1, SnapshotComplete DEF Writing
      <4>3. QED
        BY <3>1, <4>1, <4>2, ContentCases DEF Durable!Whole, Durable!Between, IsImage
    <3>4. Pending' = Durable!NoSave
      BY <1>1, <1>2, <2>1, PendingEnds
    <3>5. Durable!Succeed
      BY <1>3, <2>1, <2>3, <3>1, <3>2, <3>3, <3>4 DEF Durable!Succeed
    <3>6. QED
      BY <3>5 DEF Durable!Next
  <2>4. QED
    BY <2>1, <2>2, <2>3
<1>12. CASE SaveReturns(t)
  <2>1. /\ pc[t] = "return" /\ pc'[t] = "idle" /\ UNCHANGED <<mount, disk>>
        /\ t = "main" => UNCHANGED saveSystem
        /\ t = "worker" => ~saveSystem'.isBusy
    BY <1>1, <1>12 DEF SaveReturns, Goto, IInv, TypeOK, SaveSystemFields
  <2>2. ~saveSystem'.isBusy
    BY <2>1 DEF IInv, OneCaller
  <2>3. Pending' = Durable!NoSave
    BY <1>1, <1>2, <2>1, <2>2, PendingEnds
  <2>4. Pending = Durable!NoSave
    <3>1. \A u \in Threads : ~Saving(u)
      BY <1>1, <2>1, Exclusive DEF Saving, Writing
    <3>2. QED
      BY <3>1, PendingKnown DEF PendingIs
  <2>5. QED
    BY <1>3, <2>1, <2>3, <2>4 DEF Durable!vars
<1>13. QED
  BY <1>4, <1>7, <1>8, <1>9, <1>10, <1>11, <1>12 DEF SaveStep

\* The end of a load begins the session with what the file holds.
LEMMA LoadRefines ==
  ASSUME ~Overlap, IInv, LoadedRight, LoadTraced, LoadReturns, Pending' = Pending
  PROVE  Durable!Load \/ Durable!New
<1> USE ThreadNames, Constants, ContentCases
<1>1. /\ pc["main"] = "migrate" /\ pc'["main"] = "idle" /\ UNCHANGED <<mount, disk, mem>>
      /\ mem["main"] >= CURRENT_VERSION /\ mem["main"] # Vanilla
  BY DEF LoadReturns, Goto, IInv, TypeOK, Vanilla
<1>2. Session = Durable!Off /\ Session' = mem
  BY <1>1, SessionKnown DEF Session, SaveSteps
<1>3. mem \in [Sections -> Int] /\ Complete(mem)
  BY <1>1 DEF IInv, TypeOK, Image, MemoryLoaded
<1>4. CASE IsImage(loaded)
  <2>1. PICK f \in Files : mount[f] = loaded
    BY <1>1, <1>4 DEF LoadTraced, LoadSteps
  <2>2. loaded \in Image /\ Loadable(loaded)
    BY <1>4, <2>1 DEF IInv, TypeOK, ImagesLoadable
  <2>3. mem["main"] = IF loaded["main"] < CURRENT_VERSION THEN CURRENT_VERSION ELSE loaded["main"]
    <3>1. /\ loaded["main"] \in Int /\ mem["main"] \in Int /\ loaded["main"] <= mem["main"]
          /\ mem["main"] \in {loaded["main"]} \cup 0 .. CURRENT_VERSION
      BY <1>1, <1>3, <1>4, <2>2 DEF LoadTraced, LoadSteps, Image, Sections
    <3>2. QED
      BY <1>1, <3>1
  <2>4. ASSUME Complete(loaded) PROVE mem = Durable!Restored(loaded)
    <3>1. loaded \in [Sections -> Int] /\ loaded["main"] > 0 /\ "main" \in Sections
      BY <2>2, <2>4 DEF Complete, Image, Sections, Re_Lease, Dev
    <3>2. \A s \in Sections \ {"main"} : mem[s] = loaded[s]
      BY <1>1, <1>4, <2>4 DEF LoadedRight
    <3>3. QED
      BY <1>3, <2>3, <3>1, <3>2 DEF Durable!Restored
  <2>5. ASSUME ~Complete(loaded) PROVE mem = Durable!Restored(loaded)
    <3>1. ~(loaded["main"] > 0) /\ loaded["main"] < CURRENT_VERSION
      BY <2>2, <2>5 DEF Loadable, Missing, Vanilla
    <3>2. IsMigrated(loaded["playerWork"]) /\ mem["main"] = CURRENT_VERSION
      BY <1>1, <1>4, <2>3, <2>5, <3>1 DEF LoadedRight
    <3>3. mem = Migrated(loaded["playerWork"])
      BY <1>3, <3>2 DEF IsMigrated, Migrated
    <3>4. QED
      BY <3>1, <3>3 DEF Durable!Restored
  <2>6. mem = Durable!Restored(loaded)
    BY <2>4, <2>5
  <2>7. QED
    BY <1>1, <1>2, <1>4, <2>1, <2>6 DEF Durable!Load, Durable!Whole, IsImage
<1>5. CASE loaded = NoFile
  <2>1. /\ mount["Main"] = NoFile
        /\ 0 <= mem["main"] /\ mem["main"] \in {0} \cup 0 .. CURRENT_VERSION
        /\ IsMigrated(mem["playerWork"])
    BY <1>1, <1>5 DEF LoadTraced, LoadSteps, Vanilla
  <2>2. mem["main"] = CURRENT_VERSION
    BY <1>1, <1>3, <2>1
  <2>3. mem \in [Sections -> Nat]
    BY <1>3 DEF Complete
  <2>4. mem = Migrated(mem["playerWork"])
    BY <2>1, <2>2, <2>3 DEF IsMigrated, Migrated
  <2>5. QED
    BY <1>1, <1>2, <2>1, <2>3, <2>4 DEF Durable!New
<1>6. QED
  BY <1>1, <1>4, <1>5 DEF LoadTraced, LoadSteps

\* Every step of the code is one of a durable save, or none that a player could see.
LEMMA StepRefines ==
  ASSUME ~Overlap, IInv, IInv', LoadedRight, LoadTraced, OwnFiles, [Next]_vars
  PROVE  [Durable!Next]_(Durable!vars)
<1> USE ThreadNames, ThreadCases, Constants
<1>1. CASE UNCHANGED vars
  BY <1>1 DEF vars, Durable!vars, Session, Pending, Requested, Written
<1>2. CASE Crash
  <2>1. mount' = disk /\ UNCHANGED disk /\ pc'["main"] = "boot" /\ pc'["worker"] = "idle"
        /\ ~saveSystem'.isBusy
    BY <1>2 DEF Crash, NewSaveSystem
  <2>2. Session' = Durable!Off
    BY <2>1 DEF Session, SaveSteps, Durable!Off, Blank, Garbage
  <2>3. Pending' = Durable!NoSave
    BY <2>1, PendingKnownNext DEF PendingIs, Saving, Writing
  <2>4. QED
    BY <2>1, <2>2, <2>3 DEF Durable!Close, Durable!Next
<1>3. ASSUME NEW b \in BOOLEAN, CustomLoadOperation(b) PROVE [Durable!Next]_(Durable!vars)
  <2>1. /\ pc["main"] \in {"boot", "idle"} /\ pc'["main"] \in {"load_parts", "migrate", "aborted"}
        /\ ~saveSystem.isBusy /\ UNCHANGED <<mount, disk, saveSystem, call>>
        /\ pc'["worker"] = pc["worker"]
    BY <1>3 DEF CustomLoadOperation, LoadFound, LoadFailed, LoadNothing, MainThreadFree, Goto,
                IInv, TypeOK
  <2>2. Pending = Durable!NoSave /\ Pending' = Durable!NoSave
    <3>1. \A t \in Threads : ~Saving(t) /\ ~Saving(t)'
      BY <2>1 DEF Saving, Writing, IInv, OneCaller
    <3>2. QED
      BY <3>1, PendingKnown, PendingKnownNext DEF PendingIs
  <2>3. Session' = Durable!Off
    BY <2>1 DEF Session, SaveSteps, Durable!Off, Blank, Garbage
  <2>4. CASE Session = Durable!Off
    BY <2>1, <2>2, <2>3, <2>4 DEF Durable!vars
  <2>5. CASE Session # Durable!Off
    BY <2>1, <2>2, <2>3, <2>5 DEF Durable!Leave, Durable!Next
  <2>6. QED
    BY <2>4, <2>5
<1>4. CASE LoadStep
  <2>1. /\ UNCHANGED <<mount, disk, saveSystem, call>> /\ pc["main"] \in LoadSteps
        /\ pc'["main"] \in LoadSteps \cup {"idle"} /\ pc'["worker"] = pc["worker"]
    BY <1>4 DEF LoadStep, LoadCustomSaveData, MigrateStep, LoadReturns, Goto, IInv, TypeOK, LoadSteps
  <2>2. ~saveSystem.isBusy
    BY <2>1 DEF IInv, OneCaller, LoadSteps
  <2>3. Pending = Durable!NoSave /\ Pending' = Durable!NoSave
    <3>1. \A t \in Threads : ~Saving(t) /\ ~Saving(t)'
      BY <2>1, <2>2 DEF Saving, Writing, IInv, OneCaller, LoadSteps
    <3>2. QED
      BY <3>1, PendingKnown, PendingKnownNext DEF PendingIs
  <2>4. CASE LoadReturns
    BY <2>3, <2>4, LoadRefines DEF Durable!Next
  <2>5. CASE LoadCustomSaveData \/ MigrateStep
    <3>1. pc'["main"] \in LoadSteps
      BY <2>5 DEF LoadCustomSaveData, MigrateStep, Goto, IInv, TypeOK, LoadSteps
    <3>2. Session = Durable!Off /\ Session' = Durable!Off
      BY <2>1, <3>1 DEF Session, SaveSteps, LoadSteps, Durable!Off, Blank, Garbage
    <3>3. QED
      BY <2>1, <2>3, <3>2 DEF Durable!vars
  <2>6. QED
    BY <1>4, <2>4, <2>5 DEF LoadStep
<1>5. ASSUME NEW f \in Flags, CustomSaveOperation(f) PROVE [Durable!Next]_(Durable!vars)
  <2>1. /\ pc["main"] = "idle" /\ pc'["main"] = "snapshot" /\ ~saveSystem.isBusy
        /\ UNCHANGED <<mount, disk, mem, saveSystem>> /\ pc'["worker"] = pc["worker"]
        /\ call'["main"] = NewCall(f[1], f[2], mem)
    BY <1>5 DEF CustomSaveOperation, MainThreadFree, Goto, IInv, TypeOK
  <2>2. Pending = Durable!NoSave
    <3>1. \A t \in Threads : ~Saving(t)
      BY <2>1 DEF Saving, Writing, IInv, OneCaller
    <3>2. QED
      BY <3>1, PendingKnown DEF PendingIs
  <2>3. Pending' = [files |-> Written("main")', asked |-> mem, waits |-> TRUE]
    <3>1. call'["main"].asked = mem
      BY <2>1 DEF NewCall
    <3>2. QED
      BY <2>1, <3>1, PendingKnownNext DEF PendingIs
  <2>4. Session = mem /\ Session' = mem /\ Session # Durable!Off
    BY <2>1, SessionKnown DEF Session, SaveSteps
  <2>5. Written("main")' \in (SUBSET Files) \ {{}}
    <3>1. f[1] \/ f[2]
      BY SaveAssumption
    <3>2. call'["main"].main = f[1] /\ call'["main"].backup = f[2]
      BY <2>1 DEF NewCall
    <3>3. (f[1] => "Main" \in Written("main")') /\ (f[2] => "Backup" \in Written("main")')
      BY <3>2 DEF Written, Files
    <3>4. Written("main")' \subseteq Files
      BY DEF Written
    <3>5. QED
      BY <3>1, <3>3, <3>4
  <2>6. Durable!Request(Written("main")', TRUE)
    BY <2>1, <2>2, <2>3, <2>4 DEF Durable!Request
  <2>7. QED
    BY <2>5, <2>6 DEF Durable!Next
<1>6. ASSUME NEW f \in Flags, CustomSaveAsyncOperation(f) PROVE [Durable!Next]_(Durable!vars)
  <2>1. pc["main"] = "idle" /\ UNCHANGED <<mount, disk, mem, pc>> /\ SaveAsync(f[1], f[2])
    BY <1>6 DEF CustomSaveAsyncOperation
  <2>2. Session = mem /\ Session' = mem /\ Session # Durable!Off
    BY <2>1, SessionKnown DEF Session, SaveSteps
  <2>3. CASE UNCHANGED <<saveSystem, call>>
    BY <2>1, <2>2, <2>3 DEF Durable!vars, Pending, Requested, Written
  <2>4. CASE ~saveSystem.isBusy
    <3>1. /\ saveSystem'.isBusy /\ saveSystem'.writeMain = f[1] /\ saveSystem'.writeBackup = f[2]
          /\ call'["worker"].asked = mem /\ pc["worker"] = "idle"
      BY <2>1, <2>4 DEF SaveAsync, NewCall, IInv, TypeOK, OneCaller
    <3>2. Pending = Durable!NoSave
      <4>1. \A t \in Threads : ~Saving(t)
        BY <2>1, <2>4, <3>1 DEF Saving, Writing
      <4>2. QED
        BY <4>1, PendingKnown DEF PendingIs
    <3>3. Pending' = [files |-> Requested', asked |-> mem, waits |-> FALSE]
      BY <2>1, <3>1, PendingKnownNext DEF PendingIs
    <3>4. Requested' \in (SUBSET Files) \ {{}}
      <4>1. f[1] \/ f[2]
        BY SaveAssumption
      <4>2. (f[1] => "Main" \in Requested') /\ (f[2] => "Backup" \in Requested')
        BY <2>1, <3>1 DEF Requested, Files
      <4>3. Requested' \subseteq Files
        BY <2>1, <3>1 DEF Requested
      <4>4. QED
        BY <4>1, <4>2, <4>3
    <3>5. Durable!Request(Requested', FALSE)
      BY <2>1, <2>2, <3>2, <3>3 DEF Durable!Request
    <3>6. QED
      BY <3>4, <3>5 DEF Durable!Next
  <2>5. QED
    BY <2>1, <2>3, <2>4 DEF SaveAsync
<1>7. ASSUME NEW s \in MutableSections, ChangeSection(s) PROVE [Durable!Next]_(Durable!vars)
  <2>1. /\ pc["main"] = "idle" /\ mem' = [mem EXCEPT ![s] = NextValue(s)] /\ mem \in [Sections -> Int]
        /\ UNCHANGED <<mount, disk, saveSystem, pc, call>> /\ s # "main" /\ s \in Sections
        /\ NextValue(s) >= mem[s]
    BY <1>7 DEF ChangeSection, NextValue, IInv, TypeOK, Image
  <2>2. Session = mem /\ Session' = mem' /\ Session # Durable!Off
    BY <2>1, SessionKnown DEF Session, SaveSteps
  <2>3. Pending' = Pending
    BY <2>1 DEF Pending, Requested, Written
  <2>4. ~Pending.waits
    BY <2>1 DEF Pending, SaveSteps
  <2>5. \A x \in Sections : mem'[x] >= mem[x] /\ mem'["main"] = mem["main"]
    BY <2>1
  <2>6. Durable!Play
    BY <2>1, <2>2, <2>3, <2>4, <2>5 DEF Durable!Play, Sections
  <2>7. QED
    BY <2>6 DEF Durable!Next
<1>8. CASE WorkerStarts
  <2>1. /\ pc["worker"] = "idle" /\ pc'["worker"] = "snapshot" /\ pc'["main"] = pc["main"]
        /\ UNCHANGED <<mount, disk, mem, saveSystem>> /\ saveSystem.isBusy
        /\ call'["worker"].main = saveSystem.writeMain
        /\ call'["worker"].backup = saveSystem.writeBackup
        /\ call'["worker"].asked = call["worker"].asked
    BY <1>8 DEF WorkerStarts, Goto, IInv, TypeOK, OneCaller, Call
  <2>2. Written("worker")' = Requested
    BY <2>1 DEF Written, Requested
  <2>3. Pending = [files |-> Requested, asked |-> call["worker"].asked, waits |-> FALSE]
    BY <2>1, PendingKnown DEF PendingIs
  <2>4. Pending' = [files |-> Written("worker")', asked |-> call'["worker"].asked, waits |-> FALSE]
    BY <2>1, PendingKnownNext DEF PendingIs
  <2>5. QED
    BY <2>1, <2>2, <2>3, <2>4 DEF Durable!vars, Session
<1>9. ASSUME NEW t \in Threads, SaveStep(t) PROVE [Durable!Next]_(Durable!vars)
  BY <1>9, SaveRefines
<1>10. QED
  BY <1>1, <1>2, <1>3, <1>4, <1>5, <1>6, <1>7, <1>8, <1>9 DEF Next, Game

\* For the player a save on two threads, section by section and file by file, whatever
\* fails on the way, is one step that makes its files durable together, or none; and
\* a session begins with exactly what a file of the mod holds, or with the migration
\* of one from before it (SaveSystem$$Save, CustomLoadOperation in save_hooks.cpp and
\* migrateToReLease in release.cpp implement DurableSave).
THEOREM SavesAreDurable ==
  ASSUME ~Overlap
  PROVE  Spec => ImplementsDurable
<1> USE ThreadNames, ThreadCases
<1>1. Init => LoadedRight /\ LoadTraced /\ OwnFiles
  BY DEF Init, LoadedRight, LoadTraced, OwnFiles, LoadSteps, SaveSteps, Writing
<1>2. Init => Durable!Init
  <2> SUFFICES ASSUME Init PROVE Durable!Init
    OBVIOUS
  <2>1. Session = Durable!Off
    BY DEF Init, Session, SaveSteps, Durable!Off, Blank, Garbage
  <2>2. Pending = Durable!NoSave
    BY DEF Init, Pending, SaveSteps, NewSaveSystem, Durable!NoSave, Durable!Off, Blank, Garbage
  <2>3. QED
    BY <2>1, <2>2 DEF Durable!Init, Init
<1>3. IInv /\ LoadedRight /\ LoadTraced /\ OwnFiles /\ [Next]_vars
        => (IInv /\ LoadedRight /\ LoadTraced /\ OwnFiles)'
  BY InvStep, LoadedStep, TracedStep, OwnStep
<1>4. IInv /\ IInv' /\ LoadedRight /\ LoadTraced /\ OwnFiles /\ [Next]_vars
        => [Durable!Next]_(Durable!vars)
  BY StepRefines
<1>5. QED
  BY <1>1, <1>2, <1>3, <1>4, InvInit, PTL DEF Spec, ImplementsDurable, Durable!Spec
=============================================================================
