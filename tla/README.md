# Verification of Luminescent ExLaunch

TLA+ models of the code of this repository, TLC runs that check them on small
instances, and proofs that the TLA+ proof system (TLAPS) checks for every
instance.  Source paths below are relative to the repository.

The repository is a code module that is injected into *Pokemon Brilliant Diamond /
Shining Pearl* on the Switch.  It replaces functions of the game (compiled from C#
by il2cpp), adds battle mechanics, script commands and screens, and replaces the
save system.

## 1. The parts and how they interact

| part | source | state | operations | interacts with |
|---|---|---|---|---|
| custom save | `src/mod/save`, `src/common/helpers/fsHelper.cpp` | `CustomSaveData`, `SaveData.bin`, `Backup.bin`, fields of `PlayerWork` and `SaveSystem` | load, migrate, save, asynchronous save | the game's save thread; every feature that keeps data |
| hooking | `src/common/exlaunch/hook` | the code of the game, the pools of trampolines and inline entries | replace, trampoline and inline hooks | every feature installs hooks at start |
| code memory | `src/common/exlaunch/{util/sys,patch}`, pools in `hook` | list of modules, second mappings of code, rows handed out, lines not flushed | find modules, map and unmap, write, flush | hooking and every patch write through it |
| loader of the module | `src/common/exlaunch/{init,reloc}` | relocated pointers | relocate, resolve symbols | none after the start |
| turn of a battle | `src/mod/features/move_handlers/{pursuit,sky_drop,rage}.cpp`, `ability_handlers/{zen_mode,shields_down,schooling,stance_change}.cpp`, `field_handlers/weather.cpp`, `battle_escape_flag.cpp` | flags of the actions, per-Pokemon counters, forms, weather and its turns | `Section_ProcessActionCore::Execute`, event handlers that the battle engine calls | battle engine of the game, which calls the handlers in an order of its own |
| other moves, abilities, sides, items | `src/mod/features/{move,ability,side,field}_handlers*`, `battle.cpp` | handler tables | handlers that compute one value | battle engine |
| script commands | `src/mod/features/commands*` | static variables that live from frame to frame | one call per frame until the command says it has ended | the game's event script |
| pushed objects | `src/mod/features/pushable_entities.cpp` | two pairs of statics, works of the scripts | one call per frame | the list of field objects, the event script |
| wild encounters, Poke Radar | `src/mod/features/encounter_slots.cpp` | patches of the radar, the list of slots of an encounter | the lottery of the radar, a step, Sweet Scent, fishing | tables of the zone, the game's field engine |
| field features | repel, bike music, naminori | work variables, flags | per-frame updates | field engine |
| user interface | poketch, settings, color variations, move relearner, battle UI | cursors, pages, touches | per-frame updates, callbacks | the game's UI manager |
| debug | `src/common/{imgui_backend,socket}`, `src/mod/{ui,logger}`, `InputHelper` | input of two frames, connection state | per-frame updates, log | none of the above depends on it |
| data of the ROM | `src/mod/romdata` and others | none: JSON files read on demand | lookups | features |

What is hard here: the save runs on two threads without a lock and replaces files in
place; relocation of code has many alternatives that interact through addresses; script
commands and screens keep state in statics between frames; handlers of the battle engine
are called in an order that no test of this repository exercises (it has none).

## 2. Modules

### Custom save: `DurableSave`, `SaveSystem`, `SaveInv`, `SaveProofs`, `SaveSafetyProofs`, `MCSaveSystem`

`SaveSystem.tla` models `save_hooks.cpp`, the migrations and the file helper.  The
two threads that may be in `SaveSystem$$Save` are the main thread (`CustomSaveOperation`)
and the save thread (`SaveAsync`).  `pc` is the place of each; each call of the file
system is one step, with its failure where `Faults` names it:

| action | code |
|---|---|
| `CustomLoadOperation`, `LoadCustomSaveData`, `LoadReturns` | `PlayerWork$$CustomLoadOperation` up to the migration; `FailedLoad` ends the process |
| `MigrateStep` | one turn of the loop of `migrate()` |
| `ChangeSection` | the running game changes one section; `ZukanWork$$SetPoke` changes two, one after the other |
| `CustomSaveOperation`, `CustomSaveAsyncOperation`, `WorkerStarts` | the two ways into `Save` |
| `SnapshotSection` | `ToJson(playerWork)` and the five sections of `WriteCustomSaveData`, one read each |
| `DeleteFile`, `CreateFile`, `OpenFile`, `WriteFile`, `Commit` | `writeFileToPath` and `Commit` |
| `SaveReturns` | the return of `Save`, whose result nobody reads |
| `Crash` | power loss or the user closing the game, and the next start |

A value is a version number of one serialised section: 0 is what `Initialize()` sets,
`Garbage` is memory of `nn_malloc` that nobody has written, `Missing` a key that the file
does not have.  The value of `PlayerWork` also says what the migration to `Re_Lease` reads and writes there: its body type
(`BodyType`, of which two are told apart) and whether there are 80 boxes and fast text (`IsExpanded`).  `migrateToReLease`
keeps the rest of it, sets these two (`Expanded`) and derives the color from the body type (`BodyColor`, which is never the
color of `Initialize()`); every change of the game keeps the body type and may undo the text speed.  Code of the game that `src/` only calls (the save thread, `SaveDataExists`,
the journaled save data of the console) is modelled from how `src/` uses it and marked
external: files change in `mount` and become durable in `disk` by `Commit`.

`DurableSave.tla` is what a player relies on, without threads, sections or calls of the file system: a request; then either one
step (`Succeed`) that makes all files of the save durable together, all the same, each section as it was at some moment since
the request (exactly the memory at the request if the game waits for the save), or an end (`Fail`) that leaves nothing behind but damage to those
files as the session sees them; a session begins (`Load`) with exactly what a file of the mod holds, its version apart, or, for a file without custom data,
with the migration of its PlayerWork (`Migrated`); it may `Close` at any moment.
`ImplementsDurable` says that the code does this, with `disk`, `mount`, the memory of a loaded session (`Session`) and the save under
way (`Pending`) for its variables.  What it does not promise is as true of the code: a later save makes durable what a failed one has
left in other files.

| run | asks | instance |
|---|---|---|
| `save_main` | can a failed save, an early return or a crash leave the console without a loadable `SaveData.bin`; is a save, to the player, one step from the request to durable files or to nothing, and does a session begin with what a file of the mod holds or the migration of one from before it (`ImplementsDurable`); do loads (with their migration loop) and saves end; does a request of `SaveAsync` become durable once calls no longer fail | saves to `SaveData.bin` alone or both files, every call may fail, version `Dev` with three migrations |
| `save_any_file` | does one of the files stay loadable when the game may also write only `Backup.bin`; does a session never forget that a save exists, and does a load restore exactly the file of the mod, or migrate one from before it, boxes, text speed and color included, and nothing else (`LoadRestores`) | all three combinations of flags, every call but `CreateFile` may fail |

Bounds: two sections that change and one change each are enough to tell an old value from
a new one in a file, and to mix two sections of different moments; the six sections, both
files and both threads are there in full.  `PlayerWork` changes once in a session of the mod's save (`MaxOfMod`), and in
`save_any_file` also after a migration (`MaxOfAll`).  Initial disks: nothing, a save without custom
data, a save of this mod, the latter two of another body type than a new game and with slow text.  `Crash` may happen in any state, any number of times.

Fairness (`FairSpec`): the save thread, once started, and a call under way on the main
thread keep running.  The operating system's scheduler gives that; nothing is assumed
about the game calling anything.  A single request may be lost for good: to a failed call, whose
result nobody reads, or because it came while `_isBusy`.  `SavesLand` therefore speaks of a game
that goes on asking, and of calls that fail only finitely often: whatever the failures have left on the
mount, a later request lands, unless the console is started anew again and again.

What the instances leave out on purpose, and what happens otherwise (each was tried):
with all flag combinations `MainAlwaysLoadable` is violated (a save that writes only
`Backup.bin` commits the half-written `SaveData.bin` of an earlier failed save), which is why
the run with those flags checks `SomeImageKept`; when `CreateFile` can fail,
`LoadRestores` is violated (the file has been deleted by then, so a load of the same
session finds none), so that run leaves this failure to the theorem `KeepsSomeImage`, which
covers it; with `Overlap = TRUE`, `ImplementsDurable` is violated, as is `ImagesLoadable` (a load resets the
version to `Vanilla` while the save thread serialises it) and `SavesLand` too (a load takes back
what was to be saved).  Whether the game's own code
calls load or save while `_isBusy` is not visible in `src/`; the hazard list names it.

`SaveProofs` and `SaveSafetyProofs` prove, for every disk, set of flags, faults and bound:
`TypeCorrect`; and, when the game does not overlap its calls, `SavedImagesLoadable`,
`CommitsAreFresh` (a `Commit` makes the memory at the request, or newer, durable; also part of the refinement), `KeepsSomeImage`,
`SavesAreDurable`, when every save writes `SaveData.bin`, `MainStaysLoadable`, and when `CreateFile` does not fail, `LoadsRestore`.  None of these invariants is inductive alone.  The inductive one, `IInv` in
`SaveInv`, adds: at most one thread is in a save or load (`OneCaller`); memory is complete
outside a load (`MemoryLoaded`); what a save has serialised lies between the memory at the
request and the memory now (`SnapshotBounded`); the files a save has replaced hold its image
(`FilesWritten`); every save writes a file (`SomeFile`).  `LoadsRestore` needs two more: what a load has read so far
is what memory takes from the file, before each migration, and its migration after (`LoadedRight`, with `IsMigrated`), and a file of the disk
is missing from the mount only while a thread is between deleting and creating it (`NotHidden`).  `SavesAreDurable`, that every step of
`SaveSystem` is a step of `DurableSave` or none, needs that a load under way has read a file that is still on the mount, and has not raised its
version too far (`LoadTraced`), and that a save replaces no file it was not asked to write (`OwnFiles`).

### Hooking: `Relocation`, `RelocationProofs`, `MCRelocation`

`Relocation.tla` models `HookFuncImpl` with everything it calls: `__fix_instructions`, one
action per `__fix_*` function with its near and far form, `process_fix_map`, the jump back, the
patch, and the entry that `HookInline` writes.  Addresses count instructions; an ADR may compute any byte, and its op
says which of the word (`Low`, the `lsb_bytes` of the code).  `out` is the
trampoline, `ins` and `fixes` are `ContextInfo.dat[].ins` and `.fmap`.

The second half of the module says what a trampoline does when it runs (`SameEffect`):
the relocated code must reach the same targets, load the same literals and go on behind the
overwritten code.

| run | asks |
|---|---|
| `reloc_hooks` | far hooks of four and five instructions: branches among them in every order, forwards, backwards and to themselves; every kind of PC-relative operand, mixed, with each alignment.  Near hooks of the three kinds: every single instruction with every displacement near the limits.  Does the trampoline run like the original and fit its row, do the patch and the inline entry lead where they should |
| `reloc_backward` (violation) | a conditional branch backwards keeps its target |

Distances are scaled down: a row of 50 words is far shorter than every range of a
displacement, and every range far shorter than the distance of a far trampoline, as on the
console.  The near hooks of `reloc_hooks` enumerate every displacement of the scaled ranges.  These runs say
`CHECK_DEADLOCK FALSE`, because the installation of a hook ends.

`RunsLikeOriginal` says that the trampoline has the effect of the original, that an inline hook comes back behind
its instruction, and that every literal is aligned as its load needs it; `HookFits` that a trampoline
stays in its row and that the patch overwrites no more than was relocated.  `RunsLikeOriginal` speaks of
the code described by `Supported`: operands other than
those of B and BL lie ahead, no ADRP is the target of another overwritten instruction or
computes a page that begins in the overwritten code, and literals are far away, as is a byte within a word that an
ADR computes outside of the overwritten code.  Outside of
that the code is wrong, in ways the source shows and `Relocation.tla` models: conditional displacements
lose their sign (run `reloc_backward`); the displacements of LDR, ADR and ADRP are made unsigned by
`& ~3u`; the sign of a near literal runs into the size bits of the load; a near ADR of a byte that begins no word gets the low bits
of the new displacement shifted into the register number (`new_pc_offset << 3` in `hook_impl.cpp:418`, against the comment of
line 417, "the lsb_bytes will never be changed"), which is `"badadr"` unless the register has these bits set; an ADRP without padding
notes the address of the writable mapping as its start (`hook_impl.cpp:424`); the comment
of line 433 ("ref_idx must be less than or equal to current_idx!") is wrong where a page begins
among the overwritten instructions.

`RelocationProofs` proves for every set of instructions, places and ranges: `RelocationTyped`,
`HooksFit` and `TrampolinesRunLikeOriginal`.  For `HooksFit` (five instructions need at most 5 * 9 + 5 = 50 words: the row of
`MaxInstructions * 10` is exactly enough; the patch lands on relocated instructions only) the inductive invariant `RelocInv`
adds how far the relocation has come (`Progress`) and what each instruction may add (`RowUsed`).

`TrampolinesRunLikeOriginal` is about a trampoline that is complete; the inductive invariant `EffectInv` says the same of one
that is still growing, without running it.  `Effect(k, a)` lists the forms that the words of
instruction k may have at `a`: the copy, one word with a displacement, a jump or call through a literal, a copied
literal, a loaded address, or nothing.  In each, everything behind is NOPs up to where the next instruction starts
(`Gap`), and every word is there to stay (`Holds`) or has the one fix that its target still needs (`Goes`); words that
no list of fixes names are never written again (`Grows`).  So a turn of the loop has to be looked at only for the
words it adds and the fixes it applies (`GoesKept`): displacements inside the row are within every range
(`EncodedInRow`), and the target that the relocator reads is the operand of the instruction if `Supported` holds (`ReadRight`).
Three parts more are needed: starts lie in the row, in whichever of its mappings they were noted (`StartsInRow`);
the jump back leads behind the overwritten code (`GoesBack`); each word stands where its literal is aligned, and no fix falls on a load
(`Alignments`).  At the end `LandsAll` shows that control comes from every start to a word that is no NOP, from the last instruction to the
first, so that `SkipNops` always ends in the trampoline.

Two assumptions on the constants carry this.  `RelocationAssumption` gives their types.  `RangesAssumption`
says that a row (50 words) is shorter than the shortest displacement (TBZ: 2^13 words) and lies apart from its writable mapping and
from the hooked code, and that 32 bits hold every displacement, in words or, for an ADRP, in pages (2^20 pages of 2^10 words
are 2^30 words): the game's code, the pool in the mod's own code and the writable mapping of the pool are disjoint
ranges of addresses, and the rest are widths of the instruction set.  The forms outside of `Supported` need no assumption; of a hook over such code the theorem states
the alignment only.

### Code memory: `CodeMemory`, `CodeProofs`, `MCCodeMemory`

`CodeMemory.tla` models how the mod reaches the code it changes, from `exl_init` to the hooks and
patches of `exl_main`, on one thread.  Code is mapped without write access, so `RwPages` maps its pages a
second time and everything is written through such a mapping: one that lasts around the game (patches) and
one around each pool, and one per hook that is unmapped when `HookFuncImpl` returns.  Addresses count
instructions; `pages` is the page table of the second mappings and `stale` the words that were written
since they were last flushed.

| action | code |
|---|---|
| `LookingForCodeStatic`, `ExpectingRodata`, `ExpectingData`, `TooManyStaticModules` | one turn of the loop of `FindModules`, by state |
| `InitPatcherImpl`, `InitializeHooks`, `InitializeInline`, `NoSuchModule` | the boot, each with `Construct`, the start of `RwPages::RwPages` |
| `MapRange`, `Constructed`, `NotTheSame` | one range of `ForEachMemRange`; the comparison at the end of the constructor, which ends the process when it fails |
| `Destruct`, `UnmapRange`, `RemoveReservation` | `RwPages::~RwPages` |
| `Hook`, `PoolIsFull`, `HookFuncImpl`, `WriteFails`, `FlushHook`, `HookReturns` | `Hook` and `HookFuncImpl`, with the rows of `AllocForTrampoline` |
| `HookInline`, `FlushInline` | the rest of `HookInline` after its `Hook` |
| `Patcher`, `WriteInst`, `Seek`, `PatcherEnds` | a `CodePatcher` of a feature |

| run | asks |
|---|---|
| `code_memory` | are the modules found that are there, in their order; is every claim seen word for word through its mapping, whatever the next one maps and unmaps; does each write land where it was meant to and nowhere else, and is it flushed when control goes back to the features; do the loops over the memory map end |
| `claim_straddle` (violation) | "Ensure the data at the different mapping is the same": a hook of five words across the end of a page |

Bounds: pages of eight words hold the longest patch (five words) and let it begin before, at and behind the end of
a page (`HookOffsets`); the memory maps have the modules side by side and apart, text that belongs to no module, no
module, and as many as `s_MaxModules`; the game's claim spans two ranges and three pages.  One row per pool and two hooks
suffice to hand out a row too many, which `i > HookMax` allows: `WritesLand` is claimed as long as all
rows are in the pool; behind it, the write lands in the page of another claim or ends the process (`WriteFails`).  The free
pages leave room for every claim, so `virtmemFindAslr` never fails, and let two pools lie side by side or apart.  Spare pages
are few enough that each hook gets addresses an earlier one has given back.

The kernel's memory map, page table and the choice of `virtmemFindAslr` are external.  Cache maintenance by either address
of a word is taken to reach the word, as on the console's cores, whose instruction cache is
physically tagged; `RwPages::Flush` relies on it, as it invalidates the instruction cache at the writable address only.
The trampoline of a hook is written as a whole row.  The process stops when it aborts, so the runs
say `CHECK_DEADLOCK FALSE`.  Fairness (`FairSpec`): the thread that boots keeps running.

`CodeProofs` proves for every memory map, size of a page and of the pools, and every sequence of patches and
hooks: `CodeTyped`, `FindsModules`, `CoversClaims` and `LandsWrites`.  The inductive invariant has three parts:

- `ScanInv`: after the first ranges of the map, `FindModules` is in the state the last two call for and, in a
  proper map, has found as many modules as have ended (`Walk`); what it found begins at a module, with all earlier
  ones before it (`Found`).  A module therefore cannot be missed because the one before left the loop in a wrong state.
- `ClaimInv`: which claims there are at which point (`Staged`), and of what (`ClaimsKnown`); no two reserve a page in
  common (`Apart`); whatever is mapped shows what its claim means it to show (`Shown`), and all claims but
  the one that is mapped or unmapped just now are complete (`Covered`); unmapping has left only what lies behind the
  last range (`Unmapping`).
- `Landing`: what was written is what was meant, and what is not flushed is what the function under way is about to flush
  (`Pending`) or what the features have not flushed yet.

`LandsWrites` assumes `PatchesInMain`: maps are proper and offsets of patches lie in the game's module, from which
they were taken.  `ClaimsCovered` and `ModulesFound` need no such assumption.  Like the run, `WritesLand` speaks
of writes as long as the pool has rows.

### Script commands: `ScriptSteps`, `ScriptCommands`, `ScriptProofs`, `MCScriptCommands`

`ScriptSteps.tla` is the specification that a script's author relies on: a script is a
sequence of commands; while one runs, nothing is said of what it moves; when it ends, the
thing it names has been displaced by exactly its argument.  `ScriptCommands.tla` is the code:
the dispatch `RunEvCmdCustom::Callback`, which the game calls once per frame, and the commands
that return false until they have finished and keep their place in statics and in
`EvDataManager::_timeWait`.

| action | code |
|---|---|
| `Fetch`, `ScriptEnds` | the game's `EvDataManager` goes to the next command, or stops (external) |
| `Frame`, with `Frozen` and `HandleCmdStepper` | `RunEvCmdCustom::Callback` and `HandleCmdStepper` (`commands.cpp`) |
| `EntityMove`, `GameObjectMove`, `SetCameraOffsetAngle` | the files of that name, whose body is the same (`Move`) |
| `GameObjectRotate`, `GameObjectRotatePivot` | the rotations that add a share each frame and the rest at the end |
| `JumpAndRotate` | `jump_and_rotate.cpp`: two halves with their own ends |
| `LedgeJump` | `ledge_jump.cpp`, whose entity may disappear on the way |
| `StepOver`, `EnableDebugging` | the buttons of the debug window `script_tool.h` |

| run | asks |
|---|---|
| `script_commands` | do three commands in any order, with frames of uneven length and a user of the debug stepper, displace what a script says; is every static at rest and every jump landed between commands (`EndsAtRest`); does anything overshoot; does the stepper run at most one command at a click, and stop a command in its middle only when a user switches debugging on over an old stop; does the script end |
| `script_instant` (violation) | an instant `JumpAndRotate` turns the camera by its own angle |

Bounds: `DeltaTimes` of one and two ticks with `Second = 3` give frames that end before, at and
behind every limit of the commands, whose lengths are 0 to 5 ticks; three commands are enough for
what one leaves behind to meet the same command after another one.  Vectors have one coordinate
and easing is linear: the code treats coordinates alike, and `FCEasing` is a function of elapsed
time alone.

`GameObjectRotate` and `GameObjectRotatePivot` are the only commands that end without clearing
`_timeWait`.  Whether the game clears it before the next command is not visible in `src/`:
`EngineClears` says so.  The run assumes that it does, the theorems that it does or that no script uses these
two (`TimeCleared`); without that, a move after a rotation takes its second frame for its first,
starts from where an earlier move started, and `ImplementsSteps` is violated.  So what a stale `_timeWait`
would do is not exercised.  `StaysOnWay` leaves out
`GameObjectRotate`, which may overshoot by up to the share of a frame before its last one puts it right.

The stepper's stop is flag 997, and a command that ends sets it only while debugging (flag 996) is on.
"Enable Script Command Debugging" sets flag 996 alone (`script_tool.h:26-28`): switched off, it leaves the stop of the last
command, and the script runs on, as `RunEvCmdCustom` looks at both flags (`commands.cpp:27`).  Switched
on again in the middle of a later command, the old stop holds that command where it is, until "Step Over" or debugging is off again.
The model does that, and `StepperExact` names it as the only way to be stopped inside a command.

Fairness (`FairSpec`): the game calls the current command once per frame (`WF(Frame)`) and fetches
the next one when it has ended (`WF(Fetch)`).  A user may freeze the script for ever; `ScriptsEnd`
says what happens otherwise.

`ScriptProofs` proves for all commands, angles, lengths and frame times: `ScriptTyped`;
`ScriptImplements`, that `ScriptCommands` implements `ScriptSteps` with `value` mapped to what the
script sees; `StepperRunsOne`, that the debug stepper runs one command at a click and stops one in its middle only as said above;
`ScriptEndsAtRest`, that no static outlives its command and a turning jump has landed;
`ScriptStaysOnWay`, that no frame carries anything past the place its command leads to.
`ScriptImplements`, `ScriptEndsAtRest` and `ScriptStaysOnWay` assume `Clean`: `TimeCleared`, and `InstantTurnsAlike`, that an instant turning jump is
given one angle for camera and player.  The second leaves out the commands that `script_instant` shows the code
to get wrong (`jump_and_rotate.cpp:183-185`).  The inductive invariant `SInv` says for each kind
of command what its statics hold in the middle of it: the eased ones remember where they
began, the rotating ones have added what `accumulated` says.

### Pushed objects: `PushableEntities`, `PushableProofs`, `MCPushableEntities`

`PushableEntities.tla` models the punching bags that slide along rails and the objects that call
their script on contact.  The game calls `KairikiPushObject` once per frame; its hook calls the
two functions, each of which walks over the list of field objects and remembers in two statics which
object is pushed and for how long.  A step of the model is one turn of such a loop; turns for objects
of another kind or out of reach do nothing and are skipped.

| action | code |
|---|---|
| `KairikiPushObject` | the hook; the frame's input: direction, tile the player stands against, whether the tile behind is free, menus and stick, `_deltatime` |
| `Enter` | both functions up to the loop: `IsPlayerAbleToPush`, the copies of the statics and their reset |
| `LoopEnds` | the loop has seen the list |
| `Bump` | `PushEntity` says that the object does not move: the player's movement is set to zero |
| `Blocked` | the tiles count to zero and `PunchingBagPushObject` returns |
| `PushBag` | the static time, and when it is long enough the works, the search for tires and the script |
| `PushContactable` | the same for objects on contact |
| `BagScript`, `OtherScriptStarts`, `OtherScriptEnds` | the game's event script (external): it moves the bag by the works and breaks the tires |

`Touches` and `Outgrid` are what the game's `WA_Kairiki::PushEntity` returns (external).  `held` is a
history: how long each object has really been pushed without a break.  The loop over tiles is the set of
tiles it reaches, with the source's quotient, turns and signs in each direction.

The run `push_objects` has two bags on rails that cross, tires behind both stoppers, an object on
contact on the way, an obstacle on a rail, and players that may and may not push.  It asks whether a bag
ever leaves the rails, rests in the middle of one, breaks the wrong tires or spares the right ones; whether a
script starts without a push of the full time; whether works change under a script; and whether a held
push takes effect.

Bounds: `ZoneSize = 4` stands for 32 and the rail crosses the border of two blocks of the map, so every end of
the loop over tiles occurs: stopper, obstacle, end of the rail, end of the block.  `PushTime = 3` with frames
of 2 needs a first frame and two more, the last of which overshoots.  `held` stops at `PushTime`.

What the game is assumed to do: `JumpLabel` makes `IsRunningEvent` true at once and the label exists; a
script takes at least one frame (`FrameSeen`), in which `IsPlayerAbleToPush` resets the statics.  Without
the latter the time of one push would count for the next, as a function that starts a script does not reset its statics.
Fairness (`FairSpec`): the game goes on calling `KairikiPushObject`, which runs to its end.

What the model shows of the code and a map's author should know: up and left the loop includes the first tile
of a block, down and right it leaves out the last, so a bag pushed down or right comes to rest one tile before
the border and goes no further, while up and left it rests on the border and crosses it with the next push (`AtEdge`);
only attributes are looked at, so a bag slides through other objects on its way.

`PushableProofs` proves for every map, list of objects, push time and length of frames: `PushTyped`,
`PushHeldLongEnough` (no script without a push of the full time, and no works changed under a script), `PushStaysOnRails`,
`PushRestsAtEnd` and `PushBreaksTiresAhead`.  `HeldLongEnough` is not inductive:
it speaks of the history, the code of the statics.  `HeldInv` adds that the
statics never say more than the history (`TimeIsHeld`), nor do their copies inside a function (`OldIsHeld`), that what can be
pushed has been counted (`CountsHeld`), and that a function in its loop has found the player able to push (`InLoop`).  `RailInv` adds to `BagsOnRails`, `RestsAtEnd` and `BreaksTiresAhead` that the works of a running script lead to a tile of the rail
(`WorksLead`); the lemmas `TilesFollowRail` and `SignedTiles` say that of the loop over tiles, in every direction, with
the least tile that ends the loop taken from the library's well-founded orderings.

### A turn of a battle: `FormAbilities`, `BattleTurn`, `BattleProofs`, `MCBattleTurn`

The battle engine is the game's.  What the mod puts into it meets in the order of events of a turn:
`pursuit.cpp` replaces `Section_ProcessActionCore::Execute`, so that a Pursuit runs inside the action of the
Pokemon that is about to leave; Sky Drop and Rage keep something in the record of a Pokemon over turns; four abilities
change the form of their Pokemon when an event finds that it does not fit.  `FormAbilities.tla` has the
abilities as operators on the record of one Pokemon, one operator per event of their tables; `BattleTurn.tla`
is the turn.  `stack` holds the activations of `Execute`, each with its place in the function and in the
loop over the actions.

| action | code |
|---|---|
| `PursuitInterrupt`, `PursuitDone` | the loop of `PursuitProcess`, one turn for each action it hands to `PursuitInterrupt` |
| `ActionCheer`, `Missing`, `Cancelled`, `ActProcStart`, `EventActProcEnd` | the rest of `Execute`, in its order |
| `Pursuit`, `FreeFallStart`, `SkyDropFalls`, `Rage` | the moves of the mod, with every handler of their tables that changes state |
| `HitAndLeave`, `KingsShield`, `ThunderWave`, `Transform`, `GastroAcid`, `WorrySeed`, `MoveFails`, `PokeChange` | moves and changes of the game that raise the events the mod's handlers answer (external but for those handlers) |
| `ChangeWeather`, `TurnCheckWeather` | `weather.cpp`: which weather may replace which, turns and damage |
| `Escape` | `battle_escape_flag.cpp` |
| `Choose`, `TurnStarts`, `ProcessAction`, `TurnCheckDoneEvent`, `Refill`, `NextTurn` | the engine (external) |

The run `battle_turn` has eight battles of four Pokemon: leaving and pursuing over two turns; two that pursue, also
one another; a Pursuit aimed at a partner; Sky Drop with an escape the player is asked about; a wild battle; one that
forbids escape; abilities and forms that are changed; weathers.  It asks whether anybody acts twice or a Pursuit sets off another
(`ActsOnce`); whether whoever leaves has met every Pursuit meant for it, lives and is not carried (`LeavesFairly`); whether
the doubled hit falls on the leaver only (`StruckOnItsWay`); whether Sky Drop leaves nobody in the sky alone and rage ends
(`LastingMovesHold`); whether forms fit the hit points whenever actions are chosen, and never change on a Pokemon that
has transformed (`FormFollows`); whether a turn ends.

Bounds: four hit points put both limits (a half, a quarter) between values; `RankCap = 1` because only "raised
or not" matters; one to three turns, enough for Sky Drop's two and a third in which something
may have been left behind.  Fairness: the engine goes on until it asks for the next actions (`WF(Next)`).

What is assumed: an action has a work value of its own for Pursuit; a Pokemon in the middle of Sky Drop can
choose nothing else; a hit costs one hit point and the doubled one two; a Darmanitan that has not been on the field has a standard
form, as only its ability gives it the zen form (`Fresh`), while a Minior may come with its shell or as a core.  Left out: messages, `TURNFLG_*`, raids, the
handlers that only compute power or type.  Weather is modelled because it costs hit points, which the forms follow; no property is about weather alone.

What the model shows of the code: a second Pursuit interrupts a leaver that the first has already knocked out,
and it hits nothing; a Pursuit may knock out the user of U-turn before its move, which then does not happen;
`HandlerZenModeLumiChangeTokuseiAfter` answers when another Pokemon's ability has changed (`!= pokeID`), and the table
of `ADD_ZenMode_Lumi` has no handler before a change, so a Darmanitan whose Zen Mode is replaced keeps the zen form
(`FormFollows` therefore speaks of an ability in force); Stance Change does not ask whether its Pokemon has transformed.

`BattleProofs` proves for all Pokemon, teams, battles and numbers of turns: `TypesHold`, `ActsAtMostOnce`,
`LeaversMetAndFit`, `LastingMovesTie`, `StrikesOnTheWay` and `FormsFollow`.  None is inductive.  `TurnInv` adds: what is in the queue is each Pokemon's only action, and what has been
counted has `fDone` (`QueueInv`); while actions are chosen nobody has acted; each activation has passed its own
guards and, behind the loop, no Pursuit meant for its Pokemon is left (`FrameInv`); there are at most two, the inner one
an interrupting Pursuit that changes nobody's place (`NestInv`).  On top of it

- `LastingMovesTie` shows `Lasting`: carrying and being carried match, also for who has fainted or left (`Paired`), nobody who is off the field
  rages or keeps a raised attack (`Calm`), and nobody who has fainted is in the air (`Aloft`);
- `StrikesOnTheWay` shows `StruckInv`: no two Pokemon share a spot, an action that interrupted is done, and
  the inner activation aims at the spot of the outer one's Pokemon.  It assumes `MaxHp < 32`: a hit of the model costs one
  hit point, and with more than that the sixteenth that the weather takes of everybody is as much as the doubled hit;
- `FormsFollow` shows `FormInv`: what a bearer of one of the abilities has of its own form, on the field and off it, and
  that whoever is on the field shows the form of its hit points whenever the engine refills spots or asks for actions.
  Every event is shown to do nothing else to the record of one Pokemon (`Rightful`), and to leave a copied form alone (`Sincere`).

### Wild encounters and the Poke Radar: `SwayGrass`, `EncounterSlots`, `SwayProofs`, `MCEncounterSlots`

`SwayGrass.tla` is the lottery `SwayGrass$$LotSwayGrass`: the square around the player is searched for tiles of the material
under the player, each has its ring as rank, and up to four are drawn at random, each from a threshold on that sinks by
two.  `EncounterSlots.tla` adds how the list of slots comes about: a slot is the entry of a
table, each `Set...Slots` function of the code is one operator on the list, and `Walk`, `SweetScent` and
`Fish` apply them in the order of the three hooks.

| action | code |
|---|---|
| `LotSwayGrass` | the function up to the loop over the patches |
| `DrawPatch` | one turn of that loop, with its inner loop of random draws |
| `LotteryReturns` | the rest |
| `Walk`, `SweetScent`, `Fish` | `FieldEncountCheckEncounterSlots`, `SetSweetEncountEncounterSlots`, `SetFishingEncountEncounterSlots` with `SetEncounterType` and `ReturnWaterEncounter` |
| `RadarEnds`, `BattleEnds` | the game (external) |

| run | asks |
|---|---|
| `radar_encounters` | on ten grounds and 24 places: do the patches lie on different tiles of the right material, as far out as they should (`PatchesFit`); does the lottery end exactly where there are enough tiles (`LotteryEnds`); do incense and radar leave the likelier Pokemon of the zone in the list (`NobodyDisplaced`); does a patch, and nothing else, give the radar's Pokemon (`PatchPays`) |
| `radar_lonely` (violation) | "Compare against center tile, ignore if it doesn't match": no tile of another material shakes |

The square has its real size.  The grounds have no other tile, one to five in all rings, with and without ground under the
ray; the places switch every stage of the lists, and tables are full or too short.  Fairness (`EncFairSpec`): random draws
find a tile sooner or later if there is one.  The runs say `CHECK_DEADLOCK FALSE` because the lottery really hangs.

What the model shows of the code: the tile of the player counts as a candidate but has rank 0, so one patch too many is
asked for.  With two to four matching tiles in all, the last draw finds none and `do ... while` never returns; so it is when
only one tile lies in ring 2 or farther and the threshold of the second draw is still 2.  With no other tile the threshold
is 0 and any of the 81 tiles is drawn (`radar_lonely`; `PatchesFit` and `PatchPays` leave this ground out by `Others(ground) # {}`).
`allDisabled` begins false, so the lottery never fails: with no ground under any ray the radar is on and nothing shakes.

Rates, levels, repels, the roll for a slot, effects and sounds, shiny patches and the safari binoculars are left out: they decide whether
an encounter happens and which slot is taken, not what is in the list.

`SwayProofs` proves for every size of the square, number of patches and ground: `RadarTyped`, `RadarPatchesFit`, and
`LotteryGoesOnExactlyWithEnough`: as long as there are enough tiles one is left for the next draw, and where a
lottery has ended there were.  With fairness that is `LotteryEnds`.  `ListsKeepEveryone` and `PatchesPay` show what is in the list of a
battle: each operator on the list is given by the slots it sets (a lemma each), so that the order of the calls tells who is left; that a patch pays
also needs `SwayInv`, as it is the material of the drawn tile that names the radar's Pokemon.  The invariant `SwayInv` says that as many tiles have rank -1 as were
drawn, all of them as far out as the threshold, so that a draw needs one more tile there than were drawn; the
highest ring is found by the library's well-founded orderings.

## 3. Only model-checked

Liveness (`CallsEnd`, `SavesLand`, `ScriptsEnd`, `PushesEnd`, `WorkEnds`, `TurnEnds`, `LotteryEnds`), which is beyond the
prover, as is `ENABLED`, and what the four runs that expect a violation show.  All safety properties
of the passing runs are theorems.

## 4. Not modelled

Handlers of moves, abilities, sides and items that compute one value from the event they are called with, and the
65 or so script commands that read or set one value at once, have no state that could go wrong over
several steps.  Screens keep their state in the game's UI manager, of which `src/` shows only declarations.  ROM data are read and not changed.  Debug tools are
nobody's input.  Headers under `src/mod/externals`, `src/include` and `src/mod/data` are declarations, tables of names and vendored code.

## 5. Plan

1. Done: custom save with its refinement of a durable save, hooking, script commands that span frames, pushed objects, code memory, the turn of a
   battle, wild encounters.
2. The poketch; the repel; the arrays that grow at load; the symbol lookup of the loader.
3. Proofs: all safety properties of the runs are proved; what remains is the safety of what step 2 adds.
