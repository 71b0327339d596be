----------------------------- MODULE ScriptCommands -----------------------------
(***************************************************************************)
(* The script commands of src/mod/features/commands that span frames, the  *)
(* dispatch of a command in RunEvCmdCustom (commands.cpp) with its debug   *)
(* stepper, and the buttons of the stepper (ui/tools/script_tool.h).       *)
(*                                                                         *)
(* The game calls RunEvCmd once per frame with the command of the running  *)
(* script, until it returns true.  What a command remembers from frame to  *)
(* frame are static variables of its file, and _timeWait of the game's     *)
(* EvDataManager, which all of them share.  Time counts ticks (the unit of *)
(* the frames argument); vectors have one coordinate; easing is linear.    *)
(***************************************************************************)
EXTENDS Integers

CONSTANTS
  Commands,      \* [op, delta, camera, frames]: what a script may consist of
  DeltaTimes,    \* lengths a frame may have: _deltatime
  Second,        \* ticks per second
  EngineClears,  \* whether the game clears _timeWait before each command
  Stepper,       \* whether the debug stepper is used
  MaxCommands,   \* bound on the commands of a script
  None           \* no command

VARIABLES
  cmd,       \* the command that is running
  done,      \* commands that have ended
  timeWait,  \* EvDataManager._timeWait
  value,     \* where things are
  orig,      \* origPos of the two moves, origCameraAngle, origRot
  rot,       \* rot_startedRotating
  rotp,      \* rotp_startedRotating, rotp_accumulatedAngle
  jar,       \* jar_*: the statics of JumpAndRotate
  ledge,     \* initializedJump of LedgeJump
  path,      \* what is left of the player's jump: JumpCalculator
  stepper,   \* SYSFLAG_996 and SYSFLAG_997
  place,     \* history: where things were when the last command ended
  ran        \* history: commands ended since the user let one run

statics == <<rot, rotp, jar, ledge, path>>
vars == <<cmd, done, timeWait, value, orig, statics, stepper, place, ran>>

Steps == INSTANCE ScriptSteps WITH
           Commands <- Commands, None <- None, cmd <- cmd, place <- place
Axes   == Steps!Axes
AxisOf == Steps!AxisOf
Remembered == Axes \ {"orbit"}

ASSUME ScriptAssumption ==
  /\ Commands \subseteq [op : Steps!Ops, delta : Int, camera : Int, frames : Int]
  /\ DeltaTimes \subseteq Nat \ {0}
  /\ Second \in Nat \ {0} /\ MaxCommands \in Nat
  /\ EngineClears \in BOOLEAN /\ Stepper \in BOOLEAN
  /\ None \notin Commands
  /\ \A c \in Commands : c.op = "ledgeJump" => c.frames \in Nat

Abs(n)     == IF n < 0 THEN -n ELSE n
Signed(n)  == IF cmd.delta > 0 THEN n ELSE -n
\* part/whole of delta; the rounding of a share is not what is checked.
Share(delta, part, whole) == (delta * part) \div whole

Init ==
  /\ cmd = None /\ done = 0 /\ timeWait = 0
  /\ value = [a \in Axes |-> 0]
  /\ orig = [a \in Remembered |-> 0]
  /\ rot = FALSE
  /\ rotp = [started |-> FALSE, accumulated |-> 0]
  /\ jar = [started |-> FALSE, accumulated |-> 0, camera |-> 0,
            initializedJump |-> FALSE, rotDone |-> FALSE, jumpDone |-> FALSE]
  /\ ledge = FALSE /\ path = 0
  /\ stepper = [on |-> FALSE, frozen |-> FALSE]
  /\ place = value /\ ran = 0

-----------------------------------------------------------------------------
(* RunEvCmdCustom.                                                         *)

\* The script goes on to its next command.
Fetch ==
  /\ cmd = None /\ done < MaxCommands
  /\ cmd' \in Commands
  /\ timeWait' = IF EngineClears THEN 0 ELSE timeWait
  /\ UNCHANGED <<done, value, orig, statics, stepper, place, ran>>

\* Mutant: the flag is only looked at before the first command.
FrozenAtStart == stepper.on /\ stepper.frozen /\ done = 0

Frozen == stepper.on /\ stepper.frozen

\* Mutant: the result is not looked at.
HandleCmdStepperAlways(result) ==
  /\ stepper' = [stepper EXCEPT !.frozen = @ \/ stepper.on]
  /\ IF result
     THEN cmd' = None /\ done' = done + 1 /\ place' = value' /\ ran' = ran + 1
     ELSE UNCHANGED <<cmd, done, place, ran>>

\* HandleCmdStepper(result), and the game's use of the result.
HandleCmdStepper(result) ==
  /\ stepper' = [stepper EXCEPT !.frozen = @ \/ (stepper.on /\ result)]
  /\ IF result
     THEN cmd' = None /\ done' = done + 1 /\ place' = value' /\ ran' = ran + 1
     ELSE UNCHANGED <<cmd, done, place, ran>>

Displace(axis, n) == value' = [value EXCEPT ![axis] = @ + n]

-----------------------------------------------------------------------------
(* Moves and the offset of the camera: entity_move.cpp,                    *)
(* gameobject_move.cpp, set_camera_offset_angle.cpp.                       *)

\* "Do the movement instantly if frames are 0 or negative."
Instantly ==
  /\ cmd.frames <= 0
  /\ Displace(AxisOf[cmd.op], cmd.delta)
  /\ UNCHANGED <<timeWait, orig, statics>>
  /\ HandleCmdStepper(TRUE)

\* "Capture initial position only on first update."
Captured(axis) == IF timeWait = 0 THEN value[axis] ELSE orig[axis]

\* Mutant: the last frame of a move is not cut to its length.
EaseBeyond(dt) ==
  /\ cmd.frames > 0
  /\ LET axis     == AxisOf[cmd.op]
         elapsed  == timeWait + dt
         finished == elapsed >= cmd.frames
     IN /\ orig' = [orig EXCEPT ![axis] = Captured(axis)]
        /\ timeWait' = IF finished THEN 0 ELSE elapsed
        /\ value' = [value EXCEPT
                       ![axis] = Captured(axis) + Share(cmd.delta, elapsed, cmd.frames)]
        /\ HandleCmdStepper(finished)
  /\ UNCHANGED statics

Ease(dt) ==
  /\ cmd.frames > 0
  /\ LET axis     == AxisOf[cmd.op]
         elapsed  == timeWait + dt
         finished == elapsed >= cmd.frames
     IN /\ orig' = [orig EXCEPT ![axis] = Captured(axis)]
        /\ timeWait' = IF finished THEN 0 ELSE elapsed
        /\ value' = [value EXCEPT ![axis] = Captured(axis) +
                       IF finished THEN cmd.delta
                       ELSE Share(cmd.delta, elapsed, cmd.frames)]
        /\ HandleCmdStepper(finished)
  /\ UNCHANGED statics

Move(dt) == Instantly \/ Ease(dt)

EntityMove(dt)           == cmd.op = "entityMove" /\ Move(dt)
GameObjectMove(dt)       == cmd.op = "gameObjectMove" /\ Move(dt)
SetCameraOffsetAngle(dt) == cmd.op = "setCameraOffsetAngle" /\ Move(dt)

-----------------------------------------------------------------------------
(* GameObjectRotate.                                                       *)

StartRotating == ~rot /\ timeWait = 0

RotateStart ==
  /\ cmd.frames > 0 /\ StartRotating
  /\ orig' = [orig EXCEPT !["angle"] = value["angle"]]
  /\ rot' = TRUE
  /\ UNCHANGED <<timeWait, value, rotp, jar, ledge, path>>
  /\ HandleCmdStepper(FALSE)

RotateStep(dt) ==
  /\ cmd.frames > 0 /\ ~StartRotating
  /\ timeWait <= cmd.frames
  /\ timeWait' = timeWait + dt
  /\ Displace("angle", Share(cmd.delta, dt, cmd.frames))
  /\ UNCHANGED <<orig, statics>>
  /\ HandleCmdStepper(FALSE)

RotateEnd ==
  /\ cmd.frames > 0 /\ ~StartRotating
  /\ timeWait > cmd.frames
  /\ value' = [value EXCEPT !["angle"] = orig["angle"] + cmd.delta]
  /\ rot' = FALSE
  /\ UNCHANGED <<timeWait, orig, rotp, jar, ledge, path>>
  /\ HandleCmdStepper(TRUE)

GameObjectRotate(dt) ==
  /\ cmd.op = "gameObjectRotate"
  /\ Instantly \/ RotateStart \/ RotateStep(dt) \/ RotateEnd

-----------------------------------------------------------------------------
(* GameObjectRotatePivot.  The argument is the angle per second.           *)

\* abs(angle * _deltatime)
Added(dt) == Share(Abs(cmd.delta), dt, Second)

\* Mutant: the angle added so far is not looked at.
AddsForTime(acc, dt) == timeWait <= cmd.frames

\* Whether a frame adds its share, with acc the angle added so far.
Adds(acc, dt) == timeWait <= cmd.frames /\ acc + Added(dt) < Abs(cmd.delta)

StartPivoting == ~rotp.started /\ timeWait = 0

PivotStart ==
  /\ cmd.frames > 0 /\ StartPivoting
  /\ rotp' = [started |-> TRUE, accumulated |-> 0]
  /\ UNCHANGED <<timeWait, value, orig, rot, jar, ledge, path>>
  /\ HandleCmdStepper(FALSE)

PivotStep(dt) ==
  /\ cmd.frames > 0 /\ ~StartPivoting
  /\ Adds(rotp.accumulated, dt)
  /\ timeWait' = timeWait + dt
  /\ rotp' = [rotp EXCEPT !.accumulated = @ + Added(dt)]
  /\ Displace("orbit", Signed(Added(dt)))
  /\ UNCHANGED <<orig, rot, jar, ledge, path>>
  /\ HandleCmdStepper(FALSE)

\* Mutant: what the frames left out is not added.
PivotEndShort(dt) ==
  /\ cmd.frames > 0 /\ ~StartPivoting
  /\ ~Adds(rotp.accumulated, dt)
  /\ rotp' = [rotp EXCEPT !.started = FALSE]
  /\ UNCHANGED <<timeWait, value, orig, rot, jar, ledge, path>>
  /\ HandleCmdStepper(TRUE)

PivotEnd(dt) ==
  /\ cmd.frames > 0 /\ ~StartPivoting
  /\ ~Adds(rotp.accumulated, dt)
  /\ Displace("orbit", Signed(Abs(cmd.delta) - rotp.accumulated))
  /\ rotp' = [rotp EXCEPT !.started = FALSE]
  /\ UNCHANGED <<timeWait, orig, rot, jar, ledge, path>>
  /\ HandleCmdStepper(TRUE)

GameObjectRotatePivot(dt) ==
  /\ cmd.op = "gameObjectRotatePivot"
  /\ Instantly \/ PivotStart \/ PivotStep(dt) \/ PivotEnd(dt)

-----------------------------------------------------------------------------
(* JumpAndRotate: a rotation around a pivot with the camera, and a jump,   *)
(* which end in different frames.  Each part gives its share of jar.       *)

NoRotation == [jar |-> jar, value |-> value, timeWait |-> timeWait]

JumpAndRotate_Rotate(dt) ==
  IF jar.rotDone THEN NoRotation
  ELSE IF ~jar.started /\ timeWait = 0
  THEN [NoRotation EXCEPT
          !.jar = [@ EXCEPT !.started = TRUE, !.accumulated = 0,
                            !.camera = value["camera"]]]
  ELSE IF Adds(jar.accumulated, dt)
  THEN LET elapsed == timeWait + dt
           t == IF elapsed > cmd.frames THEN cmd.frames ELSE elapsed
       IN [jar |-> [jar EXCEPT !.accumulated = @ + Added(dt)],
           value |-> [value EXCEPT
                        !["orbit"]  = @ + Signed(Added(dt)),
                        !["camera"] = jar.camera + Share(cmd.camera, t, cmd.frames)],
           timeWait |-> elapsed]
  ELSE [jar |-> [jar EXCEPT !.started = FALSE, !.rotDone = TRUE],
        value |-> [value EXCEPT
                     !["orbit"]  = @ + Signed(Abs(cmd.delta) - jar.accumulated),
                     !["camera"] = jar.camera + cmd.camera],
        timeWait |-> 0]

\* Mutants: a jump that goes on below the ground, and one whose time stands.
RemainingBelow(dt) == path - dt
RemainingStill(dt) == path

\* JumpCalculator, in the game: a jump takes its duration, then is done.
Remaining(dt) == IF dt < path THEN path - dt ELSE 0

JumpAndRotate_Jump(dt) ==
  CASE jar.jumpDone -> [initialized |-> jar.initializedJump, done |-> TRUE, path |-> path]
    [] ~jar.jumpDone /\ ~jar.initializedJump ->
         [initialized |-> TRUE, done |-> FALSE, path |-> cmd.frames]
    [] OTHER -> [initialized |-> Remaining(dt) > 0, done |-> Remaining(dt) = 0,
                 path |-> Remaining(dt)]

\* Mutant: the command ends with the rotation.
TurnUntilRotated(dt) ==
  /\ cmd.frames > 0
  /\ LET r == JumpAndRotate_Rotate(dt)
         j == JumpAndRotate_Jump(dt)
         finished == r.jar.rotDone
     IN /\ jar' = [r.jar EXCEPT !.initializedJump = j.initialized /\ ~finished,
                                !.rotDone  = @ /\ ~finished,
                                !.jumpDone = j.done /\ ~finished]
        /\ value' = r.value /\ timeWait' = r.timeWait /\ path' = j.path
        /\ HandleCmdStepper(finished)
  /\ UNCHANGED <<orig, rot, rotp, ledge>>

Turn(dt) ==
  /\ cmd.frames > 0
  /\ LET r == JumpAndRotate_Rotate(dt)
         j == JumpAndRotate_Jump(dt)
         finished == r.jar.rotDone /\ j.done
     IN /\ jar' = [r.jar EXCEPT !.initializedJump = j.initialized,
                                !.rotDone  = @ /\ ~finished,
                                !.jumpDone = j.done /\ ~finished]
        /\ value' = r.value /\ timeWait' = r.timeWait /\ path' = j.path
        /\ HandleCmdStepper(finished)
  /\ UNCHANGED <<orig, rot, rotp, ledge>>

\* "Do the rotation instantly with no jump": the camera gets the angle of the
\* object, not its own.
TurnInstantly ==
  /\ cmd.frames <= 0
  /\ value' = [value EXCEPT !["orbit"]  = @ + cmd.delta,
                            !["camera"] = @ + cmd.delta]
  /\ UNCHANGED <<timeWait, orig, statics>>
  /\ HandleCmdStepper(TRUE)

JumpAndRotate(dt) == cmd.op = "jumpAndRotate" /\ (TurnInstantly \/ Turn(dt))

-----------------------------------------------------------------------------
(* LedgeJump.                                                              *)

\* Mutant: a jump that was under way is not forgotten.
LedgeLostKept ==
  /\ UNCHANGED <<timeWait, value, orig, statics>>
  /\ HandleCmdStepper(TRUE)

\* The entity is not there (any more).
LedgeLost ==
  /\ ledge' = FALSE
  /\ UNCHANGED <<timeWait, value, orig, rot, rotp, jar, path>>
  /\ HandleCmdStepper(TRUE)

LedgeStart ==
  /\ ~ledge
  /\ ledge' = TRUE /\ path' = cmd.frames
  /\ UNCHANGED <<timeWait, value, orig, rot, rotp, jar>>
  /\ HandleCmdStepper(FALSE)

LedgeStep(dt) ==
  /\ ledge
  /\ path' = Remaining(dt)
  /\ ledge' = (path' > 0)
  /\ UNCHANGED <<timeWait, value, orig, rot, rotp, jar>>
  /\ HandleCmdStepper(path' = 0)

LedgeJump(dt) ==
  /\ cmd.op = "ledgeJump"
  /\ LedgeLost \/ LedgeStart \/ LedgeStep(dt)

-----------------------------------------------------------------------------
Dispatch(dt) ==
  \/ EntityMove(dt) \/ GameObjectMove(dt) \/ SetCameraOffsetAngle(dt)
  \/ GameObjectRotate(dt) \/ GameObjectRotatePivot(dt)
  \/ JumpAndRotate(dt) \/ LedgeJump(dt)

\* A frame of a running command; in a frozen one nothing is called.
Frame ==
  /\ cmd # None
  /\ ~Frozen
  /\ \E dt \in DeltaTimes : Dispatch(dt)

\* "Step Over"
StepOver ==
  /\ Stepper
  /\ stepper' = [stepper EXCEPT !.frozen = FALSE]
  /\ ran' = 0
  /\ UNCHANGED <<cmd, done, timeWait, value, orig, statics, place>>

\* "Enable Script Command Debugging"
EnableDebugging(on) ==
  /\ Stepper
  /\ stepper' = [stepper EXCEPT !.on = on]
  /\ ran' = 0
  /\ UNCHANGED <<cmd, done, timeWait, value, orig, statics, place>>

ScriptEnds == cmd = None /\ done = MaxCommands /\ UNCHANGED vars

Next ==
  \/ Fetch
  \/ Frame
  \/ StepOver
  \/ \E on \in BOOLEAN : EnableDebugging(on)
  \/ ScriptEnds

Spec == Init /\ [][Next]_vars

\* The game runs its scripts once per frame.
FairSpec == Spec /\ WF_vars(Fetch) /\ WF_vars(Frame)

-----------------------------------------------------------------------------
(* Properties.                                                             *)

TypeOK ==
  /\ cmd \in Commands \cup {None}
  /\ done \in 0..MaxCommands /\ ran \in 0..MaxCommands
  /\ timeWait \in Nat /\ path \in Nat
  /\ value \in [Axes -> Int] /\ place \in [Axes -> Int]
  /\ orig \in [Remembered -> Int]
  /\ rot \in BOOLEAN /\ ledge \in BOOLEAN
  /\ rotp \in [started : BOOLEAN, accumulated : Nat]
  /\ jar \in [started : BOOLEAN, accumulated : Nat, camera : Int,
              initializedJump : BOOLEAN, rotDone : BOOLEAN, jumpDone : BOOLEAN]
  /\ stepper \in [on : BOOLEAN, frozen : BOOLEAN]

\* A script sees its commands take effect one by one, each displacing what it
\* names by exactly its argument from where the command found it, whatever
\* the lengths of the frames, the commands before it and the debug stepper.
ImplementsSteps == Steps!Spec

\* On its way, nothing that a command moves leaves the way between where it
\* was and where it will be (linear easing; GameObjectRotate does leave it,
\* by up to a frame's share, before its last frame puts it right).
StaysOnWay ==
  cmd # None /\ cmd.op # "gameObjectRotate" =>
    \A a \in Axes :
      LET end == Steps!Displaced(place, cmd)[a]
      IN \/ place[a] <= value[a] /\ value[a] <= end
         \/ end <= value[a] /\ value[a] <= place[a]

\* When a command ends, no static variable of its file, or of any other,
\* outlives it, so that its next use starts from the beginning; and
\* JumpAndRotate ends only when the player has landed, though the rotation may
\* have ended, and cleared the shared _timeWait, long before or after.
AtRest ==
  /\ ~rot /\ ~rotp.started /\ ~ledge
  /\ ~jar.started /\ ~jar.rotDone /\ ~jar.jumpDone /\ ~jar.initializedJump
EndsAtRest ==
  [][cmd # None /\ cmd' = None =>
       /\ AtRest'
       /\ cmd.op = "jumpAndRotate" /\ cmd.frames > 0 => path' = 0]_vars

\* One "Step Over" runs at most one command, with whatever clicks between; and
\* a command is stopped in its middle only by the user who switches debugging
\* on while a stop from before is still set (switching it off leaves the stop
\* of the last command, script_tool.h:26), never by a command or a click.
StepperExact ==
  /\ [](stepper.on => ran <= 1)
  /\ [][~Frozen /\ Frozen' =>
          cmd' = None \/ (~stepper.on /\ stepper.frozen)]_vars

\* Every command ends, and the script with the last one, unless the user
\* freezes the script for ever.
ScriptsEnd == <>[]~Frozen => <>(cmd = None /\ done = MaxCommands)

\* jump_and_rotate.cpp: "Do the rotation instantly with no jump if frames are
\* 0 or negative": the rotation that the command does over time.
InstantRotation ==
  [][cmd # None /\ cmd.op = "jumpAndRotate" /\ cmd' = None
       => value'["camera"] = place["camera"] + cmd.camera]_vars
=============================================================================
