------------------------------ MODULE ScriptProofs ------------------------------
(***************************************************************************)
(* The commands that span frames implement ScriptSteps, for every set of   *)
(* commands, every length of the frames and every use of the stepper,      *)
(* unless a rotation leaves _timeWait to the next command, or an instant    *)
(* turning jump has two different angles (Clean).                          *)
(***************************************************************************)
EXTENDS ScriptCommands, TLAPS

Leaving == {"gameObjectRotate", "gameObjectRotatePivot"}

\* The game clears _timeWait, or no command leaves it set.
TimeCleared == EngineClears \/ \A c \in Commands : c.op \notin Leaving

\* A turning jump without frames is given one angle for camera and player.  The
\* code turns the camera by the angle of the player (jump_and_rotate.cpp:184),
\* so that a script with two angles does not get what it asks for; the run
\* script_instant shows it, and no theorem of this module speaks of it.
InstantTurnsAlike ==
  \A c \in Commands :
    c.op = "jumpAndRotate" /\ c.frames <= 0 => c.camera = c.delta

Clean == TimeCleared /\ InstantTurnsAlike

Counts == ran <= done /\ (cmd # None => done < MaxCommands)

-----------------------------------------------------------------------------
(* Arithmetic.                                                             *)

\* Share and Added are numbers; Signed undoes Abs.
LEMMA ShareInt ==
  \A d \in Int, p \in Int, w \in Nat \ {0} : Share(d, p, w) \in Int
<1> SUFFICES ASSUME NEW d \in Int, NEW p \in Int, NEW w \in Nat \ {0}
             PROVE  Share(d, p, w) \in Int
  OBVIOUS
<1>1. d * p \in Int
  OBVIOUS
<1> QED
  BY <1>1 DEF Share

LEMMA ProductNat ==
  ASSUME NEW d \in Nat, NEW p \in Nat
  PROVE  d * p \in Nat
OBVIOUS

LEMMA QuotientNat ==
  ASSUME NEW n \in Nat, NEW w \in Nat \ {0}
  PROVE  n \div w \in Nat
OBVIOUS

LEMMA ShareNat ==
  ASSUME NEW d \in Nat, NEW p \in Nat, NEW w \in Nat \ {0}
  PROVE  Share(d, p, w) \in Nat
BY ProductNat, QuotientNat DEF Share

LEMMA AbsNat == \A n \in Int : Abs(n) \in Nat
BY DEF Abs

LEMMA CommandType ==
  ASSUME NEW c \in Commands
  PROVE  /\ c \in [op : Steps!Ops, delta : Int, camera : Int, frames : Int]
         /\ c # None
BY ScriptAssumption

LEMMA AddedNat ==
  ASSUME cmd \in Commands, NEW dt \in DeltaTimes
  PROVE  Added(dt) \in Nat
<1>1. Abs(cmd.delta) \in Nat
  BY CommandType, AbsNat
<1>2. dt \in Nat /\ Second \in Nat \ {0}
  BY ScriptAssumption
<1> QED
  BY <1>1, <1>2, ShareNat DEF Added

LEMMA SignedSum ==
  ASSUME cmd \in Commands, NEW n \in Nat
  PROVE  /\ Signed(n) \in Int
         /\ Signed(Abs(cmd.delta) - n) \in Int
         /\ Signed(n) + Signed(Abs(cmd.delta) - n) = cmd.delta
         /\ \A m \in Nat : Signed(n) + Signed(m) = Signed(n + m)
         /\ Signed(0) = 0
<1>1. cmd.delta \in Int
  BY CommandType
<1>2. CASE cmd.delta > 0
  BY <1>1, <1>2 DEF Signed, Abs
<1>3. CASE ~(cmd.delta > 0)
  <2>1. Abs(cmd.delta) = -cmd.delta
    BY <1>1, <1>3 DEF Abs
  <2>2. \A k \in Int : Signed(k) = -k
    BY <1>3 DEF Signed
  <2>3. -cmd.delta - n \in Int /\ -n + -(-cmd.delta - n) = cmd.delta
    BY <1>1
  <2>4. \A m \in Nat : n + m \in Int /\ -n + -m = -(n + m)
    OBVIOUS
  <2> QED
    BY <1>1, <2>1, <2>2, <2>3, <2>4
<1> QED
  BY <1>2, <1>3

-----------------------------------------------------------------------------
(* Types.                                                                  *)

LEMMA AxisType ==
  ASSUME cmd \in Commands, cmd.op # "ledgeJump"
  PROVE  /\ AxisOf[cmd.op] \in Axes
         /\ cmd.op \in Steps!EasedOps => AxisOf[cmd.op] \in Remembered
<1>1. cmd.op \in Steps!Ops
  BY CommandType
<1> QED
  BY <1>1 DEF AxisOf, Axes, Remembered, Steps!AxisOf, Steps!Axes, Steps!Ops, Steps!EasedOps

\* What the dispatcher does with a result keeps the types it is responsible for.
LEMMA ResultTyped ==
  ASSUME TypeOK, Counts, cmd \in Commands, NEW result \in BOOLEAN,
         HandleCmdStepper(result), value' \in [Axes -> Int]
  PROVE  /\ cmd' \in Commands \cup {None}
         /\ done' \in 0..MaxCommands /\ ran' \in 0..MaxCommands
         /\ place' \in [Axes -> Int]
         /\ stepper' \in [on : BOOLEAN, frozen : BOOLEAN]
         /\ Counts'
<1> USE ScriptAssumption, CommandType DEF TypeOK, Counts
<1>1. CASE result
  BY <1>1 DEF HandleCmdStepper
<1>2. CASE ~result
  BY <1>2 DEF HandleCmdStepper
<1> QED
  BY <1>1, <1>2

\* The variables that ResultTyped says nothing about.
RestTyped ==
  /\ timeWait \in Nat /\ path \in Nat
  /\ value \in [Axes -> Int]
  /\ orig \in [Remembered -> Int]
  /\ rot \in BOOLEAN /\ ledge \in BOOLEAN
  /\ rotp \in [started : BOOLEAN, accumulated : Nat]
  /\ jar \in [started : BOOLEAN, accumulated : Nat, camera : Int,
              initializedJump : BOOLEAN, rotDone : BOOLEAN, jumpDone : BOOLEAN]

\* A frame keeps the types if it keeps those of what it moves and remembers.
LEMMA FrameTyped ==
  ASSUME TypeOK, Counts, cmd \in Commands, RestTyped',
         NEW result \in BOOLEAN, HandleCmdStepper(result)
  PROVE  TypeOK' /\ Counts'
BY ResultTyped DEF TypeOK, RestTyped

\* What a displacement keeps.
LEMMA DisplaceTyped ==
  ASSUME TypeOK, NEW axis \in Axes, NEW n \in Int, Displace(axis, n)
  PROVE  /\ value' \in [Axes -> Int]
         /\ value'[axis] = value[axis] + n
         /\ \A a \in Axes : a # axis => value'[a] = value[a]
BY DEF TypeOK, Displace

LEMMA MoveTyped ==
  ASSUME TypeOK, Counts, cmd \in Commands, NEW dt \in DeltaTimes,
         cmd.op \in Steps!EasedOps, Move(dt)
  PROVE  TypeOK' /\ Counts'
<1>1. /\ AxisOf[cmd.op] \in Axes /\ AxisOf[cmd.op] \in Remembered
      /\ cmd.delta \in Int /\ cmd.frames \in Int
      /\ dt \in Nat
  BY AxisType, CommandType, ScriptAssumption DEF Steps!EasedOps
<1>2. CASE Instantly
  <2>1. RestTyped'
    BY <1>1, <1>2, DisplaceTyped DEF Instantly, TypeOK, RestTyped, statics
  <2> QED
    BY <1>2, <2>1, FrameTyped DEF Instantly
<1>3. CASE Ease(dt)
  <2> DEFINE axis     == AxisOf[cmd.op]
             elapsed  == timeWait + dt
             finished == elapsed >= cmd.frames
  <2>1. elapsed \in Nat /\ Captured(axis) \in Int /\ cmd.frames \in Nat \ {0}
    BY <1>1, <1>3 DEF Ease, TypeOK, Captured
  <2>2. Share(cmd.delta, elapsed, cmd.frames) \in Int
    <3>1. elapsed \in Int
      BY <2>1
    <3> QED
      BY <1>1, <2>1, <3>1, ShareInt, Zenon
  <2>3. RestTyped'
    BY <1>1, <1>3, <2>1, <2>2 DEF Ease, TypeOK, RestTyped, statics
  <2>4. HandleCmdStepper(finished) /\ finished \in BOOLEAN
    BY <1>3 DEF Ease
  <2> QED
    BY <2>3, <2>4, FrameTyped
<1> QED
  BY <1>2, <1>3 DEF Move

LEMMA GameObjectRotateTyped ==
  ASSUME TypeOK, Counts, cmd \in Commands, NEW dt \in DeltaTimes,
         GameObjectRotate(dt)
  PROVE  TypeOK' /\ Counts'
<1>1. /\ AxisOf[cmd.op] \in Axes /\ "angle" \in Axes /\ "angle" \in Remembered
      /\ cmd.delta \in Int /\ cmd.frames \in Int
      /\ dt \in Nat /\ dt \in Int
  BY AxisType, CommandType, ScriptAssumption
     DEF GameObjectRotate, Axes, Remembered, Steps!Axes
<1>2. CASE Instantly
  <2>1. RestTyped'
    BY <1>1, <1>2, DisplaceTyped DEF Instantly, TypeOK, RestTyped, statics
  <2> QED
    BY <1>2, <2>1, FrameTyped DEF Instantly
<1>3. CASE RotateStart
  <2>1. RestTyped'
    BY <1>1, <1>3 DEF RotateStart, TypeOK, RestTyped
  <2> QED
    BY <1>3, <2>1, FrameTyped DEF RotateStart
<1>4. CASE RotateStep(dt)
  <2>1. cmd.frames \in Nat \ {0}
    BY <1>1, <1>4 DEF RotateStep
  <2>4. Share(cmd.delta, dt, cmd.frames) \in Int
    BY <1>1, <2>1, ShareInt, Zenon
  <2>2. RestTyped'
    BY <1>1, <1>4, <2>4, DisplaceTyped DEF RotateStep, TypeOK, RestTyped, statics
  <2> QED
    BY <1>4, <2>2, FrameTyped DEF RotateStep
<1>5. CASE RotateEnd
  <2>2. orig["angle"] + cmd.delta \in Int
    BY <1>1 DEF TypeOK
  <2>1. RestTyped'
    BY <1>1, <1>5, <2>2 DEF RotateEnd, TypeOK, RestTyped
  <2> QED
    BY <1>5, <2>1, FrameTyped DEF RotateEnd
<1> QED
  BY <1>2, <1>3, <1>4, <1>5 DEF GameObjectRotate

LEMMA GameObjectRotatePivotTyped ==
  ASSUME TypeOK, Counts, cmd \in Commands, NEW dt \in DeltaTimes,
         GameObjectRotatePivot(dt)
  PROVE  TypeOK' /\ Counts'
<1>1. /\ AxisOf[cmd.op] \in Axes /\ "orbit" \in Axes
      /\ cmd.delta \in Int /\ dt \in Nat
  BY AxisType, CommandType, ScriptAssumption
     DEF GameObjectRotatePivot, Axes, Steps!Axes
<1>2. CASE Instantly
  <2>1. RestTyped'
    BY <1>1, <1>2, DisplaceTyped DEF Instantly, TypeOK, RestTyped, statics
  <2> QED
    BY <1>2, <2>1, FrameTyped DEF Instantly
<1>3. CASE PivotStart
  <2>1. RestTyped'
    BY <1>3 DEF PivotStart, TypeOK, RestTyped
  <2> QED
    BY <1>3, <2>1, FrameTyped DEF PivotStart
<1>4. CASE PivotStep(dt)
  <2>1. Added(dt) \in Nat /\ Signed(Added(dt)) \in Int
    BY AddedNat, SignedSum
  <2>3. rotp' \in [started : BOOLEAN, accumulated : Nat]
    BY <1>4, <2>1 DEF PivotStep, TypeOK
  <2>4. value' \in [Axes -> Int]
    BY <1>1, <1>4, <2>1, DisplaceTyped DEF PivotStep
  <2>2. RestTyped'
    BY <1>1, <1>4, <2>3, <2>4 DEF PivotStep, TypeOK, RestTyped
  <2> QED
    BY <1>4, <2>2, FrameTyped DEF PivotStep
<1>5. CASE PivotEnd(dt)
  <2>1. Signed(Abs(cmd.delta) - rotp.accumulated) \in Int
    BY SignedSum DEF TypeOK
  <2>2. RestTyped'
    BY <1>1, <1>5, <2>1, DisplaceTyped DEF PivotEnd, TypeOK, RestTyped
  <2> QED
    BY <1>5, <2>2, FrameTyped DEF PivotEnd
<1> QED
  BY <1>2, <1>3, <1>4, <1>5 DEF GameObjectRotatePivot

JarType == [started : BOOLEAN, accumulated : Nat, camera : Int,
            initializedJump : BOOLEAN, rotDone : BOOLEAN, jumpDone : BOOLEAN]

\* The four outcomes of JumpAndRotate_Rotate.
LEMMA RotateOutcome ==
  ASSUME TypeOK, cmd \in Commands, cmd.frames > 0, NEW dt \in DeltaTimes
  PROVE  LET r == JumpAndRotate_Rotate(dt)
         IN \/ jar.rotDone /\ r = NoRotation
            \/ /\ ~jar.rotDone /\ ~jar.started /\ timeWait = 0
               /\ r.jar = [jar EXCEPT !.started = TRUE, !.accumulated = 0,
                                      !.camera = value["camera"]]
               /\ r.value = value /\ r.timeWait = timeWait
            \/ /\ ~jar.rotDone /\ (jar.started \/ timeWait # 0)
               /\ r.jar = [jar EXCEPT !.accumulated = @ + Added(dt)]
               /\ Adds(jar.accumulated, dt)
               /\ \E c \in Int :
                    /\ r.value = [value EXCEPT !["orbit"]  = @ + Signed(Added(dt)),
                                               !["camera"] = c]
                    /\ \E t \in 0..cmd.frames : c = jar.camera + Share(cmd.camera, t, cmd.frames)
               /\ r.timeWait \in Nat /\ r.timeWait # 0
            \/ /\ ~jar.rotDone /\ (jar.started \/ timeWait # 0)
               /\ r.jar = [jar EXCEPT !.started = FALSE, !.rotDone = TRUE]
               /\ r.value = [value EXCEPT
                               !["orbit"]  = @ + Signed(Abs(cmd.delta) - jar.accumulated),
                               !["camera"] = jar.camera + cmd.camera]
               /\ r.timeWait = 0
<1>1. CASE jar.rotDone
  BY <1>1 DEF JumpAndRotate_Rotate
<1>2. CASE ~jar.rotDone /\ ~jar.started /\ timeWait = 0
  BY <1>2 DEF JumpAndRotate_Rotate, NoRotation
<1>3. CASE ~jar.rotDone /\ (jar.started \/ timeWait # 0) /\ Adds(jar.accumulated, dt)
  <2> DEFINE elapsed == timeWait + dt
             t == IF elapsed > cmd.frames THEN cmd.frames ELSE elapsed
             c == jar.camera + Share(cmd.camera, t, cmd.frames)
  <2>1. elapsed \in Nat /\ elapsed # 0
    BY ScriptAssumption DEF TypeOK
  <2>2. cmd.camera \in Int /\ cmd.frames \in Int /\ cmd.frames \in Nat \ {0}
    BY CommandType
  <2>3. t \in Int /\ t \in 0..cmd.frames
    BY <2>1, <2>2
  <2>4. Share(cmd.camera, t, cmd.frames) \in Int
    BY <2>2, <2>3, ShareInt, Zenon
  <2>5. c \in Int
    BY <2>4 DEF TypeOK
  <2>6. JumpAndRotate_Rotate(dt) =
          [jar |-> [jar EXCEPT !.accumulated = @ + Added(dt)],
           value |-> [value EXCEPT !["orbit"]  = @ + Signed(Added(dt)),
                                   !["camera"] = c],
           timeWait |-> elapsed]
    BY <1>3 DEF JumpAndRotate_Rotate
  <2>8. \E n \in 0..cmd.frames : c = jar.camera + Share(cmd.camera, n, cmd.frames)
    BY <2>3
  <2> HIDE DEF c, elapsed
  <2>7. /\ JumpAndRotate_Rotate(dt).jar = [jar EXCEPT !.accumulated = @ + Added(dt)]
        /\ JumpAndRotate_Rotate(dt).value =
             [value EXCEPT !["orbit"]  = @ + Signed(Added(dt)), !["camera"] = c]
        /\ JumpAndRotate_Rotate(dt).timeWait = elapsed
    BY <2>6
  <2> QED
    BY <1>3, <2>1, <2>5, <2>7, <2>8
<1>4. CASE ~jar.rotDone /\ (jar.started \/ timeWait # 0) /\ ~Adds(jar.accumulated, dt)
  BY <1>4 DEF JumpAndRotate_Rotate
<1> QED
  BY <1>1, <1>2, <1>3, <1>4

LEMMA JumpTyped ==
  ASSUME TypeOK, cmd \in Commands, cmd.frames > 0, NEW dt \in DeltaTimes
  PROVE  LET j == JumpAndRotate_Jump(dt)
         IN j.initialized \in BOOLEAN /\ j.done \in BOOLEAN /\ j.path \in Nat
<1>1. Remaining(dt) \in Nat
  BY ScriptAssumption DEF Remaining, TypeOK
<1>2. cmd.frames \in Nat
  BY CommandType
<1>3. CASE jar.jumpDone
  BY <1>3 DEF JumpAndRotate_Jump, TypeOK
<1>4. CASE ~jar.jumpDone /\ ~jar.initializedJump
  BY <1>2, <1>4 DEF JumpAndRotate_Jump
<1>5. CASE ~jar.jumpDone /\ jar.initializedJump
  <2>1. JumpAndRotate_Jump(dt) =
          [initialized |-> Remaining(dt) > 0, done |-> Remaining(dt) = 0,
           path |-> Remaining(dt)]
    BY <1>5 DEF JumpAndRotate_Jump
  <2> QED
    BY <1>1, <2>1
<1> QED
  BY <1>3, <1>4, <1>5

LEMMA RotateTyped ==
  ASSUME TypeOK, cmd \in Commands, cmd.frames > 0, NEW dt \in DeltaTimes
  PROVE  LET r == JumpAndRotate_Rotate(dt)
         IN r.jar \in JarType /\ r.value \in [Axes -> Int] /\ r.timeWait \in Nat
<1>1. Added(dt) \in Nat /\ Signed(Added(dt)) \in Int
  BY AddedNat, SignedSum
<1>2. Signed(Abs(cmd.delta) - jar.accumulated) \in Int
  BY SignedSum DEF TypeOK
<1>3. "orbit" \in Axes /\ "camera" \in Axes /\ cmd.camera \in Int
  BY CommandType DEF Axes, Steps!Axes
<1> DEFINE r == JumpAndRotate_Rotate(dt)
<1>4. CASE jar.rotDone /\ r = NoRotation
  BY <1>4 DEF TypeOK, JarType, NoRotation
<1>5. CASE /\ r.jar = [jar EXCEPT !.started = TRUE, !.accumulated = 0,
                                  !.camera = value["camera"]]
           /\ r.value = value /\ r.timeWait = timeWait
  <2> HIDE DEF r
  <2>1. value["camera"] \in Int
    BY <1>3 DEF TypeOK
  <2> QED
    <3>1. \A v \in Int : [jar EXCEPT !.started = TRUE, !.accumulated = 0,
                                     !.camera = v] \in JarType
      BY DEF TypeOK, JarType
    <3>2. r.jar \in JarType
      BY <1>5, <2>1, <3>1
    <3> QED
      BY <1>5, <3>2 DEF TypeOK, r
<1>6. CASE /\ r.jar = [jar EXCEPT !.accumulated = @ + Added(dt)]
           /\ \E c \in Int :
                r.value = [value EXCEPT !["orbit"]  = @ + Signed(Added(dt)),
                                        !["camera"] = c]
           /\ r.timeWait \in Nat /\ r.timeWait # 0
  <2> HIDE DEF r
  <2>1. r.jar \in JarType
    BY <1>1, <1>6 DEF TypeOK, JarType
  <2>2. r.value \in [Axes -> Int]
    BY <1>1, <1>3, <1>6 DEF TypeOK
  <2> QED
    BY <1>6, <2>1, <2>2 DEF r
<1>7. CASE /\ r.jar = [jar EXCEPT !.started = FALSE, !.rotDone = TRUE]
           /\ r.value = [value EXCEPT
                           !["orbit"]  = @ + Signed(Abs(cmd.delta) - jar.accumulated),
                           !["camera"] = jar.camera + cmd.camera]
           /\ r.timeWait = 0
  <2> HIDE DEF r
  <2>1. r.jar \in JarType
    BY <1>7 DEF TypeOK, JarType
  <2>2. r.value \in [Axes -> Int]
    <3>1. jar.camera + cmd.camera \in Int
      BY <1>3 DEF TypeOK
    <3> QED
      BY <1>2, <1>3, <1>7, <3>1 DEF TypeOK
  <2> QED
    BY <1>7, <2>1, <2>2 DEF r
<1> QED
  BY <1>4, <1>5, <1>6, <1>7, RotateOutcome

LEMMA JumpAndRotateTyped ==
  ASSUME TypeOK, Counts, cmd \in Commands, NEW dt \in DeltaTimes,
         JumpAndRotate(dt)
  PROVE  TypeOK' /\ Counts'
<1>1. CASE TurnInstantly
  <2>1. cmd.delta \in Int /\ "orbit" \in Axes /\ "camera" \in Axes
    BY CommandType DEF Axes, Steps!Axes
  <2>2. RestTyped'
    BY <1>1, <2>1 DEF TurnInstantly, TypeOK, RestTyped, statics
  <2> QED
    BY <1>1, <2>2, FrameTyped DEF TurnInstantly
<1>2. CASE Turn(dt)
  <2> DEFINE r == JumpAndRotate_Rotate(dt)
             j == JumpAndRotate_Jump(dt)
             finished == r.jar.rotDone /\ j.done
  <2>1. /\ r.jar \in JarType /\ r.value \in [Axes -> Int] /\ r.timeWait \in Nat
        /\ j.initialized \in BOOLEAN /\ j.done \in BOOLEAN /\ j.path \in Nat
    BY <1>2, RotateTyped, JumpTyped DEF Turn
  <2>2. /\ jar' = [r.jar EXCEPT !.initializedJump = j.initialized,
                                !.rotDone  = @ /\ ~finished,
                                !.jumpDone = j.done /\ ~finished]
        /\ value' = r.value /\ timeWait' = r.timeWait /\ path' = j.path
        /\ HandleCmdStepper(finished)
        /\ UNCHANGED <<orig, rot, rotp, ledge>>
    BY <1>2 DEF Turn
  <2>3. finished \in BOOLEAN
    OBVIOUS
  <2> HIDE DEF r, j, finished
  <2>4. jar' \in JarType
    BY <2>1, <2>2, <2>3 DEF JarType
  <2>5. RestTyped'
    BY <2>1, <2>2, <2>4 DEF TypeOK, RestTyped, JarType
  <2> QED
    BY <2>2, <2>3, <2>5, FrameTyped
<1> QED
  BY <1>1, <1>2 DEF JumpAndRotate

LEMMA LedgeJumpTyped ==
  ASSUME TypeOK, Counts, cmd \in Commands, NEW dt \in DeltaTimes,
         LedgeJump(dt)
  PROVE  TypeOK' /\ Counts'
<1>1. Remaining(dt) \in Nat
  BY ScriptAssumption DEF Remaining, TypeOK
<1>2. cmd.frames \in Nat
  BY ScriptAssumption DEF LedgeJump
<1>3. CASE LedgeLost
  <2>1. RestTyped'
    BY <1>3 DEF LedgeLost, TypeOK, RestTyped
  <2> QED
    BY <1>3, <2>1, FrameTyped DEF LedgeLost
<1>4. CASE LedgeStart
  <2>1. RestTyped'
    BY <1>2, <1>4 DEF LedgeStart, TypeOK, RestTyped
  <2> QED
    BY <1>4, <2>1, FrameTyped DEF LedgeStart
<1>5. CASE LedgeStep(dt)
  <2>1. RestTyped'
    BY <1>1, <1>5 DEF LedgeStep, TypeOK, RestTyped
  <2>2. (path' = 0) \in BOOLEAN
    OBVIOUS
  <2> QED
    BY <1>5, <2>1, <2>2, FrameTyped DEF LedgeStep
<1> QED
  BY <1>3, <1>4, <1>5 DEF LedgeJump

\* Every step keeps the types and the bounds of the counters.
LEMMA TypeStep ==
  ASSUME TypeOK, Counts, [Next]_vars
  PROVE  TypeOK' /\ Counts'
<1> USE DEF vars, statics
<1>1. CASE Fetch
  BY <1>1, CommandType DEF Fetch, TypeOK, Counts
<1>2. CASE Frame
  <2>1. PICK dt \in DeltaTimes : Dispatch(dt)
    BY <1>2 DEF Frame
  <2>2. cmd \in Commands
    BY <1>2 DEF Frame, TypeOK
  <2>3. CASE EntityMove(dt) \/ GameObjectMove(dt) \/ SetCameraOffsetAngle(dt)
    <3>1. cmd.op \in Steps!EasedOps /\ Move(dt)
      BY <2>3 DEF EntityMove, GameObjectMove, SetCameraOffsetAngle, Steps!EasedOps
    <3> QED
      BY <2>2, <3>1, MoveTyped
  <2> QED
    BY <2>1, <2>2, <2>3, GameObjectRotateTyped, GameObjectRotatePivotTyped,
       JumpAndRotateTyped, LedgeJumpTyped DEF Dispatch
<1>3. CASE StepOver
  <2>1. stepper' \in [on : BOOLEAN, frozen : BOOLEAN]
    BY <1>3 DEF StepOver, TypeOK
  <2>2. ran' \in 0..MaxCommands /\ ran' <= done'
    BY <1>3, ScriptAssumption DEF StepOver, TypeOK
  <2> QED
    BY <1>3, <2>1, <2>2 DEF StepOver, TypeOK, Counts
<1>4. ASSUME NEW on \in BOOLEAN, EnableDebugging(on)
      PROVE  TypeOK' /\ Counts'
  BY <1>4, ScriptAssumption DEF EnableDebugging, TypeOK, Counts
<1>5. CASE ScriptEnds \/ UNCHANGED vars
  BY <1>5 DEF ScriptEnds, TypeOK, Counts
<1> QED
  BY <1>1, <1>2, <1>3, <1>4, <1>5 DEF Next

LEMMA InitTyped == Init => TypeOK /\ Counts
<1> SUFFICES ASSUME Init PROVE TypeOK /\ Counts
  OBVIOUS
<1>1. /\ value \in [Axes -> Int] /\ place \in [Axes -> Int]
      /\ orig \in [Remembered -> Int]
  BY DEF Init
<1>2. done \in 0..MaxCommands /\ ran \in 0..MaxCommands /\ ran <= done
  BY ScriptAssumption DEF Init
<1>3. /\ rotp \in [started : BOOLEAN, accumulated : Nat]
      /\ jar \in [started : BOOLEAN, accumulated : Nat, camera : Int,
                  initializedJump : BOOLEAN, rotDone : BOOLEAN, jumpDone : BOOLEAN]
      /\ stepper \in [on : BOOLEAN, frozen : BOOLEAN]
  BY DEF Init
<1> QED
  BY <1>1, <1>2, <1>3 DEF Init, TypeOK, Counts

\* The variables of the commands keep their types, and the counters of ended
\* commands their bounds.
THEOREM ScriptTyped == Spec => []TypeOK
<1>1. Spec => [](TypeOK /\ Counts)
  BY InitTyped, TypeStep, PTL DEF Spec
<1> QED
  BY <1>1, PTL

-----------------------------------------------------------------------------
(* The invariant that the refinement needs.                                *)

RotRest   == ~rot
PivotRest == ~rotp.started
JarRest   == /\ ~jar.started /\ ~jar.rotDone /\ ~jar.jumpDone
             /\ ~jar.initializedJump
LedgeRest == ~ledge

\* Nothing has moved except along the axes in S.
Same(S) == \A a \in Axes \ S : value[a] = place[a]

Running(ops) == cmd # None /\ cmd.op \in ops

\* Between two commands nothing is under way.
Between ==
  cmd = None => /\ RotRest /\ PivotRest /\ JarRest /\ LedgeRest
                /\ Same({})
                /\ EngineClears \/ timeWait = 0

\* A move is relative to the place where it began.
Easing ==
  Running(Steps!EasedOps) =>
    /\ RotRest /\ PivotRest /\ JarRest /\ LedgeRest
    /\ Same({AxisOf[cmd.op]})
    /\ IF timeWait = 0 THEN value[AxisOf[cmd.op]] = place[AxisOf[cmd.op]]
       ELSE orig[AxisOf[cmd.op]] = place[AxisOf[cmd.op]]

Rotating ==
  Running({"gameObjectRotate"}) =>
    /\ PivotRest /\ JarRest /\ LedgeRest
    /\ Same({"angle"})
    /\ IF rot THEN orig["angle"] = place["angle"]
       ELSE timeWait = 0 /\ value["angle"] = place["angle"]

\* What a rotation around a pivot has added is what it has counted.
Pivoting ==
  Running({"gameObjectRotatePivot"}) =>
    /\ RotRest /\ JarRest /\ LedgeRest
    /\ Same({"orbit"})
    /\ IF rotp.started
       THEN value["orbit"] = place["orbit"] + Signed(rotp.accumulated)
       ELSE timeWait = 0 /\ value["orbit"] = place["orbit"]

Turning ==
  Running({"jumpAndRotate"}) =>
    /\ RotRest /\ PivotRest /\ LedgeRest
    /\ Same({"orbit", "camera"})
    /\ jar.jumpDone => ~jar.initializedJump
    /\ jar.rotDone => /\ ~jar.started /\ timeWait = 0
                      /\ value["orbit"]  = place["orbit"] + cmd.delta
                      /\ value["camera"] = place["camera"] + cmd.camera
    /\ ~jar.rotDone /\ jar.started =>
         /\ value["orbit"] = place["orbit"] + Signed(jar.accumulated)
         /\ jar.camera = place["camera"]
    /\ ~jar.rotDone /\ ~jar.started => timeWait = 0 /\ Same({})

Jumping ==
  Running({"ledgeJump"}) =>
    /\ RotRest /\ PivotRest /\ JarRest
    /\ Same({})
    /\ timeWait = 0

\* An instant command has not begun before its only frame.
Instant ==
  Running(Steps!Ops \ {"ledgeJump"}) /\ cmd.frames <= 0 =>
    /\ RotRest /\ PivotRest /\ JarRest /\ LedgeRest
    /\ Same({})
    /\ timeWait = 0

SInv == Instant /\ Between /\ Easing /\ Rotating /\ Pivoting /\ Turning /\ Jumping

-----------------------------------------------------------------------------
(* Every step keeps it, and is a step of ScriptSteps or a stutter.         *)

\* Where the commands take their axes.
LEMMA DisplacedAt ==
  ASSUME TypeOK, cmd \in Commands, NEW a \in Axes
  PROVE  /\ cmd.op = "ledgeJump" => Steps!Displaced(place, cmd)[a] = place[a]
         /\ cmd.op \notin {"ledgeJump", "jumpAndRotate"} =>
              Steps!Displaced(place, cmd)[a] =
                place[a] + IF a = AxisOf[cmd.op] THEN cmd.delta ELSE 0
         /\ cmd.op = "jumpAndRotate" =>
              /\ a \notin {"orbit", "camera"} => Steps!Displaced(place, cmd)[a] = place[a]
              /\ a = "orbit" => Steps!Displaced(place, cmd)[a] = place[a] + cmd.delta
              /\ a = "camera" => Steps!Displaced(place, cmd)[a] = place[a] + cmd.camera
<1>1. place[a] \in Int /\ cmd.delta \in Int /\ cmd.camera \in Int
  BY CommandType DEF TypeOK
<1>2. cmd.op = "jumpAndRotate" => AxisOf[cmd.op] = "orbit"
  BY DEF AxisOf, Steps!AxisOf, Steps!Ops
<1> QED
  BY <1>1, <1>2 DEF Steps!Displaced, Axes, AxisOf

\* A command that ends where it should is a step of ScriptSteps.
LEMMA EndsWell ==
  ASSUME TypeOK', cmd \in Commands, HandleCmdStepper(TRUE),
         \A a \in Axes : value'[a] = Steps!Displaced(place, cmd)[a]
  PROVE  cmd' = None /\ Same({})' /\ Steps!Execute
<1>1. cmd' = None /\ place' = value' /\ cmd # None
  BY CommandType DEF HandleCmdStepper
<1>2. value' = Steps!Displaced(place, cmd)
  BY DEF TypeOK, Steps!Displaced, Axes
<1> QED
  BY <1>1, <1>2 DEF Same, Steps!Execute

\* While it runs, the command and the place where it began stay.
LEMMA GoesOn == HandleCmdStepper(FALSE) => cmd' = cmd /\ place' = place
BY DEF HandleCmdStepper

\* Between two commands nothing else is to be shown.
LEMMA AfterEnd ==
  ASSUME cmd' = None, Between'
  PROVE  SInv'
BY DEF SInv, Instant, Between, Easing, Rotating, Pivoting, Turning, Jumping, Running

\* Commands of one kind say nothing of the others.
LEMMA WhileRunning ==
  ASSUME cmd' = cmd, cmd \in Commands, cmd.frames > 0 \/ cmd.op = "ledgeJump"
  PROVE  /\ cmd.op \in Steps!EasedOps /\ Easing' => SInv'
         /\ cmd.op = "gameObjectRotate" /\ Rotating' => SInv'
         /\ cmd.op = "gameObjectRotatePivot" /\ Pivoting' => SInv'
         /\ cmd.op = "jumpAndRotate" /\ Turning' => SInv'
         /\ cmd.op = "ledgeJump" /\ Jumping' => SInv'
<1>1. cmd.frames \in Int
  BY CommandType
<1>2. Instant'
  BY <1>1 DEF Instant, Running
<1> QED
  BY <1>2, CommandType
     DEF SInv, Between, Easing, Rotating, Pivoting, Turning, Jumping, Running,
         Steps!EasedOps

\* A frame, as ScriptSteps sees it.
FrameStep == Steps!Execute \/ UNCHANGED <<cmd, place>>

\* Instant commands, except that of JumpAndRotate.
LEMMA InstantStep ==
  ASSUME TypeOK, TypeOK', SInv, cmd \in Commands, Instantly,
         cmd.op \notin {"ledgeJump", "jumpAndRotate"}
  PROVE  SInv' /\ FrameStep
<1>1. /\ AxisOf[cmd.op] \in Axes /\ cmd.delta \in Int
      /\ \A a \in Axes : value[a] = place[a]
      /\ Displace(AxisOf[cmd.op], cmd.delta) /\ HandleCmdStepper(TRUE)
      /\ RotRest /\ PivotRest /\ JarRest /\ LedgeRest /\ timeWait = 0
  BY AxisType, CommandType DEF Instantly, SInv, Instant, Running, Same
<1>2. ASSUME NEW a \in Axes
      PROVE  value'[a] = Steps!Displaced(place, cmd)[a]
  <2>1. place[a] \in Int
    BY DEF TypeOK
  <2>2. value'[a] = place[a] + IF a = AxisOf[cmd.op] THEN cmd.delta ELSE 0
    BY <1>1, <2>1, DisplaceTyped
  <2> QED
    BY <2>2, DisplacedAt
<1>3. cmd' = None /\ Same({})' /\ Steps!Execute
  BY <1>1, <1>2, EndsWell
<1>4. Between'
  BY <1>1, <1>3 DEF Instantly, statics, Between, RotRest, PivotRest, JarRest, LedgeRest
<1> QED
  BY <1>3, <1>4, AfterEnd DEF FrameStep

LEMMA MoveStep ==
  ASSUME TypeOK, TypeOK', SInv, cmd \in Commands, NEW dt \in DeltaTimes,
         cmd.op \in Steps!EasedOps, Move(dt)
  PROVE  SInv' /\ FrameStep
<1> DEFINE axis     == AxisOf[cmd.op]
           elapsed  == timeWait + dt
           finished == elapsed >= cmd.frames
<1>1. /\ axis \in Axes /\ axis \in Remembered
      /\ cmd.delta \in Int /\ cmd.frames \in Int /\ cmd # None
      /\ cmd.op \notin {"ledgeJump", "jumpAndRotate"}
      /\ elapsed \in Nat /\ elapsed # 0
  BY AxisType, CommandType, ScriptAssumption DEF Steps!EasedOps, TypeOK
<1>2. /\ RotRest /\ PivotRest /\ JarRest /\ LedgeRest /\ Same({axis})
      /\ Captured(axis) = place[axis]
  BY <1>1 DEF SInv, Easing, Running, Captured
<1>3. CASE Instantly
  BY <1>1, <1>3, InstantStep
<1>4. CASE Ease(dt)
  <2>1. /\ orig'[axis] = place[axis]
        /\ timeWait' = IF finished THEN 0 ELSE elapsed
        /\ HandleCmdStepper(finished)
        /\ UNCHANGED statics
        /\ \A a \in Axes \ {axis} : value'[a] = value[a]
        /\ finished => value'[axis] = place[axis] + cmd.delta
    BY <1>1, <1>2, <1>4 DEF Ease, TypeOK
  <2>2. CASE finished
    <3>1. ASSUME NEW a \in Axes
          PROVE  value'[a] = Steps!Displaced(place, cmd)[a]
      <4>1. place[a] \in Int
        BY DEF TypeOK
      <4>2. value'[a] = place[a] + IF a = axis THEN cmd.delta ELSE 0
        BY <1>2, <2>1, <2>2, <4>1 DEF Same
      <4> QED
        BY <1>1, <4>2, DisplacedAt
    <3>2. HandleCmdStepper(TRUE)
      BY <2>1, <2>2
    <3>3. cmd' = None /\ Same({})' /\ Steps!Execute
      BY <3>1, <3>2, EndsWell
    <3>4. Between'
      BY <1>2, <2>1, <2>2, <3>3
         DEF statics, Between, RotRest, PivotRest, JarRest, LedgeRest
    <3> QED
      BY <3>3, <3>4, AfterEnd DEF FrameStep
  <2>3. CASE ~finished
    <3>1. cmd' = cmd /\ place' = place
      BY <2>1, <2>3 DEF HandleCmdStepper
    <3>2. Easing'
      BY <1>1, <1>2, <2>1, <2>3, <3>1
         DEF statics, Easing, Same, RotRest, PivotRest, JarRest, LedgeRest
    <3> QED
      BY <1>4, <3>1, <3>2, WhileRunning DEF FrameStep, Ease
  <2> QED
    BY <2>2, <2>3
<1> QED
  BY <1>3, <1>4 DEF Move

LEMMA GameObjectRotateStep ==
  ASSUME TypeOK, TypeOK', SInv, Clean, cmd \in Commands, NEW dt \in DeltaTimes,
         GameObjectRotate(dt)
  PROVE  SInv' /\ FrameStep
<1>1. /\ cmd.op = "gameObjectRotate" /\ AxisOf[cmd.op] = "angle"
      /\ "angle" \in Axes /\ "angle" \in Remembered
      /\ cmd.delta \in Int /\ cmd # None /\ EngineClears /\ dt \in Nat \ {0}
  BY CommandType, ScriptAssumption
     DEF GameObjectRotate, AxisOf, Axes, Remembered, Steps!AxisOf, Steps!Axes,
         Steps!Ops, Clean, TimeCleared, Leaving
<1>2. /\ PivotRest /\ JarRest /\ LedgeRest /\ Same({"angle"})
      /\ IF rot THEN orig["angle"] = place["angle"]
         ELSE timeWait = 0 /\ value["angle"] = place["angle"]
  BY <1>1 DEF SInv, Rotating, Running
<1>3. CASE Instantly
  BY <1>1, <1>3, InstantStep
<1>4. CASE RotateStart
  <2>1. cmd' = cmd /\ place' = place
    BY <1>4, GoesOn DEF RotateStart
  <2>2. Rotating'
    BY <1>1, <1>2, <1>4, <2>1
       DEF RotateStart, StartRotating, TypeOK, Rotating, Same, PivotRest, JarRest, LedgeRest
  <2> QED
    BY <1>1, <1>4, <2>1, <2>2, WhileRunning DEF FrameStep, RotateStart
<1>5. CASE RotateStep(dt)
  <2>1. cmd' = cmd /\ place' = place
    BY <1>5, GoesOn DEF RotateStep
  <2>2. \A a \in Axes \ {"angle"} : value'[a] = value[a]
    BY <1>1, <1>5 DEF RotateStep, Displace, TypeOK
  <2>3. Rotating'
    BY <1>1, <1>2, <1>5, <2>1, <2>2
       DEF RotateStep, StartRotating, statics, Rotating, Same, PivotRest, JarRest,
           LedgeRest
  <2> QED
    BY <1>1, <1>5, <2>1, <2>3, WhileRunning DEF FrameStep, RotateStep
<1>6. CASE RotateEnd
  <2>1. rot
    BY <1>2, <1>6 DEF RotateEnd, StartRotating
  <2>2. ASSUME NEW a \in Axes
        PROVE  value'[a] = Steps!Displaced(place, cmd)[a]
    <3>1. place[a] \in Int
      BY DEF TypeOK
    <3>2. value'[a] = place[a] + IF a = "angle" THEN cmd.delta ELSE 0
      BY <1>1, <1>2, <1>6, <2>1, <3>1 DEF RotateEnd, TypeOK, Same
    <3> QED
      BY <1>1, <3>2, DisplacedAt
  <2>3. cmd' = None /\ Same({})' /\ Steps!Execute
    BY <1>6, <2>2, EndsWell DEF RotateEnd
  <2>4. Between'
    BY <1>1, <1>2, <1>6, <2>3
       DEF RotateEnd, Between, RotRest, PivotRest, JarRest, LedgeRest
  <2> QED
    BY <2>3, <2>4, AfterEnd DEF FrameStep
<1> QED
  BY <1>3, <1>4, <1>5, <1>6 DEF GameObjectRotate

LEMMA GameObjectRotatePivotStep ==
  ASSUME TypeOK, TypeOK', SInv, Clean, cmd \in Commands, NEW dt \in DeltaTimes,
         GameObjectRotatePivot(dt)
  PROVE  SInv' /\ FrameStep
<1>1. /\ cmd.op = "gameObjectRotatePivot" /\ AxisOf[cmd.op] = "orbit"
      /\ "orbit" \in Axes
      /\ cmd.delta \in Int /\ cmd # None /\ EngineClears
  BY CommandType
     DEF GameObjectRotatePivot, AxisOf, Axes, Steps!AxisOf, Steps!Axes,
         Steps!Ops, Clean, TimeCleared, Leaving
<1>2. /\ RotRest /\ JarRest /\ LedgeRest /\ Same({"orbit"})
      /\ IF rotp.started
         THEN value["orbit"] = place["orbit"] + Signed(rotp.accumulated)
         ELSE timeWait = 0 /\ value["orbit"] = place["orbit"]
  BY <1>1 DEF SInv, Pivoting, Running
<1>3. CASE Instantly
  BY <1>1, <1>3, InstantStep
<1>4. place["orbit"] \in Int /\ value["orbit"] \in Int /\ rotp.accumulated \in Nat
  BY <1>1 DEF TypeOK
<1>5. CASE PivotStart
  <2>1. cmd' = cmd /\ place' = place
    BY <1>5, GoesOn DEF PivotStart
  <2>2. Signed(0) = 0
    BY SignedSum
  <2>3. rotp' = [started |-> TRUE, accumulated |-> 0] /\ ~rotp.started
    BY <1>5 DEF PivotStart, StartPivoting
  <2>4. value'["orbit"] = place["orbit"] + 0
    BY <1>2, <1>4, <1>5, <2>3 DEF PivotStart
  <2>7. rotp'.accumulated = 0 /\ rotp'.started /\ value' = value
    BY <1>5, <2>3 DEF PivotStart
  <2>8. Signed(rotp.accumulated)' = 0
    BY <2>1, <2>2, <2>7 DEF Signed
  <2>5. Pivoting'
    BY <1>2, <1>5, <2>1, <2>4, <2>7, <2>8
       DEF PivotStart, Pivoting, Same, RotRest, JarRest, LedgeRest
  <2> QED
    BY <1>1, <1>5, <2>1, <2>5, WhileRunning DEF FrameStep, PivotStart
<1>6. CASE PivotStep(dt)
  <2>1. cmd' = cmd /\ place' = place
    BY <1>6, GoesOn DEF PivotStep
  <2>2. rotp.started
    BY <1>2, <1>6 DEF PivotStep, StartPivoting
  <2>3. /\ Added(dt) \in Nat /\ Signed(Added(dt)) \in Int
        /\ Signed(rotp.accumulated) \in Int
        /\ Signed(rotp.accumulated) + Signed(Added(dt))
             = Signed(rotp.accumulated + Added(dt))
    BY <1>4, AddedNat, SignedSum
  <2>4. /\ \A a \in Axes \ {"orbit"} : value'[a] = value[a]
        /\ value'["orbit"] = value["orbit"] + Signed(Added(dt))
    BY <1>1, <1>6, <2>3, DisplaceTyped DEF PivotStep
  <2>5. rotp'.accumulated = rotp.accumulated + Added(dt) /\ rotp'.started
    BY <1>6, <2>2 DEF PivotStep, TypeOK
  <2>6. value'["orbit"] = place["orbit"] + Signed(rotp.accumulated + Added(dt))
    BY <1>2, <1>4, <2>2, <2>3, <2>4
  <2>7. Pivoting'
    BY <1>2, <1>6, <2>1, <2>4, <2>5, <2>6
       DEF PivotStep, Pivoting, Same, RotRest, JarRest, LedgeRest, Signed
  <2> QED
    BY <1>1, <1>6, <2>1, <2>7, WhileRunning DEF FrameStep, PivotStep
<1>7. CASE PivotEnd(dt)
  <2>1. rotp.started
    BY <1>2, <1>7 DEF PivotEnd, StartPivoting
  <2>2. /\ Signed(rotp.accumulated) \in Int
        /\ Signed(Abs(cmd.delta) - rotp.accumulated) \in Int
        /\ Signed(rotp.accumulated) + Signed(Abs(cmd.delta) - rotp.accumulated)
             = cmd.delta
    BY <1>4, SignedSum
  <2>3. /\ \A a \in Axes \ {"orbit"} : value'[a] = value[a]
        /\ value'["orbit"] = value["orbit"] + Signed(Abs(cmd.delta) - rotp.accumulated)
    BY <1>1, <1>7, <2>2, DisplaceTyped DEF PivotEnd
  <2>4. value'["orbit"] = place["orbit"] + cmd.delta
    BY <1>1, <1>2, <1>4, <2>1, <2>2, <2>3
  <2>5. ASSUME NEW a \in Axes
        PROVE  value'[a] = Steps!Displaced(place, cmd)[a]
    <3>1. place[a] \in Int
      BY DEF TypeOK
    <3>2. value'[a] = place[a] + IF a = "orbit" THEN cmd.delta ELSE 0
      BY <1>2, <2>3, <2>4, <3>1 DEF Same
    <3> QED
      BY <1>1, <3>2, DisplacedAt
  <2>6. cmd' = None /\ Same({})' /\ Steps!Execute
    BY <1>7, <2>5, EndsWell DEF PivotEnd
  <2>7. ~rotp'.started
    BY <1>7 DEF PivotEnd, TypeOK
  <2>8. Between'
    BY <1>1, <1>2, <1>7, <2>6, <2>7
       DEF PivotEnd, Between, RotRest, PivotRest, JarRest, LedgeRest
  <2> QED
    BY <2>6, <2>8, AfterEnd DEF FrameStep
<1> QED
  BY <1>3, <1>5, <1>6, <1>7 DEF GameObjectRotatePivot

\* The jump of JumpAndRotate forgets that it has begun when it is done.
LEMMA JumpForgets ==
  ASSUME TypeOK, NEW dt \in DeltaTimes, jar.jumpDone => ~jar.initializedJump
  PROVE  LET j == JumpAndRotate_Jump(dt) IN j.done => ~j.initialized
<1>1. Remaining(dt) \in Nat
  BY ScriptAssumption DEF Remaining, TypeOK
<1>2. CASE jar.jumpDone
  BY <1>2 DEF JumpAndRotate_Jump
<1>3. CASE ~jar.jumpDone /\ ~jar.initializedJump
  BY <1>3 DEF JumpAndRotate_Jump
<1>4. CASE ~jar.jumpDone /\ jar.initializedJump
  <2>1. JumpAndRotate_Jump(dt) =
          [initialized |-> Remaining(dt) > 0, done |-> Remaining(dt) = 0,
           path |-> Remaining(dt)]
    BY <1>4 DEF JumpAndRotate_Jump
  <2>2. /\ JumpAndRotate_Jump(dt).done = (Remaining(dt) = 0)
        /\ JumpAndRotate_Jump(dt).initialized = (Remaining(dt) > 0)
    BY <2>1
  <2>3. Remaining(dt) = 0 => ~(Remaining(dt) > 0)
    BY <1>1
  <2> QED
    BY <2>2, <2>3
<1> QED
  BY <1>2, <1>3, <1>4

\* Where a rotation is, as long as it has not ended and when it has.
RotationAt(j, v, t) ==
  /\ \A a \in Axes \ {"orbit", "camera"} : v[a] = place[a]
  /\ j.rotDone => /\ ~j.started /\ t = 0
                  /\ v["orbit"]  = place["orbit"] + cmd.delta
                  /\ v["camera"] = place["camera"] + cmd.camera
  /\ ~j.rotDone /\ j.started =>
       /\ v["orbit"] = place["orbit"] + Signed(j.accumulated)
       /\ j.camera = place["camera"]
  /\ ~j.rotDone /\ ~j.started =>
       t = 0 /\ v["orbit"] = place["orbit"] /\ v["camera"] = place["camera"]

LEMMA RotationStep ==
  ASSUME TypeOK, cmd \in Commands, cmd.frames > 0, NEW dt \in DeltaTimes,
         RotationAt(jar, value, timeWait)
  PROVE  LET r == JumpAndRotate_Rotate(dt)
         IN RotationAt(r.jar, r.value, r.timeWait)
<1> DEFINE r == JumpAndRotate_Rotate(dt)
<1>1. /\ "orbit" \in Axes /\ "camera" \in Axes /\ "orbit" # "camera"
      /\ value \in [Axes -> Int]
      /\ place["orbit"] \in Int /\ value["orbit"] \in Int
      /\ jar \in JarType /\ jar.accumulated \in Nat
  BY DEF Axes, Steps!Axes, TypeOK, JarType
<1>2. /\ Added(dt) \in Nat /\ Signed(Added(dt)) \in Int /\ Signed(0) = 0
      /\ Signed(jar.accumulated) \in Int
      /\ Signed(Abs(cmd.delta) - jar.accumulated) \in Int
      /\ Signed(jar.accumulated) + Signed(Added(dt))
           = Signed(jar.accumulated + Added(dt))
      /\ Signed(jar.accumulated) + Signed(Abs(cmd.delta) - jar.accumulated)
           = cmd.delta
  BY <1>1, AddedNat, SignedSum
<1>3. CASE jar.rotDone /\ r = NoRotation
  BY <1>3 DEF NoRotation
<1>4. CASE /\ ~jar.rotDone /\ ~jar.started /\ timeWait = 0
           /\ r.jar = [jar EXCEPT !.started = TRUE, !.accumulated = 0,
                                  !.camera = value["camera"]]
           /\ r.value = value /\ r.timeWait = timeWait
  <2> HIDE DEF r
  <2>1. /\ r.jar.started /\ ~r.jar.rotDone /\ r.jar.accumulated = 0
        /\ r.jar.camera = value["camera"]
    BY <1>1, <1>4 DEF JarType
  <2>2. /\ value["orbit"] = place["orbit"] /\ value["camera"] = place["camera"]
        /\ \A a \in Axes \ {"orbit", "camera"} : value[a] = place[a]
    BY <1>4 DEF RotationAt
  <2>3. value["orbit"] = place["orbit"] + Signed(r.jar.accumulated)
    BY <1>1, <1>2, <2>1, <2>2
  <2> QED
    BY <1>4, <2>1, <2>2, <2>3 DEF RotationAt, r
<1>5. CASE /\ ~jar.rotDone /\ (jar.started \/ timeWait # 0)
           /\ r.jar = [jar EXCEPT !.accumulated = @ + Added(dt)]
           /\ \E c \in Int :
                r.value = [value EXCEPT !["orbit"]  = @ + Signed(Added(dt)),
                                        !["camera"] = c]
           /\ r.timeWait \in Nat /\ r.timeWait # 0
  <2> HIDE DEF r
  <2>1. /\ r.jar.started /\ ~r.jar.rotDone
        /\ r.jar.accumulated = jar.accumulated + Added(dt)
        /\ r.jar.camera = place["camera"]
    BY <1>1, <1>5 DEF JarType, RotationAt
  <2>2. value["orbit"] = place["orbit"] + Signed(jar.accumulated)
    BY <1>5 DEF RotationAt
  <2>3. /\ r.value["orbit"] = value["orbit"] + Signed(Added(dt))
        /\ \A a \in Axes \ {"orbit", "camera"} : r.value[a] = value[a]
    BY <1>1, <1>5
  <2>4. r.value["orbit"] = place["orbit"] + Signed(r.jar.accumulated)
    BY <1>1, <1>2, <2>1, <2>2, <2>3
  <2> QED
    BY <2>1, <2>3, <2>4 DEF RotationAt, r
<1>6. CASE /\ ~jar.rotDone /\ (jar.started \/ timeWait # 0)
           /\ r.jar = [jar EXCEPT !.started = FALSE, !.rotDone = TRUE]
           /\ r.value = [value EXCEPT
                           !["orbit"]  = @ + Signed(Abs(cmd.delta) - jar.accumulated),
                           !["camera"] = jar.camera + cmd.camera]
           /\ r.timeWait = 0
  <2> HIDE DEF r
  <2>1. r.jar.rotDone /\ ~r.jar.started
    BY <1>1, <1>6 DEF JarType
  <2>2. /\ value["orbit"] = place["orbit"] + Signed(jar.accumulated)
        /\ jar.camera = place["camera"]
    BY <1>6 DEF RotationAt
  <2>3. /\ r.value["orbit"]
             = value["orbit"] + Signed(Abs(cmd.delta) - jar.accumulated)
        /\ r.value["camera"] = place["camera"] + cmd.camera
        /\ \A a \in Axes \ {"orbit", "camera"} : r.value[a] = value[a]
    BY <1>1, <1>6, <2>2
  <2>4. r.value["orbit"] = place["orbit"] + cmd.delta
    BY <1>1, <1>2, <2>2, <2>3
  <2> QED
    BY <1>6, <2>1, <2>3, <2>4 DEF RotationAt, r
<1> QED
  BY <1>3, <1>4, <1>5, <1>6, RotateOutcome

LEMMA JumpAndRotateStep ==
  ASSUME TypeOK, TypeOK', SInv, Clean, cmd \in Commands, NEW dt \in DeltaTimes,
         JumpAndRotate(dt)
  PROVE  SInv' /\ FrameStep
<1>1. /\ cmd.op = "jumpAndRotate" /\ cmd \in Commands /\ cmd # None
      /\ cmd.op \in Steps!Ops \ {"ledgeJump"}
      /\ cmd.frames \in Int /\ cmd.delta \in Int
      /\ "orbit" \in Axes /\ "camera" \in Axes
  BY CommandType DEF JumpAndRotate, Steps!Ops, Axes, Steps!Axes
<1>2. /\ RotRest /\ PivotRest /\ LedgeRest
      /\ jar.jumpDone => ~jar.initializedJump
      /\ RotationAt(jar, value, timeWait)
  BY <1>1 DEF SInv, Turning, Running, RotationAt, Same
<1>3. CASE TurnInstantly
  <2>1. /\ cmd.camera = cmd.delta
        /\ RotRest /\ PivotRest /\ JarRest /\ LedgeRest
        /\ timeWait = 0 /\ \A a \in Axes : value[a] = place[a]
    BY <1>1, <1>3 DEF TurnInstantly, SInv, Instant, Running, Same, Clean,
        InstantTurnsAlike
  <2>2. ASSUME NEW a \in Axes
        PROVE  value'[a] = Steps!Displaced(place, cmd)[a]
    BY <1>1, <1>3, <2>1, DisplacedAt DEF TurnInstantly, TypeOK
  <2>3. cmd' = None /\ Same({})' /\ Steps!Execute
    BY <1>3, <2>2, EndsWell DEF TurnInstantly
  <2>4. Between'
    BY <1>3, <2>1, <2>3
       DEF TurnInstantly, statics, Between, RotRest, PivotRest, JarRest, LedgeRest
  <2> QED
    BY <2>3, <2>4, AfterEnd DEF FrameStep
<1>4. CASE Turn(dt)
  <2> DEFINE r == JumpAndRotate_Rotate(dt)
             j == JumpAndRotate_Jump(dt)
             finished == r.jar.rotDone /\ j.done
  <2>1. cmd.frames > 0
    BY <1>4 DEF Turn
  <2>2. /\ RotationAt(r.jar, r.value, r.timeWait)
        /\ r.jar \in JarType
        /\ j.done => ~j.initialized
        /\ j.done \in BOOLEAN /\ j.initialized \in BOOLEAN
    BY <1>2, <2>1, RotationStep, JumpForgets, RotateTyped, JumpTyped
  <2>3. /\ jar' = [r.jar EXCEPT !.initializedJump = j.initialized,
                                !.rotDone  = @ /\ ~finished,
                                !.jumpDone = j.done /\ ~finished]
        /\ value' = r.value /\ timeWait' = r.timeWait
        /\ HandleCmdStepper(finished)
        /\ rot' = rot /\ rotp' = rotp /\ ledge' = ledge
    BY <1>4 DEF Turn
  <2> HIDE DEF r, j
  <2>4. /\ jar'.initializedJump = j.initialized
        /\ jar'.rotDone = (r.jar.rotDone /\ ~finished)
        /\ jar'.jumpDone = (j.done /\ ~finished)
        /\ jar'.started = r.jar.started
        /\ jar'.accumulated = r.jar.accumulated /\ jar'.camera = r.jar.camera
    BY <2>2, <2>3 DEF JarType
  <2>5. CASE finished
    <3>1. HandleCmdStepper(TRUE)
      BY <2>3, <2>5
    <3>2. ASSUME NEW a \in Axes
          PROVE  value'[a] = Steps!Displaced(place, cmd)[a]
      BY <1>1, <2>2, <2>3, <2>5, DisplacedAt DEF RotationAt
    <3>3. cmd' = None /\ Same({})' /\ Steps!Execute
      BY <3>1, <3>2, EndsWell
    <3>4. ~jar'.started /\ ~jar'.rotDone /\ ~jar'.jumpDone /\ ~jar'.initializedJump
      BY <2>2, <2>4, <2>5 DEF RotationAt
    <3>5. timeWait' = 0
      BY <2>2, <2>3, <2>5 DEF RotationAt
    <3>6. Between'
      BY <1>2, <2>3, <3>3, <3>4, <3>5
         DEF Between, RotRest, PivotRest, JarRest, LedgeRest
    <3> QED
      BY <3>3, <3>6, AfterEnd DEF FrameStep
  <2>6. CASE ~finished
    <3>1. cmd' = cmd /\ place' = place
      BY <2>3, <2>6 DEF HandleCmdStepper
    <3>2. jar'.rotDone = r.jar.rotDone /\ jar'.jumpDone = j.done
      BY <2>2, <2>4, <2>6 DEF JarType
    <3>3. Same({"orbit", "camera"})'
      BY <2>2, <2>3, <3>1 DEF Same, RotationAt
    <3>4. jar'.rotDone => /\ ~jar'.started /\ timeWait' = 0
                          /\ value'["orbit"]  = place'["orbit"] + cmd'.delta
                          /\ value'["camera"] = place'["camera"] + cmd'.camera
      BY <2>2, <2>3, <2>4, <3>1, <3>2 DEF RotationAt
    <3>5. ~jar'.rotDone /\ jar'.started =>
            /\ value'["orbit"] = place'["orbit"] + Signed(jar.accumulated)'
            /\ jar'.camera = place'["camera"]
      BY <2>2, <2>3, <2>4, <3>1, <3>2 DEF RotationAt, Signed
    <3>6. ~jar'.rotDone /\ ~jar'.started => timeWait' = 0 /\ Same({})'
      BY <2>2, <2>3, <2>4, <3>1, <3>2, <3>3 DEF RotationAt, Same
    <3>7. jar'.jumpDone => ~jar'.initializedJump
      BY <2>2, <2>4, <3>2
    <3>8. Turning'
      BY <1>2, <2>3, <3>3, <3>4, <3>5, <3>6, <3>7
         DEF Turning, RotRest, PivotRest, LedgeRest
    <3> QED
      BY <1>1, <2>1, <3>1, <3>8, WhileRunning DEF FrameStep
  <2> QED
    BY <2>5, <2>6
<1> QED
  BY <1>3, <1>4 DEF JumpAndRotate

LEMMA LedgeJumpStep ==
  ASSUME TypeOK, TypeOK', SInv, cmd \in Commands, NEW dt \in DeltaTimes,
         LedgeJump(dt)
  PROVE  SInv' /\ FrameStep
<1>1. /\ cmd.op = "ledgeJump" /\ cmd # None
      /\ RotRest /\ PivotRest /\ JarRest /\ Same({}) /\ timeWait = 0
  BY CommandType DEF LedgeJump, SInv, Jumping, Running
<1>2. /\ value' = value /\ timeWait' = timeWait
      /\ rot' = rot /\ rotp' = rotp /\ jar' = jar
  BY DEF LedgeJump, LedgeLost, LedgeStart, LedgeStep
<1>3. ASSUME HandleCmdStepper(TRUE), ~ledge'
      PROVE  SInv' /\ FrameStep
  <2>1. ASSUME NEW a \in Axes
        PROVE  value'[a] = Steps!Displaced(place, cmd)[a]
    BY <1>1, <1>2, DisplacedAt DEF Same
  <2>2. cmd' = None /\ Same({})' /\ Steps!Execute
    BY <1>3, <2>1, EndsWell
  <2>3. Between'
    BY <1>1, <1>2, <1>3, <2>2
       DEF Between, RotRest, PivotRest, JarRest, LedgeRest
  <2> QED
    BY <2>2, <2>3, AfterEnd DEF FrameStep
<1>4. ASSUME HandleCmdStepper(FALSE)
      PROVE  SInv' /\ FrameStep
  <2>1. cmd' = cmd /\ place' = place
    BY <1>4, GoesOn
  <2>2. Jumping'
    BY <1>1, <1>2, <2>1 DEF Jumping, Same, RotRest, PivotRest, JarRest
  <2> QED
    BY <1>1, <2>1, <2>2, WhileRunning DEF FrameStep
<1>5. CASE LedgeLost
  BY <1>3, <1>5 DEF LedgeLost
<1>6. CASE LedgeStart
  BY <1>4, <1>6 DEF LedgeStart
<1>7. CASE LedgeStep(dt)
  <2>1. CASE path' = 0
    <3>1. ~(path' > 0)
      BY <2>1
    <3>2. ~ledge'
      BY <1>7, <3>1 DEF LedgeStep
    <3>3. HandleCmdStepper(TRUE)
      BY <1>7, <2>1 DEF LedgeStep, HandleCmdStepper
    <3> QED
      BY <3>2, <3>3, <1>3
  <2>2. CASE path' # 0
    <3>1. HandleCmdStepper(FALSE)
      BY <1>7, <2>2 DEF LedgeStep, HandleCmdStepper
    <3> QED
      BY <3>1, <1>4
  <2> QED
    BY <2>1, <2>2
<1> QED
  BY <1>5, <1>6, <1>7 DEF LedgeJump

\* Every step of the commands is a step of the script, or none.
LEMMA ScriptStep ==
  ASSUME TypeOK, TypeOK', SInv, Clean, [Next]_vars
  PROVE  SInv' /\ [Steps!Next]_<<cmd, place>>
<1>1. CASE Fetch
  <2>1. cmd = None /\ cmd' \in Commands /\ place' = place
    BY <1>1 DEF Fetch
  <2>2. /\ RotRest /\ PivotRest /\ JarRest /\ LedgeRest /\ Same({})
        /\ EngineClears \/ timeWait = 0
    BY <2>1 DEF SInv, Between
  <2>3. /\ timeWait' = 0 /\ value' = value /\ UNCHANGED <<rot, rotp, jar, ledge>>
    BY <1>1, <2>2 DEF Fetch, statics
  <2>4. /\ RotRest' /\ PivotRest' /\ JarRest' /\ LedgeRest'
        /\ \A a \in Axes : value'[a] = place'[a]
        /\ cmd'.op # "ledgeJump" => AxisOf[cmd'.op] \in Axes
    <3>1. cmd'.op \in Steps!Ops
      BY <2>1, CommandType
    <3> QED
      BY <2>1, <2>2, <2>3, <3>1
         DEF RotRest, PivotRest, JarRest, LedgeRest, Same, AxisOf, Axes,
             Steps!AxisOf, Steps!Axes, Steps!Ops
  <2>5. "angle" \in Axes /\ "orbit" \in Axes /\ cmd' # None
    BY <2>1, CommandType DEF Axes, Steps!Axes
  <2>6. Instant' /\ Between' /\ Easing'
    BY <2>3, <2>4, <2>5 DEF Instant, Between, Easing, Running, Same, Steps!EasedOps
  <2>7. Rotating' /\ Pivoting' /\ Turning' /\ Jumping'
    BY <2>3, <2>4, <2>5
       DEF Rotating, Pivoting, Turning, Jumping, Same, RotRest, PivotRest, JarRest,
           LedgeRest
  <2> QED
    BY <2>1, <2>6, <2>7 DEF SInv, Steps!Next, Steps!Fetch
<1>2. CASE Frame
  <2>1. PICK dt \in DeltaTimes : Dispatch(dt)
    BY <1>2 DEF Frame
  <2>2. cmd \in Commands
    BY <1>2 DEF Frame, TypeOK
  <2>3. CASE EntityMove(dt) \/ GameObjectMove(dt) \/ SetCameraOffsetAngle(dt)
    <3>1. cmd.op \in Steps!EasedOps /\ Move(dt)
      BY <2>3 DEF EntityMove, GameObjectMove, SetCameraOffsetAngle, Steps!EasedOps
    <3> QED
      BY <2>2, <3>1, MoveStep DEF FrameStep, Steps!Next
  <2> QED
    BY <2>1, <2>2, <2>3, GameObjectRotateStep, GameObjectRotatePivotStep,
       JumpAndRotateStep, LedgeJumpStep DEF Dispatch, FrameStep, Steps!Next
<1>3. CASE \/ StepOver
           \/ \E on \in BOOLEAN : EnableDebugging(on)
           \/ ScriptEnds
           \/ UNCHANGED vars
  <2>1. UNCHANGED <<cmd, timeWait, value, orig, rot, rotp, jar, ledge, place>>
    BY <1>3 DEF StepOver, EnableDebugging, ScriptEnds, vars, statics
  <2>2. SInv'
    BY <2>1
       DEF SInv, Instant, Between, Easing, Rotating, Pivoting, Turning, Jumping,
           Running, Same, RotRest, PivotRest, JarRest, LedgeRest, Signed
  <2> QED
    BY <2>1, <2>2
<1> QED
  BY <1>1, <1>2, <1>3 DEF Next

LEMMA InitStep == Init => SInv /\ Steps!Init
<1> SUFFICES ASSUME Init PROVE SInv /\ Steps!Init
  OBVIOUS
<1>1. Between /\ Steps!Init
  BY DEF Init, Between, RotRest, PivotRest, JarRest, LedgeRest, Same, Steps!Init, Axes
<1>2. cmd = None
  BY DEF Init
<1> QED
  BY <1>1, <1>2
     DEF SInv, Instant, Easing, Rotating, Pivoting, Turning, Jumping, Running

\* Whatever the lengths of frames and however often the stepper stops the
\* script, each command displaces what it names by exactly its argument from
\* where it found it, and nothing else: the commands implement ScriptSteps,
\* if no rotation leaves _timeWait to a later command and no instant turning
\* jump asks for two different angles, which the code gets wrong (Clean).
THEOREM ScriptImplements == Clean /\ Spec => ImplementsSteps
<1> SUFFICES ASSUME Clean PROVE Spec => ImplementsSteps
  OBVIOUS
<1>1. Spec => [](TypeOK /\ Counts)
  BY InitTyped, TypeStep, PTL DEF Spec
<1>2. Init => SInv /\ Steps!Init
  BY InitStep
<1>3. SInv /\ (TypeOK /\ Counts) /\ (TypeOK /\ Counts)' /\ [Next]_vars
        => SInv' /\ [Steps!Next]_<<cmd, place>>
  BY ScriptStep
<1> QED
  BY <1>1, <1>2, <1>3, PTL DEF Spec, ImplementsSteps, Steps!Spec

-----------------------------------------------------------------------------
(* The debug stepper.                                                      *)

\* Every command hands its result to the stepper.
LEMMA ResultHandled ==
  ASSUME NEW dt \in DeltaTimes, Dispatch(dt)
  PROVE  HandleCmdStepper(TRUE) \/ HandleCmdStepper(FALSE)
<1>1. \E result \in BOOLEAN : HandleCmdStepper(result)
  <2>1. CASE EntityMove(dt) \/ GameObjectMove(dt) \/ SetCameraOffsetAngle(dt)
    <3>1. Instantly \/ Ease(dt)
      BY <2>1 DEF EntityMove, GameObjectMove, SetCameraOffsetAngle, Move
    <3>2. HandleCmdStepper(TRUE)
          \/ HandleCmdStepper(timeWait + dt >= cmd.frames)
      BY <3>1 DEF Instantly, Ease
    <3> QED
      BY <3>2 DEF HandleCmdStepper
  <2>2. CASE GameObjectRotate(dt)
    BY <2>2 DEF GameObjectRotate, Instantly, RotateStart, RotateStep, RotateEnd
  <2>3. CASE GameObjectRotatePivot(dt)
    BY <2>3 DEF GameObjectRotatePivot, Instantly, PivotStart, PivotStep, PivotEnd
  <2>4. CASE JumpAndRotate(dt)
    <3>1. HandleCmdStepper(TRUE)
          \/ HandleCmdStepper(/\ JumpAndRotate_Rotate(dt).jar.rotDone
                              /\ JumpAndRotate_Jump(dt).done)
      BY <2>4 DEF JumpAndRotate, TurnInstantly, Turn
    <3> QED
      BY <3>1
  <2>5. CASE LedgeJump(dt)
    BY <2>5 DEF LedgeJump, LedgeLost, LedgeStart, LedgeStep
  <2> QED
    BY <2>1, <2>2, <2>3, <2>4, <2>5 DEF Dispatch
<1> QED
  BY <1>1

\* A command that has ended since the last click has frozen the script.
StoppedAfterOne == stepper.on => ran <= 1 /\ (ran = 1 => stepper.frozen)

\* A script is stopped between two commands, or by the user in a stop of old.
StopsBetween ==
  ~Frozen /\ Frozen' => cmd' = None \/ (~stepper.on /\ stepper.frozen)

LEMMA StepperStep ==
  ASSUME TypeOK, StoppedAfterOne, [Next]_vars
  PROVE  /\ StoppedAfterOne'
         /\ StopsBetween
<1>1. CASE Frame
  <2>1. PICK dt \in DeltaTimes : Dispatch(dt)
    BY <1>1 DEF Frame
  <2>2. CASE HandleCmdStepper(TRUE)
    <3>1. /\ stepper'.frozen = (stepper.frozen \/ stepper.on)
          /\ stepper'.on = stepper.on
          /\ ran' = ran + 1 /\ cmd' = None
      BY <2>2 DEF HandleCmdStepper, TypeOK
    <3>2. stepper.on => ran = 0
      BY <1>1, ScriptAssumption DEF Frame, Frozen, StoppedAfterOne, TypeOK
    <3>3. ran = 0 => ran' = 1 /\ ran' <= 1
      BY <3>1
    <3> QED
      BY <3>1, <3>2, <3>3, Zenon DEF StoppedAfterOne, StopsBetween
  <2>3. CASE HandleCmdStepper(FALSE)
    BY <2>3 DEF HandleCmdStepper, StoppedAfterOne, StopsBetween, Frozen, TypeOK
  <2> QED
    BY <2>1, <2>2, <2>3, ResultHandled
<1>2. CASE StepOver \/ \E on \in BOOLEAN : EnableDebugging(on)
  BY <1>2 DEF StepOver, EnableDebugging, StoppedAfterOne, StopsBetween, Frozen, TypeOK
<1>3. CASE Fetch \/ ScriptEnds \/ UNCHANGED vars
  BY <1>3 DEF Fetch, ScriptEnds, vars, StoppedAfterOne, StopsBetween, Frozen
<1> QED
  BY <1>1, <1>2, <1>3 DEF Next

\* With the debug stepper on, at most one command ends between two clicks of
\* the user, and a command is stopped in its middle only by a user who switches
\* debugging on while the stop of a former command is still set.
THEOREM StepperRunsOne == Spec => StepperExact
<1>1. Init => StoppedAfterOne
  BY DEF Init, StoppedAfterOne
<1>2. TypeOK /\ StoppedAfterOne /\ [Next]_vars => StoppedAfterOne'
  BY StepperStep
<1>3. StoppedAfterOne => (stepper.on => ran <= 1)
  BY DEF StoppedAfterOne
<1>4. TypeOK /\ StoppedAfterOne /\ [Next]_vars
        => [StopsBetween]_vars
  BY StepperStep
<1>5. Spec => [](stepper.on => ran <= 1)
  BY <1>1, <1>2, <1>3, ScriptTyped, PTL DEF Spec
<1>6. Spec => [][StopsBetween]_vars
  BY <1>1, <1>2, <1>4, ScriptTyped, PTL DEF Spec
<1> QED
  BY <1>5, <1>6 DEF StepperExact, StopsBetween

-----------------------------------------------------------------------------
(* What is left when a command ends.                                       *)

\* A jump that is done has landed.
Landed == Running({"jumpAndRotate"}) /\ jar.jumpDone => path = 0

LEMMA JumpLands ==
  ASSUME jar.jumpDone => path = 0, NEW dt \in DeltaTimes
  PROVE  JumpAndRotate_Jump(dt).done => JumpAndRotate_Jump(dt).path = 0
<1>1. CASE jar.jumpDone
  BY <1>1 DEF JumpAndRotate_Jump
<1>2. CASE ~jar.jumpDone /\ ~jar.initializedJump
  BY <1>2 DEF JumpAndRotate_Jump
<1>3. CASE ~jar.jumpDone /\ jar.initializedJump
  <2>1. JumpAndRotate_Jump(dt) =
          [initialized |-> Remaining(dt) > 0, done |-> Remaining(dt) = 0,
           path |-> Remaining(dt)]
    BY <1>3 DEF JumpAndRotate_Jump
  <2>2. /\ JumpAndRotate_Jump(dt).done = (Remaining(dt) = 0)
        /\ JumpAndRotate_Jump(dt).path = Remaining(dt)
    BY <2>1
  <2> QED
    BY <2>2
<1> QED
  BY <1>1, <1>2, <1>3

LEMMA LandedStep ==
  ASSUME TypeOK, SInv, Landed, [Next]_vars
  PROVE  /\ Landed'
         /\ cmd # None /\ cmd' = None /\ cmd.op = "jumpAndRotate" /\ cmd.frames > 0
              => path' = 0
<1>1. CASE Frame
  <2>1. PICK dt \in DeltaTimes : Dispatch(dt)
    BY <1>1 DEF Frame
  <2>2. cmd \in Commands /\ cmd # None /\ cmd.frames \in Int
    BY <1>1, CommandType DEF Frame, TypeOK
  <2>3. cmd' = None \/ cmd' = cmd
    BY <2>1, ResultHandled DEF HandleCmdStepper
  <2>4. CASE cmd.op # "jumpAndRotate"
    BY <2>3, <2>4 DEF Landed, Running
  <2>5. CASE cmd.op = "jumpAndRotate"
    <3>1. JumpAndRotate(dt)
      BY <2>1, <2>5
         DEF Dispatch, EntityMove, GameObjectMove, SetCameraOffsetAngle,
             GameObjectRotate, GameObjectRotatePivot, LedgeJump
    <3>2. CASE TurnInstantly
      BY <2>2, <3>2 DEF TurnInstantly, HandleCmdStepper, Landed, Running
    <3>3. CASE Turn(dt)
      <4> DEFINE r == JumpAndRotate_Rotate(dt)
                 j == JumpAndRotate_Jump(dt)
                 finished == r.jar.rotDone /\ j.done
      <4>1. /\ j.done => j.path = 0
            /\ r.jar \in JarType
        BY <2>2, <2>5, <3>3, JumpLands, RotateTyped DEF Landed, Running, Turn
      <4>2. /\ jar' = [r.jar EXCEPT !.initializedJump = j.initialized,
                                    !.rotDone  = @ /\ ~finished,
                                    !.jumpDone = j.done /\ ~finished]
            /\ path' = j.path
            /\ HandleCmdStepper(finished)
        BY <3>3 DEF Turn
      <4> HIDE DEF r, j
      <4>3. jar'.jumpDone = (j.done /\ ~finished)
        BY <4>1, <4>2 DEF JarType
      <4>4. Landed'
        BY <4>1, <4>2, <4>3 DEF Landed
      <4>5. cmd' = None => path' = 0
        BY <2>2, <4>1, <4>2 DEF HandleCmdStepper
      <4> QED
        BY <4>4, <4>5
    <3> QED
      BY <3>1, <3>2, <3>3 DEF JumpAndRotate
  <2> QED
    BY <2>4, <2>5
<1>2. CASE Fetch
  <2>1. cmd = None /\ jar' = jar /\ ~jar.jumpDone
    BY <1>2 DEF Fetch, statics, SInv, Between, JarRest
  <2> QED
    BY <2>1 DEF Landed
<1>3. CASE \/ StepOver
           \/ \E on \in BOOLEAN : EnableDebugging(on)
           \/ ScriptEnds
           \/ UNCHANGED vars
  <2>1. UNCHANGED <<cmd, jar, path>>
    BY <1>3 DEF StepOver, EnableDebugging, ScriptEnds, vars, statics
  <2> QED
    BY <2>1 DEF Landed, Running
<1> QED
  BY <1>1, <1>2, <1>3 DEF Next

\* Whatever commands ran before it and however long its frames were, a command
\* that ends leaves no static variable set for the next use of any command, and
\* a turning jump ends only when the player has landed, if no rotation leaves
\* _timeWait to a later command and no instant turning jump asks for two
\* different angles (Clean).
THEOREM ScriptEndsAtRest == Clean /\ Spec => EndsAtRest
<1> SUFFICES ASSUME Clean PROVE Spec => EndsAtRest
  OBVIOUS
<1>1. Init => SInv /\ Landed
  BY InitStep DEF Init, Landed, Running
<1>2. TypeOK /\ TypeOK' /\ SInv /\ Landed /\ [Next]_vars => SInv' /\ Landed'
  BY ScriptStep, LandedStep
<1>3. SInv' /\ cmd' = None => AtRest'
  BY DEF SInv, Between, RotRest, PivotRest, JarRest, LedgeRest, AtRest
<1>4. TypeOK /\ TypeOK' /\ SInv /\ Landed /\ [Next]_vars
        => [cmd # None /\ cmd' = None =>
              /\ AtRest'
              /\ cmd.op = "jumpAndRotate" /\ cmd.frames > 0 => path' = 0]_vars
  BY <1>2, <1>3, LandedStep
<1> QED
  BY <1>1, <1>2, <1>4, ScriptTyped, PTL DEF Spec, EndsAtRest

-----------------------------------------------------------------------------
(* On its way.                                                             *)

\* m is a part of a displacement by n.
Within(m, n) == (0 <= m /\ m <= n) \/ (n <= m /\ m <= 0)

LEMMA ShareOfNat ==
  ASSUME NEW d \in Nat, NEW w \in Nat \ {0}, NEW p \in 0..w
  PROVE  (d * p) \div w \in 0..d
OBVIOUS

LEMMA ShareOfNegative ==
  ASSUME NEW d \in Nat, NEW w \in Nat \ {0}, NEW p \in 0..w
  PROVE  ((-d) * p) \div w \in (-d)..0
OBVIOUS

LEMMA ShareWithin ==
  ASSUME NEW d \in Int, NEW w \in Nat \ {0}, NEW p \in 0..w
  PROVE  Share(d, p, w) \in Int /\ Within(Share(d, p, w), d)
<1>1. CASE d \in Nat
  <2>1. (d * p) \div w \in 0..d
    BY <1>1, ShareOfNat
  <2> QED
    BY <1>1, <2>1 DEF Share, Within
<1>2. CASE d \notin Nat
  <2>1. -d \in Nat /\ -(-d) = d
    BY <1>2
  <2>2. ((-(-d)) * p) \div w \in (-(-d))..0
    BY <2>1, ShareOfNegative
  <2>3. (d * p) \div w \in d..0
    BY <2>1, <2>2
  <2> QED
    BY <2>3 DEF Share, Within
<1> QED
  BY <1>1, <1>2

LEMMA SignedWithin ==
  ASSUME cmd \in Commands, NEW n \in Nat, n <= Abs(cmd.delta)
  PROVE  Within(Signed(n), cmd.delta)
<1>1. cmd.delta \in Int
  BY CommandType
<1>2. CASE cmd.delta > 0
  BY <1>1, <1>2 DEF Signed, Abs, Within
<1>3. CASE ~(cmd.delta > 0)
  <2>1. Abs(cmd.delta) = -cmd.delta /\ Signed(n) = -n
    BY <1>1, <1>3 DEF Abs, Signed
  <2>2. -n \in Int /\ cmd.delta <= -n /\ -n <= 0
    BY <1>1, <2>1
  <2> QED
    BY <2>1, <2>2 DEF Within
<1> QED
  BY <1>2, <1>3

\* What a running command has added to a coordinate lies within its displacement.
OnWay(v, a) ==
  LET end == Steps!Displaced(place, cmd)[a]
  IN  (place[a] <= v[a] /\ v[a] <= end) \/ (end <= v[a] /\ v[a] <= place[a])

LEMMA WithinOnWay ==
  ASSUME TypeOK, cmd \in Commands, NEW a \in Axes, NEW v, NEW m \in Int,
         v[a] = place[a] + m,
         NEW n \in Int, Within(m, n), Steps!Displaced(place, cmd)[a] = place[a] + n
  PROVE  OnWay(v, a)
<1>1. place[a] \in Int
  BY DEF TypeOK
<1> QED
  BY <1>1 DEF OnWay, Within

\* What has not moved is on its way.
LEMMA SameOnWay ==
  ASSUME TypeOK, cmd \in Commands, NEW a \in Axes, NEW v, v[a] = place[a]
  PROVE  OnWay(v, a)
<1>1. place[a] \in Int /\ cmd.delta \in Int /\ cmd.camera \in Int
  BY CommandType DEF TypeOK
<1>2. Steps!Displaced(place, cmd)[a] \in Int
  BY <1>1 DEF Steps!Displaced, Axes
<1> QED
  BY <1>1, <1>2 DEF OnWay

LEMMA StillOnWay ==
  ASSUME TypeOK, cmd \in Commands, cmd' = None \/ (cmd' = cmd /\ place' = place),
         cmd' = cmd => \A a \in Axes : OnWay(value', a)
  PROVE  StaysOnWay'
BY DEF StaysOnWay, OnWay

LEMMA EndedOnWay == cmd' = None => StaysOnWay'
BY DEF StaysOnWay

\* The result of a command that is done.
LEMMA Ended == HandleCmdStepper(TRUE) => cmd' = None
BY DEF HandleCmdStepper

LEMMA MoveOnWay ==
  ASSUME TypeOK, SInv, cmd \in Commands, NEW dt \in DeltaTimes,
         cmd.op \in Steps!EasedOps, Move(dt)
  PROVE  StaysOnWay'
<1> DEFINE axis     == AxisOf[cmd.op]
           elapsed  == timeWait + dt
           finished == elapsed >= cmd.frames
<1>1. /\ axis \in Axes /\ axis \in Remembered
      /\ cmd.delta \in Int /\ cmd.frames \in Int /\ cmd # None
      /\ cmd.op \notin {"ledgeJump", "jumpAndRotate"}
      /\ elapsed \in Nat
  BY AxisType, CommandType, ScriptAssumption DEF Steps!EasedOps, TypeOK
<1>2. Same({axis}) /\ Captured(axis) = place[axis]
  BY <1>1 DEF SInv, Easing, Running, Captured
<1>3. CASE Instantly
  BY <1>3, EndedOnWay, Ended DEF Instantly
<1>4. CASE Ease(dt) /\ finished
  <2>1. HandleCmdStepper(TRUE)
    BY <1>4 DEF Ease, HandleCmdStepper
  <2> QED
    BY <2>1, EndedOnWay, Ended
<1>5. CASE Ease(dt) /\ ~finished
  <2>1. /\ value' = [value EXCEPT
                       ![axis] = place[axis] + Share(cmd.delta, elapsed, cmd.frames)]
        /\ cmd' = cmd /\ place' = place
    BY <1>2, <1>5 DEF Ease, HandleCmdStepper
  <2>2. cmd.frames \in Nat \ {0} /\ elapsed \in 0..cmd.frames
    BY <1>1, <1>5
  <2>3. ASSUME NEW a \in Axes PROVE OnWay(value', a)
    <3>1. CASE a # axis
      BY <1>1, <1>2, <2>1, <3>1, SameOnWay DEF Same, TypeOK
    <3>2. CASE a = axis
      <4> DEFINE m == Share(cmd.delta, elapsed, cmd.frames)
      <4>1. m \in Int /\ Within(m, cmd.delta)
        BY <1>1, <2>2, ShareWithin, Zenon
      <4> HIDE DEF m
      <4>2. value'[axis] = place[axis] + m
        BY <1>1, <2>1 DEF TypeOK, m
      <4>3. Steps!Displaced(place, cmd)[axis] = place[axis] + cmd.delta
        BY <1>1, DisplacedAt
      <4> QED
        BY <1>1, <3>2, <4>1, <4>2, <4>3, WithinOnWay
    <3> QED
      BY <3>1, <3>2
  <2> QED
    BY <2>1, <2>3, StillOnWay
<1> QED
  BY <1>3, <1>4, <1>5 DEF Move

LEMMA PivotOnWay ==
  ASSUME TypeOK, SInv, cmd \in Commands, NEW dt \in DeltaTimes,
         GameObjectRotatePivot(dt)
  PROVE  StaysOnWay'
<1>1. /\ cmd.op = "gameObjectRotatePivot" /\ AxisOf[cmd.op] = "orbit"
      /\ "orbit" \in Axes /\ cmd.delta \in Int /\ cmd # None
  BY CommandType
     DEF GameObjectRotatePivot, AxisOf, Axes, Steps!AxisOf, Steps!Axes, Steps!Ops
<1>2. /\ Same({"orbit"})
      /\ IF rotp.started
         THEN value["orbit"] = place["orbit"] + Signed(rotp.accumulated)
         ELSE timeWait = 0 /\ value["orbit"] = place["orbit"]
  BY <1>1 DEF SInv, Pivoting, Running
<1>3. CASE Instantly \/ PivotEnd(dt)
  BY <1>3, EndedOnWay, Ended DEF Instantly, PivotEnd
<1>4. CASE PivotStart
  <2>1. cmd' = cmd /\ place' = place /\ value' = value /\ ~rotp.started
    BY <1>4 DEF PivotStart, StartPivoting, HandleCmdStepper
  <2>2. \A a \in Axes : OnWay(value', a)
    BY <1>2, <2>1, SameOnWay DEF Same
  <2> QED
    BY <2>1, <2>2, StillOnWay
<1>5. CASE PivotStep(dt)
  <2> DEFINE n == rotp.accumulated + Added(dt)
  <2>1. cmd' = cmd /\ place' = place /\ rotp.started /\ Adds(rotp.accumulated, dt)
    BY <1>2, <1>5 DEF PivotStep, StartPivoting, HandleCmdStepper
  <2>2. /\ Added(dt) \in Nat /\ rotp.accumulated \in Nat /\ Abs(cmd.delta) \in Nat
        /\ Signed(Added(dt)) \in Int /\ Signed(rotp.accumulated) \in Int
        /\ Signed(rotp.accumulated) + Signed(Added(dt)) = Signed(n)
    BY <1>1, AbsNat, AddedNat, SignedSum DEF TypeOK
  <2>3. n \in Nat /\ n <= Abs(cmd.delta)
    BY <2>1, <2>2 DEF Adds
  <2>4. /\ \A a \in Axes \ {"orbit"} : value'[a] = value[a]
        /\ value'["orbit"] = value["orbit"] + Signed(Added(dt))
    BY <1>1, <1>5, <2>2, DisplaceTyped DEF PivotStep
  <2>5. Within(Signed(n), cmd.delta) /\ Signed(n) \in Int
    BY <2>3, SignedWithin, SignedSum
  <2>6. place["orbit"] \in Int
    BY <1>1 DEF TypeOK
  <2> HIDE DEF n
  <2>7. value'["orbit"] = place["orbit"] + Signed(n)
    BY <1>2, <2>1, <2>2, <2>4, <2>6
  <2>8. Steps!Displaced(place, cmd)["orbit"] = place["orbit"] + cmd.delta
    BY <1>1, DisplacedAt
  <2>9. OnWay(value', "orbit")
    BY <1>1, <2>5, <2>7, <2>8, WithinOnWay
  <2>10. \A a \in Axes \ {"orbit"} : OnWay(value', a)
    BY <1>2, <2>4, SameOnWay DEF Same
  <2> QED
    BY <2>1, <2>9, <2>10, StillOnWay
<1> QED
  BY <1>3, <1>4, <1>5 DEF GameObjectRotatePivot

LEMMA TurnOnWay ==
  ASSUME TypeOK, SInv, cmd \in Commands, NEW dt \in DeltaTimes, JumpAndRotate(dt)
  PROVE  StaysOnWay'
<1>1. /\ cmd.op = "jumpAndRotate" /\ cmd # None
      /\ cmd.frames \in Int /\ cmd.delta \in Int /\ cmd.camera \in Int
      /\ "orbit" \in Axes /\ "camera" \in Axes /\ "orbit" # "camera"
      /\ value \in [Axes -> Int] /\ place["orbit"] \in Int /\ place["camera"] \in Int
  BY CommandType DEF JumpAndRotate, Axes, Steps!Axes, TypeOK
<1>2. RotationAt(jar, value, timeWait)
  BY <1>1 DEF SInv, Turning, Running, RotationAt, Same
<1>3. /\ Steps!Displaced(place, cmd)["orbit"] = place["orbit"] + cmd.delta
      /\ Steps!Displaced(place, cmd)["camera"] = place["camera"] + cmd.camera
  BY <1>1, DisplacedAt
<1>4. CASE TurnInstantly
  BY <1>4, EndedOnWay, Ended DEF TurnInstantly
<1>5. CASE Turn(dt)
  <2> DEFINE r == JumpAndRotate_Rotate(dt)
             j == JumpAndRotate_Jump(dt)
             finished == r.jar.rotDone /\ j.done
  <2>1. cmd.frames > 0 /\ value' = r.value /\ HandleCmdStepper(finished)
    BY <1>5 DEF Turn
  <2>2. cmd' = None \/ (cmd' = cmd /\ place' = place)
    BY <2>1 DEF HandleCmdStepper
  <2>3. RotationAt(r.jar, r.value, r.timeWait) /\ r.jar \in JarType
    BY <1>2, <2>1, RotationStep, RotateTyped
  <2>12. \/ jar.rotDone /\ r = NoRotation
         \/ ~jar.rotDone /\ ~jar.started /\ timeWait = 0 /\ r.value = value
         \/ /\ ~jar.rotDone /\ (jar.started \/ timeWait # 0)
            /\ Adds(jar.accumulated, dt)
            /\ \E c \in Int :
                 /\ r.value = [value EXCEPT !["orbit"]  = @ + Signed(Added(dt)),
                                            !["camera"] = c]
                 /\ \E t \in 0..cmd.frames : c = jar.camera + Share(cmd.camera, t, cmd.frames)
         \/ ~jar.rotDone /\ r.jar = [jar EXCEPT !.started = FALSE, !.rotDone = TRUE]
    BY <2>1, RotateOutcome
  <2> HIDE DEF r, j
  <2>4. \A a \in Axes \ {"orbit", "camera"} : OnWay(r.value, a)
    BY <2>3, SameOnWay DEF RotationAt
  <2>5. ASSUME r.value["orbit"] = place["orbit"], r.value["camera"] = place["camera"]
        PROVE  \A a \in Axes : OnWay(r.value, a)
    BY <1>1, <2>4, <2>5, SameOnWay
  <2>6. ASSUME r.jar.rotDone
        PROVE  \A a \in Axes : OnWay(r.value, a)
    <3>1. /\ r.value["orbit"]  = place["orbit"] + cmd.delta
          /\ r.value["camera"] = place["camera"] + cmd.camera
      BY <2>3, <2>6 DEF RotationAt
    <3>2. Within(cmd.delta, cmd.delta) /\ Within(cmd.camera, cmd.camera)
      BY <1>1 DEF Within
    <3>3. OnWay(r.value, "orbit") /\ OnWay(r.value, "camera")
      BY <1>1, <1>3, <3>1, <3>2, WithinOnWay
    <3> QED
      BY <2>4, <3>3
  <2>7. ASSUME jar.rotDone /\ r = NoRotation
        PROVE  \A a \in Axes : OnWay(r.value, a)
    <3>1. r.jar.rotDone
      BY <2>7 DEF NoRotation
    <3> QED
      BY <2>6, <3>1
  <2>8. ASSUME ~jar.rotDone /\ ~jar.started /\ timeWait = 0 /\ r.value = value
        PROVE  \A a \in Axes : OnWay(r.value, a)
    BY <1>2, <2>5, <2>8 DEF RotationAt
  <2>9. ASSUME /\ ~jar.rotDone /\ (jar.started \/ timeWait # 0)
               /\ Adds(jar.accumulated, dt)
               /\ \E c \in Int :
                    /\ r.value = [value EXCEPT !["orbit"]  = @ + Signed(Added(dt)),
                                               !["camera"] = c]
                    /\ \E t \in 0..cmd.frames : c = jar.camera + Share(cmd.camera, t, cmd.frames)
        PROVE  \A a \in Axes : OnWay(r.value, a)
    <3> DEFINE n == jar.accumulated + Added(dt)
    <3>1. PICK t \in 0..cmd.frames :
            r.value = [value EXCEPT
                         !["orbit"]  = @ + Signed(Added(dt)),
                         !["camera"] = jar.camera + Share(cmd.camera, t, cmd.frames)]
      BY <2>9
    <3>2. jar.started /\ value["orbit"] = place["orbit"] + Signed(jar.accumulated)
                      /\ jar.camera = place["camera"]
      BY <1>2, <2>9 DEF RotationAt
    <3>3. /\ Added(dt) \in Nat /\ jar.accumulated \in Nat /\ Abs(cmd.delta) \in Nat
          /\ Signed(Added(dt)) \in Int /\ Signed(jar.accumulated) \in Int
          /\ Signed(jar.accumulated) + Signed(Added(dt)) = Signed(n)
      BY <1>1, AbsNat, AddedNat, SignedSum DEF TypeOK
    <3>4. n \in Nat /\ n <= Abs(cmd.delta)
      BY <2>9, <3>3 DEF Adds
    <3>5. Within(Signed(n), cmd.delta) /\ Signed(n) \in Int
      BY <3>4, SignedWithin, SignedSum
    <3>6. cmd.frames \in Nat \ {0}
      BY <1>1, <2>1
    <3> DEFINE m == Share(cmd.camera, t, cmd.frames)
    <3>7. m \in Int /\ Within(m, cmd.camera)
      BY <1>1, <3>6, ShareWithin, Zenon
    <3> HIDE DEF n, m
    <3>8. /\ r.value["orbit"] = value["orbit"] + Signed(Added(dt))
          /\ r.value["camera"] = place["camera"] + m
      BY <1>1, <3>1, <3>2 DEF m
    <3>9. r.value["orbit"] = place["orbit"] + Signed(n)
      BY <1>1, <3>2, <3>3, <3>8
    <3>10. OnWay(r.value, "orbit") /\ OnWay(r.value, "camera")
      BY <1>1, <1>3, <3>5, <3>7, <3>8, <3>9, WithinOnWay
    <3> QED
      BY <2>4, <3>10
  <2>10. ASSUME ~jar.rotDone, r.jar = [jar EXCEPT !.started = FALSE, !.rotDone = TRUE]
         PROVE  \A a \in Axes : OnWay(r.value, a)
    <3>1. r.jar.rotDone
      BY <2>10 DEF TypeOK
    <3> QED
      BY <2>6, <3>1
  <2>11. \A a \in Axes : OnWay(r.value, a)
    BY <2>7, <2>8, <2>9, <2>10, <2>12
  <2> QED
    BY <2>1, <2>2, <2>11, StillOnWay
<1> QED
  BY <1>4, <1>5 DEF JumpAndRotate

LEMMA WayStep ==
  ASSUME TypeOK, SInv, StaysOnWay, [Next]_vars
  PROVE  StaysOnWay'
<1>1. CASE Frame
  <2>1. PICK dt \in DeltaTimes : Dispatch(dt)
    BY <1>1 DEF Frame
  <2>2. cmd \in Commands /\ cmd # None
    BY <1>1 DEF Frame, TypeOK
  <2>3. CASE EntityMove(dt) \/ GameObjectMove(dt) \/ SetCameraOffsetAngle(dt)
    <3>1. cmd.op \in Steps!EasedOps /\ Move(dt)
      BY <2>3 DEF EntityMove, GameObjectMove, SetCameraOffsetAngle, Steps!EasedOps
    <3> QED
      BY <2>2, <3>1, MoveOnWay
  <2>4. CASE GameObjectRotate(dt)
    <3>1. cmd' = None \/ cmd' = cmd
      BY <2>1, ResultHandled DEF HandleCmdStepper
    <3> QED
      BY <2>4, <3>1 DEF GameObjectRotate, StaysOnWay
  <2>5. CASE LedgeJump(dt)
    <3>1. value' = value /\ Same({})
      BY <2>2, <2>5 DEF LedgeJump, LedgeLost, LedgeStart, LedgeStep, SInv, Jumping, Running
    <3>2. cmd' = None \/ (cmd' = cmd /\ place' = place)
      BY <2>1, ResultHandled DEF HandleCmdStepper
    <3>3. \A a \in Axes : OnWay(value', a)
      BY <2>2, <3>1, SameOnWay DEF Same
    <3> QED
      BY <2>2, <3>2, <3>3, StillOnWay
  <2> QED
    BY <2>1, <2>2, <2>3, <2>4, <2>5, PivotOnWay, TurnOnWay DEF Dispatch
<1>2. CASE Fetch
  <2>1. /\ cmd' \in Commands /\ place' = place /\ value' = value
        /\ \A a \in Axes : value[a] = place[a] /\ place[a] \in Int
    BY <1>2 DEF Fetch, SInv, Between, Same, TypeOK
  <2>2. ASSUME NEW a \in Axes PROVE Steps!Displaced(place, cmd')[a] \in Int
    <3>1. cmd'.delta \in Int /\ cmd'.camera \in Int
      BY <2>1, CommandType
    <3> QED
      BY <2>1, <3>1 DEF Steps!Displaced, Axes
  <2> QED
    BY <2>1, <2>2 DEF StaysOnWay
<1>3. CASE \/ StepOver
           \/ \E on \in BOOLEAN : EnableDebugging(on)
           \/ ScriptEnds
           \/ UNCHANGED vars
  <2>1. UNCHANGED <<cmd, value, place>>
    BY <1>3 DEF StepOver, EnableDebugging, ScriptEnds, vars
  <2> QED
    BY <2>1 DEF StaysOnWay
<1> QED
  BY <1>1, <1>2, <1>3 DEF Next

\* In the middle of a command nothing lies beyond the place where the command will
\* bring it, or on the other side of the one where it began, however long a frame
\* is; if no rotation leaves _timeWait to a later command and no instant turning
\* jump asks for two different angles (Clean).
THEOREM ScriptStaysOnWay == Clean /\ Spec => []StaysOnWay
<1> SUFFICES ASSUME Clean PROVE Spec => []StaysOnWay
  OBVIOUS
<1>1. Init => SInv /\ StaysOnWay
  BY InitStep DEF Init, StaysOnWay
<1>2. TypeOK /\ TypeOK' /\ SInv /\ StaysOnWay /\ [Next]_vars => SInv' /\ StaysOnWay'
  BY ScriptStep, WayStep
<1> QED
  BY <1>1, <1>2, ScriptTyped, PTL DEF Spec
=============================================================================
