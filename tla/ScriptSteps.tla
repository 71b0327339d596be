------------------------------ MODULE ScriptSteps ------------------------------
(***************************************************************************)
(* What an event script relies on: its commands take effect one after the  *)
(* other, and each displaces what it names by exactly its argument, no     *)
(* matter how many frames of whatever length it took.  place is where      *)
(* things are between two commands.  ScriptCommands implements this.       *)
(***************************************************************************)
EXTENDS Integers

CONSTANTS
  Commands,  \* [op, delta, camera, frames]: what a script may consist of
  None       \* no command

EasedOps == {"gameObjectMove", "entityMove", "setCameraOffsetAngle"}
Ops == EasedOps \cup {"gameObjectRotate", "gameObjectRotatePivot",
                      "jumpAndRotate", "ledgeJump"}

\* The coordinate that a command displaces; "orbit" is the angle of an
\* object around a pivot.  A ledge jump moves along its own path.
Axes == {"object", "entity", "camera", "angle", "orbit"}
AxisOf == [op \in Ops \ {"ledgeJump"} |->
             CASE op = "gameObjectMove"       -> "object"
               [] op = "entityMove"           -> "entity"
               [] op = "setCameraOffsetAngle" -> "camera"
               [] op = "gameObjectRotate"     -> "angle"
               [] OTHER                       -> "orbit"]

VARIABLES cmd, place

Displaced(from, c) ==
  [a \in Axes |->
     from[a] + (IF c.op # "ledgeJump" /\ a = AxisOf[c.op] THEN c.delta ELSE 0)
             + (IF a = "camera" /\ c.op = "jumpAndRotate" THEN c.camera ELSE 0)]

Init == cmd = None /\ place = [a \in Axes |-> 0]

Fetch   == cmd = None /\ cmd' \in Commands /\ UNCHANGED place
Execute == cmd # None /\ cmd' = None /\ place' = Displaced(place, cmd)
Next    == Fetch \/ Execute

Spec == Init /\ [][Next]_<<cmd, place>>
=============================================================================
