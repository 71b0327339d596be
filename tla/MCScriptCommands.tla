--------------------------- MODULE MCScriptCommands ---------------------------
(***************************************************************************)
(* Small instances of ScriptCommands for TLC.                              *)
(***************************************************************************)
EXTENDS ScriptCommands

Command(op, delta, frames) ==
  [op |-> op, delta |-> delta, camera |-> 0, frames |-> frames]

Moves ==
  { Command("gameObjectMove", 3, 4), Command("gameObjectMove", -5, 2),
    Command("entityMove", 5, 3), Command("entityMove", 2, 0),
    Command("setCameraOffsetAngle", -3, 3), Command("ledgeJump", 0, 3),
    [op |-> "jumpAndRotate", delta |-> 5, camera |-> -4, frames |-> 5],
    [op |-> "jumpAndRotate", delta |-> -3, camera |-> 2, frames |-> 1],
    [op |-> "jumpAndRotate", delta |-> 2, camera |-> 2, frames |-> 0] }

Rotations ==
  { Command("gameObjectRotate", 5, 3), Command("gameObjectRotate", -4, 0),
    Command("gameObjectRotatePivot", 4, 2), Command("gameObjectRotatePivot", -6, 5) }

AllCommands == Moves \cup Rotations

InstantJump == { [op |-> "jumpAndRotate", delta |-> 5, camera |-> -4, frames |-> 0] }
               \cup Moves
=============================================================================
