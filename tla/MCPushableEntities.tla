-------------------------- MODULE MCPushableEntities --------------------------
(***************************************************************************)
(* Small instances of PushableEntities for TLC.                            *)
(***************************************************************************)
EXTENDS PushableEntities, TLC

\* A rail over two blocks of four, and one across it; a stopper at the first
\* tile of the one and behind the last tile of the other.
Column == {<<1, y>> : y \in 0..4}
Row    == {<<x, 2>> : x \in 1..6}
TwoStoppers == {<<1, 0>>, <<6, 2>>}
TwoRails    == (Column \cup Row) \ TwoStoppers
OneObstacle == {<<2, 2>>}

\* Two bags, an object on the way of the first, tires behind both stoppers.
Objects == 0 :> "punchingBag" @@ 1 :> "tires" @@ 2 :> "contactable" @@
           3 :> "tires" @@ 4 :> "punchingBag"
Places  == 0 :> <<1, 4>> @@ 1 :> <<1, -1>> @@ 2 :> <<1, 2>> @@
           3 :> <<7, 2>> @@ 4 :> <<4, 2>>

Pad(menu, on, power, analog, along) ==
  [menu |-> menu, active |-> on, stickPower |-> power, analog |-> analog, along |-> along]
SomePads == { Pad(FALSE, TRUE, 1, TRUE, TRUE), Pad(FALSE, TRUE, 1, FALSE, TRUE) }
=============================================================================
