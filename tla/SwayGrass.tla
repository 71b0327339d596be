------------------------------ MODULE SwayGrass -------------------------------
(***************************************************************************)
(* The lottery of the Poke Radar, SwayGrass$$LotSwayGrass of               *)
(* encounter_slots.cpp: it looks at the square around the player for tiles *)
(* of the material under the player, and makes up to PatchCount of them    *)
(* shake, those far away first.                                            *)
(*                                                                         *)
(* What the game answers about a tile (its material, whether the ray from  *)
(* above finds ground) is a Ground; shiny and hidden patches, effects and  *)
(* sounds are left out.                                                    *)
(***************************************************************************)
EXTENDS Integers, FiniteSets

CONSTANTS
    Radius,         \* NUM_RINGS (4): the square has 2 * Radius + 1 tiles a side
    PatchCount,     \* the length of grass_data (4)
    Grounds         \* what may lie around the player

Offsets   == -Radius .. Radius
Tiles     == Offsets \X Offsets
Centre    == <<0, 0>>
Materials == {"GRASS", "WATER", "CAVE", "INVALID"}

ASSUME SwayAssumption ==
    /\ Radius \in Nat \ {0} /\ PatchCount \in Nat \ {0}
    /\ Grounds \subseteq [material : [Tiles -> Materials], floor : SUBSET Tiles]

VARIABLES
    at,             \* "field", or "draw": inside the loop over the patches
    ground,         \* around the place where the radar was used last
    rank,           \* of each tile: its ring, 0 if it does not count, -1 if drawn
    threshold,
    swayPatchNo,    \* how many patches to draw
    drawn,          \* i: patches drawn so far
    grass_data,     \* the patches
    is_swaygrass_flag,  \* and with it swayZone, ForceStop and _callSwayBGM
    result          \* of the last lottery

swayVars == <<at, ground, rank, threshold, swayPatchNo, drawn, grass_data, is_swaygrass_flag, result>>

Indices == 1 .. PatchCount
Patch   == [enable : BOOLEAN, tile : Tiles, rank : -1 .. Radius]
\* A patch that has been reset: enable is false, and nobody reads the rest.
Off     == [enable |-> FALSE, tile |-> Centre, rank |-> 0]

(***************************************************************************)
(* The search.                                                             *)
(***************************************************************************)
Abs(n) == IF n < 0 THEN -n ELSE n

\* Ring is mapped by Chebyshev distance; no ring is set for the centre.
Ring(t) == IF Abs(t[1]) > Abs(t[2]) THEN Abs(t[1]) ELSE Abs(t[2])

Matching(g) == {t \in Tiles : g.material[t] = g.material[Centre]}

\* Mutant: tiles of any material count.
RanksOfAll(g) == [t \in Tiles |-> Ring(t)]

Ranks(g)    == [t \in Tiles |-> IF t \in Matching(g) THEN Ring(t) ELSE 0]
Highest(r)  == CHOOSE n \in 0 .. Radius : (\E t \in Tiles : r[t] = n) /\ \A t \in Tiles : r[t] <= n

PatchesOf(candidates) == IF candidates >= PatchCount THEN PatchCount ELSE candidates

(***************************************************************************)
(* The lottery.                                                            *)
(***************************************************************************)

NoPatches == [i \in Indices |-> Off]

\* Mutant: the patches of the last lottery stay.
ResetNothing == grass_data

\* Reset Sway Slots.
Reset == NoPatches

\* The radar is used at a place: nothing changes where the material of the
\* centre is none of the three.
LotSwayGrass(g) ==
    /\ at = "field"
    /\ \/ /\ g.material[Centre] = "INVALID"
          /\ result' = "NO_GRASS"
          /\ UNCHANGED <<at, ground, rank, threshold, swayPatchNo, drawn, grass_data>>
       \/ /\ g.material[Centre] # "INVALID"
          /\ ground' = g
          /\ grass_data' = Reset
          /\ rank' = Ranks(g)
          /\ threshold' = Highest(Ranks(g))
          /\ swayPatchNo' = PatchesOf(Cardinality(Matching(g)))
          /\ drawn' = 0
          /\ at' = "draw"
          /\ UNCHANGED result
    /\ UNCHANGED is_swaygrass_flag

\* Mutant: a tile that has been drawn may be drawn again.
DrawnAgain(t) == rank

Drawn(t) == [rank EXCEPT ![t] = -1]

\* Mutant: the threshold stays.
SameThreshold == threshold

\* Mutant: the threshold sinks on.
SinkingThreshold == threshold - 2

NextThreshold == IF threshold - 2 < 2 THEN 1 ELSE threshold - 2

\* One turn of the loop: tiles are drawn until one has the rank, and none ever
\* has if there is none.
DrawPatch ==
    /\ at = "draw" /\ drawn < swayPatchNo
    /\ \E t \in Tiles :
         /\ rank[t] >= threshold
         /\ grass_data' = [grass_data EXCEPT ![drawn + 1] =
                [enable |-> t \in ground.floor, tile |-> t, rank |-> rank[t]]]
         /\ rank' = Drawn(t)
    /\ threshold' = NextThreshold
    /\ drawn' = drawn + 1
    /\ UNCHANGED <<at, ground, swayPatchNo, is_swaygrass_flag, result>>

\* False unless there was nothing to draw: the loop that follows only clears it.
AllDisabled == swayPatchNo < 1 /\ \A i \in Indices : ~grass_data[i].enable

LotteryReturns ==
    /\ at = "draw" /\ drawn = swayPatchNo
    /\ at' = "field"
    /\ result' = IF AllDisabled THEN "FAIL" ELSE "OK"
    /\ is_swaygrass_flag' = (is_swaygrass_flag \/ ~AllDisabled)
    /\ UNCHANGED <<ground, rank, threshold, swayPatchNo, drawn, grass_data>>

\* The game ends the radar: the player is far away or the chain is broken.
RadarEnds ==
    /\ at = "field" /\ is_swaygrass_flag
    /\ is_swaygrass_flag' = FALSE
    /\ grass_data' = NoPatches
    /\ UNCHANGED <<at, ground, rank, threshold, swayPatchNo, drawn, result>>

SwayInit ==
    /\ at = "field" /\ result = "NONE" /\ is_swaygrass_flag = FALSE
    /\ ground \in Grounds /\ rank = [t \in Tiles |-> 0]
    /\ threshold = 1 /\ swayPatchNo = 0 /\ drawn = 0
    /\ grass_data = NoPatches

SwayNext ==
    \/ \E g \in Grounds : LotSwayGrass(g)
    \/ DrawPatch
    \/ LotteryReturns
    \/ RadarEnds

SwaySpec == SwayInit /\ [][SwayNext]_swayVars

-------------------------------------------------------------------------------

\* Types of the lottery.
SwayTyped ==
    /\ at \in {"field", "draw"} /\ result \in {"NONE", "NO_GRASS", "FAIL", "OK"}
    /\ ground \in Grounds /\ rank \in [Tiles -> -1 .. Radius]
    /\ threshold \in 0 .. Radius /\ swayPatchNo \in 0 .. PatchCount /\ drawn \in 0 .. swayPatchNo
    /\ grass_data \in [Indices -> Patch] /\ is_swaygrass_flag \in BOOLEAN

Patches == {i \in Indices : grass_data[i] # Off}
Others(g) == Matching(g) \ {Centre}

\* How far out the i-th patch lies at least, if the farthest tile that matches is
\* in ring n: in its ring, then within two, and then anywhere but the centre.
LeastRing(n, i) == IF n - 2 * (i - 1) < 2 THEN (IF i = 1 THEN n ELSE 1) ELSE n - 2 * (i - 1)

\* Where the radar finds another tile than the player's, its patches lie on
\* different tiles of the same material, none of them under the player, the
\* first in the outermost ring there is and the others no more than two rings
\* further in each; patches that have not been drawn are those that were reset.
PatchesFit ==
    /\ \A i \in Patches : i <= drawn
    /\ Others(ground) # {} =>
         \A i \in Patches :
            LET p == grass_data[i] IN
            /\ p.tile \in Others(ground)
            /\ p.rank = Ring(p.tile)
            /\ p.enable = (p.tile \in ground.floor)
            /\ p.rank >= LeastRing(Highest(Ranks(ground)), i)
            /\ \A j \in Patches : grass_data[j].tile = p.tile => i = j

\* For each patch there are enough tiles so far out.
Enough(g) ==
    Others(g) # {} =>
      \A i \in 1 .. PatchesOf(Cardinality(Matching(g))) :
        Cardinality({t \in Others(g) : Ring(t) >= LeastRing(Highest(Ranks(g)), i)}) >= i

EndedWithEnough == at = "field" /\ drawn > 0 => Enough(ground)

\* The lottery comes to an end exactly where there are enough tiles for it: it
\* never misses one, and it goes on for ever where there is none.
LotteryEnds ==
    /\ (at = "draw" /\ Enough(ground)) ~> at = "field"
    /\ []EndedWithEnough

\* encounter_slots.cpp:1203, "Compare against center tile, ignore if it doesn't
\* match": a tile of another material never shakes.
OnlyMatching == \A i \in Patches : grass_data[i].tile \in Matching(ground)
===============================================================================
