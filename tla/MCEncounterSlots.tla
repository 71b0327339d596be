--------------------------- MODULE MCEncounterSlots ---------------------------
(***************************************************************************)
(* Instances of EncounterSlots: grounds on which the lottery of the radar  *)
(* has too few, just enough and more than enough tiles, and places for     *)
(* every stage of the lists.                                               *)
(***************************************************************************)
EXTENDS EncounterSlots

\* The given tiles have the material of the centre, all others another one;
\* the ray finds no ground above the holes.
Around(material, other, same, holes) ==
    [material |-> [t \in Tiles |-> IF t \in same \cup {Centre} THEN material ELSE other],
     floor |-> Tiles \ holes]

Mixed == {<<4, 1>>, <<2, -2>>, <<-3, 0>>, <<1, 1>>, <<0, -1>>}
Near  == {<<1, 0>>, <<0, 1>>, <<-1, -1>>, <<-1, 1>>}

RoomyGrounds ==
    { Around("GRASS", "INVALID", Mixed, {<<-3, 0>>}),
      Around("GRASS", "WATER", Near \cup {<<3, 3>>}, {<<1, 0>>}),
      Around("WATER", "GRASS", Near, Near),
      Around("WATER", "CAVE", {<<4, 4>>, <<-4, 0>>, <<1, 1>>, <<2, 2>>}, {}),
      Around("CAVE", "INVALID", {<<2, 0>>, <<0, -2>>, <<3, 1>>, <<1, 0>>, <<-3, -3>>}, {<<3, 1>>}) }

\* Two to four tiles with the one of the player; four others, one of them far.
TightGrounds ==
    { Around("GRASS", "INVALID", {<<2, 1>>}, {}),
      Around("CAVE", "INVALID", {<<1, 0>>, <<4, 0>>, <<0, 3>>}, {}),
      Around("GRASS", "CAVE", {<<4, 0>>, <<1, 0>>, <<0, 1>>, <<1, 1>>}, {}) }

MCGrounds ==
    RoomyGrounds \cup TightGrounds \cup
    { Around("GRASS", "WATER", {}, Tiles \ {<<1, 1>>, <<4, 2>>}), Around("INVALID", "GRASS", {}, {}) }

LonelyGrounds == {Around("GRASS", "WATER", {}, {})}

Rich == [t \in Tables |-> CASE t = "ground_mons" -> 12 [] t \in {"water_mons", "rod"} -> 5
                            [] t \in {"swayGrass", "gba"} -> 3 [] OTHER -> 2]
Poor == [t \in Tables |-> CASE t = "ground_mons" -> 10 [] t \in {"water_mons", "rod"} -> 2
                            [] t = "night" -> 0 [] OTHER -> 1]

Route == [water |-> FALSE, pair |-> FALSE, safari |-> FALSE, swarm |-> FALSE, trophy |-> FALSE,
          feebas |-> FALSE, roamer |-> FALSE, incense |-> FALSE, period |-> "Day", len |-> Rich]

Variants ==
    { Route, [Route EXCEPT !.swarm = TRUE, !.period = "Night"],
      [Route EXCEPT !.trophy = TRUE, !.period = "Morning"], [Route EXCEPT !.safari = TRUE, !.feebas = TRUE],
      [Route EXCEPT !.pair = TRUE], [Route EXCEPT !.pair = TRUE, !.swarm = TRUE, !.len = Poor],
      [Route EXCEPT !.roamer = TRUE], [Route EXCEPT !.len = Poor, !.period = "Night"],
      [Route EXCEPT !.water = TRUE], [Route EXCEPT !.water = TRUE, !.safari = TRUE, !.len = Poor],
      [Route EXCEPT !.water = TRUE, !.pair = TRUE], [Route EXCEPT !.water = TRUE, !.roamer = TRUE] }

MCPlaces == Variants \cup {[p EXCEPT !.incense = TRUE] : p \in Variants}
===============================================================================
