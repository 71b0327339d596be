----------------------------- MODULE MCBattleTurn -----------------------------
(***************************************************************************)
(* Instances of BattleTurn: Pokemon that may leave or whose form changes   *)
(* (a1, a2) against two that pursue, carry and change abilities (b1, b2).  *)
(***************************************************************************)
EXTENDS BattleTurn

CONSTANTS a1, a2, b1, b2

MCPokes == {a1, a2, b1, b2}
MCTeam == [p \in MCPokes |-> IF p \in {a1, a2} THEN "A" ELSE "B"]
MCImmune == [p \in MCPokes |-> IF p = b2 THEN {"Sandstorm"} ELSE {}]

One(species, form, ability, level) ==
    [species |-> species, form |-> form, ability |-> ability, level |-> level,
     hensin |-> FALSE, zen |-> FALSE, hp |-> MaxHp, spot |-> NoSpot,
     sick |-> FALSE, sky |-> FALSE, freefall |-> FALSE, holds |-> NoPoke,
     rage |-> FALSE, atk |-> 0, mamoru |-> 0, protect |-> FALSE, last |-> "None"]

Other      == One("Other", 0, "None", 50)
Minior     == One("Minior", 2, "Shields Down", 50)
Cored      == One("Minior", 9, "Shields Down", 50)
Darmanitan == One("Darmanitan", 2, "Zen Mode", 50)
Wishiwashi == One("Wishiwashi", 0, "Schooling", 50)
Young      == One("Wishiwashi", 0, "Schooling", 19)
Aegislash  == One("Aegislash", 0, "Stance Change", 50)

\* a1, b1 and b2 on the field, a2 behind a1; or all four; or b2 behind b1.
Behind  == [p \in MCPokes |-> CASE p = a1 -> "A1" [] p = a2 -> NoSpot [] p = b1 -> "B1" [] p = b2 -> "B2"]
Doubles == [Behind EXCEPT ![a2] = "A2"]
Facing  == [Doubles EXCEPT ![b2] = NoSpot]

Move(w, t) == [cat |-> "Fight", waza |-> w, aim |-> t, encore |-> FALSE]
Do(c, t)   == [cat |-> c, waza |-> "None", aim |-> t, encore |-> FALSE]
Chase(t)   == {Move("Pursuit", t), [Move("Pursuit", t) EXCEPT !.encore = TRUE]}

Of(x1, x2, y1, y2) ==
    [p \in MCPokes |-> CASE p = a1 -> x1 [] p = a2 -> x2 [] p = b1 -> y1 [] p = b2 -> y2]

Battle(competitor, cant, cast, line, turns, options) ==
    [competitor |-> competitor, cantEscape |-> cant, cast |-> cast, line |-> line,
     turns |-> turns, options |-> options]

MCScenarios == [s \in {"pursuit", "doubles", "sky", "wild", "fixed", "seed", "weather", "partners"} |->
    CASE s = "pursuit" ->   \* two turns of leaving and pursuing
           Battle("TRAINER", FALSE, Of(Minior, Darmanitan, Other, Other), Behind, 2,
             Of({Do("PokeChange", a2), Move("U-turn", b1)}, {Do("PokeChange", a1), Move("Rage", b1)},
                Chase(a1), {Move("Pursuit", a1), Move("Thunder Wave", a1)}))
      [] s = "doubles" ->   \* two that pursue, perhaps aiming at one another, and one that leaves
           Battle("TRAINER", FALSE, Of(Darmanitan, Wishiwashi, Minior, Other), Facing, 1,
             Of({Move("Pursuit", b1), Move("Pursuit", a2)}, Chase(b1) \cup {Move("Rage", b1)},
                {Do("PokeChange", b2), Move("U-turn", a1)}, {Do("Cheer", NoPoke)}))
      [] s = "partners" ->  \* a Pursuit aimed at a partner that leaves
           Battle("TRAINER", FALSE, Of(Wishiwashi, Other, Cored, Darmanitan), Facing, 2,
             Of({Do("Cheer", NoPoke), Move("Pursuit", b1)}, {Move("U-turn", b1)},
                {Move("U-turn", a2), Move("Rage", a2)}, {Move("Pursuit", a2)}))
      [] s = "sky" ->       \* Sky Drop, and an escape the player is asked about
           Battle("COMM", FALSE, Of(Aegislash, Minior, Other, Other), Behind, 3,
             Of({Do("Escape", NoPoke), Move("U-turn", b1), Move("King's Shield", a1)}, {Move("U-turn", b2)},
                {Move("Sky Drop", a1), Move("Sky Drop", a2)}, {Move("Pursuit", a1), Move("Sky Drop", a1)}))
      [] s = "wild" ->
           Battle("WILD", FALSE, Of(Aegislash, Other, Other, Other), Behind, 2,
             Of({Do("Escape", NoPoke)}, {Move("Rage", b1)}, {Move("Sky Drop", a1), Move("Rage", a1)}, Chase(a1)))
      [] s = "fixed" ->     \* FLAG_CANT_ESCAPE
           Battle("WILD", TRUE, Of(Wishiwashi, Young, Other, Other), Behind, 3,
             Of({Do("Escape", NoPoke)}, {Move("Rage", b1)}, {Move("Rage", a1)}, {Move("Pursuit", a1)}))
      [] s = "seed" ->      \* abilities and forms
           Battle("TRAINER", FALSE, Of(Darmanitan, Minior, Other, Other), Doubles, 2,
             Of({Move("Rage", b1)}, {Move("Thunder Wave", b1)},
                {Move("Worry Seed", a2), Move("Transform", a1)}, {Move("Gastro Acid", a1)}))
      [] s = "weather" ->   \* weathers
           Battle("TRAINER", FALSE, Of(Minior, Wishiwashi, Other, Other), Behind, 3,
             Of({Move("Rage", b1)}, {Move("Rage", b1)},
                {Move("Sandstorm", NoPoke), Move("Transform", a1)}, {Move("Primordial Sea", NoPoke), Move("Sandstorm", NoPoke)}))]

MCWeatherMoves == [w \in {"Sandstorm", "Primordial Sea"} |->
    IF w = "Sandstorm" THEN [weather |-> "Sandstorm", turns |-> 2]
    ELSE [weather |-> "Heavy Rain", turns |-> Forever]]
===============================================================================
