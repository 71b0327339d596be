---------------------------- MODULE EncounterSlots ----------------------------
(***************************************************************************)
(* Wild encounters (encounter_slots.cpp): how the list of slots is built   *)
(* from the tables of the zone, stage by stage, in each of the ways an     *)
(* encounter begins.  The patches that a walk may enter are those of       *)
(* SwayGrass.                                                              *)
(*                                                                         *)
(* A slot names the entry of the table its Pokemon comes from; levels, the *)
(* rate, repels and the roll for one of the slots are left out: they may   *)
(* keep an encounter from happening, and do not change the list.           *)
(***************************************************************************)
EXTENDS SwayGrass

CONSTANTS
    Places,         \* where the player may be: the flags, tables and works that are read
    NoBattle

VARIABLE battle     \* the encounter that was returned last

encVars == <<at, ground, rank, threshold, swayPatchNo, drawn, grass_data, is_swaygrass_flag,
             result, battle>>

Tables  == {"ground_mons", "water_mons", "rod", "day", "night", "tairyo", "swayGrass", "gba"}
Entry   == [table : Tables \cup {"urayama", "safari", "feebas", "none"}, k : Nat]
Nobody  == [table |-> "none", k |-> 0]

Place ==
    [water : BOOLEAN, pair : BOOLEAN, safari : BOOLEAN, swarm : BOOLEAN, trophy : BOOLEAN,
     feebas : BOOLEAN, roamer : BOOLEAN, incense : BOOLEAN,
     period : {"Morning", "Day", "Night"}, len : [Tables -> Nat]]

ASSUME PlacesAssumption == \A p \in Places : p \in Place

-------------------------------------------------------------------------------
(***************************************************************************)
(* The stages.                                                             *)
(***************************************************************************)
ReplaceSlot(slots, n, new) == IF n \in DOMAIN slots THEN [slots EXCEPT ![n] = new] ELSE slots

\* The k-th entry of a table, if it has one.
FromTable(slots, n, p, table, k) ==
    IF p.len[table] > k THEN ReplaceSlot(slots, n, [table |-> table, k |-> k]) ELSE slots

BaseSlots(p, table, count) ==
    [n \in 0 .. count - 1 |-> IF n < p.len[table] THEN [table |-> table, k |-> n] ELSE Nobody]

SetTimeOfDaySlots(slots, p) ==
    CASE p.period = "Day"   -> FromTable(FromTable(slots, 2, p, "day", 0), 3, p, "day", 1)
      [] p.period = "Night" -> FromTable(FromTable(slots, 2, p, "night", 0), 3, p, "night", 1)
      [] OTHER              -> slots

SetSwarmSlots(slots, p) == IF p.swarm THEN FromTable(slots, 0, p, "tairyo", 0) ELSE slots

\* Two slots that become entries of a list kept elsewhere.
InSixAndSeven(slots, table, k) ==
    ReplaceSlot(ReplaceSlot(slots, 6, [table |-> table, k |-> 0]), 7, [table |-> table, k |-> k])

SetTrophyGardenSlots(slots, p) == IF p.trophy THEN InSixAndSeven(slots, "urayama", 1) ELSE slots

SetSafariSlots(slots, p) == IF p.safari THEN InSixAndSeven(slots, "safari", 0) ELSE slots

\* Mutant: what the incense displaces is not kept.
SetGBASlotsOver(slots, p) ==
    IF p.incense THEN FromTable(FromTable(slots, 4, p, "gba", 0), 5, p, "gba", 1) ELSE slots

SetGBASlots(slots, p) ==
    IF p.incense
    THEN LET bumped == ReplaceSlot(ReplaceSlot(slots, 10, slots[4]), 11, slots[5])
         IN  FromTable(FromTable(bumped, 4, p, "gba", 0), 5, p, "gba", 1)
    ELSE slots

SetWaterGBASlots(slots, p) == IF p.incense THEN FromTable(slots, 4, p, "gba", 2) ELSE slots

\* Mutant: the slot is kept after it has been replaced.
SetRadarSlotsLate(slots, p) ==
    LET new == FromTable(slots, 1, p, "swayGrass", 0) IN ReplaceSlot(new, 9, new[1])

SetRadarSlots(slots, p) == FromTable(ReplaceSlot(slots, 9, slots[1]), 1, p, "swayGrass", 0)

\* Mutant: the entry of the land.
SetWaterRadarSlotsOfLand(slots, p) == FromTable(slots, 1, p, "swayGrass", 0)

SetWaterRadarSlots(slots, p) == FromTable(slots, 1, p, "swayGrass", 2)

CheckFeebasTiles(slots, p) ==
    IF p.feebas THEN [n \in DOMAIN slots |-> [table |-> "feebas", k |-> 0]] ELSE slots

(***************************************************************************)
(* The lists; sway: in a patch of the radar.                               *)
(***************************************************************************)

\* What a walk and Sweet Scent share, with a partner or without.
SharedSlots(p) ==
    SetGBASlots(SetTrophyGardenSlots(SetSwarmSlots(SetTimeOfDaySlots(
        BaseSlots(p, "ground_mons", 12), p), p), p), p)

GroundSlots(p, sway) ==
    IF p.pair THEN SharedSlots(p)
    ELSE IF sway THEN SetRadarSlots(SetSafariSlots(SharedSlots(p), p), p)
    ELSE SetSafariSlots(SharedSlots(p), p)

WaterSlots(p, sway) ==
    LET slots == SetWaterGBASlots(BaseSlots(p, "water_mons", 12), p)
    IN  IF sway THEN SetWaterRadarSlots(slots, p) ELSE slots

FishingSlots(p) == CheckFeebasTiles(BaseSlots(p, "rod", 5), p)

(***************************************************************************)
(* The ways an encounter begins.                                           *)
(***************************************************************************)

\* SetEncounterType.
SetEncounterType(p, sway) ==
    CASE p.pair                        -> "Double"
      [] ~p.pair /\ p.roamer /\ ~sway  -> "MovePoke"
      [] OTHER                         -> IF p.safari THEN "Safari" ELSE "Single"

\* patch: the patch that was entered, or 0.
Returns(type, p, way, patch, slots) ==
    battle' = [type |-> type, place |-> p, way |-> way, patch |-> patch, slots |-> slots]

Meets(p, way, patch) ==
    LET sway == patch > 0
        type == SetEncounterType(p, sway)
    IN  Returns(type, p, way, patch,
            CASE type = "MovePoke"             -> <<>>
              [] type # "MovePoke" /\ p.water  -> WaterSlots(p, sway)
              [] OTHER                         -> GroundSlots(p, sway))

\* SwayGrass_CheckSpEncount.
Shakes(i) == is_swaygrass_flag /\ grass_data[i].enable

\* A step into the patch is a step on its tile.
EnterPatch(p, i) == p.water = (ground.material[grass_data[i].tile] = "WATER")

\* FieldEncountCheckEncounterSlots: a patch that shakes, or when the rate says so.
Walk ==
    /\ at = "field" /\ battle = NoBattle
    /\ \E p \in Places :
         \/ Meets(p, "walk", 0)
         \/ \E i \in Indices : Shakes(i) /\ EnterPatch(p, i) /\ Meets(p, "walk", i)
    /\ UNCHANGED swayVars

\* SetSweetEncountEncounterSlots.
SweetScent ==
    /\ at = "field" /\ battle = NoBattle
    /\ \E p \in Places : Meets(p, "sweet", 0)
    /\ UNCHANGED swayVars

\* SetFishingEncountEncounterSlots.
Fish ==
    /\ at = "field" /\ battle = NoBattle
    /\ \E p \in Places :
         Returns(IF p.safari THEN "Safari" ELSE "Single", p, "fish", 0, FishingSlots(p))
    /\ UNCHANGED swayVars

\* The battle; what becomes of the chain is the game's.
BattleEnds ==
    /\ battle # NoBattle
    /\ battle' = NoBattle
    /\ UNCHANGED swayVars

Radar == battle = NoBattle /\ SwayNext /\ UNCHANGED battle

EncInit == SwayInit /\ battle = NoBattle
EncNext == Radar \/ Walk \/ SweetScent \/ Fish \/ BattleEnds
EncSpec == EncInit /\ [][EncNext]_encVars

\* The loop of the lottery goes on: among the random tiles is sooner or later one
\* that has the rank, if there is one.
EncFairSpec == EncSpec /\ WF_encVars(battle = NoBattle /\ (DrawPatch \/ LotteryReturns) /\ UNCHANGED battle)

-------------------------------------------------------------------------------

\* The list without incense and radar.
PlainSlots(p) == GroundSlots([p EXCEPT !.incense = FALSE], FALSE)

Lists(slots, e) == \E n \in DOMAIN slots : slots[n] = e

OnGround == battle # NoBattle /\ battle.type # "MovePoke" /\ battle.way # "fish" /\ ~battle.place.water

\* Incense and radar add to the Pokemon of a zone, whatever swarm, time, garden
\* and safari have put into the list: of the nine likeliest slots nobody is
\* lost, and the ones that are added are listed unless a later stage says so.
NobodyDisplaced ==
    OnGround =>
      LET p == battle.place IN
      /\ \A n \in 0 .. 8 : Lists(battle.slots, PlainSlots(p)[n])
      /\ p.incense => \A k \in {0, 1} :
            p.len["gba"] > k => Lists(battle.slots, [table |-> "gba", k |-> k])

\* A patch gives what the radar was used for: its tile has the material of the
\* place (where the search found another tile than the player's), the list has
\* the radar's Pokemon of that material unless a partner is along, and no
\* encounter outside of a patch has one.
PatchPays ==
    battle # NoBattle =>
      LET p == battle.place
          sway == battle.patch > 0
          k == IF p.water THEN 2 ELSE 0
          InList(j) == Lists(battle.slots, [table |-> "swayGrass", k |-> j])
      IN  /\ sway /\ Others(ground) # {} => p.water = (ground.material[Centre] = "WATER")
          /\ \A j \in 0 .. 2 : InList(j) <=> sway /\ j = k /\ p.len["swayGrass"] > k
                                                  /\ (p.pair => p.water)
===============================================================================
