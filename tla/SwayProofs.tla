----------------------------- MODULE SwayProofs ------------------------------
(***************************************************************************)
(* Proofs about SwayGrass, for every size of the square, every number of   *)
(* patches and every ground: types, where the patches lie, and exactly     *)
(* when the lottery of the radar can go on; and about EncounterSlots: what *)
(* the stages keep of the list, and what a patch gives, for every place.   *)
(***************************************************************************)
EXTENDS EncounterSlots, TLAPS, FiniteSetTheorems, WellFoundedInduction

-------------------------------------------------------------------------------
(***************************************************************************)
(* The square and its rings.                                               *)
(***************************************************************************)

\* The square is finite, the centre lies in ring 0, and no ring in more than
\* Radius.
LEMMA SquareFacts ==
    /\ Radius \in Nat /\ Radius >= 1 /\ PatchCount \in Nat /\ PatchCount >= 1
    /\ Centre \in Tiles /\ IsFiniteSet(Tiles)
    /\ \A t \in Tiles : Ring(t) \in 0 .. Radius
    /\ Ring(Centre) = 0
    /\ \A t \in Tiles : Ring(t) = 0 => t = Centre
PROOF
  <1>1. Radius \in Nat /\ Radius >= 1 /\ PatchCount \in Nat /\ PatchCount >= 1
    BY SwayAssumption
  <1>2. Centre \in Tiles
    BY <1>1 DEF Centre, Tiles, Offsets
  <1>3. IsFiniteSet(Tiles)
    <2>1. IsFiniteSet(Offsets)
      BY <1>1, FS_Interval DEF Offsets
    <2> QED
      BY <2>1, FS_Product DEF Tiles
  <1>4. ASSUME NEW t \in Tiles
        PROVE  Ring(t) \in 0 .. Radius /\ (Ring(t) = 0 => t = Centre)
    <2>1. PICK x \in Offsets, y \in Offsets : t = <<x, y>>
      BY DEF Tiles
    <2>2. t[1] = x /\ t[2] = y
      BY <2>1
    <2>3. x \in Int /\ y \in Int /\ -Radius <= x /\ x <= Radius /\ -Radius <= y /\ y <= Radius
      BY <1>1 DEF Offsets
    <2>4. /\ Abs(x) \in 0 .. Radius /\ Abs(y) \in 0 .. Radius
          /\ Abs(x) = 0 => x = 0
          /\ Abs(y) = 0 => y = 0
      BY <1>1, <2>3 DEF Abs
    <2>5. Ring(t) = IF Abs(x) > Abs(y) THEN Abs(x) ELSE Abs(y)
      BY <2>2 DEF Ring
    <2>6. Ring(t) = 0 => x = 0 /\ y = 0
      BY <2>4, <2>5
    <2> QED
      BY <2>1, <2>4, <2>5, <2>6 DEF Centre
  <1>5. Ring(Centre) = 0
    BY DEF Ring, Centre, Abs
  <1> QED
    BY <1>1, <1>2, <1>3, <1>4, <1>5

\* The highest rank is one that a tile has, and no tile has a higher one.
LEMMA HighestFound ==
    ASSUME NEW r \in [Tiles -> 0 .. Radius]
    PROVE  /\ Highest(r) \in 0 .. Radius
           /\ \E t \in Tiles : r[t] = Highest(r)
           /\ \A t \in Tiles : r[t] <= Highest(r)
PROOF
  <1> DEFINE Gaps == {n \in Nat : \E t \in Tiles : n = Radius - r[t]}
  <1>1. Radius \in Nat /\ Centre \in Tiles
    BY SquareFacts
  <1>2. Radius - r[Centre] \in Gaps
    BY <1>1
  <1>3. PICK m \in Gaps : \A n \in Gaps : m <= n
    <2> DEFINE Less == OpToRel(<, Nat)
    <2>1. \E m \in Gaps : \A n \in Gaps : <<n, m>> \notin Less
      <3>1. IsWellFoundedOn(Less, Nat)
        BY NatLessThanWellFounded
      <3>2. Gaps \subseteq Nat /\ Gaps # {}
        BY <1>2
      <3> HIDE DEF Gaps, Less
      <3> QED
        BY <3>1, <3>2, WFMin
    <2>2. ASSUME NEW m \in Nat, NEW n \in Nat, <<n, m>> \notin Less PROVE m <= n
      BY <2>2 DEF OpToRel
    <2> QED
      BY <2>1, <2>2
  <1>4. PICK u \in Tiles : m = Radius - r[u]
    BY <1>3
  <1>5. ASSUME NEW t \in Tiles PROVE r[t] <= r[u]
    <2>1. Radius - r[t] \in Gaps
      BY <1>1
    <2>2. m <= Radius - r[t]
      BY <1>3, <2>1
    <2> QED
      BY <1>1, <1>4, <2>2
  <1>6. r[u] \in 0 .. Radius
    OBVIOUS
  <1>7. \E n \in 0 .. Radius : (\E t \in Tiles : r[t] = n) /\ \A t \in Tiles : r[t] <= n
    BY <1>4, <1>5, <1>6
  <1> QED
    BY <1>7 DEF Highest

-------------------------------------------------------------------------------
(***************************************************************************)
(* What the search finds.                                                  *)
(***************************************************************************)
HighestRing(g) == Highest(Ranks(g))

\* The tiles that match and lie so far out.
Far(g, n) == {t \in Others(g) : Ring(t) >= n}

LEMMA SearchFinds ==
    ASSUME NEW g \in Grounds
    PROVE  /\ Ranks(g) \in [Tiles -> 0 .. Radius]
           /\ \A t \in Tiles : Ranks(g)[t] >= 1 => t \in Others(g)
           /\ \A t \in Others(g) : t \in Tiles /\ Ranks(g)[t] = Ring(t) /\ Ring(t) >= 1
           /\ HighestRing(g) \in 0 .. Radius
           /\ Others(g) # {} => HighestRing(g) >= 1
           /\ Others(g) = {} => HighestRing(g) = 0
PROOF
  <1>1. Ranks(g) \in [Tiles -> 0 .. Radius]
    BY SquareFacts DEF Ranks
  <1>2. ASSUME NEW t \in Tiles, Ranks(g)[t] >= 1 PROVE t \in Others(g)
    BY <1>2, SquareFacts DEF Ranks, Others
  <1>3. ASSUME NEW t \in Others(g) PROVE t \in Tiles /\ Ranks(g)[t] = Ring(t) /\ Ring(t) >= 1
    <2>1. t \in Tiles /\ t \in Matching(g) /\ t # Centre
      BY DEF Others, Matching
    <2>2. Ring(t) \in 0 .. Radius /\ Ring(t) # 0
      BY <2>1, SquareFacts
    <2> QED
      BY <2>1, <2>2, SquareFacts DEF Ranks
  <1>4. /\ HighestRing(g) \in 0 .. Radius
        /\ \E t \in Tiles : Ranks(g)[t] = HighestRing(g)
        /\ \A t \in Tiles : Ranks(g)[t] <= HighestRing(g)
    BY <1>1, HighestFound DEF HighestRing
  <1>5. Others(g) # {} => HighestRing(g) >= 1
    <2>1. ASSUME NEW t \in Others(g) PROVE HighestRing(g) >= 1
      <3>1. t \in Tiles /\ Ranks(g)[t] >= 1
        BY <1>3, SquareFacts
      <3>2. Ranks(g)[t] <= HighestRing(g) /\ Ranks(g)[t] \in Int /\ HighestRing(g) \in Int
        BY <1>1, <1>4, <3>1
      <3> QED
        BY <3>1, <3>2
    <2> QED
      BY <2>1
  <1>6. Others(g) = {} => HighestRing(g) = 0
    <2>1. HighestRing(g) # 0 => \E t \in Tiles : Ranks(g)[t] >= 1
      BY <1>4, SquareFacts
    <2> QED
      BY <1>2, <2>1
  <1> QED
    BY <1>1, <1>2, <1>3, <1>4, <1>5, <1>6

\* The tile of the player always matches; with no other there is one patch.
LEMMA PatchesFound ==
    ASSUME NEW g \in Grounds
    PROVE  /\ PatchesOf(Cardinality(Matching(g))) \in 1 .. PatchCount
           /\ Others(g) = {} => PatchesOf(Cardinality(Matching(g))) = 1
PROOF
  <1>1. Centre \in Matching(g) /\ Matching(g) \in SUBSET Tiles
    BY SquareFacts DEF Matching
  <1>2. IsFiniteSet(Matching(g))
    BY <1>1, SquareFacts, FS_Subset
  <1>3. Cardinality(Matching(g)) \in Nat /\ Cardinality(Matching(g)) # 0
    BY <1>1, <1>2, FS_CardinalityType, FS_EmptySet
  <1>4. Others(g) = {} => Cardinality(Matching(g)) = 1
    <2>1. Others(g) = {} => Matching(g) = {Centre}
      BY <1>1 DEF Others
    <2> QED
      BY <2>1, FS_Singleton
  <1> DEFINE c == Cardinality(Matching(g))
  <1>5. c \in Nat /\ c >= 1 /\ (Others(g) = {} => c = 1)
    BY <1>3, <1>4
  <1> HIDE DEF c
  <1>6. PatchesOf(c) \in 1 .. PatchCount /\ (c = 1 => PatchesOf(c) = 1)
    BY <1>5, SquareFacts DEF PatchesOf
  <1> QED
    BY <1>5, <1>6 DEF c

\* The threshold of each draw follows from the one before.
LEMMA LeastRingSinks ==
    ASSUME NEW n \in 0 .. Radius, NEW i \in Nat, i >= 1
    PROVE  /\ LeastRing(n, 1) = n
           /\ LeastRing(n, i) \in 0 .. Radius
           /\ LeastRing(n, i + 1) =
                IF LeastRing(n, i) - 2 < 2 THEN 1 ELSE LeastRing(n, i) - 2
           /\ n >= 1 => LeastRing(n, i) >= 1 /\ LeastRing(n, i + 1) <= LeastRing(n, i)
PROOF
  <1>1. Radius \in Nat /\ Radius >= 1 /\ n \in Nat /\ n <= Radius
    BY SquareFacts
  <1>2. LeastRing(n, 1) = n
    BY <1>1 DEF LeastRing
  <1>3. LeastRing(n, i) \in 0 .. Radius
    BY <1>1 DEF LeastRing
  <1>4. LeastRing(n, i + 1) = IF LeastRing(n, i) - 2 < 2 THEN 1 ELSE LeastRing(n, i) - 2
    BY <1>1 DEF LeastRing
  <1>5. n >= 1 => LeastRing(n, i) >= 1 /\ LeastRing(n, i + 1) <= LeastRing(n, i)
    BY <1>1 DEF LeastRing
  <1> QED
    BY <1>2, <1>3, <1>4, <1>5

\* Tiles are finitely many, so sets of them can be counted.
LEMMA Countable ==
    ASSUME NEW S \in SUBSET Tiles
    PROVE  /\ IsFiniteSet(S) /\ Cardinality(S) \in Nat
           /\ \A T \in SUBSET S : Cardinality(T) <= Cardinality(S)
PROOF
  <1>1. IsFiniteSet(S)
    BY SquareFacts, FS_Subset
  <1>2. ASSUME NEW T \in SUBSET S PROVE Cardinality(T) <= Cardinality(S)
    BY <1>1, FS_Subset
  <1> QED
    BY <1>1, <1>2, FS_CardinalityType

-------------------------------------------------------------------------------
(***************************************************************************)
(* The inductive invariant: the rank of a tile is the one the search gave  *)
(* it, or -1 if it has been drawn; as many as were drawn have -1, all of   *)
(* them at least as far out as the threshold, which is the one of the      *)
(* draw.  What is known about the ground is kept when the patches are not. *)
(***************************************************************************)
Gone == {t \in Tiles : rank[t] = -1}

\* For the patches drawn so far there were enough tiles.
EnoughDrawn ==
    Others(ground) # {} =>
      \A i \in 1 .. drawn : Cardinality(Far(ground, LeastRing(HighestRing(ground), i))) >= i

Drawing ==
    /\ threshold = LeastRing(HighestRing(ground), drawn + 1)
    /\ \A t \in Tiles : rank[t] = -1 \/ rank[t] = Ranks(ground)[t]
    /\ Cardinality(Gone) = drawn
    /\ Others(ground) # {} =>
         /\ Gone \subseteq Far(ground, threshold)
         /\ \A i \in Patches : rank[grass_data[i].tile] = -1

SwayInv ==
    /\ SwayTyped
    /\ PatchesFit
    /\ EnoughDrawn
    /\ (at = "draw" \/ drawn > 0) => swayPatchNo = PatchesOf(Cardinality(Matching(ground)))
    /\ at = "field" => drawn = swayPatchNo
    /\ at = "draw" => Drawing

LEMMA NoPatchesFit ==
    /\ NoPatches \in [Indices -> Patch]
    /\ \A i \in Indices : NoPatches[i] = Off
BY SquareFacts DEF NoPatches, Patch, Off

LEMMA InitInv == SwayInit => SwayInv
PROOF
  <1> SUFFICES ASSUME SwayInit PROVE SwayInv
    OBVIOUS
  <1>1. SwayTyped
    <2>1. 0 \in -1 .. Radius /\ 1 \in 0 .. Radius /\ 0 \in 0 .. PatchCount /\ 0 \in 0 .. 0
      BY SquareFacts
    <2>2. rank \in [Tiles -> -1 .. Radius]
      BY <2>1 DEF SwayInit
    <2>3. /\ threshold \in 0 .. Radius /\ swayPatchNo \in 0 .. PatchCount
          /\ drawn \in 0 .. swayPatchNo
      BY <2>1 DEF SwayInit
    <2> QED
      BY <2>2, <2>3, NoPatchesFit DEF SwayInit, SwayTyped
  <1>2. PatchesFit
    BY NoPatchesFit DEF SwayInit, PatchesFit, Patches
  <1> QED
    BY <1>1, <1>2 DEF SwayInit, SwayInv, EnoughDrawn

LEMMA LotteryBegins ==
    ASSUME SwayInv, NEW g \in Grounds, LotSwayGrass(g)
    PROVE  SwayInv'
PROOF
  <1>1. CASE g.material[Centre] = "INVALID"
    <2>1. /\ UNCHANGED <<at, ground, rank, threshold, swayPatchNo, drawn, grass_data, is_swaygrass_flag>>
          /\ result' = "NO_GRASS"
      BY <1>1 DEF LotSwayGrass
    <2> QED
      BY <2>1 DEF SwayInv, SwayTyped, PatchesFit, Patches, EnoughDrawn, Drawing, Gone
  <1>2. CASE g.material[Centre] # "INVALID"
    <2>1. /\ ground' = g /\ grass_data' = NoPatches /\ rank' = Ranks(g)
          /\ threshold' = HighestRing(g)
          /\ swayPatchNo' = PatchesOf(Cardinality(Matching(g)))
          /\ drawn' = 0 /\ at' = "draw"
          /\ UNCHANGED <<result, is_swaygrass_flag>>
      BY <1>2 DEF LotSwayGrass, Reset, HighestRing
    <2>2. /\ Ranks(g) \in [Tiles -> 0 .. Radius]
          /\ HighestRing(g) \in 0 .. Radius
          /\ swayPatchNo' \in 1 .. PatchCount
      BY <2>1, SearchFinds, PatchesFound
    <2>3. Ranks(g) \in [Tiles -> -1 .. Radius] /\ \A t \in Tiles : Ranks(g)[t] # -1
      BY <2>2, SquareFacts
    <2>4. SwayTyped'
      BY <2>1, <2>2, <2>3, SquareFacts, NoPatchesFit DEF SwayInv, SwayTyped
    <2>5. Patches' = {}
      BY <2>1, NoPatchesFit DEF Patches
    <2>6. PatchesFit'
      BY <2>5 DEF PatchesFit
    <2>7. EnoughDrawn'
      BY <2>1 DEF EnoughDrawn
    <2>8. Gone' = {}
      BY <2>1, <2>3 DEF Gone
    <2>9. LeastRing(HighestRing(g), 1) = HighestRing(g)
      BY <2>2, LeastRingSinks
    <2>10. Drawing'
      BY <2>1, <2>5, <2>8, <2>9, FS_EmptySet DEF Drawing
    <2> QED
      BY <2>1, <2>4, <2>6, <2>7, <2>10 DEF SwayInv
  <1> QED
    BY <1>1, <1>2

\* A tile with the rank is one that has not been drawn.
LEMMA DrawnAnew ==
    ASSUME SwayInv, at = "draw", drawn < swayPatchNo, NEW t \in Tiles, rank[t] >= threshold
    PROVE  /\ rank[t] # -1 /\ rank[t] = Ranks(ground)[t]
           /\ drawn + 1 \in Indices
           /\ Others(ground) # {} => t \in Far(ground, threshold) /\ threshold >= 1
PROOF
  <1>1. /\ ground \in Grounds /\ threshold \in 0 .. Radius /\ rank \in [Tiles -> -1 .. Radius]
        /\ swayPatchNo \in 0 .. PatchCount /\ drawn \in 0 .. swayPatchNo
    BY DEF SwayInv, SwayTyped
  <1>2. rank[t] # -1
    BY <1>1, SquareFacts
  <1>3. rank[t] = Ranks(ground)[t] /\ threshold = LeastRing(HighestRing(ground), drawn + 1)
    BY <1>2 DEF SwayInv, Drawing
  <1>4. drawn + 1 \in Indices
    BY <1>1, SquareFacts DEF Indices
  <1>5. ASSUME Others(ground) # {} PROVE t \in Far(ground, threshold) /\ threshold >= 1
    <2>1. HighestRing(ground) \in 0 .. Radius /\ HighestRing(ground) >= 1
      BY <1>1, <1>5, SearchFinds
    <2>2. drawn + 1 \in Nat /\ drawn + 1 >= 1
      BY <1>1, SquareFacts
    <2>3. threshold >= 1
      BY <1>3, <2>1, <2>2, LeastRingSinks
    <2>4. rank[t] >= 1
      BY <1>1, <2>3, SquareFacts
    <2>5. t \in Others(ground) /\ Ranks(ground)[t] = Ring(t)
      BY <1>1, <1>3, <2>4, SearchFinds
    <2> QED
      BY <1>3, <2>3, <2>5 DEF Far
  <1> QED
    BY <1>2, <1>3, <1>4, <1>5

\* One draw: the rank of the tile becomes -1, and the next threshold is that of
\* the next draw.
LEMMA DrawKeepsDrawing ==
    ASSUME SwayInv, DrawPatch
    PROVE  (EnoughDrawn /\ Drawing)'
PROOF
  <1>1. at = "draw" /\ drawn < swayPatchNo /\ drawn' = drawn + 1 /\ ground' = ground
    BY DEF DrawPatch
  <1>2. PICK t \in Tiles :
          /\ rank[t] >= threshold
          /\ grass_data' = [grass_data EXCEPT ![drawn + 1] =
                [enable |-> t \in ground.floor, tile |-> t, rank |-> rank[t]]]
          /\ rank' = Drawn(t)
    BY DEF DrawPatch
  <1>3. /\ ground \in Grounds /\ threshold \in 0 .. Radius /\ rank \in [Tiles -> -1 .. Radius]
        /\ grass_data \in [Indices -> Patch] /\ drawn \in Nat
    BY SquareFacts DEF SwayInv, SwayTyped
  <1>4. /\ threshold = LeastRing(HighestRing(ground), drawn + 1)
        /\ \A u \in Tiles : rank[u] = -1 \/ rank[u] = Ranks(ground)[u]
        /\ Cardinality(Gone) = drawn
        /\ Others(ground) # {} =>
             /\ Gone \subseteq Far(ground, threshold)
             /\ \A i \in Patches : rank[grass_data[i].tile] = -1
    BY <1>1 DEF SwayInv, Drawing
  <1>5. /\ rank[t] # -1 /\ rank[t] = Ranks(ground)[t] /\ drawn + 1 \in Indices
        /\ Others(ground) # {} => t \in Far(ground, threshold) /\ threshold >= 1
    BY <1>1, <1>2, DrawnAnew
  <1>6. rank' = [rank EXCEPT ![t] = -1]
    BY <1>2 DEF Drawn
  <1>7. HighestRing(ground) \in 0 .. Radius /\ (Others(ground) # {} => HighestRing(ground) >= 1)
    BY <1>3, SearchFinds
  <1>8. Gone' = Gone \cup {t} /\ t \notin Gone /\ Gone \in SUBSET Tiles
    BY <1>3, <1>5, <1>6 DEF Gone
  <1>9. Cardinality(Gone') = drawn + 1
    <2>1. IsFiniteSet(Gone)
      BY <1>8, Countable
    <2> QED
      BY <1>4, <1>8, <2>1, FS_AddElement
  <1>10. ASSUME Others(ground) # {}
         PROVE  Gone' \subseteq Far(ground, threshold)
    BY <1>4, <1>5, <1>8, <1>10
  <1>11. EnoughDrawn'
    <2>1. ASSUME Others(ground) # {}, NEW i \in 1 .. drawn + 1
          PROVE  Cardinality(Far(ground, LeastRing(HighestRing(ground), i))) >= i
      <3>1. CASE i = drawn + 1
        <4>1. Far(ground, threshold) \in SUBSET Tiles
          BY DEF Far, Others, Matching
        <4>2. Cardinality(Gone') <= Cardinality(Far(ground, threshold))
          BY <1>10, <2>1, <4>1, Countable
        <4>3. Cardinality(Far(ground, threshold)) \in Nat
          BY <4>1, Countable
        <4> QED
          BY <1>3, <1>4, <1>9, <3>1, <4>2, <4>3
      <3>2. CASE i # drawn + 1
        <4>1. i \in 1 .. drawn
          BY <1>3, <3>2
        <4> QED
          BY <2>1, <4>1 DEF SwayInv, EnoughDrawn
      <3> QED
        BY <3>1, <3>2
    <2> QED
      BY <1>1, <2>1 DEF EnoughDrawn
  <1>12. /\ threshold' = LeastRing(HighestRing(ground), drawn + 2)
         /\ HighestRing(ground) >= 1 => threshold' <= threshold /\ threshold' \in Int
    <2>1. drawn + 1 \in Nat /\ drawn + 1 >= 1 /\ (drawn + 1) + 1 = drawn + 2
      BY <1>3
    <2>2. /\ LeastRing(HighestRing(ground), drawn + 2) =
                IF threshold - 2 < 2 THEN 1 ELSE threshold - 2
          /\ HighestRing(ground) >= 1 =>
                LeastRing(HighestRing(ground), drawn + 2) <= threshold
      <3>1. /\ LeastRing(HighestRing(ground), (drawn + 1) + 1) =
                  IF LeastRing(HighestRing(ground), drawn + 1) - 2 < 2 THEN 1
                  ELSE LeastRing(HighestRing(ground), drawn + 1) - 2
            /\ HighestRing(ground) >= 1 =>
                  LeastRing(HighestRing(ground), (drawn + 1) + 1)
                    <= LeastRing(HighestRing(ground), drawn + 1)
        BY <1>7, <2>1, LeastRingSinks
      <3> QED
        BY <1>4, <2>1, <3>1, Zenon
    <2>3. threshold' = IF threshold - 2 < 2 THEN 1 ELSE threshold - 2
      BY DEF DrawPatch, NextThreshold
    <2> QED
      BY <1>3, <2>2, <2>3, SquareFacts
  <1>13. ASSUME Others(ground) # {}
         PROVE  Gone' \subseteq Far(ground, threshold')
    <2>1. threshold' <= threshold /\ threshold' \in Int /\ threshold \in Int
      BY <1>3, <1>7, <1>12, <1>13, SquareFacts
    <2>2. \A u \in Others(ground) : Ring(u) \in Int
      BY SquareFacts DEF Others, Matching
    <2>3. Far(ground, threshold) \subseteq Far(ground, threshold')
      BY <2>1, <2>2 DEF Far
    <2> QED
      BY <1>10, <1>13, <2>3
  <1>14. \A u \in Tiles : rank'[u] = -1 \/ rank'[u] = Ranks(ground)[u]
    BY <1>3, <1>4, <1>6
  <1>15. ASSUME Others(ground) # {}, NEW i \in Patches'
         PROVE  rank'[grass_data'[i].tile] = -1
    <2>1. i \in Indices
      BY DEF Patches
    <2>2. CASE i = drawn + 1
      <3>1. grass_data'[i].tile = t
        BY <1>2, <1>3, <2>1, <2>2
      <3> QED
        BY <1>3, <1>6, <3>1
    <2>3. CASE i # drawn + 1
      <3>1. grass_data'[i] = grass_data[i]
        BY <1>2, <1>3, <2>1, <2>3
      <3>2. i \in Patches /\ grass_data[i].tile \in Tiles
        BY <1>3, <2>1, <3>1 DEF Patches, Patch
      <3>3. rank[grass_data[i].tile] = -1
        BY <1>4, <1>15, <3>2
      <3> QED
        BY <1>3, <1>6, <3>1, <3>2, <3>3
    <2> QED
      BY <2>2, <2>3
  <1>16. threshold' = LeastRing(HighestRing(ground'), drawn' + 1)
    BY <1>1, <1>3, <1>12
  <1>17. Drawing'
    BY <1>1, <1>9, <1>13, <1>14, <1>15, <1>16 DEF Drawing
  <1> QED
    BY <1>11, <1>17

\* The new patch fits, and those drawn before stay as they are.
LEMMA DrawFits ==
    ASSUME SwayInv, DrawPatch
    PROVE  (SwayTyped /\ PatchesFit)'
PROOF
  <1>1. at = "draw" /\ drawn < swayPatchNo /\ drawn' = drawn + 1
        /\ UNCHANGED <<at, ground, swayPatchNo, is_swaygrass_flag, result>>
    BY DEF DrawPatch
  <1>2. PICK t \in Tiles :
          /\ rank[t] >= threshold
          /\ grass_data' = [grass_data EXCEPT ![drawn + 1] =
                [enable |-> t \in ground.floor, tile |-> t, rank |-> rank[t]]]
          /\ rank' = Drawn(t)
    BY DEF DrawPatch
  <1>3. /\ ground \in Grounds /\ threshold \in 0 .. Radius /\ rank \in [Tiles -> -1 .. Radius]
        /\ grass_data \in [Indices -> Patch] /\ drawn \in Nat
        /\ swayPatchNo \in 0 .. PatchCount /\ drawn \in 0 .. swayPatchNo
    BY SquareFacts DEF SwayInv, SwayTyped
  <1>4. /\ threshold = LeastRing(HighestRing(ground), drawn + 1)
        /\ Others(ground) # {} => \A i \in Patches : rank[grass_data[i].tile] = -1
    BY <1>1 DEF SwayInv, Drawing
  <1>5. /\ rank[t] # -1 /\ rank[t] = Ranks(ground)[t] /\ drawn + 1 \in Indices
        /\ Others(ground) # {} => t \in Far(ground, threshold) /\ threshold >= 1
    BY <1>1, <1>2, DrawnAnew
  <1> DEFINE new == [enable |-> t \in ground.floor, tile |-> t, rank |-> rank[t]]
  <1>6. new \in Patch
    BY <1>2, <1>3 DEF Patch
  <1>7. /\ grass_data'[drawn + 1] = new
        /\ \A i \in Indices : i # drawn + 1 => grass_data'[i] = grass_data[i]
    BY <1>2, <1>3, <1>5
  <1>8. SwayTyped'
    <2>1. rank' \in [Tiles -> -1 .. Radius]
      BY <1>2, <1>3, SquareFacts DEF Drawn
    <2>2. threshold' \in 0 .. Radius
      BY <1>3, SquareFacts DEF DrawPatch, NextThreshold
    <2>3. drawn' \in 0 .. swayPatchNo'
      BY <1>1, <1>3, SquareFacts
    <2>4. grass_data' \in [Indices -> Patch]
      BY <1>2, <1>3, <1>6
    <2> QED
      BY <1>1, <2>1, <2>2, <2>3, <2>4 DEF SwayInv, SwayTyped
  <1>9. /\ new.tile = t /\ new.rank = rank[t] /\ new.enable = (t \in ground.floor)
    OBVIOUS
  <1> HIDE DEF new
  <1>10. ASSUME NEW i \in Patches', i # drawn + 1
         PROVE  i \in Patches /\ grass_data'[i] = grass_data[i] /\ i \in Indices
    BY <1>7, <1>10 DEF Patches
  <1>11. \A i \in Patches' : i <= drawn'
    <2>1. ASSUME NEW i \in Patches', i # drawn + 1 PROVE i <= drawn'
      <3>1. i \in Patches /\ i \in Int
        BY <1>10, <2>1 DEF Indices
      <3>2. i <= drawn
        BY <3>1 DEF SwayInv, PatchesFit
      <3> QED
        BY <1>1, <1>3, <3>1, <3>2
    <2> QED
      BY <1>1, <1>3, <2>1
  <1>12. ASSUME Others(ground) # {}, NEW i \in Patches'
         PROVE  LET p == grass_data'[i] IN
                /\ p.tile \in Others(ground)
                /\ p.rank = Ring(p.tile)
                /\ p.enable = (p.tile \in ground.floor)
                /\ p.rank >= LeastRing(Highest(Ranks(ground)), i)
    <2>1. CASE i = drawn + 1
      <3>1. grass_data'[i] = new
        BY <1>7, <2>1
      <3>2. t \in Others(ground) /\ Ring(t) >= threshold
        BY <1>5, <1>12 DEF Far
      <3>3. rank[t] = Ring(t)
        BY <1>3, <1>5, <3>2, SearchFinds
      <3>4. threshold = LeastRing(Highest(Ranks(ground)), i)
        BY <1>4, <2>1 DEF HighestRing
      <3> QED
        BY <1>9, <3>1, <3>2, <3>3, <3>4
    <2>2. CASE i # drawn + 1
      <3>1. i \in Patches /\ grass_data'[i] = grass_data[i]
        BY <1>10, <2>2
      <3> QED
        BY <1>12, <3>1 DEF SwayInv, PatchesFit
    <2> QED
      BY <2>1, <2>2
  <1>13. ASSUME Others(ground) # {}, NEW i \in Patches', NEW j \in Patches',
                grass_data'[j].tile = grass_data'[i].tile
         PROVE  i = j
    <2>1. ASSUME NEW k \in Patches', k # drawn + 1
          PROVE  grass_data'[k].tile # t
      <3>1. k \in Patches /\ grass_data'[k] = grass_data[k]
        BY <1>10, <2>1
      <3>2. rank[grass_data[k].tile] = -1
        BY <1>4, <1>13, <3>1
      <3> QED
        BY <1>5, <3>1, <3>2
    <2>2. grass_data'[drawn + 1].tile = t
      BY <1>7, <1>9
    <2>3. CASE i = drawn + 1 \/ j = drawn + 1
      BY <1>13, <2>1, <2>2, <2>3
    <2>4. CASE i # drawn + 1 /\ j # drawn + 1
      <3>1. /\ i \in Patches /\ grass_data'[i] = grass_data[i]
            /\ j \in Patches /\ grass_data'[j] = grass_data[j]
        BY <1>10, <2>4
      <3> QED
        BY <1>13, <3>1 DEF SwayInv, PatchesFit
    <2> QED
      BY <2>3, <2>4
  <1>14. PatchesFit'
    BY <1>1, <1>11, <1>12, <1>13 DEF PatchesFit
  <1> QED
    BY <1>8, <1>14

-------------------------------------------------------------------------------
(***************************************************************************)
(* The theorems.                                                           *)
(***************************************************************************)

LEMMA SwayStep == SwayInv /\ [SwayNext]_swayVars => SwayInv'
PROOF
  <1> SUFFICES ASSUME SwayInv, [SwayNext]_swayVars PROVE SwayInv'
    OBVIOUS
  <1>1. ASSUME NEW g \in Grounds, LotSwayGrass(g) PROVE SwayInv'
    BY <1>1, LotteryBegins
  <1>2. CASE DrawPatch
    <2>1. (SwayTyped /\ PatchesFit)' /\ (EnoughDrawn /\ Drawing)'
      BY <1>2, DrawFits, DrawKeepsDrawing
    <2>2. at = "draw" /\ UNCHANGED <<at, ground, swayPatchNo>>
      BY <1>2 DEF DrawPatch
    <2> QED
      BY <2>1, <2>2 DEF SwayInv
  <1>3. CASE LotteryReturns
    <2>1. /\ at = "draw" /\ drawn = swayPatchNo /\ at' = "field"
          /\ result' \in {"FAIL", "OK"} /\ is_swaygrass_flag' \in BOOLEAN
          /\ UNCHANGED <<ground, rank, threshold, swayPatchNo, drawn, grass_data>>
      BY <1>3 DEF LotteryReturns
    <2>2. SwayTyped'
      BY <2>1 DEF SwayInv, SwayTyped
    <2>3. PatchesFit' /\ EnoughDrawn'
      BY <2>1 DEF SwayInv, PatchesFit, Patches, EnoughDrawn
    <2> QED
      BY <2>1, <2>2, <2>3 DEF SwayInv
  <1>4. CASE RadarEnds
    <2>1. /\ at = "field" /\ is_swaygrass_flag' = FALSE /\ grass_data' = NoPatches
          /\ UNCHANGED <<at, ground, rank, threshold, swayPatchNo, drawn, result>>
      BY <1>4 DEF RadarEnds
    <2>2. SwayTyped'
      BY <2>1, NoPatchesFit DEF SwayInv, SwayTyped
    <2>3. Patches' = {}
      BY <2>1, NoPatchesFit DEF Patches
    <2>4. PatchesFit' /\ EnoughDrawn'
      BY <2>1, <2>3 DEF SwayInv, PatchesFit, EnoughDrawn
    <2> QED
      BY <2>1, <2>2, <2>4 DEF SwayInv
  <1>5. CASE UNCHANGED swayVars
    BY <1>5 DEF swayVars, SwayInv, SwayTyped, PatchesFit, Patches, EnoughDrawn, Drawing, Gone
  <1> QED
    BY <1>1, <1>2, <1>3, <1>4, <1>5 DEF SwayNext

\* Encounters leave the radar alone.
LEMMA EncIsSway == [EncNext]_encVars => [SwayNext]_swayVars
BY DEF EncNext, encVars, swayVars, Radar, Walk, SweetScent, Fish, BattleEnds

\* The invariant holds, encounters or not.
THEOREM SwayInvariant == EncSpec => []SwayInv
PROOF
  <1>1. EncInit => SwayInv
    BY InitInv DEF EncInit
  <1>2. SwayInv /\ [EncNext]_encVars => SwayInv'
    BY SwayStep, EncIsSway
  <1> QED
    BY <1>1, <1>2, PTL DEF EncSpec

\* Types of the lottery, whatever encounters are met.
THEOREM RadarTyped == EncSpec => []SwayTyped
PROOF
  <1>1. SwayInv => SwayTyped
    BY DEF SwayInv
  <1> QED
    BY <1>1, SwayInvariant, PTL

\* Patches of the radar lie on different tiles of the material the player stands
\* on, never under the player, and as far out as their draw asks for.
THEOREM RadarPatchesFit == EncSpec => []PatchesFit
PROOF
  <1>1. SwayInv => PatchesFit
    BY DEF SwayInv
  <1> QED
    BY <1>1, SwayInvariant, PTL

\* The lottery can go on as long as there are enough tiles, so its loop of random
\* draws finds one sooner or later.
CanGoOn ==
    at = "draw" /\ drawn < swayPatchNo /\ Enough(ground) => \E t \in Tiles : rank[t] >= threshold

LEMMA EnoughGoesOn == SwayInv => CanGoOn
PROOF
  <1> SUFFICES ASSUME SwayInv, at = "draw", drawn < swayPatchNo, Enough(ground)
               PROVE  \E t \in Tiles : rank[t] >= threshold
    BY DEF CanGoOn
  <1>1. /\ ground \in Grounds /\ drawn \in Nat /\ swayPatchNo \in Nat
        /\ rank \in [Tiles -> -1 .. Radius]
    BY SquareFacts DEF SwayInv, SwayTyped
  <1>2. /\ threshold = LeastRing(HighestRing(ground), drawn + 1)
        /\ \A t \in Tiles : rank[t] = -1 \/ rank[t] = Ranks(ground)[t]
        /\ Cardinality(Gone) = drawn
        /\ swayPatchNo = PatchesOf(Cardinality(Matching(ground)))
    BY DEF SwayInv, Drawing
  <1>3. CASE Others(ground) # {}
    <2>1. drawn + 1 \in 1 .. swayPatchNo
      BY <1>1
    <2>2. Cardinality(Far(ground, threshold)) >= drawn + 1
      BY <1>2, <1>3, <2>1 DEF Enough, Far, HighestRing
    <2>3. Far(ground, threshold) \in SUBSET Tiles /\ Gone \in SUBSET Tiles
      BY DEF Far, Others, Matching, Gone
    <2>4. Cardinality(Far(ground, threshold)) \in Nat
      BY <2>3, Countable
    <2>5. ~(Far(ground, threshold) \subseteq Gone)
      <3>1. ASSUME Far(ground, threshold) \subseteq Gone
            PROVE  Cardinality(Far(ground, threshold)) <= drawn
        BY <1>2, <2>3, <3>1, Countable
      <3> QED
        BY <1>1, <2>2, <2>4, <3>1
    <2>6. PICK t \in Far(ground, threshold) : t \notin Gone
      BY <2>5
    <2>7. t \in Tiles /\ rank[t] # -1 /\ t \in Others(ground) /\ Ring(t) >= threshold
      BY <2>3, <2>6 DEF Far, Gone
    <2>8. rank[t] = Ring(t)
      BY <1>1, <1>2, <2>7, SearchFinds
    <2> QED
      BY <2>7, <2>8
  <1>4. CASE Others(ground) = {}
    <2>1. swayPatchNo = 1
      BY <1>1, <1>2, <1>4, PatchesFound
    <2>2. drawn = 0
      BY <1>1, <2>1
    <2>3. HighestRing(ground) = 0
      BY <1>1, <1>4, SearchFinds
    <2>4. threshold = 0
      <3>1. 0 \in 0 .. Radius
        BY SquareFacts
      <3>2. LeastRing(0, 1) = 0
        BY <3>1, LeastRingSinks
      <3> QED
        BY <1>2, <2>2, <2>3, <3>2
    <2>5. Gone = {}
      <3>1. IsFiniteSet(Gone)
        BY Countable DEF Gone
      <3> QED
        BY <1>2, <2>2, <3>1, FS_EmptySet
    <2>6. Centre \in Tiles /\ rank[Centre] # -1 /\ rank[Centre] \in -1 .. Radius
      BY <1>1, <2>5, SquareFacts DEF Gone
    <2> QED
      BY <2>4, <2>6, SquareFacts
  <1> QED
    BY <1>3, <1>4

\* The lottery of the radar can go on where there are enough tiles, and where it
\* came to an end there were: it stands still in every other place.
THEOREM LotteryGoesOnExactlyWithEnough == EncSpec => [](CanGoOn /\ EndedWithEnough)
PROOF
  <1>1. SwayInv => EndedWithEnough
    BY DEF SwayInv, EndedWithEnough, EnoughDrawn, Enough, Far, HighestRing
  <1>2. SwayInv => CanGoOn
    BY EnoughGoesOn
  <1> QED
    BY <1>1, <1>2, SwayInvariant, PTL

-------------------------------------------------------------------------------
(***************************************************************************)
(* The stages of the lists.                                                *)
(***************************************************************************)

\* Lists of twelve slots, those without the radar's Pokemon, and a list that
\* differs from an old one in slot n.
Listed == [0 .. 11 -> Entry]
Radarless(slots) == \A n \in 0 .. 11 : slots[n].table # "swayGrass"
Replaced(new, old, n, entry) ==
    new \in Listed /\ new[n] = entry /\ \A m \in 0 .. 11 : m # n => new[m] = old[m]
Has(slots, n, table, k) == slots[n] = [table |-> table, k |-> k]

LEMMA SlotReplaced ==
    ASSUME NEW slots \in Listed, NEW n \in 0 .. 11, NEW new \in Entry
    PROVE  Replaced(ReplaceSlot(slots, n, new), slots, n, new)
BY DEF ReplaceSlot, Listed, Replaced

LEMMA Entries ==
    ASSUME NEW k \in Nat
    PROVE  /\ \A table \in Tables \cup {"urayama", "safari", "feebas", "none"} :
                [table |-> table, k |-> k] \in Entry
           /\ Nobody \in Entry /\ Nobody.table = "none"
BY DEF Entry, Nobody

LEMMA TableRead ==
    ASSUME NEW slots \in Listed, NEW n \in 0 .. 11, NEW p \in Place, NEW table \in Tables, NEW k \in Nat
    PROVE  Replaced(FromTable(slots, n, p, table, k), slots, n,
                    IF p.len[table] > k THEN [table |-> table, k |-> k] ELSE slots[n])
PROOF
  <1>1. [table |-> table, k |-> k] \in Entry
    BY Entries
  <1>2. CASE p.len[table] > k
    <2>1. FromTable(slots, n, p, table, k) = ReplaceSlot(slots, n, [table |-> table, k |-> k])
      BY <1>2 DEF FromTable
    <2>2. Replaced(ReplaceSlot(slots, n, [table |-> table, k |-> k]), slots, n,
                   [table |-> table, k |-> k])
      BY <1>1, SlotReplaced, Zenon
    <2> QED
      BY <1>2, <2>1, <2>2
  <1>3. CASE ~(p.len[table] > k)
    BY <1>3 DEF FromTable, Replaced
  <1> QED
    BY <1>2, <1>3

\* A slot that is read from a table other than the radar's leaves no more of the
\* radar's Pokemon than there were.
LEMMA StaysRadarless ==
    ASSUME NEW slots \in Listed, NEW n \in 0 .. 11, NEW p \in Place, NEW table \in Tables, NEW k \in Nat,
           table # "swayGrass", Radarless(slots)
    PROVE  /\ FromTable(slots, n, p, table, k) \in Listed
           /\ Radarless(FromTable(slots, n, p, table, k))
PROOF
  <1>1. Replaced(FromTable(slots, n, p, table, k), slots, n,
                 IF p.len[table] > k THEN [table |-> table, k |-> k] ELSE slots[n])
    BY TableRead
  <1> QED
    BY <1>1 DEF Replaced, Radarless

LEMMA BaseListed ==
    ASSUME NEW p \in Place, NEW table \in Tables, table # "swayGrass"
    PROVE  BaseSlots(p, table, 12) \in Listed /\ Radarless(BaseSlots(p, table, 12))
PROOF
  <1> DEFINE slots == BaseSlots(p, table, 12)
  <1>1. slots = [n \in 0 .. 11 |-> IF n < p.len[table] THEN [table |-> table, k |-> n] ELSE Nobody]
    BY DEF BaseSlots
  <1>2. \A n \in 0 .. 11 : [table |-> table, k |-> n] \in Entry /\ Nobody \in Entry
    BY Entries
  <1>3. slots \in Listed
    BY <1>1, <1>2 DEF Listed
  <1>4. ASSUME NEW n \in 0 .. 11 PROVE slots[n].table # "swayGrass"
    BY <1>1, Entries
  <1> QED
    BY <1>3, <1>4 DEF Radarless

LEMMA SixAndSeven ==
    ASSUME NEW slots \in Listed, NEW table \in {"urayama", "safari"}, NEW k \in Nat
    PROVE  LET new == InSixAndSeven(slots, table, k)
           IN  /\ new \in Listed /\ Has(new, 6, table, 0) /\ Has(new, 7, table, k)
               /\ \A m \in 0 .. 11 : m # 6 /\ m # 7 => new[m] = slots[m]
               /\ Radarless(slots) => Radarless(new)
PROOF
  <1> DEFINE six   == ReplaceSlot(slots, 6, [table |-> table, k |-> 0])
             seven == ReplaceSlot(six, 7, [table |-> table, k |-> k])
  <1>1. /\ [table |-> table, k |-> 0] \in Entry /\ [table |-> table, k |-> k] \in Entry
        /\ 6 \in 0 .. 11 /\ 7 \in 0 .. 11
    BY Entries
  <1>2. Replaced(six, slots, 6, [table |-> table, k |-> 0])
    BY <1>1, SlotReplaced, Zenon
  <1> HIDE DEF six
  <1>3. Replaced(seven, six, 7, [table |-> table, k |-> k])
    <2>1. six \in Listed
      BY <1>2 DEF Replaced
    <2> QED
      BY <1>1, <2>1, SlotReplaced, Zenon
  <1> HIDE DEF seven
  <1>4. InSixAndSeven(slots, table, k) = seven
    BY DEF InSixAndSeven, six, seven
  <1> QED
    BY <1>2, <1>3, <1>4 DEF Replaced, Radarless, Has

\* Time of day, swarm and garden; incense and radar change nothing in them.
EarlySlots(p) ==
    SetTrophyGardenSlots(SetSwarmSlots(SetTimeOfDaySlots(BaseSlots(p, "ground_mons", 12), p), p), p)

LEMMA Early ==
    ASSUME NEW p \in Place
    PROVE  /\ EarlySlots(p) \in Listed /\ Radarless(EarlySlots(p))
           /\ EarlySlots([p EXCEPT !.incense = FALSE]) = EarlySlots(p)
PROOF
  <1> DEFINE base  == BaseSlots(p, "ground_mons", 12)
             day   == SetTimeOfDaySlots(base, p)
             swarm == SetSwarmSlots(day, p)
             q     == [p EXCEPT !.incense = FALSE]
  <1>1. base \in Listed /\ Radarless(base)
    BY BaseListed DEF Tables
  <1>2. 0 \in 0 .. 11 /\ 2 \in 0 .. 11 /\ 3 \in 0 .. 11 /\ 0 \in Nat /\ 1 \in Nat
    OBVIOUS
  <1>3. day \in Listed /\ Radarless(day)
    <2>1. ASSUME NEW table \in {"day", "night"}
          PROVE  /\ FromTable(FromTable(base, 2, p, table, 0), 3, p, table, 1) \in Listed
                 /\ Radarless(FromTable(FromTable(base, 2, p, table, 0), 3, p, table, 1))
      <3>1. table \in Tables /\ table # "swayGrass"
        BY DEF Tables
      <3>2. FromTable(base, 2, p, table, 0) \in Listed /\ Radarless(FromTable(base, 2, p, table, 0))
        BY <1>1, <1>2, <3>1, StaysRadarless, Zenon
      <3> QED
        BY <1>2, <3>1, <3>2, StaysRadarless, Zenon
    <2> QED
      BY <1>1, <2>1 DEF SetTimeOfDaySlots
  <1>4. swarm \in Listed /\ Radarless(swarm)
    <2>1. "tairyo" \in Tables /\ "tairyo" # "swayGrass"
      BY DEF Tables
    <2>2. /\ FromTable(day, 0, p, "tairyo", 0) \in Listed
          /\ Radarless(FromTable(day, 0, p, "tairyo", 0))
      BY <1>2, <1>3, <2>1, StaysRadarless, Zenon
    <2> QED
      BY <1>3, <2>2 DEF SetSwarmSlots
  <1>5. EarlySlots(p) \in Listed /\ Radarless(EarlySlots(p))
    BY <1>4, SixAndSeven DEF EarlySlots, SetTrophyGardenSlots
  <1>6. q.len = p.len /\ q.period = p.period /\ q.swarm = p.swarm /\ q.trophy = p.trophy
    BY DEF Place
  <1>7. EarlySlots(q) = EarlySlots(p)
    BY <1>6 DEF EarlySlots, SetTrophyGardenSlots, SetSwarmSlots, SetTimeOfDaySlots, FromTable, BaseSlots
  <1> QED
    BY <1>5, <1>7

\* The incense keeps the two entries that it displaces.
LEMMA Incense ==
    ASSUME NEW p \in Place, NEW slots \in Listed, p.incense, Radarless(slots)
    PROVE  LET new == SetGBASlots(slots, p)
           IN  /\ new \in Listed /\ Radarless(new)
               /\ new[10] = slots[4] /\ new[11] = slots[5]
               /\ IF p.len["gba"] > 0 THEN Has(new, 4, "gba", 0) ELSE new[4] = slots[4]
               /\ IF p.len["gba"] > 1 THEN Has(new, 5, "gba", 1) ELSE new[5] = slots[5]
               /\ \A m \in 0 .. 9 : m # 4 /\ m # 5 => new[m] = slots[m]
PROOF
  <1> DEFINE ten    == ReplaceSlot(slots, 10, slots[4])
             eleven == ReplaceSlot(ten, 11, slots[5])
             four   == FromTable(eleven, 4, p, "gba", 0)
             five   == FromTable(four, 5, p, "gba", 1)
  <1>1. /\ 4 \in 0 .. 11 /\ 5 \in 0 .. 11 /\ 10 \in 0 .. 11 /\ 11 \in 0 .. 11 /\ 0 \in Nat /\ 1 \in Nat
        /\ slots[4] \in Entry /\ slots[5] \in Entry /\ "gba" \in Tables /\ "gba" # "swayGrass"
    BY DEF Listed, Tables
  <1>2. Replaced(ten, slots, 10, slots[4])
    BY <1>1, SlotReplaced, Zenon
  <1> HIDE DEF ten
  <1>3. Replaced(eleven, ten, 11, slots[5])
    <2>1. ten \in Listed
      BY <1>2 DEF Replaced
    <2> QED
      BY <1>1, <2>1, SlotReplaced, Zenon
  <1> HIDE DEF eleven
  <1>4. eleven \in Listed /\ Radarless(eleven)
    BY <1>1, <1>2, <1>3 DEF Radarless, Replaced
  <1>5. Replaced(four, eleven, 4,
                 IF p.len["gba"] > 0 THEN [table |-> "gba", k |-> 0] ELSE eleven[4])
    BY <1>1, <1>4, TableRead, Zenon
  <1>6. four \in Listed /\ Radarless(four)
    BY <1>1, <1>4, StaysRadarless, Zenon
  <1> HIDE DEF four
  <1>7. Replaced(five, four, 5, IF p.len["gba"] > 1 THEN [table |-> "gba", k |-> 1] ELSE four[5])
    BY <1>1, <1>6, TableRead, Zenon
  <1>8. five \in Listed /\ Radarless(five)
    BY <1>1, <1>6, StaysRadarless, Zenon
  <1>9. SetGBASlots(slots, p) = five
    BY DEF SetGBASlots, five, four, eleven, ten
  <1> HIDE DEF five
  <1>10. IF p.len["gba"] > 1 THEN Has(five, 5, "gba", 1) ELSE five[5] = slots[5]
    BY <1>2, <1>3, <1>5, <1>7 DEF Replaced, Has
  <1>11. IF p.len["gba"] > 0 THEN Has(five, 4, "gba", 0) ELSE five[4] = slots[4]
    BY <1>2, <1>3, <1>5, <1>7 DEF Replaced, Has
  <1>12. /\ five[10] = slots[4] /\ five[11] = slots[5]
         /\ \A m \in 0 .. 9 : m # 4 /\ m # 5 => five[m] = slots[m]
    BY <1>2, <1>3, <1>5, <1>7 DEF Replaced
  <1> QED
    BY <1>8, <1>9, <1>10, <1>11, <1>12

LEMMA Shared ==
    ASSUME NEW p \in Place
    PROVE  LET new == SharedSlots(p) old == EarlySlots(p)
           IN  /\ new \in Listed /\ Radarless(new)
               /\ \A m \in 0 .. 9 : m # 4 /\ m # 5 => new[m] = old[m]
               /\ old[4] = new[4] \/ old[4] = new[10]
               /\ old[5] = new[5] \/ old[5] = new[11]
               /\ p.incense => /\ p.len["gba"] > 0 => Has(new, 4, "gba", 0)
                               /\ p.len["gba"] > 1 => Has(new, 5, "gba", 1)
PROOF
  <1>1. SharedSlots(p) = SetGBASlots(EarlySlots(p), p)
    BY DEF SharedSlots, EarlySlots
  <1>2. EarlySlots(p) \in Listed /\ Radarless(EarlySlots(p))
    BY Early
  <1>3. CASE p.incense
    BY <1>1, <1>2, <1>3, Incense
  <1>4. CASE ~p.incense
    BY <1>1, <1>2, <1>4 DEF SetGBASlots
  <1> QED
    BY <1>3, <1>4

\* Without incense and radar.
LEMMA Plain ==
    ASSUME NEW p \in Place
    PROVE  PlainSlots(p) = IF p.pair THEN EarlySlots(p) ELSE SetSafariSlots(EarlySlots(p), p)
PROOF
  <1> DEFINE q == [p EXCEPT !.incense = FALSE]
  <1>1. ~q.incense /\ q.pair = p.pair /\ q.safari = p.safari
    BY DEF Place
  <1>2. SharedSlots(q) = EarlySlots(q)
    BY <1>1 DEF SharedSlots, EarlySlots, SetGBASlots
  <1>3. EarlySlots(q) = EarlySlots(p)
    BY Early
  <1>4. SetSafariSlots(EarlySlots(p), q) = SetSafariSlots(EarlySlots(p), p)
    BY <1>1 DEF SetSafariSlots
  <1>5. PlainSlots(p) = GroundSlots(q, FALSE)
    BY DEF PlainSlots
  <1> HIDE DEF q
  <1>6. GroundSlots(q, FALSE) = IF q.pair THEN SharedSlots(q) ELSE SetSafariSlots(SharedSlots(q), q)
    BY DEF GroundSlots
  <1> QED
    BY <1>1, <1>2, <1>3, <1>4, <1>5, <1>6

LEMMA Safari ==
    ASSUME NEW p \in Place, NEW slots \in Listed
    PROVE  LET new == SetSafariSlots(slots, p)
           IN  /\ new \in Listed /\ (Radarless(slots) => Radarless(new))
               /\ \A m \in 0 .. 11 : m # 6 /\ m # 7 => new[m] = slots[m]
               /\ IF p.safari THEN Has(new, 6, "safari", 0) /\ Has(new, 7, "safari", 0)
                              ELSE new = slots
BY SixAndSeven DEF SetSafariSlots

\* The radar keeps the entry that it displaces.
LEMMA RadarSlots ==
    ASSUME NEW p \in Place, NEW slots \in Listed, Radarless(slots)
    PROVE  LET new == SetRadarSlots(slots, p)
           IN  /\ new \in Listed /\ new[9] = slots[1]
               /\ IF p.len["swayGrass"] > 0 THEN Has(new, 1, "swayGrass", 0) ELSE new[1] = slots[1]
               /\ \A m \in 0 .. 11 : m # 1 /\ m # 9 => new[m] = slots[m]
               /\ \A m \in 0 .. 11 : m # 1 => new[m].table # "swayGrass"
PROOF
  <1> DEFINE nine == ReplaceSlot(slots, 9, slots[1])
             one  == FromTable(nine, 1, p, "swayGrass", 0)
  <1>1. /\ 1 \in 0 .. 11 /\ 9 \in 0 .. 11 /\ 0 \in Nat /\ slots[1] \in Entry
        /\ "swayGrass" \in Tables
    BY DEF Listed, Tables
  <1>2. Replaced(nine, slots, 9, slots[1]) /\ nine \in Listed
    BY <1>1, SlotReplaced, Zenon DEF Replaced
  <1> HIDE DEF nine
  <1>3. Replaced(one, nine, 1,
                 IF p.len["swayGrass"] > 0 THEN [table |-> "swayGrass", k |-> 0] ELSE nine[1])
    BY <1>1, <1>2, TableRead, Zenon
  <1>4. SetRadarSlots(slots, p) = one
    BY DEF SetRadarSlots, one, nine
  <1> HIDE DEF one
  <1>5. one[9] = slots[1] /\ \A m \in 0 .. 11 : m # 1 /\ m # 9 => one[m] = slots[m]
    BY <1>2, <1>3 DEF Replaced
  <1>6. IF p.len["swayGrass"] > 0 THEN Has(one, 1, "swayGrass", 0) ELSE one[1] = slots[1]
    BY <1>1, <1>2, <1>3 DEF Replaced, Has
  <1>7. \A m \in 0 .. 11 : m # 1 => one[m].table # "swayGrass"
    BY <1>1, <1>2, <1>3 DEF Radarless, Replaced
  <1> QED
    BY <1>3, <1>4, <1>5, <1>6, <1>7 DEF Replaced

\* In the list of the land the nine likeliest entries are all there, and those of
\* the incense.
LEMMA GroundKeeps ==
    ASSUME NEW p \in Place, NEW sway \in BOOLEAN
    PROVE  /\ \A n \in 0 .. 8 : Lists(GroundSlots(p, sway), PlainSlots(p)[n])
           /\ p.incense => \A k \in {0, 1} :
                 p.len["gba"] > k => Lists(GroundSlots(p, sway), [table |-> "gba", k |-> k])
PROOF
  <1> DEFINE early  == EarlySlots(p)
             shared == SharedSlots(p)
             safari == SetSafariSlots(shared, p)
             radar  == SetRadarSlots(safari, p)
             new    == GroundSlots(p, sway)
             plain  == PlainSlots(p)
  <1>1. early \in Listed /\ Radarless(early)
    BY Early
  <1>2. /\ shared \in Listed /\ Radarless(shared)
        /\ \A m \in 0 .. 9 : m # 4 /\ m # 5 => shared[m] = early[m]
        /\ early[4] = shared[4] \/ early[4] = shared[10]
        /\ early[5] = shared[5] \/ early[5] = shared[11]
        /\ p.incense => /\ p.len["gba"] > 0 => Has(shared, 4, "gba", 0)
                        /\ p.len["gba"] > 1 => Has(shared, 5, "gba", 1)
    BY Shared
  <1>3. plain = IF p.pair THEN early ELSE SetSafariSlots(early, p)
    BY Plain
  <1>4. new = IF p.pair THEN shared ELSE IF sway THEN radar ELSE safari
    BY DEF GroundSlots
  <1>5. /\ safari \in Listed /\ Radarless(safari)
        /\ \A m \in 0 .. 11 : m # 6 /\ m # 7 => safari[m] = shared[m]
        /\ IF p.safari THEN Has(safari, 6, "safari", 0) /\ Has(safari, 7, "safari", 0)
                       ELSE safari = shared
    BY <1>2, Safari
  <1>6. /\ SetSafariSlots(early, p) \in Listed
        /\ \A m \in 0 .. 11 : m # 6 /\ m # 7 => SetSafariSlots(early, p)[m] = early[m]
        /\ IF p.safari THEN /\ Has(SetSafariSlots(early, p), 6, "safari", 0)
                            /\ Has(SetSafariSlots(early, p), 7, "safari", 0)
                       ELSE SetSafariSlots(early, p) = early
    BY <1>1, Safari
  <1>7. radar \in Listed /\ radar[9] = safari[1] /\ \A m \in 0 .. 11 : m # 1 /\ m # 9 => radar[m] = safari[m]
    BY <1>5, RadarSlots
  <1> HIDE DEF early, shared, safari, radar, new, plain
  <1>8. new \in Listed /\ DOMAIN new = 0 .. 11
    BY <1>2, <1>4, <1>5, <1>7 DEF Listed
  <1>9. \A m \in 0 .. 11 : Lists(new, new[m])
    BY <1>8 DEF Lists
  <1>10. /\ \A m \in {0, 2, 3, 8} : new[m] = plain[m]
         /\ new[6] = plain[6] /\ new[7] = plain[7]
    <2>1. \A m \in {0, 2, 3, 8} : new[m] = early[m] /\ plain[m] = early[m]
      BY <1>2, <1>3, <1>4, <1>5, <1>6, <1>7
    <2>2. new[6] = plain[6] /\ new[7] = plain[7]
      <3>1. p.pair => new[6] = early[6] /\ new[7] = early[7] /\ plain = early
        BY <1>2, <1>3, <1>4
      <3>2. ~p.pair => new[6] = safari[6] /\ new[7] = safari[7] /\ plain = SetSafariSlots(early, p)
        BY <1>3, <1>4, <1>7
      <3>3. safari[6] = SetSafariSlots(early, p)[6] /\ safari[7] = SetSafariSlots(early, p)[7]
        BY <1>2, <1>5, <1>6 DEF Has
      <3> QED
        BY <3>1, <3>2, <3>3
    <2> QED
      BY <2>1, <2>2
  <1>11. /\ plain[1] = new[1] \/ plain[1] = new[9]
         /\ plain[4] = new[4] \/ plain[4] = new[10]
         /\ plain[5] = new[5] \/ plain[5] = new[11]
    <2>1. plain[1] = early[1] /\ plain[4] = early[4] /\ plain[5] = early[5]
      BY <1>3, <1>6
    <2>2. /\ new[4] = shared[4] /\ new[10] = shared[10]
          /\ new[5] = shared[5] /\ new[11] = shared[11]
          /\ new[1] = shared[1] \/ new[9] = shared[1]
      BY <1>4, <1>5, <1>7
    <2>3. shared[1] = early[1]
      BY <1>2
    <2> QED
      BY <1>2, <2>1, <2>2, <2>3
  <1>12. \A n \in 0 .. 8 : \E m \in 0 .. 11 : plain[n] = new[m]
    <2> SUFFICES ASSUME NEW n \in 0 .. 8 PROVE \E m \in 0 .. 11 : plain[n] = new[m]
      OBVIOUS
    <2>1. CASE n \in {0, 2, 3, 6, 7, 8}
      BY <1>10, <2>1
    <2>2. CASE n \in {1, 4, 5}
      BY <1>11, <2>2
    <2> QED
      BY <2>1, <2>2
  <1>13. p.incense => \A k \in {0, 1} :
           p.len["gba"] > k => \E m \in 0 .. 11 : new[m] = [table |-> "gba", k |-> k]
    <2>1. new[4] = shared[4] /\ new[5] = shared[5]
      BY <1>4, <1>5, <1>7
    <2>2. 4 \in 0 .. 11 /\ 5 \in 0 .. 11
      OBVIOUS
    <2> QED
      BY <1>2, <2>1, <2>2 DEF Has
  <1> QED
    BY <1>9, <1>12, <1>13 DEF new, plain

\* The radar's Pokemon of each list.
LEMMA GroundRadar ==
    ASSUME NEW p \in Place, NEW sway \in BOOLEAN, NEW j \in 0 .. 2
    PROVE  Lists(GroundSlots(p, sway), [table |-> "swayGrass", k |-> j])
             <=> sway /\ j = 0 /\ p.len["swayGrass"] > 0 /\ ~p.pair
PROOF
  <1> DEFINE shared == SharedSlots(p)
             safari == SetSafariSlots(shared, p)
             radar  == SetRadarSlots(safari, p)
             new    == GroundSlots(p, sway)
  <1>1. shared \in Listed /\ Radarless(shared)
    BY Shared
  <1>2. safari \in Listed /\ Radarless(safari)
    BY <1>1, Safari
  <1>3. /\ radar \in Listed
        /\ IF p.len["swayGrass"] > 0 THEN Has(radar, 1, "swayGrass", 0) ELSE radar[1] = safari[1]
        /\ \A m \in 0 .. 11 : m # 1 => radar[m].table # "swayGrass"
    BY <1>2, RadarSlots
  <1>4. new = IF p.pair THEN shared ELSE IF sway THEN radar ELSE safari
    BY DEF GroundSlots
  <1> HIDE DEF shared, safari, radar, new
  <1>5. new \in Listed /\ DOMAIN new = 0 .. 11
    BY <1>1, <1>2, <1>3, <1>4 DEF Listed
  <1>6. CASE p.pair \/ ~sway \/ ~(p.len["swayGrass"] > 0)
    <2>1. Radarless(new)
      BY <1>1, <1>2, <1>3, <1>4, <1>6 DEF Radarless
    <2>2. \A m \in 0 .. 11 : new[m] # [table |-> "swayGrass", k |-> j]
      BY <2>1 DEF Radarless
    <2> QED
      BY <1>5, <1>6, <2>2 DEF Lists, new
  <1>7. CASE ~p.pair /\ sway /\ p.len["swayGrass"] > 0
    <2>1. /\ new[1] = [table |-> "swayGrass", k |-> 0]
          /\ \A m \in 0 .. 11 : m # 1 => new[m].table # "swayGrass"
      BY <1>3, <1>4, <1>7 DEF Has
    <2>2. (\E m \in 0 .. 11 : new[m] = [table |-> "swayGrass", k |-> j]) <=> j = 0
      BY <2>1
    <2> QED
      BY <1>5, <1>7, <2>2 DEF Lists, new
  <1> QED
    BY <1>6, <1>7

LEMMA WaterRadar ==
    ASSUME NEW p \in Place, NEW sway \in BOOLEAN, NEW j \in 0 .. 2
    PROVE  Lists(WaterSlots(p, sway), [table |-> "swayGrass", k |-> j])
             <=> sway /\ j = 2 /\ p.len["swayGrass"] > 2
PROOF
  <1> DEFINE base  == BaseSlots(p, "water_mons", 12)
             gba   == SetWaterGBASlots(base, p)
             radar == SetWaterRadarSlots(gba, p)
             new   == WaterSlots(p, sway)
  <1>1. /\ "water_mons" \in Tables /\ "gba" \in Tables /\ "swayGrass" \in Tables
        /\ "water_mons" # "swayGrass" /\ "gba" # "swayGrass"
        /\ 1 \in 0 .. 11 /\ 4 \in 0 .. 11 /\ 2 \in Nat
    BY DEF Tables
  <1>2. base \in Listed /\ Radarless(base)
    BY <1>1, BaseListed, Zenon
  <1> HIDE DEF base
  <1>3. gba \in Listed /\ Radarless(gba)
    <2>1. FromTable(base, 4, p, "gba", 2) \in Listed /\ Radarless(FromTable(base, 4, p, "gba", 2))
      BY <1>1, <1>2, StaysRadarless, Zenon
    <2> QED
      BY <1>2, <2>1 DEF SetWaterGBASlots
  <1> HIDE DEF gba
  <1>4. Replaced(radar, gba, 1,
                 IF p.len["swayGrass"] > 2 THEN [table |-> "swayGrass", k |-> 2] ELSE gba[1])
    BY <1>1, <1>3, TableRead, Zenon DEF SetWaterRadarSlots
  <1>5. new = IF sway THEN radar ELSE gba
    BY DEF WaterSlots, radar, gba, base
  <1> HIDE DEF radar, new
  <1>6. new \in Listed /\ DOMAIN new = 0 .. 11
    BY <1>3, <1>4, <1>5 DEF Listed, Replaced
  <1>7. CASE ~sway \/ ~(p.len["swayGrass"] > 2)
    <2>1. \A m \in 0 .. 11 : new[m].table # "swayGrass"
      BY <1>3, <1>4, <1>5, <1>7 DEF Radarless, Replaced
    <2>2. \A m \in 0 .. 11 : new[m] # [table |-> "swayGrass", k |-> j]
      BY <2>1
    <2> QED
      BY <1>6, <1>7, <2>2 DEF Lists, new
  <1>8. CASE sway /\ p.len["swayGrass"] > 2
    <2>1. /\ new[1] = [table |-> "swayGrass", k |-> 2]
          /\ \A m \in 0 .. 11 : m # 1 => new[m].table # "swayGrass"
      BY <1>3, <1>4, <1>5, <1>8 DEF Radarless, Replaced
    <2>2. (\E m \in 0 .. 11 : new[m] = [table |-> "swayGrass", k |-> j]) <=> j = 2
      BY <2>1
    <2> QED
      BY <1>6, <1>8, <2>2 DEF Lists, new
  <1> QED
    BY <1>7, <1>8

LEMMA FishRadar ==
    ASSUME NEW p \in Place, NEW j \in 0 .. 2
    PROVE  ~Lists(FishingSlots(p), [table |-> "swayGrass", k |-> j])
PROOF
  <1> DEFINE rod == BaseSlots(p, "rod", 5)
  <1>1. \A n \in DOMAIN rod : rod[n] # [table |-> "swayGrass", k |-> j]
    BY DEF BaseSlots, Nobody
  <1>2. \A n \in DOMAIN FishingSlots(p) : FishingSlots(p)[n] # [table |-> "swayGrass", k |-> j]
    BY <1>1 DEF FishingSlots, CheckFeebasTiles
  <1> QED
    BY <1>2 DEF Lists

-------------------------------------------------------------------------------
(***************************************************************************)
(* The encounters.                                                         *)
(***************************************************************************)

\* The list of an encounter is that of its place and of the way it began, and a
\* patch that was entered still shakes while the battle lasts.
ListKnown(p, sway) ==
    \/ battle.way = "fish" /\ ~sway /\ battle.slots = FishingSlots(p)
    \/ battle.way # "fish" /\ battle.type = "MovePoke" /\ ~sway /\ battle.slots = <<>>
    \/ battle.way # "fish" /\ battle.type # "MovePoke" /\ p.water /\ battle.slots = WaterSlots(p, sway)
    \/ battle.way # "fish" /\ battle.type # "MovePoke" /\ ~p.water /\ battle.slots = GroundSlots(p, sway)
BattleKnown ==
    battle # NoBattle =>
        /\ battle.place \in Places
        /\ \/ battle.patch = 0
           \/ /\ battle.patch \in Indices /\ grass_data[battle.patch].enable
              /\ EnterPatch(battle.place, battle.patch)
        /\ ListKnown(battle.place, battle.patch > 0)

LEMMA Met ==
    ASSUME NEW p \in Places, NEW way \in {"walk", "sweet"}, NEW patch \in Nat, Meets(p, way, patch),
           patch = 0 \/ (patch \in Indices /\ grass_data[patch].enable /\ EnterPatch(p, patch)),
           UNCHANGED swayVars
    PROVE  BattleKnown'
PROOF
  <1> DEFINE type  == SetEncounterType(p, patch > 0)
             slots == CASE type = "MovePoke"             -> <<>>
                        [] type # "MovePoke" /\ p.water  -> WaterSlots(p, patch > 0)
                        [] OTHER                         -> GroundSlots(p, patch > 0)
  <1>1. battle' = [type |-> type, place |-> p, way |-> way, patch |-> patch, slots |-> slots]
    BY DEF Meets, Returns
  <1>2. type = "MovePoke" => ~(patch > 0)
    BY DEF SetEncounterType
  <1> HIDE DEF type
  <1>3. \/ type = "MovePoke" /\ slots = <<>>
        \/ type # "MovePoke" /\ p.water /\ slots = WaterSlots(p, patch > 0)
        \/ type # "MovePoke" /\ ~p.water /\ slots = GroundSlots(p, patch > 0)
    OBVIOUS
  <1> HIDE DEF slots
  <1>4. /\ battle'.type = type /\ battle'.place = p /\ battle'.way = way /\ battle'.patch = patch
        /\ battle'.slots = slots
    BY <1>1
  <1>5. ListKnown(p, patch > 0)'
    BY <1>2, <1>3, <1>4 DEF ListKnown
  <1>6. EnterPatch(p, patch)' <=> EnterPatch(p, patch)
    BY DEF EnterPatch, swayVars
  <1> QED
    BY <1>4, <1>5, <1>6 DEF BattleKnown, EnterPatch, swayVars

LEMMA BattleStep == SwayInv /\ BattleKnown /\ [EncNext]_encVars => BattleKnown'
PROOF
  <1> SUFFICES ASSUME SwayInv, BattleKnown, [EncNext]_encVars PROVE BattleKnown'
    OBVIOUS
  <1>1. CASE Walk
    <2>1. PICK p \in Places :
             \/ Meets(p, "walk", 0)
             \/ \E i \in Indices : Shakes(i) /\ EnterPatch(p, i) /\ Meets(p, "walk", i)
      BY <1>1 DEF Walk
    <2>2. UNCHANGED swayVars
      BY <1>1 DEF Walk
    <2>3. CASE Meets(p, "walk", 0)
      BY <2>2, <2>3, Met
    <2>4. ASSUME NEW i \in Indices, Shakes(i), EnterPatch(p, i), Meets(p, "walk", i)
          PROVE  BattleKnown'
      <3>1. i \in Nat /\ grass_data[i].enable
        BY <2>4, SquareFacts DEF Indices, Shakes
      <3> QED
        BY <2>2, <2>4, <3>1, Met
    <2> QED
      BY <2>1, <2>3, <2>4
  <1>2. CASE SweetScent
    BY <1>2, Met DEF SweetScent
  <1>3. CASE Fish
    <2>1. PICK p \in Places :
             battle' = [type |-> IF p.safari THEN "Safari" ELSE "Single", place |-> p, way |-> "fish",
                        patch |-> 0, slots |-> FishingSlots(p)]
      BY <1>3 DEF Fish, Returns
    <2> QED
      BY <2>1 DEF BattleKnown, ListKnown
  <1>4. CASE BattleEnds
    BY <1>4 DEF BattleEnds, BattleKnown
  <1>5. CASE Radar
    BY <1>5 DEF Radar, BattleKnown
  <1>6. CASE UNCHANGED encVars
    BY <1>6 DEF encVars, BattleKnown, ListKnown, EnterPatch
  <1> QED
    BY <1>1, <1>2, <1>3, <1>4, <1>5, <1>6 DEF EncNext

LEMMA BattleInvariant == EncSpec => [](SwayInv /\ BattleKnown)
PROOF
  <1>1. EncInit => BattleKnown
    BY DEF EncInit, BattleKnown
  <1>2. SwayInv /\ BattleKnown /\ [EncNext]_encVars => BattleKnown'
    BY BattleStep
  <1> QED
    BY <1>1, <1>2, SwayInvariant, PTL DEF EncSpec

\* Whatever swarm, time of day, garden, safari, incense and radar put into the list
\* of the land, none of the nine likeliest entries of the zone is lost, and the
\* incense's are listed (NobodyDisplaced).
THEOREM ListsKeepEveryone == EncSpec => []NobodyDisplaced
PROOF
  <1>1. BattleKnown => NobodyDisplaced
    <2> SUFFICES ASSUME BattleKnown, OnGround
                 PROVE  LET p == battle.place IN
                        /\ \A n \in 0 .. 8 : Lists(battle.slots, PlainSlots(p)[n])
                        /\ p.incense => \A k \in {0, 1} :
                              p.len["gba"] > k => Lists(battle.slots, [table |-> "gba", k |-> k])
      BY DEF NobodyDisplaced
    <2>1. battle.place \in Place /\ battle.slots = GroundSlots(battle.place, battle.patch > 0)
      BY PlacesAssumption DEF BattleKnown, ListKnown, OnGround
    <2>2. (battle.patch > 0) \in BOOLEAN
      OBVIOUS
    <2> QED
      BY <2>1, <2>2, GroundKeeps
  <1> QED
    BY <1>1, BattleInvariant, PTL

\* A patch gives the radar's Pokemon of its material, unless a partner is along on
\* land, and they are met nowhere else (PatchPays).
THEOREM PatchesPay == EncSpec => []PatchPays
PROOF
  <1>1. SwayInv /\ BattleKnown => PatchPays
    <2> SUFFICES ASSUME SwayInv, BattleKnown, battle # NoBattle PROVE PatchPays
      BY DEF PatchPays
    <2> DEFINE p    == battle.place
               sway == battle.patch > 0
               k    == IF p.water THEN 2 ELSE 0
               InList(j) == Lists(battle.slots, [table |-> "swayGrass", k |-> j])
    <2>1. p \in Place /\ p.water \in BOOLEAN /\ p.pair \in BOOLEAN /\ sway \in BOOLEAN
      BY PlacesAssumption DEF BattleKnown, Place
    <2>2. ASSUME sway, Others(ground) # {} PROVE p.water = (ground.material[Centre] = "WATER")
      <3>1. battle.patch \in Indices /\ grass_data[battle.patch].enable
            /\ EnterPatch(p, battle.patch)
        BY <2>2 DEF BattleKnown
      <3>2. battle.patch \in Patches
        BY <3>1 DEF Patches, Off
      <3>3. grass_data[battle.patch].tile \in Others(ground)
        BY <2>2, <3>2 DEF SwayInv, PatchesFit
      <3>4. ground.material[grass_data[battle.patch].tile] = ground.material[Centre]
        BY <3>3 DEF Others, Matching
      <3> QED
        BY <3>1, <3>4 DEF EnterPatch
    <2>3. ASSUME NEW j \in 0 .. 2
          PROVE  InList(j) <=> sway /\ j = k /\ p.len["swayGrass"] > k /\ (p.pair => p.water)
      <3>1. CASE battle.way = "fish" /\ ~sway /\ battle.slots = FishingSlots(p)
        BY <2>1, <3>1, FishRadar
      <3>2. CASE ~sway /\ battle.slots = <<>>
        BY <3>2 DEF Lists
      <3>3. CASE p.water /\ battle.slots = WaterSlots(p, sway)
        <4>1. Lists(WaterSlots(p, sway), [table |-> "swayGrass", k |-> j])
                <=> sway /\ j = 2 /\ p.len["swayGrass"] > 2
          BY <2>1, WaterRadar
        <4>2. k = 2 /\ (p.pair => p.water)
          BY <3>3
        <4> QED
          BY <3>3, <4>1, <4>2
      <3>4. CASE ~p.water /\ battle.slots = GroundSlots(p, sway)
        BY <2>1, <3>4, GroundRadar
      <3> QED
        BY <3>1, <3>2, <3>3, <3>4 DEF BattleKnown, ListKnown
    <2> QED
      BY <2>2, <2>3 DEF PatchPays
  <1> QED
    BY <1>1, BattleInvariant, PTL

===============================================================================
