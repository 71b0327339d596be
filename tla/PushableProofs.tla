---------------------------- MODULE PushableProofs ----------------------------
(***************************************************************************)
(* Theorems about PushableEntities, for every map, every list of objects   *)
(* and every length of frames.                                             *)
(***************************************************************************)
EXTENDS PushableEntities, FiniteSetTheorems, WellFoundedInduction, TLAPS

-----------------------------------------------------------------------------
(* Least and greatest elements.                                            *)

\* A set of natural numbers that is not empty has a least element: among the
\* intervals that end in it one contains no other.
LEMMA LeastOfNaturals ==
  ASSUME NEW S \in SUBSET Nat, S # {}
  PROVE  Min(S) \in S /\ \A y \in S : Min(S) <= y
<1>. DEFINE T == {0..y : y \in S}
            R == StrictSubsetOrdering(Nat)
<1>1. T \subseteq FiniteSubsetsOf(Nat) /\ T # {}
  <2>1. \A y \in S : IsFiniteSet(0..y) /\ 0..y \subseteq Nat
    BY FS_Interval
  <2>. QED  BY <2>1 DEF FiniteSubsetsOf
<1>2. IsWellFoundedOn(R, FiniteSubsetsOf(Nat))
  BY FS_StrictSubsetOrderingWellFounded
<1>3. PICK I \in T : \A J \in T : ~(<<J, I>> \in R)
  <2>. HIDE DEF T, R
  <2>. QED  BY <1>1, <1>2, WFMin
<1>4. PICK x \in S : I = 0..x
  OBVIOUS
<1>5. ASSUME NEW y \in S  PROVE x <= y
  <2>1. x \in Nat /\ y \in Nat
    OBVIOUS
  <2>2. 0..y \in T
    OBVIOUS
  <2>3. ~(<<0..y, 0..x>> \in R)
    BY <1>3, <1>4, <2>2
  <2>4. CASE y < x
    <3>1. 0..y \subseteq 0..x /\ 0..y # 0..x
      BY <2>1, <2>4
    <3>2. 0..y \subseteq Nat /\ 0..x \subseteq Nat
      BY <2>1
    <3>. QED  BY <2>3, <3>1, <3>2 DEF StrictSubsetOrdering
  <2>. QED  BY <2>1, <2>4
<1>. QED
  BY <1>5 DEF Min

\* A set of natural numbers up to n that is not empty has a greatest element.
LEMMA GreatestOfNaturals ==
  ASSUME NEW n \in Nat, NEW S \in SUBSET (0..n), S # {}
  PROVE  Max(S) \in S
<1>. DEFINE D == {n - s : s \in S}
<1>1. D \in SUBSET Nat /\ D # {}
  <2>1. \A s \in S : n - s \in Nat
    OBVIOUS
  <2>2. PICK s \in S : TRUE
    OBVIOUS
  <2>3. n - s \in D
    BY <2>2
  <2>. QED  BY <2>1, <2>3
<1>2. Min(D) \in D /\ \A d \in D : Min(D) <= d
  <2>. HIDE DEF D
  <2>. QED  BY <1>1, LeastOfNaturals
<1>3. PICK x \in S : Min(D) = n - x
  BY <1>2
<1>4. \A y \in S : n - x <= n - y
  BY <1>2, <1>3
<1>5. \A y \in S : x >= y
  BY <1>4
<1>. QED
  BY <1>5 DEF Max

-----------------------------------------------------------------------------
(* The rail.                                                               *)

Plane == Int \X Int
OnRail(p) == p \in (Rails \cup Stoppers) \ Obstacles

\* Positions have integer coordinates.
LEMMA TileTyped ==
  ASSUME NEW p \in Plane, NEW dir \in Dirs, NEW j \in Int
  PROVE  Tile(p, dir, j) \in Plane
BY DEF Plane, Tile, Dirs

\* A block of the map begins at a multiple of its size.
LEMMA BlockBegins ==
  ASSUME NEW c \in Int
  PROVE  Quotient(c, ZoneSize) \in Int
<1>1. ZoneSize \in Nat \ {0}
  BY PushAssumption
<1>2. CASE c < 0
  <2>1. (-c) \in Int /\ (-c) \div ZoneSize \in Int
    BY <1>1, <1>2
  <2>. QED  BY <2>1, <1>2 DEF Quotient
<1>3. CASE ~(c < 0)
  BY <1>1, <1>3 DEF Quotient
<1>. QED
  BY <1>2, <1>3

\* The loop over the tiles has an integer number of turns.
LEMMA TurnsTyped ==
  ASSUME NEW p \in Plane, NEW dir \in Dirs
  PROVE  Turns(p, dir) \in Int
<1>1. ASSUME NEW c \in Int  PROVE Quotient(c, ZoneSize) * ZoneSize \in Int
  <2>1. ZoneSize \in Nat \ {0}
    BY PushAssumption
  <2>2. Quotient(c, ZoneSize) \in Int
    BY BlockBegins
  <2>. QED  BY <2>1, <2>2
<1>2. ZoneSize \in Int
  BY PushAssumption
<1>3. p[1] \in Int /\ p[2] \in Int
  BY DEF Plane
<1>4. CASE dir \in {"up", "down"}
  <2>1. Quotient(p[2], ZoneSize) * ZoneSize \in Int
    BY <1>1, <1>3
  <2>. QED  BY <2>1, <1>2, <1>3, <1>4 DEF Turns
<1>5. CASE dir \in {"left", "right"}
  <2>1. Quotient(p[1], ZoneSize) * ZoneSize \in Int
    BY <1>1, <1>3
  <2>. QED  BY <2>1, <1>2, <1>3, <1>5 DEF Turns
<1>. QED
  BY <1>4, <1>5 DEF Dirs

\* What the loop counts: all tiles but the last one are rails, and the last one
\* is a rail or a stopper, without an obstacle.
LEMMA TilesFollowRail ==
  ASSUME NEW p \in Plane, NEW dir \in Dirs
  PROVE  /\ Tiles(p, dir) \in Nat
         /\ Tiles(p, dir) # 0 => OnRail(Tile(p, dir, Tiles(p, dir) - 1))
<1>. DEFINE turns == Turns(p, dir)
            ends == {j \in 0..turns-1 : ~GoesOn(Tile(p, dir, j))}
<1>1. turns \in Int
  BY TurnsTyped
<1>2. CASE ends = {} /\ turns > 0
  <2>1. Tiles(p, dir) = turns
    BY <1>2 DEF Tiles
  <2>2. turns - 1 \in 0..turns-1
    BY <1>1, <1>2
  <2>3. GoesOn(Tile(p, dir, turns - 1))
    BY <1>2, <2>2
  <2>. QED  BY <1>1, <1>2, <2>1, <2>3 DEF GoesOn, OnRail
<1>3. CASE ends = {} /\ ~(turns > 0)
  BY <1>3 DEF Tiles
<1>4. CASE ends # {}
  <2>1. ends \in SUBSET Nat
    BY <1>1
  <2>2. Min(ends) \in ends
    <3>. HIDE DEF ends
    <3>. QED  BY <1>4, <2>1, LeastOfNaturals
  <2>3. Tiles(p, dir) = IF StopsAt(Tile(p, dir, Min(ends))) THEN Min(ends) + 1 ELSE 0
    BY <1>4 DEF Tiles
  <2>4. Min(ends) \in Nat
    BY <2>1, <2>2
  <2>. HIDE DEF ends
  <2>5. CASE StopsAt(Tile(p, dir, Min(ends)))
    <3>1. Tiles(p, dir) - 1 = Min(ends)
      BY <2>3, <2>4, <2>5
    <3>. QED  BY <2>3, <2>4, <2>5, <3>1 DEF StopsAt, OnRail
  <2>. QED  BY <2>3, <2>5
<1>. QED
  BY <1>2, <1>3, <1>4

\* Offsets of the first tile of a block, and of the others in it.
LEMMA PlaceInBlock ==
  ASSUME NEW q \in Int, NEW r \in 0..ZoneSize-1
  PROVE  (q * ZoneSize + r) % ZoneSize = r
<1>1. ZoneSize \in Nat \ {0}
  BY PushAssumption
<1>. QED
  BY <1>1

\* The last tile of a loop that no tile ends lies at the edge of the block.
LEMMA LoopEndsAtEdge ==
  ASSUME NEW p \in Plane, NEW dir \in Dirs, Turns(p, dir) > 0
  PROVE  AtEdge(Tile(p, dir, Turns(p, dir) - 1), dir)
<1>. DEFINE c == IF dir \in {"up", "down"} THEN p[2] ELSE p[1]
            q == Quotient(c, ZoneSize)
            n == Turns(p, dir)
            end == Tile(p, dir, n - 1)
<1>1. ZoneSize \in Nat \ {0} /\ p[1] \in Int /\ p[2] \in Int /\ c \in Int
  BY PushAssumption DEF Plane
<1>2. q \in Int /\ q * ZoneSize \in Int
  BY <1>1, BlockBegins
<1>3. n = IF dir \in {"up", "left"} THEN c - q * ZoneSize + 1 ELSE q * ZoneSize + ZoneSize - 1 - c
  BY DEF Turns
<1>4. n \in Int /\ n > 0
  BY TurnsTyped
<1>. HIDE DEF q, n
<1>5. CASE dir \in {"up", "left"}
  <2>1. (IF dir \in {"up", "down"} THEN end[2] ELSE end[1]) = q * ZoneSize + 0
    BY <1>1, <1>2, <1>3, <1>4, <1>5 DEF Tile
  <2>2. 0 \in 0..ZoneSize-1
    BY <1>1
  <2>3. (q * ZoneSize + 0) % ZoneSize = 0
    BY <1>2, <2>2, PlaceInBlock
  <2>. QED  BY <1>5, <2>1, <2>3 DEF AtEdge, n
<1>6. CASE dir \in {"down", "right"} /\ ZoneSize = 1
  <2>1. q = c
    <3>1. \A m \in Int : m \div 1 = m
      OBVIOUS
    <3>2. c < 0 => (-c) \in Int /\ -(-c) = c
      BY <1>1
    <3>. QED  BY <1>1, <1>6, <3>1, <3>2 DEF Quotient, q
  <2>. QED  BY <1>1, <1>3, <1>4, <1>6, <2>1
<1>7. CASE dir \in {"down", "right"} /\ ZoneSize # 1
  <2>1. (IF dir \in {"up", "down"} THEN end[2] ELSE end[1]) = q * ZoneSize + (ZoneSize - 2)
    BY <1>1, <1>2, <1>3, <1>4, <1>7 DEF Tile
  <2>2. ZoneSize - 2 \in 0..ZoneSize-1
    BY <1>1, <1>7
  <2>3. (q * ZoneSize + (ZoneSize - 2)) % ZoneSize = ZoneSize - 2
    BY <1>2, <2>2, PlaceInBlock
  <2>. QED  BY <1>7, <2>1, <2>3 DEF AtEdge, n
<1>. QED
  BY <1>5, <1>6, <1>7 DEF Dirs

\* The last tile that is counted is a stopper or lies at the edge of its block.
LEMMA TilesEnd ==
  ASSUME NEW p \in Plane, NEW dir \in Dirs, Tiles(p, dir) # 0
  PROVE  LET rest == Tile(p, dir, Tiles(p, dir) - 1)
         IN  rest \in Stoppers \/ AtEdge(rest, dir)
<1>. DEFINE turns == Turns(p, dir)
            ends == {j \in 0..turns-1 : ~GoesOn(Tile(p, dir, j))}
<1>1. turns \in Int
  BY TurnsTyped
<1>2. CASE ends = {}
  <2>1. Tiles(p, dir) = turns /\ turns > 0
    BY <1>2 DEF Tiles
  <2>. QED  BY <2>1, LoopEndsAtEdge
<1>3. CASE ends # {}
  <2>1. ends \in SUBSET Nat
    BY <1>1
  <2>2. Min(ends) \in Nat
    <3>. HIDE DEF ends
    <3>. QED  BY <1>3, <2>1, LeastOfNaturals
  <2>3. Tiles(p, dir) = Min(ends) + 1 /\ StopsAt(Tile(p, dir, Min(ends)))
    BY <1>3 DEF Tiles
  <2>. HIDE DEF ends
  <2>4. Tiles(p, dir) - 1 = Min(ends)
    BY <2>2, <2>3
  <2>. QED  BY <2>3, <2>4 DEF StopsAt
<1>. QED
  BY <1>2, <1>3

\* The signed tiles of the works lead where the loop has counted.
LEMMA SignedTiles ==
  ASSUME NEW p \in Plane, NEW dir \in Dirs, NEW n \in Nat
  PROVE  /\ Signed(dir, n) \in Int
         /\ Displaced(p, dir, Signed(dir, n)) = Tile(p, dir, n)
         /\ Displaced(p, dir, Signed(dir, n)) = Tile(Tile(p, dir, 1), dir, n - 1)
         /\ Displaced(Tile(p, dir, 1), dir, Signed(dir, n)) = Tile(p, dir, n + 1)
         /\ (IF Signed(dir, n) < 0 THEN -Signed(dir, n) ELSE Signed(dir, n)) = n
<1>1. p[1] \in Int /\ p[2] \in Int
  BY DEF Plane
<1>2. CASE dir = "up"
  BY <1>1, <1>2 DEF Signed, Displaced, Tile
<1>3. CASE dir = "down"
  BY <1>1, <1>3 DEF Signed, Displaced, Tile
<1>4. CASE dir = "left"
  BY <1>1, <1>4 DEF Signed, Displaced, Tile
<1>5. CASE dir = "right"
  BY <1>1, <1>5 DEF Signed, Displaced, Tile
<1>. QED
  BY <1>2, <1>3, <1>4, <1>5 DEF Dirs

-----------------------------------------------------------------------------
(* Types.                                                                  *)

\* The objects are numbered from 0.
LEMMA EntitiesAreNumbers ==
  /\ Cardinality(Entities) \in Nat
  /\ Entities = 0..(Cardinality(Entities) - 1)
  /\ 0 \in Entities
<1>1. Cardinality(Entities) \in Nat
  BY PushAssumption, FS_CardinalityType
<1>2. Entities = 0..(Cardinality(Entities) - 1) /\ Entities # {}
  BY PushAssumption
<1>. QED
  BY <1>1, <1>2

\* The next object of the loop lies behind the last one, is of the kind the loop
\* looks for, and the player touches it.
LEMMA NextIsBehind ==
  ASSUME NEW k \in Kinds, NEW j \in Entities \cup {-1}
  PROVE  /\ NextEntity(k, j) \in Nat
         /\ NextEntity(k, j) > j
         /\ NextEntity(k, j) \in Entities =>
              Ogi[NextEntity(k, j)] = k /\ Touches(NextEntity(k, j))
<1>. DEFINE rest == {e \in OfKind(k) : e > j /\ Touches(e)}
<1>1. rest \in SUBSET Nat
  BY EntitiesAreNumbers DEF OfKind
<1>2. CASE rest = {}
  <2>1. NextEntity(k, j) = Cardinality(Entities)
    BY <1>2 DEF NextEntity
  <2>2. Cardinality(Entities) \notin Entities /\ Cardinality(Entities) > j
    BY EntitiesAreNumbers
  <2>. QED  BY <2>1, <2>2, EntitiesAreNumbers
<1>3. CASE rest # {}
  <2>1. NextEntity(k, j) = Min(rest)
    BY <1>3 DEF NextEntity
  <2>2. Min(rest) \in rest
    <3>. HIDE DEF rest
    <3>. QED  BY <1>1, <1>3, LeastOfNaturals
  <2>. QED  BY <1>1, <2>1, <2>2 DEF OfKind
<1>. QED
  BY <1>2, <1>3

\* TiresOn is the number of an object or -1; it is active tires on the tile, and
\* -1 only if there are none.
LEMMA TiresTyped ==
  ASSUME NEW p
  PROVE  /\ TiresOn(p) \in Entities \cup {-1}
         /\ LET hits == {e \in OfKind("tires") : active[e] /\ grid[e] = p}
            IN  IF TiresOn(p) = -1 THEN hits = {} ELSE TiresOn(p) \in hits
<1>. DEFINE hits == {e \in OfKind("tires") : active[e] /\ grid[e] = p}
            n == Cardinality(Entities) - 1
<1>1. n \in Nat /\ hits \in SUBSET (0..n)
  BY EntitiesAreNumbers DEF OfKind
<1>2. CASE hits = {}
  BY <1>2 DEF TiresOn
<1>3. CASE hits # {}
  <2>1. TiresOn(p) = Max(hits)
    BY <1>3 DEF TiresOn
  <2>2. Max(hits) \in hits
    <3>. HIDE DEF hits, n
    <3>. QED  BY <1>1, <1>3, GreatestOfNaturals
  <2>3. Max(hits) \in Entities /\ Max(hits) # -1
    BY <1>1, <2>2, EntitiesAreNumbers DEF OfKind
  <2>. QED  BY <2>1, <2>2, <2>3
<1>. QED
  BY <1>2, <1>3

\* The types hold at first.
LEMMA TypedInit == Init => TypeOK
<1>. SUFFICES ASSUME Init PROVE TypeOK
  OBVIOUS
<1>1. input \in Inputs({Nowhere} \cup Int \X Int)
  BY DEF Init, Inputs
<1>2. grid \in [Entities -> Int \X Int]
  BY PushAssumption DEF Init
<1>3. work \in [Kinds -> [id : Entities, dir : Dirs, tiles : Int, hit : Entities \cup {-1}]]
  BY EntitiesAreNumbers DEF Init, Dirs
<1>. QED
  BY <1>1, <1>2, <1>3, EntitiesAreNumbers DEF Init, TypeOK, NoOld, Events

\* Every step keeps the types.
LEMMA TypedStep == TypeOK /\ [Next]_vars => TypeOK'
<1>. SUFFICES ASSUME TypeOK, [Next]_vars PROVE TypeOK'
  OBVIOUS
<1>. USE DEF TypeOK
<1>h. /\ input.delta \in Nat /\ input.dir \in Dirs
      /\ input.spot \in {Nowhere} \cup Int \X Int
  BY PushAssumption DEF Inputs
<1>p. PushTime \in Nat
  BY PushAssumption
<1>1. CASE KairikiPushObject
  <2>1. input' \in Inputs({Nowhere} \cup Int \X Int)
    BY <1>1 DEF KairikiPushObject, Inputs
  <2>2. input'.delta \in Nat
    BY <2>1, PushAssumption DEF Inputs
  <2>3. held' \in [Entities -> Nat \cup {-1}]
    <3>1. ASSUME NEW e \in Entities, held[e] # -1
          PROVE  Longer(held[e], input'.delta) \in Nat
      BY <3>1, <2>2, <1>p DEF Longer
    <3>. QED  BY <3>1, <1>1 DEF KairikiPushObject
  <2>. QED  BY <2>1, <2>3, <1>1 DEF KairikiPushObject, statics, objects, Kinds
<1>2. ASSUME NEW k \in Kinds, Enter(k)  PROVE TypeOK'
  <2>1. NextEntity(k, -1) \in Nat
    BY NextIsBehind
  <2>2. CASE IsPlayerAbleToPush
    BY <1>2, <2>1, <2>2 DEF Enter, StartLoop, objects
  <2>3. CASE ~IsPlayerAbleToPush
    BY <1>2, <2>3 DEF Enter, Leave, NoOld, objects, Kinds
  <2>. QED  BY <2>2, <2>3
<1>3. ASSUME NEW k \in Kinds, LoopEnds(k)  PROVE TypeOK'
  BY <1>3 DEF LoopEnds, Leave, NoOld, objects, statics, Kinds
<1>g. ASSUME NEW k \in Kinds, GoOn(k), i \in Entities
      PROVE  i' \in Nat /\ pc' \in {"enter", "loop"} \X Kinds
  <2>1. NextEntity(k, i) \in Nat
    BY <1>g, NextIsBehind
  <2>. QED  BY <1>g, <2>1 DEF GoOn
<1>4. ASSUME NEW k \in Kinds, Bump(k)  PROVE TypeOK'
  BY <1>4, <1>g DEF Bump, objects, statics
<1>5. CASE Blocked
  BY <1>5 DEF Blocked, Leave, NoOld, objects, statics, Kinds
<1>o. ASSUME NEW k \in Kinds, Hold(k), i \in Entities
      PROVE  obj' \in [Kinds -> Entities \cup {-1}] /\ time' \in [Kinds -> Nat]
  <2>1. old.time + input.delta \in Nat
    BY <1>h
  <2>. QED  BY <1>o, <2>1 DEF Hold
<1>6. CASE PushBag
  <2>. DEFINE k == "punchingBag"
  <2>1. k \in Kinds /\ i \in Entities /\ Hold(k) /\ GoOn(k)
    BY <1>6 DEF PushBag, Kinds
  <2>2. grid[i] \in Plane
    BY <2>1 DEF Plane
  <2>3. Tiles(Outgrid(i), input.dir) \in Nat
    BY <2>2, <1>h, TileTyped, TilesFollowRail DEF Outgrid
  <2>4. Signed(input.dir, Tiles(Outgrid(i), input.dir)) \in Int
    BY <2>2, <2>3, <1>h, SignedTiles
  <2>5. \A p : TiresOn(p) \in Entities \cup {-1}
    BY TiresTyped
  <2>6. work' \in [Kinds -> [id : Entities, dir : Dirs, tiles : Int, hit : Entities \cup {-1}]]
    BY <1>6, <1>h, <2>1, <2>4, <2>5 DEF PushBag
  <2>7. event' \in Events /\ halted' \subseteq {"x", "z", "bicycle"}
    BY <1>6 DEF PushBag, Events
  <2>. QED  BY <1>6, <1>g, <1>o, <2>1, <2>6, <2>7 DEF PushBag, objects
<1>7. CASE PushContactable
  <2>. DEFINE k == "contactable"
  <2>1. k \in Kinds /\ i \in Entities /\ Hold(k) /\ GoOn(k)
    BY <1>7 DEF PushContactable, Kinds
  <2>6. work' \in [Kinds -> [id : Entities, dir : Dirs, tiles : Int, hit : Entities \cup {-1}]]
    BY <1>7, <1>h, <2>1 DEF PushContactable
  <2>7. event' \in Events /\ halted' \subseteq {"x", "z", "bicycle"}
    BY <1>7 DEF PushContactable, Events
  <2>. QED  BY <1>7, <1>g, <1>o, <2>1, <2>6, <2>7 DEF PushContactable, objects
<1>8. CASE BagScript
  <2>. DEFINE w == work["punchingBag"]
  <2>1. /\ w.id \in Entities /\ w.tiles \in Int /\ w.hit \in Entities \cup {-1}
        /\ grid[w.id] \in Int \X Int
    BY DEF Kinds
  <2>2. Displaced(grid[w.id], w.dir, w.tiles) \in Int \X Int
    <3>. HIDE DEF w
    <3>. QED  BY <2>1 DEF Displaced
  <2>3. grid' \in [Entities -> Int \X Int]
    BY <1>8, <2>2 DEF BagScript
  <2>4. active' \in [Entities -> BOOLEAN]
    BY <1>8, <2>1 DEF BagScript
  <2>. QED  BY <1>8, <2>3, <2>4 DEF BagScript, frame, statics, Events
<1>9. CASE OtherScriptStarts
  BY <1>9 DEF OtherScriptStarts, frame, statics, objects, Events
<1>10. CASE OtherScriptEnds
  BY <1>10 DEF OtherScriptEnds, frame, statics, objects, Events
<1>11. CASE UNCHANGED vars
  BY <1>11 DEF vars, frame, statics, objects
<1>. QED
  BY <1>1, <1>2, <1>3, <1>4, <1>5, <1>6, <1>7, <1>8, <1>9, <1>10, <1>11 DEF Next, Frame

\* Types, for every map, list of objects and length of frames: the loops stay in
\* the list and the works name objects of it.
THEOREM PushTyped == Spec => []TypeOK
<1>1. Init => TypeOK
  BY TypedInit
<1>2. TypeOK /\ [Next]_vars => TypeOK'
  BY TypedStep
<1>. QED
  BY <1>1, <1>2, PTL DEF Spec

-----------------------------------------------------------------------------
(* The inductive invariant.                                                *)

\* What the pad says, and what can be pushed if no script runs.
WantsToPush ==
  /\ ~input.pad.menu /\ input.pad.active /\ input.pad.stickPower > 0
  /\ input.pad.analog \/ ~input.pad.along
CanMove(e) ==
  /\ WantsToPush /\ PushEntity(e) /\ Ogi[e] \in Kinds
  /\ Ogi[e] = "punchingBag" => Tiles(Outgrid(e), input.dir) # 0

\* The function for kind k is still to run in this frame.
IsAhead(k) ==
  \/ pc = <<"enter", k>>
  \/ k = "contactable" /\ pc \in {<<"enter", "punchingBag">>, <<"loop", "punchingBag">>}

Capped(t) == IF t < PushTime THEN t ELSE PushTime

\* The loop is at an object that the player touches, and has passed the one
\* whose script it has started.
InLoop ==
  pc[1] = "loop" =>
    /\ WantsToPush
    /\ i \in Entities => Ogi[i] = pc[2] /\ Touches(i)
    /\ event # "none" => i > old.obj

\* What can be pushed has been counted.
CountsHeld ==
  pc[1] # "frame" /\ (event = "none" \/ pc[1] = "loop") =>
    \A e \in Entities : CanMove(e) => held[e] # -1

\* The statics say no more than the history.
TimeIsHeld ==
  \A k \in Kinds, e \in Entities : obj[k] = e =>
    IF IsAhead(k) THEN held[e] = -1 \/ Capped(time[k] + input.delta) <= held[e]
    ELSE held[e] # -1 /\ Capped(time[k]) <= held[e]
OldIsHeld ==
  pc[1] = "loop" =>
    \A e \in Entities : old.obj = e =>
      held[e] = -1 \/ Capped(old.time + input.delta) <= held[e]

HeldInv == TypeOK /\ InLoop /\ CountsHeld /\ TimeIsHeld /\ OldIsHeld

\* The invariant holds at first.
LEMMA HeldInit == Init => HeldInv
<1>. SUFFICES ASSUME Init PROVE HeldInv
  OBVIOUS
<1>1. TypeOK
  BY TypedInit
<1>2. InLoop /\ CountsHeld /\ OldIsHeld
  BY DEF Init, InLoop, CountsHeld, OldIsHeld
<1>3. TimeIsHeld
  <2>1. \A k \in Kinds : obj[k] = -1
    BY DEF Init
  <2>2. -1 \notin Entities
    BY EntitiesAreNumbers
  <2>. QED  BY <2>1, <2>2 DEF TimeIsHeld
<1>. QED
  BY <1>1, <1>2, <1>3 DEF HeldInv

\* A frame begins: the history goes on as long as the statics will.
LEMMA HeldFrame == HeldInv /\ KairikiPushObject => HeldInv'
<1>. SUFFICES ASSUME HeldInv, KairikiPushObject PROVE HeldInv'
  OBVIOUS
<1>t. TypeOK /\ TypeOK'
  <2>1. [Next]_vars
    BY DEF Next, Frame
  <2>. QED  BY <2>1, TypedStep DEF HeldInv
<1>d. /\ pc = <<"frame", "none">> /\ pc' = <<"enter", "punchingBag">>
      /\ UNCHANGED <<i, old, obj, time, work, event, grid, active>>
  BY DEF KairikiPushObject, statics, objects
<1>h. \A e \in Entities : held'[e] =
        IF ~PushedNow(e)' THEN -1
        ELSE IF held[e] = -1 THEN 0 ELSE Longer(held[e], input'.delta)
  BY DEF KairikiPushObject
<1>n. PushTime \in Nat /\ input'.delta \in Nat
  BY <1>t, PushAssumption DEF TypeOK, Inputs
<1>1. InLoop' /\ OldIsHeld'
  BY <1>d DEF InLoop, OldIsHeld
<1>2. CountsHeld'
  <2>. SUFFICES ASSUME NEW e \in Entities, CanMove(e)', event' = "none"
       PROVE  held'[e] # -1
    BY <1>d DEF CountsHeld
  <2>1. PushedNow(e)'
    BY DEF PushedNow, CanMove, IsPlayerAbleToPush, WantsToPush
  <2>2. held[e] # -1 => Longer(held[e], input'.delta) \in Nat
    BY <1>t, <1>n DEF Longer, TypeOK
  <2>. QED  BY <2>1, <2>2, <1>h
<1>3. TimeIsHeld'
  <2>. SUFFICES ASSUME NEW k \in Kinds, NEW e \in Entities, obj[k] = e, held'[e] # -1
       PROVE  Capped(time[k] + input'.delta) <= held'[e]
    BY <1>d DEF TimeIsHeld, Capped, IsAhead, Kinds
  <2>2. ~IsAhead(k)
    BY <1>d DEF IsAhead, Kinds
  <2>3. held[e] # -1 /\ Capped(time[k]) <= held[e]
    BY <2>2 DEF HeldInv, TimeIsHeld
  <2>4. held'[e] = Longer(held[e], input'.delta)
    BY <1>h, <2>3
  <2>5. held[e] \in Nat /\ time[k] \in Nat
    BY <1>t, <2>3 DEF TypeOK
  <2>6. Capped(time[k] + input'.delta) <= Longer(held[e], input'.delta)
    BY <1>n, <2>3, <2>5 DEF Capped, Longer
  <2>. QED  BY <2>4, <2>6
<1>. QED
  BY <1>1, <1>2, <1>3, <1>t DEF HeldInv

\* What a frame's steps leave alone: where things are, the input, the history.
SameFrame == UNCHANGED <<input, grid, active, held>>

\* What can be pushed does not change within a frame.
LEMMA SameCanMove ==
  ASSUME SameFrame, NEW e \in Entities
  PROVE  /\ WantsToPush' <=> WantsToPush
         /\ Touches(e)' <=> Touches(e)
         /\ CanMove(e)' <=> CanMove(e)
BY DEF SameFrame, WantsToPush, CanMove, PushEntity, Touches, Outgrid

\* A function begins: its statics become the old ones.
LEMMA HeldEnter ==
  ASSUME NEW k \in Kinds, HeldInv, Enter(k)
  PROVE  HeldInv'
<1>t. TypeOK /\ TypeOK'
  <2>1. [Next]_vars
    BY DEF Next, Frame
  <2>. QED  BY <2>1, TypedStep DEF HeldInv
<1>d. /\ pc = <<"enter", k>> /\ SameFrame
      /\ event' = event
      /\ obj' = [obj EXCEPT ![k] = -1] /\ time' = [time EXCEPT ![k] = 0]
      /\ IF IsPlayerAbleToPush THEN StartLoop(k) ELSE Leave(k)
  BY DEF Enter, SameFrame, objects
<1>k. k \in {"punchingBag", "contactable"}
  BY DEF Kinds
<1>o. \A l \in Kinds : l # k => obj'[l] = obj[l] /\ time'[l] = time[l]
  BY <1>d, <1>t DEF TypeOK
<1>p. IF IsPlayerAbleToPush THEN pc' = <<"loop", k>>
      ELSE pc' = IF k = "punchingBag" THEN <<"enter", "contactable">> ELSE <<"frame", "none">>
  BY <1>d DEF StartLoop, Leave
<1>1. InLoop'
  <2>. SUFFICES ASSUME pc'[1] = "loop"  PROVE InLoop'
    BY DEF InLoop
  <2>1. IsPlayerAbleToPush /\ StartLoop(k)
    BY <1>d, <1>p, <1>k
  <2>2. WantsToPush' /\ event' = "none"
    BY <1>d, <2>1 DEF IsPlayerAbleToPush, WantsToPush, SameFrame
  <2>3. i' = NextEntity(k, -1) /\ pc' = <<"loop", k>>
    BY <2>1 DEF StartLoop
  <2>4. i' \in Entities => Ogi[i'] = k /\ Touches(i')
    BY <2>3, NextIsBehind
  <2>5. i' \in Entities => Ogi[i'] = k /\ (grid[i'] = input.spot /\ active[i'])
    BY <2>4 DEF Touches
  <2>6. i' \in Entities => Touches(i)'
    BY <2>5, <1>d DEF Touches, SameFrame
  <2>. QED  BY <2>2, <2>3, <2>4, <2>6 DEF InLoop
<1>2. CountsHeld'
  <2>. SUFFICES ASSUME NEW e \in Entities, CanMove(e)', event' = "none" \/ pc'[1] = "loop"
       PROVE  held'[e] # -1
    BY DEF CountsHeld
  <2>1. event = "none"
    <3>1. CASE IsPlayerAbleToPush
      BY <3>1 DEF IsPlayerAbleToPush
    <3>2. CASE ~IsPlayerAbleToPush
      BY <1>d, <1>p, <1>k, <3>2
    <3>. QED  BY <3>1, <3>2
  <2>2. CanMove(e)
    BY <1>d, SameCanMove
  <2>. QED  BY <1>d, <2>1, <2>2 DEF HeldInv, CountsHeld, SameFrame
<1>3. TimeIsHeld'
  <2>. SUFFICES ASSUME NEW l \in Kinds, NEW e \in Entities, obj'[l] = e
       PROVE  IF IsAhead(l)' THEN held'[e] = -1 \/ Capped(time'[l] + input'.delta) <= held'[e]
              ELSE held'[e] # -1 /\ Capped(time'[l]) <= held'[e]
    BY DEF TimeIsHeld, Capped
  <2>1. l # k
    <3>1. obj'[k] = -1
      BY <1>d, <1>t DEF TypeOK
    <3>. QED  BY <3>1, EntitiesAreNumbers
  <2>2. IsAhead(l)' <=> IsAhead(l)
    BY <1>d, <1>p, <1>k, <2>1 DEF IsAhead, Kinds
  <2>3. obj[l] = e /\ time'[l] = time[l]
    BY <1>o, <2>1
  <2>. QED  BY <1>d, <2>2, <2>3 DEF HeldInv, TimeIsHeld, SameFrame
<1>4. OldIsHeld'
  <2>. SUFFICES ASSUME pc'[1] = "loop", NEW e \in Entities, old'.obj = e
       PROVE  held'[e] = -1 \/ Capped(old'.time + input'.delta) <= held'[e]
    BY DEF OldIsHeld, Capped
  <2>1. old' = [obj |-> obj[k], time |-> time[k]]
    BY <1>d, <1>p, <1>k DEF StartLoop
  <2>2. IsAhead(k)
    BY <1>d DEF IsAhead
  <2>. QED  BY <1>d, <2>1, <2>2 DEF HeldInv, TimeIsHeld, SameFrame
<1>. QED
  BY <1>1, <1>2, <1>3, <1>4, <1>t DEF HeldInv

\* A function returns.
LEMMA HeldLeave ==
  ASSUME NEW k \in Kinds, HeldInv, TypeOK', pc = <<"loop", k>>, Leave(k), SameFrame,
         UNCHANGED <<obj, time, event>>
  PROVE  HeldInv'
<1>k. k \in {"punchingBag", "contactable"}
  BY DEF Kinds
<1>p. pc' = IF k = "punchingBag" THEN <<"enter", "contactable">> ELSE <<"frame", "none">>
  BY DEF Leave
<1>1. InLoop' /\ OldIsHeld'
  BY <1>p, <1>k DEF InLoop, OldIsHeld
<1>2. CountsHeld'
  <2>. SUFFICES ASSUME NEW e \in Entities, CanMove(e)'
       PROVE  held'[e] # -1
    BY DEF CountsHeld
  <2>1. CanMove(e)
    BY SameCanMove
  <2>. QED  BY <2>1 DEF HeldInv, CountsHeld, SameFrame
<1>3. TimeIsHeld'
  <2>1. \A l \in Kinds : IsAhead(l)' <=> IsAhead(l)
    BY <1>p, <1>k DEF IsAhead, Kinds
  <2>. QED  BY <2>1 DEF HeldInv, TimeIsHeld, SameFrame, Capped
<1>. QED
  BY <1>1, <1>2, <1>3 DEF HeldInv

\* The loop goes on after an object that has not been pushed.
LEMMA HeldBump ==
  ASSUME NEW k \in Kinds, HeldInv, Bump(k)
  PROVE  HeldInv'
<1>t. TypeOK /\ TypeOK'
  <2>1. [Next]_vars
    BY DEF Next, Frame
  <2>. QED  BY <2>1, TypedStep DEF HeldInv
<1>d. /\ pc = <<"loop", k>> /\ i \in Entities /\ GoOn(k) /\ SameFrame
      /\ UNCHANGED <<obj, time, old, event>>
  BY DEF Bump, SameFrame, statics, objects
<1>p. pc' = pc /\ i' = NextEntity(k, i)
  BY <1>d DEF GoOn
<1>1. InLoop'
  <2>1. /\ i' > i
        /\ i' \in Entities => Ogi[i'] = k /\ Touches(i')
    BY <1>d, <1>p, NextIsBehind
  <2>2. i' \in Entities => Touches(i)'
    BY <2>1, <1>d DEF Touches, SameFrame
  <2>3. WantsToPush'
    BY <1>d, SameCanMove DEF HeldInv, InLoop
  <2>4. event # "none" => i > old.obj
    BY <1>d DEF HeldInv, InLoop
  <2>5. i \in Int /\ i' \in Int /\ old.obj \in Int
    <3>1. \A x \in Entities \cup {-1} : x \in Int
      BY EntitiesAreNumbers
    <3>2. i \in Nat /\ i' \in Nat /\ old.obj \in Entities \cup {-1}
      BY <1>t DEF TypeOK
    <3>. QED  BY <3>1, <3>2
  <2>6. event' # "none" => i' > old'.obj
    BY <2>1, <2>4, <2>5, <1>d
  <2>. QED  BY <2>1, <2>2, <2>3, <2>6, <1>d, <1>p DEF InLoop
<1>2. CountsHeld'
  <2>. SUFFICES ASSUME NEW e \in Entities, CanMove(e)'
       PROVE  held'[e] # -1
    BY DEF CountsHeld
  <2>1. CanMove(e)
    BY <1>d, SameCanMove
  <2>. QED  BY <2>1, <1>d DEF HeldInv, CountsHeld, SameFrame
<1>3. TimeIsHeld' /\ OldIsHeld'
  <2>1. \A l \in Kinds : IsAhead(l)' <=> IsAhead(l)
    BY <1>p DEF IsAhead
  <2>. QED  BY <2>1, <1>d, <1>p DEF HeldInv, TimeIsHeld, OldIsHeld, SameFrame, Capped
<1>. QED
  BY <1>1, <1>2, <1>3, <1>t DEF HeldInv

\* The numbers that are compared.
LEMMA NumbersTyped ==
  ASSUME TypeOK
  PROVE  /\ PushTime \in Nat /\ input.delta \in Nat
         /\ i \in Int /\ old.obj \in Int /\ old.time \in Nat
         /\ \A e \in Entities : held[e] \in Nat \cup {-1}
<1>1. \A x \in Entities \cup {-1} : x \in Int
  BY EntitiesAreNumbers
<1>2. i \in Nat /\ old.obj \in Entities \cup {-1} /\ old.time \in Nat
  BY DEF TypeOK
<1>3. PushTime \in Nat /\ input.delta \in Nat
  BY PushAssumption DEF TypeOK, Inputs
<1>4. \A e \in Entities : held[e] \in Nat \cup {-1}
  BY DEF TypeOK
<1>5. old.obj \in Int
  BY <1>1, <1>2
<1>. QED
  BY <1>2, <1>3, <1>4, <1>5

\* An object is pushed: PushBag and PushContactable alike.
LEMMA HeldPush ==
  ASSUME NEW k \in Kinds, HeldInv, TypeOK', pc = <<"loop", k>>, i \in Entities,
         GoOn(k), Hold(k), SameFrame, old' = old, CanMove(i),
         event' = event \/ LongEnough(k)
  PROVE  /\ HeldInv'
         /\ LongEnough(k) => event = "none" /\ held[i] >= PushTime
<1>p. pc' = pc /\ i' = NextEntity(k, i)
  BY DEF GoOn
<1>n. /\ PushTime \in Nat /\ input.delta \in Nat
      /\ i \in Int /\ i' \in Int /\ old.obj \in Int /\ old.time \in Nat
      /\ held[i] \in Nat \cup {-1}
  <2>1. TypeOK
    BY DEF HeldInv
  <2>2. i' \in Int
    BY DEF TypeOK
  <2>. QED  BY <2>1, <2>2, NumbersTyped
<1>h. /\ obj' = [obj EXCEPT ![k] = i]
      /\ time' = [time EXCEPT ![k] = IF old.obj = i THEN old.time + input.delta ELSE 0]
  BY DEF Hold
<1>k. /\ obj'[k] = i
      /\ time'[k] = IF old.obj = i THEN old.time + input.delta ELSE 0
      /\ \A l \in Kinds : l # k => obj'[l] = obj[l] /\ time'[l] = time[l]
  BY <1>h DEF HeldInv, TypeOK
<1>c. held[i] # -1
  BY DEF HeldInv, CountsHeld
<1>o. old.obj = i => Capped(old.time + input.delta) <= held[i]
  BY <1>c DEF HeldInv, OldIsHeld
<1>l. LongEnough(k) => event = "none" /\ held[i] >= PushTime
  <2>. SUFFICES ASSUME LongEnough(k)  PROVE event = "none" /\ held[i] >= PushTime
    OBVIOUS
  <2>1. old.obj = i /\ PushTime <= old.time + input.delta
    BY <1>k DEF LongEnough
  <2>2. Capped(old.time + input.delta) = PushTime
    BY <2>1, <1>n DEF Capped
  <2>3. event = "none"
    BY <2>1, <1>n DEF HeldInv, InLoop
  <2>. QED  BY <1>n, <1>o, <2>1, <2>2, <2>3
<1>1. InLoop'
  <2>1. /\ i' > i
        /\ i' \in Entities => Ogi[i'] = k /\ Touches(i')
    BY <1>p, NextIsBehind
  <2>2. i' \in Entities => Touches(i)'
    BY <2>1 DEF Touches, SameFrame
  <2>3. WantsToPush'
    BY SameCanMove DEF HeldInv, InLoop
  <2>4. event' # "none" => i >= old.obj
    <3>1. CASE event' = event
      <4>1. event' # "none" => i > old.obj
        BY <3>1 DEF HeldInv, InLoop
      <4>. QED  BY <4>1, <1>n
    <3>2. CASE LongEnough(k)
      BY <3>2, <1>n DEF LongEnough
    <3>. QED  BY <3>1, <3>2
  <2>5. event' # "none" => i' > old'.obj
    BY <2>1, <2>4, <1>n
  <2>. QED  BY <2>1, <2>2, <2>3, <2>5, <1>p DEF InLoop
<1>2. CountsHeld'
  <2>. SUFFICES ASSUME NEW e \in Entities, CanMove(e)'
       PROVE  held'[e] # -1
    BY DEF CountsHeld
  <2>1. CanMove(e)
    BY SameCanMove
  <2>. QED  BY <2>1 DEF HeldInv, CountsHeld, SameFrame
<1>3. TimeIsHeld'
  <2>. SUFFICES ASSUME NEW l \in Kinds, NEW e \in Entities, obj'[l] = e
       PROVE  IF IsAhead(l)' THEN held'[e] = -1 \/ Capped(time'[l] + input'.delta) <= held'[e]
              ELSE held'[e] # -1 /\ Capped(time'[l]) <= held'[e]
    BY DEF TimeIsHeld, Capped
  <2>1. IsAhead(l)' <=> IsAhead(l)
    BY <1>p DEF IsAhead
  <2>2. CASE l # k
    BY <2>1, <2>2, <1>k DEF HeldInv, TimeIsHeld, SameFrame
  <2>3. CASE l = k
    <3>1. ~IsAhead(k)
      BY DEF IsAhead, Kinds
    <3>2. e = i
      BY <2>3, <1>k
    <3>3. CASE old.obj = i
      BY <3>1, <3>2, <3>3, <2>1, <2>3, <1>k, <1>c, <1>o DEF SameFrame
    <3>4. CASE old.obj # i
      <4>1. time'[k] = 0 /\ Capped(0) <= held[i]
        BY <3>4, <1>k, <1>c, <1>n DEF Capped
      <4>. QED  BY <3>1, <3>2, <4>1, <2>1, <2>3, <1>c DEF SameFrame
    <3>. QED  BY <3>3, <3>4
  <2>. QED  BY <2>2, <2>3
<1>4. OldIsHeld'
  BY <1>p DEF HeldInv, OldIsHeld, SameFrame, Capped
<1>. QED
  BY <1>1, <1>2, <1>3, <1>4, <1>l DEF HeldInv

\* Whatever happens between two frames leaves what the invariant speaks about.
LEMMA HeldBetween ==
  ASSUME HeldInv, TypeOK', pc[1] = "frame",
         UNCHANGED <<pc, i, input, obj, time, old, held>>
  PROVE  HeldInv'
BY DEF HeldInv, InLoop, CountsHeld, TimeIsHeld, OldIsHeld, IsAhead, Capped

\* PushBag and PushContactable are pushes.
LEMMA PushesHold ==
  ASSUME HeldInv, NEW k \in Kinds,
         \/ k = "punchingBag" /\ PushBag
         \/ k = "contactable" /\ PushContactable
  PROVE  /\ pc = <<"loop", k>> /\ i \in Entities /\ GoOn(k) /\ Hold(k)
         /\ SameFrame /\ old' = old /\ CanMove(i)
         /\ IF LongEnough(k) THEN work'[k].id = i
            ELSE UNCHANGED <<work, event>>
<1>t. TypeOK
  BY DEF HeldInv
<1>1. /\ pc = <<"loop", k>> /\ i \in Entities /\ GoOn(k) /\ Hold(k)
      /\ SameFrame /\ old' = old /\ input.free
      /\ k = "punchingBag" => Tiles(Outgrid(i), input.dir) # 0
  BY DEF PushBag, PushContactable, SameFrame, objects
<1>2. WantsToPush /\ Ogi[i] = k /\ Touches(i)
  BY <1>1 DEF HeldInv, InLoop
<1>3. CanMove(i)
  BY <1>1, <1>2 DEF CanMove, PushEntity, Kinds
<1>4. CASE PushBag /\ k = "punchingBag"
  BY <1>1, <1>3, <1>4, <1>t DEF PushBag, TypeOK
<1>5. CASE PushContactable /\ k = "contactable"
  BY <1>1, <1>3, <1>5, <1>t DEF PushContactable, TypeOK
<1>. QED
  BY <1>4, <1>5

\* Every step keeps the invariant.
LEMMA HeldStep == HeldInv /\ [Next]_vars => HeldInv'
<1>. SUFFICES ASSUME HeldInv, [Next]_vars PROVE HeldInv'
  OBVIOUS
<1>t. TypeOK'
  BY TypedStep DEF HeldInv
<1>1. CASE KairikiPushObject
  BY <1>1, HeldFrame
<1>2. ASSUME NEW k \in Kinds, Enter(k)  PROVE HeldInv'
  BY <1>2, HeldEnter
<1>3. ASSUME NEW k \in Kinds, LoopEnds(k)  PROVE HeldInv'
  BY <1>3, <1>t, HeldLeave DEF LoopEnds, SameFrame, objects, statics
<1>4. ASSUME NEW k \in Kinds, Bump(k)  PROVE HeldInv'
  BY <1>4, HeldBump
<1>5. CASE Blocked
  BY <1>5, <1>t, HeldLeave DEF Blocked, SameFrame, objects, statics, Kinds
<1>6. ASSUME NEW k \in Kinds,
             \/ k = "punchingBag" /\ PushBag
             \/ k = "contactable" /\ PushContactable
      PROVE  HeldInv'
  <2>1. event' = event \/ LongEnough(k)
    BY <1>6, PushesHold
  <2>. QED  BY <1>6, <1>t, <2>1, PushesHold, HeldPush
<1>7. CASE BagScript \/ OtherScriptStarts \/ OtherScriptEnds
  <2>1. pc[1] = "frame" /\ UNCHANGED <<pc, i, input, obj, time, old, held>>
    BY <1>7 DEF BagScript, OtherScriptStarts, OtherScriptEnds, frame, statics, objects
  <2>. QED  BY <1>t, <2>1, HeldBetween
<1>8. CASE UNCHANGED vars
  BY <1>8 DEF vars, frame, statics, objects, HeldInv, TypeOK, InLoop, CountsHeld, TimeIsHeld,
     OldIsHeld, IsAhead, Capped, WantsToPush, CanMove, Touches, PushEntity, Outgrid
<1>9. "punchingBag" \in Kinds /\ "contactable" \in Kinds
  BY DEF Kinds
<1>. QED
  BY <1>1, <1>2, <1>3, <1>4, <1>5, <1>6, <1>7, <1>8, <1>9 DEF Next, Frame

\* The invariant holds throughout.
LEMMA AlwaysHeld == Spec => []HeldInv
<1>. QED
  BY HeldInit, HeldStep, PTL DEF Spec

\* A script starts only for an object that has been pushed, frame after frame, for
\* the time of the parameter: whatever the menus, scripts and other objects do.
LEMMA StartsHeld ==
  Spec => [][ /\ event = "none" /\ event' = "ev_punchingbag_move" => held[work'["punchingBag"].id] >= PushTime
              /\ event = "none" /\ event' = "talk" => held[work'["contactable"].id] >= PushTime ]_vars
<1>. DEFINE Starts ==
       /\ event = "none" /\ event' = "ev_punchingbag_move" => held[work'["punchingBag"].id] >= PushTime
       /\ event = "none" /\ event' = "talk" => held[work'["contactable"].id] >= PushTime
<1>1. HeldInv /\ [Next]_vars => [Starts]_vars
  <2>. SUFFICES ASSUME HeldInv, Next, event = "none",
                       event' \in {"ev_punchingbag_move", "talk"}
       PROVE  Starts
    OBVIOUS
  <2>1. PICK k \in Kinds : \/ k = "punchingBag" /\ PushBag
                           \/ k = "contactable" /\ PushContactable
    BY DEF Next, Frame, Kinds, KairikiPushObject, Enter, LoopEnds, Bump, Blocked, BagScript,
           OtherScriptStarts, OtherScriptEnds
  <2>2. TypeOK'
    BY TypedStep DEF HeldInv
  <2>3. LongEnough(k)
    BY <2>1, PushesHold
  <2>4. held[i] >= PushTime /\ work'[k].id = i
    BY <2>1, <2>2, <2>3, PushesHold, HeldPush
  <2>5. CASE k = "punchingBag" /\ PushBag
    BY <2>4, <2>3, <2>5 DEF PushBag
  <2>6. CASE k = "contactable" /\ PushContactable
    BY <2>4, <2>3, <2>6 DEF PushContactable
  <2>. QED  BY <2>1, <2>5, <2>6
<1>. QED
  BY <1>1, AlwaysHeld, PTL DEF Spec

\* While a script runs nothing changes its works, and no other script starts.
LEMMA WorksAreKept ==
  Spec => [][event # "none" => work' = work /\ event' \in {event, "none"}]_vars
<1>. DEFINE Kept == event # "none" => work' = work /\ event' \in {event, "none"}
<1>1. HeldInv /\ [Next]_vars => [Kept]_vars
  <2>. SUFFICES ASSUME HeldInv, Next, event # "none"  PROVE Kept
    OBVIOUS
  <2>1. ASSUME NEW k \in Kinds, \/ k = "punchingBag" /\ PushBag
                                \/ k = "contactable" /\ PushContactable
        PROVE  Kept
    <3>1. TypeOK'
      BY TypedStep DEF HeldInv
    <3>2. ~LongEnough(k)
      BY <2>1, <3>1, PushesHold, HeldPush
    <3>. QED  BY <2>1, <3>2, PushesHold
  <2>2. CASE KairikiPushObject \/ Blocked \/ BagScript \/ OtherScriptStarts \/ OtherScriptEnds
    BY <2>2 DEF KairikiPushObject, Blocked, BagScript, OtherScriptStarts, OtherScriptEnds
  <2>3. ASSUME NEW k \in Kinds, Enter(k) \/ LoopEnds(k) \/ Bump(k)
        PROVE  Kept
    BY <2>3 DEF Enter, LoopEnds, Bump
  <2>. QED  BY <2>1, <2>2, <2>3 DEF Next, Frame, Kinds
<1>. QED
  BY <1>1, AlwaysHeld, PTL DEF Spec

\* A script starts only for an object that has been pushed for the time of the
\* parameter, and runs undisturbed: the statics say no more than the history of
\* the pushes.
THEOREM PushHeldLongEnough == Spec => HeldLongEnough
  BY StartsHeld, WorksAreKept, PTL DEF HeldLongEnough

-----------------------------------------------------------------------------
(* Bags, rails and tires.                                                  *)

\* The works of a running script lead the bag along the rail.
WorksLead ==
  event = "ev_punchingbag_move" =>
    LET w == work["punchingBag"]
    IN  OnRail(Displaced(grid[w.id], w.dir, w.tiles))

RailInv == BagsOnRails /\ WorksLead /\ RestsAtEnd /\ BreaksTiresAhead

\* The works that PushBag writes: the bag comes to rest on its rail, where that ends,
\* and the tires are the ones behind that tile.
LEMMA PushBagLeads ==
  ASSUME HeldInv, PushBag, LongEnough("punchingBag")
  PROVE  WorksLead' /\ RestsAtEnd' /\ BreaksTiresAhead'
<1>. DEFINE p == grid[i]
            dir == input.dir
            n == Tiles(Outgrid(i), dir)
            w == work'["punchingBag"]
<1>1. i \in Entities /\ n # 0 /\ UNCHANGED <<grid, active>>
  BY DEF PushBag, objects
<1>2. p \in Plane /\ dir \in Dirs
  BY <1>1 DEF HeldInv, TypeOK, Plane, Inputs
<1>3. Outgrid(i) = Tile(p, dir, 1) /\ Outgrid(i) \in Plane
  BY <1>2, TileTyped DEF Outgrid
<1>4. /\ n \in Nat /\ OnRail(Tile(Outgrid(i), dir, n - 1))
      /\ Tile(Outgrid(i), dir, n - 1) \in Stoppers \/ AtEdge(Tile(Outgrid(i), dir, n - 1), dir)
  BY <1>1, <1>2, <1>3, TilesFollowRail, TilesEnd
<1>5. w = [id |-> i, dir |-> dir, tiles |-> Signed(dir, n),
           hit |-> TiresOn(Displaced(Outgrid(i), dir, Signed(dir, n)))]
  BY DEF PushBag, HeldInv, TypeOK, Kinds
<1>. HIDE DEF n
<1>6. /\ Displaced(p, dir, Signed(dir, n)) = Tile(Outgrid(i), dir, n - 1)
      /\ Displaced(Outgrid(i), dir, Signed(dir, n)) = Tile(p, dir, n + 1)
      /\ (IF Signed(dir, n) < 0 THEN -Signed(dir, n) ELSE Signed(dir, n)) = n
  BY <1>2, <1>3, <1>4, SignedTiles
<1>7. WorksLead'
  BY <1>1, <1>4, <1>5, <1>6 DEF WorksLead
<1>8. LET hits == {e \in OfKind("tires") : active[e] /\ grid[e] = Tile(p, dir, n + 1)}
      IN  IF w.hit = -1 THEN hits = {} ELSE w.hit \in hits
  BY <1>5, <1>6, TiresTyped
<1>9. BreaksTiresAhead'
  BY <1>1, <1>5, <1>6, <1>8 DEF BreaksTiresAhead
<1>10. RestsAtEnd'
  BY <1>1, <1>4, <1>5, <1>6 DEF RestsAtEnd
<1>. QED
  BY <1>7, <1>9, <1>10

\* Every step keeps bags on rails and the works of a running script right.
LEMMA RailStep == HeldInv /\ RailInv /\ [Next]_vars => RailInv'
<1>. SUFFICES ASSUME HeldInv, RailInv, [Next]_vars PROVE RailInv'
  OBVIOUS
<1>s. ASSUME UNCHANGED <<grid, active, work>>, event' \in {event, "none", "other", "talk"}
      PROVE  RailInv'
  BY <1>s DEF RailInv, BagsOnRails, WorksLead, RestsAtEnd, BreaksTiresAhead
<1>1. CASE KairikiPushObject \/ Blocked \/ OtherScriptStarts \/ OtherScriptEnds
  BY <1>1, <1>s DEF KairikiPushObject, Blocked, OtherScriptStarts, OtherScriptEnds, objects
<1>2. ASSUME NEW k \in Kinds, Enter(k) \/ LoopEnds(k) \/ Bump(k)
      PROVE  RailInv'
  BY <1>2, <1>s DEF Enter, LoopEnds, Bump, objects
<1>3. CASE PushBag
  <2>1. CASE LongEnough("punchingBag")
    <3>1. grid' = grid
      BY <1>3 DEF PushBag, objects
    <3>. QED  BY <1>3, <2>1, <3>1, PushBagLeads DEF RailInv, BagsOnRails
  <2>2. CASE ~LongEnough("punchingBag")
    BY <1>3, <2>2, <1>s DEF PushBag, objects
  <2>. QED  BY <2>1, <2>2
<1>4. CASE PushContactable
  <2>1. UNCHANGED <<grid, active>> /\ work'["punchingBag"] = work["punchingBag"]
    BY <1>4 DEF PushContactable, objects, HeldInv, TypeOK, Kinds
  <2>2. event' \in {event, "talk"}
    BY <1>4 DEF PushContactable
  <2>. QED  BY <2>1, <2>2 DEF RailInv, BagsOnRails, WorksLead, RestsAtEnd, BreaksTiresAhead
<1>5. CASE BagScript
  <2>. DEFINE w == work["punchingBag"]
  <2>1. grid' = [grid EXCEPT ![w.id] = Displaced(@, w.dir, w.tiles)] /\ event' = "none"
    BY <1>5 DEF BagScript
  <2>2. OnRail(Displaced(grid[w.id], w.dir, w.tiles))
    BY <1>5 DEF BagScript, RailInv, WorksLead
  <2>3. BagsOnRails'
    <3>. SUFFICES ASSUME NEW e \in OfKind("punchingBag")  PROVE OnRail(grid'[e])
      BY DEF BagsOnRails, OnRail
    <3>1. OnRail(grid[e]) /\ e \in Entities
      BY DEF RailInv, BagsOnRails, OnRail, OfKind
    <3>2. grid \in [Entities -> Int \X Int]
      BY DEF HeldInv, TypeOK
    <3>. QED  BY <2>1, <2>2, <3>1, <3>2
  <2>. QED  BY <2>1, <2>3 DEF RailInv, WorksLead, RestsAtEnd, BreaksTiresAhead
<1>6. CASE UNCHANGED vars
  BY <1>6, <1>s DEF vars, objects
<1>. QED
  BY <1>1, <1>2, <1>3, <1>4, <1>5, <1>6 DEF Next, Frame

\* At first every bag stands on its rail and no script runs.
LEMMA RailInit == Init => RailInv
BY PushAssumption DEF Init, RailInv, BagsOnRails, WorksLead, RestsAtEnd, BreaksTiresAhead, OfKind

\* Bags stay on their rails, whatever the map: no sequence of pushes in the four
\* directions, on rails that cross or end, brings one off.
THEOREM PushStaysOnRails == Spec => []BagsOnRails
<1>1. RailInv => BagsOnRails
  BY DEF RailInv
<1>. QED
  BY <1>1, RailInit, RailStep, AlwaysHeld, PTL DEF Spec

\* The tires that a script breaks are the active ones right behind the tile where
\* its bag comes to rest.
THEOREM PushBreaksTiresAhead == Spec => []BreaksTiresAhead
<1>1. RailInv => BreaksTiresAhead
  BY DEF RailInv
<1>. QED
  BY <1>1, RailInit, RailStep, AlwaysHeld, PTL DEF Spec

\* A bag that slides comes to rest on a stopper or where its block of the map ends,
\* wherever it was pushed and whatever lies on the way.
THEOREM PushRestsAtEnd == Spec => []RestsAtEnd
<1>1. RailInv => RestsAtEnd
  BY DEF RailInv
<1>. QED
  BY <1>1, RailInit, RailStep, AlwaysHeld, PTL DEF Spec

=============================================================================
