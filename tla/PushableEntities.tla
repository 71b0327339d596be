--------------------------- MODULE PushableEntities ---------------------------
(***************************************************************************)
(* The objects of the field that react to being pushed                     *)
(* (src/mod/features/pushable_entities.cpp): punching bags that slide      *)
(* along rails, and objects that call their script on contact.             *)
(*                                                                         *)
(* The game calls KairikiPushObject once per frame.  For each kind of      *)
(* object two statics remember which object has been pushed and for how    *)
(* long; when that is long enough, works describe what happens and a       *)
(* script is started.  Both functions walk over the list of field objects; *)
(* a step of the model is one turn of that loop.                           *)
(***************************************************************************)
EXTENDS Integers, FiniteSetsExt

CONSTANTS
  Ogi,        \* graphics index of each object, by its place in the list
  Start,      \* where each object stands at first
  Rails,      \* grid positions with the attribute MATTR_RAIL
  Stoppers,   \* grid positions with the attribute MATTR_RAIL_STOP
  Obstacles,  \* grid positions where GetAttribute says stop = 128
  ZoneSize,   \* tiles on each side of a block of the map: 32
  PushTime,   \* the parameter ParamIndx_Kairiki_PushTime
  DeltaTimes, \* lengths of a frame
  Nowhere,    \* no grid position: the player stands against nothing
  Pads        \* states of the menus, the input flag and the stick

VARIABLES
  pc,      \* between frames, or where in which of the two functions
  i,       \* index of the loop over _fieldObjectEntity
  input,   \* what the frame finds: dir, spot, free, pad, delta
  obj,     \* punchingBagObjIndex, contactableObjIndex
  time,    \* punchingBagPushTime, contactablePushTime
  old,     \* oldPushObj, oldPushTime
  work,    \* the works WK_PUNCHINGBAG_* and WK_CONTACTABLE_*
  event,   \* the script that runs
  halted,  \* what of the player's movement this frame has set to zero
  grid,    \* where the objects are
  active,  \* which objects are active
  held     \* history: how long each object has been pushed without a break, up to
           \* PushTime; -1 if it is not pushed

frame == <<pc, i, input, old, halted>>
statics == <<obj, time>>
objects == <<grid, active>>
vars == <<frame, statics, work, event, objects, held>>

Entities == DOMAIN Ogi
Kinds == {"punchingBag", "contactable"}
Dirs == {"up", "down", "left", "right"}
OfKind(k) == {e \in Entities : Ogi[e] = k}
Events == {"none", "other", "ev_punchingbag_move", "talk"}

ASSUME PushAssumption ==
  /\ Entities # {} /\ IsFiniteSet(Entities) /\ Entities = 0..(Cardinality(Entities) - 1)
  /\ Start \in [Entities -> Int \X Int]
  /\ Rails \subseteq Int \X Int /\ Stoppers \subseteq Int \X Int
  /\ Obstacles \subseteq Int \X Int /\ Nowhere \notin Int \X Int
  /\ Rails \cap Stoppers = {}
  /\ ZoneSize \in Nat \ {0} /\ PushTime \in Nat
  /\ DeltaTimes \subseteq Nat \ {0}
  /\ Pads \subseteq [menu : BOOLEAN, active : BOOLEAN, stickPower : Nat,
                     analog : BOOLEAN, along : BOOLEAN]
  /\ \A e \in OfKind("punchingBag") :
       Start[e] \in (Rails \cup Stoppers) \ Obstacles

\* What a frame may find: the direction of the player's yaw, the tile he stands
\* against, whether the tile behind it is free, menus and stick, _deltatime.
Inputs(spots) == [dir : Dirs, spot : spots, free : BOOLEAN, pad : Pads, delta : DeltaTimes]

-----------------------------------------------------------------------------
(* The rail.  Coordinates are integers and their quotient is cut towards 0. *)

Quotient(a, b) == IF a < 0 THEN -((-a) \div b) ELSE a \div b

\* The tile j steps from p.
Tile(p, dir, j) ==
  CASE dir = "up"    -> <<p[1], p[2] - j>>
    [] dir = "down"  -> <<p[1], p[2] + j>>
    [] dir = "left"  -> <<p[1] - j, p[2]>>
    [] dir = "right" -> <<p[1] + j, p[2]>>

\* Turns of the loop over the tiles from out on: down to the first tile of the
\* block, or up to but not including its last one.
Turns(out, dir) ==
  LET c     == IF dir \in {"up", "down"} THEN out[2] ELSE out[1]
      first == Quotient(c, ZoneSize) * ZoneSize
  IN  IF dir \in {"up", "left"} THEN c - first + 1 ELSE first + ZoneSize - 1 - c

\* Mutant: obstacles are only looked for on stoppers.
GoesOnThrough(t) == t \in Rails

\* PunchingBagAttributeCheck: where the bag goes on, and where it stops.
GoesOn(t)  == t \in Rails /\ t \notin Obstacles
StopsAt(t) == t \in Stoppers /\ t \notin Obstacles

\* Mutant: the stopper is not counted.
TilesShort(out, dir) ==
  LET ends == {j \in 0..Turns(out, dir)-1 : ~GoesOn(Tile(out, dir, j))}
  IN  IF ends = {} THEN Turns(out, dir)
      ELSE IF StopsAt(Tile(out, dir, Min(ends))) THEN Min(ends) ELSE 0

\* How many tiles the loop counts from out on: every rail, and the stopper
\* that ends them; an obstacle or the end of the rail makes it 0.
Tiles(out, dir) ==
  LET ends == {j \in 0..Turns(out, dir)-1 : ~GoesOn(Tile(out, dir, j))}
  IN  IF ends = {} THEN IF Turns(out, dir) > 0 THEN Turns(out, dir) ELSE 0
      ELSE IF StopsAt(Tile(out, dir, Min(ends))) THEN Min(ends) + 1 ELSE 0

\* The sign that the works give to the tiles.
Signed(dir, n) == IF dir \in {"up", "right"} THEN -n ELSE n

\* Where signed tiles lead from p: breakableGrid, and the script's movement.
Displaced(p, dir, tiles) ==
  IF dir \in {"up", "down"} THEN <<p[1], p[2] + tiles>> ELSE <<p[1] - tiles, p[2]>>

-----------------------------------------------------------------------------
NoOld == [obj |-> -1, time |-> 0]

Init ==
  /\ pc = <<"frame", "none">> /\ i = 0
  /\ input \in Inputs({Nowhere})
  /\ obj = [k \in Kinds |-> -1] /\ time = [k \in Kinds |-> 0]
  /\ old = NoOld
  /\ work = [k \in Kinds |-> [id |-> 0, dir |-> "up", tiles |-> 0, hit |-> 0]]
  /\ event = "none" /\ halted = {}
  /\ grid = Start
  /\ active = [e \in Entities |-> TRUE]
  /\ held = [e \in Entities |-> -1]

\* Mutant: a running script does not keep the player from pushing.
AbleInEvents ==
  /\ ~input.pad.menu /\ input.pad.active /\ input.pad.stickPower > 0
  /\ input.pad.analog \/ ~input.pad.along

IsPlayerAbleToPush ==
  /\ event = "none"
  /\ ~input.pad.menu /\ input.pad.active /\ input.pad.stickPower > 0
  /\ input.pad.analog \/ ~input.pad.along

\* WA_Kairiki::PushEntity: the player stands against e and walks at it.
Touches(e)   == grid[e] = input.spot /\ active[e]
PushEntity(e) == Touches(e) /\ input.free
Outgrid(e)   == Tile(grid[e], input.dir, 1)

\* History: pushing e is possible in this frame.
PushedNow(e) ==
  /\ IsPlayerAbleToPush /\ PushEntity(e) /\ Ogi[e] \in Kinds
  /\ Ogi[e] = "punchingBag" => Tiles(Outgrid(e), input.dir) # 0

\* The next object of the list, behind j, that concerns the function: the turns of
\* the loop for objects of another kind or out of reach do nothing.
NextEntity(k, j) ==
  LET rest == {e \in OfKind(k) : e > j /\ Touches(e)}
  IN  IF rest = {} THEN Cardinality(Entities) ELSE Min(rest)

\* The history stops counting at PushTime.
Longer(h, delta) == IF h + delta < PushTime THEN h + delta ELSE PushTime

\* The game calls KairikiPushObject, whose own objects are not in this model.
KairikiPushObject ==
  /\ pc = <<"frame", "none">>
  /\ input' \in Inputs({Nowhere} \cup {grid[e] : e \in Entities})
  /\ pc' = <<"enter", "punchingBag">>
  /\ halted' = {}
  /\ UNCHANGED <<i, old, statics, work, event, objects>>
  /\ held' = [e \in Entities |->
                IF ~PushedNow(e)' THEN -1
                ELSE IF held[e] = -1 THEN 0 ELSE Longer(held[e], input'.delta)]

\* The function returns, and its local variables are gone.
Leave(k) ==
  /\ pc' = IF k = "punchingBag" THEN <<"enter", "contactable">> ELSE <<"frame", "none">>
  /\ i' = 0 /\ old' = NoOld

StartLoop(k) ==
  /\ pc' = <<"loop", k>>
  /\ i' = NextEntity(k, -1)
  /\ old' = [obj |-> obj[k], time |-> time[k]]

\* Mutant: the statics are only reset when the player can push.
EnterKeeping(k) ==
  /\ pc = <<"enter", k>>
  /\ IF IsPlayerAbleToPush
     THEN /\ StartLoop(k)
          /\ obj' = [obj EXCEPT ![k] = -1] /\ time' = [time EXCEPT ![k] = 0]
     ELSE Leave(k) /\ UNCHANGED statics
  /\ UNCHANGED <<input, halted, work, event, objects, held>>

\* PunchingBagPushObject and ContactLabelCallOnPush up to their loop.
Enter(k) ==
  /\ pc = <<"enter", k>>
  /\ obj' = [obj EXCEPT ![k] = -1]
  /\ time' = [time EXCEPT ![k] = 0]
  /\ IF IsPlayerAbleToPush THEN StartLoop(k) ELSE Leave(k)
  /\ UNCHANGED <<input, halted, work, event, objects, held>>

GoOn(k) == i' = NextEntity(k, i) /\ pc' = <<"loop", k>>

\* The loop has seen every object.
LoopEnds(k) ==
  /\ pc = <<"loop", k>> /\ i \notin Entities
  /\ Leave(k)
  /\ UNCHANGED <<input, halted, statics, work, event, objects, held>>

\* The object does not move: neither does the player.
Bump(k) ==
  /\ pc = <<"loop", k>> /\ i \in Entities
  /\ ~input.free
  /\ halted' = halted \cup {IF input.dir \in {"up", "down"} THEN "z" ELSE "x"}
  /\ GoOn(k)
  /\ UNCHANGED <<input, old, statics, work, event, objects, held>>

\* "Blocked by attributes": the function returns, whatever follows in the list.
Blocked ==
  /\ pc = <<"loop", "punchingBag">> /\ i \in Entities
  /\ input.free
  /\ Tiles(Outgrid(i), input.dir) = 0
  /\ Leave("punchingBag")
  /\ UNCHANGED <<input, halted, statics, work, event, objects, held>>

\* Mutant: the time is taken for this frame only.
HoldRestarting(k) ==
  /\ obj' = [obj EXCEPT ![k] = i]
  /\ time' = [time EXCEPT ![k] = IF old.obj = i THEN input.delta ELSE 0]

\* Mutant: the place in the list is counted from one.
HoldFromOne(k) ==
  /\ obj' = [obj EXCEPT ![k] = i + 1]
  /\ time' = [time EXCEPT ![k] = IF old.obj = i THEN old.time + input.delta ELSE 0]

\* The object is held for the first time, or for this frame longer.
Hold(k) ==
  /\ obj' = [obj EXCEPT ![k] = i]
  /\ time' = [time EXCEPT ![k] = IF old.obj = i THEN old.time + input.delta ELSE 0]

LongEnough(k) == old.obj = i /\ PushTime <= time'[k]

\* Mutant: the tires of the tile where the bag comes to rest are taken.
TiresBefore(p) ==
  LET hits == {e \in OfKind("tires") :
                 active[e] /\ grid[e] = Displaced(p, input.dir, -Signed(input.dir, 1))}
  IN  IF hits = {} THEN -1 ELSE Max(hits)

\* The last active tires of the list on the tile p, or -1.
TiresOn(p) ==
  LET hits == {e \in OfKind("tires") : active[e] /\ grid[e] = p}
  IN  IF hits = {} THEN -1 ELSE Max(hits)

\* The bag is pushed: works for the script, and the script.
PushBag ==
  /\ pc = <<"loop", "punchingBag">> /\ i \in Entities
  /\ input.free
  /\ Tiles(Outgrid(i), input.dir) # 0
  /\ Hold("punchingBag")
  /\ LET tiles == Signed(input.dir, Tiles(Outgrid(i), input.dir))
     IN  IF LongEnough("punchingBag")
         THEN /\ halted' = halted \cup {"bicycle"}
              /\ work' = [work EXCEPT !["punchingBag"] =
                             [id |-> i, dir |-> input.dir, tiles |-> tiles,
                              hit |-> TiresOn(Displaced(Outgrid(i), input.dir, tiles))]]
              /\ event' = "ev_punchingbag_move"
         ELSE UNCHANGED <<halted, work, event>>
  /\ GoOn("punchingBag")
  /\ UNCHANGED <<input, old, objects, held>>

\* The object is pushed: its own script.
PushContactable ==
  /\ pc = <<"loop", "contactable">> /\ i \in Entities
  /\ input.free
  /\ Hold("contactable")
  /\ IF LongEnough("contactable")
     THEN /\ halted' = halted \cup {"bicycle"}
          /\ work' = [work EXCEPT !["contactable"].id = i, !["contactable"].dir = input.dir]
          /\ event' = "talk"
     ELSE UNCHANGED <<halted, work, event>>
  /\ GoOn("contactable")
  /\ UNCHANGED <<input, old, objects, held>>

\* A script takes at least one frame, in which nothing is pushed.
FrameSeen == \A e \in Entities : held[e] = -1

\* The script of the bag, which src only names: it moves the bag by the works
\* and breaks the tires.
BagScript ==
  /\ pc = <<"frame", "none">> /\ event = "ev_punchingbag_move" /\ FrameSeen
  /\ LET w == work["punchingBag"]
     IN  /\ grid' = [grid EXCEPT ![w.id] = Displaced(@, w.dir, w.tiles)]
         /\ active' = IF w.hit = -1 THEN active ELSE [active EXCEPT ![w.hit] = FALSE]
  /\ event' = "none"
  /\ UNCHANGED <<frame, statics, work, held>>

\* Scripts that have nothing to do with these objects.
OtherScriptStarts ==
  /\ pc = <<"frame", "none">> /\ event = "none" /\ event' = "other"
  /\ UNCHANGED <<frame, statics, work, objects, held>>

OtherScriptEnds ==
  /\ pc = <<"frame", "none">> /\ event \in {"other", "talk"} /\ FrameSeen
  /\ event' = "none"
  /\ UNCHANGED <<frame, statics, work, objects, held>>

Frame ==
  \/ KairikiPushObject
  \/ \E k \in Kinds : Enter(k) \/ LoopEnds(k) \/ Bump(k)
  \/ Blocked \/ PushBag \/ PushContactable

Next == Frame \/ BagScript \/ OtherScriptStarts \/ OtherScriptEnds

Spec == Init /\ [][Next]_vars
FairSpec == Spec /\ WF_vars(Frame)

-----------------------------------------------------------------------------
(* Properties.                                                             *)

\* Types, and where the loop is.
TypeOK ==
  /\ pc \in {<<"frame", "none">>} \cup ({"enter", "loop"} \X Kinds)
  /\ i \in Nat
  /\ input \in Inputs({Nowhere} \cup Int \X Int)
  /\ obj \in [Kinds -> Entities \cup {-1}] /\ time \in [Kinds -> Nat]
  /\ old \in [obj : Entities \cup {-1}, time : Nat]
  /\ work \in [Kinds -> [id : Entities, dir : Dirs, tiles : Int, hit : Entities \cup {-1}]]
  /\ event \in Events
  /\ halted \subseteq {"x", "z", "bicycle"}
  /\ grid \in [Entities -> Int \X Int] /\ active \in [Entities -> BOOLEAN]
  /\ held \in [Entities -> Nat \cup {-1}]

\* Whatever is pushed, in whatever order and wherever it has slid before, a bag
\* stands on a rail or a stopper, never on an obstacle: the tiles of the works,
\* with their signs, end on the rail that the loop has followed.
BagsOnRails ==
  \A e \in OfKind("punchingBag") : grid[e] \in (Rails \cup Stoppers) \ Obstacles

\* The last tile the loop looks at, before it leaves the block of the map.
AtEdge(p, dir) ==
  LET c == IF dir \in {"up", "down"} THEN p[2] ELSE p[1]
  IN  c % ZoneSize = IF dir \in {"up", "left"} THEN 0 ELSE ZoneSize - 2

\* A bag that slides comes to rest on a stopper, or where its block of the map
\* ends; it never stops in the middle of a rail ("On a rail, so keep going").
RestsAtEnd ==
  event = "ev_punchingbag_move" =>
    LET w    == work["punchingBag"]
        rest == Displaced(grid[w.id], w.dir, w.tiles)
    IN  rest \in Stoppers \/ AtEdge(rest, w.dir)

\* The tires that the script breaks are active and stand right behind the tile
\* where the bag comes to rest, and no tires there are spared.
BreaksTiresAhead ==
  event = "ev_punchingbag_move" =>
    LET w     == work["punchingBag"]
        tiles == IF w.tiles < 0 THEN -w.tiles ELSE w.tiles
        ahead == {e \in OfKind("tires") : active[e] /\ grid[e] = Tile(grid[w.id], w.dir, tiles + 1)}
    IN  IF w.hit = -1 THEN ahead = {} ELSE w.hit \in ahead

\* A script starts only for an object that the player has pushed, frame after
\* frame without letting go, for the time of the parameter; and while it runs,
\* nothing changes the works it reads, and no other script takes its place.
HeldLongEnough ==
  [][ /\ event = "none" /\ event' = "ev_punchingbag_move" => held[work'["punchingBag"].id] >= PushTime
      /\ event = "none" /\ event' = "talk" => held[work'["contactable"].id] >= PushTime
      /\ event # "none" => work' = work /\ event' \in {event, "none"} ]_vars

\* Pushing does not go on for ever without effect: the script starts, or the
\* player lets go.
PushesEnd ==
  \A e \in OfKind("punchingBag") \cup OfKind("contactable") : []<>(held[e] = -1)

=============================================================================
