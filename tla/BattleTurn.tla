------------------------------ MODULE BattleTurn ------------------------------
(***************************************************************************)
(* A turn of a battle as the mod runs it: Section_ProcessActionCore with   *)
(* Pursuit (pursuit.cpp replaces the whole function), Sky Drop, Rage,      *)
(* changes of weather, the flag that forbids escape, and the abilities of  *)
(* FormAbilities, whose handlers the events of the turn call.              *)
(*                                                                         *)
(* The battle engine around it (who may choose what, in which order        *)
(* actions come, what a hit costs) is the game's and modelled from how the *)
(* mod uses it.  stack holds the activations of Execute: an interrupting   *)
(* Pursuit runs inside the action of the Pokemon that is about to leave.   *)
(***************************************************************************)
EXTENDS FormAbilities, Sequences, FiniteSets

CONSTANTS
    Pokes,          \* the Pokemon of both teams
    Team,           \* the team of each
    Immune,         \* of each, the weathers and moves that do it no harm
    Heavy,          \* those too heavy to be carried (2000 and more)
    Scenarios,      \* battles: opponent, FLAG_CANT_ESCAPE, what each Pokemon is,
                    \* where it stands, what it may choose, and a bound on turns
    NoPoke, NoSpot,
    WeatherMoves,   \* what the moves that change the weather bring, and for how long
    RankCap         \* bound: how often Rage may build

Forever == 255      \* turns of a weather that does not run out

VARIABLES
    battle,     \* the scenario
    mon,        \* BTL_POKEPARAM of each Pokemon
    queue,      \* m_pPokemonActionContainer: the PokeActions of this turn
    next,       \* how far the engine has come in it
    stack,      \* activations of Execute, the innermost last
    phase,      \* of the turn
    turn,
    weather, weatherTurn,   \* FieldStatus
    acted       \* history: how often each has acted this turn, up to twice

vars == <<battle, mon, queue, next, stack, phase, turn, weather, weatherTurn, acted>>

\* What the mod's handlers see of a BTL_POKEPARAM.
Spots == STRING \cup {NoSpot}
Abilities == {"Shields Down", "Schooling", "Zen Mode", "Stance Change", "Insomnia", "None"}
PokeParam ==
    [species : STRING, form : MiniorForms, ability : Abilities, level : Nat,
     hensin : BOOLEAN, zen : BOOLEAN, hp : 0 .. MaxHp, spot : Spots,
     sick : BOOLEAN, sky : BOOLEAN, freefall : BOOLEAN, holds : Pokes \cup {NoPoke},
     rage : BOOLEAN, atk : 0 .. RankCap, mamoru : Nat, protect : BOOLEAN, last : STRING]

\* Who is off the field is itself: no form copied, nothing begun, and a
\* Darmanitan in a standard form, because only a battle gives the other.
Fresh(r) ==
    /\ r \in PokeParam /\ r.spot = NoSpot
    /\ ~r.hensin /\ ~r.zen /\ ~r.sky /\ ~r.freefall /\ r.holds = NoPoke /\ ~r.rage /\ r.atk = 0
    /\ r.species = "Darmanitan" => r.form \in DarmanitanForms /\ r.form % 2 = 0

Choices == [cat : {"Fight", "PokeChange", "Escape", "Cheer"}, waza : STRING,
            aim : Pokes \cup {NoPoke}, encore : BOOLEAN]

ASSUME BattleAssumption ==
    /\ NoPoke \notin Pokes /\ NoSpot \notin STRING /\ RankCap \in Nat
    /\ \A s \in DOMAIN Scenarios :
         LET b == Scenarios[s] IN
         /\ \A p \in Pokes :
              /\ Fresh(b.cast[p]) /\ b.line[p] \in Spots
              /\ \A c \in b.options[p] : c \in Choices
         /\ \A p, q \in Pokes : b.line[p] = b.line[q] /\ b.line[p] # NoSpot => p = q
         /\ \A p \in Pokes : b.line[p] # NoSpot => b.cast[p].hp > 0
    /\ \A w \in DOMAIN WeatherMoves : WeatherMoves[w].turns \in 1 .. Forever

This == Scenarios[battle]
base == This.cast       \* each Pokemon as it is off the field

NoWeather == "None"

(***************************************************************************)
(* Weather (weather.cpp).                                                  *)
(***************************************************************************)
IsStrongWeather(w)  == w \in {"Heavy Rain", "Extremely Harsh Sunlight", "Strong Winds"}
IsRegularWeather(w) == w \in {"Harsh Sunlight", "Rain", "Hail", "Sandstorm", "Snow"}

\* Section_ChangeWeather_Check::Execute.
ChangeWeatherOk(new, turns) ==
    /\ ~(IsRegularWeather(new) /\ IsStrongWeather(weather))
    /\ new # weather \/ (turns = Forever /\ weatherTurn # Forever)

\* calc::RecvWeatherDamage: a sixteenth, at least one; only two weathers hurt.
RecvWeatherDamage(p) ==
    IF weather \in {"Hail", "Sandstorm"} \ Immune[p]
    THEN IF MaxHp \div 16 = 0 THEN 1 ELSE MaxHp \div 16
    ELSE 0

(***************************************************************************)
(* Escape (battle_escape_flag.cpp).                                        *)
(***************************************************************************)
GetEscapeMode ==
    IF This.cantEscape THEN "NG"
    ELSE CASE This.competitor = "WILD"             -> "WILD"
           [] This.competitor \in {"INST", "COMM"} -> "CONFIRM"
           [] OTHER                                  -> "NG"

(***************************************************************************)
(* The field.                                                              *)
(***************************************************************************)
Alive(m, p)   == m[p].hp > 0
IsExist(m, p) == m[p].spot # NoSpot
Fielded       == {p \in Pokes : IsExist(mon, p) /\ Alive(mon, p)}
Bench(m, t)   == {p \in Pokes : Team[p] = t /\ Alive(m, p) /\ ~IsExist(m, p)}
IsFriendPokeID(p, q) == Team[p] = Team[q]

\* Who stands on a spot (none: NoPoke).
Occupant(m, s) ==
    IF \E p \in Pokes : m[p].spot = s /\ Alive(m, p) /\ s # NoSpot
    THEN CHOOSE p \in Pokes : m[p].spot = s /\ Alive(m, p)
    ELSE NoPoke

\* Off the field a Pokemon is what it was; only its wounds and sickness stay.
Rested(b, m) == [b EXCEPT !.hp = m.hp, !.sick = m.sick]

\* Section_FreeFall_Release, which HandlerSkyDropWazaExeStart calls, as the
\* game does when one of the two leaves or faints: both are apart and down.
FreeFallRelease(m, S) ==
    [q \in Pokes |->
        IF q \in S \/ m[q].holds \in S \/ \E p \in S : m[p].holds = q
        THEN [m[q] EXCEPT !.holds = NoPoke, !.sky = FALSE, !.freefall = FALSE]
        ELSE m[q]]

\* MEMBER_OUT_FIXED with HandlerRageMemberOutFixed: the record starts afresh.
Leave(m, p) == [FreeFallRelease(m, {p}) EXCEPT ![p] = Rested(base[p], m[p])]

\* MEMBER_IN_EVO of the one that comes in, then MEMBER_IN_COMP for all.
Enter(m, q, s) ==
    LET m1 == [m EXCEPT ![q] = MemberInEvo([@ EXCEPT !.spot = s])]
    IN  [p \in Pokes |-> IF m1[p].spot # NoSpot THEN MemberInComp(m1[p]) ELSE m1[p]]

\* Who faints is let go and lets go; its place is filled after the turn.
Faint(m) == FreeFallRelease(m, {p \in Pokes : ~Alive(m, p)})

Wounded(r, d) == [r EXCEPT !.hp = IF @ > d THEN @ - d ELSE 0]

\* A hit of a move; whoever is raging gets angrier
\* (HandlerRageWazaDmgReaction), whoever has nothing left faints.
Hurt(m, t, d) ==
    LET w == Wounded(m[t], d) IN
    Faint([m EXCEPT ![t] = [w EXCEPT
        !.atk = IF w.rage /\ w.hp > 0 /\ @ < RankCap THEN @ + 1 ELSE @]])

-------------------------------------------------------------------------------
(***************************************************************************)
(* Section_ProcessActionCore::Execute.                                     *)
(***************************************************************************)

Top == stack[Len(stack)]
Cur == queue[Top.act]       \* the action of the innermost activation
Me  == Cur.poke

\* Goes on in the innermost activation, or returns from it.
Goto(at) == stack' = [stack EXCEPT ![Len(stack)].at = at]
Return   == stack' = SubSeq(stack, 1, Len(stack) - 1)

At(place) == stack # <<>> /\ Top.at = place

\* From the entry on an action is done.
Enters(k, q, st) ==
    /\ queue' = [q EXCEPT ![k].fDone = TRUE]
    /\ stack' = Append(st, [act |-> k, at |-> "PursuitProcess", i |-> 1])

\* Mutant: an action that is done is not asked for.
CallsAgain(k) == Enters(k, queue, stack)

\* Nothing for an action that is done.
Calls(k) ==
    IF queue[k].fDone THEN UNCHANGED <<queue, stack>> ELSE Enters(k, queue, stack)

Escaping == {"U-turn", "Volt Switch", "Parting Shot", "Flip Turn"}

IsFight         == Cur.cat = "Fight"
\* Mutant: every move counts as one that leaves.
IsPursuitTargetAlways == Cur.cat = "PokeChange" \/ IsFight

IsPursuitTarget == Cur.cat = "PokeChange" \/ (IsFight /\ Cur.waza \in Escaping)

\* The actions that the loop hands to PursuitInterrupt.
Pursues(a) ==
    /\ ~a.fDone /\ a.cat = "Fight" /\ a.waza = "Pursuit"
    /\ IF IsFight THEN a.aim = Me ELSE ~IsFriendPokeID(Me, a.poke)

Ahead == {j \in Top.i .. Len(queue) : IsPursuitTarget /\ Pursues(queue[j])}

\* Mutant: the action keeps the aim that was chosen.
AimedAsChosen(j) == [queue EXCEPT ![j].oiuti = TRUE]

\* isOiutiInterruptAction and targetPos: the action is aimed at where the
\* leaver stands.
AimedAtLeaver(j) == [queue EXCEPT ![j].oiuti = TRUE, ![j].pos = mon[Me].spot]

\* Mutant: the loop ends with the first interruption.
LoopLeft(j) == [stack EXCEPT ![Len(stack)].i = Len(queue) + 1]

\* Mutant: the loop stays where it is until the action is done.
LoopKept(j) == stack

LoopPast(j) == [stack EXCEPT ![Len(stack)].i = j + 1]

\* One turn of the loop that calls PursuitInterrupt: nothing when
\* CheckEncoreWazaChange says that the Pokemon must use another move, else
\* the action is run now.
PursuitInterrupt ==
    /\ At("PursuitProcess")
    /\ \E j \in Ahead :
         /\ \A k \in Ahead : j <= k
         /\ IF queue[j].encore
            THEN stack' = LoopPast(j) /\ queue' = queue
            ELSE Enters(j, AimedAtLeaver(j), LoopPast(j))
    /\ UNCHANGED <<battle, mon, next, phase, turn, weather, weatherTurn, acted>>

PursuitDone ==
    /\ At("PursuitProcess")
    /\ Ahead = {}
    /\ Goto("Guards")
    /\ UNCHANGED <<battle, mon, queue, next, phase, turn, weather, weatherTurn, acted>>

\* action_Cheer, before any question about the Pokemon.
ActionCheer ==
    /\ At("Guards")
    /\ Cur.cat = "Cheer"
    /\ Return
    /\ UNCHANGED <<battle, mon, queue, next, phase, turn, weather, weatherTurn, acted>>

\* Dead, or no longer on the field.
Missing ==
    /\ At("Guards")
    /\ Cur.cat # "Cheer"
    /\ ~Alive(mon, Me) \/ ~IsExist(mon, Me)
    /\ Return
    /\ UNCHANGED <<battle, mon, queue, next, phase, turn, weather, weatherTurn, acted>>

\* Mutant: only an escape is held back.
CarriedEscapes(p) == mon[p].freefall /\ Cur.cat = "Escape" /\ GetEscapeMode # "CONFIRM"

\* Carried through the sky: only an escape that asks the player is possible.
Carried(p) == mon[p].freefall /\ (Cur.cat # "Escape" \/ GetEscapeMode # "CONFIRM")

Cancelled ==
    /\ At("Guards")
    /\ Cur.cat # "Cheer"
    /\ Alive(mon, Me) /\ IsExist(mon, Me)
    /\ Carried(Me)
    /\ mon' = [mon EXCEPT ![Me].mamoru = 0]
    /\ Return
    /\ UNCHANGED <<battle, queue, next, phase, turn, weather, weatherTurn, acted>>

ActProcStart ==
    /\ At("Guards")
    /\ Cur.cat # "Cheer"
    /\ Alive(mon, Me) /\ IsExist(mon, Me)
    /\ ~Carried(Me)
    /\ Goto("action")
    /\ acted' = [acted EXCEPT ![Me] = IF @ < 2 THEN @ + 1 ELSE @]
    /\ UNCHANGED <<battle, mon, queue, next, phase, turn, weather, weatherTurn>>

\* Event_ActProcEnd: every handler hears of it, whoever has acted.
EventActProcEnd ==
    /\ At("end")
    /\ mon' = [p \in Pokes |-> IF IsExist(mon, p) THEN ActProcEnd(mon[p]) ELSE mon[p]]
    /\ Return
    /\ UNCHANGED <<battle, queue, next, phase, turn, weather, weatherTurn, acted>>

-------------------------------------------------------------------------------
(***************************************************************************)
(* action(): what the actions do.  A move that does not come off is        *)
(* MoveFails: before it is decided on (sleep) or after (a miss).           *)
(***************************************************************************)
Keep == UNCHANGED <<battle, queue, next, phase, turn, acted>>

Damaging == Escaping \cup {"Pursuit", "Sky Drop", "Rage"}

Using(w) == At("action") /\ IsFight /\ Cur.waza = w

\* Mutant: a rage does not end.
DecidedRaging ==
    [mon EXCEPT ![Me] = [StanceChange(@, Cur.waza \in Damaging, Cur.waza = "King's Shield")
                            EXCEPT !.last = Cur.waza, !.mamoru = 0]]

\* WAZA_CALL_DECIDE: the stance, and the end of a rage that went before.
Decided ==
    [mon EXCEPT ![Me] = [StanceChange(@, Cur.waza \in Damaging, Cur.waza = "King's Shield")
                            EXCEPT !.rage = FALSE, !.last = Cur.waza, !.mamoru = 0]]

Aim == Occupant(mon, Cur.pos)

\* An interrupting Pursuit is not asked whether it hits
\* (HandlerPursuitCalcHitCancel), so the sky is no shelter from it.
Reached == Aim # NoPoke /\ ~mon[Aim].protect /\ (Cur.oiuti \/ ~mon[Aim].sky)

Does(m) == mon' = m /\ Goto("end") /\ Keep /\ UNCHANGED <<weather, weatherTurn>>

MoveFails ==
    /\ At("action") /\ IsFight
    /\ \E m \in {mon, Decided} : Does(FreeFallRelease(m, {Me}))

\* HandlerPursuitWazaPower: twice as strong when it interrupts.
Pursuit ==
    /\ Using("Pursuit")
    /\ Does(IF Reached THEN Hurt(Decided, Aim, IF Cur.oiuti THEN 2 ELSE 1) ELSE Decided)

\* U-turn and its like: the attacker goes when it has hit.
HitAndLeave ==
    /\ At("action") /\ IsFight /\ Cur.waza \in Escaping
    /\ LET hit == Hurt(Decided, Aim, 1) IN
       IF ~Reached \/ Bench(mon, Team[Me]) = {}
       THEN Does(IF Reached THEN hit ELSE Decided)
       ELSE \E q \in Bench(mon, Team[Me]) : Does(Enter(Leave(hit, Me), q, mon[Me].spot))

\* Mutant: a Pokemon that is out of sight can be taken up.
CanBeTakenAgain(p) == p \notin Heavy /\ ~mon[p].protect

CanBeTaken(p) == ~mon[p].sky /\ p \notin Heavy /\ ~mon[p].protect

\* Both rise: SORAWOTOBU for the two, the counter of the attacker names the
\* target, setFreeFallSick.
CarryOff(m, p, t) ==
    LET up == [m EXCEPT ![p] = [@ EXCEPT !.sky = TRUE, !.holds = t]]
    IN  [up EXCEPT ![t] = [@ EXCEPT !.sky = TRUE, !.freefall = TRUE]]

\* Section_FromEvent_FreeFallStart::Execute.
FreeFallStart ==
    /\ Using("Sky Drop")
    /\ mon[Me].holds = NoPoke
    /\ Does(IF Aim # NoPoke /\ CanBeTaken(Aim) THEN CarryOff(Decided, Me, Aim) ELSE Decided)

\* The second turn: HandlerSkyDropWazaExeStart, then the fall, which does
\* nothing to those that fly.
SkyDropFalls ==
    /\ Using("Sky Drop")
    /\ mon[Me].holds # NoPoke
    /\ LET t == mon[Me].holds
           m == FreeFallRelease(Decided, {Me})
       IN  Does(IF "Sky Drop" \in Immune[t] THEN m ELSE Hurt(m, t, 1))

\* HandlerRageWazaExecuteEffective.
Rage ==
    /\ Using("Rage")
    /\ Does(IF Reached THEN [Hurt(Decided, Aim, 1) EXCEPT ![Me].rage = TRUE] ELSE Decided)

KingsShield ==
    /\ Using("King's Shield")
    /\ Does([Decided EXCEPT ![Me].protect = TRUE, ![Me].mamoru = 1])

\* A move that makes sick, past HandlerShieldsDownAddSickCheckFail.
ThunderWave ==
    /\ Using("Thunder Wave")
    /\ Does(IF Reached /\ ~AddSickCheckFail(mon[Aim])
            THEN [Decided EXCEPT ![Aim].sick = TRUE] ELSE Decided)

Transform ==
    /\ Using("Transform")
    /\ Does(IF Reached /\ ~mon[Aim].hensin /\ ~mon[Me].hensin
            THEN [Decided EXCEPT ![Me] = [@ EXCEPT !.species = mon[Aim].species, !.form = mon[Aim].form,
                                     !.ability = mon[Aim].ability, !.zen = FALSE, !.hensin = TRUE]]
            ELSE Decided)

\* TOKUSEI_DISABLE goes to the ability before it is put out of force.
GastroAcid ==
    /\ Using("Gastro Acid")
    /\ Does(IF Reached THEN [Decided EXCEPT ![Aim] = [TokuseiDisable(@) EXCEPT !.ability = "None"]]
            ELSE Decided)

\* Another ability for the target; CHANGE_TOKUSEI_AFTER goes to all.
WorrySeed ==
    /\ Using("Worry Seed")
    /\ Does(IF Reached
            THEN LET m == [Decided EXCEPT ![Aim].ability = "Insomnia"] IN
                 [p \in Pokes |-> IF IsExist(m, p) THEN ChangeTokuseiAfter(m[p], p = Aim) ELSE m[p]]
            ELSE Decided)

ChangeWeather ==
    /\ At("action") /\ IsFight /\ Cur.waza \in DOMAIN WeatherMoves
    /\ LET w == WeatherMoves[Cur.waza] IN
       IF ChangeWeatherOk(w.weather, w.turns)
       THEN weather' = w.weather /\ weatherTurn' = w.turns
       ELSE UNCHANGED <<weather, weatherTurn>>
    /\ mon' = Decided
    /\ Goto("end")
    /\ Keep

PokeChange ==
    /\ At("action") /\ Cur.cat = "PokeChange"
    /\ Does(IF Cur.aim \in Bench(mon, Team[Me])
            THEN Enter(Leave(mon, Me), Cur.aim, mon[Me].spot) ELSE mon)

\* Section_Escape_escape answers no whenever the flag is set.  QUIT_ESCAPE
\* returns before Event_ActProcEnd, and the battle is over.
Escape ==
    /\ At("action") /\ Cur.cat = "Escape"
    /\ \/ /\ ~This.cantEscape /\ GetEscapeMode # "NG"
          /\ stack' = <<>> /\ phase' = "over"
          /\ UNCHANGED <<battle, mon, queue, next, turn, weather, weatherTurn, acted>>
       \/ Does(mon)

-------------------------------------------------------------------------------
(***************************************************************************)
(* The turn around it (external).                                          *)
(***************************************************************************)

\* What p may choose: a Pokemon in the middle of Sky Drop goes on with it.
Legal(p, c) ==
    /\ c.cat = "PokeChange" => c.aim \in Bench(mon, Team[p])
    /\ c.cat = "Fight" /\ c.aim # NoPoke => IsExist(mon, c.aim)
    /\ mon[p].holds # NoPoke => c.waza = "Sky Drop"

Waiting == {p \in Fielded : \A k \in DOMAIN queue : queue[k].poke # p}

\* One more action; those that are no moves come first.
Choose ==
    /\ phase = "choose"
    /\ \E p \in Waiting : \E c \in This.options[p] :
         /\ Legal(p, c)
         /\ c.cat # "Fight" => \A k \in DOMAIN queue : queue[k].cat # "Fight"
         /\ queue' = Append(queue,
               [poke |-> p, cat |-> c.cat, waza |-> c.waza, aim |-> c.aim, encore |-> c.encore,
                fDone |-> FALSE, oiuti |-> FALSE,
                pos |-> IF c.cat = "Fight" /\ c.aim # NoPoke THEN mon[c.aim].spot ELSE NoSpot])
    /\ UNCHANGED <<battle, mon, next, stack, phase, turn, weather, weatherTurn, acted>>

TurnStarts ==
    /\ phase = "choose" /\ Waiting = {}
    /\ phase' = "act"
    /\ UNCHANGED <<battle, mon, queue, next, stack, turn, weather, weatherTurn, acted>>

\* The engine runs the actions in their order, also those that are done.
ProcessAction ==
    /\ phase = "act" /\ stack = <<>> /\ next <= Len(queue)
    /\ Calls(next)
    /\ next' = next + 1
    /\ UNCHANGED <<battle, mon, phase, turn, weather, weatherTurn, acted>>

TurnCheckWeather ==
    /\ phase = "act" /\ stack = <<>> /\ next > Len(queue)
    /\ phase' = "check"
    /\ IF weatherTurn = 1
       THEN weather' = NoWeather /\ weatherTurn' = Forever /\ UNCHANGED mon
       ELSE /\ weatherTurn' = IF weatherTurn = Forever THEN Forever ELSE weatherTurn - 1
            /\ weather' = weather
            /\ mon' = Faint([p \in Pokes |->
                         IF p \in Fielded /\ ~mon[p].sky
                         THEN Wounded(mon[p], RecvWeatherDamage(p)) ELSE mon[p]])
    /\ UNCHANGED <<battle, queue, next, stack, turn, acted>>

TurnCheckDoneEvent ==
    /\ phase = "check"
    /\ phase' = "refill"
    /\ mon' = [p \in Pokes |->
                 IF p \in Fielded THEN [TurnCheckDone(mon[p]) EXCEPT !.protect = FALSE] ELSE mon[p]]
    /\ UNCHANGED <<battle, queue, next, stack, turn, weather, weatherTurn, acted>>

\* Those that fainted are taken off and others come in.
Fallen == {p \in Pokes : IsExist(mon, p) /\ ~Alive(mon, p)}

Refill ==
    /\ phase = "refill"
    /\ \E p \in Fallen :
         LET out == Leave(mon, p) IN
         IF Bench(out, Team[p]) = {} THEN mon' = out
         ELSE \E q \in Bench(out, Team[p]) : mon' = Enter(out, q, mon[p].spot)
    /\ UNCHANGED <<battle, queue, next, stack, phase, turn, weather, weatherTurn, acted>>

NextTurn ==
    /\ phase = "refill" /\ Fallen = {}
    /\ turn' = turn + 1
    /\ phase' = IF turn = This.turns \/ \E p \in Pokes : \A q \in Fielded : Team[q] # Team[p]
                THEN "over" ELSE "choose"
    /\ queue' = <<>> /\ next' = 1
    /\ acted' = [p \in Pokes |-> 0]
    /\ UNCHANGED <<battle, mon, stack, weather, weatherTurn>>

-------------------------------------------------------------------------------
Init ==
    /\ battle \in DOMAIN Scenarios
    /\ mon = [p \in Pokes |->
                IF This.line[p] = NoSpot THEN base[p]
                ELSE MemberInComp(MemberInEvo([base[p] EXCEPT !.spot = This.line[p]]))]
    /\ queue = <<>> /\ next = 1 /\ stack = <<>>
    /\ phase = "choose" /\ turn = 1
    /\ weather = NoWeather /\ weatherTurn = Forever
    /\ acted = [p \in Pokes |-> 0]

Core == PursuitInterrupt \/ PursuitDone \/ ActionCheer \/ Missing \/ Cancelled
            \/ ActProcStart \/ EventActProcEnd

Action == MoveFails \/ Pursuit \/ HitAndLeave \/ FreeFallStart \/ SkyDropFalls \/ Rage
            \/ KingsShield \/ ThunderWave \/ Transform \/ GastroAcid \/ WorrySeed
            \/ ChangeWeather \/ PokeChange \/ Escape

Engine == Choose \/ TurnStarts \/ ProcessAction \/ TurnCheckWeather \/ TurnCheckDoneEvent \/ Refill \/ NextTurn

Next == Core \/ Action \/ Engine

Spec == Init /\ [][Next]_vars

\* The engine goes on until it asks for the next actions.
FairSpec == Spec /\ WF_vars(Next)

-------------------------------------------------------------------------------
(***************************************************************************)
(* Properties.                                                             *)
(***************************************************************************)

Frame == [act : Nat, at : {"PursuitProcess", "Guards", "action", "end"}, i : Nat \ {0}]

Doing == [poke : Pokes, cat : {"Fight", "PokeChange", "Escape", "Cheer"}, waza : STRING,
          aim : Pokes \cup {NoPoke}, encore : BOOLEAN, fDone : BOOLEAN, oiuti : BOOLEAN,
          pos : Spots]

\* Types: the record of every Pokemon, the actions of the turn and the
\* activations of Section_ProcessActionCore::Execute.
BattleTyped ==
    /\ battle \in DOMAIN Scenarios
    /\ mon \in [Pokes -> PokeParam]
    /\ queue \in Seq(Doing)
    /\ stack \in Seq(Frame) /\ \A k \in DOMAIN stack : stack[k].act \in DOMAIN queue
    /\ next \in Nat \ {0}
    /\ phase \in {"choose", "act", "check", "refill", "over"}
    /\ stack # <<>> => phase = "act"
    /\ turn \in Nat
    /\ weatherTurn \in 1 .. Forever
    /\ acted \in [Pokes -> 0 .. 2]

\* Nobody acts twice in a turn: an action that Pursuit has brought forward
\* comes again in the engine's order, and fDone must stop it.  And Execute is
\* entered anew only from PursuitProcess, once, by a Pursuit against a Pokemon
\* that is leaving: no Pursuit sets off another.
ActsOnce ==
    /\ \A p \in Pokes : acted[p] <= 1
    /\ \A k \in 2 .. Len(stack) :
         LET inner == queue[stack[k].act]
             outer == queue[stack[1].act]
         IN  /\ k = 2
             /\ inner.waza = "Pursuit" /\ inner.oiuti
             /\ outer.cat = "PokeChange" \/ (outer.cat = "Fight" /\ outer.waza \in Escaping)

\* Sky Drop: whoever is carried has exactly one carrier, both live and are
\* high up, and nobody is up there alone.
PairedInSky ==
    \A p \in Pokes :
        LET carriers == {q \in Pokes : mon[q].holds = p} IN
        /\ mon[p].freefall <=> carriers # {}
        /\ \A q, r \in carriers : q = r
        /\ \A q \in carriers : {p, q} \subseteq Fielded /\ mon[q].sky /\ mon[p].sky
        /\ mon[p].sky => mon[p].freefall \/ mon[p].holds # NoPoke

\* Whenever the actions of a turn are chosen, Shields Down and Schooling show
\* the form of the hit points, whatever happened in the turns before, and a
\* Minior has the colour it came with; a Darmanitan whose own Zen Mode is in
\* force is in the zen form of its region at every moment, and its handlers
\* remember that they changed it: without the work value it would not turn
\* back when the ability is lost.
FormFitsHp ==
    \A p \in Fielded :
        LET m == mon[p] IN
        ~m.hensin =>
            /\ phase = "choose" /\ m.species = "Minior" /\ m.ability = "Shields Down" =>
                 m.form = Colour(base[p].form) + (IF 2 * m.hp <= MaxHp THEN Colours ELSE 0)
            /\ phase = "choose" /\ m.species = "Wishiwashi" /\ m.ability = "Schooling" =>
                 m.form = IF m.level >= SchoolLevel /\ 4 * m.hp > MaxHp THEN 1 ELSE 0
            /\ m.species = "Darmanitan" /\ m.ability = "Zen Mode" =>
                 m.zen /\ m.form = base[p].form + 1

\* Rage builds only while Rage is the last move that was decided on, and
\* nothing of it is left when the Pokemon comes back.
RageEnds ==
    \A p \in Pokes :
        /\ mon[p].rage => mon[p].last = "Rage"
        /\ ~IsExist(mon, p) => ~mon[p].rage /\ mon[p].atk = 0

\* Moves that last over turns bind only those that are still in them: Sky Drop
\* its pair, Rage its user.
LastingMovesHold == PairedInSky /\ RageEnds

Leaves(p) == phase = "act" /\ IsExist(mon, p) /\ mon'[p].spot # mon[p].spot

\* Whoever leaves by choice has met every Pursuit that was meant for it,
\* unless the pursuer has to use another move: the loop misses none, and one
\* that interrupts does not end it.
NobodySlipsAway ==
    [][\A p \in Pokes : Leaves(p) =>
         \A k \in DOMAIN queue :
            /\ queue[k].cat = "Fight" /\ queue[k].waza = "Pursuit" /\ ~queue[k].encore
            /\ queue[k].aim = p /\ ~IsFriendPokeID(p, queue[k].poke)
            => queue[k].fDone]_vars

\* Only a Pokemon that lives and is not carried leaves: what Pursuit or Sky
\* Drop has done to it since it chose to is asked for afterwards.
LeavesAliveAndFree ==
    [][\A p \in Pokes : Leaves(p) => Alive(mon, p) /\ ~mon[p].freefall]_vars

\* Nobody leaves the field past a Pursuit, and nobody that could not.
LeavesFairly == NobodySlipsAway /\ LeavesAliveAndFree

\* The doubled strength falls on nobody but the Pokemon that is leaving, and
\* only while its own action waits for the Pursuit to end.
StruckOnItsWay ==
    [][\A p \in Pokes : mon'[p].hp + 2 <= mon[p].hp =>
         Len(stack) = 2 /\ queue[stack[1].act].poke = p]_vars

\* A Pokemon that has transformed keeps the form that it copied, whatever its
\* hit points and its ability do; Stance Change alone does not ask.
TransformedKeepsForm ==
    [][\A p \in Pokes : mon[p].hensin /\ mon'[p].hensin /\ mon[p].species # "Aegislash" =>
         mon'[p].form = mon[p].form]_vars

\* The form follows the hit points, and of nobody but the Pokemon that has the
\* form by birth.
FormFollows == []FormFitsHp /\ TransformedKeepsForm

\* The actions of a turn come to an end, those that interrupt included.
TurnEnds == phase = "act" ~> phase # "act"
===============================================================================
