----------------------------- MODULE BattleProofs -----------------------------
(***************************************************************************)
(* Proofs about BattleTurn, for every set of Pokemon, every battle and any *)
(* number of turns: types, that nobody acts twice in a turn, that only     *)
(* Pursuit interrupts and interrupts only once, that whoever leaves has    *)
(* met its pursuers, that Sky Drop and Rage bind only those that are still *)
(* in them, whom the doubled Pursuit hits, and that the form is that of    *)
(* the hit points.                                                         *)
(***************************************************************************)
EXTENDS BattleTurn, TLAPS, SequenceTheorems

-------------------------------------------------------------------------------
(***************************************************************************)
(* The abilities change nothing but form and work value.                   *)
(***************************************************************************)
Reformed(r, r2) ==
    \E f \in MiniorForms, z \in BOOLEAN : r2 = [r EXCEPT !.form = f, !.zen = z]

LEMMA ReformedKeeps ==
    ASSUME NEW r \in PokeParam, NEW r2, Reformed(r, r2)
    PROVE  /\ r2 \in PokeParam
           /\ r2.spot = r.spot /\ r2.hp = r.hp /\ r2.holds = r.holds /\ r2.hensin = r.hensin
           /\ r2.freefall = r.freefall /\ r2.sky = r.sky /\ r2.rage = r.rage
           /\ r2.species = r.species /\ r2.ability = r.ability
           /\ r2.atk = r.atk /\ r2.last = r.last
BY DEF Reformed, PokeParam

LEMMA ReformedSelf ==
    ASSUME NEW r \in PokeParam
    PROVE  Reformed(r, r)
BY DEF Reformed, PokeParam

LEMMA ReformedTo ==
    ASSUME NEW r \in PokeParam, NEW f \in MiniorForms
    PROVE  Reformed(r, [r EXCEPT !.form = f])
BY DEF Reformed, PokeParam

\* Every form that an ability finds is one of the numbers.
LEMMA FormsFound ==
    ASSUME NEW r \in PokeParam
    PROVE  /\ FindNextMiniorForm(r) \in MiniorForms
           /\ FindNextWishiwashiForm(r) \in MiniorForms
           /\ FindZenDarmanitanForm(r) \in MiniorForms
           /\ FindStandardDarmanitanForm(r) \in MiniorForms
BY DEF PokeParam, MiniorForms, DarmanitanForms, FindNextMiniorForm, FindNextWishiwashiForm,
       FindZenDarmanitanForm, FindStandardDarmanitanForm, Colour, Colours

LEMMA ChangeFormReforms ==
    ASSUME NEW r \in PokeParam, NEW s, NEW f \in MiniorForms
    PROVE  Reformed(r, ChangeForm(r, s, f))
BY ReformedSelf, ReformedTo DEF ChangeForm

LEMMA AbilitiesReform ==
    ASSUME NEW r \in PokeParam
    PROVE  /\ Reformed(r, MemberInEvo(r)) /\ Reformed(r, MemberInComp(r))
           /\ \A own \in BOOLEAN : Reformed(r, ChangeTokuseiAfter(r, own))
           /\ Reformed(r, TokuseiDisable(r)) /\ Reformed(r, ActProcEnd(r))
           /\ Reformed(r, TurnCheckDone(r))
           /\ \A d, s \in BOOLEAN : Reformed(r, StanceChange(r, d, s))
PROOF
  <1>1. /\ Reformed(r, AdjustShieldsDownForm(r)) /\ Reformed(r, AdjustSchoolingForm(r))
        /\ Reformed(r, AdjustZenModeForm(r)) /\ Reformed(r, DisableZenMode(r))
    BY FormsFound, ChangeFormReforms
       DEF AdjustShieldsDownForm, AdjustSchoolingForm, AdjustZenModeForm, DisableZenMode
  <1>2. Reformed(r, [AdjustZenModeForm(r) EXCEPT !.zen = TRUE])
    <2>1. PICK f \in MiniorForms, z \in BOOLEAN :
            AdjustZenModeForm(r) = [r EXCEPT !.form = f, !.zen = z]
      BY <1>1 DEF Reformed
    <2>2. [[r EXCEPT !.form = f, !.zen = z] EXCEPT !.zen = TRUE] = [r EXCEPT !.form = f, !.zen = TRUE]
      BY DEF PokeParam
    <2> QED BY <2>1, <2>2 DEF Reformed
  <1>3. Reformed(r, ZenModeMemberInComp(r))
    BY <1>2, ReformedSelf DEF ZenModeMemberInComp
  <1>4. ASSUME NEW d \in BOOLEAN, NEW s \in BOOLEAN PROVE Reformed(r, StanceChange(r, d, s))
    <2>1. (IF d THEN 1 ELSE IF s THEN 0 ELSE r.form) \in MiniorForms
      BY DEF PokeParam, MiniorForms
    <2> QED BY <2>1, ReformedSelf, ReformedTo DEF StanceChange
  <1> QED
    BY <1>1, <1>3, <1>4, ReformedSelf
       DEF MemberInEvo, MemberInComp, ChangeTokuseiAfter, TokuseiDisable, ActProcEnd, TurnCheckDone

-------------------------------------------------------------------------------
(***************************************************************************)
(* What happens to the Pokemon on the field.                               *)
(***************************************************************************)
Teams == [Pokes -> PokeParam]

\* Everyone is where it was.
SamePlaces(m, m2) == m2 \in Teams /\ \A p \in Pokes : m2[p].spot = m[p].spot

LEMMA ReleaseKeeps ==
    ASSUME NEW m \in Teams, NEW S
    PROVE  /\ SamePlaces(m, FreeFallRelease(m, S))
           /\ \A p \in Pokes : FreeFallRelease(m, S)[p].hp = m[p].hp
PROOF
  <1>1. ASSUME NEW p \in Pokes
        PROVE  LET r == [m[p] EXCEPT !.holds = NoPoke, !.sky = FALSE, !.freefall = FALSE] IN
               r \in PokeParam /\ r.spot = m[p].spot /\ r.hp = m[p].hp
    BY DEF Teams, PokeParam
  <1>2. ASSUME NEW p \in Pokes
        PROVE  /\ FreeFallRelease(m, S)[p] \in PokeParam
               /\ FreeFallRelease(m, S)[p].spot = m[p].spot /\ FreeFallRelease(m, S)[p].hp = m[p].hp
    BY <1>1 DEF FreeFallRelease, Teams
  <1>3. FreeFallRelease(m, S) \in Teams
    BY <1>2 DEF Teams, FreeFallRelease
  <1> QED BY <1>2, <1>3 DEF SamePlaces

LEMMA WoundedTyped ==
    ASSUME NEW r \in PokeParam, NEW d \in Nat
    PROVE  Wounded(r, d) \in PokeParam /\ Wounded(r, d).spot = r.spot
PROOF
  <1>1. (IF r.hp > d THEN r.hp - d ELSE 0) \in 0 .. MaxHp
    BY MaxHpAssumption DEF PokeParam
  <1> QED BY <1>1 DEF Wounded, PokeParam

LEMMA FaintKeeps ==
    ASSUME NEW m \in Teams
    PROVE  SamePlaces(m, Faint(m))
BY ReleaseKeeps DEF Faint

LEMMA HurtKeeps ==
    ASSUME NEW m \in Teams, NEW t \in Pokes, NEW d \in Nat
    PROVE  SamePlaces(m, Hurt(m, t, d))
PROOF
  <1> DEFINE w  == Wounded(m[t], d)
             r  == [w EXCEPT !.atk = IF w.rage /\ w.hp > 0 /\ @ < RankCap THEN @ + 1 ELSE @]
             m1 == [m EXCEPT ![t] = r]
  <1>1. w \in PokeParam /\ w.spot = m[t].spot
    BY WoundedTyped DEF Teams
  <1> HIDE DEF w
  <1>2. r \in PokeParam /\ r.spot = m[t].spot
    <2>1. (IF w.rage /\ w.hp > 0 /\ w.atk < RankCap THEN w.atk + 1 ELSE w.atk) \in 0 .. RankCap
      BY <1>1, BattleAssumption DEF PokeParam
    <2> QED BY <1>1, <2>1 DEF PokeParam
  <1> HIDE DEF r
  <1>3. SamePlaces(m, m1)
    BY <1>2 DEF SamePlaces, Teams
  <1>4. SamePlaces(m1, Faint(m1))
    BY <1>3, FaintKeeps DEF SamePlaces
  <1>5. Hurt(m, t, d) = Faint(m1)
    BY DEF Hurt, m1, r, w
  <1> QED BY <1>3, <1>4, <1>5 DEF SamePlaces

LEMMA LeaveKeeps ==
    ASSUME NEW m \in Teams, NEW p \in Pokes, \A q \in Pokes : Fresh(base[q])
    PROVE  /\ Leave(m, p) \in Teams /\ Leave(m, p)[p].spot = NoSpot
           /\ \A q \in Pokes \ {p} : Leave(m, p)[q].spot = m[q].spot
PROOF
  <1>1. LET r == Rested(base[p], m[p]) IN r \in PokeParam /\ r.spot = NoSpot
    BY DEF Rested, Teams, PokeParam, Fresh
  <1> QED BY <1>1, ReleaseKeeps DEF Leave, SamePlaces, Teams

LEMMA EnterKeeps ==
    ASSUME NEW m \in Teams, NEW q \in Pokes, NEW s \in Spots
    PROVE  /\ Enter(m, q, s) \in Teams /\ Enter(m, q, s)[q].spot = s
           /\ \A p \in Pokes \ {q} : Enter(m, q, s)[p].spot = m[p].spot
PROOF
  <1> DEFINE r  == [m[q] EXCEPT !.spot = s]
             m1 == [m EXCEPT ![q] = MemberInEvo(r)]
  <1>1. r \in PokeParam /\ r.spot = s
    BY DEF Teams, PokeParam
  <1>2. MemberInEvo(r) \in PokeParam /\ MemberInEvo(r).spot = s
    BY <1>1, AbilitiesReform, ReformedKeeps
  <1> HIDE DEF r
  <1>3. m1 \in Teams /\ m1[q].spot = s /\ \A p \in Pokes \ {q} : m1[p].spot = m[p].spot
    BY <1>2 DEF Teams
  <1>4. Enter(m, q, s) = [p \in Pokes |-> IF m1[p].spot # NoSpot THEN MemberInComp(m1[p]) ELSE m1[p]]
    BY DEF Enter, r, m1
  <1> HIDE DEF m1
  <1>5. ASSUME NEW p \in Pokes
        PROVE  MemberInComp(m1[p]) \in PokeParam /\ MemberInComp(m1[p]).spot = m1[p].spot
    BY <1>3, AbilitiesReform, ReformedKeeps DEF Teams
  <1> QED BY <1>3, <1>4, <1>5 DEF Teams

-------------------------------------------------------------------------------
(***************************************************************************)
(* Activations.                                                            *)
(***************************************************************************)
Places == {"PursuitProcess", "Guards", "action", "end"}

LEMMA ScenarioTyped ==
    ASSUME battle \in DOMAIN Scenarios
    PROVE  /\ \A p \in Pokes : Fresh(base[p]) /\ This.line[p] \in Spots
           /\ \A p \in Pokes : \A c \in This.options[p] : c \in Choices
BY BattleAssumption DEF This, base

LEMMA TopTyped ==
    ASSUME BattleTyped, stack # <<>>
    PROVE  /\ Len(stack) \in Nat \ {0} /\ Len(stack) \in DOMAIN stack
           /\ Top \in Frame /\ Top.act \in DOMAIN queue
           /\ Cur \in Doing /\ Me \in Pokes
PROOF
  <1>1. Len(stack) \in Nat \ {0} /\ Len(stack) \in DOMAIN stack
    BY EmptySeq, LenProperties DEF BattleTyped
  <1>2. Top \in Frame /\ Top.act \in DOMAIN queue
    BY <1>1, ElementOfSeq DEF BattleTyped, Top
  <1>3. Cur \in Doing
    BY <1>2, ElementOfSeq DEF BattleTyped, Cur
  <1> QED BY <1>1, <1>2, <1>3 DEF Me, Doing

LEMMA GotoKeeps ==
    ASSUME BattleTyped, stack # <<>>, NEW at \in Places, Goto(at)
    PROVE  /\ stack' \in Seq(Frame) /\ Len(stack') = Len(stack)
           /\ \A k \in DOMAIN stack' : k \in DOMAIN stack /\ stack'[k].act = stack[k].act
                                         /\ stack'[k].i = stack[k].i
           /\ \A k \in DOMAIN stack' : k # Len(stack) => stack'[k] = stack[k]
           /\ stack'[Len(stack)].at = at
PROOF
  <1>1. /\ Len(stack) \in Nat \ {0} /\ Len(stack) \in DOMAIN stack /\ Top \in Frame
    BY TopTyped
  <1>2. [Top EXCEPT !.at = at] \in Frame
    BY <1>1 DEF Frame, Places
  <1>3. stack' = [stack EXCEPT ![Len(stack)] = [Top EXCEPT !.at = at]]
    BY DEF Goto, Top
  <1>4. stack' \in Seq(Frame) /\ Len(stack') = Len(stack) /\ DOMAIN stack' = DOMAIN stack
    BY <1>1, <1>2, <1>3, ExceptSeq DEF BattleTyped
  <1>5. /\ stack'[Len(stack)] = [Top EXCEPT !.at = at]
        /\ \A k \in DOMAIN stack : k # Len(stack) => stack'[k] = stack[k]
    BY <1>1, <1>3, <1>4
  <1>6. /\ [Top EXCEPT !.at = at].at = at /\ [Top EXCEPT !.at = at].act = Top.act
        /\ [Top EXCEPT !.at = at].i = Top.i
    BY <1>1 DEF Frame
  <1> QED BY <1>1, <1>4, <1>5, <1>6 DEF Top

LEMMA ReturnKeeps ==
    ASSUME BattleTyped, stack # <<>>, Return
    PROVE  /\ stack' \in Seq(Frame) /\ Len(stack') = Len(stack) - 1
           /\ \A k \in DOMAIN stack' : k \in DOMAIN stack /\ k # Len(stack) /\ stack'[k] = stack[k]
PROOF
  <1>1. Len(stack) \in Nat \ {0} /\ stack \in Seq(Frame)
    BY TopTyped DEF BattleTyped
  <1>2. /\ stack' \in Seq(Frame) /\ Len(stack') = Len(stack) - 1
        /\ \A k \in 1 .. Len(stack) - 1 : stack'[k] = stack[k]
    <2>1. 1 \in Int /\ Len(stack) - 1 \in Int /\ \A k \in 1 .. Len(stack) - 1 : stack[k] \in Frame
      BY <1>1, ElementOfSeq
    <2> DEFINE s == SubSeq(stack, 1, Len(stack) - 1)
    <2>2. /\ s \in Seq(Frame) /\ Len(s) = IF 1 <= Len(stack) - 1 THEN Len(stack) - 1 - 1 + 1 ELSE 0
          /\ \A k \in 1 .. Len(stack) - 1 - 1 + 1 : s[k] = stack[1 + k - 1]
      BY <2>1, SubSeqProperties
    <2>3. stack' = s
      BY DEF Return
    <2> HIDE DEF s
    <2>4. Len(s) = Len(stack) - 1
      <3>1. ASSUME NEW n \in Nat \ {0}
            PROVE  (IF 1 <= n - 1 THEN n - 1 - 1 + 1 ELSE 0) = n - 1
        OBVIOUS
      <3> QED BY <1>1, <2>2, <3>1
    <2>5. ASSUME NEW k \in 1 .. Len(stack) - 1 PROVE s[k] = stack[k]
      BY <1>1, <2>2
    <2> QED BY <2>2, <2>3, <2>4, <2>5
  <1> QED BY <1>1, <1>2, LenProperties

LEMMA EntersKeeps ==
    ASSUME NEW k, NEW q \in Seq(Doing), NEW st \in Seq(Frame), k \in DOMAIN q, Enters(k, q, st)
    PROVE  /\ queue' \in Seq(Doing) /\ DOMAIN queue' = DOMAIN q /\ Len(queue') = Len(q)
           /\ queue'[k] = [q[k] EXCEPT !.fDone = TRUE] /\ queue'[k] \in Doing
           /\ \A j \in DOMAIN q : j # k => queue'[j] = q[j]
           /\ stack' \in Seq(Frame) /\ Len(stack') = Len(st) + 1
           /\ \A j \in DOMAIN st : j \in DOMAIN stack' /\ stack'[j] = st[j]
           /\ \A j \in DOMAIN stack' : j \in DOMAIN st \/ j = Len(st) + 1
           /\ stack'[Len(st) + 1] = [act |-> k, at |-> "PursuitProcess", i |-> 1]
PROOF
  <1>1. q[k] \in Doing /\ k \in Nat
    BY ElementOfSeq, LenProperties
  <1>2. [q[k] EXCEPT !.fDone = TRUE] \in Doing
    BY <1>1 DEF Doing
  <1>3. queue' = [q EXCEPT ![k] = [q[k] EXCEPT !.fDone = TRUE]]
    BY DEF Enters
  <1>4. queue' \in Seq(Doing) /\ DOMAIN queue' = DOMAIN q /\ Len(queue') = Len(q)
    BY <1>2, <1>3, ExceptSeq
  <1>5. [act |-> k, at |-> "PursuitProcess", i |-> 1] \in Frame
    BY <1>1 DEF Frame
  <1>6. /\ stack' \in Seq(Frame) /\ Len(stack') = Len(st) + 1
        /\ \A j \in 1 .. Len(st) : stack'[j] = st[j]
        /\ stack'[Len(st) + 1] = [act |-> k, at |-> "PursuitProcess", i |-> 1]
    BY <1>5, AppendProperties DEF Enters
  <1>7. DOMAIN st = 1 .. Len(st) /\ DOMAIN stack' = 1 .. Len(st) + 1 /\ Len(st) \in Nat
    BY <1>6, LenProperties
  <1> QED BY <1>2, <1>3, <1>4, <1>6, <1>7

-------------------------------------------------------------------------------
(***************************************************************************)
(* Types.                                                                  *)
(***************************************************************************)

LEMMA OneChanges ==
    ASSUME NEW m \in Teams, NEW p \in Pokes, NEW r \in PokeParam, r.spot = m[p].spot
    PROVE  SamePlaces(m, [m EXCEPT ![p] = r])
BY DEF SamePlaces, Teams

LEMMA SamePlacesTwice ==
    ASSUME NEW m1, NEW m2, NEW m3, SamePlaces(m1, m2), SamePlaces(m2, m3)
    PROVE  SamePlaces(m1, m3)
BY DEF SamePlaces

LEMMA RecordsChanged ==
    ASSUME NEW r \in PokeParam, NEW t \in Pokes
    PROVE  /\ LET r2 == [r EXCEPT !.sky = TRUE, !.holds = t] IN r2 \in PokeParam /\ r2.spot = r.spot
           /\ LET r2 == [r EXCEPT !.sky = TRUE, !.freefall = TRUE] IN r2 \in PokeParam /\ r2.spot = r.spot
           /\ LET r2 == [r EXCEPT !.rage = TRUE] IN r2 \in PokeParam /\ r2.spot = r.spot
           /\ LET r2 == [r EXCEPT !.sick = TRUE] IN r2 \in PokeParam /\ r2.spot = r.spot
           /\ LET r2 == [r EXCEPT !.protect = TRUE, !.mamoru = 1] IN r2 \in PokeParam /\ r2.spot = r.spot
           /\ \A a \in {"None", "Insomnia"} :
                LET r2 == [r EXCEPT !.ability = a] IN r2 \in PokeParam /\ r2.spot = r.spot
PROOF
  <1>1. LET r2 == [r EXCEPT !.sky = TRUE, !.holds = t] IN r2 \in PokeParam /\ r2.spot = r.spot
    BY DEF PokeParam
  <1>2. LET r2 == [r EXCEPT !.sky = TRUE, !.freefall = TRUE] IN r2 \in PokeParam /\ r2.spot = r.spot
    BY DEF PokeParam
  <1>3. LET r2 == [r EXCEPT !.rage = TRUE] IN r2 \in PokeParam /\ r2.spot = r.spot
    BY DEF PokeParam
  <1>4. LET r2 == [r EXCEPT !.sick = TRUE] IN r2 \in PokeParam /\ r2.spot = r.spot
    BY DEF PokeParam
  <1>5. LET r2 == [r EXCEPT !.protect = TRUE, !.mamoru = 1] IN r2 \in PokeParam /\ r2.spot = r.spot
    BY DEF PokeParam
  <1>6. ASSUME NEW a \in {"None", "Insomnia"}
        PROVE  LET r2 == [r EXCEPT !.ability = a] IN r2 \in PokeParam /\ r2.spot = r.spot
    BY DEF PokeParam, Abilities
  <1> QED BY <1>1, <1>2, <1>3, <1>4, <1>5, <1>6

LEMMA TransformedRecord ==
    ASSUME NEW r \in PokeParam, NEW t \in PokeParam
    PROVE  LET r2 == [r EXCEPT !.species = t.species, !.form = t.form,
                               !.ability = t.ability, !.zen = FALSE, !.hensin = TRUE]
           IN  r2 \in PokeParam /\ r2.spot = r.spot
BY DEF PokeParam

LEMMA CarryOffKeeps ==
    ASSUME NEW m \in Teams, NEW p \in Pokes, NEW t \in Pokes
    PROVE  SamePlaces(m, CarryOff(m, p, t))
PROOF
  <1> DEFINE r  == [m[p] EXCEPT !.sky = TRUE, !.holds = t]
             m1 == [m EXCEPT ![p] = r]
             r2 == [m1[t] EXCEPT !.sky = TRUE, !.freefall = TRUE]
  <1>1. r \in PokeParam /\ r.spot = m[p].spot
    BY RecordsChanged DEF Teams
  <1> HIDE DEF r
  <1>2. SamePlaces(m, m1) /\ m1 \in Teams
    BY <1>1, OneChanges DEF SamePlaces
  <1> HIDE DEF m1
  <1>3. r2 \in PokeParam /\ r2.spot = m1[t].spot
    BY <1>2, RecordsChanged DEF Teams
  <1> HIDE DEF r2
  <1>4. SamePlaces(m1, [m1 EXCEPT ![t] = r2])
    BY <1>2, <1>3, OneChanges
  <1>5. CarryOff(m, p, t) = [m1 EXCEPT ![t] = r2]
    BY DEF CarryOff, m1, r, r2
  <1> QED BY <1>2, <1>4, <1>5, SamePlacesTwice

LEMMA DecidedKeeps ==
    ASSUME BattleTyped, stack # <<>>
    PROVE  SamePlaces(mon, Decided) /\ Decided \in Teams
PROOF
  <1>1. Me \in Pokes /\ Cur.waza \in STRING /\ mon \in Teams
    BY TopTyped DEF BattleTyped, Teams, Doing
  <1> DEFINE r  == StanceChange(mon[Me], Cur.waza \in Damaging, Cur.waza = "King's Shield")
             r2 == [r EXCEPT !.rage = FALSE, !.last = Cur.waza, !.mamoru = 0]
  <1>2. r \in PokeParam /\ r.spot = mon[Me].spot
    <2>1. (Cur.waza \in Damaging) \in BOOLEAN /\ (Cur.waza = "King's Shield") \in BOOLEAN
      OBVIOUS
    <2>2. mon[Me] \in PokeParam
      BY <1>1 DEF Teams
    <2>3. \A d, sh \in BOOLEAN : Reformed(mon[Me], StanceChange(mon[Me], d, sh))
      BY <2>2, AbilitiesReform
    <2> QED BY <2>1, <2>2, <2>3, ReformedKeeps
  <1> HIDE DEF r
  <1>3. r2 \in PokeParam /\ r2.spot = mon[Me].spot
    BY <1>1, <1>2 DEF PokeParam
  <1>4. Decided = [mon EXCEPT ![Me] = r2]
    BY DEF Decided, r2, r
  <1> QED BY <1>1, <1>3, <1>4 DEF SamePlaces, Teams

LEMMA AimTyped == ASSUME BattleTyped PROVE Aim \in Pokes \cup {NoPoke}
BY DEF Aim, Occupant

LEMMA ReachedAim ==
    ASSUME BattleTyped, Reached
    PROVE  Aim \in Pokes
BY AimTyped DEF Reached

\* Of those on the field nobody but the Pokemon that acts changes its place.
OnlyMeLeaves == mon' \in Teams /\ \A p \in Pokes \ {Me} : IsExist(mon, p) => mon'[p].spot = mon[p].spot

LEMMA SettledStays ==
    ASSUME SamePlaces(mon, mon')
    PROVE  OnlyMeLeaves
BY DEF SamePlaces, OnlyMeLeaves

LEMMA DecidedThenHurt ==
    ASSUME BattleTyped, stack # <<>>, Reached, NEW d \in Nat
    PROVE  SamePlaces(mon, Hurt(Decided, Aim, d)) /\ Hurt(Decided, Aim, d) \in Teams
PROOF
  <1>1. SamePlaces(Decided, Hurt(Decided, Aim, d))
    BY DecidedKeeps, ReachedAim, HurtKeeps
  <1> QED BY <1>1, DecidedKeeps DEF SamePlaces

LEMMA SwapStays ==
    ASSUME BattleTyped, stack # <<>>, NEW m \in Teams, SamePlaces(mon, m),
           NEW q \in Bench(mon, Team[Me]),
           mon' = Enter(Leave(m, Me), q, mon[Me].spot)
    PROVE  OnlyMeLeaves
PROOF
  <1>1. Me \in Pokes /\ q \in Pokes /\ ~IsExist(mon, q) /\ mon[Me].spot \in Spots /\ mon \in Teams
    BY TopTyped DEF Bench, BattleTyped, Teams, PokeParam
  <1>2. /\ Leave(m, Me) \in Teams
        /\ \A p \in Pokes \ {Me} : Leave(m, Me)[p].spot = m[p].spot
    BY <1>1, LeaveKeeps, ScenarioTyped DEF BattleTyped
  <1>3. mon' \in Teams /\ \A p \in Pokes \ {q} : mon'[p].spot = Leave(m, Me)[p].spot
    BY <1>1, <1>2, EnterKeeps
  <1> QED BY <1>1, <1>2, <1>3 DEF OnlyMeLeaves, SamePlaces, IsExist

LEMMA MovesStay ==
    ASSUME BattleTyped, stack # <<>>,
           MoveFails \/ Pursuit \/ FreeFallStart \/ SkyDropFalls \/ Rage \/ KingsShield
             \/ ThunderWave \/ Transform \/ GastroAcid \/ WorrySeed \/ ChangeWeather
    PROVE  SamePlaces(mon, mon')
PROOF
  <1>1. mon \in Teams /\ Me \in Pokes /\ SamePlaces(mon, Decided) /\ Decided \in Teams
    BY TopTyped, DecidedKeeps DEF BattleTyped, Teams
  <1>2. CASE MoveFails
    <2>1. PICK m \in {mon, Decided} : mon' = FreeFallRelease(m, {Me})
      BY <1>2 DEF MoveFails, Does
    <2>2. m \in Teams /\ SamePlaces(mon, m)
      BY <1>1 DEF SamePlaces
    <2> QED BY <2>1, <2>2, ReleaseKeeps DEF SamePlaces
  <1>3. CASE Pursuit
    BY <1>1, <1>3, DecidedThenHurt DEF Pursuit, Does
  <1>4. CASE FreeFallStart
    <2>1. ASSUME Aim # NoPoke PROVE SamePlaces(mon, CarryOff(Decided, Me, Aim))
      BY <1>1, <2>1, AimTyped, CarryOffKeeps, SamePlacesTwice
    <2>2. mon' = IF Aim # NoPoke /\ CanBeTaken(Aim) THEN CarryOff(Decided, Me, Aim) ELSE Decided
      BY <1>4 DEF FreeFallStart, Does
    <2> QED BY <1>1, <2>1, <2>2
  <1>5. CASE SkyDropFalls
    <2> DEFINE t == mon[Me].holds
               m == FreeFallRelease(Decided, {Me})
    <2>1. t \in Pokes
      BY <1>1, <1>5 DEF SkyDropFalls, Teams, PokeParam
    <2>2. m \in Teams /\ SamePlaces(mon, m)
      BY <1>1, ReleaseKeeps DEF SamePlaces
    <2> HIDE DEF m
    <2>3. SamePlaces(m, Hurt(m, t, 1))
      BY <2>1, <2>2, HurtKeeps
    <2>4. SamePlaces(mon, Hurt(m, t, 1))
      BY <2>2, <2>3 DEF SamePlaces
    <2>5. mon' = IF "Sky Drop" \in Immune[t] THEN m ELSE Hurt(m, t, 1)
      BY <1>5 DEF SkyDropFalls, Does, m
    <2> QED BY <2>2, <2>4, <2>5
  <1>6. CASE Rage
    <2> DEFINE m == Hurt(Decided, Aim, 1)
    <2>1. ASSUME Reached PROVE SamePlaces(mon, [m EXCEPT ![Me].rage = TRUE])
      <3>1. m \in Teams /\ SamePlaces(mon, m)
        BY <2>1, DecidedThenHurt
      <3> HIDE DEF m
      <3>2. m[Me] \in PokeParam
        BY <1>1, <3>1 DEF Teams
      <3>3. LET r == [m[Me] EXCEPT !.rage = TRUE] IN r \in PokeParam /\ r.spot = m[Me].spot
        BY <1>1, <3>2, RecordsChanged
      <3> QED BY <1>1, <3>1, <3>3, OneChanges, SamePlacesTwice
    <2>2. mon' = IF Reached THEN [m EXCEPT ![Me].rage = TRUE] ELSE Decided
      BY <1>6 DEF Rage, Does
    <2> HIDE DEF m
    <2> QED BY <1>1, <2>1, <2>2
  <1>7. CASE KingsShield
    <2>1. LET r == [Decided[Me] EXCEPT !.protect = TRUE, !.mamoru = 1] IN
          r \in PokeParam /\ r.spot = Decided[Me].spot
      BY <1>1, RecordsChanged DEF Teams
    <2>2. mon' = [Decided EXCEPT ![Me] = [Decided[Me] EXCEPT !.protect = TRUE, !.mamoru = 1]]
      BY <1>1, <1>7 DEF KingsShield, Does, Teams
    <2> QED BY <1>1, <2>1, <2>2, OneChanges, SamePlacesTwice
  <1>8. CASE ThunderWave
    <2> DEFINE r == [Decided[Aim] EXCEPT !.sick = TRUE]
    <2>1. ASSUME Reached PROVE SamePlaces(mon, [Decided EXCEPT ![Aim] = r])
      <3>1. Aim \in Pokes
        BY <2>1, ReachedAim
      <3>2. r \in PokeParam /\ r.spot = Decided[Aim].spot
        BY <1>1, <3>1, RecordsChanged DEF Teams
      <3> QED BY <1>1, <3>1, <3>2, OneChanges, SamePlacesTwice
    <2>2. mon' = IF Reached /\ ~AddSickCheckFail(mon[Aim]) THEN [Decided EXCEPT ![Aim] = r] ELSE Decided
      BY <1>8 DEF ThunderWave, Does
    <2> HIDE DEF r
    <2> QED BY <1>1, <2>1, <2>2
  <1>9. CASE Transform
    <2> DEFINE t == mon[Aim]
               r == [Decided[Me] EXCEPT !.species = t.species, !.form = t.form,
                                        !.ability = t.ability, !.zen = FALSE, !.hensin = TRUE]
    <2>1. ASSUME Reached PROVE SamePlaces(mon, [Decided EXCEPT ![Me] = r])
      <3>1. t \in PokeParam
        BY <1>1, <2>1, ReachedAim DEF Teams
      <3> HIDE DEF t
      <3>2. r \in PokeParam /\ r.spot = Decided[Me].spot
        BY <1>1, <3>1, TransformedRecord DEF Teams
      <3> QED BY <1>1, <3>2, OneChanges, SamePlacesTwice
    <2>2. mon' = Decided \/ (Reached /\ mon' = [Decided EXCEPT ![Me] = r])
      BY <1>9 DEF Transform, Does
    <2> HIDE DEF r
    <2> QED BY <1>1, <2>1, <2>2
  <1>10. CASE GastroAcid
    <2> DEFINE d == TokuseiDisable(Decided[Aim])
               r == [d EXCEPT !.ability = "None"]
    <2>1. ASSUME Reached PROVE SamePlaces(mon, [Decided EXCEPT ![Aim] = r])
      <3>1. Aim \in Pokes
        BY <2>1, ReachedAim
      <3>2. d \in PokeParam /\ d.spot = Decided[Aim].spot
        BY <1>1, <3>1, AbilitiesReform, ReformedKeeps DEF Teams
      <3> HIDE DEF d
      <3>3. r \in PokeParam /\ r.spot = Decided[Aim].spot
        BY <1>1, <3>2, RecordsChanged
      <3> QED BY <1>1, <3>1, <3>3, OneChanges, SamePlacesTwice
    <2>2. mon' = IF Reached THEN [Decided EXCEPT ![Aim] = r] ELSE Decided
      BY <1>10 DEF GastroAcid, Does
    <2> HIDE DEF r
    <2> QED BY <1>1, <2>1, <2>2
  <1>11. CASE WorrySeed
    <2> DEFINE m  == [Decided EXCEPT ![Aim].ability = "Insomnia"]
               m2 == [p \in Pokes |-> IF IsExist(m, p) THEN ChangeTokuseiAfter(m[p], p = Aim) ELSE m[p]]
    <2>1. ASSUME Reached PROVE SamePlaces(mon, m2)
      <3>1. m \in Teams /\ SamePlaces(mon, m)
        <4>1. Aim \in Pokes
          BY <2>1, ReachedAim
        <4>2. LET r == [Decided[Aim] EXCEPT !.ability = "Insomnia"] IN
              r \in PokeParam /\ r.spot = Decided[Aim].spot
          BY <1>1, <4>1, RecordsChanged DEF Teams
        <4>3. SamePlaces(Decided, m)
          BY <1>1, <4>1, <4>2, OneChanges
        <4> QED BY <1>1, <4>3, SamePlacesTwice DEF SamePlaces
      <3> HIDE DEF m
      <3>2. ASSUME NEW p \in Pokes
            PROVE  /\ ChangeTokuseiAfter(m[p], p = Aim) \in PokeParam
                   /\ ChangeTokuseiAfter(m[p], p = Aim).spot = m[p].spot
        <4>1. (p = Aim) \in BOOLEAN /\ m[p] \in PokeParam
          BY <3>1 DEF Teams
        <4>2. Reformed(m[p], ChangeTokuseiAfter(m[p], p = Aim))
          BY <4>1, AbilitiesReform
        <4> QED BY <4>1, <4>2, ReformedKeeps
      <3> QED BY <3>1, <3>2 DEF SamePlaces, Teams
    <2>2. mon' = IF Reached THEN m2 ELSE Decided
      BY <1>11 DEF WorrySeed, Does
    <2> HIDE DEF m2
    <2> QED BY <1>1, <2>1, <2>2
  <1>12. CASE ChangeWeather
    BY <1>1, <1>12 DEF ChangeWeather
  <1> QED BY <1>2, <1>3, <1>4, <1>5, <1>6, <1>7, <1>8, <1>9, <1>10, <1>11, <1>12

\* What every action leaves: the one that acts is all that may have gone.
LEMMA ActionKeeps ==
    ASSUME BattleTyped, Action
    PROVE  /\ stack # <<>> /\ Top.at = "action"
           /\ OnlyMeLeaves
           /\ UNCHANGED <<battle, queue, next, turn, acted>>
           /\ \/ Goto("end") /\ UNCHANGED phase
              \/ stack' = <<>> /\ phase' = "over" /\ UNCHANGED mon
           /\ weatherTurn' \in 1 .. Forever
PROOF
  <1>1. stack # <<>> /\ Top.at = "action"
    BY DEF Action, MoveFails, Pursuit, HitAndLeave, FreeFallStart, SkyDropFalls, Rage, KingsShield,
           ThunderWave, Transform, GastroAcid, WorrySeed, ChangeWeather, PokeChange, Escape, Using, At
  <1>2. mon \in Teams /\ weatherTurn \in 1 .. Forever /\ SamePlaces(mon, Decided) /\ Decided \in Teams
    BY <1>1, DecidedKeeps DEF BattleTyped, Teams
  <1>3. SamePlaces(mon, mon)
    BY <1>2 DEF SamePlaces
  <1>4. CASE MoveFails \/ Pursuit \/ FreeFallStart \/ SkyDropFalls \/ Rage \/ KingsShield
               \/ ThunderWave \/ Transform \/ GastroAcid \/ WorrySeed
    <2>1. Goto("end") /\ Keep /\ UNCHANGED weatherTurn
      BY <1>4 DEF MoveFails, Pursuit, FreeFallStart, SkyDropFalls, Rage, KingsShield, ThunderWave,
                  Transform, GastroAcid, WorrySeed, Does
    <2>2. SamePlaces(mon, mon')
      BY <1>1, <1>4, MovesStay
    <2> QED BY <1>1, <1>2, <2>1, <2>2, SettledStays DEF Keep
  <1>5. CASE ChangeWeather
    <2>1. weatherTurn' \in 1 .. Forever
      BY <1>2, <1>5, BattleAssumption DEF ChangeWeather
    <2>2. SamePlaces(mon, mon')
      BY <1>1, <1>5, MovesStay
    <2> QED BY <1>1, <1>5, <2>1, <2>2, SettledStays DEF ChangeWeather, Keep
  <1>6. CASE HitAndLeave
    <2>1. Goto("end") /\ Keep /\ UNCHANGED weatherTurn
      BY <1>6 DEF HitAndLeave, Does
    <2>2. OnlyMeLeaves
      <3> DEFINE hit == Hurt(Decided, Aim, 1)
      <3>1. CASE ~Reached
        BY <1>2, <1>6, <3>1, SettledStays DEF HitAndLeave, Does
      <3>2. CASE Reached
        <4>1. SamePlaces(mon, hit) /\ hit \in Teams
          BY <1>1, <3>2, DecidedThenHurt
        <4>2. CASE Bench(mon, Team[Me]) = {}
          BY <1>6, <3>2, <4>1, <4>2, SettledStays DEF HitAndLeave, Does
        <4>3. CASE Bench(mon, Team[Me]) # {}
          <5>1. PICK q \in Bench(mon, Team[Me]) : mon' = Enter(Leave(hit, Me), q, mon[Me].spot)
            BY <1>6, <3>2, <4>3 DEF HitAndLeave, Does
          <5> HIDE DEF hit
          <5> QED BY <1>1, <4>1, <5>1, SwapStays
        <4> QED BY <4>2, <4>3
      <3> QED BY <3>1, <3>2
    <2> QED BY <1>1, <1>2, <2>1, <2>2 DEF Keep
  <1>7. CASE PokeChange
    <2>1. Goto("end") /\ Keep /\ UNCHANGED weatherTurn
      BY <1>7 DEF PokeChange, Does
    <2>2. OnlyMeLeaves
      BY <1>1, <1>2, <1>3, <1>7, SettledStays, SwapStays DEF PokeChange, Does
    <2> QED BY <1>1, <1>2, <2>1, <2>2 DEF Keep
  <1>8. CASE Escape
    BY <1>1, <1>2, <1>3, <1>8, SettledStays DEF Escape, Does, Keep
  <1> QED BY <1>4, <1>5, <1>6, <1>7, <1>8 DEF Action

LEMMA TypedInit ==
    ASSUME Init
    PROVE  BattleTyped
PROOF
  <1>1. battle \in DOMAIN Scenarios
    BY DEF Init
  <1>2. ASSUME NEW p \in Pokes
        PROVE  /\ base[p] \in PokeParam
               /\ MemberInComp(MemberInEvo([base[p] EXCEPT !.spot = This.line[p]])) \in PokeParam
    <2>1. base[p] \in PokeParam /\ This.line[p] \in Spots
      BY <1>1, ScenarioTyped DEF Fresh
    <2>2. [base[p] EXCEPT !.spot = This.line[p]] \in PokeParam
      BY <2>1 DEF PokeParam
    <2>3. MemberInEvo([base[p] EXCEPT !.spot = This.line[p]]) \in PokeParam
      BY <2>2, AbilitiesReform, ReformedKeeps
    <2> QED BY <2>1, <2>3, AbilitiesReform, ReformedKeeps
  <1>3. mon \in [Pokes -> PokeParam]
    BY <1>2 DEF Init
  <1>4. queue \in Seq(Doing) /\ stack \in Seq(Frame) /\ DOMAIN stack = {}
    BY EmptySeq, LenProperties DEF Init
  <1> QED BY <1>1, <1>3, <1>4 DEF Init, BattleTyped, Forever

\* The activations after a step of one of them stay in the queue.
LEMMA TypedGoto ==
    ASSUME BattleTyped, stack # <<>>, NEW at \in Places, Goto(at), queue' = queue
    PROVE  stack' \in Seq(Frame) /\ \A k \in DOMAIN stack' : stack'[k].act \in DOMAIN queue'
BY GotoKeeps DEF BattleTyped

LEMMA TypedReturn ==
    ASSUME BattleTyped, stack # <<>>, Return, queue' = queue
    PROVE  stack' \in Seq(Frame) /\ \A k \in DOMAIN stack' : stack'[k].act \in DOMAIN queue'
BY ReturnKeeps DEF BattleTyped

\* What PursuitInterrupt hands over: the same actions, the activation below
\* one turn of its loop further.
LEMMA InterruptKeeps ==
    ASSUME BattleTyped, stack # <<>>, NEW j \in Ahead
    PROVE  /\ j \in DOMAIN queue
           /\ AimedAtLeaver(j) \in Seq(Doing) /\ DOMAIN AimedAtLeaver(j) = DOMAIN queue
           /\ \A k \in DOMAIN queue : k # j => AimedAtLeaver(j)[k] = queue[k]
           /\ LET a == AimedAtLeaver(j)[j] IN
              /\ a.poke = queue[j].poke /\ a.cat = queue[j].cat /\ a.waza = queue[j].waza
              /\ a.aim = queue[j].aim /\ a.encore = queue[j].encore /\ a.fDone = queue[j].fDone
              /\ a.oiuti /\ a.pos = mon[Me].spot
           /\ LoopPast(j) \in Seq(Frame) /\ DOMAIN LoopPast(j) = DOMAIN stack
           /\ Len(LoopPast(j)) = Len(stack)
           /\ \A k \in DOMAIN stack : LoopPast(j)[k].act = stack[k].act /\ LoopPast(j)[k].at = stack[k].at
           /\ \A k \in DOMAIN stack : k # Len(stack) => LoopPast(j)[k] = stack[k]
           /\ LoopPast(j)[Len(stack)].i = j + 1
PROOF
  <1>1. Len(stack) \in DOMAIN stack /\ Top \in Frame /\ Me \in Pokes
    BY TopTyped
  <1>2. j \in DOMAIN queue /\ j \in Nat \ {0}
    BY <1>1, LenProperties DEF Ahead, Frame, BattleTyped
  <1> DEFINE a == [queue[j] EXCEPT !.oiuti = TRUE]
             b == [a EXCEPT !.pos = mon[Me].spot]
             q == [queue EXCEPT ![j] = a]
  <1>3. queue[j] \in Doing /\ mon[Me].spot \in Spots
    BY <1>1, <1>2, ElementOfSeq DEF BattleTyped, PokeParam
  <1>4. /\ a \in Doing /\ a.oiuti /\ a.poke = queue[j].poke /\ a.cat = queue[j].cat /\ a.waza = queue[j].waza
        /\ a.aim = queue[j].aim /\ a.encore = queue[j].encore /\ a.fDone = queue[j].fDone
    BY <1>3 DEF Doing
  <1> HIDE DEF a
  <1>5. /\ b \in Doing /\ b.oiuti /\ b.poke = a.poke /\ b.cat = a.cat /\ b.waza = a.waza
        /\ b.aim = a.aim /\ b.encore = a.encore /\ b.fDone = a.fDone /\ b.pos = mon[Me].spot
    BY <1>3, <1>4 DEF Doing
  <1> HIDE DEF b
  <1>6. /\ q \in Seq(Doing) /\ DOMAIN q = DOMAIN queue /\ Len(q) = Len(queue) /\ q[j] = a
        /\ \A k \in DOMAIN queue : k # j => q[k] = queue[k]
    BY <1>2, <1>4, ExceptSeq, LenProperties DEF BattleTyped
  <1> HIDE DEF q
  <1>7. AimedAtLeaver(j) = [q EXCEPT ![j] = b]
    BY <1>6 DEF AimedAtLeaver, q, a, b
  <1>8. /\ AimedAtLeaver(j) \in Seq(Doing) /\ DOMAIN AimedAtLeaver(j) = DOMAIN queue
        /\ AimedAtLeaver(j)[j] = b
        /\ \A k \in DOMAIN queue : k # j => AimedAtLeaver(j)[k] = queue[k]
    BY <1>2, <1>5, <1>6, <1>7, ExceptSeq, LenProperties DEF BattleTyped
  <1> DEFINE f == [Top EXCEPT !.i = j + 1]
  <1>9. f \in Frame /\ f.i = j + 1 /\ f.act = Top.act /\ f.at = Top.at
    BY <1>1, <1>2 DEF Frame
  <1>10. LoopPast(j) = [stack EXCEPT ![Len(stack)] = f]
    BY DEF LoopPast, Top
  <1> HIDE DEF f
  <1>11. /\ LoopPast(j) \in Seq(Frame) /\ DOMAIN LoopPast(j) = DOMAIN stack
         /\ Len(LoopPast(j)) = Len(stack) /\ LoopPast(j)[Len(stack)] = f
         /\ \A k \in DOMAIN stack : k # Len(stack) => LoopPast(j)[k] = stack[k]
    BY <1>1, <1>9, <1>10, ExceptSeq, LenProperties DEF BattleTyped
  <1> QED BY <1>1, <1>2, <1>4, <1>5, <1>8, <1>9, <1>11 DEF Top

LEMMA TypedEnters ==
    ASSUME NEW k, NEW q \in Seq(Doing), NEW st \in Seq(Frame), k \in DOMAIN q, Enters(k, q, st),
           \A j \in DOMAIN st : st[j].act \in DOMAIN q
    PROVE  /\ queue' \in Seq(Doing) /\ stack' \in Seq(Frame)
           /\ \A j \in DOMAIN stack' : stack'[j].act \in DOMAIN queue'
PROOF
  <1>1. /\ queue' \in Seq(Doing) /\ DOMAIN queue' = DOMAIN q /\ Len(queue') = Len(q)
        /\ queue'[k] = [q[k] EXCEPT !.fDone = TRUE] /\ queue'[k] \in Doing
        /\ \A j \in DOMAIN q : j # k => queue'[j] = q[j]
        /\ stack' \in Seq(Frame) /\ Len(stack') = Len(st) + 1
        /\ \A j \in DOMAIN st : j \in DOMAIN stack' /\ stack'[j] = st[j]
        /\ \A j \in DOMAIN stack' : j \in DOMAIN st \/ j = Len(st) + 1
        /\ stack'[Len(st) + 1] = [act |-> k, at |-> "PursuitProcess", i |-> 1]
    BY EntersKeeps
  <1>2. ASSUME NEW j \in DOMAIN stack' PROVE stack'[j].act \in DOMAIN queue'
    <2>1. CASE j \in DOMAIN st
      BY <1>1, <2>1
    <2>2. CASE j = Len(st) + 1
      BY <1>1, <2>2
    <2> QED BY <1>1, <2>1, <2>2
  <1> QED BY <1>1, <1>2

LEMMA TypedCore ==
    ASSUME BattleTyped, Core
    PROVE  BattleTyped'
PROOF
  <1>1. stack # <<>>
    BY DEF Core, PursuitInterrupt, PursuitDone, ActionCheer, Missing, Cancelled, ActProcStart,
           EventActProcEnd, At
  <1>2. Me \in Pokes /\ Len(stack) \in DOMAIN stack /\ phase = "act"
    BY <1>1, TopTyped DEF BattleTyped
  <1>3. CASE PursuitInterrupt
    <2>1. PICK j \in Ahead :
            IF queue[j].encore
            THEN stack' = LoopPast(j) /\ queue' = queue
            ELSE Enters(j, AimedAtLeaver(j), LoopPast(j))
      BY <1>3 DEF PursuitInterrupt
    <2>2. UNCHANGED <<battle, mon, next, phase, turn, weather, weatherTurn, acted>>
      BY <1>3 DEF PursuitInterrupt
    <2>3. CASE queue[j].encore
      BY <1>1, <1>2, <2>1, <2>2, <2>3, InterruptKeeps DEF BattleTyped
    <2>4. CASE ~queue[j].encore
      <3>1. Enters(j, AimedAtLeaver(j), LoopPast(j)) /\ j \in DOMAIN queue
        BY <1>1, <2>1, <2>4, InterruptKeeps
      <3>2. /\ AimedAtLeaver(j) \in Seq(Doing) /\ LoopPast(j) \in Seq(Frame)
            /\ DOMAIN AimedAtLeaver(j) = DOMAIN queue /\ DOMAIN LoopPast(j) = DOMAIN stack
            /\ \A k \in DOMAIN stack : LoopPast(j)[k].act = stack[k].act
        BY <1>1, InterruptKeeps
      <3>3. /\ j \in DOMAIN AimedAtLeaver(j)
            /\ \A k \in DOMAIN LoopPast(j) : LoopPast(j)[k].act \in DOMAIN AimedAtLeaver(j)
        BY <3>1, <3>2 DEF BattleTyped
      <3>4. /\ queue' \in Seq(Doing) /\ stack' \in Seq(Frame)
            /\ \A k \in DOMAIN stack' : stack'[k].act \in DOMAIN queue'
        BY <3>1, <3>2, <3>3, TypedEnters
      <3> QED BY <1>2, <2>2, <3>4 DEF BattleTyped
    <2> QED BY <2>3, <2>4
  <1>4. CASE PursuitDone
    BY <1>1, <1>2, <1>4, TypedGoto DEF PursuitDone, BattleTyped, Places
  <1>5. CASE ActionCheer \/ Missing
    BY <1>1, <1>2, <1>5, TypedReturn DEF ActionCheer, Missing, BattleTyped
  <1>6. CASE Cancelled
    <2>1. [mon[Me] EXCEPT !.mamoru = 0] \in PokeParam
      BY <1>2 DEF BattleTyped, PokeParam
    <2>2. mon' \in [Pokes -> PokeParam]
      BY <1>6, <2>1 DEF Cancelled, BattleTyped
    <2> QED BY <1>1, <1>2, <1>6, <2>2, TypedReturn DEF Cancelled, BattleTyped
  <1>7. CASE ActProcStart
    <2>1. acted' \in [Pokes -> 0 .. 2]
      BY <1>2, <1>7 DEF ActProcStart, BattleTyped
    <2> QED BY <1>1, <1>2, <1>7, <2>1, TypedGoto DEF ActProcStart, BattleTyped, Places
  <1>8. CASE EventActProcEnd
    <2>1. ASSUME NEW p \in Pokes PROVE mon[p] \in PokeParam /\ ActProcEnd(mon[p]) \in PokeParam
      BY AbilitiesReform, ReformedKeeps DEF BattleTyped
    <2>2. mon' \in [Pokes -> PokeParam]
      BY <1>8, <2>1 DEF EventActProcEnd
    <2> QED BY <1>1, <1>2, <1>8, <2>2, TypedReturn DEF EventActProcEnd, BattleTyped
  <1> QED BY <1>3, <1>4, <1>5, <1>6, <1>7, <1>8 DEF Core

LEMMA TypedAction ==
    ASSUME BattleTyped, Action
    PROVE  BattleTyped'
PROOF
  <1>1. /\ stack # <<>> /\ mon' \in [Pokes -> PokeParam] /\ phase = "act"
        /\ UNCHANGED <<battle, queue, next, turn, acted>> /\ weatherTurn' \in 1 .. Forever
    BY ActionKeeps DEF OnlyMeLeaves, Teams, BattleTyped
  <1>2. CASE Goto("end") /\ UNCHANGED phase
    BY <1>1, <1>2, TypedGoto DEF BattleTyped, Places
  <1>3. CASE stack' = <<>> /\ phase' = "over" /\ UNCHANGED mon
    <2>1. stack' \in Seq(Frame) /\ DOMAIN stack' = {}
      BY <1>3, EmptySeq, LenProperties
    <2> QED BY <1>1, <1>3, <2>1 DEF BattleTyped
  <1> QED BY <1>2, <1>3, ActionKeeps

LEMMA TypedEngine ==
    ASSUME BattleTyped, Engine
    PROVE  BattleTyped'
PROOF
  <1>1. mon \in Teams /\ DOMAIN queue = 1 .. Len(queue)
    BY LenProperties DEF BattleTyped, Teams
  <1>2. CASE Choose
    <2> DEFINE Chosen(p, c) ==
            [poke |-> p, cat |-> c.cat, waza |-> c.waza, aim |-> c.aim, encore |-> c.encore,
             fDone |-> FALSE, oiuti |-> FALSE,
             pos |-> IF c.cat = "Fight" /\ c.aim # NoPoke THEN mon[c.aim].spot ELSE NoSpot]
    <2>1. PICK p \in Waiting : \E c \in This.options[p] : queue' = Append(queue, Chosen(p, c))
      BY <1>2 DEF Choose
    <2>2. PICK c \in This.options[p] : queue' = Append(queue, Chosen(p, c))
      BY <2>1
    <2>3. p \in Pokes /\ c \in Choices
      BY ScenarioTyped DEF Waiting, Fielded, BattleTyped
    <2>4. (IF c.cat = "Fight" /\ c.aim # NoPoke THEN mon[c.aim].spot ELSE NoSpot) \in Spots
      BY <2>3 DEF BattleTyped, Choices, PokeParam, Spots
    <2>5. Chosen(p, c) \in Doing
      BY <2>3, <2>4 DEF Doing, Choices
    <2> HIDE DEF Chosen
    <2>6. queue' \in Seq(Doing) /\ Len(queue') = Len(queue) + 1
      BY <2>2, <2>5, AppendProperties DEF BattleTyped
    <2>7. DOMAIN queue \subseteq DOMAIN queue'
      BY <1>1, <2>6, LenProperties DEF BattleTyped
    <2> QED BY <1>2, <2>6, <2>7 DEF Choose, BattleTyped
  <1>3. CASE TurnStarts
    BY <1>3 DEF TurnStarts, BattleTyped
  <1>4. CASE ProcessAction
    <2>1. next \in DOMAIN queue /\ next' \in Nat \ {0}
      BY <1>1, <1>4 DEF ProcessAction, BattleTyped
    <2>2. CASE queue[next].fDone
      BY <1>4, <2>1, <2>2 DEF ProcessAction, Calls, BattleTyped
    <2>3. CASE ~queue[next].fDone
      <3>1. Enters(next, queue, stack)
        BY <1>4, <2>3 DEF ProcessAction, Calls
      <3>2. /\ queue' \in Seq(Doing) /\ stack' \in Seq(Frame)
            /\ \A j \in DOMAIN stack' : stack'[j].act \in DOMAIN queue'
        BY <2>1, <3>1, TypedEnters DEF BattleTyped
      <3> QED BY <1>4, <2>1, <3>2 DEF ProcessAction, BattleTyped
    <2> QED BY <2>2, <2>3
  <1>5. CASE TurnCheckWeather
    <2> DEFINE m == [p \in Pokes |-> IF p \in Fielded /\ ~mon[p].sky
                                     THEN Wounded(mon[p], RecvWeatherDamage(p)) ELSE mon[p]]
    <2>1. ASSUME NEW p \in Pokes PROVE RecvWeatherDamage(p) \in Nat
      BY MaxHpAssumption DEF RecvWeatherDamage
    <2>2. ASSUME NEW p \in Pokes PROVE Wounded(mon[p], RecvWeatherDamage(p)) \in PokeParam
      BY <1>1, <2>1, WoundedTyped DEF Teams
    <2>3. m \in Teams
      BY <1>1, <2>2 DEF Teams
    <2>4. mon' = mon \/ mon' = Faint(m)
      BY <1>5 DEF TurnCheckWeather
    <2> HIDE DEF m
    <2>5. mon' \in [Pokes -> PokeParam]
      BY <1>1, <2>3, <2>4, FaintKeeps DEF SamePlaces, Teams
    <2>6. weatherTurn' \in 1 .. Forever
      <3>1. weatherTurn \in 1 .. 255
        BY DEF BattleTyped, Forever
      <3>2. weatherTurn' = 255 \/ (weatherTurn # 1 /\ weatherTurn' = weatherTurn - 1)
        BY <1>5 DEF TurnCheckWeather, Forever
      <3>3. weatherTurn' \in 1 .. 255
        BY <3>1, <3>2
      <3> QED BY <3>3 DEF Forever
    <2> QED BY <1>5, <2>5, <2>6 DEF TurnCheckWeather, BattleTyped
  <1>6. CASE TurnCheckDoneEvent
    <2>1. ASSUME NEW p \in Pokes PROVE [TurnCheckDone(mon[p]) EXCEPT !.protect = FALSE] \in PokeParam
      <3>1. TurnCheckDone(mon[p]) \in PokeParam
        BY <1>1, AbilitiesReform, ReformedKeeps DEF Teams
      <3> QED BY <3>1 DEF PokeParam
    <2>2. mon' \in [Pokes -> PokeParam]
      BY <1>1, <1>6, <2>1 DEF TurnCheckDoneEvent, Teams
    <2> QED BY <1>6, <2>2 DEF TurnCheckDoneEvent, BattleTyped
  <1>7. CASE Refill
    <2>1. PICK p \in Fallen :
            LET out == Leave(mon, p) IN
            IF Bench(out, Team[p]) = {} THEN mon' = out
            ELSE \E q \in Bench(out, Team[p]) : mon' = Enter(out, q, mon[p].spot)
      BY <1>7 DEF Refill
    <2>2. p \in Pokes /\ mon[p].spot \in Spots
      BY DEF Fallen, BattleTyped, PokeParam
    <2>3. Leave(mon, p) \in Teams
      BY <1>1, <2>2, LeaveKeeps, ScenarioTyped DEF BattleTyped
    <2>4. mon' \in Teams
      BY <2>1, <2>2, <2>3, EnterKeeps DEF Bench
    <2> QED BY <1>7, <2>4 DEF Refill, BattleTyped, Teams
  <1>8. CASE NextTurn
    <2>1. queue' \in Seq(Doing) /\ stack = <<>> /\ DOMAIN stack = {}
      BY <1>8, EmptySeq, LenProperties DEF NextTurn, BattleTyped
    <2>2. acted' \in [Pokes -> 0 .. 2]
      BY <1>8 DEF NextTurn
    <2> QED BY <1>8, <2>1, <2>2 DEF NextTurn, BattleTyped
  <1> QED BY <1>2, <1>3, <1>4, <1>5, <1>6, <1>7, <1>8 DEF Engine

LEMMA TypedStep ==
    ASSUME BattleTyped, [Next]_vars
    PROVE  BattleTyped'
PROOF
  <1>1. CASE UNCHANGED vars
    BY <1>1 DEF vars, BattleTyped
  <1> QED BY <1>1, TypedCore, TypedAction, TypedEngine DEF Next

\* Types, in every battle: a turn never runs an action that is not in its
\* queue, and no handler gives a Pokemon a form that does not exist.
THEOREM TypesHold == Spec => []BattleTyped
BY TypedInit, TypedStep, PTL DEF Spec

-------------------------------------------------------------------------------
(***************************************************************************)
(* The invariant of a turn: what the actions of the queue, the activations *)
(* of Execute and the history say of one another.                          *)
(***************************************************************************)

\* An action whose Pokemon is about to leave, and one that pursues p.
IsLeaving(a) == a.cat = "PokeChange" \/ (a.cat = "Fight" /\ a.waza \in Escaping)

Hunts(a, p) ==
    /\ a.cat = "Fight" /\ a.waza = "Pursuit" /\ ~a.encore
    /\ a.aim = p /\ ~IsFriendPokeID(p, a.poke)

\* One action for each Pokemon; one that is not done has not acted.
QueueInv(q, ac) ==
    /\ \A j, k \in DOMAIN q : q[j].poke = q[k].poke => j = k
    /\ \A k \in DOMAIN q : ~q[k].fDone => ac[q[k].poke] = 0
    /\ \A p \in Pokes : ac[p] <= 1

\* An activation is of an action that is done.  Before the action begins its
\* Pokemon has not acted, when it begins the Pokemon is fit to act, and if it
\* is about to leave, whoever pursues it is done as far as the loop has come.
FrameInv(f, q, m, ac) ==
    LET a == q[f.act] IN
    /\ a.fDone
    /\ f.at \in {"PursuitProcess", "Guards"} => ac[a.poke] = 0
    /\ f.at = "action" => /\ Alive(m, a.poke) /\ IsExist(m, a.poke)
                          /\ ~m[a.poke].freefall \/ a.cat = "Escape"
    /\ IsLeaving(a) =>
         \A j \in DOMAIN q :
            (f.at = "PursuitProcess" => j < f.i) /\ Hunts(q[j], a.poke) => q[j].fDone

\* An activation inside another.
NestInv(st, q) ==
    Len(st) >= 2 =>
        /\ Len(st) = 2
        /\ st[1].at = "PursuitProcess" /\ st[1].act # st[2].act
        /\ IsLeaving(q[st[1].act])
        /\ q[st[2].act].cat = "Fight" /\ q[st[2].act].waza = "Pursuit" /\ q[st[2].act].oiuti

TurnInv ==
    /\ QueueInv(queue, acted)
    /\ phase = "choose" => \A p \in Pokes : acted[p] = 0
    /\ \A k \in DOMAIN stack : FrameInv(stack[k], queue, mon, acted)
    /\ NestInv(stack, queue)

\* The same actions, some of them done that were not.
Advanced(q, q2) ==
    /\ DOMAIN q2 = DOMAIN q
    /\ \A k \in DOMAIN q :
         /\ q2[k].poke = q[k].poke /\ q2[k].cat = q[k].cat /\ q2[k].waza = q[k].waza
         /\ q2[k].aim = q[k].aim /\ q2[k].encore = q[k].encore
         /\ q[k].fDone => q2[k].fDone

LEMMA FrameKept ==
    ASSUME NEW q, NEW q2, Advanced(q, q2), NEW f \in Frame, f.act \in DOMAIN q, NEW m, NEW m2, NEW ac,
           FrameInv(f, q, m, ac), f.at # "action"
    PROVE  FrameInv(f, q2, m2, ac)
BY DEF FrameInv, Advanced, IsLeaving, Hunts

LEMMA AdvancedSelf == ASSUME NEW q PROVE Advanced(q, q)
BY DEF Advanced

\* Without activations only the queue and the history have to be right.
LEMMA TurnInvIdle ==
    ASSUME stack' = <<>>, QueueInv(queue', acted'),
           phase' = "choose" => \A p \in Pokes : acted'[p] = 0
    PROVE  TurnInv'
PROOF
  <1>1. DOMAIN stack' = {} /\ Len(stack') = 0
    BY EmptySeq, LenProperties
  <1> QED BY <1>1 DEF TurnInv, NestInv

\* Back in the activation below.
LEMMA TurnReturn ==
    ASSUME BattleTyped, TurnInv, stack # <<>>, Return, UNCHANGED <<queue, acted, phase>>
    PROVE  TurnInv'
PROOF
  <1>1. /\ stack' \in Seq(Frame) /\ Len(stack') = Len(stack) - 1
        /\ \A k \in DOMAIN stack' : k \in DOMAIN stack /\ k # Len(stack) /\ stack'[k] = stack[k]
    BY ReturnKeeps
  <1>2. Len(stack) \in Nat \ {0} /\ DOMAIN stack = 1 .. Len(stack)
    BY TopTyped, LenProperties DEF BattleTyped
  <1>3. Len(stack) <= 2
    BY <1>2 DEF TurnInv, NestInv
  <1>4. ASSUME NEW k \in DOMAIN stack' PROVE FrameInv(stack'[k], queue, mon', acted)
    <2>1. k = 1 /\ Len(stack) = 2
      BY <1>1, <1>2, <1>3
    <2>2. /\ stack[k] \in Frame /\ stack[k].at = "PursuitProcess" /\ stack[k].act \in DOMAIN queue
          /\ FrameInv(stack[k], queue, mon, acted)
      BY <1>1, <2>1, ElementOfSeq DEF TurnInv, NestInv, BattleTyped
    <2>3. FrameInv(stack[k], queue, mon', acted)
      BY <2>2, FrameKept, AdvancedSelf
    <2> QED BY <1>1, <2>3
  <1>5. NestInv(stack', queue)
    BY <1>1, <1>2, <1>3 DEF NestInv
  <1> QED BY <1>4, <1>5 DEF TurnInv

\* The innermost activation goes on; the one below does not mind.
LEMMA TurnGoto ==
    ASSUME BattleTyped, TurnInv, stack # <<>>, NEW at \in Places, Goto(at),
           UNCHANGED <<queue, phase>>, QueueInv(queue, acted'),
           \A p \in Pokes \ {Me} : acted'[p] = acted[p],
           FrameInv(stack'[Len(stack)], queue, mon', acted')
    PROVE  TurnInv'
PROOF
  <1>1. /\ stack' \in Seq(Frame) /\ Len(stack') = Len(stack)
        /\ \A k \in DOMAIN stack' : k \in DOMAIN stack /\ stack'[k].act = stack[k].act
                                      /\ stack'[k].i = stack[k].i
        /\ \A k \in DOMAIN stack' : k # Len(stack) => stack'[k] = stack[k]
        /\ stack'[Len(stack)].at = at
    BY GotoKeeps
  <1>2. /\ Len(stack) \in Nat \ {0} /\ DOMAIN stack = 1 .. Len(stack)
        /\ DOMAIN stack' = 1 .. Len(stack) /\ Top.act \in DOMAIN queue /\ Me \in Pokes
    BY <1>1, TopTyped, LenProperties DEF BattleTyped
  <1>3. Len(stack) <= 2
    BY <1>2 DEF TurnInv, NestInv
  <1>4. ASSUME NEW k \in DOMAIN stack', k # Len(stack)
        PROVE  FrameInv(stack'[k], queue, mon', acted')
    <2>1. k = 1 /\ Len(stack) = 2
      BY <1>2, <1>3, <1>4
    <2>2. /\ stack[1] \in Frame /\ stack[1].act \in DOMAIN queue /\ stack[1].act # Top.act
          /\ FrameInv(stack[1], queue, mon, acted) /\ stack[1].at = "PursuitProcess"
      BY <1>2, <2>1, ElementOfSeq DEF TurnInv, NestInv, BattleTyped, Top
    <2>3. queue[stack[1].act] \in Doing
      BY <2>2, ElementOfSeq DEF BattleTyped
    <2>4. queue[stack[1].act].poke \in Pokes \ {Me}
      BY <1>2, <2>2, <2>3 DEF TurnInv, QueueInv, Doing, Me, Cur
    <2>5. acted'[queue[stack[1].act].poke] = acted[queue[stack[1].act].poke]
      BY <2>4
    <2>6. FrameInv(stack[1], queue, mon', acted')
      BY <2>2, <2>5 DEF FrameInv
    <2> QED BY <1>1, <1>4, <2>1, <2>6
  <1>5. NestInv(stack', queue)
    BY <1>1, <1>2, <1>3 DEF TurnInv, NestInv
  <1>6. phase = "act"
    BY DEF BattleTyped
  <1> QED BY <1>4, <1>5, <1>6 DEF TurnInv

LEMMA GotoTop ==
    ASSUME BattleTyped, stack # <<>>, NEW at \in Places, Goto(at)
    PROVE  stack'[Len(stack)].act = Top.act /\ stack'[Len(stack)].i = Top.i
PROOF
  <1>1. /\ stack' \in Seq(Frame) /\ Len(stack') = Len(stack)
        /\ \A k \in DOMAIN stack' : k \in DOMAIN stack /\ stack'[k].act = stack[k].act
                                      /\ stack'[k].i = stack[k].i
    BY GotoKeeps
  <1>2. Len(stack) \in DOMAIN stack'
    BY <1>1, TopTyped, LenProperties DEF BattleTyped
  <1> QED BY <1>1, <1>2 DEF Top

\* An action that pursues is not one that leaves.
LEMMA PursuitStays ==
    ASSUME NEW a, a.cat = "Fight", a.waza = "Pursuit"
    PROVE  ~IsLeaving(a)
BY DEF IsLeaving, Escaping

\* Only the outermost activation finds anybody to hand over to.
LEMMA AheadOutermost ==
    ASSUME BattleTyped, TurnInv, stack # <<>>, NEW j \in Ahead
    PROVE  Len(stack) = 1 /\ IsLeaving(Cur)
PROOF
  <1>1. Len(stack) \in Nat \ {0}
    BY TopTyped
  <1>2. IsLeaving(Cur)
    BY DEF Ahead, IsPursuitTarget, IsFight, IsLeaving
  <1>3. ASSUME Len(stack) >= 2 PROVE FALSE
    <2>1. Cur.cat = "Fight" /\ Cur.waza = "Pursuit"
      BY <1>3 DEF TurnInv, NestInv, Cur, Top
    <2> QED BY <1>2, <2>1, PursuitStays
  <1> QED BY <1>1, <1>2, <1>3

\* Those that hunt the Pokemon and are not done are ahead of the loop.
LEMMA HuntersAhead ==
    ASSUME BattleTyped, stack # <<>>, IsLeaving(Cur), NEW k \in DOMAIN queue,
           Hunts(queue[k], Me), ~queue[k].fDone, k >= Top.i
    PROVE  k \in Ahead
PROOF
  <1>1. k \in Top.i .. Len(queue)
    BY TopTyped, LenProperties DEF BattleTyped, Frame
  <1>2. IsPursuitTarget /\ Pursues(queue[k])
    BY DEF IsLeaving, IsPursuitTarget, IsFight, Hunts, Pursues
  <1> QED BY <1>1, <1>2 DEF Ahead

\* The loop past j: whoever it has met is done, or was not handed over
\* because it has to use another move.
LEMMA LoopKeeps ==
    ASSUME BattleTyped, TurnInv, stack # <<>>, Top.at = "PursuitProcess",
           NEW j \in Ahead, \A k \in Ahead : j <= k,
           NEW q2, Advanced(queue, q2), queue[j].encore \/ q2[j].fDone
    PROVE  FrameInv(LoopPast(j)[1], q2, mon, acted)
PROOF
  <1>1. Len(stack) = 1 /\ IsLeaving(Cur) /\ Top = stack[1] /\ 1 \in DOMAIN stack
    BY AheadOutermost, TopTyped DEF Top
  <1>2. /\ Top \in Frame /\ Top.act \in DOMAIN queue /\ j \in DOMAIN queue
        /\ FrameInv(Top, queue, mon, acted)
    BY <1>1, TopTyped, InterruptKeeps DEF TurnInv
  <1>3. /\ LoopPast(j)[1].act = Top.act /\ LoopPast(j)[1].at = Top.at /\ LoopPast(j)[1].i = j + 1
    BY <1>1, InterruptKeeps
  <1>4. FrameInv(Top, q2, mon, acted)
    BY <1>2, FrameKept
  <1>5. ASSUME NEW k \in DOMAIN q2, k < j + 1, Hunts(q2[k], q2[Top.act].poke)
        PROVE  q2[k].fDone
    <2>1. k \in DOMAIN queue /\ Hunts(queue[k], Me)
      BY <1>2, <1>5 DEF Advanced, Hunts, Me, Cur
    <2>2. k \in Nat /\ j \in Nat /\ Top.i \in Nat
      BY <1>2, <2>1, LenProperties DEF BattleTyped, Frame
    <2>3. CASE k < Top.i
      BY <1>1, <1>2, <2>1, <2>3 DEF FrameInv, Advanced, Me, Cur
    <2>4. CASE k >= Top.i /\ ~queue[k].fDone
      <3>1. k \in Ahead
        BY <1>1, <2>1, <2>4, HuntersAhead
      <3>2. k = j
        BY <1>5, <2>2, <3>1
      <3> QED BY <2>1, <3>2 DEF Hunts
    <2>5. CASE k >= Top.i /\ queue[k].fDone
      BY <2>1, <2>5 DEF Advanced
    <2> QED BY <2>2, <2>3, <2>4, <2>5
  <1> QED BY <1>3, <1>4, <1>5 DEF FrameInv

LEMMA TurnInterrupt ==
    ASSUME BattleTyped, TurnInv, PursuitInterrupt
    PROVE  TurnInv'
PROOF
  <1>1. stack # <<>> /\ Top.at = "PursuitProcess" /\ UNCHANGED <<mon, acted, phase>> /\ phase = "act"
    BY DEF PursuitInterrupt, At, BattleTyped
  <1>2. PICK j \in Ahead :
            /\ \A k \in Ahead : j <= k
            /\ IF queue[j].encore
               THEN stack' = LoopPast(j) /\ queue' = queue
               ELSE Enters(j, AimedAtLeaver(j), LoopPast(j))
    BY DEF PursuitInterrupt
  <1>3. /\ Len(stack) = 1 /\ IsLeaving(Cur) /\ Top = stack[1] /\ DOMAIN stack = 1 .. 1
        /\ Top.act \in DOMAIN queue /\ Top \in Frame /\ FrameInv(Top, queue, mon, acted)
    BY <1>1, AheadOutermost, TopTyped, LenProperties DEF Top, BattleTyped, TurnInv
  <1>4. /\ j \in DOMAIN queue
        /\ AimedAtLeaver(j) \in Seq(Doing) /\ DOMAIN AimedAtLeaver(j) = DOMAIN queue
        /\ \A k \in DOMAIN queue : k # j => AimedAtLeaver(j)[k] = queue[k]
        /\ LET a == AimedAtLeaver(j)[j] IN
           /\ a.poke = queue[j].poke /\ a.cat = queue[j].cat /\ a.waza = queue[j].waza
           /\ a.aim = queue[j].aim /\ a.encore = queue[j].encore /\ a.fDone = queue[j].fDone
           /\ a.oiuti
        /\ LoopPast(j) \in Seq(Frame) /\ DOMAIN LoopPast(j) = DOMAIN stack
        /\ Len(LoopPast(j)) = Len(stack)
        /\ \A k \in DOMAIN stack : LoopPast(j)[k].act = stack[k].act /\ LoopPast(j)[k].at = stack[k].at
    BY <1>1, InterruptKeeps
  <1>5. CASE queue[j].encore
    <2>1. FrameInv(LoopPast(j)[1], queue, mon, acted)
      BY <1>1, <1>2, <1>5, LoopKeeps, AdvancedSelf
    <2>2. stack' = LoopPast(j) /\ queue' = queue
      BY <1>2, <1>5
    <2>3. NestInv(stack', queue')
      <3>1. Len(stack') = 1
        BY <1>3, <1>4, <2>2
      <3> QED BY <3>1 DEF NestInv
    <2> QED BY <1>1, <1>3, <1>4, <2>1, <2>2, <2>3 DEF TurnInv
  <1>6. CASE ~queue[j].encore
    <2> DEFINE q == AimedAtLeaver(j)
               st == LoopPast(j)
    <2>1. Enters(j, q, st) /\ q \in Seq(Doing) /\ st \in Seq(Frame) /\ j \in DOMAIN q
      BY <1>2, <1>4, <1>6
    <2>2. ~queue[j].fDone /\ queue[j].cat = "Fight" /\ queue[j].waza = "Pursuit"
      BY <1>2 DEF Ahead, Pursues
    <2>3. q[j] \in Doing
      BY <2>1, ElementOfSeq
    <2> HIDE DEF q, st
    <2>4. /\ queue' \in Seq(Doing) /\ DOMAIN queue' = DOMAIN q /\ Len(queue') = Len(q)
          /\ queue'[j] = [q[j] EXCEPT !.fDone = TRUE] /\ queue'[j] \in Doing
          /\ \A k \in DOMAIN q : k # j => queue'[k] = q[k]
          /\ stack' \in Seq(Frame) /\ Len(stack') = Len(st) + 1
          /\ \A k \in DOMAIN st : k \in DOMAIN stack' /\ stack'[k] = st[k]
          /\ \A k \in DOMAIN stack' : k \in DOMAIN st \/ k = Len(st) + 1
          /\ stack'[Len(st) + 1] = [act |-> j, at |-> "PursuitProcess", i |-> 1]
      BY <2>1, EntersKeeps
    <2>5. /\ queue'[j].fDone /\ queue'[j].poke = q[j].poke /\ queue'[j].cat = q[j].cat
          /\ queue'[j].waza = q[j].waza /\ queue'[j].aim = q[j].aim
          /\ queue'[j].encore = q[j].encore /\ queue'[j].oiuti = q[j].oiuti
      BY <2>3, <2>4 DEF Doing
    <2>6. Advanced(queue, queue') /\ queue'[j].oiuti
      BY <1>4, <2>4, <2>5 DEF Advanced, q
    <2>7. FrameInv(st[1], queue', mon, acted)
      BY <1>1, <1>2, <2>5, <2>6, LoopKeeps DEF st
    <2>8. /\ stack'[1] = st[1] /\ stack'[2] = [act |-> j, at |-> "PursuitProcess", i |-> 1]
          /\ Len(stack') = 2 /\ \A k \in DOMAIN stack' : k = 1 \/ k = 2
      BY <1>3, <1>4, <2>4 DEF st
    <2>9. FrameInv(stack'[2], queue', mon, acted)
      <3>1. acted[queue'[j].poke] = 0
        BY <1>4, <2>2, <2>5 DEF TurnInv, QueueInv, q
      <3>2. queue'[j].cat = "Fight" /\ queue'[j].waza = "Pursuit"
        BY <1>4, <2>2, <2>5 DEF q
      <3>3. ~IsLeaving(queue'[j])
        BY <3>2, PursuitStays
      <3> QED BY <2>5, <2>8, <3>1, <3>3 DEF FrameInv
    <2>10. NestInv(stack', queue')
      <3>1. st[1].at = "PursuitProcess" /\ st[1].act = Top.act
        BY <1>1, <1>3, <1>4 DEF st
      <3>2. queue[Top.act].fDone
        BY <1>3 DEF FrameInv
      <3>3. st[1].act # j
        BY <2>2, <3>1, <3>2
      <3>4. IsLeaving(queue'[st[1].act])
        BY <1>3, <2>6, <3>1 DEF Advanced, IsLeaving, Cur
      <3>5. queue'[j].cat = "Fight" /\ queue'[j].waza = "Pursuit"
        BY <1>4, <2>2, <2>5 DEF q
      <3> QED BY <2>6, <2>8, <3>1, <3>3, <3>4, <3>5 DEF NestInv
    <2>11. QueueInv(queue', acted)
      BY <2>6 DEF TurnInv, QueueInv, Advanced
    <2> QED BY <1>1, <2>7, <2>8, <2>9, <2>10, <2>11 DEF TurnInv
  <1> QED BY <1>5, <1>6

LEMMA TurnCore ==
    ASSUME BattleTyped, TurnInv, Core
    PROVE  TurnInv'
PROOF
  <1>1. stack # <<>>
    BY DEF Core, PursuitInterrupt, PursuitDone, ActionCheer, Missing, Cancelled, ActProcStart,
           EventActProcEnd, At
  <1>2. /\ Len(stack) \in DOMAIN stack /\ Top \in Frame /\ Top.act \in DOMAIN queue
        /\ Cur \in Doing /\ Me \in Pokes /\ phase = "act" /\ Top = stack[Len(stack)]
        /\ FrameInv(Top, queue, mon, acted) /\ QueueInv(queue, acted)
    BY <1>1, TopTyped DEF BattleTyped, TurnInv, Top
  <1>3. CASE PursuitInterrupt
    BY <1>3, TurnInterrupt
  <1>4. CASE PursuitDone
    <2>1. /\ Goto("Guards") /\ UNCHANGED <<queue, phase, mon, acted>>
          /\ Ahead = {} /\ Top.at = "PursuitProcess"
      BY <1>4 DEF PursuitDone, At
    <2>2. stack'[Len(stack)].at = "Guards" /\ stack'[Len(stack)].act = Top.act
      BY <1>1, <1>2, <2>1, GotoKeeps, GotoTop DEF Places
    <2>3. ASSUME IsLeaving(Cur), NEW k \in DOMAIN queue, Hunts(queue[k], Me)
          PROVE  queue[k].fDone
      <3>1. k \in Nat /\ Top.i \in Nat
        BY <1>2, LenProperties DEF BattleTyped, Frame
      <3>2. CASE k < Top.i
        BY <1>2, <2>3, <3>2 DEF FrameInv, Cur, Me
      <3>3. CASE k >= Top.i
        BY <1>1, <2>1, <2>3, <3>3, HuntersAhead
      <3> QED BY <3>1, <3>2, <3>3
    <2>4. FrameInv(stack'[Len(stack)], queue, mon, acted)
      BY <1>2, <2>1, <2>2, <2>3 DEF FrameInv, Cur, Me
    <2> QED BY <1>1, <1>2, <2>1, <2>4, TurnGoto DEF Places
  <1>5. CASE ActionCheer \/ Missing \/ Cancelled \/ EventActProcEnd
    BY <1>1, <1>5, TurnReturn DEF ActionCheer, Missing, Cancelled, EventActProcEnd
  <1>6. CASE ActProcStart
    <2>1. /\ Goto("action") /\ UNCHANGED <<queue, phase, mon>> /\ Top.at = "Guards"
          /\ acted' = [acted EXCEPT ![Me] = IF @ < 2 THEN @ + 1 ELSE @]
          /\ Alive(mon, Me) /\ IsExist(mon, Me) /\ ~Carried(Me)
      BY <1>6 DEF ActProcStart, At
    <2>2. /\ stack'[Len(stack)].at = "action" /\ stack'[Len(stack)].act = Top.act
      BY <1>1, <1>2, <2>1, GotoKeeps, GotoTop DEF Places
    <2>3. acted[Me] = 0
      BY <1>2, <2>1 DEF FrameInv, Me, Cur
    <2>4. acted'[Me] = 1 /\ \A p \in Pokes \ {Me} : acted'[p] = acted[p]
      BY <1>2, <2>1, <2>3 DEF BattleTyped
    <2>5. QueueInv(queue, acted')
      <3>1. ASSUME NEW k \in DOMAIN queue, ~queue[k].fDone PROVE acted'[queue[k].poke] = 0
        <4>1. queue[k].poke \in Pokes
          <5>1. queue[k] \in Doing
            BY ElementOfSeq DEF BattleTyped
          <5> QED BY <5>1 DEF Doing
        <4>2. k # Top.act
          BY <1>2, <3>1 DEF FrameInv
        <4>3. queue[k].poke # Me
          BY <1>2, <4>2 DEF QueueInv, Me, Cur
        <4> QED BY <1>2, <2>4, <3>1, <4>1, <4>3 DEF QueueInv
      <3>2. ASSUME NEW p \in Pokes PROVE acted'[p] <= 1
        BY <1>2, <2>4 DEF QueueInv
      <3> QED BY <1>2, <3>1, <3>2 DEF QueueInv
    <2>6. FrameInv(stack'[Len(stack)], queue, mon, acted')
      <3>1. ~mon[Me].freefall \/ Cur.cat = "Escape"
        BY <2>1 DEF Carried
      <3> QED BY <1>2, <2>1, <2>2, <3>1 DEF FrameInv, Me, Cur
    <2> QED BY <1>1, <2>1, <2>4, <2>5, <2>6, TurnGoto DEF Places
  <1> QED BY <1>3, <1>4, <1>5, <1>6 DEF Core

LEMMA TurnAction ==
    ASSUME BattleTyped, TurnInv, Action
    PROVE  TurnInv'
PROOF
  <1>1. /\ stack # <<>> /\ Top.at = "action" /\ UNCHANGED <<queue, acted>>
        /\ \/ Goto("end") /\ UNCHANGED phase
           \/ stack' = <<>> /\ phase' = "over"
    BY ActionKeeps
  <1>2. CASE Goto("end") /\ UNCHANGED phase
    <2>1. /\ Len(stack) \in DOMAIN stack /\ Top \in Frame /\ FrameInv(Top, queue, mon, acted)
      BY <1>1, TopTyped DEF TurnInv, Top
    <2>2. stack'[Len(stack)].at = "end" /\ stack'[Len(stack)].act = Top.act
      BY <1>1, <1>2, GotoKeeps, GotoTop DEF Places
    <2>3. FrameInv(stack'[Len(stack)], queue, mon', acted)
      BY <1>1, <2>1, <2>2 DEF FrameInv
    <2>4. QueueInv(queue, acted')
      BY <1>1 DEF TurnInv
    <2> QED BY <1>1, <1>2, <2>3, <2>4, TurnGoto DEF Places
  <1>3. CASE stack' = <<>> /\ phase' = "over"
    BY <1>1, <1>3, TurnInvIdle DEF TurnInv
  <1> QED BY <1>1, <1>2, <1>3

LEMMA TurnEngine ==
    ASSUME BattleTyped, TurnInv, Engine
    PROVE  TurnInv'
PROOF
  <1>1. QueueInv(queue, acted) /\ (phase = "choose" => \A p \in Pokes : acted[p] = 0)
    BY DEF TurnInv
  <1>2. phase # "act" => stack = <<>>
    BY DEF BattleTyped
  <1>3. CASE Choose
    <2>1. PICK p \in Waiting : \E c \in This.options[p] :
            queue' = Append(queue,
               [poke |-> p, cat |-> c.cat, waza |-> c.waza, aim |-> c.aim, encore |-> c.encore,
                fDone |-> FALSE, oiuti |-> FALSE,
                pos |-> IF c.cat = "Fight" /\ c.aim # NoPoke THEN mon[c.aim].spot ELSE NoSpot])
      BY <1>3 DEF Choose
    <2>2. PICK c \in This.options[p] :
            queue' = Append(queue,
               [poke |-> p, cat |-> c.cat, waza |-> c.waza, aim |-> c.aim, encore |-> c.encore,
                fDone |-> FALSE, oiuti |-> FALSE,
                pos |-> IF c.cat = "Fight" /\ c.aim # NoPoke THEN mon[c.aim].spot ELSE NoSpot])
      BY <2>1
    <2> DEFINE r == [poke |-> p, cat |-> c.cat, waza |-> c.waza, aim |-> c.aim, encore |-> c.encore,
                     fDone |-> FALSE, oiuti |-> FALSE,
                     pos |-> IF c.cat = "Fight" /\ c.aim # NoPoke THEN mon[c.aim].spot ELSE NoSpot]
    <2>3. r.poke = p /\ p \in Pokes /\ \A k \in DOMAIN queue : queue[k].poke # p
      BY DEF Waiting, Fielded
    <2>4. r \in {r} /\ queue \in Seq(Doing \cup {r})
      <3>1. queue \in Seq(Doing) /\ Doing \subseteq Doing \cup {r}
        BY DEF BattleTyped
      <3> QED BY <3>1, ElementOfSeq, SeqDef DEF BattleTyped
    <2> HIDE DEF r
    <2>5. /\ queue' \in Seq(Doing \cup {r}) /\ Len(queue') = Len(queue) + 1
          /\ \A k \in 1 .. Len(queue) : queue'[k] = queue[k]
          /\ queue'[Len(queue) + 1] = r
      BY <2>2, <2>4, AppendProperties DEF r
    <2>6. /\ DOMAIN queue = 1 .. Len(queue) /\ DOMAIN queue' = 1 .. Len(queue) + 1
          /\ Len(queue) \in Nat
      BY <2>4, <2>5, LenProperties
    <2>7. \A k \in DOMAIN queue' : k \in DOMAIN queue \/ k = Len(queue) + 1
      BY <2>6
    <2>8. phase = "choose" /\ UNCHANGED <<stack, phase, acted>> /\ stack = <<>>
      BY <1>2, <1>3 DEF Choose
    <2>9. \A j, k \in DOMAIN queue' : queue'[j].poke = queue'[k].poke => j = k
      BY <1>1, <2>3, <2>5, <2>6, <2>7 DEF QueueInv
    <2>10. \A k \in DOMAIN queue' : ~queue'[k].fDone => acted[queue'[k].poke] = 0
      BY <1>1, <2>3, <2>5, <2>6, <2>7, <2>8 DEF QueueInv
    <2>11. QueueInv(queue', acted')
      BY <1>1, <2>8, <2>9, <2>10 DEF QueueInv
    <2> QED BY <1>1, <2>8, <2>11, TurnInvIdle
  <1>4. CASE TurnStarts
    BY <1>1, <1>2, <1>4, TurnInvIdle DEF TurnStarts
  <1>5. CASE ProcessAction
    <2>1. /\ phase = "act" /\ stack = <<>> /\ next \in DOMAIN queue /\ Calls(next)
          /\ UNCHANGED <<phase, acted, mon>> /\ queue \in Seq(Doing)
      BY <1>5, LenProperties DEF ProcessAction, BattleTyped
    <2>2. CASE queue[next].fDone
      BY <1>1, <2>1, <2>2, TurnInvIdle DEF Calls
    <2>3. CASE ~queue[next].fDone
      <3>1. Enters(next, queue, stack) /\ stack \in Seq(Frame) /\ Len(stack) = 0 /\ DOMAIN stack = {}
        BY <2>1, <2>3, EmptySeq, LenProperties DEF Calls, BattleTyped
      <3>2. /\ queue' \in Seq(Doing) /\ DOMAIN queue' = DOMAIN queue /\ Len(queue') = Len(queue)
            /\ queue'[next] = [queue[next] EXCEPT !.fDone = TRUE] /\ queue'[next] \in Doing
            /\ \A j \in DOMAIN queue : j # next => queue'[j] = queue[j]
            /\ stack' \in Seq(Frame) /\ Len(stack') = Len(stack) + 1
            /\ \A j \in DOMAIN stack : j \in DOMAIN stack' /\ stack'[j] = stack[j]
            /\ \A j \in DOMAIN stack' : j \in DOMAIN stack \/ j = Len(stack) + 1
            /\ stack'[Len(stack) + 1] = [act |-> next, at |-> "PursuitProcess", i |-> 1]
        BY <2>1, <3>1, EntersKeeps
      <3>3. queue[next] \in Doing
        BY <2>1, ElementOfSeq
      <3>4. queue'[next].fDone /\ queue'[next].poke = queue[next].poke
        BY <3>2, <3>3 DEF Doing
      <3>5. QueueInv(queue', acted')
        <4>1. \A j \in DOMAIN queue' : queue'[j].poke = queue[j].poke /\ (queue[j].fDone => queue'[j].fDone)
          BY <2>3, <3>2, <3>4
        <4> QED BY <1>1, <2>1, <3>2, <4>1 DEF QueueInv
      <3>6. acted'[queue'[next].poke] = 0
        BY <1>1, <2>1, <2>3, <3>4 DEF QueueInv
      <3>7. \A j \in DOMAIN queue' : ~(j < 1)
        BY <3>2, LenProperties
      <3>8. FrameInv([act |-> next, at |-> "PursuitProcess", i |-> 1], queue', mon', acted')
        BY <3>4, <3>6, <3>7 DEF FrameInv
      <3>9. Len(stack') = 1 /\ \A j \in DOMAIN stack' : j = 1
        BY <3>1, <3>2
      <3>10. stack'[1] = [act |-> next, at |-> "PursuitProcess", i |-> 1]
        BY <3>1, <3>2
      <3>11. NestInv(stack', queue')
        BY <3>9 DEF NestInv
      <3> QED BY <2>1, <3>5, <3>8, <3>9, <3>10, <3>11 DEF TurnInv
    <2> QED BY <2>2, <2>3
  <1>6. CASE TurnCheckWeather
    BY <1>1, <1>6, TurnInvIdle DEF TurnCheckWeather
  <1>7. CASE TurnCheckDoneEvent \/ Refill
    BY <1>1, <1>2, <1>7, TurnInvIdle DEF TurnCheckDoneEvent, Refill
  <1>8. CASE NextTurn
    <2>1. stack' = <<>> /\ queue' = <<>> /\ \A p \in Pokes : acted'[p] = 0
      BY <1>2, <1>8 DEF NextTurn
    <2>2. DOMAIN queue' = {}
      BY <2>1, EmptySeq, LenProperties
    <2>3. QueueInv(queue', acted')
      BY <2>1, <2>2 DEF QueueInv
    <2> QED BY <2>1, <2>3, TurnInvIdle
  <1> QED BY <1>3, <1>4, <1>5, <1>6, <1>7, <1>8 DEF Engine

LEMMA TurnInit ==
    ASSUME Init
    PROVE  TurnInv
PROOF
  <1>1. DOMAIN queue = {} /\ DOMAIN stack = {} /\ Len(stack) = 0 /\ \A p \in Pokes : acted[p] = 0
    BY EmptySeq, LenProperties DEF Init
  <1> QED BY <1>1 DEF TurnInv, QueueInv, NestInv

LEMMA TurnStep ==
    ASSUME BattleTyped, TurnInv, [Next]_vars
    PROVE  TurnInv'
PROOF
  <1>1. CASE UNCHANGED vars
    <2>1. UNCHANGED <<queue, acted, stack, phase, mon>>
      BY <1>1 DEF vars
    <2> QED BY <2>1 DEF TurnInv
  <1> QED BY <1>1, TurnCore, TurnAction, TurnEngine DEF Next

LEMMA TurnHolds == Spec => [](BattleTyped /\ TurnInv)
PROOF
  <1>1. Init => BattleTyped /\ TurnInv
    BY TypedInit, TurnInit
  <1>2. (BattleTyped /\ TurnInv) /\ [Next]_vars => (BattleTyped /\ TurnInv)'
    BY TypedStep, TurnStep
  <1> QED BY <1>1, <1>2, PTL DEF Spec

-------------------------------------------------------------------------------
(***************************************************************************)
(* What follows from it.                                                   *)
(***************************************************************************)

\* Nobody acts twice in a turn, however many Pursuits are brought forward:
\* the action that comes again in the engine's order is done.  And
\* Section_ProcessActionCore::Execute is entered inside itself at most once,
\* by an interrupting Pursuit, inside the action of one that leaves.
THEOREM ActsAtMostOnce == Spec => []ActsOnce
PROOF
  <1>1. ASSUME BattleTyped, TurnInv PROVE ActsOnce
    <2>1. ASSUME NEW k \in 2 .. Len(stack)
          PROVE  LET inner == queue[stack[k].act]
                     outer == queue[stack[1].act]
                 IN  /\ k = 2
                     /\ inner.waza = "Pursuit" /\ inner.oiuti
                     /\ outer.cat = "PokeChange" \/ (outer.cat = "Fight" /\ outer.waza \in Escaping)
      <3>1. Len(stack) \in Nat /\ k <= Len(stack) /\ k >= 2
        BY <1>1, LenProperties DEF BattleTyped
      <3>2. NestInv(stack, queue) /\ Len(stack) >= 2
        BY <1>1, <3>1 DEF TurnInv
      <3>3. Len(stack) = 2
        BY <3>2 DEF NestInv
      <3>4. k = 2
        BY <3>1, <3>3
      <3> QED BY <3>2, <3>4 DEF NestInv, IsLeaving
    <2>2. \A p \in Pokes : acted[p] <= 1
      BY <1>1 DEF TurnInv, QueueInv
    <2> QED BY <2>1, <2>2 DEF ActsOnce
  <1> QED BY <1>1, TurnHolds, PTL

\* The weather hurts; nobody gives up a place for it.
LEMMA WeatherStays ==
    ASSUME BattleTyped, TurnCheckWeather
    PROVE  SamePlaces(mon, mon')
PROOF
  <1> DEFINE m == [p \in Pokes |-> IF p \in Fielded /\ ~mon[p].sky
                                   THEN Wounded(mon[p], RecvWeatherDamage(p)) ELSE mon[p]]
  <1>1. mon \in Teams
    BY DEF BattleTyped, Teams
  <1>2. ASSUME NEW p \in Pokes PROVE RecvWeatherDamage(p) \in Nat
    BY MaxHpAssumption DEF RecvWeatherDamage
  <1>3. ASSUME NEW p \in Pokes
        PROVE  /\ Wounded(mon[p], RecvWeatherDamage(p)) \in PokeParam
               /\ Wounded(mon[p], RecvWeatherDamage(p)).spot = mon[p].spot
    BY <1>1, <1>2, WoundedTyped DEF Teams
  <1>4. m \in Teams /\ SamePlaces(mon, m)
    BY <1>1, <1>3 DEF Teams, SamePlaces
  <1>5. mon' = mon \/ mon' = Faint(m)
    BY DEF TurnCheckWeather
  <1> HIDE DEF m
  <1> QED BY <1>1, <1>4, <1>5, FaintKeeps, SamePlacesTwice DEF SamePlaces

\* A place on the field is given up during the actions of a turn by the
\* Pokemon whose action it is, and only by one that is about to leave.
LEMMA OnlyLeaversLeave ==
    ASSUME BattleTyped, TurnInv, [Next]_vars, NEW p \in Pokes, Leaves(p)
    PROVE  /\ p = Me /\ IsLeaving(Cur) /\ stack # <<>> /\ Top.at = "action"
           /\ Top.act \in DOMAIN queue /\ FrameInv(Top, queue, mon, acted)
PROOF
  <1>1. phase = "act" /\ IsExist(mon, p) /\ mon'[p].spot # mon[p].spot /\ mon \in Teams
    BY DEF Leaves, BattleTyped, Teams
  <1>2. ~Core
    <2>1. ASSUME EventActProcEnd PROVE FALSE
      <3>1. mon[p] \in PokeParam
        BY <1>1 DEF Teams
      <3>2. ActProcEnd(mon[p]).spot = mon[p].spot
        BY <3>1, AbilitiesReform, ReformedKeeps
      <3> QED BY <1>1, <2>1, <3>2 DEF EventActProcEnd
    <2>2. ASSUME Cancelled PROVE FALSE
      <3>1. mon[p] \in PokeParam /\ (p = Me => [mon[p] EXCEPT !.mamoru = 0].spot = mon[p].spot)
        BY <1>1 DEF Teams, PokeParam
      <3>2. mon' = [mon EXCEPT ![Me] = [mon[Me] EXCEPT !.mamoru = 0]]
        BY <2>2 DEF Cancelled
      <3> QED BY <1>1, <3>1, <3>2 DEF Teams
    <2>3. ASSUME PursuitInterrupt \/ PursuitDone \/ ActionCheer \/ Missing \/ ActProcStart PROVE FALSE
      <3>1. UNCHANGED mon
        BY <2>3 DEF PursuitInterrupt, PursuitDone, ActionCheer, Missing, ActProcStart
      <3> QED BY <1>1, <3>1
    <2> QED BY <2>1, <2>2, <2>3 DEF Core
  <1>3. ~Engine
    <2>1. ASSUME Choose \/ TurnStarts \/ ProcessAction PROVE FALSE
      <3>1. UNCHANGED mon
        BY <2>1 DEF Choose, TurnStarts, ProcessAction
      <3> QED BY <1>1, <3>1
    <2>2. ASSUME TurnCheckDoneEvent \/ Refill \/ NextTurn PROVE FALSE
      BY <1>1, <2>2 DEF TurnCheckDoneEvent, Refill, NextTurn
    <2>3. ASSUME TurnCheckWeather PROVE FALSE
      BY <1>1, <2>3, WeatherStays DEF SamePlaces
    <2> QED BY <2>1, <2>2, <2>3 DEF Engine
  <1>4. Action
    <2>1. mon' # mon
      BY <1>1
    <2> QED BY <1>2, <1>3, <2>1 DEF Next, vars
  <1>5. stack # <<>> /\ Top.at = "action" /\ OnlyMeLeaves
    BY <1>4, ActionKeeps
  <1>6. p = Me
    BY <1>1, <1>5 DEF OnlyMeLeaves
  <1>7. HitAndLeave \/ PokeChange
    <2>1. ~(MoveFails \/ Pursuit \/ FreeFallStart \/ SkyDropFalls \/ Rage \/ KingsShield
              \/ ThunderWave \/ Transform \/ GastroAcid \/ WorrySeed \/ ChangeWeather)
      BY <1>1, <1>5, MovesStay DEF SamePlaces
    <2>2. ~Escape
      BY <1>1 DEF Escape, Does
    <2> QED BY <1>4, <2>1, <2>2 DEF Action
  <1>8. IsLeaving(Cur)
    BY <1>7 DEF HitAndLeave, PokeChange, IsLeaving, IsFight
  <1>9. Top.act \in DOMAIN queue /\ FrameInv(Top, queue, mon, acted)
    BY <1>5, TopTyped DEF TurnInv, Top
  <1> QED BY <1>5, <1>6, <1>8, <1>9

\* Whoever leaves has met every Pursuit that was meant for it.
LEMMA PursuersMet == Spec => NobodySlipsAway
PROOF
  <1> DEFINE Met == \A p \in Pokes : Leaves(p) =>
                      \A k \in DOMAIN queue :
                        /\ queue[k].cat = "Fight" /\ queue[k].waza = "Pursuit" /\ ~queue[k].encore
                        /\ queue[k].aim = p /\ ~IsFriendPokeID(p, queue[k].poke)
                        => queue[k].fDone
  <1>1. BattleTyped /\ TurnInv /\ [Next]_vars => Met
    <2> SUFFICES ASSUME BattleTyped, TurnInv, [Next]_vars, NEW p \in Pokes, Leaves(p),
                        NEW k \in DOMAIN queue, Hunts(queue[k], p)
                 PROVE  queue[k].fDone
      BY DEF Hunts
    <2>1. /\ p = queue[Top.act].poke /\ IsLeaving(queue[Top.act]) /\ Top.at = "action"
          /\ FrameInv(Top, queue, mon, acted)
      BY OnlyLeaversLeave DEF Me, Cur
    <2> QED BY <2>1 DEF FrameInv
  <1>2. BattleTyped /\ TurnInv /\ [Next]_vars => [Met]_vars
    BY <1>1
  <1> QED BY <1>2, TurnHolds, PTL DEF Spec, NobodySlipsAway

\* Nobody leaves that has fainted or is carried: whatever an interrupting
\* Pursuit or Sky Drop did since the choice is asked for before the action.
LEMMA LeaversFit == Spec => LeavesAliveAndFree
PROOF
  <1> DEFINE Fit == \A p \in Pokes : Leaves(p) => Alive(mon, p) /\ ~mon[p].freefall
  <1>1. BattleTyped /\ TurnInv /\ [Next]_vars => Fit
    <2> SUFFICES ASSUME BattleTyped, TurnInv, [Next]_vars, NEW p \in Pokes, Leaves(p)
                 PROVE  Alive(mon, p) /\ ~mon[p].freefall
      OBVIOUS
    <2>1. /\ p = queue[Top.act].poke /\ IsLeaving(queue[Top.act]) /\ Top.at = "action"
          /\ FrameInv(Top, queue, mon, acted)
      BY OnlyLeaversLeave DEF Me, Cur
    <2> QED BY <2>1 DEF FrameInv, IsLeaving
  <1>2. BattleTyped /\ TurnInv /\ [Next]_vars => [Fit]_vars
    BY <1>1
  <1> QED BY <1>2, TurnHolds, PTL DEF Spec, LeavesAliveAndFree

\* Whoever leaves the field has met every Pursuit that was meant for it, lives and
\* is not carried.
THEOREM LeaversMetAndFit == Spec => LeavesFairly
BY PursuersMet, LeaversFit, PTL DEF LeavesFairly

-------------------------------------------------------------------------------
(***************************************************************************)
(* Moves that last: what carries and is carried, and who rages.            *)
(***************************************************************************)

\* Whoever is held is up with the one that holds it, which is one only and not
\* held itself; nobody else is up, and nobody that is off the field.
Paired(m) ==
    /\ \A p, q \in Pokes : m[q].holds = p =>
         /\ m[p].freefall /\ m[p].sky /\ m[q].sky
         /\ m[p].holds \in {NoPoke, p}
    /\ \A p, q, r \in Pokes : m[q].holds = p /\ m[r].holds = p => q = r
    /\ \A p \in Pokes : m[p].freefall => \E q \in Pokes : m[q].holds = p
    /\ \A p \in Pokes : m[p].sky => IsExist(m, p) /\ (m[p].freefall \/ m[p].holds # NoPoke)

\* Nobody that has fainted is up.
Aloft(m) == \A p \in Pokes : m[p].sky => Alive(m, p)

Calm(r) ==
    /\ r.rage => r.last = "Rage"
    /\ r.spot = NoSpot => ~r.rage /\ r.atk = 0

Settled(m) == m \in Teams /\ Paired(m) /\ \A p \in Pokes : Calm(m[p])

Lasting(m) == Settled(m) /\ Aloft(m)

LEMMA LastingHolds ==
    ASSUME BattleTyped, Lasting(mon)
    PROVE  LastingMovesHold
PROOF
  <1>1. mon \in Teams /\ NoPoke \notin Pokes
    BY BattleAssumption DEF BattleTyped, Teams
  <1>2. ASSUME NEW p \in Pokes
        PROVE  LET carriers == {q \in Pokes : mon[q].holds = p} IN
               /\ mon[p].freefall <=> carriers # {}
               /\ \A q, r \in carriers : q = r
               /\ \A q \in carriers : {p, q} \subseteq Fielded /\ mon[q].sky /\ mon[p].sky
               /\ mon[p].sky => mon[p].freefall \/ mon[p].holds # NoPoke
    <2> DEFINE carriers == {q \in Pokes : mon[q].holds = p}
    <2>1. mon[p].freefall \in BOOLEAN
      BY <1>1 DEF Teams, PokeParam
    <2>2. mon[p].freefall <=> carriers # {}
      BY <2>1 DEF Lasting, Settled, Paired
    <2>3. \A q, r \in carriers : q = r
      BY DEF Lasting, Settled, Paired
    <2>4. ASSUME NEW q \in carriers PROVE {p, q} \subseteq Fielded /\ mon[q].sky /\ mon[p].sky
      <3>1. mon[q].sky /\ mon[p].sky
        BY DEF Lasting, Settled, Paired
      <3> QED BY <3>1 DEF Lasting, Settled, Paired, Aloft, Fielded
    <2>5. mon[p].sky => mon[p].freefall \/ mon[p].holds # NoPoke
      BY DEF Lasting, Settled, Paired
    <2> QED BY <2>2, <2>3, <2>4, <2>5
  <1>3. PairedInSky
    BY <1>2 DEF PairedInSky
  <1>4. RageEnds
    BY DEF Lasting, Settled, Calm, RageEnds, IsExist
  <1> QED BY <1>3, <1>4 DEF LastingMovesHold

\* What a step does to a Pokemon that it neither takes up nor sets down, and
\* to one that it does not hurt either.
Tied(r, r2) ==
    /\ r2 \in PokeParam
    /\ r2.spot = r.spot /\ r2.holds = r.holds /\ r2.sky = r.sky /\ r2.freefall = r.freefall
    /\ Calm(r) => Calm(r2)

Steady(r, r2) == Tied(r, r2) /\ r2.hp = r.hp

LEMMA SettledAll ==
    ASSUME NEW m, Settled(m), NEW m2 \in Teams, \A p \in Pokes : Tied(m[p], m2[p])
    PROVE  Settled(m2)
PROOF
  <1>1. \A p \in Pokes : /\ m2[p].spot = m[p].spot /\ m2[p].holds = m[p].holds
                         /\ m2[p].sky = m[p].sky /\ m2[p].freefall = m[p].freefall
    BY DEF Tied
  <1>2. Paired(m2)
    BY <1>1 DEF Settled, Paired, IsExist
  <1> QED BY <1>2 DEF Settled, Tied

\* A step that ties, unties and hurts nobody.
AllSteady(m, m2) == m2 \in Teams /\ \A p \in Pokes : Steady(m[p], m2[p])

LEMMA LastingAll ==
    ASSUME NEW m, Lasting(m), NEW m2, AllSteady(m, m2)
    PROVE  Lasting(m2)
BY SettledAll DEF Lasting, Aloft, Alive, AllSteady, Steady, Tied

LEMMA SteadySelf ==
    ASSUME NEW r \in PokeParam
    PROVE  Steady(r, r)
BY DEF Steady, Tied

LEMMA SteadyTwice ==
    ASSUME NEW r, NEW r2, NEW r3, Steady(r, r2), Steady(r2, r3)
    PROVE  Steady(r, r3)
BY DEF Steady, Tied

LEMMA AllSteadySelf ==
    ASSUME NEW m \in Teams
    PROVE  AllSteady(m, m)
BY SteadySelf DEF AllSteady, Teams

LEMMA AllSteadyTwice ==
    ASSUME NEW m, NEW m2, NEW m3, AllSteady(m, m2), AllSteady(m2, m3)
    PROVE  AllSteady(m, m3)
BY SteadyTwice DEF AllSteady

LEMMA SteadyOne ==
    ASSUME NEW m \in Teams, NEW p \in Pokes, NEW r, Steady(m[p], r)
    PROVE  AllSteady(m, [m EXCEPT ![p] = r])
PROOF
  <1>1. r \in PokeParam
    BY DEF Steady, Tied
  <1> DEFINE m2 == [m EXCEPT ![p] = r]
  <1>2. m2 \in Teams /\ m2[p] = r /\ \A q \in Pokes \ {p} : m2[q] = m[q]
    BY <1>1 DEF Teams
  <1> HIDE DEF m2
  <1>3. \A q \in Pokes : m[q] \in PokeParam
    BY DEF Teams
  <1>4. \A q \in Pokes : Steady(m[q], m2[q])
    BY <1>2, <1>3, SteadySelf
  <1>5. AllSteady(m, m2)
    BY <1>2, <1>4 DEF AllSteady
  <1> QED BY <1>5 DEF m2

LEMMA ReformedSteady ==
    ASSUME NEW r \in PokeParam, NEW r2, Reformed(r, r2)
    PROVE  Steady(r, r2)
PROOF
  <1>1. /\ r2 \in PokeParam /\ r2.spot = r.spot /\ r2.hp = r.hp /\ r2.holds = r.holds
        /\ r2.freefall = r.freefall /\ r2.sky = r.sky /\ r2.rage = r.rage
        /\ r2.atk = r.atk /\ r2.last = r.last
    BY ReformedKeeps
  <1> QED BY <1>1 DEF Steady, Tied, Calm

\* The records that the moves write.
LEMMA RecordsSteady ==
    ASSUME NEW r \in PokeParam
    PROVE  /\ Steady(r, [r EXCEPT !.mamoru = 0])
           /\ Steady(r, [r EXCEPT !.protect = FALSE])
           /\ Steady(r, [r EXCEPT !.sick = TRUE])
           /\ Steady(r, [r EXCEPT !.protect = TRUE, !.mamoru = 1])
           /\ \A a \in {"None", "Insomnia"} : Steady(r, [r EXCEPT !.ability = a])
           /\ r.spot # NoSpot /\ r.last = "Rage" => Steady(r, [r EXCEPT !.rage = TRUE])
           /\ \A w \in STRING : LET r2 == [r EXCEPT !.rage = FALSE, !.last = w, !.mamoru = 0] IN
                Steady(r, r2) /\ r2.last = w
           /\ \A t \in PokeParam : Steady(r, [r EXCEPT !.species = t.species, !.form = t.form,
                !.ability = t.ability, !.zen = FALSE, !.hensin = TRUE])
PROOF
  <1>1. Steady(r, [r EXCEPT !.mamoru = 0])
    BY DEF PokeParam, Steady, Tied, Calm
  <1>2. Steady(r, [r EXCEPT !.protect = FALSE])
    BY DEF PokeParam, Steady, Tied, Calm
  <1>3. Steady(r, [r EXCEPT !.sick = TRUE])
    BY DEF PokeParam, Steady, Tied, Calm
  <1>4. Steady(r, [r EXCEPT !.protect = TRUE, !.mamoru = 1])
    BY DEF PokeParam, Steady, Tied, Calm
  <1>5. ASSUME NEW a \in {"None", "Insomnia"} PROVE Steady(r, [r EXCEPT !.ability = a])
    BY DEF PokeParam, Abilities, Steady, Tied, Calm
  <1>6. ASSUME r.spot # NoSpot, r.last = "Rage" PROVE Steady(r, [r EXCEPT !.rage = TRUE])
    BY <1>6 DEF PokeParam, Steady, Tied, Calm
  <1>7. ASSUME NEW w \in STRING
        PROVE  LET r2 == [r EXCEPT !.rage = FALSE, !.last = w, !.mamoru = 0] IN
               Steady(r, r2) /\ r2.last = w
    BY DEF PokeParam, Steady, Tied, Calm
  <1>8. ASSUME NEW t \in PokeParam
        PROVE  Steady(r, [r EXCEPT !.species = t.species, !.form = t.form,
                 !.ability = t.ability, !.zen = FALSE, !.hensin = TRUE])
    BY DEF PokeParam, Steady, Tied, Calm
  <1> QED BY <1>1, <1>2, <1>3, <1>4, <1>5, <1>6, <1>7, <1>8

\* A wound unties nothing; the rage of one that is hurt grows only if it rages.
LEMMA WoundTies ==
    ASSUME NEW r \in PokeParam, NEW d \in Nat
    PROVE  Tied(r, Wounded(r, d))
PROOF
  <1>1. (IF r.hp > d THEN r.hp - d ELSE 0) \in 0 .. MaxHp
    BY MaxHpAssumption DEF PokeParam
  <1> QED BY <1>1 DEF Wounded, PokeParam, Tied, Calm

LEMMA AngerTies ==
    ASSUME NEW r \in PokeParam, NEW c \in BOOLEAN, Calm(r)
    PROVE  Tied(r, [r EXCEPT !.atk = IF r.rage /\ c /\ @ < RankCap THEN @ + 1 ELSE @])
PROOF
  <1>1. (IF r.rage /\ c /\ r.atk < RankCap THEN r.atk + 1 ELSE r.atk) \in 0 .. RankCap
    BY BattleAssumption DEF PokeParam
  <1> QED BY <1>1 DEF PokeParam, Tied, Calm

LEMMA SetDown ==
    ASSUME NEW x \in PokeParam
    PROVE  LET r == [x EXCEPT !.holds = NoPoke, !.sky = FALSE, !.freefall = FALSE] IN
           /\ r \in PokeParam /\ r.spot = x.spot /\ r.hp = x.hp /\ r.last = x.last
           /\ r.rage = x.rage /\ r.atk = x.atk
           /\ r.holds = NoPoke /\ ~r.sky /\ ~r.freefall
PROOF
  <1> DEFINE r == [x EXCEPT !.holds = NoPoke, !.sky = FALSE, !.freefall = FALSE]
  <1>1. r \in PokeParam
    BY DEF PokeParam
  <1>2. /\ r.spot = x.spot /\ r.hp = x.hp /\ r.last = x.last
        /\ r.rage = x.rage /\ r.atk = x.atk
    BY DEF PokeParam
  <1>3. r.holds = NoPoke /\ ~r.sky /\ ~r.freefall
    BY DEF PokeParam
  <1> QED BY <1>1, <1>2, <1>3

\* Section_FreeFall_Release of any of them: whoever is tied to one of them is
\* down, all others stay as they were.
LEMMA ReleaseSettles ==
    ASSUME NEW m, Settled(m), NEW S \in SUBSET Pokes
    PROVE  /\ Settled(FreeFallRelease(m, S))
           /\ \A p \in Pokes : LET r == FreeFallRelease(m, S)[p] IN
                /\ r.hp = m[p].hp /\ r.last = m[p].last
                /\ r.sky => m[p].sky /\ p \notin S
                /\ p \in S => r.holds = NoPoke /\ ~r.freefall
                /\ r.holds \notin S
PROOF
  <1> DEFINE m2 == FreeFallRelease(m, S)
             Loose(q) == q \in S \/ m[q].holds \in S \/ \E p \in S : m[p].holds = q
  <1>1. m \in Teams /\ NoPoke \notin Pokes
    BY BattleAssumption DEF Settled
  <1>2. ASSUME NEW q \in Pokes
        PROVE  LET r == [m[q] EXCEPT !.holds = NoPoke, !.sky = FALSE, !.freefall = FALSE] IN
               /\ r \in PokeParam /\ r.spot = m[q].spot /\ r.hp = m[q].hp /\ r.last = m[q].last
               /\ r.rage = m[q].rage /\ r.atk = m[q].atk
               /\ r.holds = NoPoke /\ ~r.sky /\ ~r.freefall
    BY <1>1, SetDown DEF Teams
  <1>3. ASSUME NEW q \in Pokes
        PROVE  /\ m2[q] \in PokeParam /\ m2[q].spot = m[q].spot /\ m2[q].hp = m[q].hp
               /\ m2[q].last = m[q].last /\ m2[q].rage = m[q].rage /\ m2[q].atk = m[q].atk
               /\ Loose(q) => m2[q].holds = NoPoke /\ ~m2[q].sky /\ ~m2[q].freefall
               /\ ~Loose(q) => m2[q] = m[q]
    <2>1. m[q] \in PokeParam
      BY <1>1 DEF Teams
    <2>2. m2[q] = IF Loose(q) THEN [m[q] EXCEPT !.holds = NoPoke, !.sky = FALSE, !.freefall = FALSE]
                  ELSE m[q]
      BY DEF FreeFallRelease
    <2> QED BY <1>2, <2>1, <2>2
  <1>4. m2 \in Teams
    BY <1>3 DEF Teams, FreeFallRelease
  <1> HIDE DEF m2
  <1>5. \A p \in Pokes : Calm(m2[p])
    BY <1>3 DEF Settled, Calm
  <1>6. Paired(m2)
    <2>1. ASSUME NEW p \in Pokes, NEW q \in Pokes, m2[q].holds = p
          PROVE  ~Loose(q) /\ ~Loose(p) /\ m[q].holds = p
      <3>1. ~Loose(q)
        BY <1>1, <1>3, <2>1
      <3>2. m[q].holds = p
        BY <1>3, <2>1, <3>1
      <3>3. p \notin S
        BY <3>1, <3>2
      <3>4. ~(\E x \in S : m[x].holds = p)
        BY <1>1, <3>1, <3>2 DEF Settled, Paired, Teams
      <3>5. m[p].holds \notin S
        BY <1>1, <3>2, <3>3 DEF Settled, Paired
      <3> QED BY <3>1, <3>2, <3>3, <3>4, <3>5
    <2>2. ASSUME NEW p \in Pokes, NEW q \in Pokes, m2[q].holds = p
          PROVE  /\ m2[p].freefall /\ m2[p].sky /\ m2[q].sky
                 /\ m2[p].holds \in {NoPoke, p}
      BY <1>3, <2>1, <2>2 DEF Settled, Paired
    <2>3. ASSUME NEW p \in Pokes, NEW q \in Pokes, NEW r \in Pokes, m2[q].holds = p, m2[r].holds = p
          PROVE  q = r
      BY <2>1, <2>3 DEF Settled, Paired
    <2>4. ASSUME NEW p \in Pokes, m2[p].freefall PROVE \E q \in Pokes : m2[q].holds = p
      <3>1. ~Loose(p) /\ m[p].freefall
        BY <1>3, <2>4
      <3>2. PICK q \in Pokes : m[q].holds = p
        BY <3>1 DEF Settled, Paired
      <3>3. ~(\E x \in S : m[x].holds = q)
        BY <1>1, <3>1, <3>2 DEF Settled, Paired
      <3> QED BY <1>3, <3>1, <3>2, <3>3
    <2>5. ASSUME NEW p \in Pokes, m2[p].sky
          PROVE  IsExist(m2, p) /\ (m2[p].freefall \/ m2[p].holds # NoPoke)
      BY <1>3, <2>5 DEF Settled, Paired, IsExist
    <2> QED BY <2>2, <2>3, <2>4, <2>5 DEF Paired
  <1>7. ASSUME NEW p \in Pokes
        PROVE  /\ m2[p].hp = m[p].hp /\ m2[p].last = m[p].last
               /\ m2[p].sky => m[p].sky /\ p \notin S
               /\ p \in S => m2[p].holds = NoPoke /\ ~m2[p].freefall
               /\ m2[p].holds \notin S
    BY <1>1, <1>3
  <1> QED BY <1>4, <1>5, <1>6, <1>7 DEF Settled, m2

\* With those that have fainted let go, nobody that has fainted is up.
LEMMA FaintLasts ==
    ASSUME NEW m, Settled(m)
    PROVE  Lasting(Faint(m)) /\ \A p \in Pokes : Faint(m)[p].last = m[p].last
PROOF
  <1> DEFINE S == {p \in Pokes : ~Alive(m, p)}
  <1>1. S \in SUBSET Pokes /\ Faint(m) = FreeFallRelease(m, S)
    BY DEF Faint
  <1>2. Settled(Faint(m))
    BY <1>1, ReleaseSettles
  <1>3. ASSUME NEW p \in Pokes
        PROVE  /\ Faint(m)[p].last = m[p].last /\ Faint(m)[p].hp = m[p].hp
               /\ Faint(m)[p].sky => p \notin S
    BY <1>1, ReleaseSettles
  <1> QED BY <1>2, <1>3 DEF Lasting, Aloft, Alive

LEMMA SettledOne ==
    ASSUME NEW m, Settled(m), NEW p \in Pokes, NEW r, Tied(m[p], r)
    PROVE  Settled([m EXCEPT ![p] = r]) /\ [m EXCEPT ![p] = r][p] = r
PROOF
  <1>1. m \in Teams /\ r \in PokeParam
    BY DEF Settled, Tied
  <1> DEFINE m2 == [m EXCEPT ![p] = r]
  <1>2. m2 \in Teams /\ m2[p] = r /\ \A q \in Pokes \ {p} : m2[q] = m[q]
    BY <1>1 DEF Teams
  <1> HIDE DEF m2
  <1>3. \A q \in Pokes : m[q] \in PokeParam
    BY <1>1 DEF Teams
  <1>4. \A q \in Pokes : Tied(m[q], m2[q])
    BY <1>2, <1>3, SteadySelf DEF Steady
  <1>5. Settled(m2)
    BY <1>2, <1>4, SettledAll
  <1> QED BY <1>2, <1>5 DEF m2

LEMMA HurtLasts ==
    ASSUME NEW m, Settled(m), NEW t \in Pokes, NEW d \in Nat
    PROVE  Lasting(Hurt(m, t, d)) /\ \A p \in Pokes : Hurt(m, t, d)[p].last = m[p].last
PROOF
  <1> DEFINE w  == Wounded(m[t], d)
             r  == [w EXCEPT !.atk = IF w.rage /\ w.hp > 0 /\ @ < RankCap THEN @ + 1 ELSE @]
             m1 == [m EXCEPT ![t] = r]
  <1>1. m[t] \in PokeParam /\ Calm(m[t]) /\ m \in Teams
    BY DEF Settled, Teams
  <1>2. Tied(m[t], w) /\ w \in PokeParam /\ Calm(w) /\ w.last = m[t].last
    <2>1. w.last = m[t].last
      BY <1>1 DEF Wounded, PokeParam
    <2> QED BY <1>1, <2>1, WoundTies DEF Tied
  <1> HIDE DEF w
  <1>3. Tied(w, r) /\ r.last = w.last
    <2>1. (w.hp > 0) \in BOOLEAN
      OBVIOUS
    <2>2. Tied(w, r)
      BY <1>2, <2>1, AngerTies
    <2>3. r.last = w.last
      BY <1>2 DEF PokeParam
    <2> QED BY <2>2, <2>3
  <1> HIDE DEF r
  <1>4. Tied(m[t], r)
    BY <1>2, <1>3 DEF Tied
  <1>5. Settled(m1) /\ \A p \in Pokes : m1[p].last = m[p].last
    <2>1. \A p \in Pokes : m1[p].last = m[p].last
      BY <1>1, <1>2, <1>3 DEF Teams
    <2> QED BY <1>4, <2>1, SettledOne
  <1>6. Hurt(m, t, d) = Faint(m1)
    BY DEF Hurt, m1, r, w
  <1> HIDE DEF m1
  <1> QED BY <1>5, <1>6, FaintLasts

\* Who leaves the field is tied to nobody.
LEMMA LeaveLasts ==
    ASSUME NEW m, Lasting(m), NEW p \in Pokes, \A q \in Pokes : Fresh(base[q])
    PROVE  Lasting(Leave(m, p))
PROOF
  <1> DEFINE r  == Rested(base[p], m[p])
             m1 == FreeFallRelease(m, {p})
             m2 == [m1 EXCEPT ![p] = r]
  <1>1. Fresh(base[p]) /\ m[p] \in PokeParam /\ NoPoke \notin Pokes
    BY BattleAssumption DEF Lasting, Settled, Teams
  <1>2. r \in PokeParam /\ r.spot = NoSpot /\ ~r.sky /\ ~r.freefall /\ r.holds = NoPoke
        /\ ~r.rage /\ r.atk = 0
    BY <1>1 DEF Rested, PokeParam, Fresh
  <1> HIDE DEF r
  <1>3. {p} \in SUBSET Pokes /\ Settled(m)
    BY DEF Lasting
  <1>4. /\ Settled(m1)
        /\ \A q \in Pokes : /\ m1[q].hp = m[q].hp /\ m1[q].holds # p
                            /\ m1[q].sky => m[q].sky /\ q # p
        /\ ~m1[p].freefall /\ m1[p].holds = NoPoke
    BY <1>3, ReleaseSettles
  <1>5. Leave(m, p) = m2
    BY DEF Leave, m1, r
  <1> HIDE DEF m1
  <1>6. m2 \in Teams /\ m2[p] = r /\ \A q \in Pokes \ {p} : m2[q] = m1[q]
    BY <1>2, <1>4 DEF Settled, Teams
  <1> HIDE DEF m2
  <1>7. \A q \in Pokes : Calm(m2[q])
    BY <1>2, <1>4, <1>6 DEF Settled, Calm
  <1>8. Paired(m2)
    <2>1. ASSUME NEW x \in Pokes, NEW q \in Pokes, m2[q].holds = x
          PROVE  q # p /\ x # p /\ m1[q].holds = x
      BY <1>1, <1>2, <1>4, <1>6, <2>1
    <2>2. ASSUME NEW x \in Pokes, NEW q \in Pokes, m2[q].holds = x
          PROVE  m2[x].freefall /\ m2[x].sky /\ m2[q].sky /\ m2[x].holds \in {NoPoke, x}
      BY <1>4, <1>6, <2>1, <2>2 DEF Settled, Paired
    <2>3. ASSUME NEW x \in Pokes, NEW q \in Pokes, NEW y \in Pokes, m2[q].holds = x, m2[y].holds = x
          PROVE  q = y
      BY <1>4, <2>1, <2>3 DEF Settled, Paired
    <2>4. ASSUME NEW x \in Pokes, m2[x].freefall PROVE \E q \in Pokes : m2[q].holds = x
      <3>1. x # p /\ m1[x].freefall
        BY <1>2, <1>6, <2>4
      <3>2. PICK q \in Pokes : m1[q].holds = x
        BY <1>4, <3>1 DEF Settled, Paired
      <3>3. q # p
        BY <1>1, <1>4, <3>2
      <3> QED BY <1>6, <3>2, <3>3
    <2>5. ASSUME NEW x \in Pokes, m2[x].sky
          PROVE  IsExist(m2, x) /\ (m2[x].freefall \/ m2[x].holds # NoPoke)
      <3>1. x # p /\ m2[x] = m1[x]
        BY <1>2, <1>6, <2>5
      <3> QED BY <1>4, <2>5, <3>1 DEF Settled, Paired, IsExist
    <2> QED BY <2>2, <2>3, <2>4, <2>5 DEF Paired
  <1>9. Aloft(m2)
    BY <1>2, <1>4, <1>6 DEF Lasting, Aloft, Alive
  <1> QED BY <1>5, <1>6, <1>7, <1>8, <1>9 DEF Lasting, Settled

\* Who comes in was tied to nobody.
LEMMA EnterLasts ==
    ASSUME NEW m, Lasting(m), NEW q \in Pokes, ~IsExist(m, q), NEW s \in Spots
    PROVE  Lasting(Enter(m, q, s))
PROOF
  <1> DEFINE r  == [m[q] EXCEPT !.spot = s]
             m0 == [m EXCEPT ![q] = r]
             m1 == [m EXCEPT ![q] = MemberInEvo(r)]
             m2 == [p \in Pokes |-> IF m1[p].spot # NoSpot THEN MemberInComp(m1[p]) ELSE m1[p]]
  <1>1. m \in Teams /\ m[q] \in PokeParam /\ Calm(m[q]) /\ NoPoke \notin Pokes
    BY BattleAssumption DEF Lasting, Settled, Teams
  <1>2. ~m[q].sky /\ ~m[q].rage /\ m[q].atk = 0
    BY <1>1 DEF Lasting, Settled, Paired, Calm, IsExist
  <1>3. /\ r \in PokeParam /\ r.holds = m[q].holds /\ r.sky = m[q].sky /\ r.freefall = m[q].freefall
        /\ r.hp = m[q].hp /\ r.rage = m[q].rage /\ r.atk = m[q].atk
    BY <1>1 DEF PokeParam
  <1>4. Enter(m, q, s) = m2
    BY DEF Enter, m1, r
  <1> HIDE DEF r
  <1>5. m0 \in Teams /\ m0[q] = r /\ \A p \in Pokes \ {q} : m0[p] = m[p]
    BY <1>1, <1>3 DEF Teams
  <1>6. Steady(r, MemberInEvo(r))
    BY <1>3, AbilitiesReform, ReformedSteady
  <1>7. m1 = [m0 EXCEPT ![q] = MemberInEvo(r)]
    BY <1>1 DEF Teams
  <1> HIDE DEF m0, m1
  <1>8. Lasting(m0)
    <2>1. \A p \in Pokes : Calm(m0[p])
      BY <1>2, <1>3, <1>5 DEF Lasting, Settled, Calm
    <2>2. \A p \in Pokes : /\ m0[p].holds = m[p].holds /\ m0[p].sky = m[p].sky
                           /\ m0[p].freefall = m[p].freefall /\ m0[p].hp = m[p].hp
                           /\ p # q => m0[p].spot = m[p].spot
      BY <1>3, <1>5
    <2>3. Paired(m0)
      BY <1>2, <2>2 DEF Lasting, Settled, Paired, IsExist
    <2>4. Aloft(m0)
      BY <2>2 DEF Lasting, Aloft, Alive
    <2> QED BY <1>5, <2>1, <2>3, <2>4 DEF Lasting, Settled
  <1>9. Lasting(m1)
    BY <1>5, <1>6, <1>7, <1>8, SteadyOne, LastingAll
  <1>10. ASSUME NEW p \in Pokes PROVE m2[p] \in PokeParam /\ Steady(m1[p], m2[p])
    <2>1. m1[p] \in PokeParam
      BY <1>9 DEF Lasting, Settled, Teams
    <2>2. Steady(m1[p], m1[p]) /\ Steady(m1[p], MemberInComp(m1[p]))
      BY <2>1, SteadySelf, AbilitiesReform, ReformedSteady
    <2>3. m2[p] = m1[p] \/ m2[p] = MemberInComp(m1[p])
      OBVIOUS
    <2> QED BY <2>2, <2>3 DEF Steady, Tied
  <1>11. m2 \in Teams
    BY <1>10 DEF Teams
  <1> HIDE DEF m2
  <1> QED BY <1>4, <1>9, <1>10, <1>11, LastingAll DEF AllSteady

\* setFreeFallSick: the two are up together, and were tied to nobody before.
LEMMA CarryOffLasts ==
    ASSUME NEW m, Lasting(m), NEW p \in Pokes, NEW t \in Pokes,
           m[p].holds = NoPoke, ~m[p].freefall, ~m[t].sky,
           IsExist(m, p), Alive(m, p), IsExist(m, t), Alive(m, t)
    PROVE  Lasting(CarryOff(m, p, t))
PROOF
  <1> DEFINE r  == [m[p] EXCEPT !.sky = TRUE, !.holds = t]
             m1 == [m EXCEPT ![p] = r]
             r2 == [m1[t] EXCEPT !.sky = TRUE, !.freefall = TRUE]
             m2 == [m1 EXCEPT ![t] = r2]
  <1>1. m \in Teams /\ NoPoke \notin Pokes /\ m[p] \in PokeParam
    BY BattleAssumption DEF Lasting, Settled, Teams
  <1>2. /\ r \in PokeParam /\ r.spot = m[p].spot /\ r.hp = m[p].hp /\ r.rage = m[p].rage
        /\ r.atk = m[p].atk /\ r.last = m[p].last /\ r.freefall = m[p].freefall
    BY <1>1 DEF PokeParam
  <1>3. r.sky /\ r.holds = t
    BY <1>1 DEF PokeParam
  <1> HIDE DEF r
  <1>4. m1 \in Teams /\ m1[p] = r /\ \A q \in Pokes \ {p} : m1[q] = m[q]
    BY <1>1, <1>2 DEF Teams
  <1>5. m1[t] \in PokeParam
    BY <1>4 DEF Teams
  <1>6. /\ r2 \in PokeParam /\ r2.spot = m1[t].spot /\ r2.hp = m1[t].hp /\ r2.rage = m1[t].rage
        /\ r2.atk = m1[t].atk /\ r2.last = m1[t].last /\ r2.holds = m1[t].holds
    BY <1>5 DEF PokeParam
  <1>7. r2.sky /\ r2.freefall
    BY <1>5 DEF PokeParam
  <1>8. CarryOff(m, p, t) = m2
    BY DEF CarryOff, m1, r, r2
  <1> HIDE DEF m1
  <1> HIDE DEF r2
  <1>9. m2 \in Teams /\ m2[t] = r2 /\ \A q \in Pokes \ {t} : m2[q] = m1[q]
    BY <1>4, <1>6 DEF Teams
  <1> HIDE DEF m2
  <1>10. ASSUME NEW q \in Pokes
         PROVE  /\ m2[q].spot = m[q].spot /\ m2[q].hp = m[q].hp /\ m2[q].rage = m[q].rage
                /\ m2[q].atk = m[q].atk /\ m2[q].last = m[q].last
                /\ m2[q].holds = IF q = p THEN t ELSE m[q].holds
                /\ q \notin {p, t} => m2[q] = m[q]
    BY <1>2, <1>3, <1>4, <1>6, <1>9
  <1>11. m2[p].sky /\ m2[t].sky /\ m2[t].freefall /\ (p # t => ~m2[p].freefall)
    BY <1>2, <1>3, <1>4, <1>7, <1>9
  <1>12. \A q \in Pokes : m[q].holds # p /\ m[q].holds # t /\ (m[q].holds # NoPoke => q # t /\ q # p)
    <2>1. ASSUME NEW q \in Pokes PROVE m[q].holds \in Pokes \cup {NoPoke}
      BY <1>1 DEF Teams, PokeParam
    <2>2. ASSUME NEW q \in Pokes PROVE m[q].holds # p /\ m[q].holds # t
      BY DEF Lasting, Settled, Paired
    <2>3. m[t].holds \notin Pokes
      BY DEF Lasting, Settled, Paired
    <2> QED BY <1>1, <2>1, <2>2, <2>3
  <1>13. Paired(m2)
    <2>1. ASSUME NEW x \in Pokes, NEW q \in Pokes, m2[q].holds = x
          PROVE  (q = p /\ x = t) \/ (x \notin {p, t} /\ q \notin {p, t} /\ m[q].holds = x)
      <3>1. CASE q = p
        BY <1>10, <2>1, <3>1
      <3>2. CASE q # p
        <4>1. m[q].holds = x /\ x # NoPoke
          BY <1>1, <1>10, <2>1, <3>2
        <4> QED BY <1>12, <4>1
      <3> QED BY <3>1, <3>2
    <2>2. ASSUME NEW x \in Pokes, NEW q \in Pokes, m2[q].holds = x
          PROVE  m2[x].freefall /\ m2[x].sky /\ m2[q].sky /\ m2[x].holds \in {NoPoke, x}
      <3>1. CASE q = p /\ x = t
        <4>1. m[t].holds = NoPoke
          BY <1>1, <1>12 DEF Lasting, Settled, Teams, PokeParam
        <4> QED BY <1>10, <1>11, <3>1, <4>1
      <3>2. CASE x \notin {p, t} /\ q \notin {p, t} /\ m[q].holds = x
        BY <1>10, <3>2 DEF Lasting, Settled, Paired
      <3> QED BY <2>1, <2>2, <3>1, <3>2
    <2>3. ASSUME NEW x \in Pokes, NEW q \in Pokes, NEW y \in Pokes, m2[q].holds = x, m2[y].holds = x
          PROVE  q = y
      BY <2>1, <2>3 DEF Lasting, Settled, Paired
    <2>4. ASSUME NEW x \in Pokes, m2[x].freefall PROVE \E q \in Pokes : m2[q].holds = x
      <3>1. CASE x = t
        BY <1>10, <3>1
      <3>2. CASE x # t
        <4>1. x # p /\ m[x].freefall
          BY <1>10, <1>11, <2>4, <3>2
        <4>2. PICK q \in Pokes : m[q].holds = x
          BY <4>1 DEF Lasting, Settled, Paired
        <4> QED BY <1>1, <1>10, <1>12, <4>2
      <3> QED BY <3>1, <3>2
    <2>5. ASSUME NEW x \in Pokes, m2[x].sky
          PROVE  IsExist(m2, x) /\ (m2[x].freefall \/ m2[x].holds # NoPoke)
      <3>1. CASE x \in {p, t}
        BY <1>1, <1>10, <1>11, <3>1 DEF IsExist
      <3>2. CASE x \notin {p, t}
        BY <1>10, <2>5, <3>2 DEF Lasting, Settled, Paired, IsExist
      <3> QED BY <3>1, <3>2
    <2> QED BY <2>2, <2>3, <2>4, <2>5 DEF Paired
  <1>14. Aloft(m2)
    BY <1>10 DEF Lasting, Aloft, Alive
  <1>15. \A q \in Pokes : Calm(m2[q])
    BY <1>10 DEF Lasting, Settled, Calm
  <1> QED BY <1>8, <1>9, <1>13, <1>14, <1>15 DEF Lasting, Settled

\* WAZA_CALL_DECIDE unties nothing and ends a rage.
LEMMA DecidedSteady ==
    ASSUME BattleTyped, stack # <<>>
    PROVE  AllSteady(mon, Decided) /\ Decided[Me].last = Cur.waza
PROOF
  <1>1. Me \in Pokes /\ Cur.waza \in STRING /\ mon \in Teams /\ mon[Me] \in PokeParam
    BY TopTyped DEF BattleTyped, Teams, Doing
  <1> DEFINE r  == StanceChange(mon[Me], Cur.waza \in Damaging, Cur.waza = "King's Shield")
             r2 == [r EXCEPT !.rage = FALSE, !.last = Cur.waza, !.mamoru = 0]
  <1>2. r \in PokeParam /\ Steady(mon[Me], r)
    <2>1. (Cur.waza \in Damaging) \in BOOLEAN /\ (Cur.waza = "King's Shield") \in BOOLEAN
      OBVIOUS
    <2>2. \A d, sh \in BOOLEAN : Reformed(mon[Me], StanceChange(mon[Me], d, sh))
      BY <1>1, AbilitiesReform
    <2>3. Steady(mon[Me], r)
      BY <1>1, <2>1, <2>2, ReformedSteady
    <2> QED BY <2>3 DEF Steady, Tied
  <1> HIDE DEF r
  <1>3. Steady(r, r2) /\ r2.last = Cur.waza
    BY <1>1, <1>2, RecordsSteady
  <1>4. Decided = [mon EXCEPT ![Me] = r2]
    BY DEF Decided, r2, r
  <1> HIDE DEF r2
  <1>5. Steady(mon[Me], r2)
    BY <1>2, <1>3, SteadyTwice
  <1>6. AllSteady(mon, Decided)
    BY <1>1, <1>4, <1>5, SteadyOne
  <1>7. Decided[Me] = r2
    BY <1>1, <1>4 DEF Teams
  <1> QED BY <1>3, <1>6, <1>7

LEMMA DecidedLasts ==
    ASSUME BattleTyped, stack # <<>>, Lasting(mon)
    PROVE  /\ Lasting(Decided) /\ Settled(Decided) /\ Decided \in Teams
           /\ \A p \in Pokes : Decided[p] \in PokeParam /\ Steady(mon[p], Decided[p])
           /\ Decided[Me].last = Cur.waza
PROOF
  <1>1. Lasting(Decided) /\ AllSteady(mon, Decided) /\ Decided[Me].last = Cur.waza
    BY DecidedSteady, LastingAll
  <1> QED BY <1>1 DEF Lasting, Settled, Teams, AllSteady

\* Whoever acts lives and is on the field, and is not carried if it moves.
LEMMA ActorFit ==
    ASSUME BattleTyped, TurnInv, stack # <<>>, Top.at = "action"
    PROVE  Alive(mon, Me) /\ IsExist(mon, Me) /\ (IsFight => ~mon[Me].freefall)
PROOF
  <1>1. FrameInv(Top, queue, mon, acted)
    BY TopTyped DEF TurnInv, Top
  <1> QED BY <1>1 DEF FrameInv, Me, Cur, IsFight

\* The target of a move lives and is on the field.
LEMMA AimFit ==
    ASSUME BattleTyped, Aim # NoPoke
    PROVE  Aim \in Pokes /\ Alive(mon, Aim) /\ IsExist(mon, Aim)
PROOF
  <1>1. \E p \in Pokes : mon[p].spot = Cur.pos /\ Alive(mon, p) /\ Cur.pos # NoSpot
    BY DEF Aim, Occupant
  <1>2. Aim = CHOOSE p \in Pokes : mon[p].spot = Cur.pos /\ Alive(mon, p)
    BY <1>1 DEF Aim, Occupant
  <1>3. Aim \in Pokes /\ mon[Aim].spot = Cur.pos /\ Alive(mon, Aim) /\ Cur.pos # NoSpot
    BY <1>1, <1>2
  <1> QED BY <1>3 DEF IsExist

\* Sky Drop and Rage begin; Sky Drop ends; a move does not come off.
LEMMA LastingMoves ==
    ASSUME BattleTyped, TurnInv, Lasting(mon),
           MoveFails \/ Pursuit \/ FreeFallStart \/ SkyDropFalls \/ Rage
    PROVE  Lasting(mon')
PROOF
  <1>1. stack # <<>> /\ Top.at = "action" /\ IsFight
    BY DEF MoveFails, Pursuit, FreeFallStart, SkyDropFalls, Rage, Using, At
  <1>2. /\ Me \in Pokes /\ mon \in Teams /\ Alive(mon, Me) /\ IsExist(mon, Me)
        /\ ~mon[Me].freefall
    BY <1>1, TopTyped, ActorFit DEF Lasting, Settled
  <1>3. /\ Lasting(Decided) /\ Settled(Decided) /\ Decided \in Teams
        /\ \A p \in Pokes : Steady(mon[p], Decided[p])
        /\ Decided[Me].last = Cur.waza
    BY <1>1, DecidedLasts
  <1>4. ASSUME Reached, NEW d \in Nat
        PROVE  /\ Lasting(Hurt(Decided, Aim, d)) /\ Aim \in Pokes
               /\ Hurt(Decided, Aim, d)[Me].last = Cur.waza
    BY <1>2, <1>3, <1>4, ReachedAim, HurtLasts
  <1>5. CASE MoveFails
    <2>1. PICK m \in {mon, Decided} : mon' = FreeFallRelease(m, {Me})
      BY <1>5 DEF MoveFails, Does
    <2>2. Settled(m) /\ Aloft(m) /\ {Me} \in SUBSET Pokes
      BY <1>2, <1>3 DEF Lasting
    <2>3. /\ Settled(mon')
          /\ \A p \in Pokes : mon'[p].hp = m[p].hp /\ (mon'[p].sky => m[p].sky)
      BY <2>1, <2>2, ReleaseSettles
    <2> QED BY <2>2, <2>3 DEF Lasting, Aloft, Alive
  <1>6. CASE Pursuit
    BY <1>3, <1>4, <1>6 DEF Pursuit, Does
  <1>7. CASE FreeFallStart
    <2>1. mon' = (IF Aim # NoPoke /\ CanBeTaken(Aim) THEN CarryOff(Decided, Me, Aim) ELSE Decided)
          /\ mon[Me].holds = NoPoke
      BY <1>7 DEF FreeFallStart, Does
    <2>2. ASSUME Aim # NoPoke, CanBeTaken(Aim) PROVE Lasting(CarryOff(Decided, Me, Aim))
      <3>1. Aim \in Pokes /\ Alive(mon, Aim) /\ IsExist(mon, Aim) /\ ~mon[Aim].sky
        BY <2>2, AimFit DEF CanBeTaken
      <3>2. /\ Decided[Me].holds = NoPoke /\ ~Decided[Me].freefall
            /\ IsExist(Decided, Me) /\ Alive(Decided, Me)
        BY <1>2, <1>3, <2>1 DEF Steady, Tied, IsExist, Alive
      <3>3. ~Decided[Aim].sky /\ IsExist(Decided, Aim) /\ Alive(Decided, Aim)
        BY <1>3, <3>1 DEF Steady, Tied, IsExist, Alive
      <3> QED BY <1>2, <1>3, <3>1, <3>2, <3>3, CarryOffLasts
    <2> QED BY <1>3, <2>1, <2>2
  <1>8. CASE SkyDropFalls
    <2> DEFINE t == mon[Me].holds
               m == FreeFallRelease(Decided, {Me})
    <2>1. t \in Pokes
      <3>1. mon[Me] \in PokeParam /\ t # NoPoke
        BY <1>2, <1>8 DEF SkyDropFalls, Teams
      <3> QED BY <3>1 DEF PokeParam
    <2>2. Settled(m) /\ \A p \in Pokes : m[p].hp = Decided[p].hp /\ (m[p].sky => Decided[p].sky)
      BY <1>2, <1>3, ReleaseSettles
    <2>3. mon' = IF "Sky Drop" \in Immune[t] THEN m ELSE Hurt(m, t, 1)
      BY <1>8 DEF SkyDropFalls, Does
    <2> HIDE DEF m, t
    <2>4. Lasting(m)
      BY <1>3, <2>2 DEF Lasting, Aloft, Alive
    <2>5. Lasting(Hurt(m, t, 1))
      BY <2>1, <2>2, HurtLasts
    <2> QED BY <2>3, <2>4, <2>5
  <1>9. CASE Rage
    <2> DEFINE m == Hurt(Decided, Aim, 1)
    <2>1. ASSUME Reached PROVE Lasting([m EXCEPT ![Me].rage = TRUE])
      <3>1. Lasting(m) /\ m[Me].last = "Rage"
        BY <1>4, <1>9, <2>1 DEF Rage, Using
      <3>2. m[Me].spot # NoSpot
        <4>1. SamePlaces(mon, m)
          BY <1>1, <2>1, DecidedThenHurt
        <4> QED BY <1>2, <4>1 DEF SamePlaces, IsExist
      <3> HIDE DEF m
      <3>3. m[Me] \in PokeParam
        BY <1>2, <3>1 DEF Lasting, Settled, Teams
      <3>4. Steady(m[Me], [m[Me] EXCEPT !.rage = TRUE])
        BY <3>1, <3>2, <3>3, RecordsSteady
      <3>5. Lasting([m EXCEPT ![Me] = [m[Me] EXCEPT !.rage = TRUE]])
        BY <1>2, <3>1, <3>4, SteadyOne, LastingAll DEF Lasting, Settled
      <3> QED BY <3>5
    <2>2. mon' = IF Reached THEN [m EXCEPT ![Me].rage = TRUE] ELSE Decided
      BY <1>9 DEF Rage, Does
    <2> HIDE DEF m
    <2> QED BY <1>3, <2>1, <2>2
  <1> QED BY <1>5, <1>6, <1>7, <1>8, <1>9

\* All other moves tie, untie and hurt nobody.
LEMMA OthersSteady ==
    ASSUME BattleTyped,
           KingsShield \/ ThunderWave \/ Transform \/ GastroAcid \/ WorrySeed \/ ChangeWeather
    PROVE  AllSteady(mon, mon')
PROOF
  <1>1. stack # <<>> /\ Top.at = "action"
    BY DEF KingsShield, ThunderWave, Transform, GastroAcid, WorrySeed, ChangeWeather, Using, At
  <1>2. /\ Me \in Pokes /\ mon \in Teams /\ AllSteady(mon, Decided) /\ Decided \in Teams
        /\ \A p \in Pokes : mon[p] \in PokeParam /\ Decided[p] \in PokeParam
    BY <1>1, TopTyped, DecidedSteady DEF AllSteady, BattleTyped, Teams
  <1>3. CASE KingsShield
    <2>1. Steady(Decided[Me], [Decided[Me] EXCEPT !.protect = TRUE, !.mamoru = 1])
      BY <1>2, RecordsSteady
    <2>2. mon' = [Decided EXCEPT ![Me] = [Decided[Me] EXCEPT !.protect = TRUE, !.mamoru = 1]]
      BY <1>2, <1>3 DEF KingsShield, Does, Teams
    <2> QED BY <1>2, <2>1, <2>2, SteadyOne, AllSteadyTwice
  <1>4. CASE ThunderWave
    <2> DEFINE r == [Decided[Aim] EXCEPT !.sick = TRUE]
    <2>1. ASSUME Reached PROVE AllSteady(Decided, [Decided EXCEPT ![Aim] = r])
      <3>1. Aim \in Pokes /\ Decided[Aim] \in PokeParam
        BY <1>2, <2>1, ReachedAim
      <3>2. Steady(Decided[Aim], r)
        BY <3>1, RecordsSteady
      <3> QED BY <1>2, <3>1, <3>2, SteadyOne
    <2>2. mon' = IF Reached /\ ~AddSickCheckFail(mon[Aim]) THEN [Decided EXCEPT ![Aim] = r] ELSE Decided
      BY <1>4 DEF ThunderWave, Does
    <2> HIDE DEF r
    <2> QED BY <1>2, <2>1, <2>2, AllSteadyTwice
  <1>5. CASE Transform
    <2> DEFINE t == mon[Aim]
               r == [Decided[Me] EXCEPT !.species = t.species, !.form = t.form,
                                        !.ability = t.ability, !.zen = FALSE, !.hensin = TRUE]
    <2>1. ASSUME Reached PROVE AllSteady(Decided, [Decided EXCEPT ![Me] = r])
      <3>1. t \in PokeParam
        BY <1>2, <2>1, ReachedAim
      <3> HIDE DEF t
      <3>2. Steady(Decided[Me], r)
        BY <1>2, <3>1, RecordsSteady
      <3> QED BY <1>2, <3>2, SteadyOne
    <2>2. mon' = Decided \/ (Reached /\ mon' = [Decided EXCEPT ![Me] = r])
      BY <1>5 DEF Transform, Does
    <2> HIDE DEF r
    <2> QED BY <1>2, <2>1, <2>2, AllSteadyTwice
  <1>6. CASE GastroAcid
    <2> DEFINE d == TokuseiDisable(Decided[Aim])
               r == [d EXCEPT !.ability = "None"]
    <2>1. ASSUME Reached PROVE AllSteady(Decided, [Decided EXCEPT ![Aim] = r])
      <3>1. Aim \in Pokes /\ Decided[Aim] \in PokeParam
        BY <1>2, <2>1, ReachedAim
      <3>2. d \in PokeParam /\ Steady(Decided[Aim], d)
        <4>1. Steady(Decided[Aim], d)
          BY <3>1, AbilitiesReform, ReformedSteady
        <4> QED BY <4>1 DEF Steady, Tied
      <3> HIDE DEF d
      <3>3. Steady(d, r)
        BY <3>2, RecordsSteady
      <3>4. Steady(Decided[Aim], r)
        BY <3>2, <3>3, SteadyTwice
      <3> QED BY <1>2, <3>1, <3>4, SteadyOne, LastingAll DEF Lasting, Settled
    <2>2. mon' = IF Reached THEN [Decided EXCEPT ![Aim] = r] ELSE Decided
      BY <1>6 DEF GastroAcid, Does
    <2> HIDE DEF r
    <2> QED BY <1>2, <2>1, <2>2, AllSteadyTwice
  <1>7. CASE WorrySeed
    <2> DEFINE m  == [Decided EXCEPT ![Aim].ability = "Insomnia"]
               m2 == [p \in Pokes |-> IF IsExist(m, p) THEN ChangeTokuseiAfter(m[p], p = Aim) ELSE m[p]]
    <2>1. ASSUME Reached PROVE AllSteady(Decided, m2)
      <3>1. AllSteady(Decided, m)
        <4>1. Aim \in Pokes /\ Decided[Aim] \in PokeParam
          BY <1>2, <2>1, ReachedAim
        <4>2. Steady(Decided[Aim], [Decided[Aim] EXCEPT !.ability = "Insomnia"])
          BY <4>1, RecordsSteady
        <4>3. m = [Decided EXCEPT ![Aim] = [Decided[Aim] EXCEPT !.ability = "Insomnia"]]
          OBVIOUS
        <4> HIDE DEF m
        <4> QED BY <1>2, <4>1, <4>2, <4>3, SteadyOne
      <3> HIDE DEF m
      <3>2. ASSUME NEW p \in Pokes PROVE m2[p] \in PokeParam /\ Steady(m[p], m2[p])
        <4>1. m[p] \in PokeParam /\ (p = Aim) \in BOOLEAN
          BY <3>1 DEF AllSteady, Teams
        <4>2. Steady(m[p], m[p]) /\ Steady(m[p], ChangeTokuseiAfter(m[p], p = Aim))
          BY <4>1, SteadySelf, AbilitiesReform, ReformedSteady
        <4>3. m2[p] = m[p] \/ m2[p] = ChangeTokuseiAfter(m[p], p = Aim)
          OBVIOUS
        <4> QED BY <4>2, <4>3 DEF Steady, Tied
      <3>3. m2 \in Teams
        BY <3>2 DEF Teams
      <3> HIDE DEF m2
      <3> QED BY <3>1, <3>2, <3>3, AllSteadyTwice DEF AllSteady
    <2>2. mon' = IF Reached THEN m2 ELSE Decided
      BY <1>7 DEF WorrySeed, Does
    <2> HIDE DEF m2
    <2> QED BY <1>2, <2>1, <2>2, AllSteadyTwice
  <1>8. CASE ChangeWeather
    BY <1>2, <1>8 DEF ChangeWeather
  <1> QED BY <1>3, <1>4, <1>5, <1>6, <1>7, <1>8

\* One goes and another comes.
LEMMA SwapLasts ==
    ASSUME BattleTyped, NEW m, Lasting(m), NEW p \in Pokes,
           NEW q \in Pokes, ~IsExist(m, q) \/ q = p, NEW s \in Spots
    PROVE  Lasting(Enter(Leave(m, p), q, s))
PROOF
  <1>1. \A x \in Pokes : Fresh(base[x])
    BY ScenarioTyped DEF BattleTyped
  <1>2. m \in Teams
    BY DEF Lasting, Settled
  <1>3. Lasting(Leave(m, p))
    BY <1>1, LeaveLasts
  <1>4. ~IsExist(Leave(m, p), q)
    BY <1>1, <1>2, LeaveKeeps DEF IsExist
  <1> QED BY <1>3, <1>4, EnterLasts

LEMMA LastingAction ==
    ASSUME BattleTyped, TurnInv, Lasting(mon), Action
    PROVE  Lasting(mon')
PROOF
  <1>1. stack # <<>> /\ Top.at = "action" /\ Me \in Pokes /\ mon \in Teams
    BY ActionKeeps, TopTyped DEF Lasting, Settled
  <1>2. mon[Me].spot \in Spots
    BY <1>1 DEF Teams, PokeParam
  <1>3. CASE HitAndLeave
    <2> DEFINE hit == Hurt(Decided, Aim, 1)
    <2>1. CASE ~Reached
      BY <1>1, <1>3, <2>1, DecidedLasts DEF HitAndLeave, Does
    <2>2. CASE Reached
      <3>1. Lasting(hit) /\ SamePlaces(mon, hit)
        BY <1>1, <2>2, DecidedLasts, ReachedAim, HurtLasts, DecidedThenHurt
      <3>2. CASE Bench(mon, Team[Me]) = {}
        BY <1>3, <2>2, <3>1, <3>2 DEF HitAndLeave, Does
      <3>3. CASE Bench(mon, Team[Me]) # {}
        <4>1. PICK q \in Bench(mon, Team[Me]) : mon' = Enter(Leave(hit, Me), q, mon[Me].spot)
          BY <1>3, <2>2, <3>3 DEF HitAndLeave, Does
        <4> HIDE DEF hit
        <4>2. q \in Pokes /\ ~IsExist(hit, q)
          BY <3>1 DEF Bench, IsExist, SamePlaces
        <4> QED BY <1>1, <1>2, <3>1, <4>1, <4>2, SwapLasts
      <3> QED BY <3>2, <3>3
    <2> QED BY <2>1, <2>2
  <1>4. CASE PokeChange
    <2>1. mon' = IF Cur.aim \in Bench(mon, Team[Me])
                 THEN Enter(Leave(mon, Me), Cur.aim, mon[Me].spot) ELSE mon
      BY <1>4 DEF PokeChange, Does
    <2>2. ASSUME Cur.aim \in Bench(mon, Team[Me])
          PROVE  Lasting(Enter(Leave(mon, Me), Cur.aim, mon[Me].spot))
      <3>1. Cur.aim \in Pokes /\ ~IsExist(mon, Cur.aim)
        BY <2>2 DEF Bench
      <3> QED BY <1>1, <1>2, <3>1, SwapLasts
    <2> QED BY <2>1, <2>2
  <1>5. CASE Escape
    BY <1>5 DEF Escape, Does
  <1>6. CASE MoveFails \/ Pursuit \/ FreeFallStart \/ SkyDropFalls \/ Rage
    BY <1>6, LastingMoves
  <1>7. CASE KingsShield \/ ThunderWave \/ Transform \/ GastroAcid \/ WorrySeed \/ ChangeWeather
    BY <1>7, OthersSteady, LastingAll
  <1> QED BY <1>3, <1>4, <1>5, <1>6, <1>7 DEF Action

LEMMA CoreSteady ==
    ASSUME BattleTyped, Core
    PROVE  AllSteady(mon, mon')
PROOF
  <1>1. mon \in Teams /\ \A p \in Pokes : mon[p] \in PokeParam
    BY DEF BattleTyped, Teams
  <1>2. CASE EventActProcEnd
    <2>1. ASSUME NEW p \in Pokes PROVE mon'[p] \in PokeParam /\ Steady(mon[p], mon'[p])
      <3>1. Steady(mon[p], mon[p]) /\ Steady(mon[p], ActProcEnd(mon[p]))
        BY <1>1, SteadySelf, AbilitiesReform, ReformedSteady
      <3>2. mon'[p] = mon[p] \/ mon'[p] = ActProcEnd(mon[p])
        BY <1>2 DEF EventActProcEnd
      <3> QED BY <3>1, <3>2 DEF Steady, Tied
    <2>2. mon' \in Teams
      BY <1>2, <2>1 DEF Teams, EventActProcEnd
    <2> QED BY <2>1, <2>2 DEF AllSteady
  <1>3. CASE Cancelled
    <2>1. stack # <<>> /\ Me \in Pokes /\ mon' = [mon EXCEPT ![Me] = [mon[Me] EXCEPT !.mamoru = 0]]
      BY <1>3, TopTyped DEF Cancelled, At
    <2>2. Steady(mon[Me], [mon[Me] EXCEPT !.mamoru = 0])
      BY <1>1, <2>1, RecordsSteady
    <2> QED BY <1>1, <2>1, <2>2, SteadyOne
  <1>4. CASE PursuitInterrupt \/ PursuitDone \/ ActionCheer \/ Missing \/ ActProcStart
    BY <1>1, <1>4, AllSteadySelf DEF PursuitInterrupt, PursuitDone, ActionCheer, Missing, ActProcStart
  <1> QED BY <1>2, <1>3, <1>4 DEF Core

LEMMA TurnCheckSteady ==
    ASSUME BattleTyped, TurnCheckDoneEvent
    PROVE  AllSteady(mon, mon')
PROOF
  <1>1. \A p \in Pokes : mon[p] \in PokeParam
    BY DEF BattleTyped
  <1>2. ASSUME NEW p \in Pokes PROVE mon'[p] \in PokeParam /\ Steady(mon[p], mon'[p])
    <2> DEFINE r == TurnCheckDone(mon[p])
    <2>1. r \in PokeParam /\ Steady(mon[p], r)
      <3>1. Steady(mon[p], r)
        BY <1>1, AbilitiesReform, ReformedSteady
      <3> QED BY <3>1 DEF Steady, Tied
    <2>2. mon'[p] = mon[p] \/ mon'[p] = [r EXCEPT !.protect = FALSE]
      BY DEF TurnCheckDoneEvent
    <2> HIDE DEF r
    <2>3. Steady(r, [r EXCEPT !.protect = FALSE])
      BY <2>1, RecordsSteady
    <2>4. Steady(mon[p], mon[p]) /\ Steady(mon[p], [r EXCEPT !.protect = FALSE])
      BY <1>1, <2>1, <2>3, SteadySelf, SteadyTwice
    <2> QED BY <2>2, <2>4 DEF Steady, Tied
  <1>3. mon' \in Teams
    BY <1>2 DEF Teams, TurnCheckDoneEvent
  <1> QED BY <1>2, <1>3 DEF AllSteady

LEMMA LastingEngine ==
    ASSUME BattleTyped, Lasting(mon), Engine
    PROVE  Lasting(mon')
PROOF
  <1>1. mon \in Teams /\ \A p \in Pokes : mon[p] \in PokeParam /\ mon[p].spot \in Spots
    BY DEF Lasting, Settled, Teams, PokeParam
  <1>2. CASE TurnCheckWeather
    <2> DEFINE m == [p \in Pokes |-> IF p \in Fielded /\ ~mon[p].sky
                                     THEN Wounded(mon[p], RecvWeatherDamage(p)) ELSE mon[p]]
    <2>1. ASSUME NEW p \in Pokes PROVE m[p] \in PokeParam /\ Tied(mon[p], m[p])
      <3>1. RecvWeatherDamage(p) \in Nat
        BY MaxHpAssumption DEF RecvWeatherDamage
      <3>2. Tied(mon[p], mon[p]) /\ Tied(mon[p], Wounded(mon[p], RecvWeatherDamage(p)))
        BY <1>1, <3>1, SteadySelf, WoundTies DEF Steady
      <3>3. m[p] = mon[p] \/ m[p] = Wounded(mon[p], RecvWeatherDamage(p))
        OBVIOUS
      <3> QED BY <3>2, <3>3 DEF Tied
    <2>2. m \in Teams
      BY <2>1 DEF Teams
    <2>3. mon' = mon \/ mon' = Faint(m)
      BY <1>2 DEF TurnCheckWeather
    <2> HIDE DEF m
    <2>4. Settled(m)
      BY <2>1, <2>2, SettledAll DEF Lasting
    <2> QED BY <2>3, <2>4, FaintLasts
  <1>3. CASE TurnCheckDoneEvent
    BY <1>3, TurnCheckSteady, LastingAll
  <1>4. CASE Refill
    <2>1. PICK p \in Pokes :
            \/ mon' = Leave(mon, p)
            \/ \E q \in Bench(Leave(mon, p), Team[p]) : mon' = Enter(Leave(mon, p), q, mon[p].spot)
      BY <1>4 DEF Refill, Fallen
    <2>2. Lasting(Leave(mon, p))
      BY LeaveLasts, ScenarioTyped DEF BattleTyped
    <2>3. ASSUME NEW q \in Bench(Leave(mon, p), Team[p]) PROVE Lasting(Enter(Leave(mon, p), q, mon[p].spot))
      BY <1>1, <2>2, EnterLasts DEF Bench
    <2> QED BY <2>1, <2>2, <2>3
  <1>5. CASE Choose \/ TurnStarts \/ ProcessAction \/ NextTurn
    BY <1>5 DEF Choose, TurnStarts, ProcessAction, NextTurn
  <1> QED BY <1>2, <1>3, <1>4, <1>5 DEF Engine

LEMMA LastingInit ==
    ASSUME Init
    PROVE  Lasting(mon)
PROOF
  <1>1. battle \in DOMAIN Scenarios /\ mon \in Teams /\ NoPoke \notin Pokes
    BY TypedInit, BattleAssumption DEF Init, BattleTyped, Teams
  <1>2. ASSUME NEW p \in Pokes
        PROVE  /\ ~mon[p].sky /\ ~mon[p].freefall /\ mon[p].holds = NoPoke
               /\ ~mon[p].rage /\ mon[p].atk = 0
    <2>1. Fresh(base[p]) /\ This.line[p] \in Spots
      BY <1>1, ScenarioTyped
    <2> DEFINE r == [base[p] EXCEPT !.spot = This.line[p]]
    <2>2. /\ r \in PokeParam /\ ~r.sky /\ ~r.freefall /\ r.holds = NoPoke /\ ~r.rage /\ r.atk = 0
      BY <2>1 DEF Fresh, PokeParam
    <2>3. mon[p] = base[p] \/ mon[p] = MemberInComp(MemberInEvo(r))
      BY DEF Init
    <2> HIDE DEF r
    <2> DEFINE e == MemberInEvo(r)
    <2>4. /\ e \in PokeParam /\ ~e.sky /\ ~e.freefall /\ e.holds = NoPoke /\ ~e.rage /\ e.atk = 0
      BY <2>2, AbilitiesReform, ReformedKeeps
    <2> HIDE DEF e
    <2> DEFINE c == MemberInComp(e)
    <2>5. ~c.sky /\ ~c.freefall /\ c.holds = NoPoke /\ ~c.rage /\ c.atk = 0
      BY <2>4, AbilitiesReform, ReformedKeeps
    <2>6. mon[p] = base[p] \/ mon[p] = c
      BY <2>3 DEF c, e
    <2> QED BY <2>1, <2>5, <2>6 DEF Fresh
  <1> QED BY <1>1, <1>2 DEF Lasting, Settled, Paired, Aloft, Calm

\* Sky Drop ties two and only two that live and are on the field, and nobody
\* stays in the sky alone, whoever faints, leaves or is hurt in between
\* (Section_FreeFall_Release); Rage builds only while Rage is the last move
\* decided on, and leaves the field with its user.
THEOREM LastingMovesTie == Spec => []LastingMovesHold
PROOF
  <1>1. Init => Lasting(mon)
    BY LastingInit
  <1>2. BattleTyped /\ TurnInv /\ Lasting(mon) /\ [Next]_vars => Lasting(mon)'
    <2> SUFFICES ASSUME BattleTyped, TurnInv, Lasting(mon), [Next]_vars PROVE Lasting(mon')
      BY DEF Lasting, Settled, Paired, Aloft, Calm, IsExist, Alive, Teams, PokeParam
    <2> QED BY CoreSteady, LastingAll, LastingAction, LastingEngine DEF Next, vars
  <1>3. BattleTyped /\ Lasting(mon) => LastingMovesHold
    BY LastingHolds
  <1> QED BY <1>1, <1>2, <1>3, TurnHolds, PTL DEF Spec

-------------------------------------------------------------------------------
(***************************************************************************)
(* Who is hit by the doubled Pursuit.                                      *)
(***************************************************************************)

\* No two stand on one spot.
SpotsApart(m) == \A p, q \in Pokes : IsExist(m, p) /\ m[p].spot = m[q].spot => p = q

LEMMA PlacesApart ==
    ASSUME NEW m, SpotsApart(m), NEW m2, SamePlaces(m, m2)
    PROVE  SpotsApart(m2)
BY DEF SpotsApart, SamePlaces, IsExist

LEMMA SteadyPlaces ==
    ASSUME NEW m, NEW m2, AllSteady(m, m2)
    PROVE  SamePlaces(m, m2) /\ \A p \in Pokes : m2[p].hp = m[p].hp
BY DEF AllSteady, Steady, Tied, SamePlaces

LEMMA LeaveHp ==
    ASSUME NEW m \in Teams, NEW p \in Pokes, \A q \in Pokes : Fresh(base[q])
    PROVE  \A q \in Pokes : Leave(m, p)[q].hp = m[q].hp
PROOF
  <1>1. {p} \in SUBSET Pokes /\ Rested(base[p], m[p]).hp = m[p].hp
    BY DEF Rested, Fresh, PokeParam
  <1>2. FreeFallRelease(m, {p}) \in Teams /\ \A q \in Pokes : FreeFallRelease(m, {p})[q].hp = m[q].hp
    BY ReleaseKeeps DEF SamePlaces
  <1> QED BY <1>1, <1>2 DEF Leave, Teams

LEMMA EnterHp ==
    ASSUME NEW m \in Teams, NEW q \in Pokes, NEW s \in Spots
    PROVE  \A p \in Pokes : Enter(m, q, s)[p].hp = m[p].hp
PROOF
  <1> DEFINE r  == [m[q] EXCEPT !.spot = s]
             m1 == [m EXCEPT ![q] = MemberInEvo(r)]
  <1>1. r \in PokeParam /\ r.hp = m[q].hp
    BY DEF Teams, PokeParam
  <1>2. MemberInEvo(r) \in PokeParam /\ MemberInEvo(r).hp = m[q].hp
    BY <1>1, AbilitiesReform, ReformedKeeps
  <1> HIDE DEF r
  <1>3. m1 \in Teams /\ \A p \in Pokes : m1[p].hp = m[p].hp
    BY <1>2 DEF Teams
  <1>4. Enter(m, q, s) = [p \in Pokes |-> IF m1[p].spot # NoSpot THEN MemberInComp(m1[p]) ELSE m1[p]]
    BY DEF Enter, r, m1
  <1> HIDE DEF m1
  <1>5. ASSUME NEW p \in Pokes PROVE MemberInComp(m1[p]).hp = m1[p].hp
    BY <1>3, AbilitiesReform, ReformedKeeps DEF Teams
  <1> QED BY <1>3, <1>4, <1>5

\* One goes, another takes its spot.
LEMMA SwapApart ==
    ASSUME BattleTyped, NEW m \in Teams, SpotsApart(m), NEW p \in Pokes,
           NEW q \in Pokes, ~IsExist(m, q) \/ q = p
    PROVE  /\ SpotsApart(Enter(Leave(m, p), q, m[p].spot))
           /\ \A x \in Pokes : Enter(Leave(m, p), q, m[p].spot)[x].hp = m[x].hp
PROOF
  <1>1. (\A x \in Pokes : Fresh(base[x])) /\ m[p].spot \in Spots
    BY ScenarioTyped DEF BattleTyped, Teams, PokeParam
  <1> DEFINE l == Leave(m, p)
             e == Enter(l, q, m[p].spot)
  <1>2. /\ l \in Teams /\ l[p].spot = NoSpot /\ \A x \in Pokes \ {p} : l[x].spot = m[x].spot
        /\ \A x \in Pokes : l[x].hp = m[x].hp
    BY <1>1, LeaveKeeps, LeaveHp
  <1> HIDE DEF l
  <1>3. /\ e[q].spot = m[p].spot /\ \A x \in Pokes \ {q} : e[x].spot = l[x].spot
        /\ \A x \in Pokes : e[x].hp = l[x].hp
    BY <1>1, <1>2, EnterKeeps, EnterHp
  <1> HIDE DEF e
  <1>4. ASSUME NEW x \in Pokes, NEW y \in Pokes, IsExist(e, x), e[x].spot = e[y].spot
        PROVE  x = y
    <2>1. CASE x = q \/ y = q
      <3>1. ASSUME NEW z \in Pokes, z # q, e[z].spot = m[p].spot, m[p].spot # NoSpot PROVE FALSE
        <4>1. l[z].spot = m[p].spot
          BY <1>3, <3>1
        <4>2. z # p /\ m[z].spot = m[p].spot
          BY <1>2, <3>1, <4>1
        <4> QED BY <3>1, <4>2 DEF SpotsApart, IsExist
      <3> QED BY <1>3, <1>4, <2>1, <3>1 DEF IsExist
    <2>2. CASE x # q /\ y # q
      <3>1. l[x].spot = l[y].spot /\ l[x].spot # NoSpot
        BY <1>3, <1>4, <2>2 DEF IsExist
      <3>2. x # p /\ y # p /\ m[x].spot = m[y].spot /\ m[x].spot # NoSpot
        BY <1>2, <3>1
      <3> QED BY <3>2 DEF SpotsApart, IsExist
    <2> QED BY <2>1, <2>2
  <1>5. SpotsApart(e) /\ \A x \in Pokes : e[x].hp = m[x].hp
    BY <1>2, <1>3, <1>4 DEF SpotsApart
  <1> QED BY <1>5 DEF e, l

\* A hit costs the target what it costs, and nobody else anything.
LEMMA HurtHp ==
    ASSUME NEW m \in Teams, NEW t \in Pokes, NEW d \in Nat
    PROVE  \A p \in Pokes : Hurt(m, t, d)[p].hp = IF p # t THEN m[p].hp
                                                  ELSE IF m[p].hp > d THEN m[p].hp - d ELSE 0
PROOF
  <1> DEFINE w  == Wounded(m[t], d)
             r  == [w EXCEPT !.atk = IF w.rage /\ w.hp > 0 /\ @ < RankCap THEN @ + 1 ELSE @]
             m1 == [m EXCEPT ![t] = r]
  <1>1. w \in PokeParam /\ w.hp = IF m[t].hp > d THEN m[t].hp - d ELSE 0
    <2>1. m[t] \in PokeParam
      BY DEF Teams
    <2>2. w.hp = IF m[t].hp > d THEN m[t].hp - d ELSE 0
      BY <2>1 DEF Wounded, PokeParam
    <2> QED BY <2>1, <2>2, WoundedTyped
  <1> HIDE DEF w
  <1>2. r \in PokeParam /\ r.hp = w.hp
    <2>1. (IF w.rage /\ w.hp > 0 /\ w.atk < RankCap THEN w.atk + 1 ELSE w.atk) \in 0 .. RankCap
      BY <1>1, BattleAssumption DEF PokeParam
    <2> QED BY <1>1, <2>1 DEF PokeParam
  <1> HIDE DEF r
  <1>3. m1 \in Teams /\ m1[t] = r /\ \A p \in Pokes \ {t} : m1[p] = m[p]
    BY <1>2 DEF Teams
  <1>4. Hurt(m, t, d) = Faint(m1)
    BY DEF Hurt, m1, r, w
  <1> HIDE DEF m1
  <1>5. \A p \in Pokes : Faint(m1)[p].hp = m1[p].hp
    BY <1>3, ReleaseKeeps DEF Faint
  <1> QED BY <1>1, <1>2, <1>3, <1>4, <1>5

\* What a step may cost that is no doubled hit.
Mild(m, m2) == \A p \in Pokes : m2[p].hp + 1 >= m[p].hp

LEMMA SteadyMild ==
    ASSUME NEW m \in Teams, NEW m2, AllSteady(m, m2)
    PROVE  Mild(m, m2)
PROOF
  <1>1. \A p \in Pokes : m2[p].hp = m[p].hp /\ m[p].hp \in Nat
    BY MaxHpAssumption DEF AllSteady, Steady, Teams, PokeParam
  <1> QED BY <1>1 DEF Mild

LEMMA HitCosts ==
    ASSUME BattleTyped, stack # <<>>, Reached, NEW d \in Nat
    PROVE  /\ Aim \in Pokes
           /\ \A p \in Pokes : /\ mon[p].hp \in Nat
                               /\ Hurt(Decided, Aim, d)[p].hp \in Nat
                               /\ p # Aim => Hurt(Decided, Aim, d)[p].hp = mon[p].hp
                               /\ Hurt(Decided, Aim, d)[p].hp + d >= mon[p].hp
           /\ d = 1 => Mild(mon, Hurt(Decided, Aim, d))
PROOF
  <1>1. mon \in Teams /\ AllSteady(mon, Decided) /\ Decided \in Teams /\ Aim \in Pokes
    BY DecidedSteady, ReachedAim DEF BattleTyped, Teams, AllSteady
  <1>2. \A p \in Pokes : Decided[p].hp = mon[p].hp /\ mon[p].hp \in Nat
    BY <1>1, MaxHpAssumption DEF AllSteady, Steady, Teams, PokeParam
  <1>3. \A p \in Pokes : Hurt(Decided, Aim, d)[p].hp =
          IF p # Aim THEN Decided[p].hp ELSE IF Decided[p].hp > d THEN Decided[p].hp - d ELSE 0
    BY <1>1, HurtHp
  <1> QED BY <1>1, <1>2, <1>3 DEF Mild

LEMMA MovesMild ==
    ASSUME BattleTyped, MoveFails \/ FreeFallStart \/ SkyDropFalls \/ Rage
    PROVE  Mild(mon, mon')
PROOF
  <1>1. stack # <<>>
    BY DEF MoveFails, FreeFallStart, SkyDropFalls, Rage, Using, At
  <1>2. Me \in Pokes /\ mon \in Teams /\ AllSteady(mon, Decided) /\ Decided \in Teams
    BY <1>1, TopTyped, DecidedSteady DEF BattleTyped, Teams, AllSteady
  <1>3. \A p \in Pokes : mon[p].hp \in Nat /\ Decided[p].hp = mon[p].hp
    BY <1>2, MaxHpAssumption DEF Teams, PokeParam, AllSteady, Steady
  <1>4. CASE MoveFails
    <2>1. PICK m \in {mon, Decided} : mon' = FreeFallRelease(m, {Me})
      BY <1>4 DEF MoveFails, Does
    <2>2. \A p \in Pokes : mon'[p].hp = m[p].hp
      BY <1>2, <2>1, ReleaseKeeps
    <2> QED BY <1>3, <2>2 DEF Mild
  <1>5. CASE FreeFallStart
    <2> DEFINE r  == [Decided[Me] EXCEPT !.sky = TRUE, !.holds = Aim]
               m1 == [Decided EXCEPT ![Me] = r]
               r2 == [m1[Aim] EXCEPT !.sky = TRUE, !.freefall = TRUE]
    <2>1. ASSUME Aim # NoPoke PROVE \A p \in Pokes : CarryOff(Decided, Me, Aim)[p].hp = Decided[p].hp
      <3>1. Aim \in Pokes
        BY <2>1, AimTyped
      <3>2. r \in PokeParam /\ r.hp = Decided[Me].hp
        BY <1>2, <3>1 DEF Teams, PokeParam
      <3> HIDE DEF r
      <3>3. m1 \in Teams /\ \A p \in Pokes : m1[p].hp = Decided[p].hp
        BY <1>2, <3>2 DEF Teams
      <3>4. CarryOff(Decided, Me, Aim) = [m1 EXCEPT ![Aim] = r2]
        BY DEF CarryOff, r
      <3> HIDE DEF m1
      <3>5. r2.hp = m1[Aim].hp
        BY <3>1, <3>3 DEF Teams, PokeParam
      <3> HIDE DEF r2
      <3> QED BY <3>3, <3>4, <3>5 DEF Teams
    <2>2. mon' = IF Aim # NoPoke /\ CanBeTaken(Aim) THEN CarryOff(Decided, Me, Aim) ELSE Decided
      BY <1>5 DEF FreeFallStart, Does
    <2>3. \A p \in Pokes : mon'[p].hp = Decided[p].hp
      BY <2>1, <2>2
    <2> QED BY <1>3, <2>3 DEF Mild
  <1>6. CASE SkyDropFalls
    <2> DEFINE t == mon[Me].holds
               m == FreeFallRelease(Decided, {Me})
    <2>1. t \in Pokes
      <3>1. mon[Me] \in PokeParam /\ t # NoPoke
        BY <1>2, <1>6 DEF SkyDropFalls, Teams
      <3> QED BY <3>1 DEF PokeParam
    <2>2. m \in Teams /\ \A p \in Pokes : m[p].hp = Decided[p].hp
      BY <1>2, ReleaseKeeps DEF SamePlaces
    <2>3. mon' = IF "Sky Drop" \in Immune[t] THEN m ELSE Hurt(m, t, 1)
      BY <1>6 DEF SkyDropFalls, Does
    <2> HIDE DEF m, t
    <2>4. \A p \in Pokes : Hurt(m, t, 1)[p].hp = IF p # t THEN m[p].hp
                                                 ELSE IF m[p].hp > 1 THEN m[p].hp - 1 ELSE 0
      BY <2>1, <2>2, HurtHp
    <2>5. Mild(mon, m) /\ Mild(mon, Hurt(m, t, 1))
      BY <1>3, <2>2, <2>4 DEF Mild
    <2> QED BY <2>3, <2>5
  <1>7. CASE Rage
    <2> DEFINE m == Hurt(Decided, Aim, 1)
    <2>1. ASSUME Reached PROVE Mild(mon, [m EXCEPT ![Me].rage = TRUE])
      <3>1. Mild(mon, m) /\ m \in Teams
        BY <1>1, <2>1, HitCosts, DecidedThenHurt
      <3> HIDE DEF m
      <3>2. \A p \in Pokes : [m EXCEPT ![Me].rage = TRUE][p].hp = m[p].hp
        BY <1>2, <3>1 DEF Teams, PokeParam
      <3> QED BY <3>1, <3>2 DEF Mild
    <2>2. mon' = IF Reached THEN [m EXCEPT ![Me].rage = TRUE] ELSE Decided
      BY <1>7 DEF Rage, Does
    <2> HIDE DEF m
    <2> QED BY <1>2, <2>1, <2>2, SteadyMild
  <1> QED BY <1>4, <1>5, <1>6, <1>7

\* A doubled hit is one of an interrupting Pursuit, on what it is aimed at.
LEMMA ActionStrikes ==
    ASSUME BattleTyped, Action, NEW p \in Pokes, mon'[p].hp + 2 <= mon[p].hp
    PROVE  Pursuit /\ Cur.oiuti /\ Reached /\ p = Aim
PROOF
  <1>1. stack # <<>> /\ Top.at = "action" /\ Me \in Pokes
    BY ActionKeeps, TopTyped
  <1>2. /\ mon \in Teams /\ mon[Me].spot \in Spots /\ mon[p].hp \in Nat
        /\ mon'[p] \in PokeParam /\ mon'[p].hp \in Nat
    <2>1. mon \in Teams /\ mon' \in Teams
      BY ActionKeeps DEF BattleTyped, Teams, OnlyMeLeaves
    <2> QED BY <1>1, <2>1, MaxHpAssumption DEF Teams, PokeParam
  <1>3. ~Mild(mon, mon')
    BY <1>2 DEF Mild
  <1>4. ~(MoveFails \/ FreeFallStart \/ SkyDropFalls \/ Rage)
    BY <1>3, MovesMild
  <1>5. ~(KingsShield \/ ThunderWave \/ Transform \/ GastroAcid \/ WorrySeed \/ ChangeWeather)
    BY <1>2, <1>3, OthersSteady, SteadyMild
  <1>6. Mild(mon, mon) /\ Mild(mon, Decided)
    BY <1>1, <1>2, DecidedSteady, AllSteadySelf, SteadyMild
  <1>7. ASSUME NEW m \in Teams, Mild(mon, m), NEW q \in Pokes
        PROVE  Mild(mon, Enter(Leave(m, Me), q, mon[Me].spot))
    <2>1. \A x \in Pokes : Fresh(base[x])
      BY ScenarioTyped DEF BattleTyped
    <2>2. Leave(m, Me) \in Teams /\ \A x \in Pokes : Leave(m, Me)[x].hp = m[x].hp
      BY <1>1, <2>1, LeaveKeeps, LeaveHp
    <2>3. \A x \in Pokes : Enter(Leave(m, Me), q, mon[Me].spot)[x].hp = m[x].hp
      BY <1>2, <2>2, EnterHp
    <2> QED BY <1>7, <2>3 DEF Mild
  <1>8. ~HitAndLeave
    <2> SUFFICES ASSUME HitAndLeave PROVE FALSE
      OBVIOUS
    <2> DEFINE hit == Hurt(Decided, Aim, 1)
    <2>1. ASSUME Reached PROVE Mild(mon, hit) /\ hit \in Teams
      BY <1>1, <2>1, HitCosts, DecidedThenHurt
    <2>2. \/ mon' = Decided \/ (Reached /\ mon' = hit)
          \/ Reached /\ \E q \in Bench(mon, Team[Me]) : mon' = Enter(Leave(hit, Me), q, mon[Me].spot)
      BY DEF HitAndLeave, Does
    <2> HIDE DEF hit
    <2>3. Bench(mon, Team[Me]) \subseteq Pokes
      BY DEF Bench
    <2> QED BY <1>3, <1>6, <1>7, <2>1, <2>2, <2>3
  <1>9. ~PokeChange
    <2>1. Bench(mon, Team[Me]) \subseteq Pokes
      BY DEF Bench
    <2> QED BY <1>2, <1>3, <1>6, <1>7, <2>1 DEF PokeChange, Does
  <1>10. ~Escape
    BY <1>3, <1>6 DEF Escape, Does
  <1>11. Pursuit
    BY <1>4, <1>5, <1>8, <1>9, <1>10 DEF Action
  <1>12. mon' = IF Reached THEN Hurt(Decided, Aim, IF Cur.oiuti THEN 2 ELSE 1) ELSE Decided
    BY <1>11 DEF Pursuit, Does
  <1>13. Reached /\ Cur.oiuti
    BY <1>1, <1>3, <1>6, <1>12, HitCosts
  <1>14. p = Aim
    <2>1. mon' = Hurt(Decided, Aim, 2)
      BY <1>12, <1>13
    <2>2. p # Aim => mon'[p].hp = mon[p].hp
      BY <1>1, <1>13, <2>1, HitCosts
    <2> QED BY <1>2, <2>2
  <1> QED BY <1>11, <1>13, <1>14

\* The weather costs a sixteenth.
LEMMA WeatherMild ==
    ASSUME BattleTyped, TurnCheckWeather, MaxHp < 32
    PROVE  Mild(mon, mon')
PROOF
  <1> DEFINE m == [p \in Pokes |-> IF p \in Fielded /\ ~mon[p].sky
                                   THEN Wounded(mon[p], RecvWeatherDamage(p)) ELSE mon[p]]
  <1>1. mon \in Teams /\ \A p \in Pokes : mon[p] \in PokeParam /\ mon[p].hp \in Nat
    BY MaxHpAssumption DEF BattleTyped, Teams, PokeParam
  <1>2. ASSUME NEW p \in Pokes PROVE RecvWeatherDamage(p) \in {0, 1}
    <2>1. MaxHp \div 16 \in {0, 1}
      BY MaxHpAssumption
    <2> QED BY <2>1 DEF RecvWeatherDamage
  <1>3. ASSUME NEW p \in Pokes
        PROVE  m[p] \in PokeParam /\ m[p].hp + 1 >= mon[p].hp
    <2> DEFINE d == RecvWeatherDamage(p)
    <2>1. d \in {0, 1}
      BY <1>2
    <2>2. m[p] = mon[p] \/ m[p] = Wounded(mon[p], d)
      OBVIOUS
    <2> HIDE DEF m, d
    <2>3. Wounded(mon[p], d) \in PokeParam
      BY <1>1, <2>1, WoundedTyped
    <2>4. Wounded(mon[p], d).hp = IF mon[p].hp > d THEN mon[p].hp - d ELSE 0
      BY <1>1 DEF Wounded, PokeParam
    <2> QED BY <1>1, <2>1, <2>2, <2>3, <2>4
  <1>4. m \in Teams
    BY <1>3 DEF Teams
  <1>5. mon' = mon \/ mon' = Faint(m)
    BY DEF TurnCheckWeather
  <1> HIDE DEF m
  <1>6. \A p \in Pokes : Faint(m)[p].hp = m[p].hp
    BY <1>4, ReleaseKeeps DEF Faint
  <1>7. Mild(mon, Faint(m)) /\ Mild(mon, mon)
    BY <1>1, <1>3, <1>6 DEF Mild
  <1> QED BY <1>5, <1>7

\* Only a Pursuit that interrupts is aimed at the one that leaves, and it is
\* done from then on; while it runs, that one stays where it was.
OiutiInv(q, st, m) ==
    /\ \A k \in DOMAIN q : q[k].oiuti => q[k].fDone
    /\ Len(st) >= 1 => ~q[st[1].act].oiuti
    /\ Len(st) >= 2 => q[st[2].act].pos = m[q[st[1].act].poke].spot

StruckInv == SpotsApart(mon) /\ OiutiInv(queue, stack, mon)

\* The activations go on or end, and nobody moves.
LEMMA OiutiStays ==
    ASSUME BattleTyped, TurnInv, stack # <<>>, OiutiInv(queue, stack, mon), queue' = queue,
           SamePlaces(mon, mon'),
           Return \/ \E at \in Places : Goto(at)
    PROVE  OiutiInv(queue', stack', mon')
PROOF
  <1>1. Len(stack) \in Nat \ {0} /\ Len(stack) <= 2 /\ DOMAIN stack = 1 .. Len(stack)
    <2>1. Len(stack) \in Nat \ {0} /\ DOMAIN stack = 1 .. Len(stack)
      BY TopTyped, LenProperties DEF BattleTyped
    <2> QED BY <2>1 DEF TurnInv, NestInv
  <1>2. /\ Len(stack') \in Nat /\ Len(stack') <= Len(stack) /\ DOMAIN stack' = 1 .. Len(stack')
        /\ \A k \in DOMAIN stack' : k \in DOMAIN stack /\ stack'[k].act = stack[k].act
    <2>1. CASE Return
      BY <1>1, <2>1, ReturnKeeps, LenProperties
    <2>2. CASE \E at \in Places : Goto(at)
      BY <1>1, <2>2, GotoKeeps, LenProperties
    <2> QED BY <2>1, <2>2
  <1>3. ASSUME NEW k \in DOMAIN stack PROVE queue[stack[k].act].poke \in Pokes
    <2>1. queue[stack[k].act] \in Doing
      BY ElementOfSeq DEF BattleTyped
    <2> QED BY <2>1 DEF Doing
  <1>4. Len(stack') >= 1 => stack'[1].act = stack[1].act
    BY <1>2
  <1>5. Len(stack') >= 2 => /\ stack'[2].act = stack[2].act
                            /\ mon'[queue[stack[1].act].poke].spot = mon[queue[stack[1].act].poke].spot
    BY <1>1, <1>2, <1>3 DEF SamePlaces
  <1> QED BY <1>1, <1>2, <1>4, <1>5 DEF OiutiInv

LEMMA StruckInterrupt ==
    ASSUME BattleTyped, TurnInv, StruckInv, PursuitInterrupt
    PROVE  OiutiInv(queue', stack', mon)
PROOF
  <1>1. stack # <<>> /\ Top.at = "PursuitProcess"
    BY DEF PursuitInterrupt, At
  <1>2. PICK j \in Ahead :
            IF queue[j].encore
            THEN stack' = LoopPast(j) /\ queue' = queue
            ELSE Enters(j, AimedAtLeaver(j), LoopPast(j))
    BY DEF PursuitInterrupt
  <1>3. /\ Len(stack) = 1 /\ Top = stack[1] /\ DOMAIN stack = 1 .. 1
        /\ Top.act \in DOMAIN queue /\ queue[Top.act].fDone /\ ~queue[Top.act].oiuti
    <2>1. Len(stack) = 1 /\ Top = stack[1] /\ DOMAIN stack = 1 .. 1 /\ Top.act \in DOMAIN queue
      BY <1>1, AheadOutermost, TopTyped, LenProperties DEF Top, BattleTyped
    <2>2. FrameInv(Top, queue, mon, acted) /\ ~queue[Top.act].oiuti
      BY <2>1 DEF TurnInv, StruckInv, OiutiInv
    <2> QED BY <2>1, <2>2 DEF FrameInv
  <1>4. /\ j \in DOMAIN queue
        /\ AimedAtLeaver(j) \in Seq(Doing) /\ DOMAIN AimedAtLeaver(j) = DOMAIN queue
        /\ \A k \in DOMAIN queue : k # j => AimedAtLeaver(j)[k] = queue[k]
        /\ AimedAtLeaver(j)[j].pos = mon[Me].spot
        /\ LoopPast(j) \in Seq(Frame) /\ DOMAIN LoopPast(j) = DOMAIN stack
        /\ Len(LoopPast(j)) = Len(stack)
        /\ \A k \in DOMAIN stack : LoopPast(j)[k].act = stack[k].act
    BY <1>1, InterruptKeeps
  <1>5. CASE queue[j].encore
    <2>1. stack' = LoopPast(j) /\ queue' = queue
      BY <1>2, <1>5
    <2>2. Len(stack') = 1 /\ stack'[1].act = stack[1].act
      BY <1>3, <1>4, <2>1
    <2> QED BY <1>3, <2>1, <2>2 DEF StruckInv, OiutiInv
  <1>6. CASE ~queue[j].encore
    <2> DEFINE q == AimedAtLeaver(j)
               st == LoopPast(j)
    <2>1. Enters(j, q, st) /\ q \in Seq(Doing) /\ st \in Seq(Frame) /\ j \in DOMAIN q
      BY <1>2, <1>4, <1>6
    <2>2. ~queue[j].fDone
      BY DEF Ahead, Pursues
    <2>3. q[j] \in Doing
      BY <2>1, ElementOfSeq
    <2> HIDE DEF q, st
    <2>4. /\ DOMAIN queue' = DOMAIN q
          /\ queue'[j] = [q[j] EXCEPT !.fDone = TRUE]
          /\ \A k \in DOMAIN q : k # j => queue'[k] = q[k]
          /\ Len(stack') = Len(st) + 1
          /\ \A k \in DOMAIN st : k \in DOMAIN stack' /\ stack'[k] = st[k]
          /\ stack'[Len(st) + 1] = [act |-> j, at |-> "PursuitProcess", i |-> 1]
      BY <2>1, EntersKeeps
    <2>5. queue'[j].fDone /\ queue'[j].pos = mon[Me].spot
      <3>1. queue'[j].fDone /\ queue'[j].pos = q[j].pos
        BY <2>3, <2>4 DEF Doing
      <3> QED BY <1>4, <3>1 DEF q
    <2>6. /\ DOMAIN queue' = DOMAIN queue
          /\ \A k \in DOMAIN queue : k # j => queue'[k] = queue[k]
      BY <1>4, <2>4 DEF q
    <2>7. /\ stack'[1].act = Top.act /\ stack'[2].act = j /\ Len(stack') = 2
      BY <1>3, <1>4, <2>4 DEF st
    <2>8. j # Top.act
      BY <1>3, <2>2
    <2>9. queue'[Top.act] = queue[Top.act] /\ Me = queue'[Top.act].poke
      BY <1>3, <2>6, <2>8 DEF Me, Cur
    <2>10. \A k \in DOMAIN queue' : queue'[k].oiuti => queue'[k].fDone
      BY <2>5, <2>6 DEF StruckInv, OiutiInv
    <2> QED BY <1>3, <2>5, <2>7, <2>9, <2>10 DEF OiutiInv
  <1> QED BY <1>5, <1>6

LEMMA StruckCore ==
    ASSUME BattleTyped, TurnInv, StruckInv, Core
    PROVE  StruckInv'
PROOF
  <1>1. SamePlaces(mon, mon') /\ SpotsApart(mon')
    BY CoreSteady, SteadyPlaces, PlacesApart DEF StruckInv
  <1>2. stack # <<>>
    BY DEF Core, PursuitInterrupt, PursuitDone, ActionCheer, Missing, Cancelled, ActProcStart,
           EventActProcEnd, At
  <1>3. CASE PursuitInterrupt
    <2>1. mon' = mon
      BY <1>3 DEF PursuitInterrupt
    <2> QED BY <1>1, <1>3, <2>1, StruckInterrupt DEF StruckInv
  <1>4. CASE PursuitDone \/ ActionCheer \/ Missing \/ Cancelled \/ ActProcStart \/ EventActProcEnd
    <2>1. queue' = queue /\ (Return \/ \E at \in Places : Goto(at))
      BY <1>4 DEF PursuitDone, ActionCheer, Missing, Cancelled, ActProcStart, EventActProcEnd, Places
    <2>2. OiutiInv(queue', stack', mon')
      BY <1>1, <1>2, <2>1, OiutiStays DEF StruckInv
    <2> QED BY <1>1, <2>2 DEF StruckInv
  <1> QED BY <1>3, <1>4 DEF Core

\* An interrupting Pursuit moves nobody.
LEMMA InnerStays ==
    ASSUME BattleTyped, TurnInv, Action, Len(stack) >= 2
    PROVE  SamePlaces(mon, mon')
PROOF
  <1>1. stack # <<>> /\ Top.at = "action"
    BY ActionKeeps
  <1>2. Cur.cat = "Fight" /\ Cur.waza = "Pursuit"
    BY DEF TurnInv, NestInv, Cur, Top
  <1>3. ~(HitAndLeave \/ PokeChange \/ Escape)
    BY <1>2 DEF HitAndLeave, PokeChange, Escape, Escaping
  <1> QED BY <1>1, <1>3, MovesStay DEF Action

LEMMA StruckAction ==
    ASSUME BattleTyped, TurnInv, StruckInv, Action
    PROVE  StruckInv'
PROOF
  <1>1. /\ stack # <<>> /\ Top.at = "action" /\ Me \in Pokes /\ queue' = queue
        /\ \/ Goto("end") \/ stack' = <<>>
        /\ mon \in Teams /\ SpotsApart(mon)
    BY ActionKeeps, TopTyped DEF StruckInv, BattleTyped, Teams
  <1>2. SpotsApart(mon')
    <2>1. CASE SamePlaces(mon, mon')
      BY <1>1, <2>1, PlacesApart
    <2>2. CASE HitAndLeave /\ ~SamePlaces(mon, mon')
      <3> DEFINE hit == Hurt(Decided, Aim, 1)
      <3>1. Reached
        BY <1>1, <2>2, DecidedKeeps DEF HitAndLeave, Does
      <3>2. SamePlaces(mon, hit) /\ hit \in Teams
        BY <1>1, <3>1, DecidedThenHurt
      <3>3. PICK q \in Bench(mon, Team[Me]) : mon' = Enter(Leave(hit, Me), q, mon[Me].spot)
        BY <2>2, <3>1, <3>2 DEF HitAndLeave, Does
      <3> HIDE DEF hit
      <3>4. q \in Pokes /\ ~IsExist(hit, q) /\ mon[Me].spot = hit[Me].spot
        BY <1>1, <3>2 DEF Bench, IsExist, SamePlaces
      <3>5. SpotsApart(hit)
        BY <1>1, <3>2, PlacesApart
      <3>6. SpotsApart(Enter(Leave(hit, Me), q, hit[Me].spot))
        BY <1>1, <3>2, <3>4, <3>5, SwapApart
      <3> QED BY <3>3, <3>4, <3>6
    <2>3. CASE PokeChange /\ ~SamePlaces(mon, mon')
      <3>1. SamePlaces(mon, mon)
        BY <1>1 DEF SamePlaces
      <3>2. /\ Cur.aim \in Bench(mon, Team[Me])
            /\ mon' = Enter(Leave(mon, Me), Cur.aim, mon[Me].spot)
        BY <2>3, <3>1 DEF PokeChange, Does
      <3>3. Cur.aim \in Pokes /\ ~IsExist(mon, Cur.aim)
        BY <3>2 DEF Bench
      <3> QED BY <1>1, <3>2, <3>3, SwapApart
    <2>4. CASE Escape
      BY <1>1, <2>4 DEF Escape, Does
    <2> QED BY <1>1, <2>1, <2>2, <2>3, <2>4, MovesStay DEF Action
  <1>3. OiutiInv(queue', stack', mon')
    <2>1. CASE stack' = <<>>
      <3>1. Len(stack') = 0
        BY <2>1, EmptySeq
      <3> QED BY <1>1, <3>1 DEF StruckInv, OiutiInv
    <2>2. CASE Goto("end") /\ SamePlaces(mon, mon')
      BY <1>1, <2>2, OiutiStays DEF StruckInv, Places
    <2>3. CASE Goto("end") /\ ~SamePlaces(mon, mon')
      <3>1. Len(stack) = 1 /\ DOMAIN stack = 1 .. 1
        <4>1. Len(stack) \in Nat \ {0} /\ DOMAIN stack = 1 .. Len(stack)
          BY <1>1, TopTyped, LenProperties DEF BattleTyped
        <4>2. ~(Len(stack) >= 2)
          BY <2>3, InnerStays
        <4> QED BY <4>1, <4>2
      <3>2. Len(stack') = 1 /\ stack'[1].act = stack[1].act
        BY <1>1, <2>3, <3>1, GotoKeeps, GotoTop DEF Places, Top
      <3> QED BY <1>1, <3>1, <3>2 DEF StruckInv, OiutiInv
    <2> QED BY <1>1, <2>1, <2>2, <2>3
  <1> QED BY <1>2, <1>3 DEF StruckInv

LEMMA StruckEngine ==
    ASSUME BattleTyped, TurnInv, StruckInv, Engine
    PROVE  StruckInv'
PROOF
  <1>1. mon \in Teams /\ SpotsApart(mon) /\ OiutiInv(queue, stack, mon)
    BY DEF StruckInv, BattleTyped, Teams
  <1>2. phase # "act" => stack = <<>>
    BY DEF BattleTyped
  <1>3. ASSUME stack' = <<>>, \A k \in DOMAIN queue' : queue'[k].oiuti => queue'[k].fDone, NEW m
        PROVE  OiutiInv(queue', stack', m)
    <2>1. Len(stack') = 0
      BY <1>3, EmptySeq
    <2> QED BY <1>3, <2>1 DEF OiutiInv
  <1>4. CASE Choose
    <2>1. PICK p \in Waiting : \E c \in This.options[p] :
            queue' = Append(queue,
               [poke |-> p, cat |-> c.cat, waza |-> c.waza, aim |-> c.aim, encore |-> c.encore,
                fDone |-> FALSE, oiuti |-> FALSE,
                pos |-> IF c.cat = "Fight" /\ c.aim # NoPoke THEN mon[c.aim].spot ELSE NoSpot])
      BY <1>4 DEF Choose
    <2>2. PICK c \in This.options[p] :
            queue' = Append(queue,
               [poke |-> p, cat |-> c.cat, waza |-> c.waza, aim |-> c.aim, encore |-> c.encore,
                fDone |-> FALSE, oiuti |-> FALSE,
                pos |-> IF c.cat = "Fight" /\ c.aim # NoPoke THEN mon[c.aim].spot ELSE NoSpot])
      BY <2>1
    <2> DEFINE r == [poke |-> p, cat |-> c.cat, waza |-> c.waza, aim |-> c.aim, encore |-> c.encore,
                     fDone |-> FALSE, oiuti |-> FALSE,
                     pos |-> IF c.cat = "Fight" /\ c.aim # NoPoke THEN mon[c.aim].spot ELSE NoSpot]
    <2>3. ~r.oiuti /\ queue' = Append(queue, r)
      BY <2>2
    <2> HIDE DEF r
    <2>4. r \in {r} /\ queue \in Seq(Doing \cup {r})
      <3>1. queue \in Seq(Doing) /\ Doing \subseteq Doing \cup {r}
        BY DEF BattleTyped
      <3> QED BY <3>1, ElementOfSeq, SeqDef DEF BattleTyped
    <2>5. /\ queue' \in Seq(Doing \cup {r}) /\ Len(queue') = Len(queue) + 1
          /\ \A k \in 1 .. Len(queue) : queue'[k] = queue[k]
          /\ queue'[Len(queue) + 1] = r
      BY <2>3, <2>4, AppendProperties
    <2>6. \A k \in DOMAIN queue' : k \in DOMAIN queue \/ k = Len(queue) + 1
      BY <2>4, <2>5, LenProperties
    <2>7. \A k \in DOMAIN queue : queue'[k] = queue[k]
      BY <2>4, <2>5, LenProperties
    <2>8. \A k \in DOMAIN queue' : queue'[k].oiuti => queue'[k].fDone
      BY <1>1, <2>3, <2>5, <2>6, <2>7 DEF OiutiInv
    <2>9. stack' = <<>> /\ mon' = mon
      BY <1>2, <1>4 DEF Choose
    <2>10. OiutiInv(queue', stack', mon')
      BY <1>3, <2>8, <2>9
    <2> QED BY <1>1, <2>9, <2>10 DEF StruckInv
  <1>5. CASE TurnStarts
    <2>1. stack' = <<>> /\ mon' = mon /\ queue' = queue
      BY <1>2, <1>5 DEF TurnStarts
    <2>2. OiutiInv(queue', stack', mon')
      BY <1>1, <1>3, <2>1 DEF OiutiInv
    <2> QED BY <1>1, <2>1, <2>2 DEF StruckInv
  <1>6. CASE ProcessAction
    <2>1. /\ stack = <<>> /\ next \in DOMAIN queue /\ Calls(next) /\ mon' = mon /\ queue \in Seq(Doing)
      BY <1>6, LenProperties DEF ProcessAction, BattleTyped
    <2>2. CASE queue[next].fDone
      <3>1. stack' = <<>> /\ queue' = queue
        BY <2>1, <2>2 DEF Calls
      <3>2. OiutiInv(queue', stack', mon')
        BY <1>1, <1>3, <3>1 DEF OiutiInv
      <3> QED BY <1>1, <2>1, <3>2 DEF StruckInv
    <2>3. CASE ~queue[next].fDone
      <3>0. Len(stack) = 0
        BY <2>1, EmptySeq
      <3>1. /\ Enters(next, queue, stack) /\ stack \in Seq(Frame) /\ Len(stack) \in Nat
            /\ queue \in Seq(Doing) /\ next \in DOMAIN queue
        BY <2>1, <2>3, LenProperties DEF Calls, BattleTyped
      <3>2. /\ DOMAIN queue' = DOMAIN queue
            /\ queue'[next] = [queue[next] EXCEPT !.fDone = TRUE]
            /\ \A j \in DOMAIN queue : j # next => queue'[j] = queue[j]
            /\ Len(stack') = Len(stack) + 1
            /\ stack'[Len(stack) + 1] = [act |-> next, at |-> "PursuitProcess", i |-> 1]
        BY <3>1, EntersKeeps
      <3>3. queue[next] \in Doing
        BY <2>1, ElementOfSeq
      <3>4. queue'[next].fDone /\ queue'[next].oiuti = queue[next].oiuti
        BY <3>2, <3>3 DEF Doing
      <3>5. ~queue[next].oiuti
        BY <1>1, <2>1, <2>3 DEF OiutiInv
      <3>6. Len(stack') = 1 /\ stack'[1].act = next
        BY <3>0, <3>2
      <3>7. \A k \in DOMAIN queue' : queue'[k].oiuti => queue'[k].fDone
        BY <1>1, <3>2, <3>4 DEF OiutiInv
      <3>8. OiutiInv(queue', stack', mon')
        BY <3>4, <3>5, <3>6, <3>7 DEF OiutiInv
      <3> QED BY <1>1, <2>1, <3>8 DEF StruckInv
    <2> QED BY <2>2, <2>3
  <1>7. CASE TurnCheckWeather \/ TurnCheckDoneEvent \/ Refill
    <2>1. stack' = <<>> /\ queue' = queue
      BY <1>2, <1>7 DEF TurnCheckWeather, TurnCheckDoneEvent, Refill
    <2>2. OiutiInv(queue', stack', mon')
      BY <1>1, <1>3, <2>1 DEF OiutiInv
    <2>3. CASE TurnCheckWeather
      BY <1>1, <2>2, <2>3, WeatherStays, PlacesApart DEF StruckInv
    <2>4. CASE TurnCheckDoneEvent
      BY <1>1, <2>2, <2>4, TurnCheckSteady, SteadyPlaces, PlacesApart DEF StruckInv
    <2>5. CASE Refill
      <3>1. PICK p \in Pokes :
              \/ mon' = Leave(mon, p)
              \/ \E q \in Bench(Leave(mon, p), Team[p]) : mon' = Enter(Leave(mon, p), q, mon[p].spot)
        BY <2>5 DEF Refill, Fallen
      <3>2. /\ Leave(mon, p)[p].spot = NoSpot
            /\ \A x \in Pokes \ {p} : Leave(mon, p)[x].spot = mon[x].spot
        BY <1>1, LeaveKeeps, ScenarioTyped DEF BattleTyped
      <3>3. SpotsApart(Leave(mon, p))
        BY <1>1, <3>2 DEF SpotsApart, IsExist
      <3>4. ASSUME NEW q \in Bench(Leave(mon, p), Team[p])
            PROVE  SpotsApart(Enter(Leave(mon, p), q, mon[p].spot))
        <4>1. q \in Pokes /\ (~IsExist(mon, q) \/ q = p)
          BY <3>2 DEF Bench, IsExist
        <4> QED BY <1>1, <4>1, SwapApart
      <3> QED BY <2>2, <3>1, <3>3, <3>4 DEF StruckInv
    <2> QED BY <1>7, <2>3, <2>4, <2>5
  <1>8. CASE NextTurn
    <2>1. stack' = <<>> /\ queue' = <<>> /\ mon' = mon
      BY <1>2, <1>8 DEF NextTurn
    <2>2. DOMAIN queue' = {}
      BY <2>1, EmptySeq, LenProperties
    <2>3. OiutiInv(queue', stack', mon')
      BY <1>3, <2>1, <2>2
    <2> QED BY <1>1, <2>1, <2>3 DEF StruckInv
  <1> QED BY <1>4, <1>5, <1>6, <1>7, <1>8 DEF Engine

LEMMA StruckInit ==
    ASSUME Init
    PROVE  StruckInv
PROOF
  <1>1. battle \in DOMAIN Scenarios /\ DOMAIN queue = {} /\ Len(stack) = 0
    BY EmptySeq, LenProperties DEF Init
  <1>2. ASSUME NEW p \in Pokes PROVE mon[p].spot = This.line[p]
    <2>1. Fresh(base[p]) /\ This.line[p] \in Spots
      BY <1>1, ScenarioTyped
    <2> DEFINE r == [base[p] EXCEPT !.spot = This.line[p]]
    <2>2. r \in PokeParam /\ r.spot = This.line[p]
      BY <2>1 DEF Fresh, PokeParam
    <2>3. mon[p] = IF This.line[p] = NoSpot THEN base[p] ELSE MemberInComp(MemberInEvo(r))
      BY DEF Init
    <2> HIDE DEF r
    <2> DEFINE e == MemberInEvo(r)
    <2>4. e \in PokeParam /\ e.spot = This.line[p]
      BY <2>2, AbilitiesReform, ReformedKeeps
    <2> HIDE DEF e
    <2>5. MemberInComp(e).spot = This.line[p]
      BY <2>4, AbilitiesReform, ReformedKeeps
    <2>6. base[p].spot = NoSpot
      BY <2>1 DEF Fresh
    <2> QED BY <2>3, <2>5, <2>6 DEF e
  <1>3. \A p, q \in Pokes : This.line[p] = This.line[q] /\ This.line[p] # NoSpot => p = q
    BY <1>1, BattleAssumption DEF This
  <1>4. SpotsApart(mon)
    BY <1>2, <1>3 DEF SpotsApart, IsExist
  <1> QED BY <1>1, <1>4 DEF StruckInv, OiutiInv

LEMMA StruckHolds == Spec => [](BattleTyped /\ TurnInv /\ StruckInv)
PROOF
  <1>1. Init => BattleTyped /\ TurnInv /\ StruckInv
    BY TypedInit, TurnInit, StruckInit
  <1>2. (BattleTyped /\ TurnInv /\ StruckInv) /\ [Next]_vars => (BattleTyped /\ TurnInv /\ StruckInv)'
    <2> SUFFICES ASSUME BattleTyped, TurnInv, StruckInv, [Next]_vars
                 PROVE  BattleTyped' /\ TurnInv' /\ StruckInv'
      OBVIOUS
    <2>1. CASE UNCHANGED vars
      <3>1. UNCHANGED <<queue, stack, mon>>
        BY <2>1 DEF vars
      <3> QED BY <3>1, TypedStep, TurnStep DEF StruckInv
    <2> QED BY <2>1, TypedStep, TurnStep, StruckCore, StruckAction, StruckEngine DEF Next
  <1> QED BY <1>1, <1>2, PTL DEF Spec

\* Twice the strength falls on nobody but the Pokemon that is leaving, while its
\* own action waits for the Pursuit (HandlerPursuitWazaPower): an interrupting
\* Pursuit is aimed at the spot of the leaver, which nobody else can have.  A hit
\* of the model costs one hit point; the weather, a sixteenth of all, stays
\* below two as long as there are less than 32.
THEOREM StrikesOnTheWay ==
    ASSUME MaxHp < 32
    PROVE  Spec => StruckOnItsWay
PROOF
  <1> DEFINE Struck == \A p \in Pokes : mon'[p].hp + 2 <= mon[p].hp =>
                         Len(stack) = 2 /\ queue[stack[1].act].poke = p
  <1>1. BattleTyped /\ TurnInv /\ StruckInv /\ [Next]_vars => Struck
    <2> SUFFICES ASSUME BattleTyped, TurnInv, StruckInv, [Next]_vars,
                        NEW p \in Pokes, mon'[p].hp + 2 <= mon[p].hp
                 PROVE  Len(stack) = 2 /\ queue[stack[1].act].poke = p
      OBVIOUS
    <2>1. mon \in Teams /\ \A x \in Pokes : mon[x].hp \in Nat
      BY MaxHpAssumption DEF BattleTyped, Teams, PokeParam
    <2>2. mon'[p].hp # mon[p].hp /\ ~Mild(mon, mon')
      <3>1. mon' \in Teams
        BY TypedStep DEF BattleTyped, Teams
      <3>2. mon'[p].hp \in Nat
        BY <3>1, MaxHpAssumption DEF Teams, PokeParam
      <3> QED BY <2>1, <3>2 DEF Mild
    <2>3. ~Core
      BY <2>2, CoreSteady, SteadyPlaces
    <2>4. ~Engine
      <3>1. ~TurnCheckWeather
        BY <2>2, WeatherMild
      <3>2. ~TurnCheckDoneEvent
        BY <2>2, TurnCheckSteady, SteadyPlaces
      <3>3. ~Refill
        <4> SUFFICES ASSUME Refill PROVE FALSE
          OBVIOUS
        <4>1. PICK x \in Pokes :
                \/ mon' = Leave(mon, x)
                \/ \E q \in Bench(Leave(mon, x), Team[x]) : mon' = Enter(Leave(mon, x), q, mon[x].spot)
          BY DEF Refill, Fallen
        <4>2. /\ Leave(mon, x) \in Teams /\ Leave(mon, x)[p].hp = mon[p].hp /\ mon[x].spot \in Spots
          BY <2>1, LeaveKeeps, LeaveHp, ScenarioTyped DEF BattleTyped, PokeParam
        <4>3. \A q \in Bench(Leave(mon, x), Team[x]) : Enter(Leave(mon, x), q, mon[x].spot)[p].hp = mon[p].hp
          BY <4>2, EnterHp DEF Bench
        <4> QED BY <2>2, <4>1, <4>2, <4>3
      <3>4. ~(Choose \/ TurnStarts \/ ProcessAction \/ NextTurn)
        BY <2>2 DEF Choose, TurnStarts, ProcessAction, NextTurn
      <3> QED BY <3>1, <3>2, <3>3, <3>4 DEF Engine
    <2>5. Action
      BY <2>2, <2>3, <2>4 DEF Next, vars
    <2>6. Pursuit /\ Cur.oiuti /\ Reached /\ p = Aim /\ stack # <<>>
      BY <2>5, ActionStrikes, ActionKeeps
    <2>7. Len(stack) = 2
      <3>1. Len(stack) \in Nat \ {0} /\ Len(stack) <= 2
        <4>1. Len(stack) \in Nat \ {0}
          BY <2>6, TopTyped
        <4>2. Len(stack) >= 2 => Len(stack) = 2
          <5>1. NestInv(stack, queue)
            BY DEF TurnInv
          <5> QED BY <5>1 DEF NestInv
        <4>3. ASSUME NEW n \in Nat, n >= 2 => n = 2 PROVE n <= 2
          BY <4>3
        <4> QED BY <4>1, <4>2, <4>3
      <3>2. Len(stack) # 1
        BY <2>6 DEF StruckInv, OiutiInv, Cur, Top
      <3>3. ASSUME NEW n \in Nat \ {0}, n <= 2, n # 1 PROVE n = 2
        BY <3>3
      <3> QED BY <3>1, <3>2, <3>3
    <2>8. Cur.pos = mon[queue[stack[1].act].poke].spot
      BY <2>7 DEF StruckInv, OiutiInv, Cur, Top
    <2>9. queue[stack[1].act].poke \in Pokes
      <3>1. 1 \in DOMAIN stack
        BY <2>7, LenProperties DEF BattleTyped
      <3>2. queue[stack[1].act] \in Doing
        BY <3>1, ElementOfSeq DEF BattleTyped
      <3> QED BY <3>2 DEF Doing
    <2>10. mon[p].spot = Cur.pos /\ IsExist(mon, p)
      <3>1. Aim # NoPoke
        BY <2>6 DEF Reached
      <3>2. \E x \in Pokes : mon[x].spot = Cur.pos /\ Alive(mon, x) /\ Cur.pos # NoSpot
        BY <3>1 DEF Aim, Occupant
      <3>3. Aim = CHOOSE x \in Pokes : mon[x].spot = Cur.pos /\ Alive(mon, x)
        BY <3>2 DEF Aim, Occupant
      <3>4. mon[Aim].spot = Cur.pos /\ Cur.pos # NoSpot
        BY <3>2, <3>3
      <3> QED BY <2>6, <3>4 DEF IsExist
    <2>11. queue[stack[1].act].poke = p
      BY <2>8, <2>9, <2>10 DEF StruckInv, SpotsApart
    <2> QED BY <2>7, <2>11
  <1>2. BattleTyped /\ TurnInv /\ StruckInv /\ [Next]_vars => [Struck]_vars
    BY <1>1
  <1> QED BY <1>2, StruckHolds, PTL DEF Spec, StruckOnItsWay

-------------------------------------------------------------------------------
(***************************************************************************)
(* Whose form a Pokemon has.                                               *)
(***************************************************************************)
\* The form and what it depends on.
SameForm(r, r2) ==
    /\ r2.species = r.species /\ r2.form = r.form /\ r2.ability = r.ability
    /\ r2.level = r.level /\ r2.hensin = r.hensin /\ r2.zen = r.zen

\* Off the field a Pokemon is what it is by birth (b).  On it, unless it has
\* transformed, it has its species and colour, and with Zen Mode the zen form.
Own(b, r) ==
    /\ r.spot = NoSpot => SameForm(b, r)
    /\ ~r.hensin =>
         /\ r.species = b.species
         /\ r.species = "Minior" => Colour(r.form) = Colour(b.form)
         /\ r.species = "Darmanitan" /\ r.ability = "Zen Mode" /\ r.spot # NoSpot =>
              r.zen /\ r.form = b.form + 1

\* The form shows the hit points.
Shown(r) ==
    r.spot # NoSpot /\ r.hp > 0 /\ ~r.hensin =>
        /\ r.species = "Minior" /\ r.ability = "Shields Down" => r.form = FindNextMiniorForm(r)
        /\ r.species = "Wishiwashi" /\ r.ability = "Schooling" => r.form = FindNextWishiwashiForm(r)

FormInv ==
    /\ \A p \in Pokes : Own(base[p], mon[p])
    /\ phase \in {"refill", "choose"} => \A p \in Pokes : Shown(mon[p])

\* What has transformed remains what it copied.
Sincere(r, r2) ==
    r2.hensin => /\ r.hensin /\ r2.species = r.species
                 /\ r.species # "Aegislash" => r2.form = r.form

\* What a step may do to a Pokemon that is b by birth.
Rightful(b, r, r2) ==
    /\ r2 \in PokeParam
    /\ Own(b, r) => Own(b, r2) /\ Sincere(r, r2)

LEMMA SameFormRightful ==
    ASSUME NEW b, NEW r, NEW r2 \in PokeParam, SameForm(r, r2), r2.spot = r.spot
    PROVE  Rightful(b, r, r2)
BY DEF Rightful, Own, Sincere, SameForm

LEMMA RightfulSelf ==
    ASSUME NEW b, NEW r \in PokeParam
    PROVE  Rightful(b, r, r)
BY DEF Rightful, Sincere

LEMMA RightfulTwice ==
    ASSUME NEW b, NEW r, NEW r2, NEW r3, Rightful(b, r, r2), Rightful(b, r2, r3)
    PROVE  Rightful(b, r, r3)
BY DEF Rightful, Sincere

\* A form changed by an ability that asks whether the Pokemon is itself.
LEMMA ChangeRightful ==
    ASSUME NEW b, NEW r \in PokeParam, r.spot # NoSpot, NEW s, NEW f \in MiniorForms,
           s # "Darmanitan", s = "Minior" => Colour(f) = Colour(r.form)
    PROVE  Rightful(b, r, ChangeForm(r, s, f))
PROOF
  <1>1. CASE CanChangeForm(r, s, f)
    <2> DEFINE r2 == [r EXCEPT !.form = f]
    <2>1. /\ r2 \in PokeParam /\ r2.spot = r.spot /\ r2.form = f /\ r2.species = r.species
          /\ r2.hensin = r.hensin /\ r2.ability = r.ability /\ r2.zen = r.zen
      BY DEF PokeParam
    <2>2. r.species = s /\ ~r.hensin
      BY <1>1 DEF CanChangeForm
    <2> HIDE DEF r2
    <2>3. Rightful(b, r, r2)
      BY <2>1, <2>2 DEF Rightful, Own, Sincere
    <2> QED BY <1>1, <2>3 DEF ChangeForm, r2
  <1>2. CASE ~CanChangeForm(r, s, f)
    BY <1>2, RightfulSelf DEF ChangeForm
  <1> QED BY <1>1, <1>2

LEMMA ColourKept ==
    ASSUME NEW r \in PokeParam
    PROVE  Colour(FindNextMiniorForm(r)) = Colour(r.form)
PROOF
  <1>1. r.form \in 0 .. 13
    BY DEF PokeParam, MiniorForms
  <1>2. ASSUME NEW n \in 0 .. 13 PROVE ((n % 7) + 7) % 7 = n % 7 /\ ((n % 7) + 0) % 7 = n % 7
    OBVIOUS
  <1> QED BY <1>1, <1>2 DEF FindNextMiniorForm, Colour, Colours

\* The zen form of a zen form is itself.
LEMMA ZenFormStands ==
    ASSUME NEW n \in 0 .. 3, n % 2 = 0
    PROVE  n + 1 \in 0 .. 3 /\ n + 1 = (n + 1) - ((n + 1) % 2) + 1
OBVIOUS

\* Whoever has its Zen Mode in force is in the zen form already.
LEMMA ZenStands ==
    ASSUME NEW b, Fresh(b), NEW r \in PokeParam, Own(b, r), r.spot # NoSpot, r.ability = "Zen Mode"
    PROVE  AdjustZenModeForm(r) = r /\ ZenModeMemberInComp(r) = r
PROOF
  <1>1. ~CanChangeForm(r, "Darmanitan", FindZenDarmanitanForm(r))
    <2> SUFFICES ASSUME r.species = "Darmanitan", ~r.hensin PROVE r.form = FindZenDarmanitanForm(r)
      BY DEF CanChangeForm
    <2>1. r.form = b.form + 1 /\ b.form \in 0 .. 3 /\ b.form % 2 = 0
      BY DEF Own, Fresh, DarmanitanForms
    <2>2. r.form \in 0 .. 3 /\ r.form = r.form - (r.form % 2) + 1
      BY <2>1, ZenFormStands
    <2> QED BY <2>2 DEF FindZenDarmanitanForm, DarmanitanForms
  <1> QED BY <1>1 DEF AdjustZenModeForm, ZenModeMemberInComp, ChangeForm

\* The handlers of the abilities, on a Pokemon of the field.
LEMMA HandlersRightful ==
    ASSUME NEW b, Fresh(b), NEW r \in PokeParam, r.spot # NoSpot
    PROVE  /\ Rightful(b, r, MemberInComp(r)) /\ Rightful(b, r, ActProcEnd(r))
           /\ Rightful(b, r, TurnCheckDone(r))
           /\ \A own \in BOOLEAN : Rightful(b, r, ChangeTokuseiAfter(r, own))
           /\ \A d, s \in BOOLEAN : Rightful(b, r, StanceChange(r, d, s))
PROOF
  <1>1. Rightful(b, r, AdjustShieldsDownForm(r)) /\ Rightful(b, r, AdjustSchoolingForm(r))
    BY FormsFound, ChangeRightful, ColourKept DEF AdjustShieldsDownForm, AdjustSchoolingForm
  <1>2. ASSUME r.ability = "Zen Mode"
        PROVE  Rightful(b, r, AdjustZenModeForm(r)) /\ Rightful(b, r, ZenModeMemberInComp(r))
    <2>1. CASE Own(b, r)
      BY <1>2, <2>1, ZenStands, RightfulSelf
    <2>2. CASE ~Own(b, r)
      <3>1. AdjustZenModeForm(r) \in PokeParam
        BY FormsFound, ChangeFormReforms, ReformedKeeps DEF AdjustZenModeForm
      <3>2. ZenModeMemberInComp(r) \in PokeParam
        BY <3>1 DEF ZenModeMemberInComp, PokeParam
      <3> QED BY <2>2, <3>1, <3>2 DEF Rightful
    <2> QED BY <2>1, <2>2
  <1>3. ASSUME NEW d \in BOOLEAN, NEW s \in BOOLEAN PROVE Rightful(b, r, StanceChange(r, d, s))
    <2> DEFINE f  == IF d THEN 1 ELSE IF s THEN 0 ELSE r.form
               r2 == [r EXCEPT !.form = f]
    <2>1. f \in MiniorForms
      BY DEF PokeParam, MiniorForms
    <2> HIDE DEF f
    <2>2. /\ r2 \in PokeParam /\ r2.spot = r.spot /\ r2.species = r.species
          /\ r2.hensin = r.hensin
      BY <2>1 DEF PokeParam
    <2>3. StanceChange(r, d, s) = r \/ (StanceChange(r, d, s) = r2 /\ r.species = "Aegislash")
      BY DEF StanceChange, f
    <2> HIDE DEF r2
    <2>4. r.species = "Aegislash" => Rightful(b, r, r2)
      BY <2>2 DEF Rightful, Own, Sincere
    <2> QED BY <2>3, <2>4, RightfulSelf
  <1>4. Rightful(b, r, MemberInComp(r)) /\ Rightful(b, r, ActProcEnd(r))
    BY <1>2, RightfulSelf DEF MemberInComp, ActProcEnd
  <1>5. Rightful(b, r, TurnCheckDone(r))
    BY <1>1, <1>2, RightfulSelf DEF TurnCheckDone
  <1>6. ASSUME NEW own \in BOOLEAN PROVE Rightful(b, r, ChangeTokuseiAfter(r, own))
    BY <1>2, RightfulSelf DEF ChangeTokuseiAfter
  <1> QED BY <1>3, <1>4, <1>5, <1>6

\* After the abilities the form shows the hit points.
LEMMA AbilitiesShow ==
    ASSUME NEW r \in PokeParam
    PROVE  /\ r.ability = "Shields Down" => Shown(AdjustShieldsDownForm(r))
           /\ r.ability = "Schooling" => Shown(AdjustSchoolingForm(r))
           /\ r.ability \notin {"Shields Down", "Schooling"} => Shown(r)
PROOF
  <1>1. ASSUME r.ability = "Shields Down" PROVE Shown(AdjustShieldsDownForm(r))
    <2> DEFINE y == AdjustShieldsDownForm(r)
               f == FindNextMiniorForm(r)
    <2>1. y \in PokeParam /\ y.hp = r.hp /\ y.species = r.species /\ y.ability = r.ability /\ y.hensin = r.hensin
      BY FormsFound, ChangeFormReforms, ReformedKeeps DEF AdjustShieldsDownForm
    <2>2. r.species = "Minior" /\ ~r.hensin => y.form = f
      BY DEF AdjustShieldsDownForm, ChangeForm, CanChangeForm, PokeParam
    <2>3. f \in MiniorForms /\ Colour(f) = Colour(r.form) /\ r.form \in MiniorForms
      BY FormsFound, ColourKept DEF PokeParam
    <2>4. y.form = f => FindNextMiniorForm(y) = f
      BY <2>1, <2>3 DEF FindNextMiniorForm
    <2> HIDE DEF y, f
    <2>5. Shown(y)
      BY <1>1, <2>1, <2>2, <2>4 DEF Shown
    <2> QED BY <2>5 DEF y
  <1>2. ASSUME r.ability = "Schooling" PROVE Shown(AdjustSchoolingForm(r))
    <2> DEFINE y == AdjustSchoolingForm(r)
               f == FindNextWishiwashiForm(r)
    <2>1. /\ y \in PokeParam /\ y.hp = r.hp /\ y.species = r.species /\ y.ability = r.ability
          /\ y.hensin = r.hensin /\ y.level = r.level
      <3>1. Reformed(r, y)
        BY FormsFound, ChangeFormReforms DEF AdjustSchoolingForm
      <3>2. y.level = r.level
        BY <3>1 DEF Reformed, PokeParam
      <3> QED BY <3>1, <3>2, ReformedKeeps
    <2>2. r.species = "Wishiwashi" /\ ~r.hensin => y.form = f
      BY DEF AdjustSchoolingForm, ChangeForm, CanChangeForm, PokeParam
    <2>3. FindNextWishiwashiForm(y) = f
      BY <2>1 DEF FindNextWishiwashiForm
    <2> HIDE DEF y, f
    <2>4. Shown(y)
      BY <1>2, <2>1, <2>2, <2>3 DEF Shown
    <2> QED BY <2>4 DEF y
  <1> QED BY <1>1, <1>2 DEF Shown

\* Whoever comes in has the form of its birth and its hit points.
LEMMA Arrives ==
    ASSUME NEW b, Fresh(b), NEW r \in PokeParam, SameForm(b, r), NEW s \in Spots \ {NoSpot}
    PROVE  LET e == MemberInComp(MemberInEvo([r EXCEPT !.spot = s])) IN
           e \in PokeParam /\ e.spot = s /\ ~e.hensin /\ Own(b, e) /\ Shown(e)
PROOF
  <1> DEFINE x == [r EXCEPT !.spot = s]
  <1>1. x \in PokeParam /\ x.spot = s /\ SameForm(b, x) /\ ~x.hensin /\ s # NoSpot
    BY DEF PokeParam, SameForm, Fresh
  <1> HIDE DEF x
  <1>2. CASE x.ability # "Zen Mode"
    <2> DEFINE y == MemberInEvo(x)
    <2>1. Own(b, x)
      BY <1>1, <1>2 DEF Own, SameForm
    <2>2. Rightful(b, x, y)
      BY <1>1, FormsFound, ChangeRightful, ColourKept, RightfulSelf
         DEF MemberInEvo, AdjustShieldsDownForm, AdjustSchoolingForm
    <2>3. Shown(y)
      BY <1>1, AbilitiesShow DEF MemberInEvo
    <2>4. y \in PokeParam /\ y.spot = s /\ ~y.hensin /\ y.ability # "Zen Mode"
      <3>1. Reformed(x, y)
        BY <1>1, AbilitiesReform
      <3> HIDE DEF y
      <3>2. y \in PokeParam /\ y.spot = x.spot /\ y.ability = x.ability /\ y.hensin = x.hensin
        BY <1>1, <3>1, ReformedKeeps
      <3> QED BY <1>1, <1>2, <3>2
    <2> HIDE DEF y
    <2>5. MemberInComp(y) = y
      BY <2>4 DEF MemberInComp
    <2>6. Own(b, y)
      BY <2>1, <2>2 DEF Rightful
    <2> QED BY <2>3, <2>4, <2>5, <2>6 DEF x, y
  <1>3. CASE x.ability = "Zen Mode"
    <2>1. MemberInEvo(x) = x /\ MemberInComp(x) = ZenModeMemberInComp(x)
      BY <1>3 DEF MemberInEvo, MemberInComp
    <2> DEFINE e == ZenModeMemberInComp(x)
    <2>2. e \in PokeParam /\ e.spot = s /\ ~e.hensin /\ e.species = x.species /\ e.ability = "Zen Mode"
      <3>1. Reformed(x, e)
        BY <1>1, <2>1, AbilitiesReform
      <3> HIDE DEF e
      <3>2. /\ e \in PokeParam /\ e.spot = x.spot /\ e.ability = x.ability
            /\ e.hensin = x.hensin /\ e.species = x.species
        BY <1>1, <3>1, ReformedKeeps
      <3> QED BY <1>1, <1>3, <3>2
    <2>3. Shown(e)
      BY <2>2 DEF Shown
    <2>4. CASE x.species # "Darmanitan"
      <3>1. e = x
        BY <2>4 DEF ZenModeMemberInComp, CanChangeForm
      <3>2. Own(b, x)
        BY <1>1, <2>4 DEF Own, SameForm
      <3> QED BY <2>1, <2>2, <2>3, <3>1, <3>2 DEF x
    <2>5. CASE x.species = "Darmanitan"
      <3>1. x.form = b.form /\ b.form \in 0 .. 3 /\ b.form % 2 = 0 /\ b.species = x.species
        BY <1>1, <2>5 DEF SameForm, Fresh, DarmanitanForms
      <3>2. FindZenDarmanitanForm(x) = b.form + 1 /\ x.form # b.form + 1
        BY <3>1 DEF FindZenDarmanitanForm, DarmanitanForms
      <3>3. CanChangeForm(x, "Darmanitan", FindZenDarmanitanForm(x))
        BY <1>1, <2>5, <3>2 DEF CanChangeForm
      <3>4. e = [[x EXCEPT !.form = b.form + 1] EXCEPT !.zen = TRUE]
        BY <3>2, <3>3 DEF ZenModeMemberInComp, AdjustZenModeForm, ChangeForm
      <3>5. e.zen /\ e.form = b.form + 1
        BY <1>1, <3>4 DEF PokeParam
      <3> HIDE DEF e
      <3>6. Own(b, e)
        BY <1>1, <2>2, <2>5, <3>1, <3>5 DEF Own
      <3> QED BY <2>1, <2>2, <2>3, <3>6 DEF x, e
    <2> QED BY <2>4, <2>5
  <1> QED BY <1>2, <1>3

\* The records that the moves write: none but an ability that is changed is
\* of any importance.
LEMMA RecordsRightful ==
    ASSUME NEW b, NEW r \in PokeParam
    PROVE  /\ Rightful(b, r, [r EXCEPT !.mamoru = 0])
           /\ Rightful(b, r, [r EXCEPT !.protect = FALSE])
           /\ Rightful(b, r, [r EXCEPT !.sick = TRUE])
           /\ Rightful(b, r, [r EXCEPT !.protect = TRUE, !.mamoru = 1])
           /\ Rightful(b, r, [r EXCEPT !.rage = TRUE])
           /\ Rightful(b, r, [r EXCEPT !.holds = NoPoke, !.sky = FALSE, !.freefall = FALSE])
           /\ Rightful(b, r, [r EXCEPT !.sky = TRUE, !.freefall = TRUE])
           /\ \A t \in Pokes : Rightful(b, r, [r EXCEPT !.sky = TRUE, !.holds = t])
           /\ \A w \in STRING : Rightful(b, r, [r EXCEPT !.rage = FALSE, !.last = w, !.mamoru = 0])
           /\ \A h \in 0 .. MaxHp : Rightful(b, r, [r EXCEPT !.hp = h])
           /\ \A a \in 0 .. RankCap : Rightful(b, r, [r EXCEPT !.atk = a])
           /\ r.spot # NoSpot =>
                \A a \in {"None", "Insomnia"} : Rightful(b, r, [r EXCEPT !.ability = a])
PROOF
  <1>1. Rightful(b, r, [r EXCEPT !.mamoru = 0])
    BY SameFormRightful DEF PokeParam, SameForm
  <1>2. Rightful(b, r, [r EXCEPT !.protect = FALSE])
    BY SameFormRightful DEF PokeParam, SameForm
  <1>3. Rightful(b, r, [r EXCEPT !.sick = TRUE])
    BY SameFormRightful DEF PokeParam, SameForm
  <1>4. Rightful(b, r, [r EXCEPT !.protect = TRUE, !.mamoru = 1])
    BY SameFormRightful DEF PokeParam, SameForm
  <1>5. Rightful(b, r, [r EXCEPT !.rage = TRUE])
    BY SameFormRightful DEF PokeParam, SameForm
  <1>6. Rightful(b, r, [r EXCEPT !.holds = NoPoke, !.sky = FALSE, !.freefall = FALSE])
    BY SameFormRightful DEF PokeParam, SameForm
  <1>7. Rightful(b, r, [r EXCEPT !.sky = TRUE, !.freefall = TRUE])
    BY SameFormRightful DEF PokeParam, SameForm
  <1>8. ASSUME NEW t \in Pokes PROVE Rightful(b, r, [r EXCEPT !.sky = TRUE, !.holds = t])
    BY SameFormRightful DEF PokeParam, SameForm
  <1>9. ASSUME NEW w \in STRING PROVE Rightful(b, r, [r EXCEPT !.rage = FALSE, !.last = w, !.mamoru = 0])
    BY SameFormRightful DEF PokeParam, SameForm
  <1>10. ASSUME NEW h \in 0 .. MaxHp PROVE Rightful(b, r, [r EXCEPT !.hp = h])
    BY SameFormRightful DEF PokeParam, SameForm
  <1>11. ASSUME NEW a \in 0 .. RankCap PROVE Rightful(b, r, [r EXCEPT !.atk = a])
    BY SameFormRightful DEF PokeParam, SameForm
  <1>12. ASSUME r.spot # NoSpot, NEW a \in {"None", "Insomnia"}
         PROVE  Rightful(b, r, [r EXCEPT !.ability = a])
    <2> DEFINE r2 == [r EXCEPT !.ability = a]
    <2>1. /\ r2 \in PokeParam /\ r2.spot = r.spot /\ r2.form = r.form /\ r2.species = r.species
          /\ r2.hensin = r.hensin /\ r2.ability # "Zen Mode"
      BY DEF PokeParam, Abilities
    <2> HIDE DEF r2
    <2>2. Rightful(b, r, r2)
      BY <1>12, <2>1 DEF Rightful, Own, Sincere
    <2> QED BY <2>2 DEF r2
  <1> QED
    BY <1>1, <1>2, <1>3, <1>4, <1>5, <1>6, <1>7, <1>8, <1>9, <1>10, <1>11, <1>12

\* Gastro Acid: the handler turns a Zen Mode back, then no ability is in force.
LEMMA AcidRightful ==
    ASSUME NEW b, NEW r \in PokeParam, r.spot # NoSpot
    PROVE  Rightful(b, r, [TokuseiDisable(r) EXCEPT !.ability = "None"])
PROOF
  <1> DEFINE d  == TokuseiDisable(r)
             r2 == [d EXCEPT !.ability = "None"]
  <1>1. d \in PokeParam /\ d.spot = r.spot /\ d.hensin = r.hensin /\ d.species = r.species
    BY AbilitiesReform, ReformedKeeps
  <1>2. d.form = r.form \/ (r.species = "Darmanitan" /\ ~r.hensin)
    BY DEF TokuseiDisable, DisableZenMode, ChangeForm, CanChangeForm
  <1> HIDE DEF d
  <1>3. /\ r2 \in PokeParam /\ r2.spot = r.spot /\ r2.hensin = r.hensin /\ r2.species = r.species
        /\ r2.form = d.form /\ r2.ability # "Zen Mode"
    BY <1>1 DEF PokeParam, Abilities
  <1> HIDE DEF r2
  <1>4. Rightful(b, r, r2)
    BY <1>2, <1>3 DEF Rightful, Own, Sincere
  <1> QED BY <1>4 DEF r2, d

\* The same of everyone.
AllOwn(m) == \A p \in Pokes : Own(base[p], m[p])

AllRightful(m, m2) == m2 \in Teams /\ \A p \in Pokes : Rightful(base[p], m[p], m2[p])

LEMMA AllRightfulSelf ==
    ASSUME NEW m \in Teams
    PROVE  AllRightful(m, m)
BY RightfulSelf DEF AllRightful, Teams

LEMMA AllRightfulTwice ==
    ASSUME NEW m, NEW m2, NEW m3, AllRightful(m, m2), AllRightful(m2, m3)
    PROVE  AllRightful(m, m3)
BY RightfulTwice DEF AllRightful

LEMMA RightfulOne ==
    ASSUME NEW m \in Teams, NEW p \in Pokes, NEW r, Rightful(base[p], m[p], r)
    PROVE  AllRightful(m, [m EXCEPT ![p] = r])
PROOF
  <1>1. r \in PokeParam
    BY DEF Rightful
  <1> DEFINE m2 == [m EXCEPT ![p] = r]
  <1>2. m2 \in Teams /\ m2[p] = r /\ \A q \in Pokes \ {p} : m2[q] = m[q]
    BY <1>1 DEF Teams
  <1> HIDE DEF m2
  <1>3. \A q \in Pokes : m[q] \in PokeParam
    BY DEF Teams
  <1>4. \A q \in Pokes : Rightful(base[q], m[q], m2[q])
    BY <1>2, <1>3, RightfulSelf
  <1>5. AllRightful(m, m2)
    BY <1>2, <1>4 DEF AllRightful
  <1> QED BY <1>5 DEF m2

LEMMA ReleaseRightful ==
    ASSUME NEW m \in Teams, NEW S
    PROVE  AllRightful(m, FreeFallRelease(m, S))
PROOF
  <1> DEFINE m2 == FreeFallRelease(m, S)
  <1>1. ASSUME NEW p \in Pokes PROVE Rightful(base[p], m[p], m2[p])
    <2>1. m[p] \in PokeParam
      BY DEF Teams
    <2>2. /\ Rightful(base[p], m[p], m[p])
          /\ Rightful(base[p], m[p], [m[p] EXCEPT !.holds = NoPoke, !.sky = FALSE, !.freefall = FALSE])
      BY <2>1, RightfulSelf, RecordsRightful
    <2>3. m2[p] = m[p] \/ m2[p] = [m[p] EXCEPT !.holds = NoPoke, !.sky = FALSE, !.freefall = FALSE]
      BY DEF FreeFallRelease
    <2> HIDE DEF m2
    <2> QED BY <2>2, <2>3
  <1>2. m2 \in Teams
    BY ReleaseKeeps DEF SamePlaces
  <1> HIDE DEF m2
  <1>3. AllRightful(m, m2)
    BY <1>1, <1>2 DEF AllRightful
  <1> QED BY <1>3 DEF m2

LEMMA WoundRightful ==
    ASSUME NEW b, NEW r \in PokeParam, NEW d \in Nat
    PROVE  Rightful(b, r, Wounded(r, d))
PROOF
  <1>1. (IF r.hp > d THEN r.hp - d ELSE 0) \in 0 .. MaxHp
    BY MaxHpAssumption DEF PokeParam
  <1> QED BY <1>1, RecordsRightful DEF Wounded

LEMMA HurtRightful ==
    ASSUME NEW m \in Teams, NEW t \in Pokes, NEW d \in Nat
    PROVE  AllRightful(m, Hurt(m, t, d))
PROOF
  <1> DEFINE w  == Wounded(m[t], d)
             r  == [w EXCEPT !.atk = IF w.rage /\ w.hp > 0 /\ @ < RankCap THEN @ + 1 ELSE @]
             m1 == [m EXCEPT ![t] = r]
  <1>1. w \in PokeParam /\ Rightful(base[t], m[t], w)
    BY WoundedTyped, WoundRightful DEF Teams
  <1> HIDE DEF w
  <1>2. Rightful(base[t], w, r)
    <2>1. (IF w.rage /\ w.hp > 0 /\ w.atk < RankCap THEN w.atk + 1 ELSE w.atk) \in 0 .. RankCap
      BY <1>1, BattleAssumption DEF PokeParam
    <2> QED BY <1>1, <2>1, RecordsRightful
  <1> HIDE DEF r
  <1>3. AllRightful(m, m1)
    BY <1>1, <1>2, RightfulTwice, RightfulOne
  <1>4. Hurt(m, t, d) = FreeFallRelease(m1, {p \in Pokes : ~Alive(m1, p)})
    BY DEF Hurt, Faint, m1, r, w
  <1> HIDE DEF m1
  <1>5. AllRightful(m1, Hurt(m, t, d))
    BY <1>3, <1>4, ReleaseRightful DEF AllRightful
  <1> QED BY <1>3, <1>5, AllRightfulTwice

LEMMA LeaveRightful ==
    ASSUME NEW m \in Teams, NEW p \in Pokes, \A q \in Pokes : Fresh(base[q])
    PROVE  AllRightful(m, Leave(m, p))
PROOF
  <1> DEFINE m1 == FreeFallRelease(m, {p})
             r  == Rested(base[p], m[p])
  <1>1. AllRightful(m, m1)
    BY ReleaseRightful
  <1>2. /\ r \in PokeParam /\ r.spot = NoSpot /\ SameForm(base[p], r) /\ ~r.hensin
        /\ r.form = base[p].form /\ r.species = base[p].species
    BY DEF Rested, Teams, PokeParam, Fresh, SameForm
  <1>3. Leave(m, p) = [m1 EXCEPT ![p] = r]
    BY DEF Leave
  <1> HIDE DEF r, m1
  <1>4. Own(base[p], r)
    BY <1>2 DEF Own
  <1>5. Rightful(base[p], m1[p], r)
    BY <1>2, <1>4 DEF Rightful, Sincere
  <1> QED BY <1>1, <1>3, <1>5, RightfulOne, AllRightfulTwice DEF AllRightful

LEMMA EnterRightful ==
    ASSUME NEW m \in Teams, NEW q \in Pokes, ~IsExist(m, q), NEW s \in Spots \ {NoSpot},
           \A p \in Pokes : Fresh(base[p])
    PROVE  /\ AllRightful(m, Enter(m, q, s))
           /\ AllOwn(m) => \A p \in Pokes : Shown(m[p]) => Shown(Enter(m, q, s)[p])
PROOF
  <1> DEFINE r  == [m[q] EXCEPT !.spot = s]
             m1 == [m EXCEPT ![q] = MemberInEvo(r)]
             e  == Enter(m, q, s)
  <1>1. e \in Teams
    BY EnterKeeps
  <1>2. MemberInEvo(r).spot = s
    <2>1. r \in PokeParam /\ r.spot = s
      BY DEF Teams, PokeParam
    <2> HIDE DEF r
    <2> QED BY <2>1, AbilitiesReform, ReformedKeeps
  <1>3. /\ e[q] = MemberInComp(MemberInEvo(r))
        /\ \A p \in Pokes \ {q} : e[p] = IF m[p].spot # NoSpot THEN MemberInComp(m[p]) ELSE m[p]
    <2>1. m1[q] = MemberInEvo(r) /\ \A p \in Pokes \ {q} : m1[p] = m[p]
      BY DEF Teams
    <2>2. e = [p \in Pokes |-> IF m1[p].spot # NoSpot THEN MemberInComp(m1[p]) ELSE m1[p]]
      BY DEF Enter
    <2> HIDE DEF e, m1, r
    <2> QED BY <1>2, <2>1, <2>2
  <1>4. /\ Rightful(base[q], m[q], e[q])
        /\ Own(base[q], m[q]) => Shown(e[q])
    <2>1. e[q] \in PokeParam /\ m[q] \in PokeParam /\ m[q].spot = NoSpot
      BY <1>1 DEF Teams, IsExist
    <2> HIDE DEF e
    <2>2. ASSUME Own(base[q], m[q])
          PROVE  ~e[q].hensin /\ Own(base[q], e[q]) /\ Shown(e[q])
      <3>1. SameForm(base[q], m[q])
        BY <2>1, <2>2 DEF Own
      <3> QED BY <1>3, <2>1, <3>1, Arrives
    <2> QED BY <2>1, <2>2 DEF Rightful, Sincere
  <1> HIDE DEF e
  <1>5. ASSUME NEW p \in Pokes \ {q}
        PROVE  /\ Rightful(base[p], m[p], e[p])
               /\ Own(base[p], m[p]) => e[p] = m[p]
    <2>1. m[p] \in PokeParam
      BY DEF Teams
    <2>2. CASE m[p].spot = NoSpot
      BY <1>3, <2>1, <2>2, RightfulSelf
    <2>3. CASE m[p].spot # NoSpot
      <3>1. e[p] = MemberInComp(m[p])
        BY <1>3, <2>3
      <3>2. Own(base[p], m[p]) => MemberInComp(m[p]) = m[p]
        BY <2>1, <2>3, ZenStands DEF MemberInComp
      <3>3. Rightful(base[p], m[p], MemberInComp(m[p]))
        BY <2>1, <2>3, HandlersRightful
      <3> QED BY <3>1, <3>2, <3>3
    <2> QED BY <2>2, <2>3
  <1>6. AllRightful(m, e)
    BY <1>1, <1>4, <1>5 DEF AllRightful
  <1>7. ASSUME AllOwn(m), NEW p \in Pokes, Shown(m[p]) PROVE Shown(e[p])
    BY <1>4, <1>5, <1>7 DEF AllOwn
  <1> QED BY <1>6, <1>7 DEF e

LEMMA SwapRightful ==
    ASSUME NEW m \in Teams, NEW p \in Pokes, \A x \in Pokes : Fresh(base[x]),
           NEW q \in Pokes, ~IsExist(m, q) \/ q = p, NEW s \in Spots \ {NoSpot}
    PROVE  AllRightful(m, Enter(Leave(m, p), q, s))
PROOF
  <1>1. Leave(m, p) \in Teams /\ ~IsExist(Leave(m, p), q)
    BY LeaveKeeps DEF IsExist
  <1>2. AllRightful(m, Leave(m, p))
    BY LeaveRightful
  <1>3. AllRightful(Leave(m, p), Enter(Leave(m, p), q, s))
    BY <1>1, EnterRightful
  <1> QED BY <1>2, <1>3, AllRightfulTwice

\* The form that shows the hit points is kept when one leaves.
LEMMA LeaveShows ==
    ASSUME NEW m \in Teams, NEW p \in Pokes, \A q \in Pokes : Fresh(base[q]),
           NEW x \in Pokes, Shown(m[x])
    PROVE  Shown(Leave(m, p)[x])
PROOF
  <1> DEFINE y == Leave(m, p)[x]
  <1>1. CASE x = p
    <2>1. y.spot = NoSpot
      BY <1>1, LeaveKeeps
    <2> QED BY <2>1 DEF Shown
  <1>2. CASE x # p
    <2> DEFINE d == [m[x] EXCEPT !.holds = NoPoke, !.sky = FALSE, !.freefall = FALSE]
    <2>1. m[x] \in PokeParam
      BY DEF Teams
    <2>2. y = m[x] \/ y = d
      BY <1>2 DEF Leave, FreeFallRelease
    <2>3. SameForm(m[x], d) /\ d.hp = m[x].hp /\ d.spot = m[x].spot
      BY <2>1 DEF PokeParam, SameForm
    <2> HIDE DEF d, y
    <2>4. Shown(d)
      BY <2>3 DEF SameForm, Shown, FindNextMiniorForm, FindNextWishiwashiForm
    <2>5. Shown(y)
      BY <2>2, <2>4
    <2> QED BY <2>5 DEF y
  <1> QED BY <1>1, <1>2

LEMMA DecidedRightful ==
    ASSUME BattleTyped, stack # <<>>, IsExist(mon, Me)
    PROVE  AllRightful(mon, Decided)
PROOF
  <1>1. /\ Me \in Pokes /\ Cur.waza \in STRING /\ mon \in Teams /\ mon[Me] \in PokeParam
        /\ Fresh(base[Me]) /\ mon[Me].spot # NoSpot
    BY TopTyped, ScenarioTyped DEF BattleTyped, Teams, Doing, IsExist
  <1> DEFINE r  == StanceChange(mon[Me], Cur.waza \in Damaging, Cur.waza = "King's Shield")
             r2 == [r EXCEPT !.rage = FALSE, !.last = Cur.waza, !.mamoru = 0]
  <1>2. r \in PokeParam /\ Rightful(base[Me], mon[Me], r)
    <2>1. (Cur.waza \in Damaging) \in BOOLEAN /\ (Cur.waza = "King's Shield") \in BOOLEAN
      OBVIOUS
    <2>2. Rightful(base[Me], mon[Me], r)
      BY <1>1, <2>1, HandlersRightful
    <2> QED BY <2>2 DEF Rightful
  <1> HIDE DEF r
  <1>3. Rightful(base[Me], r, r2)
    BY <1>1, <1>2, RecordsRightful
  <1>4. Decided = [mon EXCEPT ![Me] = r2]
    BY DEF Decided, r2, r
  <1> HIDE DEF r2
  <1> QED BY <1>1, <1>2, <1>3, <1>4, RightfulTwice, RightfulOne

\* What every step does: each keeps what is its own, and what has transformed
\* remains what it copied.
Forms(m, m2) == AllOwn(m) => AllOwn(m2) /\ \A p \in Pokes : m[p].hensin => Sincere(m[p], m2[p])

LEMMA RightfulForms ==
    ASSUME NEW m, NEW m2, AllRightful(m, m2)
    PROVE  Forms(m, m2)
BY DEF Forms, AllOwn, AllRightful, Rightful

LEMMA HitRightful ==
    ASSUME BattleTyped, stack # <<>>, IsExist(mon, Me), Reached, NEW d \in Nat
    PROVE  AllRightful(mon, Hurt(Decided, Aim, d)) /\ Hurt(Decided, Aim, d) \in Teams
PROOF
  <1>1. AllRightful(mon, Decided) /\ Decided \in Teams
    BY DecidedRightful DEF AllRightful
  <1>2. AllRightful(Decided, Hurt(Decided, Aim, d))
    BY <1>1, ReachedAim, HurtRightful
  <1> QED BY <1>1, <1>2, AllRightfulTwice DEF AllRightful

LEMMA FormsMoves ==
    ASSUME BattleTyped, TurnInv,
           MoveFails \/ Pursuit \/ FreeFallStart \/ SkyDropFalls \/ Rage
    PROVE  AllRightful(mon, mon')
PROOF
  <1>1. stack # <<>> /\ Top.at = "action"
    BY DEF MoveFails, Pursuit, FreeFallStart, SkyDropFalls, Rage, Using, At
  <1>2. Me \in Pokes /\ mon \in Teams /\ IsExist(mon, Me)
    BY <1>1, TopTyped, ActorFit DEF BattleTyped, Teams
  <1>3. AllRightful(mon, Decided) /\ Decided \in Teams
    BY <1>1, <1>2, DecidedRightful DEF AllRightful
  <1>4. CASE MoveFails
    <2>1. PICK m \in {mon, Decided} : mon' = FreeFallRelease(m, {Me})
      BY <1>4 DEF MoveFails, Does
    <2>2. m \in Teams /\ AllRightful(mon, m)
      BY <1>2, <1>3, AllRightfulSelf
    <2>3. AllRightful(m, mon')
      BY <2>1, <2>2, ReleaseRightful
    <2> QED BY <2>2, <2>3, AllRightfulTwice
  <1>5. CASE Pursuit
    BY <1>1, <1>2, <1>3, <1>5, HitRightful DEF Pursuit, Does
  <1>6. CASE FreeFallStart
    <2> DEFINE r  == [Decided[Me] EXCEPT !.sky = TRUE, !.holds = Aim]
               up == [Decided EXCEPT ![Me] = r]
               t  == [up[Aim] EXCEPT !.sky = TRUE, !.freefall = TRUE]
    <2>1. mon' = Decided \/ (Aim # NoPoke /\ mon' = [up EXCEPT ![Aim] = t])
      BY <1>6 DEF FreeFallStart, Does, CarryOff
    <2>2. ASSUME Aim # NoPoke PROVE AllRightful(Decided, [up EXCEPT ![Aim] = t])
      <3>1. Aim \in Pokes
        BY <2>2, AimFit
      <3>2. Rightful(base[Me], Decided[Me], r)
        BY <1>2, <1>3, <3>1, RecordsRightful DEF Teams
      <3> HIDE DEF r
      <3>3. AllRightful(Decided, up) /\ up \in Teams
        BY <1>2, <1>3, <3>2, RightfulOne DEF AllRightful
      <3> HIDE DEF up
      <3>4. Rightful(base[Aim], up[Aim], t)
        BY <3>1, <3>3, RecordsRightful DEF Teams
      <3> HIDE DEF t
      <3> QED BY <3>1, <3>3, <3>4, RightfulOne, AllRightfulTwice
    <2> HIDE DEF t, up
    <2> QED BY <1>3, <2>1, <2>2, AllRightfulTwice
  <1>7. CASE SkyDropFalls
    <2> DEFINE t == mon[Me].holds
               m == FreeFallRelease(Decided, {Me})
    <2>1. t \in Pokes
      <3>1. mon[Me] \in PokeParam /\ t # NoPoke
        BY <1>2, <1>7 DEF SkyDropFalls, Teams
      <3> QED BY <3>1 DEF PokeParam
    <2>2. AllRightful(mon, m) /\ m \in Teams
      BY <1>3, ReleaseRightful, AllRightfulTwice DEF AllRightful
    <2>3. mon' = IF "Sky Drop" \in Immune[t] THEN m ELSE Hurt(m, t, 1)
      BY <1>7 DEF SkyDropFalls, Does
    <2> HIDE DEF m, t
    <2>4. AllRightful(m, Hurt(m, t, 1))
      BY <2>1, <2>2, HurtRightful
    <2> QED BY <2>2, <2>3, <2>4, AllRightfulTwice
  <1>8. CASE Rage
    <2> DEFINE m == Hurt(Decided, Aim, 1)
    <2>1. ASSUME Reached PROVE AllRightful(mon, [m EXCEPT ![Me] = [m[Me] EXCEPT !.rage = TRUE]])
      <3>1. AllRightful(mon, m) /\ m \in Teams
        BY <1>1, <1>2, <2>1, HitRightful
      <3> HIDE DEF m
      <3>2. Rightful(base[Me], m[Me], [m[Me] EXCEPT !.rage = TRUE])
        BY <1>2, <3>1, RecordsRightful DEF Teams
      <3> QED BY <1>2, <3>1, <3>2, RightfulOne, AllRightfulTwice
    <2>2. mon' = IF Reached THEN [m EXCEPT ![Me].rage = TRUE] ELSE Decided
      BY <1>8 DEF Rage, Does
    <2>3. [m EXCEPT ![Me].rage = TRUE] = [m EXCEPT ![Me] = [m[Me] EXCEPT !.rage = TRUE]]
      OBVIOUS
    <2> HIDE DEF m
    <2> QED BY <1>3, <2>1, <2>2, <2>3
  <1> QED BY <1>4, <1>5, <1>6, <1>7, <1>8

LEMMA FormsOthers ==
    ASSUME BattleTyped, TurnInv,
           KingsShield \/ ThunderWave \/ GastroAcid \/ WorrySeed \/ ChangeWeather
    PROVE  AllRightful(mon, mon')
PROOF
  <1>1. stack # <<>> /\ Top.at = "action"
    BY DEF KingsShield, ThunderWave, GastroAcid, WorrySeed, ChangeWeather, Using, At
  <1>2. /\ Me \in Pokes /\ mon \in Teams /\ IsExist(mon, Me)
        /\ \A p \in Pokes : Fresh(base[p])
    BY <1>1, TopTyped, ActorFit, ScenarioTyped DEF BattleTyped, Teams
  <1>3. /\ AllRightful(mon, Decided) /\ Decided \in Teams
        /\ \A p \in Pokes : Decided[p] \in PokeParam /\ Decided[p].spot = mon[p].spot
    BY <1>1, <1>2, DecidedRightful, DecidedSteady, SteadyPlaces DEF AllRightful, Teams, SamePlaces
  <1>4. ASSUME Reached
        PROVE  Aim \in Pokes /\ Decided[Aim] \in PokeParam /\ Decided[Aim].spot # NoSpot
    <2>1. Aim \in Pokes /\ IsExist(mon, Aim)
      BY <1>4, AimFit DEF Reached
    <2> QED BY <1>3, <2>1 DEF IsExist
  <1>5. CASE KingsShield
    <2>1. Rightful(base[Me], Decided[Me], [Decided[Me] EXCEPT !.protect = TRUE, !.mamoru = 1])
      BY <1>2, <1>3, RecordsRightful
    <2>2. mon' = [Decided EXCEPT ![Me] = [Decided[Me] EXCEPT !.protect = TRUE, !.mamoru = 1]]
      BY <1>2, <1>3, <1>5 DEF KingsShield, Does, Teams
    <2> QED BY <1>2, <1>3, <2>1, <2>2, RightfulOne, AllRightfulTwice
  <1>6. CASE ThunderWave
    <2> DEFINE r == [Decided[Aim] EXCEPT !.sick = TRUE]
    <2>1. ASSUME Reached PROVE AllRightful(Decided, [Decided EXCEPT ![Aim] = r])
      <3>1. Rightful(base[Aim], Decided[Aim], r)
        BY <1>4, <2>1, RecordsRightful
      <3> QED BY <1>3, <1>4, <2>1, <3>1, RightfulOne
    <2>2. mon' = IF Reached /\ ~AddSickCheckFail(mon[Aim]) THEN [Decided EXCEPT ![Aim] = r] ELSE Decided
      BY <1>6 DEF ThunderWave, Does
    <2> HIDE DEF r
    <2> QED BY <1>3, <2>1, <2>2, AllRightfulTwice
  <1>7. CASE GastroAcid
    <2> DEFINE r == [TokuseiDisable(Decided[Aim]) EXCEPT !.ability = "None"]
    <2>1. ASSUME Reached PROVE AllRightful(Decided, [Decided EXCEPT ![Aim] = r])
      <3>1. Rightful(base[Aim], Decided[Aim], r)
        BY <1>4, <2>1, AcidRightful
      <3> QED BY <1>3, <1>4, <2>1, <3>1, RightfulOne
    <2>2. mon' = IF Reached THEN [Decided EXCEPT ![Aim] = r] ELSE Decided
      BY <1>7 DEF GastroAcid, Does
    <2> HIDE DEF r
    <2> QED BY <1>3, <2>1, <2>2, AllRightfulTwice
  <1>8. CASE WorrySeed
    <2> DEFINE m  == [Decided EXCEPT ![Aim].ability = "Insomnia"]
               m2 == [p \in Pokes |-> IF IsExist(m, p) THEN ChangeTokuseiAfter(m[p], p = Aim) ELSE m[p]]
    <2>1. ASSUME Reached PROVE AllRightful(Decided, m2)
      <3>1. AllRightful(Decided, m) /\ m \in Teams
        <4>1. Rightful(base[Aim], Decided[Aim], [Decided[Aim] EXCEPT !.ability = "Insomnia"])
          BY <1>4, <2>1, RecordsRightful
        <4>2. m = [Decided EXCEPT ![Aim] = [Decided[Aim] EXCEPT !.ability = "Insomnia"]]
          OBVIOUS
        <4> HIDE DEF m
        <4> QED BY <1>3, <1>4, <2>1, <4>1, <4>2, RightfulOne DEF AllRightful
      <3> HIDE DEF m
      <3>2. ASSUME NEW p \in Pokes PROVE m2[p] \in PokeParam /\ Rightful(base[p], m[p], m2[p])
        <4>1. m[p] \in PokeParam /\ (p = Aim) \in BOOLEAN
          BY <3>1 DEF Teams
        <4>2. CASE IsExist(m, p)
          <5>1. m2[p] = ChangeTokuseiAfter(m[p], p = Aim)
            BY <4>2
          <5>2. Rightful(base[p], m[p], ChangeTokuseiAfter(m[p], p = Aim))
            BY <1>2, <4>1, <4>2, HandlersRightful DEF IsExist
          <5> QED BY <5>1, <5>2 DEF Rightful
        <4>3. CASE ~IsExist(m, p)
          <5>1. m2[p] = m[p]
            BY <4>3
          <5> QED BY <4>1, <5>1, RightfulSelf
        <4> QED BY <4>2, <4>3
      <3>3. m2 \in Teams
        BY <3>2 DEF Teams
      <3> HIDE DEF m2
      <3> QED BY <3>1, <3>2, <3>3, AllRightfulTwice DEF AllRightful
    <2>2. mon' = IF Reached THEN m2 ELSE Decided
      BY <1>8 DEF WorrySeed, Does
    <2> HIDE DEF m2
    <2> QED BY <1>3, <2>1, <2>2, AllRightfulTwice
  <1>9. CASE ChangeWeather
    BY <1>3, <1>9 DEF ChangeWeather
  <1> QED BY <1>5, <1>6, <1>7, <1>8, <1>9

\* Only what is itself transforms, and from then on it is not itself.
LEMMA TransformForms ==
    ASSUME BattleTyped, TurnInv, Transform
    PROVE  Forms(mon, mon')
PROOF
  <1>1. stack # <<>> /\ Top.at = "action"
    BY DEF Transform, Using, At
  <1>2. Me \in Pokes /\ mon \in Teams /\ IsExist(mon, Me)
    BY <1>1, TopTyped, ActorFit DEF BattleTyped, Teams
  <1>3. /\ AllRightful(mon, Decided) /\ Decided \in Teams /\ Decided[Me] \in PokeParam
        /\ Decided[Me].spot # NoSpot
    BY <1>1, <1>2, DecidedRightful, DecidedSteady, SteadyPlaces
       DEF AllRightful, Teams, SamePlaces, IsExist
  <1> DEFINE t == mon[Aim]
             r == [Decided[Me] EXCEPT !.species = t.species, !.form = t.form,
                                      !.ability = t.ability, !.zen = FALSE, !.hensin = TRUE]
             m == [Decided EXCEPT ![Me] = r]
  <1>4. mon' = Decided \/ (mon' = m /\ ~mon[Me].hensin)
    BY DEF Transform, Does
  <1>5. r.spot # NoSpot /\ r.hensin
    BY <1>3 DEF PokeParam
  <1> HIDE DEF r
  <1>6. m[Me] = r /\ \A p \in Pokes \ {Me} : m[p] = Decided[p]
    BY <1>2, <1>3 DEF Teams
  <1> HIDE DEF m
  <1>7. ASSUME ~mon[Me].hensin PROVE Forms(mon, m)
    <2>1. Own(base[Me], r)
      BY <1>5 DEF Own
    <2>2. AllOwn(mon) => AllOwn(Decided) /\ \A p \in Pokes : mon[p].hensin => Sincere(mon[p], Decided[p])
      BY <1>3, RightfulForms DEF Forms
    <2> QED BY <1>6, <1>7, <2>1, <2>2 DEF Forms, AllOwn
  <1> QED BY <1>3, <1>4, <1>7, RightfulForms

LEMMA FormsAction ==
    ASSUME BattleTyped, TurnInv, Action
    PROVE  Forms(mon, mon')
PROOF
  <1>1. /\ stack # <<>> /\ Me \in Pokes /\ mon \in Teams /\ IsExist(mon, Me)
        /\ \A p \in Pokes : Fresh(base[p])
    BY ActionKeeps, TopTyped, ActorFit, ScenarioTyped DEF BattleTyped, Teams
  <1>2. mon[Me].spot \in Spots \ {NoSpot}
    BY <1>1 DEF Teams, PokeParam, IsExist
  <1>3. AllRightful(mon, Decided)
    BY <1>1, DecidedRightful
  <1>4. CASE HitAndLeave
    <2> DEFINE hit == Hurt(Decided, Aim, 1)
    <2>1. CASE ~Reached
      BY <1>3, <1>4, <2>1, RightfulForms DEF HitAndLeave, Does
    <2>2. CASE Reached
      <3>1. AllRightful(mon, hit) /\ hit \in Teams /\ SamePlaces(mon, hit)
        BY <1>1, <2>2, HitRightful, DecidedThenHurt
      <3>2. CASE Bench(mon, Team[Me]) = {}
        BY <1>4, <2>2, <3>1, <3>2, RightfulForms DEF HitAndLeave, Does
      <3>3. CASE Bench(mon, Team[Me]) # {}
        <4>1. PICK q \in Bench(mon, Team[Me]) : mon' = Enter(Leave(hit, Me), q, mon[Me].spot)
          BY <1>4, <2>2, <3>3 DEF HitAndLeave, Does
        <4> HIDE DEF hit
        <4>2. q \in Pokes /\ ~IsExist(hit, q)
          BY <3>1 DEF Bench, IsExist, SamePlaces
        <4>3. AllRightful(hit, mon')
          BY <1>1, <1>2, <3>1, <4>1, <4>2, SwapRightful
        <4> QED BY <3>1, <4>3, AllRightfulTwice, RightfulForms
      <3> QED BY <3>2, <3>3
    <2> QED BY <2>1, <2>2
  <1>5. CASE PokeChange
    <2>1. mon' = IF Cur.aim \in Bench(mon, Team[Me])
                 THEN Enter(Leave(mon, Me), Cur.aim, mon[Me].spot) ELSE mon
      BY <1>5 DEF PokeChange, Does
    <2>2. ASSUME Cur.aim \in Bench(mon, Team[Me])
          PROVE  AllRightful(mon, Enter(Leave(mon, Me), Cur.aim, mon[Me].spot))
      <3>1. Cur.aim \in Pokes /\ ~IsExist(mon, Cur.aim)
        BY <2>2 DEF Bench
      <3> QED BY <1>1, <1>2, <3>1, SwapRightful
    <2> QED BY <1>1, <2>1, <2>2, AllRightfulSelf, RightfulForms
  <1>6. CASE Escape
    BY <1>1, <1>6, AllRightfulSelf, RightfulForms DEF Escape, Does
  <1>7. CASE MoveFails \/ Pursuit \/ FreeFallStart \/ SkyDropFalls \/ Rage
    BY <1>7, FormsMoves, RightfulForms
  <1>8. CASE KingsShield \/ ThunderWave \/ GastroAcid \/ WorrySeed \/ ChangeWeather
    BY <1>8, FormsOthers, RightfulForms
  <1>9. CASE Transform
    BY <1>9, TransformForms
  <1> QED BY <1>4, <1>5, <1>6, <1>7, <1>8, <1>9 DEF Action

LEMMA FormsCore ==
    ASSUME BattleTyped, Core
    PROVE  Forms(mon, mon')
PROOF
  <1>1. /\ mon \in Teams /\ \A p \in Pokes : mon[p] \in PokeParam
        /\ \A p \in Pokes : Fresh(base[p])
    BY ScenarioTyped DEF BattleTyped, Teams
  <1>2. CASE EventActProcEnd
    <2>1. ASSUME NEW p \in Pokes PROVE mon'[p] \in PokeParam /\ Rightful(base[p], mon[p], mon'[p])
      <3>1. CASE IsExist(mon, p)
        <4>1. mon'[p] = ActProcEnd(mon[p])
          BY <1>2, <3>1 DEF EventActProcEnd
        <4>2. Rightful(base[p], mon[p], ActProcEnd(mon[p]))
          BY <1>1, <3>1, HandlersRightful DEF IsExist
        <4> QED BY <4>1, <4>2 DEF Rightful
      <3>2. CASE ~IsExist(mon, p)
        <4>1. mon'[p] = mon[p]
          BY <1>2, <3>2 DEF EventActProcEnd
        <4> QED BY <1>1, <4>1, RightfulSelf
      <3> QED BY <3>1, <3>2
    <2>2. mon' \in Teams
      BY <1>2, <2>1 DEF Teams, EventActProcEnd
    <2>3. AllRightful(mon, mon')
      BY <2>1, <2>2 DEF AllRightful
    <2> QED BY <2>3, RightfulForms
  <1>3. CASE Cancelled
    <2>1. Me \in Pokes /\ mon' = [mon EXCEPT ![Me] = [mon[Me] EXCEPT !.mamoru = 0]]
      BY <1>3, TopTyped DEF Cancelled, At
    <2>2. Rightful(base[Me], mon[Me], [mon[Me] EXCEPT !.mamoru = 0])
      BY <1>1, <2>1, RecordsRightful
    <2> QED BY <1>1, <2>1, <2>2, RightfulOne, RightfulForms
  <1>4. CASE PursuitInterrupt \/ PursuitDone \/ ActionCheer \/ Missing \/ ActProcStart
    BY <1>1, <1>4, AllRightfulSelf, RightfulForms
       DEF PursuitInterrupt, PursuitDone, ActionCheer, Missing, ActProcStart
  <1> QED BY <1>2, <1>3, <1>4 DEF Core

\* At the end of the turn the form shows the hit points.
LEMMA FormsTurnCheck ==
    ASSUME BattleTyped, TurnCheckDoneEvent
    PROVE  AllRightful(mon, mon') /\ \A p \in Pokes : Shown(mon'[p])
PROOF
  <1>1. /\ mon \in Teams /\ \A p \in Pokes : mon[p] \in PokeParam
        /\ \A p \in Pokes : Fresh(base[p])
    BY ScenarioTyped DEF BattleTyped, Teams
  <1>2. ASSUME NEW p \in Pokes
        PROVE  mon'[p] \in PokeParam /\ Rightful(base[p], mon[p], mon'[p]) /\ Shown(mon'[p])
    <2>1. CASE p \in Fielded
      <3> DEFINE r  == TurnCheckDone(mon[p])
                 r2 == [r EXCEPT !.protect = FALSE]
      <3>1. Rightful(base[p], mon[p], r) /\ r \in PokeParam
        BY <1>1, <2>1, HandlersRightful DEF Fielded, IsExist, Rightful
      <3>2. Shown(r)
        <4>1. \/ mon[p].ability = "Shields Down" /\ r = AdjustShieldsDownForm(mon[p])
              \/ mon[p].ability = "Schooling" /\ r = AdjustSchoolingForm(mon[p])
              \/ r.ability \notin {"Shields Down", "Schooling"}
          <5>1. mon[p].ability = "Shields Down" => r = AdjustShieldsDownForm(mon[p])
            BY DEF TurnCheckDone
          <5>2. mon[p].ability = "Schooling" => r = AdjustSchoolingForm(mon[p])
            BY DEF TurnCheckDone
          <5>3. Reformed(mon[p], r)
            BY <1>1, AbilitiesReform
          <5> HIDE DEF r
          <5>4. r.ability = mon[p].ability
            BY <1>1, <5>3, ReformedKeeps
          <5> QED BY <5>1, <5>2, <5>4
        <4> HIDE DEF r
        <4> QED BY <1>1, <3>1, <4>1, AbilitiesShow
      <3>3. mon'[p] = r2
        BY <2>1 DEF TurnCheckDoneEvent
      <3> HIDE DEF r
      <3>4. Rightful(base[p], r, r2) /\ r2 \in PokeParam
        BY <3>1, RecordsRightful DEF Rightful
      <3>5. SameForm(r, r2) /\ r2.hp = r.hp /\ r2.spot = r.spot
        BY <3>1 DEF PokeParam, SameForm
      <3> HIDE DEF r2
      <3>6. Shown(r2)
        BY <3>2, <3>5 DEF SameForm, Shown, FindNextMiniorForm, FindNextWishiwashiForm
      <3>7. Rightful(base[p], mon[p], r2)
        BY <3>1, <3>4, RightfulTwice
      <3> QED BY <3>3, <3>4, <3>6, <3>7
    <2>2. CASE p \notin Fielded
      <3>1. mon'[p] = mon[p]
        BY <2>2 DEF TurnCheckDoneEvent
      <3>2. mon[p].spot = NoSpot \/ ~(mon[p].hp > 0)
        BY <2>2 DEF Fielded, IsExist, Alive
      <3> QED BY <1>1, <3>1, <3>2, RightfulSelf DEF Shown
    <2> QED BY <2>1, <2>2
  <1>3. mon' \in Teams
    BY <1>2 DEF Teams, TurnCheckDoneEvent
  <1> QED BY <1>2, <1>3 DEF AllRightful

LEMMA FormsRefill ==
    ASSUME BattleTyped, Refill
    PROVE  /\ AllRightful(mon, mon')
           /\ AllOwn(mon) /\ (\A p \in Pokes : Shown(mon[p])) => \A p \in Pokes : Shown(mon'[p])
PROOF
  <1>1. mon \in Teams /\ \A p \in Pokes : Fresh(base[p])
    BY ScenarioTyped DEF BattleTyped, Teams
  <1>2. PICK p \in Pokes :
          /\ mon[p].spot # NoSpot
          /\ \/ mon' = Leave(mon, p)
             \/ \E q \in Bench(Leave(mon, p), Team[p]) : mon' = Enter(Leave(mon, p), q, mon[p].spot)
    BY DEF Refill, Fallen, IsExist
  <1> DEFINE l == Leave(mon, p)
  <1>3. /\ l \in Teams /\ AllRightful(mon, l) /\ mon[p].spot \in Spots \ {NoSpot}
        /\ \A x \in Pokes : Shown(mon[x]) => Shown(l[x])
    BY <1>1, <1>2, LeaveKeeps, LeaveRightful, LeaveShows DEF Teams, PokeParam
  <1>4. mon' = l \/ \E q \in Bench(l, Team[p]) : mon' = Enter(l, q, mon[p].spot)
    BY <1>2
  <1> HIDE DEF l
  <1>5. AllOwn(mon) => AllOwn(l)
    BY <1>3, RightfulForms DEF Forms
  <1>6. ASSUME NEW q \in Bench(l, Team[p]), mon' = Enter(l, q, mon[p].spot)
        PROVE  /\ AllRightful(l, mon')
               /\ AllOwn(l) => \A x \in Pokes : Shown(l[x]) => Shown(mon'[x])
    <2>1. q \in Pokes /\ ~IsExist(l, q)
      BY DEF Bench
    <2> QED BY <1>1, <1>3, <1>6, <2>1, EnterRightful
  <1> QED BY <1>3, <1>4, <1>5, <1>6, AllRightfulTwice

LEMMA FormsWeather ==
    ASSUME BattleTyped, TurnCheckWeather
    PROVE  AllRightful(mon, mon')
PROOF
  <1>1. mon \in Teams /\ \A p \in Pokes : mon[p] \in PokeParam
    BY DEF BattleTyped, Teams
  <1> DEFINE m == [p \in Pokes |-> IF p \in Fielded /\ ~mon[p].sky
                                   THEN Wounded(mon[p], RecvWeatherDamage(p)) ELSE mon[p]]
  <1>2. ASSUME NEW p \in Pokes PROVE m[p] \in PokeParam /\ Rightful(base[p], mon[p], m[p])
    <2>1. RecvWeatherDamage(p) \in Nat
      BY MaxHpAssumption DEF RecvWeatherDamage
    <2>2. /\ Rightful(base[p], mon[p], mon[p])
          /\ Rightful(base[p], mon[p], Wounded(mon[p], RecvWeatherDamage(p)))
      BY <1>1, <2>1, RightfulSelf, WoundRightful
    <2>3. m[p] = mon[p] \/ m[p] = Wounded(mon[p], RecvWeatherDamage(p))
      OBVIOUS
    <2> HIDE DEF m
    <2> QED BY <2>2, <2>3 DEF Rightful
  <1>3. m \in Teams
    BY <1>2 DEF Teams
  <1>4. mon' = mon \/ mon' = FreeFallRelease(m, {p \in Pokes : ~Alive(m, p)})
    BY DEF TurnCheckWeather, Faint
  <1> HIDE DEF m
  <1>5. AllRightful(mon, m)
    BY <1>2, <1>3 DEF AllRightful
  <1>6. \A S : AllRightful(m, FreeFallRelease(m, S))
    BY <1>3, ReleaseRightful
  <1> QED BY <1>1, <1>4, <1>5, <1>6, AllRightfulSelf, AllRightfulTwice

LEMMA FormsInit ==
    ASSUME Init
    PROVE  FormInv
PROOF
  <1>1. battle \in DOMAIN Scenarios
    BY DEF Init
  <1>2. ASSUME NEW p \in Pokes PROVE Own(base[p], mon[p]) /\ Shown(mon[p])
    <2>1. Fresh(base[p]) /\ base[p] \in PokeParam /\ This.line[p] \in Spots /\ base[p].spot = NoSpot
      BY <1>1, ScenarioTyped DEF Fresh
    <2>2. mon[p] = IF This.line[p] = NoSpot THEN base[p]
                   ELSE MemberInComp(MemberInEvo([base[p] EXCEPT !.spot = This.line[p]]))
      BY DEF Init
    <2>3. SameForm(base[p], base[p])
      BY DEF SameForm
    <2>4. CASE This.line[p] = NoSpot
      BY <2>1, <2>2, <2>3, <2>4 DEF Own, Shown
    <2>5. CASE This.line[p] # NoSpot
      BY <2>1, <2>2, <2>3, <2>5, Arrives
    <2> QED BY <2>4, <2>5
  <1> QED BY <1>2 DEF FormInv

LEMMA FormsStep ==
    ASSUME BattleTyped, TurnInv, FormInv, [Next]_vars
    PROVE  FormInv' /\ \A p \in Pokes : mon[p].hensin => Sincere(mon[p], mon'[p])
PROOF
  <1>1. AllOwn(mon) /\ mon \in Teams
    BY DEF FormInv, AllOwn, BattleTyped, Teams
  <1>2. Forms(mon, mon) /\ (stack # <<>> => phase = "act")
    BY <1>1, AllRightfulSelf, RightfulForms DEF BattleTyped
  <1>3. /\ Forms(mon, mon') /\ battle' = battle
        /\ phase' \in {"refill", "choose"} => \A p \in Pokes : Shown(mon'[p])
    <2>1. CASE UNCHANGED vars
      <3>1. mon' = mon /\ battle' = battle /\ phase' = phase
        BY <2>1 DEF vars
      <3> QED BY <1>2, <3>1 DEF FormInv
    <2>2. CASE Core
      <3>1. battle' = battle /\ phase' = phase /\ stack # <<>>
        BY <2>2 DEF Core, PursuitInterrupt, PursuitDone, ActionCheer, Missing, Cancelled,
                    ActProcStart, EventActProcEnd, At
      <3> QED BY <1>2, <2>2, <3>1, FormsCore
    <2>3. CASE Action
      <3>1. battle' = battle /\ (phase' = phase \/ phase' = "over") /\ stack # <<>>
        BY <2>3, ActionKeeps
      <3> QED BY <1>2, <2>3, <3>1, FormsAction
    <2>4. CASE Engine
      <3>1. CASE TurnCheckWeather
        <4>1. battle' = battle /\ phase' = "check"
          BY <3>1 DEF TurnCheckWeather
        <4> QED BY <3>1, <4>1, FormsWeather, RightfulForms
      <3>2. CASE TurnCheckDoneEvent
        <4>1. battle' = battle
          BY <3>2 DEF TurnCheckDoneEvent
        <4> QED BY <3>2, <4>1, FormsTurnCheck, RightfulForms
      <3>3. CASE Refill
        <4>1. battle' = battle /\ phase = "refill"
          BY <3>3 DEF Refill
        <4>2. \A p \in Pokes : Shown(mon[p])
          BY <4>1 DEF FormInv
        <4> QED BY <1>1, <3>3, <4>1, <4>2, FormsRefill, RightfulForms
      <3>4. CASE Choose \/ TurnStarts \/ ProcessAction \/ NextTurn
        <4>1. /\ mon' = mon /\ battle' = battle
              /\ phase' \in {"refill", "choose"} => phase \in {"refill", "choose"}
          BY <3>4 DEF Choose, TurnStarts, ProcessAction, NextTurn
        <4> QED BY <1>2, <4>1 DEF FormInv
      <3> QED BY <2>4, <3>1, <3>2, <3>3, <3>4 DEF Engine
    <2> QED BY <2>1, <2>2, <2>3, <2>4 DEF Next
  <1>4. base' = base
    BY <1>3 DEF base, This
  <1>5. (\A p \in Pokes : Own(base[p], mon'[p])) /\ \A p \in Pokes : mon[p].hensin => Sincere(mon[p], mon'[p])
    BY <1>1, <1>3 DEF Forms, AllOwn
  <1>6. \A p \in Pokes : Own(base'[p], mon'[p])
    BY <1>4, <1>5
  <1>7. FormInv'
    BY <1>3, <1>6 DEF FormInv, Own, Shown, SameForm
  <1> QED BY <1>5, <1>7

LEMMA Shares ==
    ASSUME NEW h \in Nat
    PROVE  /\ h <= QuotMaxHP(2) <=> 2 * h <= MaxHp
           /\ h > QuotMaxHP(4) <=> 4 * h > MaxHp
BY MaxHpAssumption DEF QuotMaxHP

LEMMA FormsFit ==
    ASSUME BattleTyped, FormInv
    PROVE  FormFitsHp
PROOF
  <1> SUFFICES ASSUME NEW p \in Fielded, ~mon[p].hensin
               PROVE  LET m == mon[p] IN
                      /\ phase = "choose" /\ m.species = "Minior" /\ m.ability = "Shields Down" =>
                           m.form = Colour(base[p].form) + (IF 2 * m.hp <= MaxHp THEN Colours ELSE 0)
                      /\ phase = "choose" /\ m.species = "Wishiwashi" /\ m.ability = "Schooling" =>
                           m.form = IF m.level >= SchoolLevel /\ 4 * m.hp > MaxHp THEN 1 ELSE 0
                      /\ m.species = "Darmanitan" /\ m.ability = "Zen Mode" =>
                           m.zen /\ m.form = base[p].form + 1
    BY DEF FormFitsHp
  <1>1. p \in Pokes /\ mon[p].spot # NoSpot /\ mon[p].hp > 0 /\ mon[p].hp \in Nat /\ mon[p].form \in MiniorForms
    BY MaxHpAssumption DEF Fielded, IsExist, Alive, BattleTyped, PokeParam
  <1>2. Own(base[p], mon[p]) /\ (phase = "choose" => Shown(mon[p]))
    BY <1>1 DEF FormInv
  <1>3. /\ mon[p].hp <= QuotMaxHP(2) <=> 2 * mon[p].hp <= MaxHp
        /\ mon[p].hp > QuotMaxHP(4) <=> 4 * mon[p].hp > MaxHp
    BY <1>1, Shares
  <1>4. ASSUME phase = "choose", mon[p].species = "Minior", mon[p].ability = "Shields Down"
        PROVE  mon[p].form = Colour(base[p].form) + (IF 2 * mon[p].hp <= MaxHp THEN Colours ELSE 0)
    <2>1. mon[p].form = FindNextMiniorForm(mon[p]) /\ Colour(mon[p].form) = Colour(base[p].form)
      BY <1>1, <1>2, <1>4 DEF Shown, Own
    <2> QED BY <1>1, <1>3, <2>1 DEF FindNextMiniorForm
  <1>5. ASSUME phase = "choose", mon[p].species = "Wishiwashi", mon[p].ability = "Schooling"
        PROVE  mon[p].form = IF mon[p].level >= SchoolLevel /\ 4 * mon[p].hp > MaxHp THEN 1 ELSE 0
    <2>1. mon[p].form = FindNextWishiwashiForm(mon[p])
      BY <1>1, <1>2, <1>5 DEF Shown
    <2> QED BY <1>3, <2>1 DEF FindNextWishiwashiForm
  <1>6. ASSUME mon[p].species = "Darmanitan", mon[p].ability = "Zen Mode"
        PROVE  mon[p].zen /\ mon[p].form = base[p].form + 1
    BY <1>1, <1>2, <1>6 DEF Own
  <1> QED BY <1>4, <1>5, <1>6

LEMMA FormsHold == Spec => [](BattleTyped /\ TurnInv /\ FormInv)
PROOF
  <1>1. Init => BattleTyped /\ TurnInv /\ FormInv
    BY TypedInit, TurnInit, FormsInit
  <1>2. (BattleTyped /\ TurnInv /\ FormInv) /\ [Next]_vars => (BattleTyped /\ TurnInv /\ FormInv)'
    BY TypedStep, TurnStep, FormsStep
  <1> QED BY <1>1, <1>2, PTL DEF Spec

\* The form is that of the hit points whenever actions are chosen, a Minior
\* keeps its colour, Zen Mode its form and its work value (the handlers of
\* shields_down.cpp, schooling.cpp and zen_mode.cpp), and what a Pokemon has
\* copied none of them changes: only Stance Change does not ask for that.
THEOREM FormsFollow == Spec => FormFollows
PROOF
  <1> DEFINE Kept == \A p \in Pokes : mon[p].hensin /\ mon'[p].hensin /\ mon[p].species # "Aegislash" =>
                       mon'[p].form = mon[p].form
  <1>1. BattleTyped /\ FormInv => FormFitsHp
    BY FormsFit
  <1>2. BattleTyped /\ TurnInv /\ FormInv /\ [Next]_vars => Kept
    BY FormsStep DEF Sincere
  <1>3. BattleTyped /\ TurnInv /\ FormInv /\ [Next]_vars => [Kept]_vars
    BY <1>2
  <1>4. Spec => []FormFitsHp
    BY <1>1, FormsHold, PTL
  <1>5. Spec => TransformedKeepsForm
    BY <1>3, FormsHold, PTL DEF Spec, TransformedKeepsForm
  <1> QED BY <1>4, <1>5 DEF FormFollows

===============================================================================
