---------------------------- MODULE FormAbilities -----------------------------
(***************************************************************************)
(* Abilities of the mod that change the form of their holder in a battle,  *)
(* as operators over the Pokemon's record: zen_mode.cpp, shields_down.cpp, *)
(* schooling.cpp and stance_change.cpp.  Forms are the numbers of          *)
(* Form_Enums.h.  One operator per event that the handler tables name; the *)
(* battle engine (BattleTurn) says when events happen.                     *)
(***************************************************************************)
EXTENDS Integers

CONSTANTS
    MaxHp,          \* hit points of every Pokemon at full health
    SchoolLevel     \* level from which a Wishiwashi schools (20)

ASSUME MaxHpAssumption == MaxHp \in Nat \ {0}

\* The forms of the species, as in the enumerations.
MiniorForms     == 0 .. 13          \* seven meteors, then seven cores by colour
DarmanitanForms == 0 .. 3           \* standard and zen of Unova, then of Galar
Colours         == 7

Colour(form)   == form % Colours
IsMeteor(form) == form < Colours

\* calc::QuotMaxHP_Zero: a share of the full hit points, which may be zero.
QuotMaxHP(denom) == MaxHp \div denom

(***************************************************************************)
(* Whether and how the form changes.                                       *)
(***************************************************************************)

\* Mutant: a Pokemon that has transformed changes as well.
CanChangeAnyForm(m, species, next) == m.species = species /\ m.form # next

\* ...CanChangeForm: the species is the ability's, the Pokemon is itself and
\* the form is another one.
CanChangeForm(m, species, next) ==
    m.species = species /\ ~m.hensin /\ m.form # next

ChangeForm(m, species, next) ==
    IF CanChangeForm(m, species, next) THEN [m EXCEPT !.form = next] ELSE m

\* Mutant: a core is taken for a meteor.
FindCoreOfMeteor(m) ==
    IF m.form \notin MiniorForms THEN m.form
    ELSE m.form + (IF m.hp <= QuotMaxHP(2) THEN Colours ELSE 0)

FindNextMiniorForm(m) ==
    IF m.form \notin MiniorForms THEN m.form
    ELSE Colour(m.form) + (IF m.hp <= QuotMaxHP(2) THEN Colours ELSE 0)

FindNextWishiwashiForm(m) ==
    IF m.level >= SchoolLevel /\ m.hp > QuotMaxHP(4) THEN 1 ELSE 0

FindZenDarmanitanForm(m) ==
    IF m.form \in DarmanitanForms THEN m.form - (m.form % 2) + 1 ELSE m.form

FindStandardDarmanitanForm(m) ==
    IF m.form \in DarmanitanForms THEN m.form - (m.form % 2) ELSE m.form

AdjustShieldsDownForm(m) == ChangeForm(m, "Minior", FindNextMiniorForm(m))
AdjustSchoolingForm(m)   == ChangeForm(m, "Wishiwashi", FindNextWishiwashiForm(m))
AdjustZenModeForm(m)     == ChangeForm(m, "Darmanitan", FindZenDarmanitanForm(m))
DisableZenMode(m)        == ChangeForm(m, "Darmanitan", FindStandardDarmanitanForm(m))

(***************************************************************************)
(* The handlers, by event.  m.ability is the ability in force; m.zen is    *)
(* work value A of the handlers of Zen Mode.                               *)
(***************************************************************************)

\* Mutant: the work value is not set.
ZenModeForgets(m) == AdjustZenModeForm(m)

\* HandlerZenModeLumiMemberInComp: also sets the work value when the form
\* has changed.
ZenModeMemberInComp(m) ==
    IF CanChangeForm(m, "Darmanitan", FindZenDarmanitanForm(m))
    THEN [AdjustZenModeForm(m) EXCEPT !.zen = TRUE]
    ELSE m

\* MEMBER_IN_EVO, for the Pokemon that has come in.
MemberInEvo(m) ==
    CASE m.ability = "Shields Down" -> AdjustShieldsDownForm(m)
      [] m.ability = "Schooling"    -> AdjustSchoolingForm(m)
      [] OTHER                      -> m

\* MEMBER_IN_COMP: the handler does not ask who has come in.
MemberInComp(m) ==
    IF m.ability = "Zen Mode" THEN ZenModeMemberInComp(m) ELSE m

\* CHANGE_TOKUSEI_AFTER: "!= pokeID", so it reacts to the others.
ChangeTokuseiAfter(m, own) ==
    IF m.ability = "Zen Mode" /\ ~own THEN ZenModeMemberInComp(m) ELSE m

\* TOKUSEI_DISABLE, for the Pokemon whose ability is being disabled.
TokuseiDisable(m) ==
    IF m.ability = "Zen Mode" /\ m.zen THEN DisableZenMode(m) ELSE m

\* ACTPROC_END, whoever has acted.
ActProcEnd(m) ==
    IF m.ability = "Zen Mode" /\ m.zen THEN AdjustZenModeForm(m) ELSE m

\* Mutant: a school does not break up.
TurnCheckNoSchool(m) ==
    CASE m.ability = "Shields Down"      -> AdjustShieldsDownForm(m)
      [] m.ability = "Zen Mode" /\ m.zen -> AdjustZenModeForm(m)
      [] OTHER                           -> m

\* TURNCHECK_DONE.
TurnCheckDone(m) ==
    CASE m.ability = "Shields Down"      -> AdjustShieldsDownForm(m)
      [] m.ability = "Schooling"         -> AdjustSchoolingForm(m)
      [] m.ability = "Zen Mode" /\ m.zen -> AdjustZenModeForm(m)
      [] OTHER                           -> m

\* WAZA_CALL_DECIDE of the attacker: the only change that does not ask
\* whether the Pokemon is itself.
StanceChange(m, damaging, shield) ==
    IF m.ability = "Stance Change" /\ m.species = "Aegislash"
    THEN [m EXCEPT !.form = IF damaging THEN 1 ELSE IF shield THEN 0 ELSE @]
    ELSE m

\* ADDSICK_CHECKFAIL: a meteor is guarded from every sickness that lasts.
IsMeteorMinior(m)    == m.species = "Minior" /\ ~m.hensin /\ m.form \in 0 .. Colours - 1
AddSickCheckFail(m)  == m.ability = "Shields Down" /\ IsMeteorMinior(m)
===============================================================================
