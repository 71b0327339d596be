----------------------------- MODULE MCRelocation -----------------------------
(***************************************************************************)
(* Small instances of Relocation for TLC.  Distances are scaled down: a    *)
(* trampoline of 50 words is still far shorter than every range, and every *)
(* range far shorter than the distance of a far trampoline.                *)
(***************************************************************************)
EXTENDS Relocation

I(ops, tos) == [op : ops, to : tos]
P(h, t, c)  == [hook |-> h, tramp |-> t, callback |-> c]

MCHalf == [op \in PcRelative |-> IF op \in Branches THEN 512 ELSE 128]

\* The callback out of the reach of a branch: four or five instructions move, to
\* a trampoline far away or near, with every alignment of both.
Far(tramps, callback) == {P(h, t, callback) : h \in {4000, 4001}, t \in tramps}
LoopPlaces    == Far({16001, 4300}, 20000)
OperandPlaces == Far({16000, 16001, 4300}, 20002)

\* Everything within the reach of a branch, and the trampoline also within the
\* reach of the other operands, before or after: one instruction moves.
NearPlaces == {P(h, t, 4320) : h \in {4000, 4063}, t \in {3940, 4100, 4300, 4301, 4303}}
AllPlaces  == LoopPlaces \cup OperandPlaces \cup NearPlaces

Loops    == I({"plain"}, {0}) \cup I({"b", "cond"}, 0..4)
Operands == I({"plain"}, {0}) \cup I({"bl"}, {2, 60}) \cup I({"ldrw", "ldrq"}, {100})
              \cup I({"ldrx"}, {3}) \cup I({"adr"}, {30}) \cup I({"adr2"}, {3}) \cup I({"adrp"}, {0})
              \cup I({"prfm"}, {9})
Singles  == I({"plain", "prfm"}, {0}) \cup I(PcRelative, -100..100) \cup I({"adrp"}, -2..2)

AllCode  == [p \in AllPlaces |-> CASE p \in LoopPlaces    -> Loops
                                   [] p \in OperandPlaces -> Operands
                                   [] p \in NearPlaces    -> Singles]
AllKinds == [p \in AllPlaces |-> IF p \in NearPlaces THEN {"replace", "trampoline", "inline"}
                                                     ELSE {"trampoline"}]

\* Branches backwards.
BackwardCode == [p \in LoopPlaces |-> I({"plain"}, {0}) \cup I({"cond", "test"}, {-20, 0, 2})]
Trampolines  == [p \in LoopPlaces |-> {"trampoline"}]
=============================================================================
