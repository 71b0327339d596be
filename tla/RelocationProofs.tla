--------------------------- MODULE RelocationProofs ---------------------------
(***************************************************************************)
(* What holds of every hook, wherever it is installed and whatever code it *)
(* overwrites: the relocated code fits into its row of the hook pool, only *)
(* words of that row are fixed up later, the patch overwrites no more than *)
(* what has been relocated, and the trampoline runs what was overwritten   *)
(* as the original.                                                        *)
(*                                                                         *)
(* The first half proves RelocInv, of words and of how many there are.     *)
(* The second half adds EffectInv, of what the words do: each turn of the  *)
(* loop keeps the effect of the instructions before (EffectsStay) and adds *)
(* that of its own (NearTurn, FarTurn).                                    *)
(***************************************************************************)
EXTENDS Relocation, SequenceTheorems, TLAPS

\* The longest relocation of one instruction: three NOPs, a load, a branch and
\* a literal of four words.
Longest == 9

\* Before the jump back, each instruction has relocated to at most nine words;
\* the jump back takes five, with its NOP.
RowUsed == Len(out) <= Longest * Len(prog) + (IF phase = "relocate" THEN 0 ELSE 5)

\* Every relocated instruction has a start, and a word that waits for a fix is
\* one with a displacement.
Progress ==
  /\ Len(prog) <= count
  /\ phase = "relocate" => Len(ins) = Len(prog)
  /\ \A k \in 1..MaxInstructions : \A q \in fixes[k] : out[q].op \in PcRelative

RelocInv == TypeOK /\ Progress /\ RowUsed /\ HookLands

\* A turn of the loop emits at most nine words; a fix it leaves is for the one
\* word of a near relocation.
NewFix(words) ==
  /\ Len(words) = 1 /\ words[1].op \in PcRelative
  /\ \E k \in 1..MaxInstructions : fixes' = [fixes EXCEPT ![k] = @ \cup {Len(out) + 1}]
Emits(i, start, words) ==
  /\ Len(words) <= Longest
  /\ Emit(i, start, words)
  /\ fixes' = fixes \/ NewFix(words)
Emission(i) == \E start \in Int, words \in Seq(Words) : Emits(i, start, words)

-----------------------------------------------------------------------------
(* Lemmas about the operators. *)

\* The three addresses of a hook are numbers.
LEMMA PlaceTyped ==
  ASSUME place \in Places
  PROVE  hook \in Int /\ place.tramp \in Int /\ place.callback \in Int
  BY RelocationAssumption DEF RelocationAssumption, hook

\* A hook overwrites one instruction, or four or five.
LEMMA CountValues ==
  ASSUME place \in Places
  PROVE  count \in {1, 4, 5}
  BY DEF count

\* The displacement field of a PC-relative instruction holds a number.
LEMMA EncodedInt ==
  ASSUME NEW op \in PcRelative, NEW d \in Int
  PROVE  Encoded(op, d) \in Int
  <1>1. Half[op] \in Nat \ {0}
    BY RelocationAssumption DEF RelocationAssumption
  <1>2. 2 * Half[op] \in Int /\ 2 * Half[op] > 0
    BY <1>1
  <1>3. (d + Half[op]) % (2 * Half[op]) \in Int
    BY <1>1, <1>2
  <1> QED BY <1>1, <1>3 DEF Encoded

\* Alignment to n words takes fewer than n NOPs.
LEMMA PaddingRange ==
  ASSUME NEW a \in Int, NEW k \in Int, NEW n \in {1, 2, 4}
  PROVE  Padding(a, k, n) \in 0..(n - 1)
  <1>1. CASE n = 1 BY <1>1 DEF Padding
  <1>2. CASE n = 2 BY <1>2 DEF Padding
  <1>3. CASE n = 4 BY <1>3 DEF Padding
  <1> QED BY <1>1, <1>2, <1>3

\* NOPs are words, as many as asked for.
LEMMA NopsSeq ==
  ASSUME NEW n \in Nat
  PROVE  Nops(n) \in Seq(Words) /\ Len(Nops(n)) = n
  <1>1. Nop \in Words
    BY DEF Nop, Word, Words, WordOps
  <1> QED BY <1>1 DEF Nops

\* The length of two pieces in a row is the sum of theirs.
LEMMA ConcatLen ==
  ASSUME NEW s \in Seq(Words), NEW t \in Seq(Words)
  PROVE  /\ s \o t \in Seq(Words) /\ Len(s \o t) = Len(s) + Len(t)
         /\ Len(s) \in Nat /\ Len(t) \in Nat
  BY ConcatProperties

\* At most three NOPs, and then some words.
LEMMA Padded ==
  ASSUME NEW n \in 0..3, NEW words \in Seq(Words)
  PROVE  /\ Nops(n) \o words \in Seq(Words)
         /\ Len(Nops(n) \o words) <= 3 + Len(words)
         /\ Len(words) \in Nat
  <1> DEFINE nops == Nops(n)
  <1>1. nops \in Seq(Words) /\ Len(nops) <= 3
    <2>1. n \in Nat
      OBVIOUS
    <2> QED BY <2>1, NopsSeq
  <1> HIDE DEF nops
  <1>2. /\ nops \o words \in Seq(Words)
        /\ Len(nops \o words) = Len(nops) + Len(words)
        /\ Len(words) \in Nat /\ Len(nops) \in Nat
    BY <1>1, ConcatLen
  <1> QED BY <1>1, <1>2 DEF nops

\* The jump takes four words.
LEMMA JumpSeq ==
  ASSUME NEW a \in Int
  PROVE  Jump(a) \in Seq(Words) /\ Len(Jump(a)) <= 4
  BY DEF Jump, Word, Words, WordOps, Data

\* So does loading an address into a register.
LEMMA SetRegisterSeq ==
  ASSUME NEW a \in Int
  PROVE  SetRegister(a) \in Seq(Words) /\ Len(SetRegister(a)) <= 4
  BY DEF SetRegister, Word, Words, WordOps, Data, Ops, PcRelative, Branches

\* A fix changes the displacement of words, not their number or what they are.
LEMMA FixedSeq ==
  ASSUME place \in Places, NEW words \in Seq(Words), NEW start \in Int,
         \A q \in fixes[Index] : q \in DOMAIN words => words[q].op \in PcRelative
  PROVE  /\ Fixed(words, start) \in Seq(Words)
         /\ Len(Fixed(words, start)) = Len(words)
         /\ \A q \in 1..Len(words) : Fixed(words, start)[q].op = words[q].op
  <1> DEFINE F == Fixed(words, start)
  <1>1. DOMAIN words = 1..Len(words) /\ Len(words) \in Nat
    OBVIOUS
  <1>2. F = [q \in 1..Len(words) |-> F[q]]
    BY <1>1 DEF Fixed
  <1>3. ASSUME NEW q \in 1..Len(words)
        PROVE  F[q] \in Words /\ F[q].op = words[q].op
    <2>1. words[q] \in Words
      OBVIOUS
    <2>2. CASE q \notin fixes[Index]
      BY <1>1, <2>1, <2>2 DEF Fixed
    <2>3. CASE q \in fixes[Index]
      <3>1. words[q].op \in PcRelative /\ words[q].op \in WordOps
        BY <1>1, <2>1, <2>3 DEF Words
      <3>2. start - (place.tramp + q - 1) \in Int
        BY PlaceTyped
      <3>3. Encoded(words[q].op, start - (place.tramp + q - 1)) \in Int
        BY <3>1, <3>2, EncodedInt
      <3>4. F[q] = Word(words[q].op, Encoded(words[q].op, start - (place.tramp + q - 1)))
        BY <1>1, <2>3 DEF Fixed
      <3> QED BY <3>1, <3>3, <3>4 DEF Word, Words
    <2> QED BY <2>2, <2>3
  <1> HIDE DEF F
  <1>4. F \in Seq(Words) /\ Len(F) = Len(words)
    BY <1>1, <1>2, <1>3
  <1> QED BY <1>3, <1>4 DEF F

-----------------------------------------------------------------------------
(* One turn of the loop. *)

\* Every emission keeps the invariant.
LEMMA EmissionInv ==
  ASSUME RelocInv, phase = "relocate", Len(prog) < count,
         NEW i \in Instructions, Emission(i)
  PROVE  RelocInv'
  <1>1. PICK start \in Int, words \in Seq(Words) :
          /\ Len(words) <= Longest
          /\ Emit(i, start, words)
          /\ fixes' = fixes \/ NewFix(words)
    BY DEF Emission, Emits
  <1> DEFINE whole == out \o words
  <1>2. /\ prog \in Seq(Instructions) /\ out \in Seq(Words) /\ ins \in Seq(Int)
        /\ place \in Places
        /\ fixes \in [1..MaxInstructions -> SUBSET (1..Len(out))]
        /\ Len(ins) = Len(prog) /\ Len(out) <= Longest * Len(prog)
    BY DEF RelocInv, TypeOK, Progress, RowUsed, Longest
  <1>3. count \in 1..5 /\ Index \in 1..MaxInstructions
    BY <1>2, CountValues DEF Index, MaxInstructions
  <1>4. /\ whole \in Seq(Words)
        /\ Len(whole) = Len(out) + Len(words)
        /\ \A q \in 1..Len(out) : whole[q] = out[q]
        /\ Len(words) = 1 => whole[Len(out) + 1] = words[1]
    BY <1>2, ConcatProperties
  <1>5. \A q \in fixes[Index] : whole[q].op \in PcRelative
    BY <1>2, <1>3, <1>4 DEF RelocInv, Progress
  <1>6. out' = Fixed(whole, start)
    BY <1>1 DEF Emit
  <1> HIDE DEF whole
  <1>7. /\ out' \in Seq(Words)
        /\ Len(out') = Len(out) + Len(words)
        /\ \A q \in 1..Len(whole) : out'[q].op = whole[q].op
    BY <1>2, <1>4, <1>5, <1>6, FixedSeq
  <1>8. /\ prog' = Append(prog, i) /\ ins' = Append(ins, start)
        /\ UNCHANGED <<place, kind, phase, patched, entry>>
    BY <1>1 DEF Emit
  <1>9. /\ prog' \in Seq(Instructions) /\ Len(prog') = Len(prog) + 1
        /\ ins' \in Seq(Int) /\ Len(ins') = Len(ins) + 1
    BY <1>2, <1>8
  <1>10. /\ fixes' \in [1..MaxInstructions -> SUBSET (1..Len(out'))]
         /\ \A k \in 1..MaxInstructions : \A q \in fixes'[k] : out'[q].op \in PcRelative
    <2>1. Len(words) \in Nat /\ Len(out) \in Nat
      BY <1>2
    <2>2. 1..Len(out) \subseteq 1..Len(out')
      BY <1>7, <2>1
    <2>3. \A q \in 1..Len(out) : out'[q].op = out[q].op
      BY <1>4, <1>7, <2>1
    <2>4. CASE fixes' = fixes
      BY <1>2, <2>2, <2>3, <2>4 DEF RelocInv, Progress
    <2>5. CASE NewFix(words)
      <3>1. PICK k \in 1..MaxInstructions : fixes' = [fixes EXCEPT ![k] = @ \cup {Len(out) + 1}]
        BY <2>5 DEF NewFix
      <3>2. Len(out) + 1 \in 1..Len(out') /\ out'[Len(out) + 1].op \in PcRelative
        BY <1>4, <1>7, <2>1, <2>5 DEF NewFix
      <3>3. \A m \in 1..MaxInstructions :
              fixes'[m] = IF m = k THEN fixes[k] \cup {Len(out) + 1} ELSE fixes[m]
        BY <1>2, <3>1
      <3>4. \A m \in 1..MaxInstructions : fixes'[m] \subseteq 1..Len(out')
        BY <1>2, <2>2, <3>2, <3>3
      <3>5. \A m \in 1..MaxInstructions : \A q \in fixes'[m] : out'[q].op \in PcRelative
        BY <1>2, <2>3, <3>2, <3>3 DEF RelocInv, Progress
      <3> QED BY <1>2, <3>1, <3>4, <3>5
    <2> QED BY <1>1, <2>4, <2>5
  <1>11. count' = count
    BY <1>8 DEF count, CallbackFar, hook
  <1>12. TypeOK'
    BY <1>7, <1>8, <1>9, <1>10 DEF RelocInv, TypeOK
  <1>13. Progress'
    BY <1>2, <1>3, <1>8, <1>9, <1>10, <1>11 DEF Progress
  <1>14. RowUsed'
    BY <1>1, <1>2, <1>7, <1>8, <1>9 DEF RowUsed, Longest
  <1>15. HookLands'
    BY <1>8, <1>11 DEF RelocInv, HookLands, hook
  <1> QED BY <1>12, <1>13, <1>14, <1>15 DEF RelocInv

\* Where the next word goes is a number, and so is where the instruction came
\* from and what it refers to.
LEMMA Positions ==
  ASSUME TypeOK
  PROVE  /\ hook \in Int /\ Here \in Int /\ Input \in Int
         /\ \A i \in Instructions : i.to \in Int /\ i.op \in Ops
  <1>1. \A i \in Instructions : i.to \in Int /\ i.op \in Ops
    BY RelocationAssumption DEF Instructions, RelocationAssumption
  <1>2. Len(out) \in Nat /\ Len(prog) \in Nat
    BY DEF TypeOK
  <1> QED BY <1>1, <1>2, PlaceTyped DEF TypeOK, Here, Input

\* The target that the relocator reads is a number.
LEMMA ReadInt ==
  ASSUME TypeOK, NEW i \in Instructions, i.op \in PcRelative
  PROVE  Read(i) \in Int
  <1> DEFINE m == IF i.op \in Conditional THEN 2 * Half[i.op] ELSE Wrap
             d == hook + i.to - Input
  <1>1. m \in Int /\ m > 0
    BY RelocationAssumption DEF RelocationAssumption
  <1>2. d \in Int
    BY Positions
  <1>3. Read(i) = Input + (d % m)
    BY DEF Read
  <1> HIDE DEF m, d
  <1>4. d % m \in Int
    BY <1>1, <1>2
  <1> QED BY <1>3, <1>4, Positions

\* Words that are emitted without a fix, or as one word with one.
LEMMA EmissionIntro ==
  ASSUME NEW i, NEW start \in Int, NEW words \in Seq(Words), Len(words) <= Longest,
         Emit(i, start, words), fixes' = fixes \/ NewFix(words)
  PROVE  Emission(i)
  BY DEF Emission, Emits

\* A near relocation is one word: the displacement to an instruction already
\* relocated or to an address that stays, or a fix for one still to come.
LEMMA NearEmits ==
  ASSUME RelocInv, phase = "relocate", Len(prog) < count,
         NEW i \in Instructions, i.op \in PcRelative, NEW target \in Int, EmitNear(i, target)
  PROVE  \E d \in Int, w \in Words :
           /\ w = Word(i.op, Encoded(i.op, d))
           /\ <<w>> \in Seq(Words)
           /\ Emits(i, Here, <<w>>)
           /\ IF ~InFixingRange(target) THEN d = target - Here /\ fixes' = fixes
              ELSE /\ RefIndex(target) \in 1..count
                   /\ RefIndex(target) < Index => d = ins[RefIndex(target)] - Here /\ fixes' = fixes
                   /\ RefIndex(target) = Index => d = 0 /\ fixes' = fixes
                   /\ RefIndex(target) > Index =>
                        fixes' = [fixes EXCEPT ![RefIndex(target)] = @ \cup {Len(out) + 1}]
  <1> DEFINE back == InFixingRange(target) /\ RefIndex(target) < Index
             self == InFixingRange(target) /\ RefIndex(target) = Index
             ahead == InFixingRange(target) /\ RefIndex(target) > Index
             d == CASE back -> ins[RefIndex(target)] - Here
                    [] self \/ ahead -> 0
                    [] OTHER -> target - Here
             words == <<Word(i.op, Encoded(i.op, d))>>
  <1>1. Here \in Int /\ hook \in Int /\ place.tramp \in Int
    BY Positions, PlaceTyped DEF RelocInv, TypeOK
  <1>2. InFixingRange(target) => RefIndex(target) \in 1..MaxInstructions /\ RefIndex(target) \in 1..count
    BY <1>1, CountValues DEF RelocInv, TypeOK, InFixingRange, RefIndex, MaxInstructions
  <1>3. back => ins[RefIndex(target)] \in Int
    BY <1>2 DEF RelocInv, TypeOK, Progress, Index, MaxInstructions
  <1>4. d \in Int
    <2>1. CASE back BY <1>1, <1>3, <2>1
    <2>2. CASE ~back /\ (self \/ ahead) BY <2>2
    <2>3. CASE ~back /\ ~(self \/ ahead) BY <1>1, <2>3
    <2> QED BY <2>1, <2>2, <2>3
  <1>5. Emit(i, Here, words)
    BY DEF EmitNear
  <1>6. fixes' = IF ahead THEN [fixes EXCEPT ![RefIndex(target)] = @ \cup {Len(out) + 1}]
                 ELSE fixes
    BY DEF EmitNear, WaitingWord
  <1>7. i.op \in WordOps
    BY DEF WordOps, Ops
  <1>v. /\ back => d = ins[RefIndex(target)] - Here
        /\ self => d = 0
        /\ ~InFixingRange(target) => d = target - Here
    BY <1>1, <1>2 DEF Index
  <1> HIDE DEF d
  <1>8. Encoded(i.op, d) \in Int
    BY <1>4, EncodedInt
  <1>9. words \in Seq(Words) /\ Len(words) = 1 /\ words[1].op = i.op
    BY <1>7, <1>8 DEF Word, Words
  <1> HIDE DEF words
  <1>10. fixes' = fixes \/ NewFix(words)
    BY <1>2, <1>6, <1>9 DEF NewFix
  <1>11. Emits(i, Here, words)
    BY <1>5, <1>9, <1>10 DEF Emits, Longest
  <1>12. PICK w \in Words : w = Word(i.op, Encoded(i.op, d)) /\ words = <<w>>
    BY <1>7, <1>8 DEF Word, Words, words
  <1>13. Index \in Int /\ (InFixingRange(target) => RefIndex(target) \in Int)
    BY <1>2 DEF RelocInv, TypeOK, Index
  <1> QED BY <1>2, <1>4, <1>6, <1>9, <1>11, <1>12, <1>13, <1>v

LEMMA NearEmission ==
  ASSUME RelocInv, phase = "relocate", Len(prog) < count,
         NEW i \in Instructions, i.op \in PcRelative, NEW target \in Int, EmitNear(i, target)
  PROVE  Emission(i)
  <1>1. \E w \in Words : <<w>> \in Seq(Words) /\ Emits(i, Here, <<w>>)
    BY NearEmits
  <1>2. Here \in Int
    BY Positions DEF RelocInv
  <1> QED BY <1>1, <1>2 DEF Emission

\* The relocation of a branch.
LEMMA BranchEmission ==
  ASSUME RelocInv, phase = "relocate", Len(prog) < count,
         NEW i \in Instructions, RelocateBranch(i)
  PROVE  Emission(i)
  <1> DEFINE target == hook + i.to
             far == ~InFixingRange(target) /\ Abs(target - Here) >= Half[i.op] - 1
             pad == Padding(Here, IF i.op = "b" THEN 2 ELSE 3, 2)
             call == <<Word("call", target), Data, Data, Data, Data>>
             words == IF i.op = "b" THEN Jump(target) ELSE call
  <1>1. Here \in Int /\ target \in Int
    BY Positions DEF RelocInv
  <1>2. i.op \in PcRelative
    BY DEF RelocateBranch, PcRelative
  <1>3. \/ far /\ fixes' = fixes /\ Emit(i, Here + pad, Nops(pad) \o words)
        \/ ~far /\ EmitNear(i, target)
    BY DEF RelocateBranch
  <1> HIDE DEF far
  <1>4. CASE EmitNear(i, target)
    BY <1>1, <1>2, <1>4, NearEmission
  <1>5. CASE fixes' = fixes /\ Emit(i, Here + pad, Nops(pad) \o words)
    <2>1. pad \in 0..3
      BY <1>1, PaddingRange
    <2>2. call \in Seq(Words) /\ Len(call) <= 5
      BY <1>1 DEF Word, Words, WordOps, Data
    <2>3. Jump(target) \in Seq(Words) /\ Len(Jump(target)) <= 4
      BY <1>1, JumpSeq
    <2> HIDE DEF call, pad, target
    <2>4. words \in Seq(Words) /\ Len(words) <= 5
      <3>1. CASE i.op = "b" BY <2>3, <3>1
      <3>2. CASE i.op # "b" BY <2>2, <3>2
      <3> QED BY <3>1, <3>2
    <2> HIDE DEF words
    <2>5. Nops(pad) \o words \in Seq(Words) /\ Len(Nops(pad) \o words) <= Longest
      BY <2>1, <2>4, Padded DEF Longest
    <2>6. Here + pad \in Int
      BY <1>1, <2>1
    <2> QED BY <1>5, <2>5, <2>6, EmissionIntro
  <1> QED BY <1>3, <1>4, <1>5

\* The relocation of a conditional branch.
LEMMA ConditionalEmission ==
  ASSUME RelocInv, phase = "relocate", Len(prog) < count,
         NEW i \in Instructions, RelocateConditional(i)
  PROVE  Emission(i)
  <1> DEFINE target == Read(i)
             far == ~InFixingRange(target) /\ Abs(target - Here) >= Half[i.op] - 1
             pad == Padding(Here, 4, 2)
             start == <<Word(i.op, 2), Word("b", 5)>>
             words == Nops(pad) \o start \o Jump(target)
  <1>1. i.op \in PcRelative /\ i.op \in WordOps
    BY DEF RelocateConditional, PcRelative, WordOps, Ops
  <1>2. Here \in Int /\ target \in Int
    BY <1>1, Positions, ReadInt DEF RelocInv
  <1>3. \/ far /\ fixes' = fixes /\ Emit(i, Here, words)
        \/ ~far /\ EmitNear(i, target)
    BY DEF RelocateConditional
  <1> HIDE DEF far
  <1>4. CASE EmitNear(i, target)
    BY <1>1, <1>2, <1>4, NearEmission
  <1>5. CASE fixes' = fixes /\ Emit(i, Here, words)
    <2>1. pad \in 0..3
      BY <1>2, PaddingRange
    <2>2. start \in Seq(Words) /\ Len(start) <= 2
      BY <1>1 DEF Word, Words, WordOps, Ops, PcRelative, Branches
    <2>3. Jump(target) \in Seq(Words) /\ Len(Jump(target)) <= 4
      BY <1>2, JumpSeq
    <2> HIDE DEF start, pad, target
    <2>5. Nops(pad) \o start \in Seq(Words) /\ Len(Nops(pad) \o start) <= 5
      BY <2>1, <2>2, Padded
    <2> DEFINE front == Nops(pad) \o start
               jump == Jump(target)
    <2>6. front \in Seq(Words) /\ Len(front) <= 5 /\ jump \in Seq(Words) /\ Len(jump) <= 4
      BY <2>3, <2>5
    <2> HIDE DEF front, jump
    <2>7. front \o jump \in Seq(Words) /\ Len(front \o jump) <= Longest
      BY <2>6, ConcatLen DEF Longest
    <2>8. words \in Seq(Words) /\ Len(words) <= Longest
      BY <2>7 DEF front, jump
    <2> HIDE DEF words
    <2> QED BY <1>2, <1>5, <2>8, EmissionIntro
  <1> QED BY <1>3, <1>4, <1>5

\* The relocation of a literal load: at most three NOPs, two words and a
\* literal of four words.
LEMMA LiteralEmission ==
  ASSUME RelocInv, NEW i \in Instructions, RelocateLiteral(i)
  PROVE  Emission(i)
  <1> DEFINE target == Read(i)
             n == LiteralWords[i.op]
             copied == InFixingRange(target) \/ Abs(target - Here) + n - 1 >= Half[i.op] - 1
             pad == IF copied THEN Padding(Here, 2, n) ELSE (target - Here) % n
             d == target - (Here + pad)
             load == <<Word(i.op, 2), Word("b", n + 1)>>
             value == [k \in 1..n |-> Word("value", target + k - 1)]
             near == <<Word(IF d < 0 /\ i.op # "ldrx" THEN "badload" ELSE i.op, Encoded(i.op, d))>>
             words == Nops(pad) \o IF copied THEN load \o value ELSE near
  <1>1. i.op \in PcRelative /\ i.op \in WordOps /\ i.op \in Literals
    BY DEF RelocateLiteral, PcRelative, WordOps, Ops
  <1>2. Here \in Int /\ target \in Int
    BY <1>1, Positions, ReadInt DEF RelocInv
  <1>3. n \in {1, 2, 4}
    BY <1>1 DEF Literals, LiteralWords
  <1>4. fixes' = fixes /\ Emit(i, Here + pad, words)
    BY DEF RelocateLiteral
  <1> HIDE DEF target, n, copied
  <1>5. pad \in 0..3
    <2>1. Padding(Here, 2, n) \in 0..3
      BY <1>2, <1>3, PaddingRange
    <2>2. (target - Here) % n \in 0..3
      <3>1. CASE n = 1 BY <1>2, <3>1
      <3>2. CASE n = 2 BY <1>2, <3>2
      <3>3. CASE n = 4 BY <1>2, <3>3
      <3> QED BY <1>3, <3>1, <3>2, <3>3
    <2> QED BY <2>1, <2>2
  <1> HIDE DEF pad
  <1>6. d \in Int
    BY <1>2, <1>5
  <1> HIDE DEF d
  <1>7. near \in Seq(Words) /\ Len(near) = 1
    BY <1>1, <1>6, EncodedInt DEF Word, Words, WordOps
  <1>8. load \in Seq(Words) /\ Len(load) <= 2
    BY <1>1, <1>3 DEF Word, Words, WordOps, Ops, PcRelative, Branches
  <1>9. value \in Seq(Words) /\ Len(value) <= 4
    <2>1. \A k \in 1..n : value[k] \in Words
      BY <1>2, <1>3 DEF Word, Words, WordOps
    <2> QED BY <1>3, <2>1
  <1> HIDE DEF near, load, value
  <1> DEFINE both == load \o value
             rest == IF copied THEN both ELSE near
  <1>10. both \in Seq(Words) /\ Len(both) <= 6
    <2>1. both \in Seq(Words) /\ Len(both) = Len(load) + Len(value)
      BY <1>8, <1>9, ConcatLen
    <2> QED BY <1>8, <1>9, <2>1
  <1> HIDE DEF both
  <1>11. rest \in Seq(Words) /\ Len(rest) <= 6
    BY <1>7, <1>10
  <1> HIDE DEF rest
  <1>12. Nops(pad) \o rest \in Seq(Words) /\ Len(Nops(pad) \o rest) <= Longest
    BY <1>5, <1>11, Padded DEF Longest
  <1>13. words = Nops(pad) \o rest
    BY DEF rest, both
  <1>14. Here + pad \in Int
    BY <1>2, <1>5
  <1> HIDE DEF words
  <1> QED BY <1>4, <1>12, <1>13, <1>14, EmissionIntro
\* The byte that an ADR computes, whose low bits the relocation keeps.
ByteOf(op, t) == 4 * t + Low[op]

LEMMA LowBits ==
  ASSUME NEW op \in Addresses
  PROVE  Low[op] \in 0..3
  BY DEF Addresses, Low

\* The relocation of an ADR, in its three forms.
LEMMA AddressForms ==
  ASSUME RelocInv, NEW i \in Instructions, RelocateAddress(i),
         NEW h \in Int, h = Here, NEW t \in Int, t = Read(i),
         NEW pad, pad = Padding(h, 2, 2)
  PROVE  \/ /\ ~InFixingRange(t) /\ fixes' = fixes
            /\ Emit(i, h + pad, Nops(pad) \o SetRegister(ByteOf(i.op, t)))
         \/ /\ ~InFixingRange(t) => Abs(t - h) < Half[i.op]
            /\ EmitNear(i, t)
         \/ /\ ~InFixingRange(t) /\ Low[i.op] # 0 /\ fixes' = fixes
            /\ Abs(4 * (t - h) + Low[i.op]) < 4 * Half[i.op] - 1
            /\ \E op \in {i.op, "badadr"} :
                 Emit(i, h, <<Word(op, Encoded(i.op, t - h))>>)
  <1> DEFINE offset == 4 * (t - h) + Low[i.op]
             far == ~InFixingRange(t) /\ Abs(offset) >= 4 * Half[i.op] - 1
             spills == ~InFixingRange(t) /\ Low[i.op] # 0
  <1>1. i.op \in Addresses /\ Half[i.op] \in Nat /\ Low[i.op] \in 0..3
    BY LowBits, RelocationAssumption
      DEF RelocateAddress, RelocationAssumption, PcRelative
  <1>2. \/ /\ far /\ fixes' = fixes
           /\ Emit(i, h + pad, Nops(pad) \o SetRegister(ByteOf(i.op, t)))
        \/ ~far /\ ~spills /\ EmitNear(i, t)
        \/ /\ ~far /\ spills /\ fixes' = fixes
           /\ \E op \in {i.op, "badadr"} :
                Emit(i, h, <<Word(op, Encoded(i.op, t - h))>>)
    BY DEF RelocateAddress, ByteOf
  <1>3. offset \in Int /\ (Low[i.op] = 0 => offset = 4 * (t - h))
    BY <1>1
  <1>4. Abs(offset) \in Int
    BY <1>3 DEF Abs
  <1>5. ASSUME ~InFixingRange(t), ~far
        PROVE  Abs(offset) < 4 * Half[i.op] - 1
    BY <1>1, <1>4, <1>5
  <1>6. ASSUME ~InFixingRange(t), ~far, ~spills
        PROVE  Abs(t - h) < Half[i.op]
    <2>1. offset = 4 * (t - h) /\ Abs(offset) < 4 * Half[i.op] - 1
      BY <1>3, <1>5, <1>6
    <2> HIDE DEF offset
    <2> QED BY <1>1, <2>1 DEF Abs
  <1> QED BY <1>2, <1>5, <1>6

LEMMA AddressEmission ==
  ASSUME RelocInv, phase = "relocate", Len(prog) < count,
         NEW i \in Instructions, RelocateAddress(i)
  PROVE  Emission(i)
  <1>1. i.op \in PcRelative /\ i.op \in Addresses /\ Low[i.op] \in 0..3
    BY LowBits DEF RelocateAddress, PcRelative
  <1>2. PICK h \in Int, t \in Int : h = Here /\ t = Read(i)
    BY <1>1, Positions, ReadInt DEF RelocInv
  <1>3. PICK pad : pad = Padding(h, 2, 2)
    OBVIOUS
  <1>4. CASE EmitNear(i, t)
    BY <1>1, <1>2, <1>4, NearEmission
  <1>5. CASE /\ fixes' = fixes
             /\ Emit(i, h + pad, Nops(pad) \o SetRegister(ByteOf(i.op, t)))
    <2>1. pad \in 0..3
      BY <1>2, <1>3, PaddingRange
    <2>2. PICK byte \in Int : byte = ByteOf(i.op, t)
      BY <1>1, <1>2 DEF ByteOf
    <2>3. SetRegister(byte) \in Seq(Words) /\ Len(SetRegister(byte)) <= 4
      BY <2>2, SetRegisterSeq
    <2>4. PICK words : words = Nops(pad) \o SetRegister(byte)
      OBVIOUS
    <2>5. words \in Seq(Words) /\ Len(words) <= Longest
      BY <2>1, <2>3, <2>4, Padded DEF Longest
    <2>6. h + pad \in Int
      BY <1>2, <2>1
    <2> QED BY <1>5, <2>2, <2>4, <2>5, <2>6, EmissionIntro
  <1>6. CASE /\ fixes' = fixes
             /\ \E op \in {i.op, "badadr"} :
                  Emit(i, h, <<Word(op, Encoded(i.op, t - h))>>)
    <2>1. PICK op \in {i.op, "badadr"} :
            Emit(i, h, <<Word(op, Encoded(i.op, t - h))>>)
      BY <1>6
    <2>2. PICK words : words = <<Word(op, Encoded(i.op, t - h))>>
      OBVIOUS
    <2>3. words \in Seq(Words) /\ Len(words) <= Longest
      <3>1. Encoded(i.op, t - h) \in Int
        BY <1>1, <1>2, EncodedInt
      <3>2. op \in WordOps
        BY <1>1 DEF WordOps, Ops
      <3>3. Word(op, Encoded(i.op, t - h)) \in Words
        BY <3>1, <3>2 DEF Word, Words
      <3> QED BY <2>2, <3>3 DEF Longest
    <2> QED BY <1>2, <1>6, <2>1, <2>2, <2>3, EmissionIntro
  <1> QED BY <1>2, <1>3, <1>4, <1>5, <1>6, AddressForms

\* The relocation of an ADRP.
LEMMA PageEmission ==
  ASSUME RelocInv, NEW i \in Instructions, RelocatePage(i)
  PROVE  Emission(i)
  <1> DEFINE page == PageOf(Input) + ((i.to * PageSize) % Wrap)
             pad == Padding(Here, 2, 2)
             start == IF pad = 0 THEN Here + RwDelta ELSE Here + pad
             words == Nops(pad) \o SetRegister(4 * page)
             same == <<Word("adrp", i.to)>>
  <1>1. Here \in Int /\ Input \in Int /\ i.to \in Int
    BY Positions DEF RelocInv
  <1>2. RwDelta \in Int /\ PageSize \in Nat \ {0} /\ Wrap \in Nat \ {0}
    BY RelocationAssumption DEF RelocationAssumption
  <1>3. page \in Int
    <2>1. Input % PageSize \in Int
      BY <1>1, <1>2
    <2>2. i.to * PageSize \in Int
      BY <1>1, <1>2
    <2> DEFINE b == i.to * PageSize
    <2> HIDE DEF b
    <2>3. b % Wrap \in Int
      BY <1>2, <2>2 DEF b
    <2> QED BY <1>1, <2>1, <2>3 DEF PageOf, b
  <1>4. pad \in 0..3
    BY <1>1, PaddingRange
  <1>5. \/ Emit(i, Here + RwDelta, same)
        \/ Emit(i, start, words)
    BY DEF RelocatePage
  <1>6. fixes' = fixes
    BY DEF RelocatePage
  <1>7. same \in Seq(Words) /\ Len(same) <= Longest
    BY <1>1 DEF Word, Words, WordOps, Ops, Longest
  <1>8. SetRegister(4 * page) \in Seq(Words) /\ Len(SetRegister(4 * page)) <= 4
    <2>1. 4 * page \in Int
      BY <1>3
    <2> QED BY <2>1, SetRegisterSeq
  <1>9. start \in Int /\ Here + RwDelta \in Int
    BY <1>1, <1>2, <1>4
  <1> HIDE DEF page, pad, start, same
  <1>10. words \in Seq(Words) /\ Len(words) <= Longest
    BY <1>4, <1>8, Padded DEF Longest
  <1> HIDE DEF words
  <1> QED BY <1>5, <1>6, <1>7, <1>9, <1>10, EmissionIntro

\* A prefetch or an instruction without PC-relative operand.
LEMMA CopyEmission ==
  ASSUME RelocInv, NEW i \in Instructions, Copy(i)
  PROVE  Emission(i)
  <1> DEFINE words == IF i.op = "plain" THEN <<Word("plain", Index)>> ELSE <<>>
  <1>1. Here \in Int /\ Index \in Int
    BY Positions DEF RelocInv, TypeOK, Index
  <1>2. Emit(i, Here, words) /\ fixes' = fixes
    BY DEF Copy
  <1>3. words \in Seq(Words) /\ Len(words) \in {0, 1}
    <2>1. <<Word("plain", Index)>> \in Seq(Words) /\ Len(<<Word("plain", Index)>>) = 1
      BY <1>1 DEF Word, Words, WordOps, Ops
    <2>2. <<>> \in Seq(Words) /\ Len(<<>>) = 0
      BY EmptySeq
    <2> QED BY <2>1, <2>2
  <1> HIDE DEF words
  <1>4. Len(words) <= Longest
    BY <1>3 DEF Longest
  <1> QED BY <1>1, <1>2, <1>3, <1>4, EmissionIntro
\* Whatever the instruction is, one turn of the loop emits at most nine words.
LEMMA RelocateEmission ==
  ASSUME RelocInv, NEW i \in Instructions, Relocate(i)
  PROVE  Emission(i)
  <1>1. phase = "relocate" /\ Len(prog) < count
    BY DEF Relocate
  <1>2. CASE RelocateBranch(i)      BY <1>1, <1>2, BranchEmission
  <1>3. CASE RelocateConditional(i) BY <1>1, <1>3, ConditionalEmission
  <1>4. CASE RelocateLiteral(i)     BY <1>4, LiteralEmission
  <1>5. CASE RelocateAddress(i)     BY <1>1, <1>5, AddressEmission
  <1>6. CASE RelocatePage(i)        BY <1>6, PageEmission
  <1>7. CASE Copy(i)                BY <1>7, CopyEmission
  <1> QED BY <1>2, <1>3, <1>4, <1>5, <1>6, <1>7 DEF Relocate

-----------------------------------------------------------------------------
(* The other steps. *)

\* The jump back takes at most five words, and nothing waits for a fix in it.
LEMMA ReturnJumpInv ==
  ASSUME RelocInv, ReturnJump
  PROVE  RelocInv'
  <1> DEFINE d == Input - Here
             pad == Padding(Here, 2, 2)
             nops == Nops(pad)
             jump == Jump(Input)
             words == IF Abs(d) >= Half["b"] - 1 THEN nops \o jump ELSE <<Word("b", d)>>
  <1>1. /\ phase = "relocate" /\ Len(prog) = count /\ phase' = "patch"
        /\ out' = out \o words
        /\ ins' = Append(ins, Here)
        /\ UNCHANGED <<place, kind, prog, fixes, patched, entry>>
    BY DEF ReturnJump
  <1>2. /\ out \in Seq(Words) /\ prog \in Seq(Instructions) /\ ins \in Seq(Int)
        /\ place \in Places
        /\ fixes \in [1..MaxInstructions -> SUBSET (1..Len(out))]
        /\ Len(out) <= Longest * Len(prog)
    BY <1>1 DEF RelocInv, TypeOK, RowUsed, Longest
  <1>3. Here \in Int /\ Input \in Int
    BY Positions DEF RelocInv
  <1>4. words \in Seq(Words) /\ Len(words) <= 5
    <2>1. pad \in 0..1
      BY <1>3, PaddingRange
    <2>2. pad \in Nat /\ pad <= 1
      BY <2>1
    <2>3. nops \in Seq(Words) /\ Len(nops) <= 1
      BY <2>2, NopsSeq
    <2>4. jump \in Seq(Words) /\ Len(jump) <= 4
      BY <1>3, JumpSeq
    <2>5. <<Word("b", d)>> \in Seq(Words) /\ Len(<<Word("b", d)>>) <= 5
      BY <1>3 DEF Word, Words, WordOps, Ops, PcRelative, Branches
    <2> HIDE DEF nops, jump, pad, d
    <2>6. nops \o jump \in Seq(Words) /\ Len(nops \o jump) <= 5
      BY <2>3, <2>4, ConcatLen
    <2> QED BY <2>5, <2>6
  <1> HIDE DEF words
  <1>5. /\ out' \in Seq(Words) /\ Len(out') = Len(out) + Len(words)
        /\ Len(words) \in Nat /\ Len(out) \in Nat
        /\ \A q \in 1..Len(out) : out'[q] = out[q]
    BY <1>1, <1>2, <1>4, ConcatProperties
  <1>6. 1..Len(out) \subseteq 1..Len(out')
    BY <1>5
  <1>7. fixes' \in [1..MaxInstructions -> SUBSET (1..Len(out'))]
    BY <1>1, <1>2, <1>6
  <1>8. count' = count
    BY <1>1 DEF count, CallbackFar, hook
  <1>9. TypeOK'
    BY <1>1, <1>2, <1>3, <1>5, <1>7 DEF RelocInv, TypeOK, Phases
  <1>10. Progress'
    BY <1>1, <1>2, <1>5, <1>8 DEF RelocInv, Progress
  <1>11. RowUsed'
    BY <1>1, <1>2, <1>4, <1>5 DEF RowUsed, Longest
  <1>12. HookLands'
    BY <1>1, <1>8 DEF RelocInv, HookLands, hook
  <1> QED BY <1>9, <1>10, <1>11, <1>12 DEF RelocInv

\* A patch to a near callback is one branch; one to a far callback is four
\* words, with a NOP before them exactly when five instructions have moved.
LEMMA PatchInv ==
  ASSUME RelocInv, Patch
  PROVE  RelocInv'
  <1>1. /\ phase = "patch" /\ phase' \in {"entry", "done"}
        /\ UNCHANGED <<place, kind, prog, out, ins, fixes, entry>>
    BY DEF Patch
  <1>2. patched' = IF CallbackFar THEN Nops(Padding(hook, 2, 2)) \o Jump(place.callback)
                   ELSE <<Word("b", place.callback - hook)>>
    BY DEF Patch
  <1>3. hook \in Int /\ place.callback \in Int /\ place \in Places
    BY PlaceTyped DEF RelocInv, TypeOK
  <1>4. count' = count /\ hook' = hook
    BY <1>1 DEF count, CallbackFar, hook
  <1>5. patched' \in Seq(Words) /\ HookLands'
    <2>1. CASE ~CallbackFar
      <3>1. patched' = <<Word("b", place.callback - hook)>> /\ count = 1
        BY <1>2, <2>1 DEF count
      <3>2. patched' \in Seq(Words)
        BY <1>3, <3>1 DEF Word, Words, WordOps, Ops, PcRelative, Branches
      <3>3. HookLands'
        BY <1>1, <1>3, <1>4, <3>1 DEF HookLands, Word
      <3> QED BY <3>2, <3>3
    <2>2. CASE CallbackFar /\ hook % 2 = 0
      <3>1. Padding(hook, 2, 2) = 0 /\ count = 4
        BY <1>3, <2>2 DEF Padding, count
      <3>2. Nops(0) = <<>>
        BY DEF Nops
      <3>3. patched' = Jump(place.callback)
        BY <1>2, <1>3, <2>2, <3>1, <3>2, JumpSeq, ConcatEmptySeq
      <3>4. patched' = <<Word("jump", place.callback), Data, Data, Data>>
        BY <3>3 DEF Jump
      <3>5. HookLands'
        BY <1>1, <1>3, <1>4, <3>1, <3>4 DEF HookLands, Word, Data
      <3> QED BY <1>3, <3>3, <3>5, JumpSeq
    <2>3. CASE CallbackFar /\ hook % 2 # 0
      <3>1. Padding(hook, 2, 2) = 1 /\ count = 5
        BY <1>3, <2>3 DEF Padding, count
      <3>2. Nops(1) = <<Nop>>
        BY DEF Nops
      <3> DEFINE first == <<Nop>>
                 rest == <<Word("jump", place.callback), Data, Data, Data>>
      <3>3. patched' = first \o rest
        BY <1>2, <2>3, <3>1, <3>2 DEF Jump
      <3>4. /\ first \in Seq(Words) /\ Len(first) = 1 /\ first[1] = Nop
            /\ rest \in Seq(Words) /\ Len(rest) = 4 /\ rest[1] = Word("jump", place.callback)
        BY <1>3 DEF Nop, Data, Word, Words, WordOps
      <3> HIDE DEF first, rest
      <3>5. /\ patched' \in Seq(Words) /\ Len(patched') = Len(first) + Len(rest)
            /\ \A i \in 1..(Len(first) + Len(rest)) :
                 patched'[i] = IF i <= Len(first) THEN first[i] ELSE rest[i - Len(first)]
        BY <3>3, <3>4, ConcatProperties
      <3>6. Len(patched') = 5 /\ patched'[1] = Nop /\ patched'[2] = Word("jump", place.callback)
        BY <3>4, <3>5
      <3>7. HookLands'
        BY <1>1, <1>3, <1>4, <3>1, <3>6 DEF HookLands, Nop, Word
      <3> QED BY <3>5, <3>7
    <2> QED BY <2>1, <2>2, <2>3
  <1>6. TypeOK'
    BY <1>1, <1>5 DEF RelocInv, TypeOK, Phases
  <1>7. Progress'
    BY <1>1, <1>4 DEF RelocInv, Progress
  <1>8. RowUsed'
    BY <1>1 DEF RelocInv, RowUsed
  <1> QED BY <1>5, <1>6, <1>7, <1>8 DEF RelocInv

\* The entry of an inline hook is a number.
LEMMA WriteEntryInv ==
  ASSUME RelocInv, WriteEntry
  PROVE  RelocInv'
  <1>1. /\ phase = "entry" /\ phase' = "done"
        /\ entry' = (place.callback + 3) + (place.tramp - (place.callback + 2))
        /\ UNCHANGED <<place, kind, prog, out, ins, fixes, patched>>
    BY DEF WriteEntry
  <1>2. entry' \in Int
    BY <1>1, PlaceTyped DEF RelocInv, TypeOK
  <1>3. count' = count
    BY <1>1 DEF count, CallbackFar, hook
  <1>4. TypeOK'
    BY <1>1, <1>2 DEF RelocInv, TypeOK, Phases
  <1> QED BY <1>1, <1>3, <1>4 DEF RelocInv, Progress, RowUsed, HookLands, hook

\* Every hook starts with an empty row.
LEMMA InitInv ==
  ASSUME Init
  PROVE  RelocInv
  <1>1. /\ place \in Places /\ kind \in Kinds[place] /\ phase \in Phases
        /\ prog = <<>> /\ out = <<>> /\ ins = <<>> /\ patched = <<>> /\ entry = 0
        /\ fixes = [k \in 1..MaxInstructions |-> {}]
    BY DEF Init, Phases
  <1>2. Len(prog) = 0 /\ Len(out) = 0 /\ Len(ins) = 0
    BY <1>1
  <1>3. TypeOK
    BY <1>1, EmptySeq DEF TypeOK
  <1>4. Progress
    BY <1>1, <1>2, CountValues DEF Progress
  <1> QED BY <1>1, <1>2, <1>3, <1>4 DEF RelocInv, RowUsed, HookLands, Longest

\* No step leaves the invariant.
LEMMA NextInv ==
  ASSUME RelocInv, [Next]_vars
  PROVE  RelocInv'
  <1>1. ASSUME NEW i \in Code[place], Relocate(i)
        PROVE  RelocInv'
    <2>0. i \in Instructions
      BY DEF RelocInv, TypeOK, Instructions
    <2>1. phase = "relocate" /\ Len(prog) < count
      BY <1>1 DEF Relocate
    <2> QED BY <1>1, <2>0, <2>1, RelocateEmission, EmissionInv
  <1>2. CASE ReturnJump BY <1>2, ReturnJumpInv
  <1>3. CASE Patch      BY <1>3, PatchInv
  <1>4. CASE WriteEntry BY <1>4, WriteEntryInv
  <1>5. CASE UNCHANGED vars
    BY <1>5 DEF vars, RelocInv, TypeOK, Progress, RowUsed, HookLands, count, CallbackFar, hook
  <1> QED BY <1>1, <1>2, <1>3, <1>4, <1>5 DEF Next

LEMMA Invariance == Spec => []RelocInv
  <1>1. Init => RelocInv
    BY InitInv
  <1>2. RelocInv /\ [Next]_vars => RelocInv'
    BY NextInv
  <1> QED BY <1>1, <1>2, PTL DEF Spec

-----------------------------------------------------------------------------
(* The theorems. *)

\* The state of a hook's installation has its types; in particular only words
\* of the trampoline wait for a fix.
THEOREM RelocationTyped == Spec => []TypeOK
  <1>1. RelocInv => TypeOK
    BY DEF RelocInv
  <1> QED BY <1>1, Invariance, PTL

\* The relocated code of every hook fits into its row of the hook pool: five
\* instructions of nine words and a jump back of five are the ten words that
\* TrampolineSize has for each.
LEMMA RowIsLongEnough == RelocInv => FitsTrampoline
  <1> SUFFICES ASSUME RelocInv
               PROVE  FitsTrampoline
    OBVIOUS
  <1>1. Len(prog) \in Nat /\ Len(out) \in Nat /\ place \in Places
    BY DEF RelocInv, TypeOK
  <1>2. Len(prog) <= 5
    BY <1>1, CountValues DEF RelocInv, Progress
  <1>3. Len(out) <= 9 * Len(prog) + 5
    BY <1>1 DEF RelocInv, RowUsed, Longest
  <1> QED BY <1>1, <1>2, <1>3 DEF FitsTrampoline, TrampolineSize, MaxInstructions

\* The relocated code of every hook fits its row, and the patch leads to the
\* callback and overwrites no more than the instructions that were relocated.
THEOREM HooksFit == Spec => []HookFits
  <1>1. RelocInv => HookFits
    BY RowIsLongEnough DEF RelocInv, HookFits
  <1> QED BY <1>1, Invariance, PTL

-----------------------------------------------------------------------------
(* What the invariant says of a trampoline that grows. *)

\* The row of the trampoline, and where instruction k starts in it.
Row   == place.tramp..(place.tramp + TrampolineSize)
At(k) == IF ins[k] \in Row THEN ins[k] ELSE ins[k] - RwDelta

\* Where the code behind the relocated instruction k starts.
Rest(k) == IF k < Len(ins) THEN At(k + 1) ELSE Here

\* The instructions still to come whose start the word at a waits for.
Waits(a) == {j \in Index..MaxInstructions : (a - place.tramp + 1) \in fixes[j]}

\* The word at a is w, and stays it.
Holds(a, w) == InTramp(a) /\ WordAt(a) = w /\ Waits(a) = {}

\* Nothing but NOPs from a up to b.
Gap(a, b) == a <= b /\ \A c \in a..(b - 1) : Holds(c, Nop)

TargetOf(k) == hook + prog[k].to
PageAt(k)   == PageOf(hook + k - 1) + prog[k].to * PageSize

\* The address that instruction k, an ADR or ADRP, computes.
ByteAt(k) == IF prog[k].op = "adrp" THEN 4 * PageAt(k) ELSE ByteOf(prog[k].op, TargetOf(k))

\* The word at a is that of instruction k with a displacement: to the start of
\* the instruction it refers to, if that is to be overwritten, else to the target.
Goes(k, a) ==
  LET t == TargetOf(k)
  IN /\ InTramp(a) /\ WordAt(a).op = prog[k].op
     /\ \/ /\ InFixingRange(t) /\ RefIndex(t) > Len(prog)
           /\ Waits(a) = {RefIndex(t)}
        \/ /\ InFixingRange(t) /\ RefIndex(t) <= Len(prog)
           /\ Waits(a) = {}
           /\ prog[RefIndex(t)].op # "adrp" => a + WordAt(a).to = At(RefIndex(t))
        \/ /\ ~InFixingRange(t)
           /\ Waits(a) = {}
           /\ a + WordAt(a).to = t

\* At a, instruction k does what it did, as the words there and the code behind
\* it have it.
Effect(k, a) ==
  LET op == prog[k].op
      t  == TargetOf(k)
  IN \/ op = "prfm" /\ Gap(a, Rest(k))
     \/ op = "plain" /\ Holds(a, Word("plain", k)) /\ Gap(a + 1, Rest(k))
     \/ /\ op \in PcRelative \ Literals
        /\ a = At(k) /\ Goes(k, a) /\ Gap(a + 1, Rest(k))
     \/ op = "b" /\ ~InFixingRange(t) /\ Holds(a, Word("jump", t))
     \/ op = "bl" /\ ~InFixingRange(t) /\ Holds(a, Word("call", t)) /\ Gap(a + 5, Rest(k))
     \/ /\ op \in Conditional /\ ~InFixingRange(t)
        /\ Holds(a, Word(op, 2)) /\ Holds(a + 1, Word("b", 5)) /\ Holds(a + 2, Word("jump", t))
        /\ Gap(a + 6, Rest(k))
     \/ /\ op \in Literals
        /\ Holds(a, Word(op, 2)) /\ Holds(a + 1, Word("b", LiteralWords[op] + 1))
        /\ \A m \in 0..(LiteralWords[op] - 1) : Holds(a + 2 + m, Word("value", t + m))
        /\ Gap(a + 2 + LiteralWords[op], Rest(k))
     \/ /\ op \in Addresses \cup {"adrp"} /\ Holds(a, Word("set", ByteAt(k)))
        /\ Holds(a + 1, Word("b", 3)) /\ Gap(a + 4, Rest(k))

\* What Supported asks of the operands of instruction k alone.
Readable(k) ==
  LET op == prog[k].op
      t  == TargetOf(k)
  IN /\ op \in PcRelative \ Branches => t >= hook + k - 1
     /\ op = "adrp" => prog[k].to >= 0 /\ ~InFixingRange(PageAt(k))
     /\ op \in Literals \/ (op \in Addresses /\ Low[op] # 0 /\ ~InFixingRange(t))
          => Abs(t - place.tramp) >= Half[op] + TrampolineSize

StartsInRow ==
  /\ \A k \in DOMAIN ins : At(k) \in place.tramp..(IF phase = "relocate" THEN Here ELSE End)
  /\ \A k \in DOMAIN prog : prog[k].op # "adrp" => ins[k] = At(k)

EffectsKept ==
  \A k \in DOMAIN prog : Readable(k) => \E a \in Row : Gap(At(k), a) /\ Effect(k, a)

GoesBack ==
  kind # "replace" /\ phase # "relocate" =>
    /\ Len(prog) = count /\ Len(ins) = count + 1 /\ ins[count + 1] \in Row
    /\ \E a \in Row :
         /\ Gap(At(count + 1), a) /\ InTramp(a)
         /\ \/ WordAt(a) = Word("jump", hook + count)
            \/ WordAt(a).op = "b" /\ a + WordAt(a).to = hook + count

\* The word w may stand at c: the literal behind it is aligned.
Sits(c, w) ==
  /\ w.op \in {"jump", "set"} => (c + 2) % 2 = 0
  /\ w.op = "call" => (c + 3) % 2 = 0
  /\ w.op = "ldrq" /\ w.to = 2 => (c + 2) % 4 = 0

\* A fix never changes the displacement of a load.
Alignments ==
  /\ \A q \in DOMAIN out : Sits(place.tramp + q - 1, out[q])
  /\ Aligned(hook, patched)
  /\ \A k \in 1..MaxInstructions : \A q \in fixes[k] : out[q].op \notin Literals

EntryBehind == kind = "inline" /\ phase = "done" => entry = place.tramp + 1

EffectInv == StartsInRow /\ EffectsKept /\ GoesBack /\ Alignments /\ EntryBehind

-----------------------------------------------------------------------------
(* What a turn of the loop leaves of the words before. *)

\* A turn of the loop appends its words, fixes only those that wait for it, and
\* lets at most the first of its own wait.
LEMMA EmitsWords ==
  ASSUME RelocInv, phase = "relocate", Len(prog) < count,
         NEW i \in Instructions, NEW start \in Int, NEW words \in Seq(Words),
         Emits(i, start, words)
  PROVE  /\ Len(out') = Len(out) + Len(words)
         /\ \A q \in 1..Len(out) :
              out'[q] = IF q \in fixes[Index]
                        THEN Word(out[q].op, Encoded(out[q].op, start - (place.tramp + q - 1)))
                        ELSE out[q]
         /\ \A q \in 1..Len(words) : out'[Len(out) + q] = words[q]
         /\ \A k \in 1..MaxInstructions : \A q \in 1..Len(out) : q \in fixes'[k] <=> q \in fixes[k]
         /\ \A k \in 1..MaxInstructions : \A q \in fixes'[k] : q <= Len(out) + 1
         /\ fixes' = fixes => \A k \in 1..MaxInstructions : \A q \in fixes'[k] : q <= Len(out)
  <1> DEFINE whole == out \o words
  <1>1. /\ out \in Seq(Words) /\ place \in Places
        /\ fixes \in [1..MaxInstructions -> SUBSET (1..Len(out))]
        /\ Len(out) \in Nat /\ Len(words) \in Nat
    BY DEF RelocInv, TypeOK
  <1>2. Index \in 1..MaxInstructions
    BY <1>1, CountValues DEF RelocInv, TypeOK, Index, MaxInstructions
  <1>3. /\ whole \in Seq(Words) /\ Len(whole) = Len(out) + Len(words)
        /\ \A q \in 1..Len(out) : whole[q] = out[q]
        /\ \A q \in 1..Len(words) : whole[Len(out) + q] = words[q]
    BY <1>1, ConcatProperties
  <1>4. out' = Fixed(whole, start)
    BY DEF Emits, Emit
  <1>5. \A q \in fixes[Index] : whole[q].op \in PcRelative
    BY <1>1, <1>2, <1>3 DEF RelocInv, Progress
  <1> HIDE DEF whole
  <1>6. Len(out') = Len(out) + Len(words)
    BY <1>1, <1>3, <1>4, <1>5, FixedSeq
  <1>7. \A q \in 1..(Len(out) + Len(words)) :
          out'[q] = IF q \in fixes[Index]
                    THEN Word(whole[q].op, Encoded(whole[q].op, start - (place.tramp + q - 1)))
                    ELSE whole[q]
    BY <1>3, <1>4 DEF Fixed
  <1>8. \A q \in 1..Len(out) :
          out'[q] = IF q \in fixes[Index]
                    THEN Word(out[q].op, Encoded(out[q].op, start - (place.tramp + q - 1)))
                    ELSE out[q]
    BY <1>1, <1>3, <1>7
  <1>9. \A q \in 1..Len(words) : out'[Len(out) + q] = words[q]
    <2> TAKE q \in 1..Len(words)
    <2>1. Len(out) + q \in 1..(Len(out) + Len(words)) /\ Len(out) + q > Len(out)
      BY <1>1
    <2>2. Len(out) + q \notin fixes[Index]
      BY <1>1, <1>2, <2>1
    <2> QED BY <1>3, <1>7, <2>1, <2>2
  <1>10. CASE fixes' = fixes
    <2>1. \A k \in 1..MaxInstructions : \A q \in fixes'[k] : q <= Len(out)
      BY <1>1, <1>10
    <2>2. \A k \in 1..MaxInstructions : \A q \in fixes'[k] : q <= Len(out) + 1
      BY <1>1, <2>1, <1>10
    <2> QED BY <1>6, <1>8, <1>9, <1>10, <2>1, <2>2
  <1>11. CASE NewFix(words)
    <2>1. PICK m \in 1..MaxInstructions : fixes' = [fixes EXCEPT ![m] = @ \cup {Len(out) + 1}]
      BY <1>11 DEF NewFix
    <2>2. \A k \in 1..MaxInstructions :
            fixes'[k] = IF k = m THEN fixes[m] \cup {Len(out) + 1} ELSE fixes[k]
      BY <1>1, <2>1
    <2>3. \A k \in 1..MaxInstructions : \A q \in 1..Len(out) : q \in fixes'[k] <=> q \in fixes[k]
      BY <1>1, <2>2
    <2>4. \A k \in 1..MaxInstructions : \A q \in fixes'[k] : q <= Len(out) + 1
      BY <1>1, <2>2
    <2>5. fixes' # fixes
      <3>1. Len(out) + 1 \in fixes'[m] /\ Len(out) + 1 \notin fixes[m]
        BY <1>1, <2>2
      <3> QED BY <3>1
    <2> QED BY <1>6, <1>8, <1>9, <2>3, <2>4, <2>5
  <1> QED BY <1>10, <1>11 DEF Emits

\* The steps of the relocation only append to the trampoline, but for the words
\* that wait.
Grows ==
  /\ place' = place /\ Len(out) <= Len(out')
  /\ Index' \in {Index, Index + 1}
  /\ \A q \in 1..Len(out) :
       (\A j \in Index..MaxInstructions : q \notin fixes[j])
         => /\ out'[q] = out[q]
            /\ \A j \in (Index')..MaxInstructions : q \notin fixes'[j]

LEMMA EmitsGrows ==
  ASSUME RelocInv, phase = "relocate", Len(prog) < count,
         NEW i \in Instructions, NEW start \in Int, NEW words \in Seq(Words),
         Emits(i, start, words)
  PROVE  Grows /\ Index' = Index + 1 /\ Len(prog') = Len(prog) + 1 /\ Len(ins') = Len(ins) + 1
  <1>1. /\ place' = place /\ prog' = Append(prog, i) /\ ins' = Append(ins, start)
        /\ prog \in Seq(Instructions) /\ ins \in Seq(Int) /\ place \in Places
        /\ Len(out) \in Nat /\ Len(words) \in Nat
    BY DEF Emits, Emit, RelocInv, TypeOK
  <1>2. Index' = Index + 1 /\ Len(prog') = Len(prog) + 1 /\ Len(ins') = Len(ins) + 1
    BY <1>1 DEF Index
  <1>3. Index \in 1..MaxInstructions
    BY <1>1, CountValues DEF RelocInv, TypeOK, Index, MaxInstructions
  <1>4. /\ Len(out') = Len(out) + Len(words)
        /\ \A q \in 1..Len(out) : q \notin fixes[Index] => out'[q] = out[q]
        /\ \A k \in 1..MaxInstructions : \A q \in 1..Len(out) : q \in fixes'[k] <=> q \in fixes[k]
    BY EmitsWords
  <1>5. ASSUME NEW q \in 1..Len(out), \A j \in Index..MaxInstructions : q \notin fixes[j]
        PROVE  out'[q] = out[q] /\ \A j \in (Index')..MaxInstructions : q \notin fixes'[j]
    <2>1. q \notin fixes[Index]
      BY <1>3, <1>5 DEF MaxInstructions
    <2>2. ASSUME NEW j \in (Index')..MaxInstructions
          PROVE  q \notin fixes'[j]
      <3>1. j \in Index..MaxInstructions /\ j \in 1..MaxInstructions
        BY <1>2, <1>3, <2>2 DEF MaxInstructions
      <3> QED BY <1>4, <1>5, <3>1
    <2> QED BY <1>4, <2>1, <2>2
  <1> QED BY <1>1, <1>2, <1>4, <1>5 DEF Grows

\* A word that waits for nothing stays.
LEMMA HoldsKept ==
  ASSUME RelocInv, Grows, NEW a \in Int, NEW w, Holds(a, w)
  PROVE  Holds(a, w)'
  <1> DEFINE q == a - place.tramp + 1
  <1>1. place.tramp \in Int /\ Len(out) \in Nat /\ Len(out') \in Nat /\ place' = place
        /\ Len(out) <= Len(out')
    BY PlaceTyped DEF RelocInv, TypeOK, Grows
  <1>2. q \in 1..Len(out) /\ out[q] = w /\ \A j \in Index..MaxInstructions : q \notin fixes[j]
    BY <1>1 DEF Holds, InTramp, End, WordAt, Waits
  <1>3. out'[q] = w /\ \A j \in (Index')..MaxInstructions : q \notin fixes'[j]
    BY <1>2 DEF Grows
  <1> QED BY <1>1, <1>2, <1>3 DEF Holds, InTramp, End, WordAt, Waits

\* So does a gap of NOPs.
LEMMA GapKept ==
  ASSUME RelocInv, Grows, NEW a \in Int, NEW b \in Int, Gap(a, b)
  PROVE  Gap(a, b)'
  <1>1. a <= b /\ \A c \in a..(b - 1) : Holds(c, Nop)
    BY DEF Gap
  <1>2. \A c \in a..(b - 1) : Holds(c, Nop)'
    BY <1>1, HoldsKept
  <1>3. Nop' = Nop
    BY DEF Nop, Word
  <1> QED BY <1>1, <1>2 DEF Gap, Nop, Word

LEMMA GapJoin ==
  ASSUME NEW a \in Int, NEW b \in Int, NEW c \in Int, Gap(a, b)', Gap(b, c)'
  PROVE  Gap(a, c)'
  BY DEF Gap

LEMMA GapNone ==
  ASSUME NEW a \in Int
  PROVE  Gap(a, a) /\ Gap(a, a)'
  BY DEF Gap

-----------------------------------------------------------------------------
(* What a turn of the loop leaves of the instructions before. *)

\* A displacement within the range is encoded as it is.
LEMMA EncodedNear ==
  ASSUME NEW op \in PcRelative, NEW d \in Int, -Half[op] <= d, d < Half[op]
  PROVE  Encoded(op, d) = d
  <1> DEFINE n == Half[op]
  <1>1. n \in Int /\ n > 0
    BY RelocationAssumption DEF RelocationAssumption
  <1>2. -n <= d /\ d < n
    OBVIOUS
  <1> HIDE DEF n
  <1>3. (d + n) % (2 * n) = d + n
    <2>1. 0 <= d + n /\ d + n < 2 * n
      BY <1>1, <1>2
    <2> DEFINE e == d + n
               m == 2 * n
    <2>2. e \in Int /\ m \in Int /\ 0 <= e /\ e < m
      BY <1>1, <2>1
    <2> HIDE DEF e, m
    <2>3. e % m = e
      BY <2>2
    <2> QED BY <2>3 DEF e, m
  <1> QED BY <1>1, <1>3 DEF Encoded, n

\* Two places of a row are within the range of every displacement.
LEMMA EncodedInRow ==
  ASSUME place \in Places, NEW op \in PcRelative, NEW a \in Row, NEW b \in Row
  PROVE  Encoded(op, b - a) = b - a
  <1>1. Half[op] \in Nat /\ TrampolineSize < Half[op]
    BY RelocationAssumption, RangesAssumption DEF RelocationAssumption, RangesAssumption
  <1>2. place.tramp \in Int /\ TrampolineSize = 50
    BY PlaceTyped DEF TrampolineSize, MaxInstructions
  <1>3. b - a \in Int /\ -Half[op] <= b - a /\ b - a < Half[op]
    BY <1>1, <1>2 DEF Row
  <1> QED BY <1>3, EncodedNear

\* The next word goes into the row.
LEMMA HereInRow ==
  RelocInv => Here \in Row /\ place.tramp <= Here
  <1> SUFFICES ASSUME RelocInv
               PROVE  Here \in Row /\ place.tramp <= Here
    OBVIOUS
  <1>1. Len(out) \in Nat /\ Len(out) <= TrampolineSize /\ place.tramp \in Int
    BY RowIsLongEnough, PlaceTyped DEF FitsTrampoline, RelocInv, TypeOK
  <1> QED BY <1>1 DEF Here, Row, TrampolineSize, MaxInstructions

\* The old instructions keep their places and their operands.
LEMMA EmitsKeeps ==
  ASSUME RelocInv, phase = "relocate", Len(prog) < count,
         NEW i \in Instructions, NEW start \in Int, NEW words \in Seq(Words),
         Emits(i, start, words)
  PROVE  /\ place' = place /\ hook' = hook /\ count' = count /\ Row' = Row
         /\ phase' = phase /\ kind' = kind /\ patched' = patched /\ entry' = entry
         /\ prog'[Index] = i /\ ins'[Index] = start
         /\ Len(ins) = Len(prog) /\ Index = Len(prog) + 1 /\ Len(prog) \in Nat
         /\ \A j \in 1..Len(prog) :
              /\ prog'[j] = prog[j] /\ ins'[j] = ins[j] /\ At(j)' = At(j)
              /\ TargetOf(j)' = TargetOf(j) /\ PageAt(j)' = PageAt(j)
              /\ Readable(j)' <=> Readable(j)
              /\ prog[j] \in Instructions /\ TargetOf(j) \in Int /\ At(j) \in Int
         /\ \A t \in Int : (InFixingRange(t)' <=> InFixingRange(t)) /\ RefIndex(t)' = RefIndex(t)
  <1>1. /\ UNCHANGED <<place, kind, phase, patched, entry>>
        /\ prog' = Append(prog, i) /\ ins' = Append(ins, start)
        /\ prog \in Seq(Instructions) /\ ins \in Seq(Int) /\ place \in Places
        /\ Len(ins) = Len(prog)
    BY DEF Emits, Emit, RelocInv, TypeOK, Progress
  <1>2. hook' = hook /\ count' = count /\ Row' = Row
    BY <1>1 DEF hook, count, CallbackFar, Row
  <1>3. /\ Len(prog) \in Nat /\ Index = Len(prog) + 1
        /\ prog'[Index] = i /\ ins'[Index] = start
        /\ \A j \in 1..Len(prog) : prog'[j] = prog[j] /\ ins'[j] = ins[j]
    BY <1>1 DEF Index
  <1>4. \A t \in Int : (InFixingRange(t)' <=> InFixingRange(t)) /\ RefIndex(t)' = RefIndex(t)
    BY <1>2 DEF InFixingRange, RefIndex
  <1>5. \A j \in 1..Len(prog) : prog[j] \in Instructions /\ TargetOf(j) \in Int /\ At(j) \in Int
    <2> TAKE j \in 1..Len(prog)
    <2>1. prog[j] \in Instructions /\ ins[j] \in Int
      BY <1>1
    <2>2. prog[j].to \in Int /\ hook \in Int /\ RwDelta \in Int
      BY <2>1, Positions, RelocationAssumption DEF RelocInv, RelocationAssumption
    <2> QED BY <2>1, <2>2 DEF TargetOf, At
  <1>6. ASSUME NEW j \in 1..Len(prog)
        PROVE  /\ At(j)' = At(j) /\ TargetOf(j)' = TargetOf(j) /\ PageAt(j)' = PageAt(j)
               /\ Readable(j)' <=> Readable(j)
    <2>1. At(j)' = At(j) /\ TargetOf(j)' = TargetOf(j)
      BY <1>2, <1>3 DEF At, TargetOf
    <2>2. PageAt(j)' = PageAt(j)
      BY <1>2, <1>3 DEF PageAt, PageOf
    <2>3. Readable(j)' <=> Readable(j)
      BY <1>1, <1>2, <1>3, <2>1, <2>2 DEF Readable, InFixingRange, Abs
    <2> QED BY <2>1, <2>2, <2>3
  <1> QED BY <1>1, <1>2, <1>3, <1>4, <1>5, <1>6

\* A displacement that was right stays right, and the ones that waited for the
\* new instruction become right.
LEMMA GoesKept ==
  ASSUME RelocInv, phase = "relocate", Len(prog) < count,
         NEW i \in Instructions, NEW start \in Int, NEW words \in Seq(Words),
         Emits(i, start, words),
         NEW k \in Int, k = Index, NEW s \in Row, s = At(k)', i.op # "adrp" => start = s,
         NEW j \in 1..Len(prog), prog[j].op \in PcRelative, NEW a \in Row, Goes(j, a)
  PROVE  Goes(j, a)'
  <1> DEFINE op == prog[j].op
  <1>1. /\ place.tramp \in Int /\ place \in Places /\ Len(out) \in Nat /\ Len(words) \in Nat
        /\ a \in Int /\ s \in Int
    BY PlaceTyped DEF RelocInv, TypeOK, Row
  <1>0. PICK q \in Int : q = a - place.tramp + 1
    BY <1>1
  <1>2. q \in 1..Len(out) /\ out[q].op = op /\ InTramp(a)
    BY <1>0, <1>1 DEF Goes, InTramp, End, WordAt
  <1>3. k \in 1..MaxInstructions /\ k = Len(prog) + 1 /\ Index' = k + 1 /\ Len(prog') = k
    <2>1. Index' = Index + 1 /\ Len(prog') = Len(prog) + 1
      BY EmitsGrows
    <2>2. Len(prog) \in Nat /\ count \in 1..MaxInstructions
      BY CountValues DEF RelocInv, TypeOK, MaxInstructions
    <2> QED BY <2>1, <2>2 DEF Index, MaxInstructions
  <1>t. PICK t \in Int : t = TargetOf(j)
    BY EmitsKeeps
  <1>4. /\ Len(out') = Len(out) + Len(words)
        /\ out'[q] = IF q \in fixes[k] THEN Word(op, Encoded(op, start - (place.tramp + q - 1)))
                                       ELSE out[q]
        /\ \A m \in 1..MaxInstructions : q \in fixes'[m] <=> q \in fixes[m]
    BY <1>2, EmitsWords
  <1>5. /\ place' = place /\ prog'[j] = prog[j] /\ TargetOf(j)' = t
        /\ InFixingRange(t)' <=> InFixingRange(t)
        /\ RefIndex(t)' = RefIndex(t)
        /\ prog'[k] = i
    BY <1>t, EmitsKeeps
  <1>6. Waits(a)' = Waits(a) \ {k}
    <2>1. Waits(a) = {m \in k..MaxInstructions : q \in fixes[m]}
      BY <1>0 DEF Waits
    <2>2. Waits(a)' = {m \in (k + 1)..MaxInstructions : q \in fixes'[m]}
      BY <1>0, <1>3, <1>5 DEF Waits
    <2>3. \A m \in k..MaxInstructions : q \in fixes'[m] <=> q \in fixes[m]
      BY <1>3, <1>4 DEF MaxInstructions
    <2>4. (k + 1)..MaxInstructions = (k..MaxInstructions) \ {k}
      BY <1>3 DEF MaxInstructions
    <2> QED BY <2>1, <2>2, <2>3, <2>4
  <1>7. q \in fixes[k] <=> k \in Waits(a)
    BY <1>0, <1>3 DEF Waits, MaxInstructions
  <1>8. InTramp(a)'
    <2>1. place.tramp <= a /\ a <= place.tramp + Len(out) - 1
      BY <1>0, <1>1, <1>2
    <2>2. a \in place.tramp..(place.tramp + Len(out') - 1)
      BY <1>1, <1>4, <2>1
    <2> QED BY <1>5, <2>2 DEF InTramp, End
  <1>9. WordAt(a)' = out'[q] /\ WordAt(a) = out[q]
    BY <1>0, <1>5 DEF WordAt
  <1>10. WordAt(a)'.op = prog'[j].op
    BY <1>2, <1>4, <1>5, <1>9 DEF Word
  <1>11. RefIndex(t) \in Int
    BY <1>t, Positions DEF RefIndex, RelocInv
  <1>12. CASE InFixingRange(t) /\ RefIndex(t) = k
    <2>1. Waits(a) = {k}
      BY <1>t, <1>3, <1>12 DEF Goes
    <2>2. Waits(a)' = {}
      BY <1>6, <2>1
    <2>3. ASSUME prog'[k].op # "adrp"
          PROVE  a + WordAt(a)'.to = At(k)'
      <3>1. start = s
        BY <1>5, <2>3
      <3>2. WordAt(a)' = Word(op, Encoded(op, s - a))
        <4>1. start - (place.tramp + q - 1) = s - a /\ q \in fixes[k]
          BY <1>0, <1>1, <1>7, <2>1, <3>1
        <4> QED BY <1>4, <1>9, <4>1
      <3>3. Encoded(op, s - a) = s - a
        BY <1>1, EncodedInRow
      <3> QED BY <1>1, <3>2, <3>3 DEF Word
    <2> QED BY <1>3, <1>5, <1>8, <1>10, <1>12, <2>2, <2>3 DEF Goes
  <1>13. CASE InFixingRange(t) /\ RefIndex(t) > k
    <2>1. Waits(a) = {RefIndex(t)} /\ k \notin Waits(a)
      BY <1>t, <1>3, <1>11, <1>13 DEF Goes
    <2>2. Waits(a)' = {RefIndex(t)}
      BY <1>6, <2>1
    <2> QED BY <1>3, <1>5, <1>8, <1>10, <1>13, <2>2 DEF Goes
  <1>14. CASE InFixingRange(t) /\ RefIndex(t) < k
    <2>1. /\ Waits(a) = {} /\ RefIndex(t) <= Len(prog)
          /\ prog[RefIndex(t)].op # "adrp" => a + WordAt(a).to = At(RefIndex(t))
      BY <1>t, <1>3, <1>11, <1>14 DEF Goes
    <2>2. Waits(a)' = {} /\ WordAt(a)' = WordAt(a)
      BY <1>4, <1>6, <1>7, <1>9, <2>1
    <2>3. RefIndex(t) \in 1..Len(prog)
      BY <1>5, <1>11, <1>14, <2>1, Positions, CountValues DEF InFixingRange, RefIndex, RelocInv, TypeOK
    <2>4. prog'[RefIndex(t)] = prog[RefIndex(t)] /\ At(RefIndex(t))' = At(RefIndex(t))
      <3>1. PICK r \in 1..Len(prog) : r = RefIndex(t)
        BY <2>3
      <3>2. prog'[r] = prog[r] /\ At(r)' = At(r)
        BY EmitsKeeps
      <3> QED BY <1>5, <3>1, <3>2
    <2> QED BY <1>3, <1>5, <1>8, <1>10, <1>11, <1>14, <2>1, <2>2, <2>4 DEF Goes
  <1>15. CASE ~InFixingRange(t)
    <2>1. Waits(a) = {} /\ a + WordAt(a).to = t
      BY <1>t, <1>15 DEF Goes
    <2>2. Waits(a)' = {} /\ WordAt(a)' = WordAt(a)
      BY <1>4, <1>6, <1>7, <1>9, <2>1
    <2> QED BY <1>5, <1>8, <1>10, <1>15, <2>1, <2>2 DEF Goes
  <1> QED BY <1>3, <1>11, <1>12, <1>13, <1>14, <1>15

\* What becomes of the effect of an instruction when no word that it needs
\* changes and the code behind it goes on from where it did.
LEMMA EffectStays ==
  ASSUME NEW j \in Nat, NEW a \in Int, Effect(j, a), NEW t \in Int, t = TargetOf(j),
         prog'[j] = prog[j], TargetOf(j)' = t, PageAt(j)' = PageAt(j), At(j)' = At(j),
         InFixingRange(t)' <=> InFixingRange(t),
         prog[j].op \in PcRelative /\ Goes(j, a) => Goes(j, a)',
         \A b \in Int : Gap(b, Rest(j)) => Gap(b, Rest(j))',
         \A b \in Int : \A w : Holds(b, w) => Holds(b, w)'
  PROVE  Effect(j, a)'
  <1>1. PICK g : g = ByteAt(j)
    OBVIOUS
  <1>2. PICK c : c = prog[j].op
    OBVIOUS
  <1>3. /\ prog'[j].op = c /\ TargetOf(j)' = t /\ ByteAt(j)' = g /\ At(j)' = At(j)
        /\ InFixingRange(t)' <=> InFixingRange(t)
    BY <1>1, <1>2 DEF ByteAt
  <1>4. CASE c = "prfm" /\ Gap(a, Rest(j))
    BY <1>3, <1>4 DEF Effect
  <1>5. CASE c = "plain" /\ Holds(a, Word("plain", j)) /\ Gap(a + 1, Rest(j))
    <2>1. Holds(a, Word("plain", j))' /\ Gap(a + 1, Rest(j))'
      BY <1>5
    <2> QED BY <1>3, <1>5, <2>1 DEF Effect
  <1>6. CASE c \in PcRelative \ Literals /\ a = At(j) /\ Goes(j, a) /\ Gap(a + 1, Rest(j))
    <2>1. Goes(j, a)'
      BY <1>2, <1>6
    <2>2. Gap(a + 1, Rest(j))'
      BY <1>6
    <2> QED BY <1>3, <1>6, <2>1, <2>2 DEF Effect
  <1>7. CASE c = "b" /\ ~InFixingRange(t) /\ Holds(a, Word("jump", t))
    <2>1. Holds(a, Word("jump", t))'
      BY <1>7
    <2> QED BY <1>3, <1>7, <2>1 DEF Effect
  <1>8. CASE c = "bl" /\ ~InFixingRange(t) /\ Holds(a, Word("call", t)) /\ Gap(a + 5, Rest(j))
    <2>1. Holds(a, Word("call", t))'
      BY <1>8
    <2>2. a + 5 \in Int /\ Gap(a + 5, Rest(j))
      BY <1>8
    <2>3. Gap(a + 5, Rest(j))'
      BY <2>2
    <2> QED BY <1>3, <1>8, <2>1, <2>3 DEF Effect
  <1>9. CASE /\ c \in Conditional /\ ~InFixingRange(t)
              /\ Holds(a, Word(c, 2)) /\ Holds(a + 1, Word("b", 5)) /\ Holds(a + 2, Word("jump", t))
              /\ Gap(a + 6, Rest(j))
    <2>1. Holds(a, Word(c, 2))' /\ Holds(a + 1, Word("b", 5))'
      BY <1>9
    <2>2. Holds(a + 2, Word("jump", t))' /\ Gap(a + 6, Rest(j))'
      BY <1>9
    <2> QED BY <1>3, <1>9, <2>1, <2>2 DEF Effect
  <1>10. CASE /\ c \in Literals
              /\ Holds(a, Word(c, 2)) /\ Holds(a + 1, Word("b", LiteralWords[c] + 1))
              /\ \A m \in 0..(LiteralWords[c] - 1) : Holds(a + 2 + m, Word("value", t + m))
              /\ Gap(a + 2 + LiteralWords[c], Rest(j))
    <2>1. LiteralWords[c] \in {1, 2, 4}
      BY <1>10 DEF Literals, LiteralWords
    <2>2. PICK n \in {1, 2, 4} : n = LiteralWords[c]
      BY <2>1
    <2>3. /\ Holds(a, Word(c, 2))' /\ Holds(a + 1, Word("b", n + 1))'
          /\ Gap(a + 2 + n, Rest(j))'
      BY <1>10, <2>2
    <2>4. ASSUME NEW m \in 0..(n - 1)
          PROVE  Holds(a + 2 + m, Word("value", t + m))'
      <3>1. Holds(a + 2 + m, Word("value", t + m)) /\ a + 2 + m \in Int
        BY <1>10, <2>2
      <3> QED BY <3>1
    <2> QED BY <1>3, <1>10, <2>2, <2>3, <2>4 DEF Effect
  <1>11. CASE /\ c \in Addresses \cup {"adrp"} /\ Holds(a, Word("set", g))
              /\ Holds(a + 1, Word("b", 3)) /\ Gap(a + 4, Rest(j))
    <2>1. /\ Holds(a, Word("set", g))'
          /\ Holds(a + 1, Word("b", 3))' /\ Gap(a + 4, Rest(j))'
      BY <1>11
    <2> QED BY <1>3, <1>11, <2>1 DEF Effect
  <1> QED BY <1>1, <1>2, <1>4, <1>5, <1>6, <1>7, <1>8, <1>9, <1>10, <1>11 DEF Effect

\* The relocated instructions keep their effect, whatever the next one becomes:
\* what lies between the last of them and the next are NOPs.
LEMMA EffectsStay ==
  ASSUME RelocInv, StartsInRow, EffectsKept, phase = "relocate", Len(prog) < count,
         NEW i \in Instructions, NEW start \in Int, NEW words \in Seq(Words),
         Emits(i, start, words),
         NEW k \in Int, k = Index, NEW s \in Row, s = At(k)', i.op # "adrp" => start = s,
         NEW h \in Int, h = Here, s <= Here', Gap(h, s)'
  PROVE  /\ StartsInRow'
         /\ \A j \in 1..Len(prog) : Readable(j)' => \E a \in Row : Gap(At(j), a)' /\ Effect(j, a)'
  <1>1. /\ place' = place /\ phase' = phase /\ Row' = Row
        /\ Len(ins) = Len(prog) /\ k = Len(prog) + 1 /\ Len(prog) \in Nat
        /\ Grows /\ Len(ins') = Len(ins) + 1
        /\ place.tramp \in Int /\ s \in Int
    BY EmitsKeeps, EmitsGrows, PlaceTyped DEF RelocInv, TypeOK, Row
  <1>2. h <= s
    BY DEF Gap
  <1>3. ASSUME NEW j \in 1..Len(prog), NEW b \in Int, Gap(b, Rest(j))
        PROVE  Gap(b, Rest(j))'
    <2>1. CASE j < Len(ins)
      <3>1. j + 1 \in 1..Len(prog)
        BY <1>1, <2>1
      <3>2. PICK n \in 1..Len(prog) : n = j + 1
        BY <3>1
      <3>3. At(n)' = At(n) /\ At(n) \in Int
        BY EmitsKeeps
      <3>4. PICK r \in Int : r = At(n)
        BY <3>3
      <3>5. Rest(j) = r /\ Rest(j)' = r
        BY <1>1, <2>1, <3>2, <3>3, <3>4 DEF Rest
      <3>6. Gap(b, r)'
        BY <1>1, <1>3, <3>5, GapKept
      <3> QED BY <3>5, <3>6
    <2>2. CASE j = Len(ins)
      <3>1. Rest(j) = h
        BY <1>1, <2>2 DEF Rest
      <3>2. Gap(b, h)'
        BY <1>1, <1>3, <3>1, GapKept
      <3>3. Gap(b, s)'
        BY <1>1, <3>2, GapJoin
      <3>4. Rest(j)' = s
        BY <1>1, <2>2 DEF Rest
      <3> QED BY <3>3, <3>4
    <2> QED BY <1>1, <2>1, <2>2
  <1>4. \A a \in Int : \A w : Holds(a, w) => Holds(a, w)'
    BY <1>1, HoldsKept
  <1>5. ASSUME NEW j \in 1..Len(prog), NEW a \in Row, Effect(j, a)
        PROVE  Effect(j, a)'
    <2>1. a \in Int
      BY <1>1 DEF Row
    <2>2. PICK t \in Int : t = TargetOf(j)
      BY EmitsKeeps
    <2>3. /\ prog'[j] = prog[j] /\ TargetOf(j)' = t /\ PageAt(j)' = PageAt(j) /\ At(j)' = At(j)
          /\ InFixingRange(t)' <=> InFixingRange(t)
      BY <2>2, EmitsKeeps
    <2>4. prog[j].op \in PcRelative /\ Goes(j, a) => Goes(j, a)'
      BY GoesKept
    <2>5. \A b \in Int : Gap(b, Rest(j)) => Gap(b, Rest(j))'
      BY <1>3
    <2> QED BY <1>4, <1>5, <2>1, <2>2, <2>3, <2>4, <2>5, EffectStays
  <1>6. ASSUME NEW j \in 1..Len(prog), Readable(j)'
        PROVE  \E a \in Row : Gap(At(j), a)' /\ Effect(j, a)'
    <2>1. Readable(j) /\ At(j)' = At(j) /\ At(j) \in Int
      BY <1>6, EmitsKeeps
    <2>2. PICK a \in Row : Gap(At(j), a) /\ Effect(j, a)
      BY <1>1, <2>1 DEF EffectsKept, RelocInv, TypeOK
    <2>3. PICK c \in Int : c = At(j)
      BY <2>1
    <2>4. a \in Int
      BY <1>1 DEF Row
    <2>5. Gap(c, a)'
      BY <1>1, <2>2, <2>3, <2>4, GapKept
    <2>6. Gap(At(j), a)'
      BY <2>1, <2>3, <2>5
    <2>7. Effect(j, a)'
      BY <1>5, <2>2
    <2> QED BY <2>6, <2>7
  <1>7. StartsInRow'
    <2>1. DOMAIN ins = 1..Len(prog) /\ DOMAIN ins' = 1..k /\ Here <= Here'
      <3>1. ins' \in Seq(Int) /\ ins \in Seq(Int) /\ Len(out) <= Len(out') /\ Len(out) \in Nat /\ Len(out') \in Nat
        BY <1>1 DEF Emits, Emit, RelocInv, TypeOK, Grows
      <3> QED BY <1>1, <3>1 DEF Here
    <2>2. ASSUME NEW j \in 1..Len(prog)
          PROVE  At(j)' \in place.tramp..(Here')
      <3>1. At(j) \in place.tramp..Here /\ At(j)' = At(j)
        BY <2>1, EmitsKeeps DEF StartsInRow
      <3> QED BY <1>1, <2>1, <3>1 DEF Here
    <2>3. At(k)' \in place.tramp..(Here')
      <3>1. s \in place.tramp..(Here')
        BY <1>1 DEF Row, Here
      <3> QED BY <3>1
    <2>4. DOMAIN prog' = 1..k /\ prog'[k] = i /\ ins'[k] = start
      <3>1. prog \in Seq(Instructions) /\ prog' = Append(prog, i)
        BY DEF Emits, Emit, RelocInv, TypeOK
      <3> QED BY <1>1, <3>1, EmitsKeeps
    <2>5. ASSUME NEW j \in 1..k, prog'[j].op # "adrp"
          PROVE  ins'[j] = At(j)'
      <3>1. CASE j = k
        BY <2>4, <2>5, <3>1
      <3>2. CASE j \in 1..Len(prog)
        <4>1. prog'[j] = prog[j] /\ ins'[j] = ins[j] /\ At(j)' = At(j)
          BY <3>2, EmitsKeeps
        <4>2. j \in DOMAIN prog
          BY <3>2 DEF RelocInv, TypeOK
        <4> QED BY <2>5, <4>1, <4>2 DEF StartsInRow
      <3> QED BY <1>1, <3>1, <3>2
    <2> QED BY <1>1, <2>1, <2>2, <2>3, <2>4, <2>5 DEF StartsInRow
  <1> QED BY <1>6, <1>7

-----------------------------------------------------------------------------
(* What a turn of the loop adds. *)

\* The words of a turn that leaves no fix are there to stay.
LEMMA Written ==
  ASSUME RelocInv, phase = "relocate", Len(prog) < count,
         NEW i \in Instructions, NEW start \in Int, NEW words \in Seq(Words),
         Emits(i, start, words), fixes' = fixes, NEW h \in Int, h = Here
  PROVE  /\ \A q \in 1..Len(words) : Holds(h + q - 1, words[q])'
         /\ Here' = h + Len(words)
  <1>1. /\ place' = place /\ place.tramp \in Int
        /\ Len(out) \in Nat /\ Len(words) \in Nat /\ Len(prog) \in Nat
        /\ Index' = Len(prog) + 2
    BY EmitsKeeps, EmitsGrows, PlaceTyped DEF RelocInv, TypeOK
  <1>2. /\ Len(out') = Len(out) + Len(words)
        /\ \A q \in 1..Len(words) : out'[Len(out) + q] = words[q]
        /\ \A j \in 1..MaxInstructions : \A q \in fixes'[j] : q <= Len(out)
    BY EmitsWords
  <1>3. ASSUME NEW q \in 1..Len(words)
        PROVE  Holds(h + q - 1, words[q])'
    <2>1. PICK a \in Int : a = h + q - 1
      BY <1>1
    <2>2. a - place.tramp + 1 = Len(out) + q
      <3>1. PICK t \in Int, n \in Int : t = place.tramp /\ n = Len(out)
        BY <1>1
      <3>2. h = t + n /\ q \in Int
        BY <3>1 DEF Here
      <3>3. a - t + 1 = n + q
        BY <2>1, <3>2
      <3> QED BY <3>1, <3>3
    <2>3. WordAt(a)' = words[q]
      BY <1>1, <1>2, <2>2 DEF WordAt
    <2>4. InTramp(a)'
      BY <1>1, <1>2, <2>2 DEF InTramp, End
    <2>5. Waits(a)' = {}
      <3>1. ASSUME NEW j \in (Index')..MaxInstructions
            PROVE  Len(out) + q \notin fixes'[j]
        <4>1. j \in 1..MaxInstructions
          BY <1>1, <3>1 DEF MaxInstructions
        <4> QED BY <1>1, <1>2, <4>1
      <3> QED BY <1>1, <2>2, <3>1 DEF Waits
    <2> QED BY <2>1, <2>3, <2>4, <2>5 DEF Holds
  <1> QED BY <1>1, <1>2, <1>3 DEF Here

\* The same of words behind NOPs.
LEMMA PaddedWritten ==
  ASSUME RelocInv, phase = "relocate", Len(prog) < count,
         NEW i \in Instructions, NEW start \in Int, NEW pad \in 0..3, NEW body \in Seq(Words),
         Emits(i, start, Nops(pad) \o body), fixes' = fixes, NEW h \in Int, h = Here
  PROVE  /\ Gap(h, h + pad)'
         /\ \A q \in 1..Len(body) : Holds(h + pad + q - 1, body[q])'
         /\ Here' = h + pad + Len(body)
  <1> DEFINE nops == Nops(pad)
             words == nops \o body
  <1>1. nops \in Seq(Words) /\ Len(nops) = pad /\ \A q \in 1..pad : nops[q] = Nop
    <2>1. pad \in Nat
      OBVIOUS
    <2> QED BY <2>1, NopsSeq DEF Nops
  <1> HIDE DEF nops
  <1>2. /\ words \in Seq(Words) /\ Len(words) = pad + Len(body) /\ Len(body) \in Nat
        /\ \A q \in 1..pad : words[q] = Nop
        /\ \A q \in 1..Len(body) : words[pad + q] = body[q]
    BY <1>1, ConcatProperties
  <1>3. Emits(i, start, words)
    BY DEF nops
  <1> HIDE DEF words
  <1>4. PICK w \in Seq(Words) : w = words
    BY <1>2
  <1>5. Emits(i, start, w)
    BY <1>3, <1>4
  <1>6. /\ \A q \in 1..Len(w) : Holds(h + q - 1, w[q])'
        /\ Here' = h + Len(w)
    BY <1>5, Written
  <1>7. Gap(h, h + pad)'
    <2>1. PICK nop : nop = Nop
      OBVIOUS
    <2>2. Nop' = nop
      BY <2>1 DEF Nop, Word
    <2>3. ASSUME NEW c \in h..(h + pad - 1)
          PROVE  Holds(c, Nop)'
      <3>1. c - h + 1 \in 1..pad /\ c - h + 1 \in 1..Len(w) /\ h + (c - h + 1) - 1 = c
        BY <1>2, <1>4, <2>3
      <3>2. Holds(c, w[c - h + 1])'
        BY <1>6, <3>1
      <3>3. w[c - h + 1] = nop
        BY <1>2, <1>4, <2>1, <3>1
      <3> QED BY <2>2, <3>2, <3>3
    <2> QED BY <2>3 DEF Gap
  <1>8. ASSUME NEW q \in 1..Len(body)
        PROVE  Holds(h + pad + q - 1, body[q])'
    <2>1. pad + q \in 1..Len(w) /\ w[pad + q] = body[q]
      BY <1>2, <1>4
    <2>2. h + (pad + q) - 1 = h + pad + q - 1
      OBVIOUS
    <2> QED BY <1>6, <2>1, <2>2
  <1> QED BY <1>2, <1>4, <1>6, <1>7, <1>8

\* A turn keeps what holds of the relocated code if the new instruction keeps
\* its effect.
LEMMA TurnKeeps ==
  ASSUME RelocInv, StartsInRow, EffectsKept, phase = "relocate", Len(prog) < count,
         NEW i \in Instructions, NEW start \in Int, NEW words \in Seq(Words),
         Emits(i, start, words),
         NEW k \in Int, k = Index, NEW s \in Row, s = At(k)', i.op # "adrp" => start = s,
         NEW h \in Int, h = Here, s <= Here', Gap(h, s)',
         Readable(k)' => \E a \in Row : Gap(s, a)' /\ Effect(k, a)'
  PROVE  StartsInRow' /\ EffectsKept'
  <1>1. /\ StartsInRow'
        /\ \A j \in 1..Len(prog) : Readable(j)' => \E a \in Row : Gap(At(j), a)' /\ Effect(j, a)'
    BY EffectsStay
  <1>2. Row' = Row /\ k = Len(prog) + 1 /\ Len(prog) \in Nat
    BY EmitsKeeps
  <1>3. DOMAIN prog' = 1..k
    <2>1. prog \in Seq(Instructions) /\ prog' = Append(prog, i)
      BY DEF Emits, Emit, RelocInv, TypeOK
    <2> QED BY <1>2, <2>1
  <1>4. ASSUME NEW j \in 1..k, Readable(j)'
        PROVE  \E a \in Row : Gap(At(j), a)' /\ Effect(j, a)'
    <2>1. CASE j = k BY <1>4, <2>1
    <2>2. CASE j # k BY <1>1, <1>2, <1>4, <2>2
    <2> QED BY <2>1, <2>2
  <1> QED BY <1>1, <1>2, <1>3, <1>4 DEF EffectsKept

\* Words for which nothing has been noted do not wait.
LEMMA NearWaits ==
  ASSUME RelocInv, phase = "relocate", Len(prog) < count,
         NEW i \in Instructions, NEW start \in Int, NEW words \in Seq(Words),
         Emits(i, start, words), NEW h \in Int, h = Here
  PROVE  /\ fixes' = fixes => Waits(h)' = {}
         /\ \A r \in (Index + 1)..count :
              fixes' = [fixes EXCEPT ![r] = @ \cup {Len(out) + 1}] => Waits(h)' = {r}
  <1>1. /\ place' = place /\ place.tramp \in Int /\ Len(out) \in Nat /\ Len(prog) \in Nat
        /\ Index = Len(prog) + 1 /\ Index' = Index + 1 /\ count \in 1..MaxInstructions
        /\ fixes \in [1..MaxInstructions -> SUBSET (1..Len(out))]
    <2>1. place' = place /\ Index = Len(prog) + 1 /\ Len(prog) \in Nat
      BY EmitsKeeps
    <2>2. Index' = Index + 1
      BY EmitsGrows
    <2> QED BY <2>1, <2>2, PlaceTyped, CountValues DEF RelocInv, TypeOK, MaxInstructions
  <1>2. PICK n \in Int : n = Index + 1
    BY <1>1
  <1>3. h - place.tramp + 1 = Len(out) + 1
    BY <1>1 DEF Here
  <1>4. Waits(h)' = {j \in n..MaxInstructions : Len(out) + 1 \in fixes'[j]}
    BY <1>1, <1>2, <1>3 DEF Waits
  <1>5. \A j \in n..MaxInstructions : j \in 1..MaxInstructions /\ Len(out) + 1 \notin fixes[j]
    BY <1>1, <1>2 DEF MaxInstructions
  <1>6. ASSUME NEW r \in (Index + 1)..count,
               fixes' = [fixes EXCEPT ![r] = @ \cup {Len(out) + 1}]
        PROVE  Waits(h)' = {r}
    <2>1. r \in n..MaxInstructions
      BY <1>1, <1>2 DEF MaxInstructions
    <2>2. \A j \in n..MaxInstructions :
            fixes'[j] = IF j = r THEN fixes[r] \cup {Len(out) + 1} ELSE fixes[j]
      BY <1>1, <1>5, <1>6
    <2>3. \A j \in n..MaxInstructions : Len(out) + 1 \in fixes'[j] <=> j = r
      BY <1>5, <2>2
    <2> QED BY <1>4, <2>1, <2>3
  <1> QED BY <1>4, <1>5, <1>6

\* A near relocation refers to what the instruction referred to.
LEMMA NearTurn ==
  ASSUME RelocInv, StartsInRow, EffectsKept, phase = "relocate", Len(prog) < count,
         NEW i \in Instructions, i.op \in PcRelative \ Literals,
         NEW target \in Int, EmitNear(i, target),
         ~InFixingRange(target) => -Half[i.op] <= target - Here /\ target - Here < Half[i.op],
         NEW k \in Int, k = Index, Readable(k)' => target = TargetOf(k)'
  PROVE  StartsInRow' /\ EffectsKept'
  <1>1. PICK d \in Int, w \in Words :
           /\ w = Word(i.op, Encoded(i.op, d))
           /\ <<w>> \in Seq(Words)
           /\ Emits(i, Here, <<w>>)
           /\ IF ~InFixingRange(target) THEN d = target - Here /\ fixes' = fixes
              ELSE /\ RefIndex(target) \in 1..count
                   /\ RefIndex(target) < Index => d = ins[RefIndex(target)] - Here /\ fixes' = fixes
                   /\ RefIndex(target) = Index => d = 0 /\ fixes' = fixes
                   /\ RefIndex(target) > Index =>
                        fixes' = [fixes EXCEPT ![RefIndex(target)] = @ \cup {Len(out) + 1}]
    BY NearEmits
  <1>2. PICK h \in Row : h = Here
    BY HereInRow
  <1>3. h \in Int /\ place \in Places /\ place.tramp \in Int /\ Len(out) \in Nat /\ count \in 1..5
    BY <1>2, PlaceTyped, CountValues DEF Row, RelocInv, TypeOK
  <1>4. Emits(i, h, <<w>>) /\ <<w>> \in Seq(Words)
    BY <1>1, <1>2
  <1>5. /\ place' = place /\ prog'[k] = i /\ ins'[k] = h /\ Row' = Row
        /\ k = Len(prog) + 1 /\ Len(prog) \in Nat /\ Len(ins) = Len(prog)
        /\ (InFixingRange(target)' <=> InFixingRange(target)) /\ RefIndex(target)' = RefIndex(target)
    BY <1>3, <1>4, EmitsKeeps
  <1>6. Len(prog') = k /\ Len(ins') = k
    BY <1>3, <1>4, <1>5, EmitsGrows
  <1>7. At(k)' = h
    BY <1>5 DEF At
  <1>8. Here' = h + 1 /\ WordAt(h)' = w /\ InTramp(h)'
    <2>1. Len(out') = Len(out) + 1 /\ out'[Len(out) + 1] = w
      <3>1. /\ Len(out') = Len(out) + Len(<<w>>)
            /\ \A q \in 1..Len(<<w>>) : out'[Len(out) + q] = <<w>>[q]
        BY <1>3, <1>4, EmitsWords
      <3> QED BY <3>1
    <2>2. h - place.tramp + 1 = Len(out) + 1
      BY <1>2, <1>3 DEF Here
    <2> QED BY <1>2, <1>3, <1>5, <2>1, <2>2 DEF Here, WordAt, InTramp, End
  <1>9. Gap(h, h)' /\ Gap(h + 1, h + 1)'
    BY <1>3, GapNone
  <1>10. Rest(k)' = h + 1
    BY <1>6, <1>8 DEF Rest
  <1>11. /\ fixes' = fixes => Waits(h)' = {}
         /\ \A r \in (k + 1)..count :
              fixes' = [fixes EXCEPT ![r] = @ \cup {Len(out) + 1}] => Waits(h)' = {r}
    BY <1>2, <1>3, <1>4, NearWaits
  <1>12. WordAt(h)'.op = i.op /\ WordAt(h)'.to = Encoded(i.op, d)
    BY <1>1, <1>8 DEF Word
  <1>13. ASSUME Readable(k)'
         PROVE  Goes(k, h)'
    <2>1. TargetOf(k)' = target
      BY <1>13
    <2>2. CASE ~InFixingRange(target)
      <3>1. Encoded(i.op, d) = target - h /\ Waits(h)' = {}
        BY <1>1, <1>2, <1>3, <1>11, <2>2, EncodedNear
      <3>2. h + WordAt(h)'.to = target
        BY <1>3, <1>12, <3>1
      <3> QED BY <1>5, <1>8, <1>12, <2>1, <2>2, <3>1, <3>2 DEF Goes
    <2>3. CASE InFixingRange(target)
      <3>1. PICK r \in 1..count : r = RefIndex(target)
        BY <1>1, <2>3
      <3>2. /\ r < k => d = ins[r] - h /\ fixes' = fixes
            /\ r = k => d = 0 /\ fixes' = fixes
            /\ r > k => fixes' = [fixes EXCEPT ![r] = @ \cup {Len(out) + 1}]
        BY <1>1, <1>2, <2>3, <3>1
      <3>3. CASE r > k
        <4>1. r \in (k + 1)..count
          BY <1>3, <3>3
        <4>2. Waits(h)' = {r}
          BY <1>11, <3>2, <3>3, <4>1
        <4> QED BY <1>5, <1>6, <1>8, <1>12, <2>1, <2>3, <3>1, <3>3, <4>2 DEF Goes
      <3>4. CASE r <= k
        <4>1. Waits(h)' = {}
          BY <1>3, <1>11, <3>2, <3>4
        <4>2. ASSUME prog'[r].op # "adrp"
              PROVE  h + WordAt(h)'.to = At(r)'
          <5>1. CASE r = k
            <6>1. Encoded(i.op, h - h) = h - h
              BY <1>2, <1>3, EncodedInRow
            <6>2. Encoded(i.op, d) = 0
              BY <1>3, <3>2, <5>1, <6>1
            <6> QED BY <1>3, <1>7, <1>12, <5>1, <6>2
          <5>2. CASE r < k
            <6>1. r \in 1..Len(prog) /\ r \in DOMAIN prog /\ r \in DOMAIN ins
              BY <1>5, <5>2 DEF RelocInv, TypeOK
            <6>2. prog'[r] = prog[r] /\ At(r)' = At(r)
              BY <1>3, <1>4, <6>1, EmitsKeeps
            <6>3. ins[r] = At(r) /\ At(r) \in place.tramp..h
              BY <1>2, <4>2, <6>1, <6>2 DEF StartsInRow
            <6>4. At(r) \in Row
              BY <1>2, <1>3, <6>3 DEF Row, TrampolineSize, MaxInstructions
            <6>5. Encoded(i.op, At(r) - h) = At(r) - h
              BY <1>2, <1>3, <6>4, EncodedInRow
            <6>6. WordAt(h)'.to = At(r) - h /\ At(r) \in Int
              BY <1>3, <1>12, <3>2, <5>2, <6>3, <6>5
            <6> QED BY <1>3, <6>2, <6>6
          <5> QED BY <1>3, <3>4, <5>1, <5>2
        <4> QED BY <1>5, <1>6, <1>8, <1>12, <2>1, <2>3, <3>1, <3>4, <4>1, <4>2 DEF Goes
      <3> QED BY <1>3, <1>5, <3>3, <3>4
    <2> QED BY <2>2, <2>3
  <1>14. ASSUME Readable(k)'
         PROVE  Effect(k, h)'
    BY <1>5, <1>7, <1>9, <1>10, <1>13, <1>14 DEF Effect
  <1>15. h <= Here'
    BY <1>3, <1>8
  <1> QED BY <1>2, <1>3, <1>4, <1>7, <1>9, <1>14, <1>15, TurnKeeps

\* The words of a relocation behind their NOPs: at most nine.
Behind(pad, body) == Nops(pad) \o body

LEMMA BehindShort ==
  ASSUME NEW pad \in 0..3, NEW body \in Seq(Words), Len(body) <= 6
  PROVE  Len(Behind(pad, body)) <= Longest /\ Behind(pad, body) \in Seq(Words)
  <1>1. PICK n : n = Len(Nops(pad) \o body)
    OBVIOUS
  <1>2. n <= 3 + Len(body) /\ Len(body) \in Nat /\ n \in Nat /\ Nops(pad) \o body \in Seq(Words)
    BY <1>1, Padded
  <1>3. n <= 9
    BY <1>2
  <1> QED BY <1>1, <1>2, <1>3 DEF Longest, Behind

\* Any other relocation are NOPs and words that do not wait, behind which the
\* code goes on; h is where the NOPs start, a where the other words do.
Far(i, start, pad, body, k, h, a) ==
  /\ Emit(i, start, Behind(pad, body)) /\ fixes' = fixes
  /\ k = Index /\ h = Here /\ a = h + pad
  /\ start = h \/ start = a \/ (i.op = "adrp" /\ start = h + RwDelta)

LEMMA FarWords ==
  ASSUME RelocInv, phase = "relocate", Len(prog) < count,
         NEW i \in Instructions, NEW start \in Int,
         NEW pad \in 0..3, NEW body \in Seq(Words), Len(body) <= 6,
         NEW k \in Int, NEW h \in Int, NEW a \in Int, Far(i, start, pad, body, k, h, a)
  PROVE  /\ \A q \in 1..Len(body) : Holds(a + q - 1, body[q])'
         /\ Rest(k)' = a + Len(body) /\ Gap(a + Len(body), a + Len(body))'
         /\ Gap(h, a)' /\ Here' = a + Len(body)
         /\ Len(body) \in Nat
         /\ \E w \in Seq(Words) : Emits(i, start, w)
  <1>1. PICK w \in Seq(Words) : w = Nops(pad) \o body /\ Len(w) <= Longest
    BY BehindShort DEF Behind
  <1>2. Emits(i, start, w) /\ Emits(i, start, Nops(pad) \o body)
    BY <1>1 DEF Emits, Behind, Far
  <1>3. h = Here /\ k = Index /\ a = h + pad /\ fixes' = fixes
    BY DEF Far
  <1>4. /\ Gap(h, a)'
        /\ \A q \in 1..Len(body) : Holds(a + q - 1, body[q])'
        /\ Here' = a + Len(body)
    BY <1>2, <1>3, PaddedWritten
  <1>5. Len(body) \in Nat
    OBVIOUS
  <1>6. k = Len(prog) + 1 /\ Len(ins) = Len(prog) /\ Len(prog) \in Nat
    BY <1>2, <1>3, EmitsKeeps
  <1>7. Len(ins') = k
    BY <1>2, <1>6, EmitsGrows
  <1>8. Rest(k)' = a + Len(body)
    BY <1>4, <1>7 DEF Rest
  <1>9. Gap(a + Len(body), a + Len(body))'
    BY <1>5, GapNone
  <1> QED BY <1>2, <1>4, <1>5, <1>8, <1>9

LEMMA FarTurn ==
  ASSUME RelocInv, StartsInRow, EffectsKept, phase = "relocate", Len(prog) < count,
         NEW i \in Instructions, NEW start \in Int,
         NEW pad \in 0..3, NEW body \in Seq(Words), Len(body) <= 6,
         NEW k \in Int, NEW h \in Int, NEW a \in Int, Far(i, start, pad, body, k, h, a),
         Readable(k)' => Effect(k, a)'
  PROVE  StartsInRow' /\ EffectsKept'
  <1>1. /\ Gap(h, a)' /\ Here' = a + Len(body) /\ Len(body) \in Nat
        /\ \E w \in Seq(Words) : Emits(i, start, w)
    BY FarWords
  <1>2. PICK w \in Seq(Words) : Emits(i, start, w)
    BY <1>1
  <1>3. h = Here /\ k = Index /\ a = h + pad
    BY DEF Far
  <1>4. place \in Places /\ place.tramp \in Int
    BY PlaceTyped DEF RelocInv, TypeOK
  <1>5. Row' = Row /\ ins'[k] = start
    BY <1>2, <1>3, EmitsKeeps
  <1>7. Here' \in Row
    <2>1. RelocInv'
      <3>1. Emission(i)
        BY <1>2 DEF Emission
      <3> QED BY <3>1, EmissionInv
    <2>2. RelocInv' => (Here \in Row /\ place.tramp <= Here)'
      BY HereInRow, PTL
    <2> QED BY <1>5, <2>1, <2>2
  <1>8. h \in Row /\ a \in Row /\ h <= a /\ a <= Here'
    <2>1. h \in Row
      BY <1>3, HereInRow
    <2> QED BY <1>1, <1>3, <1>4, <1>7, <2>1 DEF Row, TrampolineSize, MaxInstructions
  <1>10. Gap(h, h)' /\ Gap(a, a)'
    BY GapNone
  <1>12. CASE start = h \/ start = a
    <2>1. start \in Row /\ At(k)' = start
      BY <1>5, <1>8, <1>12 DEF At
    <2>2. Gap(h, start)' /\ Gap(start, a)' /\ start <= Here'
      BY <1>1, <1>4, <1>8, <1>10, <1>12
    <2> QED BY <1>2, <1>3, <1>8, <2>1, <2>2, TurnKeeps
  <1>13. CASE i.op = "adrp" /\ start = h + RwDelta
    <2>1. start \notin Row /\ start - RwDelta = h
      <3>1. RwDelta \in Int /\ RwDelta \notin (-50)..50 /\ TrampolineSize = 50
        BY RelocationAssumption, RangesAssumption
          DEF RelocationAssumption, RangesAssumption, TrampolineSize, MaxInstructions
      <3> QED BY <1>4, <1>8, <1>13, <3>1 DEF Row
    <2>2. At(k)' = h
      BY <1>5, <2>1 DEF At
    <2>3. h <= Here'
      BY <1>1, <1>4, <1>8
    <2> QED BY <1>1, <1>2, <1>3, <1>8, <1>10, <1>13, <2>2, <2>3, TurnKeeps
  <1> QED BY <1>12, <1>13 DEF Far

\* What the new instruction refers to.
LEMMA NewTarget ==
  ASSUME RelocInv, NEW i \in Instructions, NEW start, NEW words, Emit(i, start, words),
         NEW k \in Int, k = Index
  PROVE  /\ prog'[k] = i /\ TargetOf(k)' = hook + i.to
         /\ PageAt(k)' = PageOf(Input) + i.to * PageSize
         /\ hook + i.to \in Int /\ Input = hook + k - 1
         /\ \A t \in Int : InFixingRange(t)' <=> InFixingRange(t)
  <1>1. hook' = hook /\ count' = count /\ prog'[k] = i
    <2>1. place' = place /\ prog' = Append(prog, i) /\ prog \in Seq(Instructions)
      BY DEF Emit, RelocInv, TypeOK
    <2> QED BY <2>1 DEF Index, hook, count, CallbackFar
  <1>2. Input = hook + k - 1
    BY Positions DEF Input, Index, RelocInv, TypeOK
  <1>3. TargetOf(k)' = hook + i.to
    BY <1>1 DEF TargetOf
  <1>4. PageAt(k)' = PageOf(Input) + i.to * PageSize
    BY <1>1, <1>2 DEF PageAt, PageOf
  <1>5. \A t \in Int : InFixingRange(t)' <=> InFixingRange(t)
    BY <1>1 DEF InFixingRange
  <1>6. hook + i.to \in Int
    BY Positions DEF RelocInv
  <1> QED BY <1>1, <1>2, <1>3, <1>4, <1>5, <1>6

\* The operands that the relocator reads are the right ones if they lie ahead.
LEMMA ReadRight ==
  ASSUME RelocInv, NEW i \in Instructions, i.op \in PcRelative \ Branches, Encodable(i),
         Input <= hook + i.to
  PROVE  Read(i) = hook + i.to
  <1>1. /\ hook \in Int /\ i.to \in Int /\ Input \in Int
        /\ Half[i.op] \in Nat /\ Wrap \in Nat /\ Half[i.op] <= Wrap
    BY Positions, RelocationAssumption, RangesAssumption
      DEF RelocInv, RelocationAssumption, RangesAssumption
  <1>2. PICK d \in Int : d = hook + i.to - Input
    BY <1>1
  <1>3. 0 <= d /\ d < Half[i.op]
    BY <1>1, <1>2 DEF Encodable
  <1>4. PICK m \in Int : m = IF i.op \in Conditional THEN 2 * Half[i.op] ELSE Wrap
    BY <1>1
  <1>5. d % m = d
    <2>1. 0 <= d /\ d < m
      BY <1>1, <1>3, <1>4
    <2> QED BY <2>1
  <1>6. Read(i) = Input + d
    BY <1>2, <1>4, <1>5 DEF Read
  <1> QED BY <1>1, <1>2, <1>6

\* No NOPs at all.
LEMMA NopsNone ==
  ASSUME NEW words \in Seq(Words)
  PROVE  Nops(0) \o words = words
  <1>1. Nops(0) = <<>>
    BY DEF Nops
  <1> QED BY <1>1, ConcatEmptySeq

\* The turn for a branch.
LEMMA BranchTurn ==
  ASSUME RelocInv, StartsInRow, EffectsKept, phase = "relocate", Len(prog) < count,
         NEW i \in Instructions, RelocateBranch(i)
  PROVE  StartsInRow' /\ EffectsKept'
  <1>1. PICK h \in Int, t \in Int : h = Here /\ t = hook + i.to
    BY Positions DEF RelocInv
  <1>2. PICK k \in Int : k = Index
    BY DEF RelocInv, TypeOK, Index
  <1>3. i.op \in Branches /\ i.op \in PcRelative \ Literals /\ Half[i.op] \in Int
    BY RelocationAssumption
      DEF RelocateBranch, PcRelative, Branches, Conditional, Literals, RelocationAssumption
  <1>4. PICK pad : pad = Padding(h, IF i.op = "b" THEN 2 ELSE 3, 2)
    OBVIOUS
  <1>5. \/ /\ ~InFixingRange(t) /\ fixes' = fixes
           /\ Emit(i, h + pad, Nops(pad) \o
                IF i.op = "b" THEN Jump(t) ELSE <<Word("call", t), Data, Data, Data, Data>>)
        \/ /\ ~InFixingRange(t) => Abs(t - h) < Half[i.op] - 1
           /\ EmitNear(i, t)
    <2>1. Abs(t - h) \in Int
      BY <1>1 DEF Abs
    <2>2. Abs(t - h) >= Half[i.op] - 1 \/ Abs(t - h) < Half[i.op] - 1
      BY <1>3, <2>1
    <2> QED BY <1>1, <1>4, <2>2 DEF RelocateBranch
  <1>6. CASE (~InFixingRange(t) => Abs(t - h) < Half[i.op] - 1) /\ EmitNear(i, t)
    <2>1. ~InFixingRange(t) => -Half[i.op] <= t - Here /\ t - Here < Half[i.op]
      BY <1>1, <1>3, <1>6 DEF Abs
    <2>2. TargetOf(k)' = t
      BY <1>1, <1>2, <1>6, NewTarget DEF EmitNear
    <2> QED BY <1>2, <1>3, <1>6, <2>1, <2>2, NearTurn
  <1>7. CASE /\ ~InFixingRange(t) /\ fixes' = fixes
             /\ Emit(i, h + pad, Nops(pad) \o
                  IF i.op = "b" THEN Jump(t) ELSE <<Word("call", t), Data, Data, Data, Data>>)
    <2>1. pad \in 0..3
      BY <1>4, PaddingRange
    <2>2. PICK body : body = IF i.op = "b" THEN Jump(t) ELSE <<Word("call", t), Data, Data, Data, Data>>
      OBVIOUS
    <2>3. /\ body \in Seq(Words) /\ Len(body) <= 6
          /\ i.op = "b" => Len(body) = 4 /\ body[1] = Word("jump", t)
          /\ i.op # "b" => Len(body) = 5 /\ body[1] = Word("call", t)
      <3>1. CASE i.op = "b"
        <4>1. body = <<Word("jump", t), Data, Data, Data>>
          BY <2>2, <3>1 DEF Jump
        <4>2. Word("jump", t) \in Words /\ Data \in Words
          BY DEF Word, Words, WordOps, Data
        <4> QED BY <3>1, <4>1, <4>2
      <3>2. CASE i.op # "b"
        <4>1. body = <<Word("call", t), Data, Data, Data, Data>>
          BY <2>2, <3>2
        <4>2. Word("call", t) \in Words /\ Data \in Words
          BY DEF Word, Words, WordOps, Data
        <4> QED BY <3>2, <4>1, <4>2
      <3> QED BY <3>1, <3>2
    <2>4. PICK a \in Int : a = h + pad
      BY <2>1
    <2>5. Far(i, a, pad, body, k, h, a)
      <3>1. Emit(i, h + pad, Nops(pad) \o body)
        BY <1>7, <2>2, Zenon
      <3> QED BY <1>1, <1>2, <1>7, <2>4, <3>1 DEF Behind, Far
    <2>6. prog'[k] = i /\ TargetOf(k)' = t /\ ~InFixingRange(t)'
      BY <1>1, <1>2, <1>7, NewTarget
    <2>7. Effect(k, a)'
      <3>1. /\ \A q \in 1..Len(body) : Holds(a + q - 1, body[q])'
            /\ Rest(k)' = a + Len(body) /\ Gap(a + Len(body), a + Len(body))'
        BY <2>1, <2>3, <2>5, FarWords
      <3>2. Holds(a, body[1])'
        <4>1. 1 \in 1..Len(body) /\ a + 1 - 1 = a
          BY <2>3
        <4> QED BY <3>1, <4>1
      <3>3. CASE i.op = "b"
        BY <2>3, <2>6, <3>2, <3>3 DEF Effect
      <3>4. CASE i.op = "bl"
        BY <2>3, <2>6, <3>1, <3>2, <3>4 DEF Effect
      <3> QED BY <1>3, <3>3, <3>4 DEF Branches
    <2> QED BY <2>1, <2>3, <2>5, <2>7, FarTurn
  <1> QED BY <1>5, <1>6, <1>7

\* The operand that Supported asks for is the one that the turn has read.
LEMMA ReadTarget ==
  ASSUME RelocInv, NEW i \in Instructions, NEW start, NEW words, Emit(i, start, words),
         i.op \in PcRelative \ Branches, Encodable(i),
         NEW k \in Int, k = Index, Readable(k)'
  PROVE  TargetOf(k)' = Read(i) /\ Read(i) = hook + i.to
  <1>1. prog'[k] = i /\ TargetOf(k)' = hook + i.to /\ Input = hook + k - 1 /\ hook' = hook
    BY NewTarget DEF Emit, hook
  <1>2. hook + k - 1 <= hook + i.to
    BY <1>1 DEF Readable
  <1> QED BY <1>1, <1>2, ReadRight

\* The turn for a conditional branch.
LEMMA ConditionalTurn ==
  ASSUME RelocInv, StartsInRow, EffectsKept, phase = "relocate", Len(prog) < count,
         NEW i \in Instructions, RelocateConditional(i), Encodable(i)
  PROVE  StartsInRow' /\ EffectsKept'
  <1>1. i.op \in Conditional /\ i.op \in PcRelative \ Literals /\ i.op \in PcRelative \ Branches
        /\ Half[i.op] \in Int /\ i.op \in WordOps
    BY RelocationAssumption
      DEF RelocateConditional, PcRelative, Branches, Conditional, Literals, RelocationAssumption, WordOps, Ops
  <1>2. PICK h \in Int, t \in Int : h = Here /\ t = Read(i)
    BY <1>1, Positions, ReadInt DEF RelocInv
  <1>3. PICK k \in Int : k = Index
    BY DEF RelocInv, TypeOK, Index
  <1>4. PICK pad : pad = Padding(h, 4, 2)
    OBVIOUS
  <1>5. \/ /\ ~InFixingRange(t) /\ fixes' = fixes
           /\ Emit(i, h, Nops(pad) \o <<Word(i.op, 2), Word("b", 5)>> \o Jump(t))
        \/ /\ ~InFixingRange(t) => Abs(t - h) < Half[i.op] - 1
           /\ EmitNear(i, t)
    <2>1. Abs(t - h) \in Int
      BY <1>2 DEF Abs
    <2>2. Abs(t - h) >= Half[i.op] - 1 \/ Abs(t - h) < Half[i.op] - 1
      BY <1>1, <2>1
    <2> QED BY <1>2, <1>4, <2>2 DEF RelocateConditional
  <1>6. CASE (~InFixingRange(t) => Abs(t - h) < Half[i.op] - 1) /\ EmitNear(i, t)
    <2>1. ~InFixingRange(t) => -Half[i.op] <= t - Here /\ t - Here < Half[i.op]
      BY <1>1, <1>2, <1>6 DEF Abs
    <2>2. Readable(k)' => t = TargetOf(k)'
      BY <1>1, <1>2, <1>3, <1>6, ReadTarget DEF EmitNear
    <2> QED BY <1>1, <1>3, <1>6, <2>1, <2>2, NearTurn
  <1>7. CASE /\ ~InFixingRange(t) /\ fixes' = fixes
             /\ Emit(i, h, Nops(pad) \o <<Word(i.op, 2), Word("b", 5)>> \o Jump(t))
    <2>1. pad \in 0..3 /\ Nops(pad) \in Seq(Words)
      <3>1. pad \in 0..3 /\ pad \in Nat
        BY <1>4, PaddingRange
      <3> QED BY <3>1, NopsSeq
    <2>2. PICK front : front = <<Word(i.op, 2), Word("b", 5)>>
      OBVIOUS
    <2>3. PICK back : back = <<Word("jump", t), Data, Data, Data>>
      OBVIOUS
    <2>4. /\ front \in Seq(Words) /\ Len(front) = 2 /\ back \in Seq(Words) /\ Len(back) = 4
          /\ front[1] = Word(i.op, 2) /\ front[2] = Word("b", 5) /\ back[1] = Word("jump", t)
      <3>1. Word(i.op, 2) \in Words /\ Word("b", 5) \in Words /\ Word("jump", t) \in Words /\ Data \in Words
        BY <1>1 DEF Word, Words, WordOps, Data, Ops, PcRelative, Branches
      <3> QED BY <2>2, <2>3, <3>1
    <2>5. PICK body : body = front \o back
      OBVIOUS
    <2>6. /\ body \in Seq(Words) /\ Len(body) = 6
          /\ body[1] = Word(i.op, 2) /\ body[2] = Word("b", 5) /\ body[3] = Word("jump", t)
      <3>1. /\ body \in Seq(Words) /\ Len(body) = Len(front) + Len(back)
            /\ \A q \in 1..(Len(front) + Len(back)) :
                 body[q] = IF q <= Len(front) THEN front[q] ELSE back[q - Len(front)]
        BY <2>4, <2>5, ConcatProperties
      <3>2. Len(body) = 6 /\ body[1] = front[1] /\ body[2] = front[2] /\ body[3] = back[1]
        BY <2>4, <3>1
      <3> QED BY <2>4, <3>1, <3>2
    <2>11. Len(body) <= 6
      BY <2>6
    <2>7. PICK a \in Int : a = h + pad
      BY <2>1
    <2>8. Far(i, h, pad, body, k, h, a)
      <3>1. Nops(pad) \o front \o back = Nops(pad) \o body
        <4>1. front \in Seq(Words) /\ back \in Seq(Words) /\ Nops(pad) \in Seq(Words)
          BY <2>1, <2>4
        <4>2. \A r, u, v \in Seq(Words) : (r \o u) \o v = r \o (u \o v)
          BY ConcatAssociative
        <4>3. (Nops(pad) \o front) \o back = Nops(pad) \o (front \o back)
          BY <4>1, <4>2, Zenon
        <4> QED BY <2>5, <4>3, Zenon
      <3>2. Emit(i, h, Nops(pad) \o front \o back)
        BY <1>7, <2>2, <2>3, Zenon DEF Jump
      <3>3. Emit(i, h, Nops(pad) \o body)
        BY <3>1, <3>2, Zenon
      <3> QED BY <1>2, <1>3, <1>7, <2>7, <3>3 DEF Behind, Far
    <2>9. prog'[k] = i /\ ~InFixingRange(t)'
      BY <1>2, <1>3, <1>7, NewTarget
    <2>10. ASSUME Readable(k)'
           PROVE  Effect(k, a)'
      <3>0. pad \in 0..3 /\ body \in Seq(Words) /\ Len(body) <= 6
        BY <2>1, <2>6, <2>11
      <3>1. /\ \A q \in 1..Len(body) : Holds(a + q - 1, body[q])'
            /\ Rest(k)' = a + Len(body) /\ Gap(a + Len(body), a + Len(body))'
        BY <2>8, <3>0, FarWords
      <3>2. Holds(a, Word(i.op, 2))' /\ Holds(a + 1, Word("b", 5))' /\ Holds(a + 2, Word("jump", t))'
        <4>1. /\ 1 \in 1..Len(body) /\ 2 \in 1..Len(body) /\ 3 \in 1..Len(body)
              /\ a + 1 - 1 = a /\ a + 2 - 1 = a + 1 /\ a + 3 - 1 = a + 2
          BY <2>6
        <4> QED BY <2>6, <3>1, <4>1
      <3>3. Gap(a + 6, Rest(k))'
        BY <2>6, <3>1
      <3>4. TargetOf(k)' = t
        BY <1>1, <1>2, <1>3, <1>7, <2>10, ReadTarget
      <3> QED BY <1>1, <2>9, <3>2, <3>3, <3>4 DEF Effect
    <2> QED BY <2>1, <2>6, <2>8, <2>10, <2>11, FarTurn
  <1> QED BY <1>5, <1>6, <1>7

\* Loading an address takes four words.
LEMMA SetWords ==
  ASSUME NEW t \in Int, NEW body, body = SetRegister(t)
  PROVE  /\ body \in Seq(Words) /\ Len(body) = 4 /\ Len(body) <= 6
         /\ body[1] = Word("set", t) /\ body[2] = Word("b", 3)
  <1>1. body = <<Word("set", t), Word("b", 3), Data, Data>>
    BY DEF SetRegister
  <1>2. Word("set", t) \in Words /\ Word("b", 3) \in Words /\ Data \in Words
    BY DEF Word, Words, WordOps, Data, Ops, PcRelative, Branches
  <1> QED BY <1>1, <1>2

LEMMA SetEffect ==
  ASSUME RelocInv, phase = "relocate", Len(prog) < count,
         NEW i \in Instructions, NEW start \in Int, NEW pad \in 0..3, NEW t \in Int,
         NEW body \in Seq(Words), body = SetRegister(t),
         NEW k \in Int, NEW h \in Int, NEW a \in Int, Far(i, start, pad, body, k, h, a),
         \/ i.op \in Addresses /\ t = ByteOf(i.op, TargetOf(k)')
         \/ i.op = "adrp" /\ t = 4 * PageAt(k)'
  PROVE  Effect(k, a)'
  <1>0. Len(body) <= 6
    BY SetWords
  <1>1. Len(body) = 4 /\ body[1] = Word("set", t) /\ body[2] = Word("b", 3)
    BY SetWords
  <1>2. /\ \A q \in 1..Len(body) : Holds(a + q - 1, body[q])'
        /\ Rest(k)' = a + Len(body) /\ Gap(a + Len(body), a + Len(body))'
    BY <1>0, FarWords
  <1>3. Holds(a, Word("set", t))' /\ Holds(a + 1, Word("b", 3))'
    <2>1. /\ 1 \in 1..Len(body) /\ 2 \in 1..Len(body)
          /\ a + 1 - 1 = a /\ a + 2 - 1 = a + 1
      BY <1>1
    <2> QED BY <1>1, <1>2, <2>1
  <1>4. Gap(a + 4, Rest(k))'
    BY <1>1, <1>2
  <1>5. prog'[k] = i
    BY NewTarget DEF Far
  <1>6. i.op \in Addresses \cup {"adrp"} /\ ByteAt(k)' = t
    <2>1. i.op \in Addresses => i.op # "adrp"
      BY DEF Addresses
    <2> QED BY <1>5, <2>1 DEF ByteAt, ByteOf
  <1> QED BY <1>3, <1>4, <1>5, <1>6 DEF Effect

\* The turn for an ADR.
LEMMA AddressTurn ==
  ASSUME RelocInv, StartsInRow, EffectsKept, phase = "relocate", Len(prog) < count,
         NEW i \in Instructions, RelocateAddress(i), Encodable(i)
  PROVE  StartsInRow' /\ EffectsKept'
  <1>1. /\ i.op \in Addresses /\ i.op \in PcRelative \ Literals /\ i.op \in PcRelative \ Branches
        /\ i.op # "adrp" /\ Half[i.op] \in Nat /\ Low[i.op] \in 0..3
    BY LowBits, RelocationAssumption
      DEF RelocateAddress, PcRelative, Branches, Literals, Addresses, RelocationAssumption
  <1>2. PICK h \in Int, t \in Int : h = Here /\ t = Read(i)
    BY <1>1, Positions, ReadInt DEF RelocInv
  <1>3. PICK k \in Int : k = Index
    BY DEF RelocInv, TypeOK, Index
  <1>4. PICK pad : pad = Padding(h, 2, 2)
    OBVIOUS
  <1>5. CASE (~InFixingRange(t) => Abs(t - h) < Half[i.op]) /\ EmitNear(i, t)
    <2>1. ~InFixingRange(t) => -Half[i.op] <= t - Here /\ t - Here < Half[i.op]
      BY <1>1, <1>2, <1>5 DEF Abs
    <2>2. Readable(k)' => t = TargetOf(k)'
      BY <1>1, <1>2, <1>3, <1>5, ReadTarget DEF EmitNear
    <2> QED BY <1>1, <1>3, <1>5, <2>1, <2>2, NearTurn
  <1>6. CASE /\ ~InFixingRange(t) /\ fixes' = fixes
             /\ Emit(i, h + pad, Nops(pad) \o SetRegister(ByteOf(i.op, t)))
    <2>1. pad \in 0..3
      BY <1>4, PaddingRange
    <2>2. PICK byte, body : byte \in Int /\ byte = ByteOf(i.op, t) /\ body = SetRegister(byte)
      BY <1>1 DEF ByteOf
    <2>3. body \in Seq(Words) /\ Len(body) <= 6
      BY <2>2, SetWords
    <2>4. PICK a \in Int : a = h + pad
      BY <2>1
    <2>5. Far(i, a, pad, body, k, h, a)
      BY <1>1, <1>2, <1>3, <1>6, <2>2, <2>4 DEF Behind, Far
    <2>6. ASSUME Readable(k)'
          PROVE  Effect(k, a)'
      <3>1. TargetOf(k)' = t
        BY <1>1, <1>2, <1>3, <1>6, <2>6, ReadTarget
      <3>2. byte = ByteOf(i.op, TargetOf(k)')
        BY <2>2, <3>1
      <3> QED BY <1>1, <2>1, <2>2, <2>3, <2>5, <3>2, SetEffect
    <2> QED BY <2>1, <2>3, <2>5, <2>6, FarTurn
  <1>7. CASE /\ ~InFixingRange(t) /\ Low[i.op] # 0 /\ fixes' = fixes
             /\ Abs(4 * (t - h) + Low[i.op]) < 4 * Half[i.op] - 1
             /\ \E op \in {i.op, "badadr"} :
                  Emit(i, h, <<Word(op, Encoded(i.op, t - h))>>)
    <2>1. PICK op, body :
            /\ op \in {i.op, "badadr"} /\ body = <<Word(op, Encoded(i.op, t - h))>>
            /\ Emit(i, h, body)
      BY <1>7
    <2>2. body \in Seq(Words) /\ Len(body) <= 6
      <3>1. Encoded(i.op, t - h) \in Int
        BY <1>1, EncodedInt
      <3>2. op \in WordOps
        BY <1>1, <2>1 DEF WordOps, Ops
      <3>3. Word(op, Encoded(i.op, t - h)) \in Words
        BY <3>1, <3>2 DEF Word, Words
      <3> QED BY <2>1, <3>3
    <2>3. Far(i, h, 0, body, k, h, h)
      <3>1. Nops(0) \o body = body
        BY <2>2, NopsNone
      <3>2. Emit(i, h, Behind(0, body))
        BY <2>1, <3>1 DEF Behind
      <3> QED BY <1>1, <1>2, <1>3, <1>7, <3>2 DEF Far
    <2>4. ~Readable(k)'
      <3> SUFFICES ASSUME Readable(k)' PROVE FALSE
        OBVIOUS
      <3>1. TargetOf(k)' = t
        BY <1>1, <1>2, <1>3, <1>7, <2>1, ReadTarget
      <3>2. /\ prog'[k] = i /\ place' = place
            /\ InFixingRange(t)' <=> InFixingRange(t)
        BY <1>2, <1>3, <2>1, NewTarget DEF Emit
      <3>3. Abs(t - place.tramp) >= Half[i.op] + TrampolineSize
        BY <1>1, <1>7, <3>1, <3>2 DEF Readable
      <3>4. h - place.tramp \in 0..49
        <4>1. Len(prog) < 5 /\ Len(prog) \in Nat /\ Len(out) \in Nat
          BY CountValues DEF RelocInv, TypeOK
        <4>2. Len(out) <= 9 * Len(prog) + 5
          BY DEF RelocInv, RowUsed, Longest
        <4>3. place.tramp \in Int
          BY PlaceTyped DEF RelocInv, TypeOK
        <4>4. PICK n \in Nat, m \in Nat : n = Len(out) /\ m = Len(prog)
          BY <4>1
        <4>5. h = place.tramp + n /\ n <= 9 * m + 5 /\ m <= 4
          BY <1>2, <4>1, <4>2, <4>4 DEF Here
        <4>6. PICK c \in Int : c = place.tramp
          BY <4>3
        <4>7. h - c = n /\ n \in 0..49
          <5>1. h = c + n /\ n <= 9 * m + 5 /\ m <= 4
            BY <4>5, <4>6
          <5>2. h - c = n
            BY <5>1
          <5>3. m \in 0..4
            BY <4>4, <5>1
          <5>4. n <= 41
            BY <5>1, <5>3
          <5> QED BY <5>2, <5>4
        <4> QED BY <4>6, <4>7
      <3>5. place.tramp \in Int
        BY PlaceTyped DEF RelocInv, TypeOK
      <3>6. PICK n \in Int, d \in Int, e \in Int, low \in Int :
              /\ n = h - place.tramp /\ d = t - h /\ e = t - place.tramp
              /\ low = Low[i.op]
        BY <1>1, <3>5
      <3>7. n \in 0..49 /\ e = d + n /\ low \in 0..3
        BY <1>1, <3>4, <3>5, <3>6
      <3>8. TrampolineSize = 50
        BY DEF TrampolineSize, MaxInstructions
      <3>9. e >= Half[i.op] + 50 \/ -e >= Half[i.op] + 50
        BY <1>1, <3>3, <3>6, <3>8 DEF Abs
      <3>10. 4 * d + low < 4 * Half[i.op] - 1 /\ -(4 * d + low) < 4 * Half[i.op] - 1
        <4>0. PICK half \in Int : half = Half[i.op]
          BY <1>1
        <4>1. PICK x \in Int, m \in Int : x = 4 * d + low /\ m = 4 * half - 1
          OBVIOUS
        <4>2. x = 4 * (t - h) + Low[i.op]
          BY <3>6, <4>1
        <4>3. Abs(x) < m
          BY <1>7, <4>0, <4>1, <4>2
        <4>4. x < m /\ -x < m
          BY <4>3 DEF Abs
        <4> QED BY <4>0, <4>1, <4>4
      <3>11. PICK half \in Int : half = Half[i.op]
        BY <1>1
      <3>12. CASE e >= half + 50
        <4>1. d >= half + 1
          BY <3>7, <3>12
        <4>2. 4 * d + low >= 4 * half
          BY <3>7, <4>1
        <4> QED BY <3>10, <3>11, <4>2
      <3>13. CASE -e >= half + 50
        <4>1. -d >= half + 50
          BY <3>7, <3>13
        <4>2. -(4 * d + low) >= 4 * half
          BY <3>7, <4>1
        <4> QED BY <3>10, <3>11, <4>2
      <3> QED BY <3>9, <3>11, <3>12, <3>13
    <2>5. 0 \in 0..3
      OBVIOUS
    <2> QED BY <2>2, <2>3, <2>4, <2>5, FarTurn
  <1> QED BY <1>2, <1>4, <1>5, <1>6, <1>7, AddressForms

\* The turn for an ADRP.
LEMMA PageTurn ==
  ASSUME RelocInv, StartsInRow, EffectsKept, phase = "relocate", Len(prog) < count,
         NEW i \in Code[place], RelocatePage(i)
  PROVE  StartsInRow' /\ EffectsKept'
  <1>0. /\ i \in Instructions /\ i.op = "adrp" /\ i.to \in Int /\ i.to * PageSize < Wrap
        /\ PageSize \in Nat /\ Wrap \in Nat /\ Wrap > 0 /\ RwDelta \in Int
    <2>1. place \in Places /\ i \in Instructions
      BY DEF RelocInv, TypeOK, Instructions
    <2>2. i.op = "adrp"
      BY DEF RelocatePage
    <2>3. i.to \in Int
      BY <2>1, Positions DEF RelocInv
    <2> QED BY <2>1, <2>2, <2>3, RangesAssumption, RelocationAssumption
              DEF RangesAssumption, RelocationAssumption
  <1>1. PICK h \in Int, m \in Int : h = Here /\ m = i.to * PageSize
    BY <1>0, Positions DEF RelocInv
  <1>2. PICK k \in Int : k = Index
    BY DEF RelocInv, TypeOK, Index
  <1>3. Input \in Int
    BY Positions DEF RelocInv
  <1>4. PageOf(Input) \in Int
    <2>1. Input % PageSize \in Int
      BY <1>3, RelocationAssumption DEF RelocationAssumption
    <2> QED BY <1>3, <2>1 DEF PageOf
  <1>5. m % Wrap \in Int
    BY <1>0
  <1>6. PICK t \in Int : t = PageOf(Input) + (m % Wrap)
    BY <1>4, <1>5
  <1>7. PICK pad : pad = Padding(h, 2, 2)
    OBVIOUS
  <1>8. pad \in 0..3
    BY <1>7, PaddingRange
  <1>9. /\ fixes' = fixes
        /\ \/ InFixingRange(t) /\ Emit(i, h + RwDelta, <<Word("adrp", i.to)>>)
           \/ Emit(i, IF pad = 0 THEN h + RwDelta ELSE h + pad, Nops(pad) \o SetRegister(4 * t))
    BY <1>1, <1>6, <1>7 DEF RelocatePage
  <1>10. ASSUME NEW start, NEW words, Emit(i, start, words), Readable(k)'
         PROVE  PageAt(k)' = t /\ ~InFixingRange(t)
    <2>1. /\ prog'[k] = i /\ PageAt(k)' = PageOf(Input) + m
          /\ \A u \in Int : InFixingRange(u)' <=> InFixingRange(u)
      BY <1>0, <1>1, <1>2, <1>10, NewTarget
    <2>2. i.to >= 0 /\ ~InFixingRange(PageAt(k))'
      BY <1>0, <1>10, <2>1 DEF Readable
    <2>3. 0 <= m
      BY <1>0, <1>1, <2>2
    <2>4. m % Wrap = m
      <3>1. m < Wrap /\ Wrap \in Int
        BY <1>0, <1>1
      <3> QED BY <2>3, <3>1
    <2>5. PageAt(k)' = t
      BY <1>6, <2>1, <2>4
    <2> QED BY <2>1, <2>2, <2>5
  <1>11. CASE InFixingRange(t) /\ Emit(i, h + RwDelta, <<Word("adrp", i.to)>>)
    <2>1. PICK body : body = <<Word("adrp", i.to)>>
      OBVIOUS
    <2>2. body \in Seq(Words) /\ Len(body) <= 6
      <3>1. Word("adrp", i.to) \in Words
        BY <1>0 DEF Word, Words, WordOps, Ops
      <3> QED BY <2>1, <3>1
    <2>3. PICK start \in Int : start = h + RwDelta
      BY <1>0
    <2>4. Far(i, start, 0, body, k, h, h)
      <3>1. Nops(0) \o body = body
        BY <2>2, NopsNone
      <3>2. Emit(i, start, body)
        BY <1>11, <2>1, <2>3
      <3>3. Emit(i, start, Behind(0, body))
        BY <3>1, <3>2 DEF Behind
      <3> QED BY <1>0, <1>1, <1>2, <1>9, <2>3, <3>3 DEF Far
    <2>5. ~Readable(k)'
      BY <1>10, <1>11
    <2>6. 0 \in 0..3
      OBVIOUS
    <2> QED BY <1>0, <2>2, <2>4, <2>5, <2>6, FarTurn
  <1>12. CASE Emit(i, IF pad = 0 THEN h + RwDelta ELSE h + pad, Nops(pad) \o SetRegister(4 * t))
    <2>1. PICK byte, body : byte \in Int /\ byte = 4 * t /\ body = SetRegister(byte)
      OBVIOUS
    <2>2. body \in Seq(Words) /\ Len(body) <= 6
      BY <2>1, SetWords
    <2>3. PICK start \in Int, a \in Int :
            start = (IF pad = 0 THEN h + RwDelta ELSE h + pad) /\ a = h + pad
      BY <1>0, <1>8
    <2>4. Far(i, start, pad, body, k, h, a)
      <3>1. Emit(i, start, Nops(pad) \o body)
        BY <1>12, <2>1, <2>3
      <3>2. start = h + RwDelta \/ start = a
        BY <2>3
      <3> QED BY <1>0, <1>1, <1>2, <1>9, <2>3, <3>1, <3>2 DEF Far, Behind
    <2>5. ASSUME Readable(k)'
          PROVE  Effect(k, a)'
      <3>1. byte = 4 * PageAt(k)'
        BY <1>10, <1>12, <2>1, <2>5
      <3> QED BY <1>0, <1>8, <2>1, <2>2, <2>4, <3>1, SetEffect
    <2> QED BY <1>0, <1>8, <2>2, <2>4, <2>5, FarTurn
  <1> QED BY <1>9, <1>11, <1>12

\* The turn for a prefetch or an instruction without PC-relative operand.
LEMMA CopyTurn ==
  ASSUME RelocInv, StartsInRow, EffectsKept, phase = "relocate", Len(prog) < count,
         NEW i \in Instructions, Copy(i)
  PROVE  StartsInRow' /\ EffectsKept'
  <1>1. PICK h \in Int : h = Here
    BY Positions DEF RelocInv
  <1>2. PICK k \in Int : k = Index
    BY DEF RelocInv, TypeOK, Index
  <1>3. PICK body : body = IF i.op = "plain" THEN <<Word("plain", k)>> ELSE <<>>
    OBVIOUS
  <1>4. Emit(i, h, body) /\ fixes' = fixes /\ i.op \in {"prfm", "plain"}
    BY <1>1, <1>2, <1>3 DEF Copy
  <1>5. /\ body \in Seq(Words) /\ Len(body) <= 6
        /\ i.op = "plain" => Len(body) = 1 /\ body[1] = Word("plain", k)
        /\ i.op = "prfm" => Len(body) = 0
    <2>1. CASE i.op = "plain"
      <3>1. body = <<Word("plain", k)>>
        BY <1>3, <2>1
      <3>2. Word("plain", k) \in Words
        BY DEF Word, Words, WordOps, Ops
      <3> QED BY <2>1, <3>1, <3>2
    <2>2. CASE i.op = "prfm"
      <3>1. body = <<>>
        BY <1>3, <2>2
      <3> QED BY <2>2, <3>1, EmptySeq
    <2> QED BY <1>4, <2>1, <2>2
  <1>6. Far(i, h, 0, body, k, h, h)
    <2>1. Nops(0) \o body = body
      BY <1>5, NopsNone
    <2>2. Emit(i, h, Behind(0, body))
      BY <1>4, <2>1 DEF Behind
    <2> QED BY <1>1, <1>2, <1>4, <2>2 DEF Far
  <1>7. 0 \in 0..3
    OBVIOUS
  <1>8. /\ \A q \in 1..Len(body) : Holds(h + q - 1, body[q])'
        /\ Rest(k)' = h + Len(body) /\ Gap(h + Len(body), h + Len(body))'
    BY <1>5, <1>6, <1>7, FarWords
  <1>9. prog'[k] = i
    BY <1>2, <1>4, NewTarget
  <1>10. Effect(k, h)'
    <2>1. CASE i.op = "plain"
      <3>1. 1 \in 1..Len(body) /\ h + 1 - 1 = h /\ Len(body) = 1
        BY <1>5, <2>1
      <3>2. Holds(h, Word("plain", k))' /\ Gap(h + 1, Rest(k))'
        BY <1>5, <1>8, <2>1, <3>1
      <3> QED BY <1>9, <2>1, <3>2 DEF Effect
    <2>2. CASE i.op = "prfm"
      <3>1. Gap(h, Rest(k))'
        BY <1>5, <1>8, <2>2
      <3> QED BY <1>9, <2>2, <3>1 DEF Effect
    <2> QED BY <1>4, <2>1, <2>2
  <1> QED BY <1>5, <1>6, <1>7, <1>10, FarTurn

\* The turn for a literal load.
LEMMA LiteralTurn ==
  ASSUME RelocInv, StartsInRow, EffectsKept, phase = "relocate", Len(prog) < count,
         NEW i \in Instructions, RelocateLiteral(i), Encodable(i)
  PROVE  StartsInRow' /\ EffectsKept'
  <1>1. i.op \in Literals /\ i.op \in PcRelative \ Branches /\ i.op \in WordOps
        /\ Half[i.op] \in Nat /\ LiteralWords[i.op] \in {1, 2, 4}
    BY RelocationAssumption
      DEF RelocateLiteral, PcRelative, Branches, Literals, RelocationAssumption, WordOps, Ops, LiteralWords
  <1>2. PICK h \in Int, t \in Int : h = Here /\ t = Read(i)
    BY <1>1, Positions, ReadInt DEF RelocInv
  <1>3. PICK k \in Int : k = Index
    BY DEF RelocInv, TypeOK, Index
  <1>4. PICK n \in {1, 2, 4} : n = LiteralWords[i.op]
    BY <1>1
  <1>5. PICK copied \in BOOLEAN :
          copied <=> InFixingRange(t) \/ Abs(t - h) + n - 1 >= Half[i.op] - 1
    OBVIOUS
  <1>6. PICK pad : pad = IF copied THEN Padding(h, 2, n) ELSE (t - h) % n
    OBVIOUS
  <1>7. pad \in 0..3
    <2>1. Padding(h, 2, n) \in 0..3
      BY PaddingRange
    <2>2. (t - h) % n \in 0..3
      <3>1. CASE n = 1 BY <3>1
      <3>2. CASE n = 2 BY <3>2
      <3>3. CASE n = 4 BY <3>3
      <3> QED BY <3>1, <3>2, <3>3
    <2> QED BY <1>6, <2>1, <2>2
  <1>8. PICK a \in Int : a = h + pad
    BY <1>7
  <1>9. PICK d \in Int : d = t - (h + pad)
    BY <1>7
  <1>10. PICK load : load = <<Word(i.op, 2), Word("b", n + 1)>>
    OBVIOUS
  <1>11. PICK value : value = [m \in 1..n |-> Word("value", t + m - 1)]
    OBVIOUS
  <1>12. PICK near : near = <<Word(IF d < 0 /\ i.op # "ldrx" THEN "badload" ELSE i.op, Encoded(i.op, d))>>
    OBVIOUS
  <1>13. PICK body : body = IF copied THEN load \o value ELSE near
    OBVIOUS
  <1>14. fixes' = fixes /\ Emit(i, a, Nops(pad) \o body)
    BY <1>2, <1>4, <1>5, <1>6, <1>8, <1>9, <1>10, <1>11, <1>12, <1>13 DEF RelocateLiteral
  <1>15. near \in Seq(Words) /\ Len(near) = 1
    <2>1. Encoded(i.op, d) \in Int
      BY <1>1, EncodedInt
    <2>2. Word(IF d < 0 /\ i.op # "ldrx" THEN "badload" ELSE i.op, Encoded(i.op, d)) \in Words
      BY <1>1, <2>1 DEF Word, Words, WordOps
    <2> QED BY <1>12, <2>2
  <1>16. /\ load \in Seq(Words) /\ Len(load) = 2
         /\ load[1] = Word(i.op, 2) /\ load[2] = Word("b", n + 1)
    <2>1. Word(i.op, 2) \in Words /\ Word("b", n + 1) \in Words
      BY <1>1 DEF Word, Words, WordOps, Ops, PcRelative, Branches
    <2> QED BY <1>10, <2>1
  <1>17. value \in Seq(Words) /\ Len(value) = n /\ \A m \in 1..n : value[m] = Word("value", t + m - 1)
    <2>1. \A m \in 1..n : Word("value", t + m - 1) \in Words
      BY DEF Word, Words, WordOps
    <2> QED BY <1>11, <2>1
  <1>18. copied => /\ body \in Seq(Words) /\ Len(body) = n + 2
                   /\ body[1] = Word(i.op, 2) /\ body[2] = Word("b", n + 1)
                   /\ \A m \in 0..(n - 1) : body[m + 3] = Word("value", t + m)
    <2> SUFFICES ASSUME copied
                 PROVE  /\ body \in Seq(Words) /\ Len(body) = n + 2
                        /\ body[1] = Word(i.op, 2) /\ body[2] = Word("b", n + 1)
                        /\ \A m \in 0..(n - 1) : body[m + 3] = Word("value", t + m)
      OBVIOUS
    <2>1. body = load \o value
      BY <1>13
    <2>2. /\ body \in Seq(Words) /\ Len(body) = Len(load) + Len(value)
          /\ \A q \in 1..(Len(load) + Len(value)) :
               body[q] = IF q <= Len(load) THEN load[q] ELSE value[q - Len(load)]
      BY <1>16, <1>17, <2>1, ConcatProperties
    <2>3. Len(body) = n + 2 /\ body[1] = load[1] /\ body[2] = load[2]
      BY <1>16, <1>17, <2>2
    <2>4. ASSUME NEW m \in 0..(n - 1)
          PROVE  body[m + 3] = Word("value", t + m)
      <3>1. m + 3 \in 1..(Len(load) + Len(value)) /\ m + 3 > Len(load) /\ m + 3 - Len(load) = m + 1
        BY <1>16, <1>17
      <3>2. body[m + 3] = value[m + 1]
        BY <2>2, <3>1
      <3>3. m + 1 \in 1..n /\ t + (m + 1) - 1 = t + m
        OBVIOUS
      <3> QED BY <1>17, <3>2, <3>3
    <2> QED BY <1>16, <2>2, <2>3, <2>4
  <1>19. body \in Seq(Words) /\ Len(body) <= 6
    <2>1. CASE copied BY <1>18, <2>1
    <2>2. CASE ~copied
      <3>1. body = near
        BY <1>13, <2>2
      <3>2. near \in Seq(Words) /\ Len(near) <= 6
        BY <1>15
      <3> QED BY <3>1, <3>2, Zenon
    <2> QED BY <2>1, <2>2
  <1>20. Far(i, a, pad, body, k, h, a)
    BY <1>2, <1>3, <1>8, <1>14 DEF Far, Behind
  <1>21. ASSUME Readable(k)'
         PROVE  Effect(k, a)'
    <2>1. prog'[k] = i /\ TargetOf(k)' = t
      BY <1>1, <1>2, <1>3, <1>14, <1>21, NewTarget, ReadTarget
    <2>2. copied
      <3>1. place' = place /\ place.tramp \in Int
        BY <1>14, PlaceTyped DEF Emit, RelocInv, TypeOK
      <3>2. Abs(t - place.tramp) >= Half[i.op] + TrampolineSize
        BY <1>1, <1>21, <2>1, <3>1 DEF Readable, Abs
      <3>3. h \in place.tramp..(place.tramp + 50) /\ TrampolineSize = 50
        BY <1>2, HereInRow DEF Row, TrampolineSize, MaxInstructions
      <3>4. Abs(t - h) >= Half[i.op] /\ Abs(t - h) \in Int
        <4>1. PICK r \in Int, m \in Nat : r = place.tramp /\ m = Half[i.op]
          BY <1>1, <3>1
        <4>2. Abs(t - r) >= m + 50 /\ r <= h /\ h <= r + 50
          BY <3>2, <3>3, <4>1
        <4>3. Abs(t - h) >= m /\ Abs(t - h) \in Int
          BY <4>2 DEF Abs
        <4> QED BY <4>1, <4>3
      <3> QED BY <1>1, <1>5, <3>4
    <2>3. /\ \A q \in 1..Len(body) : Holds(a + q - 1, body[q])'
          /\ Rest(k)' = a + Len(body) /\ Gap(a + Len(body), a + Len(body))'
      BY <1>7, <1>19, <1>20, FarWords
    <2>4. Len(body) = n + 2 /\ body[1] = Word(i.op, 2) /\ body[2] = Word("b", n + 1)
      BY <1>18, <2>2
    <2>5. Holds(a, Word(i.op, 2))' /\ Holds(a + 1, Word("b", n + 1))'
      <3>1. /\ 1 \in 1..Len(body) /\ 2 \in 1..Len(body)
            /\ a + 1 - 1 = a /\ a + 2 - 1 = a + 1
        BY <2>4
      <3> QED BY <2>3, <2>4, <3>1
    <2>6. ASSUME NEW m \in 0..(n - 1)
          PROVE  Holds(a + 2 + m, Word("value", t + m))'
      <3>1. m + 3 \in 1..Len(body) /\ a + (m + 3) - 1 = a + 2 + m
        BY <2>4
      <3>2. body[m + 3] = Word("value", t + m)
        BY <1>18, <2>2
      <3> QED BY <2>3, <3>1, <3>2
    <2>7. Gap(a + 2 + n, Rest(k))'
      <3>1. a + Len(body) = a + 2 + n
        BY <2>4
      <3> QED BY <2>3, <3>1
    <2> QED BY <1>1, <1>4, <2>1, <2>5, <2>6, <2>7 DEF Effect
  <1> QED BY <1>7, <1>19, <1>20, <1>21, FarTurn

\* Every turn keeps the effect of the relocated code.
LEMMA RelocateEffects ==
  ASSUME RelocInv, StartsInRow, EffectsKept, NEW i \in Code[place], Relocate(i)
  PROVE  StartsInRow' /\ EffectsKept'
  <1>1. phase = "relocate" /\ Len(prog) < count /\ Encodable(i)
    BY DEF Relocate
  <1>2. i \in Instructions
    BY DEF RelocInv, TypeOK, Instructions
  <1>3. CASE RelocateBranch(i)      BY <1>1, <1>2, <1>3, BranchTurn
  <1>4. CASE RelocateConditional(i) BY <1>1, <1>2, <1>4, ConditionalTurn
  <1>5. CASE RelocateLiteral(i)     BY <1>1, <1>2, <1>5, LiteralTurn
  <1>6. CASE RelocateAddress(i)     BY <1>1, <1>2, <1>6, AddressTurn
  <1>7. CASE RelocatePage(i)        BY <1>1, <1>7, PageTurn
  <1>8. CASE Copy(i)                BY <1>1, <1>2, <1>8, CopyTurn
  <1> QED BY <1>3, <1>4, <1>5, <1>6, <1>7, <1>8 DEF Relocate

-----------------------------------------------------------------------------
(* The other steps leave the effects. *)

\* The jump back is where the last instruction goes on, and leads behind the
\* overwritten code.
LEMMA ReturnJumpWords ==
  ASSUME RelocInv, ReturnJump, NEW h \in Int, h = Here
  PROVE  /\ Grows /\ Index' = Index /\ fixes' = fixes /\ prog' = prog
         /\ \A q \in 1..Len(out) : out'[q] = out[q]
         /\ Len(out') > Len(out)
         /\ \E a \in Int :
              /\ Gap(h, a)' /\ InTramp(a)' /\ h <= a /\ a < Here'
              /\ \/ WordAt(a)' = Word("jump", hook + count)
                 \/ WordAt(a)'.op = "b" /\ a + WordAt(a)'.to = hook + count
  <1>1. /\ phase = "relocate" /\ Len(prog) = count
        /\ ins' = Append(ins, Here) /\ phase' = "patch"
        /\ UNCHANGED <<place, kind, prog, fixes, patched, entry>>
    BY DEF ReturnJump
  <1>2. /\ out \in Seq(Words) /\ place \in Places /\ place.tramp \in Int /\ hook \in Int
        /\ Len(out) \in Nat /\ Len(prog) \in Nat
        /\ fixes \in [1..MaxInstructions -> SUBSET (1..Len(out))]
    BY PlaceTyped DEF RelocInv, TypeOK
  <1>3. PICK n \in Int : n = Input
    BY Positions DEF RelocInv
  <1>4. n = hook + count
    BY <1>1, <1>3 DEF Input
  <1>5. PICK pad : pad = Padding(h, 2, 2)
    OBVIOUS
  <1>6. pad \in 0..3 /\ pad \in Nat
    BY <1>5, PaddingRange
  <1>7. PICK d \in Int : d = n - h
    OBVIOUS
  <1>8. PICK words : words = IF Abs(d) >= Half["b"] - 1 THEN Nops(pad) \o Jump(n) ELSE <<Word("b", d)>>
    OBVIOUS
  <1>9. out' = out \o words
    BY <1>3, <1>5, <1>7, <1>8 DEF ReturnJump
  <1>10. /\ words \in Seq(Words)
         /\ \E m \in 0..3 :
              /\ \A q \in 1..m : words[q] = Nop
              /\ m + 1 <= Len(words)
              /\ \/ words[m + 1] = Word("jump", n)
                 \/ m = 0 /\ words[m + 1] = Word("b", d)
    <2>1. CASE Abs(d) >= Half["b"] - 1
      <3>1. PICK nops : nops = Nops(pad)
        OBVIOUS
      <3>2. nops \in Seq(Words) /\ Len(nops) = pad /\ \A q \in 1..pad : nops[q] = Nop
        BY <1>6, <3>1, NopsSeq DEF Nops
      <3>3. PICK jump : jump = <<Word("jump", n), Data, Data, Data>>
        OBVIOUS
      <3>4. jump \in Seq(Words) /\ Len(jump) = 4 /\ jump[1] = Word("jump", n)
        <4>1. Word("jump", n) \in Words /\ Data \in Words
          BY DEF Word, Words, WordOps, Data
        <4> QED BY <3>3, <4>1
      <3>5. words = nops \o jump
        BY <1>8, <2>1, <3>1, <3>3 DEF Jump
      <3>6. /\ words \in Seq(Words) /\ Len(words) = Len(nops) + Len(jump)
            /\ \A q \in 1..(Len(nops) + Len(jump)) :
                 words[q] = IF q <= Len(nops) THEN nops[q] ELSE jump[q - Len(nops)]
        BY <3>2, <3>4, <3>5, ConcatProperties
      <3>7. \A q \in 1..pad : words[q] = Nop
        BY <1>6, <3>2, <3>4, <3>6
      <3>8. pad + 1 <= Len(words) /\ words[pad + 1] = Word("jump", n)
        BY <1>6, <3>2, <3>4, <3>6
      <3> QED BY <1>6, <3>6, <3>7, <3>8
    <2>2. CASE ~(Abs(d) >= Half["b"] - 1)
      <3>1. words = <<Word("b", d)>>
        BY <1>8, <2>2
      <3>2. Word("b", d) \in Words
        BY DEF Word, Words, WordOps, Ops, PcRelative, Branches
      <3>3. words \in Seq(Words) /\ Len(words) = 1 /\ words[1] = Word("b", d)
        BY <3>1, <3>2
      <3>4. 0 \in 0..3 /\ (\A q \in 1..0 : words[q] = Nop) /\ 0 + 1 <= Len(words) /\ words[0 + 1] = Word("b", d)
        BY <3>3
      <3> QED BY <3>3, <3>4
    <2> QED BY <2>1, <2>2
  <1>11. PICK m \in 0..3 :
           /\ \A q \in 1..m : words[q] = Nop
           /\ m + 1 <= Len(words)
           /\ \/ words[m + 1] = Word("jump", n)
              \/ m = 0 /\ words[m + 1] = Word("b", d)
    BY <1>10
  <1>12. /\ Len(out') = Len(out) + Len(words) /\ Len(words) \in Nat
         /\ \A q \in 1..Len(out) : out'[q] = out[q]
         /\ \A q \in 1..Len(words) : out'[Len(out) + q] = words[q]
    BY <1>2, <1>9, <1>10, ConcatProperties
  <1>13. Index' = Index /\ Index \in Nat /\ Index >= 1
    BY <1>1, <1>2 DEF Index
  <1>14. Grows
    BY <1>1, <1>2, <1>12, <1>13 DEF Grows
  <1>15. PICK a \in Int : a = h + m
    OBVIOUS
  <1>16. /\ \A c \in h..a : InTramp(c)' /\ WordAt(c)' = words[c - h + 1]
         /\ a < Here'
    <2>1. PICK r \in Int, l \in Nat : r = place.tramp /\ l = Len(out)
      BY <1>2
    <2>2. h = r + l
      BY <2>1 DEF Here
    <2>3. ASSUME NEW c \in h..a
          PROVE  InTramp(c)' /\ WordAt(c)' = words[c - h + 1]
      <3>1. c - h + 1 \in 1..Len(words) /\ c - r + 1 = l + (c - h + 1)
        BY <1>11, <1>12, <1>15, <2>2
      <3>2. out'[c - r + 1] = words[c - h + 1]
        BY <1>12, <2>1, <3>1
      <3>3. r <= c /\ c <= r + Len(out') - 1
        <4>1. PICK w \in Nat : w = Len(words)
          BY <1>12
        <4>2. c - h + 1 <= w
          BY <3>1, <4>1
        <4>3. Len(out') = l + w
          BY <1>12, <2>1, <4>1
        <4>4. r <= c /\ c <= r + (l + w) - 1
          BY <2>2, <4>2
        <4> QED BY <4>3, <4>4
      <3> QED BY <1>1, <2>1, <3>2, <3>3 DEF InTramp, End, WordAt
    <2>4. a < Here'
      <3>1. PICK w \in Nat : w = Len(words)
        BY <1>12
      <3>2. a < r + (l + w)
        BY <1>11, <1>15, <2>2, <3>1
      <3>3. Len(out') = l + w /\ place'.tramp = r
        BY <1>1, <1>12, <2>1, <3>1
      <3> QED BY <3>2, <3>3 DEF Here
    <2> QED BY <2>3, <2>4
  <1>17. ASSUME NEW c \in h..(a - 1)
         PROVE  Holds(c, Nop)'
    <2>1. c \in h..a /\ c - h + 1 \in 1..m
      BY <1>15
    <2>2. WordAt(c)' = Nop /\ InTramp(c)'
      BY <1>11, <1>16, <2>1
    <2>3. Waits(c)' = {}
      <3>1. \A j \in Index..MaxInstructions : j \in 1..MaxInstructions
        BY <1>13 DEF MaxInstructions
      <3>2. c - place.tramp + 1 > Len(out)
        <4>1. PICK r \in Int, l \in Int : r = place.tramp /\ l = Len(out)
          BY <1>2
        <4>2. h = r + l
          BY <4>1 DEF Here
        <4>3. c - r + 1 > l
          BY <4>2
        <4> QED BY <4>1, <4>3
      <3>3. \A j \in Index..MaxInstructions : (c - place.tramp + 1) \notin fixes[j]
        BY <1>2, <3>1, <3>2
      <3> QED BY <1>1, <1>13, <3>3 DEF Waits
    <2>4. Nop' = Nop
      BY DEF Nop, Word
    <2> QED BY <2>2, <2>3, <2>4 DEF Holds
  <1>18. Gap(h, a)'
    BY <1>15, <1>17 DEF Gap
  <1>19. WordAt(a)' = words[m + 1] /\ InTramp(a)'
    <2>1. a \in h..a /\ a - h + 1 = m + 1
      BY <1>15
    <2> QED BY <1>16, <2>1
  <1>20. \/ WordAt(a)' = Word("jump", hook + count)
         \/ WordAt(a)'.op = "b" /\ a + WordAt(a)'.to = hook + count
    <2>1. CASE words[m + 1] = Word("jump", n)
      BY <1>4, <1>19, <2>1
    <2>2. CASE m = 0 /\ words[m + 1] = Word("b", d)
      <3>1. WordAt(a)'.op = "b" /\ WordAt(a)'.to = d /\ a + d = n
        BY <1>7, <1>15, <1>19, <2>2 DEF Word
      <3> QED BY <1>4, <3>1
    <2> QED BY <1>11, <2>1, <2>2
  <1>21. h <= a /\ Len(out') > Len(out)
    BY <1>2, <1>11, <1>12, <1>15
  <1> QED BY <1>1, <1>12, <1>13, <1>14, <1>16, <1>18, <1>19, <1>20, <1>21

\* The start of the jump back is noted in the row.
LEMMA ReturnJumpStarts ==
  ASSUME RelocInv, ReturnJump, NEW h \in Int, h = Here
  PROVE  /\ Row' = Row /\ hook' = hook /\ count' = count
         /\ Len(ins) = count /\ Len(prog) = count /\ Len(ins') = count + 1
         /\ \A j \in 1..count : ins'[j] = ins[j] /\ At(j)' = At(j) /\ At(j) \in Int
         /\ h \in Row /\ At(count + 1)' = h /\ ins'[count + 1] = h
  <1>1. /\ phase = "relocate" /\ Len(prog) = count /\ ins' = Append(ins, h)
        /\ UNCHANGED <<place, kind, prog, fixes, patched, entry>>
    BY DEF ReturnJump
  <1>2. /\ ins \in Seq(Int) /\ place.tramp \in Int /\ Len(prog) \in Nat /\ RwDelta \in Int
    BY PlaceTyped, RelocationAssumption DEF RelocInv, TypeOK, RelocationAssumption
  <1>3. Row' = Row /\ hook' = hook /\ count' = count
    BY <1>1 DEF Row, hook, count, CallbackFar
  <1>4. Len(ins) = count /\ count \in Nat
    BY <1>1, <1>2 DEF RelocInv, Progress
  <1>5. /\ Len(ins') = count + 1 /\ ins'[count + 1] = h
        /\ \A j \in 1..count : ins'[j] = ins[j] /\ ins[j] \in Int
    BY <1>1, <1>2, <1>4
  <1>6. h \in Row
    BY HereInRow
  <1>7. At(count + 1)' = h
    <2>1. PICK c : c = count
      OBVIOUS
    <2>2. ins'[c + 1] \in Row /\ ins'[c + 1] = h /\ count' = c
      BY <1>3, <1>5, <1>6, <2>1
    <2> QED BY <1>3, <2>2 DEF At
  <1>8. ASSUME NEW j \in 1..count
        PROVE  ins'[j] = ins[j] /\ At(j)' = At(j) /\ At(j) \in Int
    <2>1. ins'[j] = ins[j] /\ ins[j] \in Int
      BY <1>5
    <2> QED BY <1>2, <1>3, <2>1 DEF At
  <1> QED BY <1>1, <1>3, <1>4, <1>5, <1>6, <1>7, <1>8

\* The words before the jump back, and what they lead to, stay.
LEMMA ReturnJumpKeeps ==
  ASSUME RelocInv, ReturnJump, NEW h \in Int, h = Here
  PROVE  /\ \A b \in Int : \A w : Holds(b, w) => Holds(b, w)'
         /\ \A b \in Int, c \in Int : Gap(b, c) => Gap(b, c)'
         /\ \A j \in 1..count : \A b \in Int : Gap(b, Rest(j)) => Gap(b, Rest(j))'
         /\ \A j \in 1..count :
              /\ prog'[j] = prog[j] /\ TargetOf(j)' = TargetOf(j) /\ PageAt(j)' = PageAt(j)
              /\ (Readable(j)' <=> Readable(j))
              /\ TargetOf(j) \in Int
              /\ \A a \in Int : Goes(j, a) => Goes(j, a)'
         /\ \A t \in Int : InFixingRange(t)' <=> InFixingRange(t)
  <1>1. /\ Grows /\ Index' = Index /\ fixes' = fixes /\ prog' = prog
        /\ \A q \in 1..Len(out) : out'[q] = out[q]
        /\ Len(out') > Len(out)
    BY ReturnJumpWords
  <1>2. /\ place' = place /\ place \in Places /\ place.tramp \in Int
        /\ Len(out) \in Nat /\ Len(out') \in Int /\ prog \in Seq(Instructions)
    BY <1>1, PlaceTyped, ReturnJumpInv DEF RelocInv, TypeOK, Grows
  <1>3. /\ hook' = hook /\ count' = count
        /\ Len(ins) = count /\ Len(prog) = count /\ Len(ins') = count + 1
        /\ \A j \in 1..count : ins'[j] = ins[j] /\ At(j)' = At(j) /\ At(j) \in Int
        /\ At(count + 1)' = h
    BY ReturnJumpStarts
  <1>4. count \in Nat
    BY <1>2, CountValues
  <1>5. \A b \in Int : \A w : Holds(b, w) => Holds(b, w)'
    BY <1>1, HoldsKept
  <1>6. \A b \in Int, c \in Int : Gap(b, c) => Gap(b, c)'
    BY <1>1, GapKept
  <1>7. ASSUME NEW j \in 1..count, NEW b \in Int, Gap(b, Rest(j))
        PROVE  Gap(b, Rest(j))'
    <2>1. CASE j < count
      <3>1. PICK n \in 1..count : n = j + 1
        BY <1>4, <2>1
      <3>2. PICK r \in Int : r = At(n)
        BY <1>3
      <3>3. At(n)' = r
        BY <1>3, <3>2
      <3>4. Rest(j) = r /\ Rest(j)' = r
        BY <1>3, <1>4, <2>1, <3>1, <3>2, <3>3 DEF Rest
      <3>5. Gap(b, r)
        BY <1>7, <3>4
      <3>6. Gap(b, r)'
        BY <1>6, <3>5
      <3> QED BY <3>4, <3>6
    <2>2. CASE j = count
      <3>1. Rest(j) = h
        BY <1>3, <2>2 DEF Rest
      <3>2. Gap(b, h)'
        BY <1>6, <1>7, <3>1
      <3>3. Rest(j)' = h
        <4>1. PICK n \in Int : n = j + 1
          BY <1>4
        <4>2. At(n)' = h
          BY <1>3, <2>2, <4>1
        <4>3. j < Len(ins')
          BY <1>3, <1>4, <2>2
        <4> QED BY <4>1, <4>2, <4>3 DEF Rest
      <3> QED BY <3>2, <3>3
    <2> QED BY <1>4, <2>1, <2>2
  <1>8. \A t \in Int : (InFixingRange(t)' <=> InFixingRange(t)) /\ RefIndex(t)' = RefIndex(t)
    BY <1>3 DEF InFixingRange, RefIndex
  <1>9. ASSUME NEW j \in 1..count
        PROVE  /\ prog'[j] = prog[j] /\ TargetOf(j)' = TargetOf(j) /\ PageAt(j)' = PageAt(j)
               /\ (Readable(j)' <=> Readable(j))
               /\ TargetOf(j) \in Int
    <2>1. TargetOf(j)' = TargetOf(j) /\ PageAt(j)' = PageAt(j)
      BY <1>1, <1>3 DEF TargetOf, PageAt, PageOf
    <2>2. Readable(j)' <=> Readable(j)
      BY <1>1, <1>2, <1>3, <2>1 DEF Readable, InFixingRange, Abs
    <2>3. prog[j] \in Instructions
      BY <1>2, <1>3
    <2>4. TargetOf(j) \in Int
      BY <2>3, Positions DEF RelocInv, TargetOf
    <2> QED BY <1>1, <2>1, <2>2, <2>4
  <1>10. ASSUME NEW j \in 1..count, NEW a \in Int, Goes(j, a)
         PROVE  Goes(j, a)'
    <2>1. PICK t \in Int : t = TargetOf(j)
      BY <1>9
    <2>2. TargetOf(j)' = t
      BY <1>9, <2>1
    <2>3. /\ InFixingRange(t)' <=> InFixingRange(t)
          /\ RefIndex(t)' = RefIndex(t)
      BY <1>8
    <2>4. InTramp(a)' /\ WordAt(a)' = WordAt(a) /\ Waits(a)' = Waits(a)
      <3>1. PICK q \in Int : q = a - place.tramp + 1
        BY <1>2
      <3>2. q \in 1..Len(out)
        BY <1>2, <1>10, <3>1 DEF Goes, InTramp, End
      <3>3. out'[q] = out[q] /\ q \in 1..Len(out')
        BY <1>1, <1>2, <3>2
      <3>4. InTramp(a)'
        BY <1>2, <3>1, <3>3 DEF InTramp, End
      <3>5. WordAt(a)' = WordAt(a)
        BY <1>2, <3>1, <3>3 DEF WordAt
      <3>6. Waits(a)' = Waits(a)
        BY <1>1, <1>2 DEF Waits
      <3> QED BY <3>4, <3>5, <3>6
    <2>5. InFixingRange(t) => RefIndex(t) \in 1..count
      BY <1>2, <1>4, PlaceTyped DEF InFixingRange, RefIndex
    <2>6. InFixingRange(t) => At(RefIndex(t))' = At(RefIndex(t))
      <3>1. HAVE InFixingRange(t)
      <3>2. PICK n \in 1..count : n = RefIndex(t)
        BY <2>5, <3>1
      <3>3. At(n)' = At(n)
        BY <1>3
      <3> QED BY <2>3, <3>2, <3>3
    <2> QED BY <1>1, <1>10, <2>1, <2>2, <2>3, <2>4, <2>6 DEF Goes
  <1> QED BY <1>5, <1>6, <1>7, <1>8, <1>9, <1>10

\* With the jump back, the relocated code goes on behind the overwritten code.
LEMMA ReturnJumpEffects ==
  ASSUME RelocInv, StartsInRow, EffectsKept, ReturnJump
  PROVE  StartsInRow' /\ EffectsKept' /\ GoesBack'
  <1>1. PICK h \in Int : h = Here
    BY Positions DEF RelocInv
  <1>2. /\ prog' = prog /\ place' = place /\ phase = "relocate" /\ phase' = "patch"
        /\ place.tramp \in Int /\ Len(out) \in Nat /\ Len(out') \in Nat /\ Len(out) < Len(out')
        /\ prog \in Seq(Instructions) /\ ins \in Seq(Int) /\ ins' \in Seq(Int)
        /\ count \in 1..MaxInstructions
    <2>1. prog' = prog /\ Grows /\ Len(out') > Len(out)
      BY <1>1, ReturnJumpWords
    <2>2. RelocInv'
      BY ReturnJumpInv
    <2>3. /\ place' = place /\ phase = "relocate" /\ phase' = "patch"
          /\ ins \in Seq(Int) /\ ins' \in Seq(Int) /\ prog \in Seq(Instructions)
          /\ Len(out) \in Nat /\ Len(out') \in Nat
      BY <2>2 DEF RelocInv, TypeOK, ReturnJump
    <2>4. place.tramp \in Int /\ count \in 1..MaxInstructions
      BY PlaceTyped, CountValues DEF RelocInv, TypeOK, MaxInstructions
    <2> QED BY <2>1, <2>3, <2>4
  <1>3. /\ Row' = Row /\ count' = count /\ hook' = hook
        /\ Len(ins) = count /\ Len(prog) = count /\ Len(ins') = count + 1
        /\ \A j \in 1..count : ins'[j] = ins[j] /\ At(j)' = At(j) /\ At(j) \in Int
        /\ h \in Row /\ At(count + 1)' = h /\ ins'[count + 1] = h
    BY <1>1, ReturnJumpStarts
  <1>4. PICK a \in Int :
          /\ Gap(h, a)' /\ InTramp(a)' /\ h <= a /\ a < Here'
          /\ \/ WordAt(a)' = Word("jump", hook + count)
             \/ WordAt(a)'.op = "b" /\ a + WordAt(a)'.to = hook + count
    BY <1>1, ReturnJumpWords
  <1>5. a \in Row
    <2>1. Here' \in Row'
      <3>1. RelocInv'
        BY ReturnJumpInv
      <3>2. (RelocInv => Here \in Row)'
        BY HereInRow, PTL
      <3> QED BY <3>1, <3>2
    <2>2. PICK e \in Int : e = Here'
      BY <1>2 DEF Here
    <2>3. e \in Row
      BY <1>3, <2>1, <2>2
    <2> QED BY <1>2, <1>3, <1>4, <2>2, <2>3 DEF Row, TrampolineSize, MaxInstructions
  <1>6. GoesBack'
    <2>1. PICK n \in Int : n = count + 1
      BY <1>2
    <2>2. At(n)' = h
      BY <1>3, <2>1
    <2>3. count' + 1 = n
      BY <1>3, <2>1
    <2>4. /\ Gap(At(count + 1), a)' /\ InTramp(a)'
          /\ \/ WordAt(a)' = Word("jump", hook + count)'
             \/ WordAt(a)'.op = "b" /\ a + WordAt(a)'.to = hook' + count'
      <3>1. Gap(At(count + 1), a)'
        BY <1>3, <1>4
      <3>2. Word("jump", hook + count)' = Word("jump", hook + count)
        BY <1>3 DEF Word
      <3> QED BY <1>3, <1>4, <3>1, <3>2
    <2>5. (ins[count + 1] \in Row)'
      BY <1>3
    <2> QED BY <1>2, <1>3, <1>5, <2>4, <2>5 DEF GoesBack
  <1>7. EffectsKept'
    <2>1. ASSUME NEW j \in 1..count, Readable(j)'
          PROVE  \E b \in Row' : Gap(At(j), b)' /\ Effect(j, b)'
      <3>1. /\ Readable(j)
            /\ prog'[j] = prog[j] /\ TargetOf(j)' = TargetOf(j) /\ PageAt(j)' = PageAt(j)
            /\ TargetOf(j) \in Int
            /\ \A b \in Int : Goes(j, b) => Goes(j, b)'
        BY <1>1, <2>1, ReturnJumpKeeps
      <3>2. At(j)' = At(j) /\ At(j) \in Int
        BY <1>3
      <3>3. PICK b \in Row : Gap(At(j), b) /\ Effect(j, b)
        <4>1. j \in DOMAIN prog
          BY <1>2, <1>3
        <4> QED BY <3>1, <4>1 DEF EffectsKept
      <3>4. b \in Int /\ j \in Nat
        BY <1>2 DEF Row
      <3>5. PICK s \in Int : s = At(j)
        BY <3>2
      <3>6. /\ \A x \in Int : \A w : Holds(x, w) => Holds(x, w)'
            /\ \A x \in Int, y \in Int : Gap(x, y) => Gap(x, y)'
            /\ \A x \in Int : Gap(x, Rest(j)) => Gap(x, Rest(j))'
            /\ \A x \in Int : InFixingRange(x)' <=> InFixingRange(x)
        BY <1>1, ReturnJumpKeeps
      <3>7. Gap(s, b)'
        BY <3>3, <3>4, <3>5, <3>6
      <3>8. Gap(At(j), b)'
        BY <3>2, <3>5, <3>7
      <3>9. PICK t \in Int : t = TargetOf(j)
        BY <3>1
      <3>10. Effect(j, b)'
        <4>1. /\ prog'[j] = prog[j] /\ TargetOf(j)' = t /\ PageAt(j)' = PageAt(j) /\ At(j)' = At(j)
              /\ InFixingRange(t)' <=> InFixingRange(t)
          BY <3>1, <3>2, <3>6, <3>9
        <4>2. prog[j].op \in PcRelative /\ Goes(j, b) => Goes(j, b)'
          BY <3>1, <3>4
        <4> QED BY <3>3, <3>4, <3>6, <3>9, <4>1, <4>2, EffectStays
      <3> QED BY <1>3, <3>8, <3>10
    <2>2. DOMAIN prog' = 1..count
      BY <1>2, <1>3
    <2> QED BY <2>1, <2>2 DEF EffectsKept
  <1>8. StartsInRow'
    <2>1. PICK r \in Int, l \in Nat, m \in Nat :
            r = place.tramp /\ l = Len(out) /\ m = Len(out')
      BY <1>2
    <2>2. l < m /\ h = r + l
      BY <1>1, <1>2, <2>1 DEF Here
    <2>3. End' = r + m - 1
      BY <1>2, <2>1 DEF End
    <2>4. ASSUME NEW j \in 1..(count + 1)
          PROVE  At(j)' \in r..(r + m - 1)
      <3>1. CASE j = count + 1
        <4>1. At(j)' = h
          BY <1>3, <3>1
        <4> QED BY <2>2, <4>1
      <3>2. CASE j \in 1..count
        <4>1. j \in DOMAIN ins
          BY <1>2, <1>3, <3>2
        <4>2. At(j) \in place.tramp..Here
          BY <1>2, <4>1 DEF StartsInRow
        <4>3. At(j) \in r..h
          BY <1>1, <2>1, <4>2
        <4> QED BY <1>3, <2>2, <3>2, <4>3
      <3> QED BY <1>2, <3>1, <3>2
    <2>5. \A j \in DOMAIN prog' : prog'[j].op # "adrp" => ins'[j] = At(j)'
      <3>1. \A j \in 1..count : prog[j].op # "adrp" => ins[j] = At(j)
        <4>1. DOMAIN prog = 1..count
          BY <1>2, <1>3
        <4> QED BY <4>1 DEF StartsInRow
      <3>2. DOMAIN prog' = 1..count
        BY <1>2, <1>3
      <3> QED BY <1>2, <1>3, <3>1, <3>2
    <2>6. DOMAIN ins' = 1..(count + 1)
      BY <1>2, <1>3
    <2> QED BY <1>2, <2>1, <2>3, <2>4, <2>5, <2>6 DEF StartsInRow
  <1> QED BY <1>6, <1>7, <1>8

\* What does not touch the relocated code leaves its effect.
LEMMA EffectsUntouched ==
  ASSUME StartsInRow, EffectsKept, GoesBack,
         UNCHANGED <<place, kind, prog, out, ins, fixes>>,
         phase' = "relocate" <=> phase = "relocate"
  PROVE  StartsInRow' /\ EffectsKept' /\ GoesBack'
  <1>1. /\ hook' = hook /\ count' = count /\ Row' = Row /\ Here' = Here /\ End' = End /\ Index' = Index
        /\ \A t : (InFixingRange(t)' <=> InFixingRange(t)) /\ RefIndex(t)' = RefIndex(t)
    BY DEF hook, count, CallbackFar, Row, Here, End, Index, InFixingRange, RefIndex
  <1>2. /\ \A k : At(k)' = At(k) /\ Rest(k)' = Rest(k) /\ TargetOf(k)' = TargetOf(k)
        /\ \A k : PageAt(k)' = PageAt(k) /\ ByteAt(k)' = ByteAt(k)
        /\ \A a : Waits(a)' = Waits(a) /\ (InTramp(a)' <=> InTramp(a)) /\ WordAt(a)' = WordAt(a)
    BY <1>1 DEF At, Rest, TargetOf, PageAt, PageOf, ByteAt, Waits, InTramp, WordAt
  <1>3. \A a : \A w : Holds(a, w)' <=> Holds(a, w)
    BY <1>2 DEF Holds
  <1>4. \A a : \A b : Gap(a, b)' <=> Gap(a, b)
    BY <1>3 DEF Gap, Nop, Word
  <1>5. StartsInRow'
    BY <1>1, <1>2 DEF StartsInRow
  <1>6. ASSUME NEW k \in DOMAIN prog, Readable(k)'
        PROVE  \E a \in Row' : Gap(At(k), a)' /\ Effect(k, a)'
    <2>1. Readable(k)
      BY <1>1, <1>2, <1>6 DEF Readable, Abs
    <2>2. PICK a \in Row : Gap(At(k), a) /\ Effect(k, a)
      BY <2>1 DEF EffectsKept
    <2>3. Gap(At(k), a)'
      BY <1>2, <1>4, <2>2
    <2>4. \A b : Goes(k, b)' <=> Goes(k, b)
      BY <1>1, <1>2 DEF Goes
    <2>5. Effect(k, a)'
      BY <1>1, <1>2, <1>3, <1>4, <2>2, <2>4 DEF Effect, Word, Addresses
    <2> QED BY <1>1, <2>3, <2>5
  <1>7. EffectsKept'
    BY <1>6 DEF EffectsKept
  <1>8. GoesBack'
    BY <1>1, <1>2, <1>4 DEF GoesBack, Word
  <1> QED BY <1>5, <1>7, <1>8

-----------------------------------------------------------------------------
(* Literals are aligned. *)

\* As many NOPs as are asked for align what lies behind them.
LEMMA PaddingAligns ==
  ASSUME NEW a \in Int, NEW k \in Int, NEW n \in {1, 2, 4}, NEW p, p = Padding(a, k, n)
  PROVE  (a + p + k) % n = 0
  <1>1. CASE n = 1 BY <1>1, PaddingRange
  <1>2. CASE n = 2 BY <1>2 DEF Padding
  <1>3. CASE n = 4 BY <1>3 DEF Padding
  <1> QED BY <1>1, <1>2, <1>3

\* Only four kinds of words ask for a place.
LEMMA SitsAnywhere ==
  ASSUME NEW c, NEW w, w.op \notin {"jump", "set", "call", "ldrq"}
  PROVE  Sits(c, w)
  BY DEF Sits

\* NOPs put words where they may stand.
LEMMA BehindSits ==
  ASSUME NEW h \in Int, NEW pad \in 0..3, NEW body \in Seq(Words),
         \A q \in 1..Len(body) : Sits(h + pad + q - 1, body[q])
  PROVE  \A q \in 1..Len(Behind(pad, body)) : Sits(h + q - 1, Behind(pad, body)[q])
  <1>1. PICK nops : nops = Nops(pad)
    OBVIOUS
  <1>2. pad \in Nat
    OBVIOUS
  <1>3. nops \in Seq(Words) /\ Len(nops) = pad /\ \A q \in 1..pad : nops[q] = Nop
    BY <1>1, <1>2, NopsSeq DEF Nops
  <1>4. PICK words : words = Behind(pad, body)
    OBVIOUS
  <1>5. words = nops \o body
    BY <1>1, <1>4 DEF Behind
  <1>6. /\ Len(words) = pad + Len(body) /\ Len(body) \in Nat
        /\ \A q \in 1..(pad + Len(body)) : words[q] = IF q <= pad THEN nops[q] ELSE body[q - pad]
    BY <1>3, <1>5, ConcatProperties
  <1>7. ASSUME NEW q \in 1..Len(words)
        PROVE  Sits(h + q - 1, words[q])
    <2>1. CASE q <= pad
      <3>1. words[q] = Nop
        BY <1>2, <1>3, <1>6, <1>7, <2>1
      <3>2. Nop.op = "nop"
        BY DEF Nop, Word
      <3> QED BY <3>1, <3>2, SitsAnywhere
    <2>2. CASE q > pad
      <3>1. PICK m \in Int : m = q - pad
        BY <1>6
      <3>2. m \in 1..Len(body)
        BY <1>2, <1>6, <1>7, <2>2, <3>1
      <3>3. words[q] = body[m]
        BY <1>6, <1>7, <2>2, <3>1
      <3>4. h + pad + m - 1 = h + q - 1
        BY <3>1
      <3>5. Sits(h + pad + m - 1, body[m])
        BY <3>2
      <3> QED BY <3>3, <3>4, <3>5
    <2> QED BY <1>6, <2>1, <2>2
  <1> QED BY <1>4, <1>7

\* Words that may stand where a turn puts them leave every literal aligned.
LEMMA EmitsSits ==
  ASSUME RelocInv, Alignments, phase = "relocate", Len(prog) < count,
         NEW i \in Instructions, NEW start \in Int, NEW words \in Seq(Words),
         Emits(i, start, words), NEW h \in Int, h = Here,
         \A q \in 1..Len(words) : Sits(h + q - 1, words[q]),
         fixes' = fixes \/ words[1].op \notin Literals
  PROVE  Alignments'
  <1>1. /\ Len(out') = Len(out) + Len(words)
        /\ \A q \in 1..Len(out) :
             out'[q] = IF q \in fixes[Index]
                       THEN Word(out[q].op, Encoded(out[q].op, start - (place.tramp + q - 1)))
                       ELSE out[q]
        /\ \A q \in 1..Len(words) : out'[Len(out) + q] = words[q]
        /\ \A k \in 1..MaxInstructions : \A q \in 1..Len(out) : q \in fixes'[k] <=> q \in fixes[k]
        /\ \A k \in 1..MaxInstructions : \A q \in fixes'[k] : q <= Len(out) + 1
        /\ fixes' = fixes => \A k \in 1..MaxInstructions : \A q \in fixes'[k] : q <= Len(out)
    BY EmitsWords
  <1>2. /\ place' = place /\ hook' = hook /\ patched' = patched /\ Index = Len(prog) + 1
    BY EmitsKeeps
  <1>3. /\ out \in Seq(Words) /\ out' \in Seq(Words) /\ place.tramp \in Int
        /\ Len(out) \in Nat /\ Len(words) \in Nat
        /\ fixes' \in [1..MaxInstructions -> SUBSET (1..Len(out'))]
        /\ Index \in 1..MaxInstructions
    <2>1. TypeOK'
      BY EmissionInv DEF Emission, RelocInv
    <2>2. Len(prog) \in Nat /\ count \in 1..MaxInstructions
      BY CountValues DEF RelocInv, TypeOK, MaxInstructions
    <2>3. Index \in 1..MaxInstructions
      BY <1>2, <2>2 DEF MaxInstructions
    <2>4. out \in Seq(Words) /\ place.tramp \in Int /\ Len(out) \in Nat /\ Len(words) \in Nat
      BY PlaceTyped DEF RelocInv, TypeOK
    <2>5. out' \in Seq(Words) /\ fixes' \in [1..MaxInstructions -> SUBSET (1..Len(out'))]
      BY <2>1 DEF TypeOK
    <2> QED BY <2>3, <2>4, <2>5
  <1>4. \A q \in fixes[Index] : out[q].op \in PcRelative \ Literals
    BY <1>3 DEF RelocInv, Progress, Alignments
  <1>5. ASSUME NEW q \in 1..Len(out')
        PROVE  Sits(place.tramp + q - 1, out'[q])
    <2>1. CASE q \in fixes[Index] /\ q <= Len(out)
      <3>1. q \in 1..Len(out)
        BY <1>3, <2>1
      <3>2. out'[q].op \in PcRelative \ Literals
        <4>1. out[q].op \in PcRelative \ Literals
          BY <1>4, <2>1
        <4>2. out'[q] = Word(out[q].op, Encoded(out[q].op, start - (place.tramp + q - 1)))
          BY <1>1, <2>1, <3>1, Zenon
        <4>3. out'[q].op = out[q].op
          BY <4>2 DEF Word
        <4> QED BY <4>1, <4>3
      <3>3. out'[q].op \notin {"jump", "set", "call", "ldrq"}
        BY <3>2 DEF PcRelative, Branches, Conditional, Literals, Addresses
      <3> QED BY <3>3, SitsAnywhere
    <2>2. CASE q \notin fixes[Index] /\ q <= Len(out)
      <3>1. q \in 1..Len(out) /\ q \in DOMAIN out
        BY <1>3, <2>2
      <3>2. out'[q] = out[q]
        BY <1>1, <2>2, <3>1
      <3> QED BY <3>1, <3>2 DEF Alignments
    <2>3. CASE q > Len(out)
      <3>1. PICK l \in Nat, w \in Nat : l = Len(out) /\ w = Len(words)
        BY <1>3
      <3>2. PICK m \in Int : m = q - l
        BY <3>1
      <3>3. m \in 1..w
        BY <1>1, <1>3, <2>3, <3>1, <3>2
      <3>4. out'[l + m] = words[m] /\ l + m = q
        BY <1>1, <3>1, <3>2, <3>3
      <3>5. h + m - 1 = place.tramp + q - 1
        BY <1>3, <3>1, <3>2 DEF Here
      <3>6. Sits(h + m - 1, words[m])
        BY <3>1, <3>3
      <3> QED BY <3>4, <3>5, <3>6
    <2> QED BY <1>3, <2>1, <2>2, <2>3
  <1>6. ASSUME NEW k \in 1..MaxInstructions, NEW q \in fixes'[k]
        PROVE  out'[q].op \notin Literals
    <2>1. q \in 1..Len(out') /\ q <= Len(out) + 1
      BY <1>1, <1>3
    <2>2. CASE q <= Len(out)
      <3>1. q \in 1..Len(out)
        BY <1>3, <2>1, <2>2
      <3>2. q \in fixes[k]
        BY <1>1, <3>1
      <3>3. out[q].op \notin Literals
        BY <3>2 DEF Alignments
      <3>4. CASE q \in fixes[Index]
        <4>1. out'[q] = Word(out[q].op, Encoded(out[q].op, start - (place.tramp + q - 1)))
          BY <1>1, <3>1, <3>4, Zenon
        <4> QED BY <3>3, <4>1 DEF Word
      <3>5. CASE q \notin fixes[Index]
        <4>1. out'[q] = out[q]
          BY <1>1, <3>1, <3>5, Zenon
        <4> QED BY <3>3, <4>1
      <3> QED BY <3>4, <3>5
    <2>3. CASE q = Len(out) + 1
      <3>1. fixes' # fixes
        BY <1>1, <1>3, <2>3
      <3>2. Len(words) >= 1
        BY <1>1, <1>3, <2>1, <2>3
      <3>3. out'[Len(out) + 1] = words[1]
        BY <1>1, <1>3, <3>2
      <3> QED BY <2>3, <3>1, <3>3
    <2>4. q <= Len(out) \/ q = Len(out) + 1
      <3>1. PICK l \in Nat : l = Len(out)
        BY <1>3
      <3>2. q \in Nat /\ q <= l + 1
        BY <2>1, <3>1
      <3> QED BY <3>1, <3>2
    <2> QED BY <2>2, <2>3, <2>4
  <1>7. Aligned(hook, patched)'
    BY <1>2 DEF Alignments, Aligned
  <1>8. DOMAIN out' = 1..Len(out')
    BY <1>3
  <1> QED BY <1>2, <1>5, <1>6, <1>7, <1>8 DEF Alignments, Sits

\* A near relocation has no literal.
LEMMA NearSits ==
  ASSUME RelocInv, Alignments, phase = "relocate", Len(prog) < count,
         NEW i \in Instructions, i.op \in PcRelative \ Literals,
         NEW target \in Int, EmitNear(i, target)
  PROVE  Alignments'
  <1>1. PICK h \in Int : h = Here
    BY Positions DEF RelocInv
  <1>2. PICK d \in Int, w \in Words :
          w = Word(i.op, Encoded(i.op, d)) /\ <<w>> \in Seq(Words) /\ Emits(i, Here, <<w>>)
    BY NearEmits
  <1>3. PICK words : words = <<w>>
    OBVIOUS
  <1>4. words \in Seq(Words) /\ Len(words) = 1 /\ words[1] = w /\ Emits(i, h, words)
    BY <1>1, <1>2, <1>3
  <1>5. w.op \in PcRelative \ Literals
    BY <1>2 DEF Word
  <1>6. w.op \notin {"jump", "set", "call", "ldrq"}
    BY <1>5 DEF PcRelative, Branches, Conditional, Literals, Addresses
  <1>7. \A q \in 1..Len(words) : Sits(h + q - 1, words[q])
    BY <1>4, <1>6, SitsAnywhere
  <1>8. words[1].op \notin Literals
    BY <1>4, <1>5
  <1> QED BY <1>1, <1>4, <1>7, <1>8, EmitsSits

\* Any other is as good as what follows its NOPs.
LEMMA FarSits ==
  ASSUME RelocInv, Alignments, phase = "relocate", Len(prog) < count,
         NEW i \in Instructions, NEW start \in Int, NEW pad \in 0..3,
         NEW body \in Seq(Words), Len(body) <= 6,
         Emit(i, start, Nops(pad) \o body), fixes' = fixes, NEW h \in Int, h = Here,
         \A q \in 1..Len(body) : Sits(h + pad + q - 1, body[q])
  PROVE  Alignments'
  <1>1. PICK words \in Seq(Words) : words = Behind(pad, body) /\ Len(words) <= Longest
    BY BehindShort
  <1>2. Emits(i, start, words)
    BY <1>1 DEF Emits, Behind
  <1>3. \A q \in 1..Len(words) : Sits(h + q - 1, words[q])
    BY <1>1, BehindSits
  <1> QED BY <1>2, <1>3, EmitsSits

\* A jump, with its literal, may stand where its second word is aligned.
LEMMA JumpSits ==
  ASSUME NEW c \in Int, NEW t \in Int, (c + 2) % 2 = 0, NEW jump, jump = Jump(t)
  PROVE  /\ jump \in Seq(Words) /\ Len(jump) = 4
         /\ \A q \in 1..4 : Sits(c + q - 1, jump[q])
  <1>1. jump = <<Word("jump", t), Data, Data, Data>>
    BY DEF Jump
  <1>2. Word("jump", t) \in Words /\ Data \in Words
    BY DEF Word, Words, WordOps, Data
  <1>3. /\ jump \in Seq(Words) /\ Len(jump) = 4 /\ jump[1] = Word("jump", t)
        /\ jump[2] = Data /\ jump[3] = Data /\ jump[4] = Data
    BY <1>1, <1>2
  <1>4. ASSUME NEW q \in 1..4
        PROVE  Sits(c + q - 1, jump[q])
    <2>1. CASE q = 1
      <3>1. jump[q].op = "jump" /\ (c + q - 1 + 2) % 2 = 0
        BY <1>3, <2>1 DEF Word
      <3> QED BY <3>1 DEF Sits
    <2>2. CASE q \in 2..4
      <3>1. jump[q].op = "data"
        BY <1>3, <2>2 DEF Data, Word
      <3> QED BY <3>1, SitsAnywhere
    <2> QED BY <2>1, <2>2
  <1> QED BY <1>3, <1>4

LEMMA BranchSits ==
  ASSUME RelocInv, Alignments, phase = "relocate", Len(prog) < count,
         NEW i \in Instructions, RelocateBranch(i)
  PROVE  Alignments'
  <1>1. PICK h \in Int, t \in Int : h = Here /\ t = hook + i.to
    BY Positions DEF RelocInv
  <1>2. i.op \in Branches /\ i.op \in PcRelative \ Literals
    BY DEF RelocateBranch, PcRelative, Branches, Conditional, Literals
  <1>3. PICK pad : pad = Padding(h, IF i.op = "b" THEN 2 ELSE 3, 2)
    OBVIOUS
  <1>4. PICK body : body = IF i.op = "b" THEN Jump(t) ELSE <<Word("call", t), Data, Data, Data, Data>>
    OBVIOUS
  <1>5. \/ EmitNear(i, t)
        \/ fixes' = fixes /\ Emit(i, h + pad, Nops(pad) \o body)
    BY <1>1, <1>3, <1>4 DEF RelocateBranch
  <1>6. CASE EmitNear(i, t)
    BY <1>2, <1>6, NearSits
  <1>7. CASE fixes' = fixes /\ Emit(i, h + pad, Nops(pad) \o body)
    <2>1. pad \in 0..3
      BY <1>3, PaddingRange
    <2>2. PICK c \in Int : c = h + pad
      BY <2>1
    <2>3. /\ body \in Seq(Words) /\ Len(body) <= 6
          /\ \A q \in 1..Len(body) : Sits(c + q - 1, body[q])
      <3>1. CASE i.op = "b"
        <4>1. pad = Padding(h, 2, 2)
          BY <1>3, <3>1
        <4>2. (h + pad + 2) % 2 = 0
          BY <4>1, PaddingAligns
        <4>3. (c + 2) % 2 = 0
          BY <2>2, <4>2
        <4>4. body = Jump(t)
          BY <1>4, <3>1
        <4>5. body \in Seq(Words) /\ Len(body) = 4 /\ \A q \in 1..4 : Sits(c + q - 1, body[q])
          BY <4>3, <4>4, JumpSits
        <4> QED BY <4>5
      <3>2. CASE i.op # "b"
        <4>1. pad = Padding(h, 3, 2)
          BY <1>3, <3>2
        <4>2. (h + pad + 3) % 2 = 0
          BY <4>1, PaddingAligns
        <4>3. (c + 3) % 2 = 0
          BY <2>2, <4>2
        <4>4. body = <<Word("call", t), Data, Data, Data, Data>>
          BY <1>4, <3>2
        <4>5. Word("call", t) \in Words /\ Data \in Words
          BY DEF Word, Words, WordOps, Data
        <4>6. /\ body \in Seq(Words) /\ Len(body) = 5 /\ body[1] = Word("call", t)
              /\ body[2] = Data /\ body[3] = Data /\ body[4] = Data /\ body[5] = Data
          BY <4>4, <4>5
        <4>7. ASSUME NEW q \in 1..5
              PROVE  Sits(c + q - 1, body[q])
          <5>1. CASE q = 1
            <6>1. body[q].op = "call" /\ (c + q - 1 + 3) % 2 = 0
              BY <4>3, <4>6, <5>1 DEF Word
            <6> QED BY <6>1 DEF Sits
          <5>2. CASE q \in 2..5
            <6>1. body[q].op = "data"
              BY <4>6, <5>2 DEF Data, Word
            <6> QED BY <6>1, SitsAnywhere
          <5> QED BY <5>1, <5>2
        <4> QED BY <4>6, <4>7
      <3> QED BY <3>1, <3>2
    <2> QED BY <1>1, <1>7, <2>1, <2>2, <2>3, FarSits
  <1> QED BY <1>5, <1>6, <1>7

LEMMA ConditionalSits ==
  ASSUME RelocInv, Alignments, phase = "relocate", Len(prog) < count,
         NEW i \in Instructions, RelocateConditional(i)
  PROVE  Alignments'
  <1>1. i.op \in Conditional /\ i.op \in PcRelative \ Literals /\ i.op \in WordOps
    BY DEF RelocateConditional, PcRelative, Branches, Conditional, Literals, WordOps, Ops
  <1>2. PICK h \in Int, t \in Int : h = Here /\ t = Read(i)
    BY <1>1, Positions, ReadInt DEF RelocInv
  <1>3. PICK pad : pad = Padding(h, 4, 2)
    OBVIOUS
  <1>4. PICK first : first = <<Word(i.op, 2), Word("b", 5)>>
    OBVIOUS
  <1>5. PICK jump : jump = Jump(t)
    OBVIOUS
  <1>6. \/ EmitNear(i, t)
        \/ fixes' = fixes /\ Emit(i, h, Nops(pad) \o first \o jump)
    BY <1>2, <1>3, <1>4, <1>5 DEF RelocateConditional
  <1>7. CASE EmitNear(i, t)
    BY <1>1, <1>7, NearSits
  <1>8. CASE fixes' = fixes /\ Emit(i, h, Nops(pad) \o first \o jump)
    <2>1. pad \in 0..3 /\ (h + pad + 4) % 2 = 0
      BY <1>3, PaddingRange, PaddingAligns
    <2>2. PICK c \in Int : c = h + pad
      BY <2>1
    <2>3. (c + 2 + 2) % 2 = 0
      BY <2>1, <2>2
    <2>4. /\ jump \in Seq(Words) /\ Len(jump) = 4
          /\ \A q \in 1..4 : Sits(c + 2 + q - 1, jump[q])
      <3>1. PICK e \in Int : e = c + 2
        OBVIOUS
      <3>2. (e + 2) % 2 = 0
        BY <2>3, <3>1
      <3>3. jump \in Seq(Words) /\ Len(jump) = 4 /\ \A q \in 1..4 : Sits(e + q - 1, jump[q])
        BY <1>5, <3>2, JumpSits
      <3> QED BY <3>1, <3>3
    <2>5. /\ first \in Seq(Words) /\ Len(first) = 2
          /\ first[1] = Word(i.op, 2) /\ first[2] = Word("b", 5)
      <3>1. Word(i.op, 2) \in Words /\ Word("b", 5) \in Words
        BY <1>1 DEF Word, Words, WordOps, Ops, PcRelative, Branches
      <3> QED BY <1>4, <3>1
    <2>6. PICK body : body = first \o jump
      OBVIOUS
    <2>7. /\ body \in Seq(Words) /\ Len(body) = 6
          /\ \A q \in 1..6 : body[q] = IF q <= 2 THEN first[q] ELSE jump[q - 2]
      <3>1. /\ body \in Seq(Words) /\ Len(body) = Len(first) + Len(jump)
            /\ \A q \in 1..(Len(first) + Len(jump)) :
                 body[q] = IF q <= Len(first) THEN first[q] ELSE jump[q - Len(first)]
        BY <2>4, <2>5, <2>6, ConcatProperties
      <3> QED BY <2>4, <2>5, <3>1
    <2>8. ASSUME NEW q \in 1..6
          PROVE  Sits(c + q - 1, body[q])
      <3>1. CASE q \in {1, 2}
        <4>1. body[q].op \in {i.op, "b"}
          BY <2>5, <2>7, <3>1 DEF Word
        <4>2. body[q].op \notin {"jump", "set", "call", "ldrq"}
          BY <1>1, <4>1 DEF Conditional
        <4> QED BY <4>2, SitsAnywhere
      <3>2. CASE q \in 3..6
        <4>1. PICK m \in 1..4 : m = q - 2
          BY <3>2
        <4>2. body[q] = jump[m]
          BY <2>7, <3>2, <4>1
        <4>3. c + 2 + m - 1 = c + q - 1
          BY <4>1
        <4> QED BY <2>4, <4>2, <4>3
      <3> QED BY <3>1, <3>2
    <2>9. Emit(i, h, Nops(pad) \o body)
      <3>1. PICK nops : nops = Nops(pad)
        OBVIOUS
      <3>2. nops \in Seq(Words)
        BY <2>1, <3>1, NopsSeq
      <3>3. nops \o first \o jump = nops \o body
        <4>1. \A r, u, v \in Seq(Words) : (r \o u) \o v = r \o (u \o v)
          BY ConcatAssociative
        <4>2. (nops \o first) \o jump = nops \o (first \o jump)
          BY <2>4, <2>5, <3>2, <4>1, Zenon
        <4> QED BY <2>6, <4>2, Zenon
      <3> QED BY <1>8, <3>1, <3>3
    <2>10. Len(body) <= 6 /\ fixes' = fixes /\ \A q \in 1..Len(body) : Sits(h + pad + q - 1, body[q])
      BY <1>8, <2>2, <2>7, <2>8
    <2> QED BY <1>2, <2>1, <2>7, <2>9, <2>10, FarSits
  <1> QED BY <1>6, <1>7, <1>8

\* So may the load of an address into a register.
LEMMA SetSits ==
  ASSUME NEW c \in Int, NEW t \in Int, (c + 2) % 2 = 0, NEW body, body = SetRegister(t)
  PROVE  /\ body \in Seq(Words) /\ Len(body) = 4
         /\ \A q \in 1..4 : Sits(c + q - 1, body[q])
  <1>1. body = <<Word("set", t), Word("b", 3), Data, Data>>
    BY DEF SetRegister
  <1>2. Word("set", t) \in Words /\ Data \in Words /\ Word("b", 3) \in Words
    BY DEF Word, Words, WordOps, Data, Ops, PcRelative, Branches
  <1>3. /\ body \in Seq(Words) /\ Len(body) = 4 /\ body[1] = Word("set", t)
        /\ body[2] = Word("b", 3) /\ body[3] = Data /\ body[4] = Data
    BY <1>1, <1>2
  <1>4. ASSUME NEW q \in 1..4
        PROVE  Sits(c + q - 1, body[q])
    <2>1. CASE q = 1
      <3>1. body[q].op = "set" /\ (c + q - 1 + 2) % 2 = 0
        BY <1>3, <2>1 DEF Word
      <3> QED BY <3>1 DEF Sits
    <2>2. CASE q \in 2..4
      <3>1. body[q].op \in {"b", "data"}
        BY <1>3, <2>2 DEF Data, Word
      <3> QED BY <3>1, SitsAnywhere
    <2> QED BY <2>1, <2>2
  <1> QED BY <1>3, <1>4

LEMMA AddressSits ==
  ASSUME RelocInv, Alignments, phase = "relocate", Len(prog) < count,
         NEW i \in Instructions, RelocateAddress(i)
  PROVE  Alignments'
  <1>1. i.op \in PcRelative \ Literals /\ i.op \in Addresses /\ Low[i.op] \in 0..3
    BY LowBits DEF RelocateAddress, PcRelative, Literals, Addresses
  <1>2. PICK h \in Int, t \in Int : h = Here /\ t = Read(i)
    BY <1>1, Positions, ReadInt DEF RelocInv
  <1>3. PICK pad : pad = Padding(h, 2, 2)
    OBVIOUS
  <1>4. PICK byte, body : byte \in Int /\ byte = ByteOf(i.op, t) /\ body = SetRegister(byte)
    BY <1>1 DEF ByteOf
  <1>5. \/ EmitNear(i, t)
        \/ fixes' = fixes /\ Emit(i, h + pad, Nops(pad) \o body)
        \/ /\ fixes' = fixes
           /\ \E op \in {i.op, "badadr"} :
                Emit(i, h, <<Word(op, Encoded(i.op, t - h))>>)
    BY <1>2, <1>3, <1>4, AddressForms
  <1>6. CASE EmitNear(i, t)
    BY <1>1, <1>6, NearSits
  <1>7. CASE fixes' = fixes /\ Emit(i, h + pad, Nops(pad) \o body)
    <2>1. pad \in 0..3 /\ (h + pad + 2) % 2 = 0
      BY <1>3, PaddingRange, PaddingAligns
    <2>2. PICK c \in Int : c = h + pad
      BY <2>1
    <2>3. (c + 2) % 2 = 0
      BY <2>1, <2>2
    <2>4. body \in Seq(Words) /\ Len(body) = 4 /\ \A q \in 1..4 : Sits(c + q - 1, body[q])
      BY <1>4, <2>3, SetSits
    <2>5. Len(body) <= 6 /\ \A q \in 1..Len(body) : Sits(h + pad + q - 1, body[q])
      BY <2>2, <2>4
    <2>6. h + pad \in Int
      BY <2>2
    <2> QED BY <1>2, <1>7, <2>1, <2>4, <2>5, <2>6, FarSits
  <1>8. CASE /\ fixes' = fixes
             /\ \E op \in {i.op, "badadr"} :
                  Emit(i, h, <<Word(op, Encoded(i.op, t - h))>>)
    <2>1. PICK op, w :
            op \in {i.op, "badadr"} /\ w = Word(op, Encoded(i.op, t - h)) /\ Emit(i, h, <<w>>)
      BY <1>8
    <2>2. w \in Words /\ w.op = op
      <3>1. Encoded(i.op, t - h) \in Int
        BY <1>1, EncodedInt
      <3>2. op \in WordOps
        BY <1>1, <2>1 DEF WordOps, Ops
      <3> QED BY <2>1, <3>1, <3>2 DEF Word, Words
    <2>3. PICK body2 : body2 = <<w>>
      OBVIOUS
    <2>4. body2 \in Seq(Words) /\ Len(body2) = 1 /\ body2[1] = w
      BY <2>2, <2>3
    <2>5. w.op \notin {"jump", "set", "call", "ldrq"}
      BY <1>1, <2>1, <2>2 DEF Addresses
    <2>6. \A q \in 1..Len(body2) : Sits(h + 0 + q - 1, body2[q])
      BY <2>4, <2>5, SitsAnywhere
    <2>7. Nops(0) \o body2 = body2
      BY <2>4, NopsNone
    <2>8. Emit(i, h, Nops(0) \o body2)
      BY <2>1, <2>3, <2>7, Zenon
    <2>9. Len(body2) <= 6 /\ 0 \in 0..3
      BY <2>4
    <2> QED BY <1>2, <1>8, <2>4, <2>6, <2>8, <2>9, FarSits
  <1> QED BY <1>5, <1>6, <1>7, <1>8

LEMMA PageSits ==
  ASSUME RelocInv, Alignments, phase = "relocate", Len(prog) < count,
         NEW i \in Instructions, RelocatePage(i)
  PROVE  Alignments'
  <1>1. PICK h \in Int : h = Here
    BY Positions DEF RelocInv
  <1>2. /\ i.to \in Int /\ Input \in Int /\ RwDelta \in Int
        /\ PageSize \in Nat \ {0} /\ Wrap \in Nat \ {0}
    BY Positions, RelocationAssumption DEF RelocInv, RelocationAssumption
  <1>3. PICK page \in Int : page = PageOf(Input) + ((i.to * PageSize) % Wrap)
    <2>1. Input % PageSize \in Int /\ i.to * PageSize \in Int
      BY <1>2
    <2>2. PICK b \in Int : b = i.to * PageSize
      BY <2>1
    <2>3. b % Wrap \in Int
      BY <1>2, <2>2
    <2> QED BY <1>2, <2>1, <2>2, <2>3 DEF PageOf
  <1>4. PICK pad : pad = Padding(h, 2, 2)
    OBVIOUS
  <1>5. pad \in 0..3 /\ (h + pad + 2) % 2 = 0
    BY <1>4, PaddingRange, PaddingAligns
  <1>6. PICK byte, body : byte \in Int /\ byte = 4 * page /\ body = SetRegister(byte)
    OBVIOUS
  <1>7. PICK start \in Int : start = IF pad = 0 THEN h + RwDelta ELSE h + pad
    BY <1>2, <1>5
  <1>8. \/ fixes' = fixes /\ Emit(i, h + RwDelta, <<Word("adrp", i.to)>>)
        \/ fixes' = fixes /\ Emit(i, start, Nops(pad) \o body)
    BY <1>1, <1>3, <1>4, <1>6, <1>7 DEF RelocatePage
  <1>9. CASE fixes' = fixes /\ Emit(i, h + RwDelta, <<Word("adrp", i.to)>>)
    <2>1. PICK w : w = Word("adrp", i.to)
      OBVIOUS
    <2>2. PICK body2 : body2 = <<w>>
      OBVIOUS
    <2>3. w \in Words /\ w.op = "adrp"
      BY <1>2, <2>1 DEF Word, Words, WordOps, Ops
    <2>4. body2 \in Seq(Words) /\ Len(body2) = 1 /\ body2[1] = w
      BY <2>2, <2>3
    <2>5. Nops(0) \o body2 = body2
      BY <2>4, NopsNone
    <2>6. \A q \in 1..Len(body2) : Sits(h + 0 + q - 1, body2[q])
      BY <2>3, <2>4, SitsAnywhere
    <2>7. Emit(i, h + RwDelta, Nops(0) \o body2)
      BY <1>9, <2>1, <2>2, <2>5, Zenon
    <2>8. Len(body2) <= 6 /\ h + RwDelta \in Int /\ 0 \in 0..3
      BY <1>2, <2>4
    <2> QED BY <1>1, <1>9, <2>4, <2>6, <2>7, <2>8, FarSits
  <1>10. CASE fixes' = fixes /\ Emit(i, start, Nops(pad) \o body)
    <2>1. PICK c \in Int : c = h + pad
      BY <1>5
    <2>2. (c + 2) % 2 = 0
      BY <1>5, <2>1
    <2>3. body \in Seq(Words) /\ Len(body) = 4 /\ \A q \in 1..4 : Sits(c + q - 1, body[q])
      BY <1>6, <2>2, SetSits
    <2>4. Len(body) <= 6 /\ \A q \in 1..Len(body) : Sits(h + pad + q - 1, body[q])
      BY <2>1, <2>3
    <2> QED BY <1>1, <1>5, <1>10, <2>3, <2>4, FarSits
  <1> QED BY <1>8, <1>9, <1>10

LEMMA CopySits ==
  ASSUME RelocInv, Alignments, phase = "relocate", Len(prog) < count,
         NEW i \in Instructions, Copy(i)
  PROVE  Alignments'
  <1>1. PICK h \in Int : h = Here
    BY Positions DEF RelocInv
  <1>2. PICK k \in Int : k = Index
    BY DEF RelocInv, TypeOK, Index
  <1>3. PICK body : body = IF i.op = "plain" THEN <<Word("plain", k)>> ELSE <<>>
    OBVIOUS
  <1>4. Emit(i, h, body) /\ fixes' = fixes
    BY <1>1, <1>2, <1>3 DEF Copy
  <1>5. /\ body \in Seq(Words) /\ Len(body) <= 6
        /\ \A q \in 1..Len(body) : Sits(h + 0 + q - 1, body[q])
    <2>1. CASE i.op = "plain"
      <3>1. PICK w : w = Word("plain", k)
        OBVIOUS
      <3>2. w \in Words /\ w.op = "plain"
        BY <3>1 DEF Word, Words, WordOps, Ops
      <3>3. body \in Seq(Words) /\ Len(body) = 1 /\ body[1] = w
        BY <1>3, <2>1, <3>1, <3>2
      <3>4. \A q \in 1..Len(body) : Sits(h + 0 + q - 1, body[q])
        BY <3>2, <3>3, SitsAnywhere
      <3> QED BY <3>3, <3>4
    <2>2. CASE i.op # "plain"
      <3>1. body \in Seq(Words) /\ Len(body) = 0
        BY <1>3, <2>2, EmptySeq
      <3> QED BY <3>1
    <2> QED BY <2>1, <2>2
  <1>6. Nops(0) \o body = body
    BY <1>5, NopsNone
  <1>7. Emit(i, h, Nops(0) \o body)
    BY <1>4, <1>6, Zenon
  <1>8. 0 \in 0..3
    OBVIOUS
  <1> QED BY <1>1, <1>4, <1>5, <1>7, <1>8, FarSits

\* The near load of a quadword never looks like the load of a copied one: its
\* displacement is a multiple of four words.
LEMMA NearLoad ==
  ASSUME NEW h \in Int, NEW t \in Int, Abs(t - h) + 3 < Half["ldrq"] - 1,
         NEW pad, pad = (t - h) % 4, NEW d, d = t - (h + pad)
  PROVE  Encoded("ldrq", d) # 2
  <1>1. "ldrq" \in PcRelative
    BY DEF PcRelative, Literals
  <1>2. PICK n \in Int : n = Half["ldrq"]
    BY <1>1, RelocationAssumption DEF RelocationAssumption
  <1>3. PICK x \in Int : x = t - h
    OBVIOUS
  <1>4. pad = x % 4 /\ pad \in 0..3
    BY <1>3
  <1>5. d = x - (x % 4) /\ d = x - pad /\ d \in Int
    BY <1>3, <1>4
  <1>6. d # 2
    BY <1>5
  <1>7. -n <= d /\ d < n
    <2>1. x + 3 < n - 1 /\ -x + 3 < n - 1
      <3>1. Abs(x) + 3 < n - 1
        BY <1>2, <1>3
      <3> QED BY <1>2, <3>1 DEF Abs
    <2> QED BY <1>2, <1>4, <1>5, <2>1
  <1>8. Encoded("ldrq", d) = d
    <2>1. -Half["ldrq"] <= d /\ d < Half["ldrq"]
      BY <1>2, <1>7
    <2> QED BY <1>1, <1>5, <2>1, EncodedNear
  <1> QED BY <1>6, <1>8

LEMMA LiteralSits ==
  ASSUME RelocInv, Alignments, phase = "relocate", Len(prog) < count,
         NEW i \in Instructions, RelocateLiteral(i)
  PROVE  Alignments'
  <1>1. i.op \in Literals /\ i.op \in PcRelative /\ i.op \in WordOps
        /\ Half[i.op] \in Nat /\ LiteralWords[i.op] \in {1, 2, 4}
        /\ (i.op = "ldrq" => LiteralWords[i.op] = 4)
    BY RelocationAssumption
      DEF RelocateLiteral, PcRelative, Literals, RelocationAssumption, WordOps, Ops, LiteralWords
  <1>2. PICK h \in Int, t \in Int : h = Here /\ t = Read(i)
    BY <1>1, Positions, ReadInt DEF RelocInv
  <1>4. PICK n \in {1, 2, 4} : n = LiteralWords[i.op]
    BY <1>1
  <1>5. PICK copied \in BOOLEAN :
          copied <=> InFixingRange(t) \/ Abs(t - h) + n - 1 >= Half[i.op] - 1
    OBVIOUS
  <1>6. PICK pad : pad = IF copied THEN Padding(h, 2, n) ELSE (t - h) % n
    OBVIOUS
  <1>7. pad \in 0..3
    <2>1. Padding(h, 2, n) \in 0..3
      BY PaddingRange
    <2>2. (t - h) % n \in 0..3
      <3>1. CASE n = 1 BY <3>1
      <3>2. CASE n = 2 BY <3>2
      <3>3. CASE n = 4 BY <3>3
      <3> QED BY <3>1, <3>2, <3>3
    <2> QED BY <1>6, <2>1, <2>2
  <1>8. PICK a \in Int : a = h + pad
    BY <1>7
  <1>9. PICK d \in Int : d = t - (h + pad)
    BY <1>7
  <1>10. PICK load : load = <<Word(i.op, 2), Word("b", n + 1)>>
    OBVIOUS
  <1>11. PICK value : value = [m \in 1..n |-> Word("value", t + m - 1)]
    OBVIOUS
  <1>12. PICK w : w = Word(IF d < 0 /\ i.op # "ldrx" THEN "badload" ELSE i.op, Encoded(i.op, d))
    OBVIOUS
  <1>13. PICK body : body = IF copied THEN load \o value ELSE <<w>>
    OBVIOUS
  <1>14. fixes' = fixes /\ Emit(i, a, Nops(pad) \o body)
    BY <1>2, <1>4, <1>5, <1>6, <1>8, <1>9, <1>10, <1>11, <1>12, <1>13 DEF RelocateLiteral
  <1>15. CASE copied
    <2>1. (h + pad + 2) % n = 0
      BY <1>6, <1>15, PaddingAligns
    <2>2. (a + 2) % n = 0
      BY <1>8, <2>1
    <2>3. /\ load \in Seq(Words) /\ Len(load) = 2
          /\ load[1] = Word(i.op, 2) /\ load[2] = Word("b", n + 1)
      <3>1. Word(i.op, 2) \in Words /\ Word("b", n + 1) \in Words
        BY <1>1 DEF Word, Words, WordOps, Ops, PcRelative, Branches
      <3> QED BY <1>10, <3>1
    <2>4. value \in Seq(Words) /\ Len(value) = n
      <3>1. \A m \in 1..n : Word("value", t + m - 1) \in Words
        BY DEF Word, Words, WordOps
      <3> QED BY <1>11, <3>1
    <2>5. body = load \o value
      BY <1>13, <1>15
    <2>6. /\ body \in Seq(Words) /\ Len(body) = Len(load) + Len(value)
          /\ \A q \in 1..(Len(load) + Len(value)) :
               body[q] = IF q <= Len(load) THEN load[q] ELSE value[q - Len(load)]
      BY <2>3, <2>4, <2>5, ConcatProperties
    <2>7. /\ Len(body) = 2 + n /\ Len(body) <= 6
          /\ \A q \in 1..(2 + n) : body[q] = IF q <= 2 THEN load[q] ELSE value[q - 2]
      <3>1. Len(load) = 2 /\ Len(value) = n /\ Len(load) + Len(value) = 2 + n
        BY <2>3, <2>4
      <3>2. Len(body) = 2 + n /\ Len(body) <= 6
        BY <1>4, <2>6, <3>1
      <3> QED BY <2>6, <3>1, <3>2
    <2>8. ASSUME NEW q \in 1..(2 + n)
          PROVE  Sits(a + q - 1, body[q])
      <3>1. CASE q = 1
        <4>1. body[q].op = i.op /\ a + q - 1 + 2 = a + 2
          BY <2>3, <2>7, <3>1 DEF Word
        <4>2. i.op \notin {"jump", "set", "call"}
          BY <1>1 DEF Literals
        <4>3. i.op = "ldrq" => (a + 2) % 4 = 0
          BY <1>1, <1>4, <2>2
        <4> QED BY <4>1, <4>2, <4>3 DEF Sits
      <3>2. CASE q = 2
        <4>1. body[q].op = "b"
          BY <2>3, <2>7, <3>2 DEF Word
        <4> QED BY <4>1, SitsAnywhere
      <3>3. CASE q > 2
        <4>1. PICK m \in 1..n : m = q - 2
          BY <2>8, <3>3
        <4>2. body[q] = value[m]
          BY <2>7, <3>3, <4>1
        <4>3. value[m].op = "value"
          BY <1>11 DEF Word
        <4> QED BY <4>2, <4>3, SitsAnywhere
      <3> QED BY <3>1, <3>2, <3>3
    <2>9. \A q \in 1..Len(body) : Sits(h + pad + q - 1, body[q])
      BY <1>8, <2>7, <2>8
    <2> QED BY <1>2, <1>7, <1>14, <2>6, <2>7, <2>9, FarSits
  <1>16. CASE ~copied
    <2>1. body = <<w>>
      BY <1>13, <1>16
    <2>2. Encoded(i.op, d) \in Int
      BY <1>1, EncodedInt
    <2>3. w \in Words /\ w.op \in {"badload", i.op} /\ w.to = Encoded(i.op, d)
      BY <1>1, <1>12, <2>2 DEF Word, Words, WordOps
    <2>4. body \in Seq(Words) /\ Len(body) = 1 /\ body[1] = w
      BY <2>1, <2>3
    <2>5. Sits(a, w)
      <3>1. w.op \notin {"jump", "set", "call"}
        BY <1>1, <2>3 DEF Literals
      <3>2. w.op = "ldrq" => w.to # 2
        <4>1. HAVE w.op = "ldrq"
        <4>2. i.op = "ldrq" /\ n = 4
          BY <1>1, <1>4, <2>3, <4>1
        <4>3. pad = (t - h) % 4
          BY <1>6, <1>16, <4>2
        <4>4. Abs(t - h) + 3 < Half["ldrq"] - 1
          <5>0. Abs(t - h) \in Int
            BY DEF Abs
          <5>1. PICK x \in Int : x = Abs(t - h)
            BY <5>0
          <5>2. ~(x + n - 1 >= Half[i.op] - 1)
            BY <1>5, <1>16, <5>1
          <5>3. PICK m \in Int : m = Half["ldrq"]
            BY <1>1, <4>2
          <5>4. x + 3 < m - 1
            BY <4>2, <5>2, <5>3
          <5> QED BY <5>1, <5>3, <5>4
        <4>5. Encoded("ldrq", d) # 2
          BY <1>9, <4>3, <4>4, NearLoad
        <4> QED BY <2>3, <4>2, <4>5
      <3> QED BY <3>1, <3>2 DEF Sits
    <2>6. Len(body) <= 6 /\ \A q \in 1..Len(body) : Sits(h + pad + q - 1, body[q])
      <3>1. ASSUME NEW q \in 1..Len(body)
            PROVE  Sits(h + pad + q - 1, body[q])
        <4>1. q = 1 /\ h + pad + q - 1 = a
          BY <1>7, <1>8, <2>4
        <4> QED BY <2>4, <2>5, <4>1
      <3> QED BY <2>4, <3>1
    <2> QED BY <1>2, <1>7, <1>14, <2>4, <2>6, FarSits
  <1> QED BY <1>15, <1>16

\* Every turn leaves the literals of the trampoline aligned.
LEMMA RelocateSits ==
  ASSUME RelocInv, Alignments, NEW i \in Code[place], Relocate(i)
  PROVE  Alignments'
  <1>1. phase = "relocate" /\ Len(prog) < count
    BY DEF Relocate
  <1>2. i \in Instructions
    BY DEF RelocInv, TypeOK, Instructions
  <1>3. CASE RelocateBranch(i)      BY <1>1, <1>2, <1>3, BranchSits
  <1>4. CASE RelocateConditional(i) BY <1>1, <1>2, <1>4, ConditionalSits
  <1>5. CASE RelocateLiteral(i)     BY <1>1, <1>2, <1>5, LiteralSits
  <1>6. CASE RelocateAddress(i)     BY <1>1, <1>2, <1>6, AddressSits
  <1>7. CASE RelocatePage(i)        BY <1>1, <1>2, <1>7, PageSits
  <1>8. CASE Copy(i)                BY <1>1, <1>2, <1>8, CopySits
  <1> QED BY <1>3, <1>4, <1>5, <1>6, <1>7, <1>8 DEF Relocate

\* A jump, behind a NOP where it needs one, may stand there.
LEMMA PaddedJumpSits ==
  ASSUME NEW h \in Int, NEW t \in Int, NEW words, words = Nops(Padding(h, 2, 2)) \o Jump(t)
  PROVE  words \in Seq(Words) /\ \A q \in 1..Len(words) : Sits(h + q - 1, words[q])
  <1>1. PICK pad : pad = Padding(h, 2, 2)
    OBVIOUS
  <1>2. pad \in 0..3 /\ (h + pad + 2) % 2 = 0
    BY <1>1, PaddingRange, PaddingAligns
  <1>3. PICK c \in Int : c = h + pad
    BY <1>2
  <1>4. (c + 2) % 2 = 0
    BY <1>2, <1>3
  <1>5. PICK jump : jump = Jump(t)
    OBVIOUS
  <1>6. jump \in Seq(Words) /\ Len(jump) = 4 /\ \A q \in 1..4 : Sits(c + q - 1, jump[q])
    BY <1>4, <1>5, JumpSits
  <1>7. Len(jump) <= 6 /\ \A q \in 1..Len(jump) : Sits(h + pad + q - 1, jump[q])
    BY <1>3, <1>6
  <1>8. words = Behind(pad, jump)
    BY <1>1, <1>5 DEF Behind
  <1>9. Behind(pad, jump) \in Seq(Words)
    BY <1>2, <1>6, <1>7, BehindShort
  <1>10. \A q \in 1..Len(Behind(pad, jump)) : Sits(h + q - 1, Behind(pad, jump)[q])
    BY <1>2, <1>6, <1>7, BehindSits
  <1> QED BY <1>8, <1>9, <1>10

LEMMA BranchWordSits ==
  ASSUME NEW h \in Int, NEW d \in Int, NEW words, words = <<Word("b", d)>>
  PROVE  words \in Seq(Words) /\ \A q \in 1..Len(words) : Sits(h + q - 1, words[q])
  <1>1. PICK w : w = Word("b", d)
    OBVIOUS
  <1>2. w \in Words /\ w.op = "b"
    BY <1>1 DEF Word, Words, WordOps, Ops, PcRelative, Branches
  <1>3. words \in Seq(Words) /\ Len(words) = 1 /\ words[1] = w
    BY <1>1, <1>2
  <1> QED BY <1>2, <1>3, SitsAnywhere

\* The jump back has its literal aligned.
LEMMA ReturnJumpSits ==
  ASSUME RelocInv, Alignments, ReturnJump
  PROVE  Alignments'
  <1>1. PICK h \in Int, n \in Int : h = Here /\ n = Input
    BY Positions DEF RelocInv
  <1>2. PICK d \in Int : d = n - h
    OBVIOUS
  <1>3. PICK words : words = IF Abs(d) >= Half["b"] - 1 THEN Nops(Padding(h, 2, 2)) \o Jump(n) ELSE <<Word("b", d)>>
    OBVIOUS
  <1>4. /\ out' = out \o words /\ UNCHANGED <<place, prog, fixes, patched>>
    BY <1>1, <1>2, <1>3 DEF ReturnJump
  <1>5. words \in Seq(Words) /\ \A q \in 1..Len(words) : Sits(h + q - 1, words[q])
    <2>1. CASE Abs(d) >= Half["b"] - 1
      BY <1>3, <2>1, PaddedJumpSits
    <2>2. CASE ~(Abs(d) >= Half["b"] - 1)
      BY <1>3, <2>2, BranchWordSits
    <2> QED BY <2>1, <2>2
  <1>6. PICK r \in Int, l \in Nat, w \in Nat : r = place.tramp /\ l = Len(out) /\ w = Len(words)
    BY <1>5, PlaceTyped DEF RelocInv, TypeOK
  <1>7. out \in Seq(Words)
    BY DEF RelocInv, TypeOK
  <1>8. /\ out' \in Seq(Words) /\ Len(out') = Len(out) + Len(words)
        /\ \A q \in 1..(Len(out) + Len(words)) :
             out'[q] = IF q <= Len(out) THEN out[q] ELSE words[q - Len(out)]
    BY <1>4, <1>5, <1>7, ConcatProperties
  <1>9. /\ Len(out') = l + w
        /\ \A q \in 1..(l + w) : out'[q] = IF q <= l THEN out[q] ELSE words[q - l]
    BY <1>6, <1>8
  <1>10. ASSUME NEW q \in 1..(l + w)
         PROVE  Sits(r + q - 1, out'[q])
    <2>1. CASE q <= l
      <3>1. q \in DOMAIN out /\ out'[q] = out[q]
        BY <1>6, <1>7, <1>9, <2>1
      <3> QED BY <1>6, <3>1 DEF Alignments
    <2>2. CASE q > l
      <3>1. PICK m \in 1..w : m = q - l
        BY <2>2
      <3>2. out'[q] = words[m]
        BY <1>9, <2>2, <3>1
      <3>3. h + m - 1 = r + q - 1
        <4>1. h = r + l
          BY <1>1, <1>6 DEF Here
        <4> QED BY <3>1, <4>1
      <3>4. Sits(h + m - 1, words[m])
        BY <1>5, <1>6
      <3> QED BY <3>2, <3>3, <3>4
    <2> QED BY <2>1, <2>2
  <1>11. DOMAIN out' = 1..(l + w)
    BY <1>8, <1>9
  <1>12. Aligned(hook, patched)'
    BY <1>4 DEF Alignments, Aligned, hook
  <1>13. ASSUME NEW k \in 1..MaxInstructions, NEW q \in fixes'[k]
         PROVE  out'[q].op \notin Literals
    <2>1. q \in fixes[k] /\ q \in 1..l
      BY <1>4, <1>6 DEF RelocInv, TypeOK
    <2>2. out'[q] = out[q]
      BY <1>9, <2>1
    <2> QED BY <2>1, <2>2 DEF Alignments
  <1> QED BY <1>4, <1>6, <1>10, <1>11, <1>12, <1>13 DEF Alignments, Sits

\* So has the patch.
LEMMA PatchSits ==
  ASSUME RelocInv, Alignments, Patch
  PROVE  Alignments'
  <1>1. /\ UNCHANGED <<place, out, fixes>>
        /\ patched' = IF CallbackFar THEN Nops(Padding(hook, 2, 2)) \o Jump(place.callback)
                      ELSE <<Word("b", place.callback - hook)>>
    BY DEF Patch
  <1>2. PICK h \in Int, t \in Int : h = hook /\ t = place.callback
    BY PlaceTyped DEF RelocInv, TypeOK
  <1>3. patched' \in Seq(Words) /\ \A q \in 1..Len(patched') : Sits(h + q - 1, patched'[q])
    <2>1. CASE CallbackFar
      <3>1. patched' = Nops(Padding(h, 2, 2)) \o Jump(t)
        BY <1>1, <1>2, <2>1
      <3>2. PICK words : words = Nops(Padding(h, 2, 2)) \o Jump(t)
        OBVIOUS
      <3>3. words \in Seq(Words) /\ \A q \in 1..Len(words) : Sits(h + q - 1, words[q])
        BY <3>2, PaddedJumpSits
      <3> QED BY <3>1, <3>2, <3>3
    <2>2. CASE ~CallbackFar
      <3>1. PICK d \in Int : d = t - h
        OBVIOUS
      <3>2. patched' = <<Word("b", d)>>
        BY <1>1, <1>2, <2>2, <3>1
      <3>3. PICK words : words = <<Word("b", d)>>
        OBVIOUS
      <3>4. words \in Seq(Words) /\ \A q \in 1..Len(words) : Sits(h + q - 1, words[q])
        BY <3>3, BranchWordSits
      <3> QED BY <3>2, <3>3, <3>4
    <2> QED BY <2>1, <2>2
  <1>4. Aligned(hook, patched)'
    <2>1. DOMAIN patched' = 1..Len(patched')
      BY <1>3
    <2>2. hook' = h
      BY <1>1, <1>2 DEF hook
    <2> QED BY <1>3, <2>1, <2>2 DEF Aligned, Sits
  <1>5. (\A q \in DOMAIN out : Sits(place.tramp + q - 1, out[q]))'
    BY <1>1 DEF Alignments, Sits
  <1> QED BY <1>1, <1>4, <1>5 DEF Alignments

-----------------------------------------------------------------------------
(* The invariant. *)

LEMMA InitEffects == Init => EffectInv
  <1> SUFFICES ASSUME Init
               PROVE  EffectInv
    OBVIOUS
  <1>1. /\ prog = <<>> /\ out = <<>> /\ ins = <<>> /\ patched = <<>>
        /\ fixes = [k \in 1..MaxInstructions |-> {}]
        /\ phase = IF kind = "replace" THEN "patch" ELSE "relocate"
    BY DEF Init
  <1>2. DOMAIN prog = {} /\ DOMAIN ins = {} /\ DOMAIN out = {} /\ DOMAIN patched = {}
    BY <1>1
  <1>3. StartsInRow /\ EffectsKept
    BY <1>2 DEF StartsInRow, EffectsKept
  <1>4. GoesBack /\ EntryBehind
    BY <1>1 DEF GoesBack, EntryBehind
  <1>5. Alignments
    BY <1>1, <1>2 DEF Alignments, Aligned
  <1> QED BY <1>3, <1>4, <1>5 DEF EffectInv

\* One case per action; Patch and WriteEntry do not touch the trampoline.
LEMMA NextEffects ==
  ASSUME RelocInv, EffectInv, [Next]_vars
  PROVE  EffectInv'
  <1>1. StartsInRow /\ EffectsKept /\ GoesBack /\ Alignments /\ EntryBehind
    BY DEF EffectInv
  <1>2. CASE \E i \in Code[place] : Relocate(i)
    <2>1. PICK i \in Code[place] : Relocate(i)
      BY <1>2
    <2>2. StartsInRow' /\ EffectsKept'
      BY <1>1, <2>1, RelocateEffects
    <2>3. Alignments'
      BY <1>1, <2>1, RelocateSits
    <2>4. phase' = "relocate"
      BY <2>1 DEF Relocate, RelocateBranch, RelocateConditional, RelocateLiteral, RelocateAddress,
                  RelocatePage, Copy, EmitNear, Emit
    <2>5. GoesBack' /\ EntryBehind'
      BY <2>4 DEF GoesBack, EntryBehind
    <2> QED BY <2>2, <2>3, <2>5 DEF EffectInv
  <1>3. CASE ReturnJump
    <2>1. StartsInRow' /\ EffectsKept' /\ GoesBack'
      BY <1>1, <1>3, ReturnJumpEffects
    <2>2. Alignments'
      BY <1>1, <1>3, ReturnJumpSits
    <2>3. EntryBehind'
      BY <1>3 DEF ReturnJump, EntryBehind
    <2> QED BY <2>1, <2>2, <2>3 DEF EffectInv
  <1>4. CASE Patch
    <2>1. /\ UNCHANGED <<place, kind, prog, out, ins, fixes>>
          /\ phase = "patch" /\ phase' = IF kind = "inline" THEN "entry" ELSE "done"
      BY <1>4 DEF Patch
    <2>2. phase' = "relocate" <=> phase = "relocate"
      BY <2>1
    <2>3. StartsInRow' /\ EffectsKept' /\ GoesBack'
      BY <1>1, <2>1, <2>2, EffectsUntouched
    <2>4. Alignments'
      BY <1>1, <1>4, PatchSits
    <2>5. EntryBehind'
      BY <2>1 DEF EntryBehind
    <2> QED BY <2>3, <2>4, <2>5 DEF EffectInv
  <1>5. CASE WriteEntry
    <2>1. /\ UNCHANGED <<place, kind, prog, out, ins, fixes, patched>>
          /\ phase = "entry" /\ phase' = "done"
          /\ entry' = (place.callback + 3) + (place.tramp - (place.callback + 2))
      BY <1>5 DEF WriteEntry
    <2>2. phase' = "relocate" <=> phase = "relocate"
      BY <2>1
    <2>3. StartsInRow' /\ EffectsKept' /\ GoesBack'
      BY <1>1, <2>1, <2>2, EffectsUntouched
    <2>4. Alignments'
      BY <1>1, <2>1 DEF Alignments, Aligned, Sits, hook
    <2>5. place.tramp \in Int /\ place.callback \in Int
      BY PlaceTyped DEF RelocInv, TypeOK
    <2>6. entry' = place.tramp + 1
      BY <2>1, <2>5
    <2>7. EntryBehind'
      BY <2>1, <2>6 DEF EntryBehind
    <2> QED BY <2>3, <2>4, <2>7 DEF EffectInv
  <1>6. CASE UNCHANGED vars
    <2>1. /\ UNCHANGED <<place, kind, prog, out, ins, fixes>>
          /\ UNCHANGED <<phase, patched, entry>>
      BY <1>6 DEF vars
    <2>2. phase' = "relocate" <=> phase = "relocate"
      BY <2>1
    <2>3. StartsInRow' /\ EffectsKept' /\ GoesBack'
      BY <1>1, <2>1, <2>2, EffectsUntouched
    <2>4. Alignments' /\ EntryBehind'
      BY <1>1, <2>1 DEF Alignments, Aligned, Sits, EntryBehind, hook
    <2> QED BY <2>3, <2>4 DEF EffectInv
  <1> QED BY <1>2, <1>3, <1>4, <1>5, <1>6 DEF Next

LEMMA EffectInvariance == Spec => []EffectInv
  <1>1. RelocInv /\ EffectInv /\ [Next]_vars => EffectInv'
    BY NextEffects
  <1> QED BY <1>1, InitEffects, Invariance, PTL DEF Spec

-----------------------------------------------------------------------------
(* What the invariant says of the trampoline that is complete. *)

\* The hook is installed, and its trampoline can run.
Complete ==
  RelocInv /\ EffectInv /\ phase = "done" /\ kind # "replace" /\ Supported

\* Running instruction k comes to p, past NOPs only.
Lands(k, p) == InTramp(p) /\ Gap(At(k), p) /\ WordAt(p).op # "nop"

LEMMA CompleteFacts ==
  ASSUME Complete
  PROVE  /\ count \in 1..MaxInstructions /\ hook \in Int /\ place.tramp \in Int /\ End \in Int
         /\ Len(prog) = count /\ Len(ins) = count + 1 /\ ins[count + 1] \in Row
         /\ \A k \in 1..(count + 1) :
              /\ At(k) \in Int /\ place.tramp <= At(k) /\ At(k) <= End /\ InTramp(At(k))
              /\ Start(k) = At(k)
         /\ \A k \in 1..count :
              /\ prog[k] \in Instructions /\ TargetOf(k) \in Int
              /\ Rest(k) = At(k + 1)
              /\ \E a \in Row : Gap(At(k), a) /\ Effect(k, a)
         /\ \A a \in Int : InTramp(a) <=> place.tramp <= a /\ a <= End
  <1>1. /\ TypeOK /\ RelocInv /\ StartsInRow /\ EffectsKept /\ GoesBack
        /\ phase = "done" /\ kind # "replace" /\ Supported
    BY DEF Complete, EffectInv, RelocInv
  <1>2. Len(prog) = count /\ Len(ins) = count + 1 /\ ins[count + 1] \in Row
    BY <1>1 DEF GoesBack
  <1>3. count \in 1..MaxInstructions /\ hook \in Int /\ place.tramp \in Int
    BY <1>1, CountValues, PlaceTyped DEF TypeOK, MaxInstructions
  <1>4. PICK r \in Int, l \in Nat : r = place.tramp /\ l = Len(out)
    BY <1>1, <1>3 DEF TypeOK
  <1>5. End = r + l - 1 /\ Here = r + l /\ End \in Int
    BY <1>4 DEF End, Here
  <1>6. End \in Int /\ l <= TrampolineSize /\ TrampolineSize = 50
    BY <1>1, <1>4, <1>5, RowIsLongEnough DEF FitsTrampoline, TrampolineSize, MaxInstructions
  <1>7. \A a \in Int : InTramp(a) <=> place.tramp <= a /\ a <= End
    BY <1>3, <1>6 DEF InTramp
  <1>8. ASSUME NEW k \in 1..(count + 1)
        PROVE  /\ At(k) \in Int /\ place.tramp <= At(k) /\ At(k) <= End /\ InTramp(At(k))
               /\ Start(k) = At(k)
    <2>1. ins \in Seq(Int) /\ k \in DOMAIN ins
      BY <1>1, <1>2, <1>3 DEF TypeOK
    <2>2. ins[k] \in Int /\ RwDelta \in Int
      BY <2>1, RelocationAssumption DEF RelocationAssumption
    <2>3. At(k) \in place.tramp..End
      BY <1>1, <2>1 DEF StartsInRow
    <2>4. At(k) \in Int /\ place.tramp <= At(k) /\ At(k) <= End
      BY <1>3, <1>6, <2>3
    <2>5. PICK x \in Int : x = ins[k]
      BY <2>2
    <2>6. CASE x \in Row
      <3>1. At(k) = x
        BY <2>5, <2>6 DEF At
      <3>2. InTramp(x)
        BY <1>7, <2>4, <3>1
      <3> QED BY <2>4, <2>5, <3>1, <3>2 DEF Start
    <2>7. CASE x \notin Row
      <3>1. At(k) = x - RwDelta
        BY <2>5, <2>7 DEF At
      <3>2. ~InTramp(x)
        <4>1. SUFFICES ASSUME place.tramp <= x, x <= End
                       PROVE  FALSE
          BY <1>7
        <4>2. r <= x /\ x <= r + 50
          BY <1>4, <1>5, <1>6, <4>1
        <4> QED BY <1>4, <1>6, <2>7, <4>2 DEF Row
      <3>3. Start(k) = x - RwDelta
        BY <2>5, <3>2 DEF Start
      <3> QED BY <1>7, <2>4, <3>1, <3>3
    <2> QED BY <2>6, <2>7, <2>4, <1>7
  <1>9. ASSUME NEW k \in 1..count
        PROVE  /\ prog[k] \in Instructions /\ TargetOf(k) \in Int
               /\ Rest(k) = At(k + 1)
               /\ \E a \in Row : Gap(At(k), a) /\ Effect(k, a)
    <2>1. prog[k] \in Instructions /\ k \in DOMAIN prog
      BY <1>1, <1>2, <1>3 DEF TypeOK
    <2>2. TargetOf(k) \in Int
      BY <1>1, <2>1, Positions DEF TargetOf
    <2>3. Rest(k) = At(k + 1)
      BY <1>2, <1>3 DEF Rest
    <2>4. Readable(k)
      BY <1>1, <2>1 DEF Supported, Readable, TargetOf, PageAt
    <2>5. \E a \in Row : Gap(At(k), a) /\ Effect(k, a)
      BY <1>1, <2>1, <2>4 DEF EffectsKept
    <2> QED BY <2>1, <2>2, <2>3, <2>5
  <1> QED BY <1>2, <1>3, <1>6, <1>7, <1>8, <1>9

\* Past NOPs only, the next word to run is the one that is none.
LEMMA SkipsGap ==
  ASSUME NEW a \in Int, NEW p \in Int, Gap(a, p), InTramp(p), WordAt(p).op # "nop",
         End \in Int, place.tramp \in Int, place.tramp <= a
  PROVE  SkipNops(a) = p
  <1> DEFINE S == {b \in a..End : InTramp(b) /\ WordAt(b).op # "nop"}
  <1>1. a <= p /\ \A c \in a..(p - 1) : WordAt(c) = Nop
    BY DEF Gap, Holds
  <1>2. p \in S
    BY <1>1 DEF InTramp
  <1>3. \A c \in S : p <= c
    <2> TAKE c \in S
    <2>1. c \in Int /\ a <= c /\ WordAt(c).op # "nop"
      OBVIOUS
    <2>2. ~(c < p)
      <3>1. ASSUME c < p
            PROVE  FALSE
        <4>1. c \in a..(p - 1)
          BY <2>1, <3>1
        <4>2. WordAt(c).op = "nop"
          BY <1>1, <4>1 DEF Nop, Word
        <4> QED BY <2>1, <4>2
      <3> QED BY <3>1
    <2> QED BY <2>1, <2>2
  <1>4. S \subseteq Int
    OBVIOUS
  <1>5. SkipNops(a) = IF S = {} THEN a ELSE CHOOSE b \in S : \A c \in S : b <= c
    BY DEF SkipNops
  <1> HIDE DEF S
  <1>6. \A b \in S : (\A c \in S : b <= c) => b = p
    BY <1>2, <1>3, <1>4
  <1>7. (CHOOSE b \in S : \A c \in S : b <= c) = p
    BY <1>2, <1>3, <1>6
  <1> QED BY <1>2, <1>5, <1>7

LEMMA GapAgain ==
  ASSUME NEW a \in Int, NEW b \in Int, NEW c \in Int, Gap(a, b), Gap(b, c)
  PROVE  Gap(a, c)
  BY DEF Gap

\* Every instruction comes to a word that does something: at the latest to the
\* jump back.
LEMMA LandsOnce ==
  ASSUME Complete, NEW k \in 1..count, NEW q \in Int, Lands(k + 1, q)
  PROVE  \E p \in Int : Lands(k, p)
  <1>1. PICK a \in Row : Gap(At(k), a) /\ Effect(k, a)
    BY CompleteFacts
  <1>2. /\ count \in 1..MaxInstructions /\ place.tramp \in Int
        /\ prog[k] \in Instructions /\ Rest(k) = At(k + 1)
    BY CompleteFacts
  <1>3. PICK s \in Int, e \in Int : s = At(k) /\ e = At(k + 1)
    <2>1. k \in 1..(count + 1) /\ k + 1 \in 1..(count + 1)
      BY <1>2
    <2> QED BY <2>1, CompleteFacts
  <1>4. a \in Int
    BY <1>2 DEF Row
  <1>5. CASE prog[k].op = "prfm" /\ Gap(a, Rest(k))
    <2>1. Gap(s, e)
      BY <1>1, <1>2, <1>3, <1>4, <1>5, GapAgain
    <2>2. Gap(e, q) /\ InTramp(q) /\ WordAt(q).op # "nop"
      BY <1>3 DEF Lands
    <2>3. Gap(s, q)
      BY <2>1, <2>2, GapAgain
    <2> QED BY <1>3, <2>2, <2>3 DEF Lands
  <1>6. CASE ~(prog[k].op = "prfm" /\ Gap(a, Rest(k)))
    <2>1. InTramp(a) /\ WordAt(a).op # "nop"
      <3>1. \/ \E w : Holds(a, w) /\ w.op # "nop"
            \/ Goes(k, a) /\ prog[k].op \in PcRelative
        BY <1>1, <1>6 DEF Effect, Word, Conditional, Literals, PcRelative
      <3> QED BY <3>1 DEF Holds, Goes, PcRelative, Branches, Conditional, Literals, Addresses
    <2> QED BY <1>1, <1>4, <2>1 DEF Lands
  <1> QED BY <1>5, <1>6

LEMMA LandsAll ==
  ASSUME Complete
  PROVE  \A k \in 1..(count + 1) : \E p \in Int : Lands(k, p)
  <1> DEFINE Q(n) == \A k \in 1..(count + 1) : k >= count + 1 - n => \E p \in Int : Lands(k, p)
  <1>1. count \in 1..5 /\ place.tramp \in Int
    BY CompleteFacts DEF MaxInstructions
  <1>2. Q(0)
    <2>1. GoesBack /\ kind # "replace" /\ phase = "done"
      BY DEF Complete, EffectInv
    <2>2. PICK a \in Row :
            /\ Gap(At(count + 1), a) /\ InTramp(a)
            /\ \/ WordAt(a) = Word("jump", hook + count)
               \/ WordAt(a).op = "b" /\ a + WordAt(a).to = hook + count
      BY <2>1 DEF GoesBack
    <2>3. a \in Int /\ WordAt(a).op # "nop"
      BY <1>1, <2>2 DEF Row, Word
    <2>4. Lands(count + 1, a)
      BY <2>2, <2>3 DEF Lands
    <2>5. \A k \in 1..(count + 1) : k >= count + 1 - 0 => k = count + 1
      BY <1>1
    <2> QED BY <2>3, <2>4, <2>5
  <1>3. ASSUME NEW n \in Nat, Q(n)
        PROVE  Q(n + 1)
    <2> SUFFICES ASSUME NEW k \in 1..(count + 1), k >= count + 1 - (n + 1)
                 PROVE  \E p \in Int : Lands(k, p)
      OBVIOUS
    <2>1. CASE k >= count + 1 - n
      BY <1>3, <2>1
    <2>2. CASE k = count + 1 - (n + 1) /\ k \in 1..count
      <3>1. PICK m \in 1..(count + 1) : m = k + 1 /\ m >= count + 1 - n
        BY <1>1, <2>2
      <3>2. PICK q \in Int : Lands(m, q)
        BY <1>3, <3>1
      <3>3. Lands(k + 1, q)
        BY <3>1, <3>2
      <3> QED BY <2>2, <3>3, LandsOnce
    <2>3. k >= count + 1 - n \/ (k = count + 1 - (n + 1) /\ k \in 1..count)
      BY <1>1
    <2> QED BY <2>1, <2>2, <2>3
  <1> HIDE DEF Q
  <1>4. Q(0 + 1 + 1 + 1 + 1 + 1)
    <2>1. Q(0 + 1)                 BY <1>2, <1>3
    <2>2. Q(0 + 1 + 1)             BY <2>1, <1>3
    <2>3. Q(0 + 1 + 1 + 1)         BY <2>2, <1>3
    <2>4. Q(0 + 1 + 1 + 1 + 1)     BY <2>3, <1>3
    <2> QED BY <2>4, <1>3
  <1>5. Q(5)
    BY <1>4
  <1> QED BY <1>1, <1>5 DEF Q

\* Control before the start of an instruction, with only NOPs between, is at it.
LEMMA SkipsAlike ==
  ASSUME Complete, NEW k \in 1..(count + 1), NEW b \in Int, place.tramp <= b, Gap(b, At(k))
  PROVE  SkipNops(b) = SkipNops(Start(k)) /\ InTramp(b)
  <1>1. PICK p \in Int : Lands(k, p)
    BY LandsAll
  <1>2. /\ End \in Int /\ place.tramp \in Int
        /\ At(k) \in Int /\ place.tramp <= At(k) /\ At(k) <= End /\ Start(k) = At(k)
        /\ InTramp(b) <=> place.tramp <= b /\ b <= End
    BY CompleteFacts
  <1>3. PICK s \in Int : s = At(k)
    BY <1>2
  <1>4. InTramp(p) /\ Gap(s, p) /\ WordAt(p).op # "nop" /\ Gap(b, s)
    BY <1>1, <1>3 DEF Lands
  <1>5. Gap(b, p)
    BY <1>4, GapAgain
  <1>6. SkipNops(b) = p /\ SkipNops(s) = p
    BY <1>2, <1>3, <1>4, <1>5, SkipsGap
  <1>7. b <= s
    BY <1>4 DEF Gap
  <1>8. InTramp(b)
    BY <1>2, <1>3, <1>7
  <1> QED BY <1>2, <1>3, <1>6, <1>8

\* Behind the relocated instruction k, the code goes on as the original.
LEMMA StandsNext ==
  ASSUME Complete, NEW k \in 1..count, NEW b \in Int, place.tramp <= b, Gap(b, Rest(k))
  PROVE  Stands(b, hook + k) /\ Reaches(b, hook + k)
  <1>1. /\ count \in 1..MaxInstructions /\ hook \in Int /\ Rest(k) = At(k + 1)
    BY CompleteFacts
  <1>2. PICK m \in 1..(count + 1) : m = k + 1
    BY <1>1
  <1>3. SkipNops(b) = SkipNops(Start(m)) /\ InTramp(b)
    BY <1>1, <1>2, SkipsAlike
  <1>4. RefIndex(hook + k) = m
    BY <1>1, <1>2 DEF RefIndex
  <1>5. InFixingRange(hook + k) \/ hook + k = hook + count
    BY <1>1 DEF InFixingRange
  <1>6. Stands(b, hook + k)
    BY <1>3, <1>4, <1>5 DEF Stands
  <1> QED BY <1>6 DEF Reaches

\* An address that is not overwritten stands for itself.
LEMMA StandsThere ==
  ASSUME Complete, NEW t \in Int, ~InFixingRange(t)
  PROVE  Stands(t, t) /\ Reaches(t, t)
  <1>1. /\ count \in 0..MaxInstructions /\ hook \in Int /\ place.tramp \in Int /\ End \in Int
        /\ (InTramp(t) <=> place.tramp <= t /\ t <= End)
    BY CompleteFacts DEF MaxInstructions
  <1>2. place \in Places /\ Here \in Row
    BY HereInRow DEF Complete, RelocInv, TypeOK
  <1>3. End <= place.tramp + TrampolineSize
    <2>1. PICK r \in Int, l \in Int : r = place.tramp /\ l = Len(out)
      BY <1>1 DEF Complete, RelocInv, TypeOK
    <2>2. End = r + l - 1 /\ Here = r + l
      BY <2>1 DEF End, Here
    <2>3. r + l <= r + TrampolineSize
      BY <1>2, <2>1, <2>2 DEF Row, TrampolineSize, MaxInstructions
    <2> QED BY <2>1, <2>2, <2>3 DEF TrampolineSize, MaxInstructions
  <1>4. hook + count \notin place.tramp..(place.tramp + TrampolineSize)
    BY <1>1, <1>2, RangesAssumption DEF RangesAssumption, hook
  <1>5. ~(t = hook + count /\ InTramp(t))
    BY <1>1, <1>3, <1>4 DEF TrampolineSize, MaxInstructions
  <1>6. Stands(t, t)
    BY <1>5 DEF Stands
  <1> QED BY <1>6 DEF Reaches

\* A word that does something is where control comes to at once.
LEMMA SkipsNone ==
  ASSUME Complete, NEW a \in Int, InTramp(a), WordAt(a).op # "nop"
  PROVE  SkipNops(a) = a
  <1>1. End \in Int /\ place.tramp \in Int /\ place.tramp <= a
    BY CompleteFacts
  <1>2. Gap(a, a)
    BY GapNone
  <1> QED BY <1>1, <1>2, SkipsGap

\* A branch leads where its displacement says, and a jump where its literal does.
LEMMA BranchReaches ==
  ASSUME Complete, NEW a \in Int, InTramp(a), NEW d \in Int, NEW t, NEW b \in Int, b = a + d,
         WordAt(a).op = "b", WordAt(a).to = d, Stands(b, t)
  PROVE  Reaches(a, t)
  <1>1. SkipNops(a) = a
    BY SkipsNone
  <1> QED BY <1>1 DEF Reaches

LEMMA JumpReaches ==
  ASSUME Complete, NEW a \in Int, NEW t \in Int, Holds(a, Word("jump", t)), ~InFixingRange(t)
  PROVE  Reaches(a, t)
  <1>1. InTramp(a) /\ WordAt(a).op = "jump" /\ WordAt(a).to = t
    BY DEF Holds, Word
  <1>2. SkipNops(a) = a
    BY <1>1, SkipsNone
  <1> QED BY <1>1, <1>2, StandsThere DEF Reaches

\* The displacement of a near relocation leads to what the instruction refers to.
LEMMA GoesThere ==
  ASSUME Complete, NEW k \in 1..count, NEW t \in Int, t = TargetOf(k),
         prog[k].op \in PcRelative, NEW a \in Int, Goes(k, a)
  PROVE  /\ InTramp(a) /\ WordAt(a).op = prog[k].op
         /\ \E d \in Int, b \in Int : WordAt(a).to = d /\ b = a + d /\ Stands(b, t) /\ Reaches(b, t)
  <1>1. /\ count \in 1..MaxInstructions /\ hook \in Int /\ place.tramp \in Int /\ Len(prog) = count
        /\ DOMAIN prog = 1..count
    BY CompleteFacts DEF Complete, RelocInv, TypeOK
  <1>2. InTramp(a) /\ WordAt(a).op = prog[k].op
    BY DEF Goes
  <1>3. WordAt(a).to \in Int
    <2>1. out \in Seq(Words)
      BY DEF Complete, RelocInv, TypeOK
    <2>2. a - place.tramp + 1 \in 1..Len(out)
      BY <1>1, <1>2, <2>1 DEF InTramp, End
    <2>3. out[a - place.tramp + 1] \in Words
      BY <2>1, <2>2
    <2> QED BY <2>3 DEF WordAt, Words
  <1>4. PICK d \in Int, b \in Int : d = WordAt(a).to /\ b = a + d
    BY <1>3
  <1>5. CASE InFixingRange(t)
    <2>1. PICK r \in 1..count : r = RefIndex(t)
      BY <1>1, <1>5 DEF InFixingRange, RefIndex
    <2>2. prog[r].op # "adrp"
      <3>1. Supported
        BY DEF Complete
      <3> QED BY <1>1, <1>5, <2>1, <3>1 DEF Supported, TargetOf
    <2>3. b = At(r)
      BY <1>1, <1>4, <1>5, <2>1, <2>2 DEF Goes
    <2>4. Start(r) = b
      <3>1. r \in 1..(count + 1)
        BY <1>1
      <3> QED BY <2>3, <3>1, CompleteFacts
    <2>5. Stands(b, t)
      BY <1>5, <2>1, <2>4 DEF Stands
    <2> QED BY <1>2, <1>4, <2>5 DEF Reaches
  <1>6. CASE ~InFixingRange(t)
    <2>1. b = t
      BY <1>4, <1>6 DEF Goes
    <2>2. Stands(b, t) /\ Reaches(b, t)
      BY <1>6, <2>1, StandsThere
    <2> QED BY <1>2, <1>4, <2>2
  <1> QED BY <1>5, <1>6

\* Every instruction of the complete trampoline does what it did.
LEMMA EffectSame ==
  ASSUME Complete, NEW k \in 1..count
  PROVE  SameEffect(k)
  <1>1. PICK a \in Row : Gap(At(k), a) /\ Effect(k, a)
    BY CompleteFacts
  <1>2. /\ count \in 1..MaxInstructions /\ place.tramp \in Int /\ hook \in Int /\ End \in Int
        /\ prog[k] \in Instructions /\ TargetOf(k) \in Int
    BY CompleteFacts
  <1>3. /\ At(k) \in Int /\ place.tramp <= At(k) /\ Start(k) = At(k)
    <2>1. k \in 1..(count + 1)
      BY <1>2
    <2> QED BY <2>1, CompleteFacts
  <1>4. PICK t \in Int, s \in Int, next \in Int :
          t = TargetOf(k) /\ s = Start(k) /\ next = hook + k
    BY <1>2, <1>3
  <1>18. PICK op : op = prog[k].op
    OBVIOUS
  <1>5. a \in Int /\ op \in Ops /\ Gap(s, a) /\ s <= a /\ place.tramp <= s
    <2>1. prog[k].op \in Ops
      BY <1>2, Positions DEF Complete, RelocInv
    <2> QED BY <1>1, <1>2, <1>3, <1>4, <1>18, <2>1 DEF Row, Gap
  <1>6. \A b \in Int : place.tramp <= b /\ Gap(b, Rest(k)) => Stands(b, next) /\ Reaches(b, next)
    BY <1>4, <1>18, StandsNext
  <1>17. \A n \in Nat : Gap(a + n, Rest(k)) => Reaches(a + n, next)
    <2> SUFFICES ASSUME NEW n \in Nat, Gap(a + n, Rest(k))
                 PROVE  Reaches(a + n, next)
      OBVIOUS
    <2>1. PICK b \in Int : b = a + n
      BY <1>5
    <2>2. place.tramp <= b
      BY <1>2, <1>5, <2>1
    <2> QED BY <1>6, <2>1, <2>2
  <1>7. op # "prfm" /\ InTramp(a) /\ WordAt(a).op # "nop" => SkipNops(s) = a
    BY <1>2, <1>5, SkipsGap
  <1>8. t = hook + prog[k].to
    BY <1>4, <1>18 DEF TargetOf
  <1>9. CASE op = "prfm" /\ Gap(a, Rest(k))
    <2>1. Rest(k) \in Int
      <3>1. k + 1 \in 1..(count + 1) /\ Rest(k) = At(k + 1)
        BY <1>2, CompleteFacts
      <3>2. PICK m \in 1..(count + 1) : m = k + 1
        BY <3>1
      <3>3. At(m) \in Int
        BY CompleteFacts
      <3> QED BY <3>1, <3>2, <3>3
    <2>2. Gap(s, Rest(k))
      BY <1>5, <1>9, <2>1, GapAgain
    <2>3. Stands(s, next)
      BY <1>5, <1>6, <2>2
    <2> QED BY <1>4, <1>18, <1>9, <2>3 DEF SameEffect
  <1>10. CASE op = "plain" /\ Holds(a, Word("plain", k)) /\ Gap(a + 1, Rest(k))
    <2>1. InTramp(a) /\ WordAt(a) = Word("plain", k) /\ WordAt(a).op # "nop"
      BY <1>10 DEF Holds, Word
    <2>2. SkipNops(s) = a
      BY <1>7, <1>10, <2>1
    <2>3. Reaches(a + 1, next)
      BY <1>10, <1>17
    <2> QED BY <1>4, <1>18, <1>10, <2>1, <2>2, <2>3 DEF SameEffect
  <1>11. CASE op \in PcRelative \ Literals /\ Goes(k, a) /\ Gap(a + 1, Rest(k))
    <2>1. /\ InTramp(a) /\ WordAt(a).op = op
          /\ \E d \in Int, b \in Int : WordAt(a).to = d /\ b = a + d /\ Stands(b, t) /\ Reaches(b, t)
      BY <1>4, <1>18, <1>5, <1>11, GoesThere
    <2>2. PICK d \in Int, b \in Int :
            WordAt(a).to = d /\ b = a + d /\ Stands(b, t) /\ Reaches(b, t)
      BY <2>1
    <2>3. SkipNops(s) = a
      BY <1>7, <1>11, <2>1 DEF PcRelative, Branches, Conditional, Addresses
    <2>4. Reaches(a + 1, next)
      BY <1>11, <1>17
    <2>5. CASE op = "b"
      <3>1. Reaches(a, t)
        BY <1>5, <2>1, <2>2, <2>5, BranchReaches
      <3> QED BY <1>4, <1>18, <1>8, <2>1, <2>3, <2>5, <3>1 DEF SameEffect
    <2>6. CASE op = "bl"
      <3>1. Reaches(a + WordAt(a).to, t)
        BY <2>2
      <3> QED BY <1>4, <1>18, <1>8, <2>1, <2>3, <2>4, <2>6, <3>1 DEF SameEffect
    <2>7. CASE op \in Conditional
      <3>1. Reaches(a + WordAt(a).to, t) /\ op # "prfm"
        BY <2>2, <2>7 DEF Conditional
      <3> QED BY <1>4, <1>18, <1>8, <2>1, <2>3, <2>4, <2>7, <3>1 DEF SameEffect
    <2>8. CASE op \in Addresses
      <3>1. Stands(a + WordAt(a).to, t)
        BY <2>2
      <3> QED BY <1>4, <1>18, <1>8, <2>1, <2>3, <2>4, <2>8, <3>1 DEF SameEffect, Addresses
    <2> QED BY <1>11, <2>5, <2>6, <2>7, <2>8 DEF PcRelative, Branches
  <1>12. CASE op = "b" /\ ~InFixingRange(t) /\ Holds(a, Word("jump", t))
    <2>1. InTramp(a) /\ WordAt(a).op # "nop"
      BY <1>12 DEF Holds, Word
    <2>2. SkipNops(s) = a
      BY <1>7, <1>12, <2>1
    <2>3. Reaches(a, t)
      BY <1>5, <1>12, JumpReaches
    <2> QED BY <1>4, <1>18, <1>8, <1>12, <2>1, <2>2, <2>3 DEF SameEffect
  <1>13. CASE op = "bl" /\ ~InFixingRange(t) /\ Holds(a, Word("call", t)) /\ Gap(a + 5, Rest(k))
    <2>1. InTramp(a) /\ WordAt(a).op = "call" /\ WordAt(a).to = t
      BY <1>13 DEF Holds, Word
    <2>2. SkipNops(s) = a
      BY <1>7, <1>13, <2>1
    <2>3. Reaches(t, t)
      BY <1>13, StandsThere
    <2>4. Reaches(a + 5, next)
      BY <1>13, <1>17
    <2> QED BY <1>4, <1>18, <1>8, <1>13, <2>1, <2>2, <2>3, <2>4 DEF SameEffect
  <1>14. CASE /\ op \in Conditional /\ ~InFixingRange(t)
              /\ Holds(a, Word(op, 2)) /\ Holds(a + 1, Word("b", 5)) /\ Holds(a + 2, Word("jump", t))
              /\ Gap(a + 6, Rest(k))
    <2>1. InTramp(a) /\ WordAt(a).op = op /\ WordAt(a).to = 2 /\ op \notin {"nop", "prfm"}
      BY <1>14 DEF Holds, Word, Conditional
    <2>2. SkipNops(s) = a
      BY <1>7, <2>1
    <2>3. Reaches(a + 2, t)
      <3>1. PICK c \in Int : c = a + 2
        BY <1>5
      <3>2. Reaches(c, t)
        BY <1>14, <3>1, JumpReaches
      <3> QED BY <3>1, <3>2
    <2>4. Reaches(a + 1, next)
      <3>1. PICK c \in Int, b \in Int : c = a + 1 /\ b = c + 5 /\ b = a + 6
        BY <1>5
      <3>2. InTramp(c) /\ WordAt(c).op = "b" /\ WordAt(c).to = 5
        BY <1>14, <3>1 DEF Holds, Word
      <3>3. place.tramp <= b
        BY <1>2, <1>5, <3>1
      <3>4. Stands(b, next)
        BY <1>6, <1>14, <3>1, <3>3
      <3>5. Reaches(c, next)
        BY <3>1, <3>2, <3>4, BranchReaches
      <3> QED BY <3>1, <3>5
    <2>5. Reaches(a + WordAt(a).to, t)
      BY <2>1, <2>3
    <2> QED BY <1>4, <1>18, <1>8, <1>14, <2>1, <2>2, <2>4, <2>5 DEF SameEffect
  <1>15. CASE /\ op \in Literals
              /\ Holds(a, Word(op, 2)) /\ Holds(a + 1, Word("b", LiteralWords[op] + 1))
              /\ \A m \in 0..(LiteralWords[op] - 1) : Holds(a + 2 + m, Word("value", t + m))
              /\ Gap(a + 2 + LiteralWords[op], Rest(k))
    <2>1. InTramp(a) /\ WordAt(a).op = op /\ WordAt(a).to = 2 /\ op \notin {"nop", "prfm"}
      BY <1>15 DEF Holds, Word, Literals
    <2>2. SkipNops(s) = a
      BY <1>7, <2>1
    <2>3. PICK n \in {1, 2, 4} : n = LiteralWords[op]
      BY <1>15 DEF Literals, LiteralWords
    <2>4. Loads(a + 2, t, n)
      <3>1. \A m \in 0..(n - 1) : InTramp(a + 2 + m) /\ WordAt(a + 2 + m) = Word("value", t + m)
        BY <1>15, <2>3 DEF Holds
      <3>2. InTramp(a + 2)
        <4>1. 0 \in 0..(n - 1) /\ a + 2 + 0 = a + 2
          BY <1>5
        <4> QED BY <3>1, <4>1
      <3> QED BY <3>1, <3>2 DEF Loads
    <2>5. Reaches(a + 1, next)
      <3>1. PICK c \in Int, b \in Int : c = a + 1 /\ b = c + (n + 1) /\ b = a + 2 + n
        BY <1>5
      <3>2. InTramp(c) /\ WordAt(c).op = "b" /\ WordAt(c).to = n + 1
        BY <1>15, <2>3, <3>1 DEF Holds, Word
      <3>3. place.tramp <= b
        BY <1>2, <1>5, <3>1
      <3>4. Stands(b, next)
        BY <1>6, <1>15, <2>3, <3>1, <3>3
      <3>5. n + 1 \in Int
        OBVIOUS
      <3>6. Reaches(c, next)
        BY <3>1, <3>2, <3>4, <3>5, BranchReaches
      <3> QED BY <3>1, <3>6
    <2>6. Loads(a + WordAt(a).to, t, LiteralWords[op])
      BY <2>1, <2>3, <2>4
    <2> QED BY <1>4, <1>18, <1>8, <1>15, <2>1, <2>2, <2>5, <2>6 DEF SameEffect
  <1>16. CASE /\ op \in Addresses \cup {"adrp"} /\ Holds(a, Word("set", ByteAt(k)))
              /\ Holds(a + 1, Word("b", 3)) /\ Gap(a + 4, Rest(k))
    <2>1. /\ InTramp(a) /\ WordAt(a) = Word("set", ByteAt(k))
          /\ WordAt(a).op # "nop" /\ op # "prfm"
      BY <1>16 DEF Holds, Word, Addresses
    <2>2. SkipNops(s) = a
      BY <1>7, <2>1
    <2>3. Reaches(a + 1, next)
      <3>1. PICK c \in Int, b \in Int : c = a + 1 /\ b = c + 3 /\ b = a + 4
        BY <1>5
      <3>2. InTramp(c) /\ WordAt(c).op = "b" /\ WordAt(c).to = 3
        BY <1>16, <3>1 DEF Holds, Word
      <3>3. place.tramp <= b
        BY <1>2, <1>5, <3>1
      <3>4. Stands(b, next)
        BY <1>6, <1>16, <3>1, <3>3
      <3>5. Reaches(c, next)
        BY <3>1, <3>2, <3>4, BranchReaches
      <3> QED BY <3>1, <3>5
    <2>4. CASE op \in Addresses
      <3>1. WordAt(a) = Word("set", 4 * t + Low[op])
        BY <1>4, <1>18, <2>1, <2>4 DEF ByteAt, ByteOf, Addresses
      <3> QED BY <1>4, <1>18, <1>8, <2>1, <2>2, <2>3, <2>4, <3>1 DEF SameEffect
    <2>5. CASE op = "adrp"
      <3>1. WordAt(a) = Word("set", 4 * (PageOf(hook + k - 1) + prog[k].to * PageSize))
        BY <1>4, <1>18, <2>1, <2>5 DEF ByteAt, PageAt
      <3> QED BY <1>4, <1>18, <2>1, <2>2, <2>3, <2>5, <3>1 DEF SameEffect
    <2> QED BY <1>16, <2>4, <2>5
  <1> QED BY <1>1, <1>4, <1>18, <1>9, <1>10, <1>11, <1>12, <1>13, <1>14, <1>15, <1>16 DEF Effect

\* Every literal of a trampoline, and of a patch, is aligned at every moment.
LEMMA AlignedAlways ==
  ASSUME RelocInv, EffectInv
  PROVE  LiteralsAligned
  <1>1. Alignments /\ place.tramp \in Int /\ out \in Seq(Words)
    BY PlaceTyped DEF EffectInv, RelocInv, TypeOK
  <1>2. Aligned(place.tramp, out)
    BY <1>1 DEF Alignments, Aligned, Sits
  <1>3. ASSUME NEW q \in DOMAIN out, out[q].op = "ldrq", out[q].to = 2
        PROVE  (place.tramp + q + 1) % 4 = 0
    <2>1. Sits(place.tramp + q - 1, out[q])
      BY <1>1 DEF Alignments
    <2>2. place.tramp + q - 1 + 2 = place.tramp + q + 1
      <3>1. q \in Int
        BY <1>1
      <3> QED BY <1>1, <3>1
    <2> QED BY <1>3, <2>1, <2>2 DEF Sits
  <1> QED BY <1>1, <1>2, <1>3 DEF Alignments, LiteralsAligned

\* The jump back leads behind the overwritten code.
LEMMA ComesBack ==
  ASSUME Complete
  PROVE  LET p == SkipNops(ins[count + 1])
         IN \/ WordAt(p) = Word("jump", hook + count)
            \/ WordAt(p).op = "b" /\ p + WordAt(p).to = hook + count
  <1>1. /\ count \in 1..MaxInstructions /\ place.tramp \in Int /\ End \in Int
        /\ ins[count + 1] \in Row
    BY CompleteFacts
  <1>2. PICK s \in Int : s = ins[count + 1]
    BY <1>1 DEF Row
  <1>3. At(count + 1) = s
    BY <1>1, <1>2 DEF At
  <1>4. place.tramp <= s
    BY <1>1, <1>2 DEF Row
  <1>5. GoesBack /\ kind # "replace" /\ phase # "relocate"
    BY DEF Complete, EffectInv
  <1>6. PICK a \in Row :
          /\ Gap(s, a) /\ InTramp(a)
          /\ \/ WordAt(a) = Word("jump", hook + count)
             \/ WordAt(a).op = "b" /\ a + WordAt(a).to = hook + count
    BY <1>3, <1>5 DEF GoesBack
  <1>7. a \in Int /\ WordAt(a).op # "nop"
    BY <1>1, <1>6 DEF Row, Word
  <1>8. SkipNops(s) = a
    BY <1>1, <1>4, <1>6, <1>7, SkipsGap
  <1> QED BY <1>2, <1>6, <1>8

\* The entry of an inline hook leads to the second instruction, when the first
\* is one word.
LEMMA EntryReplacesOne ==
  ASSUME Complete
  PROVE  InlineReplacesOne
  <1> SUFFICES ASSUME kind = "inline", ins[2] = place.tramp + 1
               PROVE  Reaches(entry, hook + 1)
    BY DEF InlineReplacesOne
  <1>1. /\ count \in 1..MaxInstructions /\ place.tramp \in Int /\ hook \in Int
    BY CompleteFacts
  <1>2. PICK e \in Int : e = place.tramp + 1
    BY <1>1
  <1>3. entry = e
    BY <1>2 DEF Complete, EffectInv, EntryBehind
  <1>4. At(2) = e
    <2>1. e \in Row
      BY <1>1, <1>2 DEF Row, TrampolineSize, MaxInstructions
    <2> QED BY <1>2, <2>1 DEF At
  <1>5. 1 \in 1..count /\ 2 \in 1..(count + 1) /\ Rest(1) = At(2)
    <2>1. 1 \in 1..count /\ 2 \in 1..(count + 1)
      BY <1>1
    <2>2. Rest(1) = At(1 + 1)
      BY <2>1, CompleteFacts
    <2> QED BY <2>1, <2>2
  <1>6. Gap(e, Rest(1))
    BY <1>4, <1>5, GapNone
  <1>7. place.tramp <= e
    BY <1>1, <1>2
  <1> QED BY <1>3, <1>5, <1>6, <1>7, StandsNext

\* An installed hook runs the overwritten code as the original.
LEMMA RunsAlike ==
  ASSUME RelocInv, EffectInv
  PROVE  RunsLikeOriginal
  <1>1. ASSUME phase = "done", kind # "replace", Supported
        PROVE  /\ \A k \in 1..count : SameEffect(k)
               /\ LET p == SkipNops(ins[count + 1])
                  IN \/ WordAt(p) = Word("jump", hook + count)
                     \/ WordAt(p).op = "b" /\ p + WordAt(p).to = hook + count
               /\ InlineReplacesOne
    <2>1. Complete
      BY <1>1 DEF Complete
    <2> QED BY <2>1, EffectSame, ComesBack, EntryReplacesOne
  <1> QED BY <1>1, AlignedAlways DEF RunsLikeOriginal

\* Calling the trampoline of any hook, wherever its row and its callback lie and
\* whatever supported code it overwrites, runs that code with the targets and
\* operands it had and goes on behind it (__fix_instructions of hook_impl.cpp);
\* its literals are aligned, and an inline hook (inline_impl.cpp) replaces just
\* the hooked instruction.
THEOREM TrampolinesRunLikeOriginal == Spec => []RunsLikeOriginal
  <1>1. RelocInv /\ EffectInv => RunsLikeOriginal
    BY RunsAlike
  <1> QED BY <1>1, Invariance, EffectInvariance, PTL

=============================================================================
