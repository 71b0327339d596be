------------------------------ MODULE Relocation ------------------------------
(***************************************************************************)
(* The installation of one hook: HookFuncImpl and the relocation of the    *)
(* overwritten instructions into a trampoline                              *)
(* (src/common/exlaunch/hook/nx64/hook_impl.cpp), and the entry that an    *)
(* inline hook puts before its callback (inline_impl.cpp).                 *)
(*                                                                         *)
(* Addresses count instructions (4 bytes).  An instruction is what it does *)
(* to control and to PC-relative operands: its op and its target, given    *)
(* relative to the hooked address.  An ADR computes the address of a byte: *)
(* its op says how far behind the start of the word to.  A word is one     *)
(* emitted instruction; to is its encoded displacement or, in the words    *)
(* that stand for a sequence ending in a literal, the address in that      *)
(* literal, of an instruction for "jump" and "call", of a byte for "set".  *)
(***************************************************************************)
EXTENDS Integers, Sequences

CONSTANTS
  Places,        \* [hook, tramp, callback]: where a hook may be installed
  Kinds,         \* the kinds of hooks there: "replace", "trampoline", "inline"
  Code,          \* [op, to]: what the code there may consist of
  Half,          \* op -> half the range of its displacement
  Wrap,          \* 2^32 bytes: where 32-bit displacements wrap
  PageSize,      \* instructions in a page
  RwDelta        \* distance of the writable mapping of the trampoline

MaxInstructions == 5
\* Mutant: too short a row for instructions that relocate to nine words.
ShortTrampoline == MaxInstructions * 8
TrampolineSize  == MaxInstructions * 10

Literals    == {"ldrw", "ldrx", "ldrd", "ldrq"}
Branches    == {"b", "bl"}
Conditional == {"cond", "test"}
\* lsb_bytes, the low bits of the address that an ADR computes.
Low         == [adr |-> 0, adr1 |-> 1, adr2 |-> 2, adr3 |-> 3]
Addresses   == {"adr", "adr1", "adr2", "adr3"}
PcRelative  == Branches \cup Conditional \cup Literals \cup Addresses
Ops         == PcRelative \cup {"adrp", "prfm", "plain"}

ASSUME RelocationAssumption ==
  /\ Places \subseteq [hook : Int, tramp : Int, callback : Int]
  /\ Kinds \in [Places -> SUBSET {"replace", "trampoline", "inline"}]
  /\ Code \in [Places -> SUBSET [op : Ops, to : Int]]
  /\ Half \in [PcRelative -> Nat \ {0}]
  /\ Wrap \in Nat \ {0} /\ PageSize \in Nat \ {0}
  /\ RwDelta \in Int

\* A row of the hook pool is shorter than the range of every displacement and lies
\* apart from the hooked code and from its own second mapping.  32 bits hold every
\* displacement that an instruction encodes, in words or, for an ADRP, in pages.
ASSUME RangesAssumption ==
  /\ \A op \in PcRelative : TrampolineSize < Half[op] /\ Half[op] <= Wrap
  /\ RwDelta \notin (-TrampolineSize)..TrampolineSize
  /\ \A p \in Places, k \in 0..MaxInstructions :
       p.hook + k \notin p.tramp..(p.tramp + TrampolineSize)
  /\ \A p \in Places : \A i \in Code[p] : i.op = "adrp" => i.to * PageSize < Wrap

Instructions == UNION {Code[p] : p \in Places}

VARIABLES
  place,    \* the addresses of this hook
  kind,     \* "replace" has no trampoline; "inline" has an entry
  phase,    \* where HookFuncImpl is
  prog,     \* the instructions relocated so far
  out,      \* the trampoline
  ins,      \* where each relocated instruction starts: ContextInfo.dat[].ins
  fixes,    \* words that wait for the address of an instruction: dat[].fmap
  patched,  \* what replaced the hooked code
  entry     \* target of the last branch of the inline entry

vars == <<place, kind, phase, prog, out, ins, fixes, patched, entry>>

hook  == place.hook
Here  == place.tramp + Len(out)    \* *outprx
Input == hook + Len(prog)          \* *inprx
Index == Len(prog) + 1

Abs(d) == IF d < 0 THEN -d ELSE d

\* What the CPU makes of the displacement d in the immediate field of op.
Encoded(op, d) == ((d + Half[op]) % (2 * Half[op])) - Half[op]

CallbackFar == Abs(place.callback - hook) >= Half["b"] - 1

\* Mutant: the NOP before a misaligned literal is forgotten.
countFour == IF ~CallbackFar THEN 1 ELSE 4
\* Far hooks overwrite four words, five when the literal would be misaligned.
count == IF ~CallbackFar THEN 1 ELSE IF hook % 2 = 0 THEN 4 ELSE 5

InFixingRange(a) == a \in hook..(hook + count - 1)
RefIndex(a)      == a - hook + 1

Word(op, to) == [op |-> op, to |-> to]
Nop          == Word("nop", 0)
Data         == Word("data", 0)
Nops(n)      == [k \in 1..n |-> Nop]

\* Mutant: no alignment.
PaddingNone(a, k, n) == 0
\* NOPs before the word at a, so that the word k later is aligned to n words.
Padding(a, k, n) == (0 - (a + k)) % n

Jump(to) == <<Word("jump", to), Data, Data, Data>>  \* LDR X17, #8; BR X17

-----------------------------------------------------------------------------
Init ==
  /\ place \in Places
  /\ kind \in Kinds[place]
  /\ phase = IF kind = "replace" THEN "patch" ELSE "relocate"
  /\ prog = <<>> /\ out = <<>> /\ ins = <<>>
  /\ fixes = [k \in 1..MaxInstructions |-> {}]
  /\ patched = <<>>
  /\ entry = 0

\* Mutant: process_fix_map is not called.
FixedNever(words, start) == words
\* process_fix_map: the words that wait for the current instruction get the
\* displacement to where it starts.
Fixed(words, start) ==
  [q \in DOMAIN words |->
     IF q \in fixes[Index]
     THEN Word(words[q].op, Encoded(words[q].op, start - (place.tramp + q - 1)))
     ELSE words[q]]

\* Instruction i becomes words, and references to it lead to start.
Emit(i, start, words) ==
  /\ prog' = Append(prog, i)
  /\ ins' = Append(ins, start)
  /\ out' = Fixed(out \o words, start)
  /\ UNCHANGED <<place, kind, phase, patched, entry>>

\* Mutant: the fix is noted after the output pointer has moved.
WaitingWordNext == Len(out) + 2
\* The word that waits for an instruction still to come.
WaitingWord == Len(out) + 1

\* One word with a displacement: to a relocated instruction, to one still to
\* come, which leaves a fix, or to an address outside the overwritten code.
EmitNear(i, target) ==
  LET back == InFixingRange(target) /\ RefIndex(target) < Index
      self == InFixingRange(target) /\ RefIndex(target) = Index
      ahead == InFixingRange(target) /\ RefIndex(target) > Index
      d == CASE back -> ins[RefIndex(target)] - Here
             [] self \/ ahead -> 0
             [] OTHER -> target - Here
  IN /\ Emit(i, Here, <<Word(i.op, Encoded(i.op, d))>>)
     /\ fixes' = IF ahead
                 THEN [fixes EXCEPT ![RefIndex(target)] = @ \cup {WaitingWord}]
                 ELSE fixes

\* __fix_branch_imm
RelocateBranch(i) ==
  LET target == hook + i.to
      far == ~InFixingRange(target) /\ Abs(target - Here) >= Half[i.op] - 1
      pad == Padding(Here, IF i.op = "b" THEN 2 ELSE 3, 2)
      call == <<Word("call", target), Data, Data, Data, Data>>
  IN /\ i.op \in Branches
     /\ \/ far /\ UNCHANGED fixes
           /\ Emit(i, Here + pad, Nops(pad) \o (IF i.op = "b" THEN Jump(target) ELSE call))
        \/ ~far /\ EmitNear(i, target)

\* Only B and BL get a signed displacement: the field of a conditional branch is
\* shifted without its sign, and "& ~3u" makes the others unsigned 32-bit values.
Read(i) == Input + ((hook + i.to - Input)
                      % (IF i.op \in Conditional THEN 2 * Half[i.op] ELSE Wrap))

\* __fix_cond_comp_test_branch
RelocateConditional(i) ==
  LET target == Read(i)
      far == ~InFixingRange(target) /\ Abs(target - Here) >= Half[i.op] - 1
      pad == Padding(Here, 4, 2)
  IN /\ i.op \in Conditional
     /\ \/ far /\ UNCHANGED fixes
           /\ Emit(i, Here, Nops(pad) \o <<Word(i.op, 2), Word("b", 5)>> \o Jump(target))
        \/ ~far /\ EmitNear(i, target)

\* LDR W, LDR X and LDRSW, and LDR of a D or Q register.
LiteralWords == [ldrw |-> 1, ldrx |-> 2, ldrd |-> 2, ldrq |-> 4]

\* __fix_loadlit: a literal out of reach, or about to be overwritten, is copied.
\* In a near load that ends up after its literal the sign runs into the bits of
\* the size, which only 64-bit general registers survive.
RelocateLiteral(i) ==
  LET target == Read(i)
      n == LiteralWords[i.op]
      copied == InFixingRange(target) \/ Abs(target - Here) + n - 1 >= Half[i.op] - 1
      pad == IF copied THEN Padding(Here, 2, n) ELSE (target - Here) % n
      d == target - (Here + pad)
      value == [k \in 1..n |-> Word("value", target + k - 1)]
  IN /\ i.op \in Literals
     /\ Emit(i, Here + pad,
             Nops(pad) \o IF copied
                          THEN <<Word(i.op, 2), Word("b", n + 1)>> \o value
                          ELSE <<Word(IF d < 0 /\ i.op # "ldrx" THEN "badload" ELSE i.op, Encoded(i.op, d))>>)
     /\ UNCHANGED fixes

\* LDR Xd, #8; B #0xc; the address.
SetRegister(byte) == <<Word("set", byte), Word("b", 3), Data, Data>>

\* __fix_pcreladdr, ADR.  The new displacement is shifted with its low bits, which
\* the register number behind it gets too, unless it has them already.
RelocateAddress(i) ==
  LET target == Read(i)
      offset == 4 * (target - Here) + Low[i.op]
      far == ~InFixingRange(target) /\ Abs(offset) >= 4 * Half[i.op] - 1
      spills == ~InFixingRange(target) /\ Low[i.op] # 0
      pad == Padding(Here, 2, 2)
  IN /\ i.op \in Addresses
     /\ \/ far /\ UNCHANGED fixes
           /\ Emit(i, Here + pad, Nops(pad) \o SetRegister(4 * target + Low[i.op]))
        \/ ~far /\ ~spills /\ EmitNear(i, target)
        \/ ~far /\ spills /\ UNCHANGED fixes
           /\ \E op \in {i.op, "badadr"} :
                Emit(i, Here, <<Word(op, Encoded(i.op, target - Here))>>)

PageOf(a) == a - (a % PageSize)

\* __fix_pcreladdr, ADRP; to counts pages.  An ADRP that needs no padding keeps
\* the address of the writable mapping as its start.
RelocatePage(i) ==
  LET page == PageOf(Input) + ((i.to * PageSize) % Wrap)
      pad == Padding(Here, 2, 2)
  IN /\ i.op = "adrp"
     /\ \/ /\ InFixingRange(page)
           /\ Emit(i, Here + RwDelta, <<Word("adrp", i.to)>>)
        \/ /\ ~InFixingRange(page)
           /\ Emit(i, IF pad = 0 THEN Here + RwDelta ELSE Here + pad, Nops(pad) \o SetRegister(4 * page))
     /\ UNCHANGED fixes

\* A prefetch is dropped, an instruction without PC-relative operand copied.
Copy(i) ==
  /\ i.op \in {"prfm", "plain"}
  /\ Emit(i, Here, IF i.op = "plain" THEN <<Word("plain", Index)>> ELSE <<>>)
  /\ UNCHANGED fixes

\* The hooked code can only hold displacements that its instructions encode.
Encodable(i) ==
  i.op \in PcRelative => hook + i.to - Input \in -Half[i.op]..(Half[i.op] - 1)

\* One turn of the loop of __fix_instructions.
Relocate(i) ==
  /\ phase = "relocate"
  /\ Len(prog) < count
  /\ Encodable(i)
  /\ \/ RelocateBranch(i)
     \/ RelocateConditional(i)
     \/ RelocateLiteral(i)
     \/ RelocateAddress(i)
     \/ RelocatePage(i)
     \/ Copy(i)

\* Mutant: the trampoline ends with a jump to the hook itself.
ReturnJumpToHook ==
  /\ phase = "relocate"
  /\ Len(prog) = count
  /\ out' = out \o Jump(hook)
  /\ ins' = Append(ins, Here)
  /\ phase' = "patch"
  /\ UNCHANGED <<place, kind, prog, fixes, patched, entry>>

\* The end of __fix_instructions: back to the code that was not overwritten.
ReturnJump ==
  /\ phase = "relocate"
  /\ Len(prog) = count
  /\ LET d == Input - Here
     IN out' = out \o IF Abs(d) >= Half["b"] - 1
                      THEN Nops(Padding(Here, 2, 2)) \o Jump(Input)
                      ELSE <<Word("b", d)>>
  /\ ins' = Append(ins, Here)
  /\ phase' = "patch"
  /\ UNCHANGED <<place, kind, prog, fixes, patched, entry>>

\* HookFuncImpl overwrites the hooked code.
Patch ==
  /\ phase = "patch"
  /\ patched' = IF CallbackFar
                THEN Nops(Padding(hook, 2, 2)) \o Jump(place.callback)
                ELSE <<Word("b", place.callback - hook)>>
  /\ phase' = IF kind = "inline" THEN "entry" ELSE "done"
  /\ UNCHANGED <<place, kind, prog, out, ins, fixes, entry>>

\* Mutant: the displacement is taken from the fourth word.
WriteEntryExact ==
  /\ phase = "entry"
  /\ entry' = place.tramp
  /\ phase' = "done"
  /\ UNCHANGED <<place, kind, prog, out, ins, fixes, patched>>

\* HookInline: save LR, call the implementation, restore LR, and, in the fourth
\* word, branch with the displacement from the third to the trampoline.
WriteEntry ==
  /\ phase = "entry"
  /\ entry' = (place.callback + 3) + (place.tramp - (place.callback + 2))
  /\ phase' = "done"
  /\ UNCHANGED <<place, kind, prog, out, ins, fixes, patched>>

Next ==
  \/ \E i \in Code[place] : Relocate(i)
  \/ ReturnJump
  \/ Patch
  \/ WriteEntry

Spec == Init /\ [][Next]_vars

-----------------------------------------------------------------------------
(* What the trampoline does when it runs. *)

End      == place.tramp + Len(out) - 1
InTramp(a) == a \in place.tramp..End
WordAt(a)  == out[a - place.tramp + 1]

\* The first word from a that does something.
SkipNops(a) ==
  LET S == {b \in a..End : InTramp(b) /\ WordAt(b).op # "nop"}
  IN IF S = {} THEN a ELSE CHOOSE b \in S : \A c \in S : b <= c

\* Where instruction k starts, whichever mapping ins has noted for it; ins ends
\* with the start of the jump back.
Start(k) == IF InTramp(ins[k]) THEN ins[k] ELSE ins[k] - RwDelta

\* Control at a does what the original code does from t on.
Stands(a, t) ==
  IF InFixingRange(t) \/ (t = hook + count /\ InTramp(a))
  THEN SkipNops(a) = SkipNops(Start(RefIndex(t)))
  ELSE a = t

\* The same, through one branch of the relocation.
Reaches(a, t) ==
  \/ Stands(a, t)
  \/ /\ InTramp(a)
     /\ LET w == WordAt(SkipNops(a))
        IN \/ w.op = "b" /\ Stands(SkipNops(a) + w.to, t)
           \/ w.op = "jump" /\ Stands(w.to, t)

\* The literal of n words from t is loaded, not one that will be overwritten.
Loads(a, t, n) ==
  IF InTramp(a) THEN \A k \in 0..(n - 1) : InTramp(a + k) /\ WordAt(a + k) = Word("value", t + k)
                ELSE a = t /\ ~InFixingRange(t)

\* The relocated instruction k does what it did at its old address.
SameEffect(k) ==
  LET i == prog[k]
      target == hook + i.to
      next == hook + k
      p == SkipNops(Start(k))
      w == WordAt(p)
  IN \/ i.op = "prfm" /\ Stands(Start(k), next)
     \/ /\ i.op # "prfm" /\ InTramp(p)
        /\ \/ i.op = "plain" /\ w = Word("plain", k) /\ Reaches(p + 1, next)
           \/ i.op = "b" /\ Reaches(p, target)
           \/ /\ i.op = "bl"
              /\ \/ w.op = "bl" /\ Reaches(p + w.to, target) /\ Reaches(p + 1, next)
                 \/ w.op = "call" /\ Reaches(w.to, target) /\ Reaches(p + 5, next)
           \/ /\ i.op \in Conditional /\ w.op = i.op
              /\ Reaches(p + w.to, target) /\ Reaches(p + 1, next)
           \/ /\ i.op \in Literals /\ w.op = i.op
              /\ Loads(p + w.to, target, LiteralWords[i.op]) /\ Reaches(p + 1, next)
           \/ /\ i.op \in Addresses /\ Reaches(p + 1, next)
              /\ \/ w.op = i.op /\ Stands(p + w.to, target)
                 \/ w = Word("set", 4 * target + Low[i.op])
           \/ /\ i.op = "adrp" /\ Reaches(p + 1, next)
              /\ w = Word("set", 4 * (PageOf(hook + k - 1) + i.to * PageSize))

\* The hooked code that the relocation is made for: operands other than those of
\* B and BL lie ahead, an ADRP is neither of an overwritten page nor the target
\* of another instruction, and literals are far from the trampoline, as are the
\* bytes within a word that an ADR outside the overwritten code computes.
Supported ==
  \A k \in DOMAIN prog :
    LET i == prog[k]
        target == hook + i.to
    IN /\ i.op \in PcRelative \ Branches => target >= hook + k - 1
       /\ i.op = "adrp" => i.to >= 0 /\ ~InFixingRange(PageOf(hook + k - 1) + i.to * PageSize)
       /\ i.op \in PcRelative /\ InFixingRange(target) /\ RefIndex(target) \in DOMAIN prog
            => prog[RefIndex(target)].op # "adrp"
       /\ i.op \in Literals \/ (i.op \in Addresses /\ Low[i.op] # 0 /\ ~InFixingRange(target))
            => Abs(target - place.tramp) >= Half[i.op] + TrampolineSize

-----------------------------------------------------------------------------
(* Safety. *)

WordOps == Ops \cup {"nop", "jump", "call", "set", "data", "value", "badload", "badadr"}
Words   == [op : WordOps, to : Int]
Phases == {"relocate", "patch", "entry", "done"}
\* In particular, only words of the trampoline wait for a fix.
TypeOK ==
  /\ place \in Places /\ kind \in Kinds[place] /\ phase \in Phases
  /\ prog \in Seq(Instructions) /\ out \in Seq(Words) /\ patched \in Seq(Words)
  /\ ins \in Seq(Int) /\ entry \in Int
  /\ fixes \in [1..MaxInstructions -> SUBSET (1..Len(out))]

\* No instructions, wherever the trampoline lies, relocate to more words than a
\* row of the hook pool has: MaxInstructions * 10 is enough.
FitsTrampoline == Len(out) <= TrampolineSize

\* Every 8-byte literal of the trampoline and of the patched code is aligned, and
\* 16-byte ones too.
Aligned(at, words) ==
  \A q \in DOMAIN words :
    LET a == at + q - 1
    IN /\ words[q].op \in {"jump", "set"} => (a + 2) % 2 = 0
       /\ words[q].op = "call" => (a + 3) % 2 = 0
LiteralsAligned ==
  /\ Aligned(place.tramp, out)
  /\ Aligned(hook, patched)
  /\ \A q \in DOMAIN out :
       out[q].op = "ldrq" /\ q < Len(out) /\ out[q + 1].op = "b" /\ out[q].to = 2
         => (place.tramp + q + 1) % 4 = 0

\* After the callback of an inline hook, control goes on behind the hooked
\* instruction, which does not run: the callback replaces it.  That needs an
\* instruction whose relocation is one word.
InlineReplacesOne ==
  kind = "inline" /\ ins[2] = place.tramp + 1 => Reaches(entry, hook + 1)

\* Calling the trampoline of a hook runs the overwritten instructions with the
\* targets and operands they had, whatever their order, their references to each
\* other, and the NOPs put between them, and goes on behind them; every literal
\* that it reads on the way is aligned, and an inline hook replaces exactly the
\* hooked instruction.
RunsLikeOriginal ==
  /\ LiteralsAligned
  /\ phase = "done" /\ kind # "replace" /\ Supported =>
       /\ \A k \in 1..count : SameEffect(k)
       /\ LET p == SkipNops(ins[count + 1])
          IN \/ WordAt(p) = Word("jump", hook + count)
             \/ WordAt(p).op = "b" /\ p + WordAt(p).to = hook + count
       /\ InlineReplacesOne

\* The patch leads to the callback and overwrites no instruction that has not
\* been relocated.
HookLands ==
  patched # <<>> =>
    /\ Len(patched) <= count
    /\ LET k == IF patched[1].op = "nop" THEN 2 ELSE 1
       IN \/ patched[k] = Word("jump", place.callback) /\ Len(patched) = k + 3
          \/ patched[k].op = "b" /\ hook + k - 1 + patched[k].to = place.callback

\* What a hook writes is where it belongs, on both sides: the relocated code in
\* its row of the pool, the patch over instructions that were relocated.
HookFits == FitsTrampoline /\ HookLands

-----------------------------------------------------------------------------
(* Statements of comments in the code. *)

\* hook_impl.cpp:215, the operand of B.cond is an ADDR_PCREL19, relative to the
\* branch in either direction: a branch backwards keeps its target.
BackwardBranchKept ==
  phase = "done" /\ kind # "replace" =>
    \A k \in 1..count : prog[k].op \in Conditional => SameEffect(k)

=============================================================================
