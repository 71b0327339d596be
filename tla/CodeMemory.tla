----------------------------- MODULE CodeMemory -----------------------------
(***************************************************************************)
(* How the module finds the game's code in memory and writes to it         *)
(* (src/common/exlaunch/util/sys, patch and hook).                         *)
(*                                                                         *)
(* At boot FindModules walks over the memory map of the process.  Code is  *)
(* mapped without write access, so RwPages maps the pages of a piece of    *)
(* code a second time; for ever around the main module (patches) and the   *)
(* two pools of the hooks, and for the time of a hook around its target.   *)
(* Words that have been written are fetched only after a flush.            *)
(*                                                                         *)
(* Addresses count words of four bytes.  One thread does all of this.      *)
(***************************************************************************)
EXTENDS Integers, Sequences, FiniteSets

CONSTANTS
  PageSize,     \* words of a page
  Maps,         \* memory maps: sequences of ranges [addr, size, kind]
  AddressSpace, \* words of the address space
  MaxModules,   \* s_MaxModules
  SelfIdx,      \* our own module is the one at this place of the map's modules
  RwSpace,      \* pages that virtmemFindAslr may hand out
  HookJitAt, InlineJitAt, \* where the pools begin in our module's text
  JitSize, InlinePoolSize,
  TrampolineSize, EntrySize, \* sizes of a row and of an Entry
  PatchOffsets, \* words of the main module that features patch
  HookOffsets,  \* words of the main module where features install hooks
  MaxHooks,     \* bound: hooks that are installed
  None

VARIABLES
  map,      \* the memory map
  pc,       \* what the thread does
  info,     \* FindModules, ForEachMemRange: the range that was queried last
  state,    \* FindModules: state
  cur,      \* FindModules: curModInfo
  found,    \* s_ModuleInfos up to s_ModuleCount
  self,     \* s_SelfModuleIdx
  claims,   \* m_Claim of each RwPages
  who,      \* the RwPages that is mapped or unmapped
  pages,    \* page table: <<page, page of the code that it shows>>
  hook,     \* the hook that is being installed
  rows,     \* rows of the pool handed out
  entries,  \* s_EntryIndex
  hooks,    \* number of hooks so far
  stream,   \* m_Start and m_Current of the CodePatcher of a feature
  written,  \* words of code that have been written to
  intended, \* history: words that were to be written
  stale     \* words that were written since they were last flushed

scanning == <<state, cur, found, self>>
mapping  == <<claims, who, pages>>
hooking  == <<hook, rows, entries, hooks>>
code     == <<written, intended, stale>>
vars == <<map, pc, info, scanning, mapping, hooking, stream, code>>

Ends(r)  == r.addr + r.size
Words(r) == r.addr .. Ends(r) - 1
Kinds    == {"rx", "r", "rw", "other"}
Owners   == {"patcher", "hookJit", "inlineJit", "ctrl"}
HookMax  == JitSize \div TrampolineSize
InlinePoolCount == InlinePoolSize \div EntrySize
Whole(a) == a % PageSize = 0

\* A memory map covers the address space in pages; its first range is not code.
IsMap(m) ==
  /\ Len(m) > 1 /\ m[1].addr = 0 /\ m[1].kind = "other" /\ Ends(m[Len(m)]) = AddressSpace
  /\ \A k \in 1..Len(m) : /\ m[k].addr \in Nat /\ m[k].size \in Nat \ {0}
                          /\ Whole(m[k].addr) /\ Whole(m[k].size) /\ m[k].kind \in Kinds
  /\ \A k \in 1..Len(m)-1 : m[k + 1].addr = Ends(m[k])

ASSUME MemoryAssumption ==
  /\ PageSize \in Nat \ {0} /\ AddressSpace \in Nat
  /\ \A m \in Maps : m \in Seq([addr : Nat, size : Nat, kind : Kinds]) /\ IsMap(m)
  /\ MaxModules \in Nat /\ SelfIdx \in Nat
  /\ RwSpace \subseteq Nat /\ \A p \in RwSpace : Whole(p)
  /\ HookJitAt \in Nat /\ InlineJitAt \in Nat /\ Whole(HookJitAt) /\ Whole(InlineJitAt)
  /\ JitSize \in Nat /\ InlinePoolSize \in Nat /\ Whole(JitSize) /\ Whole(InlinePoolSize)
  /\ TrampolineSize \in Nat \ {0} /\ EntrySize \in Nat \ {0}
  /\ PatchOffsets \subseteq Nat /\ HookOffsets \subseteq Nat /\ MaxHooks \in Nat
  /\ None \notin [ro : Nat, rw : Nat, size : Nat] /\ None \notin [start : Nat, current : Nat]

-----------------------------------------------------------------------------
(* The memory map.                                                         *)

\* The kernel's answer to svcQueryMemory(a); after the last address comes the first.
QueryMemory(a) == map[CHOOSE k \in 1..Len(map) : a % AddressSpace \in Words(map[k])]

\* What FindModules takes for a module: text, rodata and data side by side.
IsModule(m, k) ==
  /\ k \in 1..Len(m)-2
  /\ m[k].kind = "rx" /\ m[k + 1].kind = "r" /\ m[k + 2].kind = "rw"
ModuleAt(m, k) == [text |-> m[k], rodata |-> m[k + 1], data |-> m[k + 2],
                   total |-> [addr |-> m[k].addr, size |-> Ends(m[k + 2]) - m[k].addr]]
ModulesOf(m) == {k \in 1..Len(m) : IsModule(m, k)}
\* The address of __module_start.
ModuleStart(m) ==
  LET ours == {k \in ModulesOf(m) : Cardinality({j \in ModulesOf(m) : j < k}) = SelfIdx}
  IN  IF ours = {} THEN -1 ELSE m[CHOOSE k \in ours : TRUE].addr

NoRange  == [addr |-> 0, size |-> 0, kind |-> "other"]
NoModule == [text |-> NoRange, rodata |-> NoRange]

Init ==
  /\ map \in Maps
  /\ pc = "FindModules" /\ info = NoRange
  /\ state = "LookingForCodeStatic" /\ cur = NoModule /\ found = <<>> /\ self = -1
  /\ claims = [o \in Owners |-> None] /\ who = "patcher" /\ pages = {}
  /\ hook = None /\ rows = 0 /\ entries = 0 /\ hooks = 0
  /\ stream = None
  /\ written = {} /\ intended = {} /\ stale = {}

\* EXL_ABORT, a failed assertion or R_ABORT_UNLESS, an access to memory that is not
\* mapped: the process ends.
Abort ==
  /\ pc' = "aborted"
  /\ UNCHANGED <<map, info, scanning, mapping, hooking, stream, code>>

TooManyStaticModules ==
  /\ pc = "FindModules" /\ MaxModules <= Len(found)
  /\ Abort

\* One turn of the loop: the next range, "Exit once we've wrapped the address space".
Query ==
  /\ pc = "FindModules" /\ MaxModules > Len(found)
  /\ info' = QueryMemory(Ends(info))
  /\ pc' = IF info'.addr >= info.addr THEN pc ELSE "FoundModules"

Reset == state' = "LookingForCodeStatic" /\ cur' = NoModule

LookingForCodeStatic ==
  /\ state = "LookingForCodeStatic" /\ Query
  /\ IF info'.kind = "rx"
     THEN state' = "ExpectingRodata" /\ cur' = [cur EXCEPT !.text = info']
     ELSE UNCHANGED <<state, cur>>
  /\ UNCHANGED <<map, found, self, mapping, hooking, stream, code>>

\* Mutant: what is not rodata does not end the module.
ExpectingRodataLater ==
  /\ state = "ExpectingRodata" /\ Query
  /\ IF info'.kind = "r"
     THEN state' = "ExpectingData" /\ cur' = [cur EXCEPT !.rodata = info']
     ELSE UNCHANGED <<state, cur>>
  /\ UNCHANGED <<map, found, self, mapping, hooking, stream, code>>

ExpectingRodata ==
  /\ state = "ExpectingRodata" /\ Query
  /\ IF info'.kind = "r"
     THEN state' = "ExpectingData" /\ cur' = [cur EXCEPT !.rodata = info']
     ELSE Reset
  /\ UNCHANGED <<map, found, self, mapping, hooking, stream, code>>

\* Mutant: the module is counted before its index is taken.
SelfIsNext(start) == self' = IF start = ModuleStart(map) THEN Len(found) + 1 ELSE self

\* s_SelfModuleIdx is the index that the module is about to get.
SelfIs(start) == self' = IF start = ModuleStart(map) THEN Len(found) ELSE self

ExpectingData ==
  /\ state = "ExpectingData" /\ Query
  /\ IF info'.kind = "rw"
     THEN LET start == cur.text.addr
          IN  /\ found' = Append(found,
                   [text |-> cur.text, rodata |-> cur.rodata, data |-> info',
                    total |-> [addr |-> start, size |-> Ends(info') - start]])
              /\ SelfIs(start)
     ELSE UNCHANGED <<found, self>>
  /\ Reset
  /\ UNCHANGED <<map, mapping, hooking, stream, code>>

\* GetMainModuleInfo: the second module.
Main == found[2]
SelfText == found[self + 1].text.addr

-----------------------------------------------------------------------------
(* RwPages.  A claim is [ro, rw, size].                                    *)

AlignDown(a) == a - (a % PageSize)
AlignUp(a)   == AlignDown(a + PageSize - 1)
AlignedRo(c) == AlignDown(c.ro)
AlignedRw(c) == AlignDown(c.rw)
AlignedSize(c) == AlignUp(c.size)
PagesOf(a, size) == {p \in a .. a + size - 1 : Whole(p)}

\* virtmemAddReservation: the pages that a claim has reserved.
Reserved == UNION {PagesOf(AlignedRw(claims[o]), AlignedSize(claims[o])) :
                     o \in {o \in Owners : claims[o] # None}}

\* Mutant: no reservation is looked at.
UnreservedSpace(size) == {a \in RwSpace : PagesOf(a, size) \subseteq RwSpace}

\* Where virtmemFindAslr may put size words.
FreeSpace(size) == {a \in RwSpace : PagesOf(a, size) \subseteq RwSpace \ Reserved}

\* RwPages::RwPages up to the loop; m_Rw points to the same place of its page as m_Ro.
Construct(o, ro, size) ==
  /\ \E a \in FreeSpace(AlignUp(size)) :
       claims' = [claims EXCEPT ![o] = [ro |-> ro, size |-> size, rw |-> a + (ro - AlignDown(ro))]]
  /\ who' = o /\ pc' = "mapping"
  /\ info' = [NoRange EXCEPT !.addr = AlignDown(ro)]

\* What the callback of ForEachMemRange is called with for range r: the part of the
\* claim that lies in it, and the pages of the second mapping that belong to it.
Views(c, r) ==
  LET start   == AlignedRo(c)
      end     == start + AlignedSize(c)
      offset  == (IF r.addr > start THEN r.addr ELSE start) - start
      address == start + offset
      length  == (IF end < Ends(r) THEN end ELSE Ends(r)) - address
  IN  {<<AlignedRw(c) + offset + (p - address), p>> : p \in PagesOf(address, length)}

\* Mutant: the next query starts at the range, not behind it.
NextMemRangeStays(after) ==
  LET c == claims[who]
  IN  /\ info' = QueryMemory(info.addr)
      /\ pc' = IF Ends(info') < AlignedRo(c) + AlignedSize(c) THEN pc ELSE after

\* One turn of ForEachMemRange.
NextMemRange(after) ==
  LET c == claims[who]
  IN  /\ info' = QueryMemory(Ends(info))
      /\ pc' = IF Ends(info') < AlignedRo(c) + AlignedSize(c) THEN pc ELSE after

MapRange ==
  /\ pc = "mapping" /\ NextMemRange("mapped")
  /\ pages' = pages \cup Views(claims[who], info')
  /\ UNCHANGED <<map, scanning, claims, who, hooking, stream, code>>

\* Every word of a claim is seen through its second mapping.
Covers(c) ==
  \A w \in 0 .. c.size - 1 : <<AlignDown(c.rw + w), AlignDown(c.ro + w)>> \in pages

\* "Ensure the data at the different mapping is the same."
Constructed ==
  /\ pc = "mapped" /\ Covers(claims[who])
  /\ pc' = CASE who = "patcher"   -> "exl_main"
              [] who = "hookJit"   -> "InitializeInline"
              [] who = "inlineJit" -> "features"
              [] who = "ctrl"      -> "HookFuncImpl"
  /\ UNCHANGED <<map, info, scanning, mapping, hooking, stream, code>>

NotTheSame == pc = "mapped" /\ ~Covers(claims[who]) /\ Abort

\* RwPages::~RwPages: flush, unmap, free the reservation.
Destruct ==
  /\ pc = "~RwPages"
  /\ stale' = stale \ (claims[who].ro .. claims[who].ro + claims[who].size - 1)
  /\ pc' = "unmapping" /\ info' = [NoRange EXCEPT !.addr = AlignedRo(claims[who])]
  /\ UNCHANGED <<map, scanning, mapping, hooking, stream, written, intended>>

\* Mutant: every view of the code goes, those of other claims as well.
UnmapViewsOfCode ==
  /\ pc = "unmapping" /\ NextMemRange("unmapped")
  /\ pages' = {p \in pages : \A v \in Views(claims[who], info') : p[2] # v[2]}
  /\ UNCHANGED <<map, scanning, claims, who, hooking, stream, code>>

UnmapRange ==
  /\ pc = "unmapping" /\ NextMemRange("unmapped")
  /\ pages' = pages \ Views(claims[who], info')
  /\ UNCHANGED <<map, scanning, claims, who, hooking, stream, code>>

RemoveReservation ==
  /\ pc = "unmapped"
  /\ claims' = [claims EXCEPT ![who] = None] /\ pc' = "Hook"
  /\ UNCHANGED <<map, info, scanning, who, pages, hooking, stream, code>>

-----------------------------------------------------------------------------
(* Writing.                                                                *)

\* Mutant: the offset in the page is lost.
RwOfAligned(o, w) == AlignedRw(claims[o]) + (w - claims[o].ro)

\* Where word w of the code is written through the mapping of o.
RwOf(o, w) == claims[o].rw + (w - claims[o].ro)
Hit(o, w)  == {p \in pages : p[1] = AlignDown(RwOf(o, w))}

\* The words that really change when the words ws are written through the mapping of o.
Landed(o, ws) == UNION {{p[2] + (RwOf(o, w) - p[1]) : p \in Hit(o, w)} : w \in ws}
Faults(o, ws) == \E w \in ws : Hit(o, w) = {}

\* Writes of ws[o] through the mapping of each o.
WriteAll(ws) ==
  LET landed == UNION {Landed(o, ws[o]) : o \in DOMAIN ws}
  IN  /\ \A o \in DOMAIN ws : ~Faults(o, ws[o])
      /\ written' = written \cup landed
      /\ intended' = intended \cup UNION {ws[o] : o \in DOMAIN ws}
      /\ stale' = stale \cup landed

\* exl_init: InitMemLayout has found the modules.
InitPatcherImpl ==
  /\ pc = "FoundModules" /\ self # -1 /\ Len(found) > 1
  /\ Construct("patcher", Main.total.addr, Ends(Main.rodata) - Main.total.addr)
  /\ UNCHANGED <<map, scanning, pages, hooking, stream, code>>

NoSuchModule == pc = "FoundModules" /\ (self = -1 \/ Len(found) < 2) /\ Abort

InitializeHooks ==
  /\ pc = "exl_main"
  /\ Construct("hookJit", SelfText + HookJitAt, JitSize)
  /\ UNCHANGED <<map, scanning, pages, hooking, stream, code>>

InitializeInline ==
  /\ pc = "InitializeInline"
  /\ Construct("inlineJit", SelfText + InlineJitAt, InlinePoolSize)
  /\ UNCHANGED <<map, scanning, pages, hooking, stream, code>>

\* The words of a row of the pool, and of an Entry.
Row(i)   == LET a == SelfText + HookJitAt + i * TrampolineSize IN a .. a + TrampolineSize - 1
Entry(i) == LET a == SelfText + InlineJitAt + i * EntrySize IN a .. a + EntrySize - 1

\* HookFuncImpl claims five words, or one for a near branch; the absolute address that
\* a far branch loads must be aligned to eight bytes.
Claimed(far)     == IF far THEN 5 ELSE 1
Patched(at, far) == at .. (at - 1 + (IF ~far THEN 1 ELSE IF at % 2 # 0 THEN 5 ELSE 4))

PoolIsFull(inline) ==
  /\ pc = "features" /\ hooks < MaxHooks
  /\ rows > HookMax \/ (inline /\ entries >= InlinePoolCount)
  /\ Abort

\* Hook, also from HookInline: pools first, then the claim around the target.
Hook(kind, offset, far) ==
  LET at == Main.total.addr + offset
  IN  /\ pc = "features" /\ hooks < MaxHooks
      /\ kind # "replace" => rows <= HookMax
      /\ kind = "inline" => entries < InlinePoolCount
      /\ hooks' = hooks + 1
      /\ hook' = [at |-> at, far |-> far, row |-> IF kind = "replace" THEN {} ELSE Row(rows),
                  entry |-> IF kind = "inline" THEN Entry(entries) ELSE {}]
      /\ rows' = IF kind = "replace" THEN rows ELSE rows + 1
      /\ entries' = IF kind = "inline" THEN entries + 1 ELSE entries
      /\ Construct("ctrl", at, Claimed(far))
      /\ UNCHANGED <<map, scanning, pages, stream, code>>

Writes(h) == [o \in {"ctrl", "hookJit"} |-> IF o = "ctrl" THEN Patched(h.at, h.far) ELSE h.row]

\* HookFuncImpl up to its __flush_cache.
HookFuncImpl ==
  /\ pc = "HookFuncImpl" /\ WriteAll(Writes(hook)) /\ pc' = "__flush_cache"
  /\ UNCHANGED <<map, info, scanning, mapping, hooking, stream>>

WriteFails ==
  /\ pc = "HookFuncImpl" /\ \E o \in {"ctrl", "hookJit"} : Faults(o, Writes(hook)[o])
  /\ Abort

FlushHook ==
  /\ pc = "__flush_cache"
  /\ stale' = stale \ (Landed("hookJit", hook.row)
                         \cup (hook.at .. hook.at + Claimed(hook.far) - 1))
  /\ pc' = "~RwPages"
  /\ UNCHANGED <<map, info, scanning, mapping, hooking, stream, written, intended>>

\* Jit::Flush of the owner o.
JitFlush(o) ==
  stale' = stale \ (AlignedRo(claims[o]) .. AlignedRo(claims[o]) + AlignedSize(claims[o]) - 1)

\* Hook returns; HookInline goes on.
HookReturns ==
  /\ pc = "Hook"
  /\ JitFlush("hookJit")
  /\ IF hook.entry = {} THEN pc' = "features" /\ hook' = None
                        ELSE pc' = "HookInline" /\ hook' = hook
  /\ UNCHANGED <<map, info, scanning, mapping, rows, entries, hooks, stream, written, intended>>

HookInline ==
  /\ pc = "HookInline"
  /\ WriteAll([o \in {"inlineJit"} |-> hook.entry]) /\ pc' = "FlushInline"
  /\ UNCHANGED <<map, info, scanning, mapping, hooking, stream>>

FlushInline ==
  /\ pc = "FlushInline"
  /\ JitFlush("inlineJit") /\ pc' = "features" /\ hook' = None
  /\ UNCHANGED <<map, info, scanning, mapping, rows, entries, hooks, stream, written, intended>>

-----------------------------------------------------------------------------
(* CodePatcher, on top of StreamPatcher.  Offsets count from the main module. *)

ToOffsets(a) == {Main.total.addr + offset : offset \in a}
Unflushed    == IF stream = None THEN {} ELSE ToOffsets(stream.start .. stream.current - 1)

Patcher(start) ==
  /\ pc = "features" /\ stream = None
  /\ stream' = [start |-> start, current |-> start]
  /\ UNCHANGED <<map, pc, info, scanning, mapping, hooking, code>>

WriteInst ==
  /\ pc = "features" /\ stream # None /\ stream.current \in PatchOffsets
  /\ WriteAll([o \in {"patcher"} |-> ToOffsets({stream.current})])
  /\ stream' = [stream EXCEPT !.current = @ + 1]
  /\ UNCHANGED <<map, pc, info, scanning, mapping, hooking>>

\* Mutant: the patcher goes to another address without a flush.
SeekOnly(address) ==
  /\ pc = "features" /\ stream # None /\ stream.current # address
  /\ stream' = [start |-> address, current |-> address]
  /\ UNCHANGED <<map, pc, info, scanning, mapping, hooking, code>>

\* Seek does nothing when the patcher is there already.
Seek(address) ==
  /\ pc = "features" /\ stream # None /\ stream.current # address
  /\ stale' = stale \ Unflushed
  /\ stream' = [start |-> address, current |-> address]
  /\ UNCHANGED <<map, pc, info, scanning, mapping, hooking, written, intended>>

PatcherEnds ==
  /\ pc = "features" /\ stream # None
  /\ stale' = stale \ Unflushed
  /\ stream' = None
  /\ UNCHANGED <<map, pc, info, scanning, mapping, hooking, written, intended>>

FindModules == TooManyStaticModules \/ LookingForCodeStatic \/ ExpectingRodata \/ ExpectingData
RwPages == \/ MapRange \/ Constructed \/ NotTheSame
           \/ Destruct \/ UnmapRange \/ RemoveReservation
Boot == InitPatcherImpl \/ NoSuchModule \/ InitializeHooks \/ InitializeInline
Hooking == \/ HookFuncImpl \/ WriteFails \/ FlushHook \/ HookReturns
           \/ HookInline \/ FlushInline
\* What the code does by itself, once it has been called.
Working == FindModules \/ RwPages \/ Boot \/ Hooking

Features ==
  \/ \E inline \in BOOLEAN : PoolIsFull(inline)
  \/ \E kind \in {"replace", "trampoline", "inline"}, offset \in HookOffsets, far \in BOOLEAN :
       Hook(kind, offset, far)
  \/ \E offset \in PatchOffsets : Patcher(offset) \/ Seek(offset)
  \/ WriteInst \/ PatcherEnds

Next == Working \/ Features
Spec == Init /\ [][Next]_vars
FairSpec == Spec /\ WF_vars(Working)

-----------------------------------------------------------------------------
(* Properties.                                                             *)

Claims == [ro : Nat, rw : Nat, size : Nat]
RangeSet == [addr : Nat, size : Nat, kind : Kinds]

TypeOK ==
  /\ map \in Maps
  /\ pc \in {"FindModules", "FoundModules", "mapping", "mapped", "exl_main", "InitializeInline",
             "features", "HookFuncImpl", "__flush_cache", "~RwPages", "unmapping", "unmapped",
             "Hook", "HookInline", "FlushInline", "aborted"}
  /\ info \in RangeSet
  /\ state \in {"LookingForCodeStatic", "ExpectingRodata", "ExpectingData"}
  /\ cur \in [text : RangeSet, rodata : RangeSet]
  /\ found \in Seq([text : RangeSet, rodata : RangeSet, data : RangeSet, total : [addr : Nat, size : Nat]])
  /\ self \in -1 .. Len(found) - 1
  /\ claims \in [Owners -> Claims \cup {None}] /\ who \in Owners
  /\ pages \subseteq Nat \X Nat
  /\ rows \in 0 .. HookMax + 1 /\ entries \in 0 .. InlinePoolCount /\ hooks \in 0 .. MaxHooks
  /\ hook = None \/ /\ hook.at \in Nat /\ hook.far \in BOOLEAN
                    /\ hook.row \subseteq Nat /\ hook.entry \subseteq Nat
  /\ stream = None \/ stream \in [start : Nat, current : Nat]
  /\ written \subseteq Nat /\ intended \subseteq Nat /\ stale \subseteq Nat

\* No module begins within what FindModules may take for the beginning of another one.
Proper(m) ==
  \A k \in ModulesOf(m) : /\ m[k - 1].kind # "rx"
                          /\ k > 2 => ~(m[k - 2].kind = "rx" /\ m[k - 1].kind = "r")

\* What FindModules stores are modules of the map, in its order; when it is done, all of
\* them, so that the second is the game and the last one the SDK.
ModulesFound ==
  /\ \A j \in 1 .. Len(found) : \E k \in ModulesOf(map) :
       /\ found[j] = ModuleAt(map, k)
       /\ Proper(map) => Cardinality({l \in ModulesOf(map) : l < k}) = j - 1
  /\ pc \notin {"FindModules", "aborted"} /\ Proper(map) =>
       Len(found) = Cardinality(ModulesOf(map))

\* Every claim in use is seen through its mapping, word for word, whatever else is
\* mapped or unmapped meanwhile ("Setup RW pointer to match same physical location of RX");
\* each page of the second mappings shows one page of the code, and when no hook is being
\* installed only the lasting claims are mapped.
ClaimsCovered ==
  /\ \A o \in Owners :
       claims[o] # None
         => \/ o = who /\ pc \in {"mapping", "mapped", "unmapping", "unmapped", "aborted"}
            \/ Covers(claims[o])
  /\ \A p, q \in pages : p[1] = q[1] => p = q
  /\ pc = "features" => {p[1] : p \in pages} = Reserved

\* "Ensure the data at the different mapping is the same": the loop of RwPages::RwPages
\* has mapped all of the claim, which its memcmp is about to read.
ClaimMapped == pc = "mapped" => Covers(claims[who])

\* What is written through the mappings lands where it was meant to, and nowhere else, as
\* long as no row has been handed out that the pool has no room for; and between two calls
\* of the features every word that was written has been flushed, but for those that a
\* CodePatcher will flush.
WritesLand ==
  /\ rows <= HookMax => written = intended
  /\ pc = "features" => stale \subseteq Unflushed

\* The walk over the memory map ends, and so does the installation of each hook.
WorkEnds == []<>(pc \in {"features", "aborted"})

=============================================================================
