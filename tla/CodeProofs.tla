------------------------------ MODULE CodeProofs ------------------------------
(***************************************************************************)
(* Theorems about CodeMemory, for every memory map, every size of a page   *)
(* and of the pools, and every sequence of patches and hooks: FindModules  *)
(* finds the modules of the map, every claim is seen through its mapping   *)
(* while others come and go, and what is written lands where it was meant  *)
(* to.                                                                     *)
(***************************************************************************)
EXTENDS CodeMemory, FiniteSetTheorems, SequenceTheorems, WellFoundedInduction, TLAPS

-----------------------------------------------------------------------------
(* The inductive invariant.                                                *)

ModuleSet == [text : RangeSet, rodata : RangeSet, data : RangeSet,
              total : [addr : Nat, size : Nat]]

\* The modules whose last range is among the first k ranges of map m, and those that
\* begin before range k.
Seen(m, k)   == {l \in ModulesOf(m) : l + 2 <= k}
Before(m, k) == {l \in ModulesOf(m) : l < k}

\* After k ranges FindModules is in the state that the last two call for.  In a proper
\* map it has found the modules seen so far and does not miss one that it is in.
WalkedTo(k) ==
  /\ info = IF k = 0 THEN NoRange ELSE map[k]
  /\ state = "ExpectingRodata" => k > 0 /\ map[k].kind = "rx" /\ cur.text = map[k]
  /\ state = "ExpectingData" =>
       /\ k > 1 /\ map[k - 1].kind = "rx" /\ map[k].kind = "r"
       /\ cur.text = map[k - 1] /\ cur.rodata = map[k]
  /\ Proper(map) =>
       /\ Len(found) = Cardinality(Seen(map, k))
       /\ k \in ModulesOf(map) => state = "ExpectingRodata"
       /\ k - 1 \in ModulesOf(map) => state = "ExpectingData"
Walk == pc = "FindModules" => \E k \in 0..Len(map) : WalkedTo(k)

\* The two parts of ModulesFound.
Found ==
  \A j \in 1 .. Len(found) : \E k \in ModulesOf(map) :
    found[j] = ModuleAt(map, k) /\ (Proper(map) => Cardinality(Before(map, k)) = j - 1)
FoundAll ==
  pc \notin {"FindModules", "aborted"} /\ Proper(map) => Len(found) = Cardinality(ModulesOf(map))
Booted == pc \notin {"FindModules", "FoundModules", "aborted"} => Len(found) > 1 /\ self # -1

\* The claims are made in this order; only that of a hook ends.
UpTo(o) == CASE o = "patcher"   -> {"patcher"}
             [] o = "hookJit"   -> {"patcher", "hookJit"}
             [] o = "inlineJit" -> {"patcher", "hookJit", "inlineJit"}
             [] o = "ctrl"      -> Owners
Lasting == UpTo("inlineJit")
Claimers == {o \in Owners : claims[o] # None}
HookClaimed == {"HookFuncImpl", "__flush_cache", "~RwPages", "unmapping", "unmapped"}
Staged ==
  /\ pc \in {"FindModules", "FoundModules"} => Claimers = {}
  /\ pc \in {"mapping", "mapped"}           => Claimers = UpTo(who)
  /\ pc = "exl_main"                        => Claimers = UpTo("patcher")
  /\ pc = "InitializeInline"                => Claimers = UpTo("hookJit")
  /\ pc \in {"features", "Hook", "HookInline", "FlushInline"} => Claimers = Lasting
  /\ pc \in HookClaimed => Claimers = Owners /\ who = "ctrl"

\* What each claim is of, and that its second mapping begins at the same place of a page.
ClaimOf(o) ==
  CASE o = "patcher"   -> [ro |-> Main.total.addr, size |-> Ends(Main.rodata) - Main.total.addr]
    [] o = "hookJit"   -> [ro |-> SelfText + HookJitAt, size |-> JitSize]
    [] o = "inlineJit" -> [ro |-> SelfText + InlineJitAt, size |-> InlinePoolSize]
    [] o = "ctrl"      -> [ro |-> hook.at, size |-> Claimed(hook.far)]
ClaimsKnown ==
  \A o \in Claimers :
    /\ claims[o].ro = ClaimOf(o).ro /\ claims[o].size = ClaimOf(o).size
    /\ claims[o].rw % PageSize = claims[o].ro % PageSize
    /\ Len(found) > 1 /\ self # -1

\* The pages that a claim reserves, and what each of them is to show.
Space(c) == PagesOf(AlignedRw(c), AlignedSize(c))
Show(c)  == {<<q, AlignedRo(c) + (q - AlignedRw(c))>> : q \in Space(c)}
Apart == \A o, u \in Claimers : o # u => Space(claims[o]) \cap Space(claims[u]) = {}
Shown == \A p \in pages : \E o \in Claimers : p \in Show(claims[o])
Covered ==
  \A o \in Claimers :
    \/ o = who /\ pc \in {"mapping", "mapped", "unmapping", "unmapped", "aborted"}
    \/ Covers(claims[o])

\* Of the claim that ends only what lies behind the last range is still mapped.
Unmapping ==
  /\ pc = "unmapping" =>
       \A p \in pages : p \in Show(claims["ctrl"]) => p[2] >= Ends(info)
  /\ pc = "unmapped" => \A p \in pages : p \notin Show(claims["ctrl"])

\* The hook that is being installed has the last row and the last entry handed out.
Installing ==
  \/ pc \in {"mapping", "mapped"} /\ who = "ctrl"
  \/ pc \in HookClaimed \cup {"Hook", "HookInline", "FlushInline"}
HookKnown ==
  Installing =>
       /\ hook.at \in Nat /\ hook.far \in BOOLEAN /\ hook.row \subseteq Nat /\ hook.entry \subseteq Nat
       /\ hook.row = {} \/ (rows > 0 /\ hook.row = Row(rows - 1))
       /\ hook.entry = {} \/ (entries > 0 /\ hook.entry = Entry(entries - 1))

\* What is not flushed yet.
Pending ==
  CASE pc = "__flush_cache" -> Landed("hookJit", hook.row) \cup Patched(hook.at, hook.far)
    [] pc = "FlushInline"   -> hook.entry
    [] OTHER -> {}
Landing ==
  /\ rows <= HookMax => written = intended
  /\ pc # "aborted" => stale \subseteq Unflushed \cup Pending
  /\ pc = "FindModules" => stale = {}
  /\ stream # None => stream.start <= stream.current

ScanInv  == Walk /\ Found /\ FoundAll /\ Booted
ClaimInv == Staged /\ ClaimsKnown /\ Apart /\ Shown /\ Covered /\ Unmapping /\ HookKnown
IInv == TypeOK /\ ScanInv /\ ClaimInv

\* Features patch the code of the game, the second module of the map, at addresses that
\* were taken from it.
PatchesInMain ==
  \A m \in Maps :
    /\ Proper(m)
    /\ \A k \in ModulesOf(m) : Cardinality(Before(m, k)) = 1 =>
         \A offset \in PatchOffsets : offset < Ends(m[k + 1]) - m[k].addr

-----------------------------------------------------------------------------
(* Pages.                                                                  *)

LEMMA Sizes ==
  /\ PageSize \in Nat /\ PageSize > 0 /\ AddressSpace \in Nat
  /\ MaxModules \in Nat /\ HookJitAt \in Nat /\ InlineJitAt \in Nat
  /\ JitSize \in Nat /\ InlinePoolSize \in Nat
  /\ TrampolineSize \in Nat /\ TrampolineSize > 0 /\ EntrySize \in Nat /\ EntrySize > 0
  /\ RwSpace \subseteq Nat /\ \A a \in RwSpace : Whole(a)
  /\ Whole(HookJitAt) /\ Whole(InlineJitAt)
  /\ PatchOffsets \subseteq Nat /\ HookOffsets \subseteq Nat /\ MaxHooks \in Nat
BY MemoryAssumption

LEMMA RemainderOfMultiple ==
  ASSUME NEW z \in Nat, z > 0, NEW q \in Int, NEW r \in 0 .. z - 1
  PROVE  (q * z + r) % z = r
OBVIOUS

LEMMA Division ==
  ASSUME NEW z \in Nat, z > 0, NEW a \in Int
  PROVE  a - (a % z) = z * (a \div z)
OBVIOUS

LEMMA Remainder ==
  ASSUME NEW z \in Nat, z > 0, NEW a \in Int
  PROVE  a % z \in 0 .. z - 1 /\ a \div z \in Int
OBVIOUS

LEMMA Commutes ==
  ASSUME NEW z \in Int, NEW q \in Int
  PROVE  z * q = q * z /\ q * z \in Int /\ (z >= 0 /\ q >= 0 => q * z >= 0)
OBVIOUS

LEMMA SumOfParts ==
  ASSUME NEW z \in Int, NEW q \in Int, NEW r \in Int, NEW m \in Int,
         NEW a \in Int, NEW b \in Int, a = q * z, b = r * z + m
  PROVE  a + b = (q + r) * z + m /\ q + r \in Int
OBVIOUS

LEMMA QuotientOfNatural ==
  ASSUME NEW z \in Nat, z > 0, NEW a \in Nat
  PROVE  a \div z >= 0
OBVIOUS

\* An address is the beginning of its page and a place in it.
LEMMA Page ==
  ASSUME NEW a \in Int
  PROVE  /\ AlignDown(a) \in Int /\ AlignDown(a) <= a /\ a < AlignDown(a) + PageSize
         /\ a % PageSize \in 0 .. PageSize - 1 /\ a = AlignDown(a) + (a % PageSize)
         /\ \E q \in Int : AlignDown(a) = q * PageSize
         /\ a >= 0 => AlignDown(a) \in Nat
<1>1. PageSize \in Nat /\ PageSize > 0
  BY Sizes
<1>2. a % PageSize \in 0 .. PageSize - 1
  BY <1>1
<1>3. a - (a % PageSize) = PageSize * (a \div PageSize) /\ a \div PageSize \in Int
  BY <1>1, Division, Remainder
<1>4. PageSize * (a \div PageSize) = (a \div PageSize) * PageSize
  BY <1>1, <1>3, Commutes
<1>5. \E q \in Int : AlignDown(a) = q * PageSize
  BY <1>3, <1>4 DEF AlignDown
<1>6. a >= 0 => AlignDown(a) >= 0
  BY <1>1, <1>3, <1>4, Commutes, QuotientOfNatural DEF AlignDown
<1>7. AlignDown(a) = a - (a % PageSize)
  BY DEF AlignDown
<1>8. /\ AlignDown(a) \in Int /\ AlignDown(a) <= a /\ a < AlignDown(a) + PageSize
      /\ a = AlignDown(a) + (a % PageSize)
  <2>1. PICK m \in 0 .. PageSize - 1 : m = a % PageSize
    BY <1>2
  <2>2. AlignDown(a) = a - m
    BY <1>7, <2>1
  <2>3. /\ AlignDown(a) \in Int /\ AlignDown(a) <= a /\ a < AlignDown(a) + PageSize
        /\ a = AlignDown(a) + m
    BY <1>1, <2>2
  <2>4. QED
    BY <1>1, <2>1, <2>3
<1>9. a >= 0 => AlignDown(a) \in Nat
  BY <1>6, <1>8
<1>10. QED
  BY <1>2, <1>5, <1>8, <1>9, Zenon

\* The multiples of the size of a page are the beginnings of pages.
LEMMA Multiples ==
  ASSUME NEW a \in Int
  PROVE  /\ Whole(a) <=> AlignDown(a) = a
         /\ Whole(a) <=> \E q \in Int : a = q * PageSize
<1>1. PageSize \in Nat /\ PageSize > 0
  BY Sizes
<1>2. a % PageSize \in 0 .. PageSize - 1
  BY <1>1
<1>3. Whole(a) <=> AlignDown(a) = a
  BY <1>1, <1>2 DEF Whole, AlignDown
<1>4. Whole(a) => \E q \in Int : a = q * PageSize
  BY <1>3, Page
<1>5. ASSUME NEW q \in Int, a = q * PageSize PROVE Whole(a)
  <2>1. (q * PageSize + 0) % PageSize = 0
    BY <1>1, RemainderOfMultiple
  <2>2. q * PageSize + 0 = a
    BY <1>1, <1>5
  <2>3. QED
    BY <2>1, <2>2 DEF Whole
<1>6. QED
  BY <1>3, <1>4, <1>5

LEMMA PageOf ==
  ASSUME NEW a \in Nat
  PROVE  /\ AlignDown(a) \in Nat /\ Whole(AlignDown(a))
         /\ AlignDown(a) <= a /\ a < AlignDown(a) + PageSize
<1>1. a \in Int /\ a >= 0
  OBVIOUS
<1>2. AlignDown(a) \in Nat /\ AlignDown(a) <= a /\ a < AlignDown(a) + PageSize
  BY <1>1, Page, Zenon
<1>3. AlignDown(a) \in Int /\ \E q \in Int : AlignDown(a) = q * PageSize
  BY <1>1, Page, Zenon
<1>4. Whole(AlignDown(a))
  BY <1>3, Multiples, Zenon
<1>5. QED
  BY <1>2, <1>4

LEMMA WholeSum ==
  ASSUME NEW a \in Int, NEW b \in Int, Whole(a)
  PROVE  /\ Whole(a + b) <=> Whole(b)
         /\ Whole(b) => Whole(a - b) /\ Whole(b - a)
         /\ (a + b) % PageSize = b % PageSize
         /\ AlignDown(a + b) = a + AlignDown(b)
<1>1. PageSize \in Nat /\ PageSize > 0
  BY Sizes
<1>2. PICK q \in Int : a = q * PageSize
  BY Multiples
<1>3. PICK r \in Int : AlignDown(b) = r * PageSize
  BY Page
<1>4. b = AlignDown(b) + (b % PageSize) /\ b % PageSize \in 0 .. PageSize - 1
  BY Page
<1>5. PICK m \in 0 .. PageSize - 1 : m = b % PageSize
  BY <1>4
<1>6. (a + b) % PageSize = b % PageSize
  <2>1. b = AlignDown(b) + m
    BY <1>1, <1>4, <1>5
  <2>2. b = r * PageSize + m
    BY <1>3, <2>1
  <2>3. a + b = (q + r) * PageSize + m /\ q + r \in Int
    BY <1>1, <1>2, <2>2, SumOfParts
  <2>4. ((q + r) * PageSize + m) % PageSize = m
    BY <1>1, <2>3, RemainderOfMultiple
  <2>5. QED
    BY <1>5, <2>3, <2>4, Zenon
<1>7. AlignDown(a + b) = a + AlignDown(b)
  <2>1. \A k \in Int : (a + b) - k = a + (b - k)
    OBVIOUS
  <2>2. QED
    BY <1>4, <1>5, <1>6, <2>1 DEF AlignDown
<1>8. ASSUME Whole(b) PROVE Whole(a - b) /\ Whole(b - a)
  <2>1. PICK s \in Int : b = s * PageSize
    BY <1>8, Multiples
  <2>2. a - b = (q - s) * PageSize /\ b - a = (s - q) * PageSize
    BY <1>1, <1>2, <2>1
  <2>3. q - s \in Int /\ s - q \in Int
    OBVIOUS
  <2>4. QED
    BY <2>2, <2>3, Multiples
<1>9. QED
  BY <1>6, <1>7, <1>8 DEF Whole

\* Two beginnings of pages are a page apart.
LEMMA NextPage ==
  ASSUME NEW a \in Int, NEW b \in Int, Whole(a), Whole(b), a < b
  PROVE  a + PageSize <= b
<1>1. PageSize \in Nat /\ PageSize > 0
  BY Sizes
<1>2. PICK q \in Int : a = q * PageSize
  BY Multiples
<1>3. PICK r \in Int : b = r * PageSize
  BY Multiples
<1>4. q < r
  BY <1>1, <1>2, <1>3
<1>5. q + 1 <= r
  BY <1>4
<1>6. (q + 1) * PageSize <= r * PageSize
  BY <1>1, <1>5
<1>7. QED
  BY <1>1, <1>2, <1>3, <1>6

\* A claim's pages reach behind its last word, but by less than a page.
LEMMA RoundedUp ==
  ASSUME NEW n \in Nat
  PROVE  AlignUp(n) \in Nat /\ Whole(AlignUp(n)) /\ n <= AlignUp(n) /\ AlignUp(n) < n + PageSize
<1>1. PageSize \in Nat /\ PageSize > 0
  BY Sizes
<1>2. n + PageSize - 1 \in Nat
  BY <1>1
<1>3. /\ AlignDown(n + PageSize - 1) \in Nat /\ AlignDown(n + PageSize - 1) <= n + PageSize - 1
      /\ n + PageSize - 1 < AlignDown(n + PageSize - 1) + PageSize
      /\ \E q \in Int : AlignDown(n + PageSize - 1) = q * PageSize
  BY <1>2, Page
<1>4. QED
  BY <1>1, <1>3, Multiples DEF AlignUp

-----------------------------------------------------------------------------
(* The memory map.                                                         *)

\* A set of natural numbers that is not empty has a least element: among the
\* intervals that end in it one contains no other.
LEMMA LeastNatural ==
  ASSUME NEW S \in SUBSET Nat, S # {}
  PROVE  \E x \in S : \A y \in S : x <= y
<1> DEFINE T == {0..y : y \in S}
           R == StrictSubsetOrdering(Nat)
<1>1. T \subseteq FiniteSubsetsOf(Nat) /\ T # {}
  <2>1. \A y \in S : IsFiniteSet(0..y) /\ 0..y \subseteq Nat
    BY FS_Interval
  <2>2. QED
    BY <2>1 DEF FiniteSubsetsOf
<1>2. IsWellFoundedOn(R, FiniteSubsetsOf(Nat))
  BY FS_StrictSubsetOrderingWellFounded
<1>3. PICK I \in T : \A J \in T : ~(<<J, I>> \in R)
  <2> HIDE DEF T, R
  <2> QED
    BY <1>1, <1>2, WFMin
<1>4. PICK x \in S : I = 0..x
  OBVIOUS
<1>5. ASSUME NEW y \in S PROVE x <= y
  <2>1. x \in Nat /\ y \in Nat
    OBVIOUS
  <2>2. CASE y < x
    <3>1. 0..y \subseteq 0..x /\ 0..y # 0..x
      BY <2>1, <2>2
    <3>2. <<0..y, I>> \in R
      BY <1>4, <3>1, <2>1 DEF StrictSubsetOrdering
    <3>3. QED
      BY <1>3, <3>2
  <2>3. QED
    BY <2>1, <2>2
<1>6. QED
  BY <1>5

\* The ranges of a map, one behind the other.
LEMMA Ranges ==
  ASSUME NEW m \in Maps
  PROVE  /\ Len(m) \in Nat /\ Len(m) > 1
         /\ \A k \in 1 .. Len(m) : /\ m[k] \in RangeSet
                                   /\ m[k].addr \in Nat /\ m[k].size \in Nat /\ m[k].size > 0
                                   /\ Ends(m[k]) \in Nat /\ Ends(m[k]) = m[k].addr + m[k].size
                                   /\ Whole(m[k].addr) /\ Whole(m[k].size)
         /\ \A k \in 1 .. Len(m) : k + 1 <= Len(m) => m[k + 1].addr = Ends(m[k])
         /\ m[1].addr = 0 /\ m[1].kind = "other" /\ Ends(m[Len(m)]) = AddressSpace
<1>1. m \in Seq(RangeSet) /\ IsMap(m)
  BY MemoryAssumption DEF RangeSet
<1>2. Len(m) \in Nat /\ \A k \in 1 .. Len(m) : m[k] \in RangeSet
  BY <1>1
<1>3. QED
  BY <1>1, <1>2 DEF IsMap, RangeSet, Ends

LEMMA InOrder ==
  ASSUME NEW m \in Maps, NEW i \in 1 .. Len(m), NEW j \in 1 .. Len(m), i < j
  PROVE  Ends(m[i]) <= m[j].addr
<1> DEFINE S == {k \in 1 .. Len(m) : i < k /\ Ends(m[i]) > m[k].addr}
<1>1. S = {}
  <2> SUFFICES ASSUME S # {} PROVE FALSE
    OBVIOUS
  <2>1. PICK k \in S : \A y \in S : k <= y
    <3>1. S \in SUBSET Nat
      BY Ranges
    <3>2. QED
      BY <3>1, LeastNatural
  <2>2. k - 1 \in 1 .. Len(m) /\ k - 1 \notin S /\ k \in 1 .. Len(m)
    BY <2>1, Ranges
  <2>3. m[k].addr = Ends(m[k - 1])
    BY <2>2, Ranges
  <2>4. Ends(m[i]) <= Ends(m[k - 1])
    BY <2>1, <2>2, Ranges
  <2>5. QED
    BY <2>1, <2>2, <2>3, <2>4, Ranges
<1>2. QED
  BY <1>1, Ranges

LEMMA EndsInside ==
  ASSUME NEW m \in Maps, NEW k \in 1 .. Len(m)
  PROVE  Ends(m[k]) <= AddressSpace /\ (k < Len(m) => Ends(m[k]) < AddressSpace)
<1>1. CASE k = Len(m)
  BY <1>1, Ranges, Sizes
<1>2. CASE k < Len(m)
  <2>1. Len(m) \in 1 .. Len(m)
    BY Ranges
  <2>2. Ends(m[k]) <= m[Len(m)].addr
    BY <1>2, <2>1, InOrder
  <2>3. /\ Ends(m[k]) \in Nat /\ m[Len(m)].addr \in Nat
        /\ m[Len(m)].addr < Ends(m[Len(m)]) /\ Ends(m[Len(m)]) = AddressSpace
    BY <2>1, Ranges
  <2>4. QED
    BY <2>2, <2>3, Sizes
<1>3. QED
  BY <1>1, <1>2, Ranges

\* Every word of the address space is in one range, and in one only.
LEMMA InSomeRange ==
  ASSUME NEW m \in Maps, NEW a \in Nat, a < AddressSpace
  PROVE  \E k \in 1 .. Len(m) : a \in Words(m[k])
<1> DEFINE S == {k \in 1 .. Len(m) : a < Ends(m[k])}
<1>1. S \in SUBSET Nat /\ Len(m) \in S
  BY Ranges
<1>2. PICK k \in S : \A y \in S : k <= y
  BY <1>1, LeastNatural
<1>3. CASE k = 1
  BY <1>2, <1>3, Ranges DEF Words
<1>4. CASE k # 1
  <2>1. k - 1 \in 1 .. Len(m) /\ k - 1 \notin S
    BY <1>2, <1>4, Ranges
  <2>2. m[k].addr = Ends(m[k - 1])
    BY <2>1, Ranges
  <2>3. Ends(m[k - 1]) <= a
    BY <2>1, Ranges
  <2>4. QED
    BY <1>2, <2>2, <2>3, Ranges DEF Words
<1>5. QED
  BY <1>3, <1>4

LEMMA InOneRange ==
  ASSUME NEW m \in Maps, NEW i \in 1 .. Len(m), NEW j \in 1 .. Len(m), NEW a \in Nat,
         a \in Words(m[i]), a \in Words(m[j])
  PROVE  i = j
<1>1. /\ m[i].addr <= a /\ a < Ends(m[i]) /\ m[j].addr <= a /\ a < Ends(m[j])
      /\ m[i].addr \in Nat /\ Ends(m[i]) \in Nat /\ m[j].addr \in Nat /\ Ends(m[j]) \in Nat
  <2>1. m[i].addr \in Nat /\ Ends(m[i]) \in Nat /\ m[j].addr \in Nat /\ Ends(m[j]) \in Nat
    BY Ranges
  <2>2. a \in m[i].addr .. Ends(m[i]) - 1 /\ a \in m[j].addr .. Ends(m[j]) - 1
    BY DEF Words
  <2>3. QED
    BY <2>1, <2>2
<1>2. i < j => Ends(m[i]) <= m[j].addr
  BY InOrder
<1>3. j < i => Ends(m[j]) <= m[i].addr
  BY InOrder
<1>4. QED
  BY <1>1, <1>2, <1>3, Ranges

LEMMA RemainderSmall ==
  ASSUME NEW z \in Nat, z > 0
  PROVE  /\ \A a \in 0 .. z - 1 : a % z = a
         /\ z % z = 0
         /\ \A a \in Nat : a % z \in 0 .. z - 1
OBVIOUS

\* svcQueryMemory answers with the range that the address is in.
LEMMA Queried ==
  ASSUME map \in Maps, NEW a \in Nat
  PROVE  \E k \in 1 .. Len(map) : a % AddressSpace \in Words(map[k]) /\ QueryMemory(a) = map[k]
<1>1. AddressSpace > 0
  BY Ranges, Sizes
<1>2. a % AddressSpace \in Nat /\ a % AddressSpace < AddressSpace
  BY <1>1, Sizes, RemainderSmall
<1>3. \E k \in 1 .. Len(map) : a % AddressSpace \in Words(map[k])
  BY <1>2, InSomeRange
<1>4. QED
  BY <1>3 DEF QueryMemory

LEMMA QueriedAt ==
  ASSUME map \in Maps, NEW a \in Nat, NEW k \in 1 .. Len(map),
         a % AddressSpace \in Words(map[k])
  PROVE  QueryMemory(a) = map[k]
<1>1. PICK j \in 1 .. Len(map) :
        a % AddressSpace \in Words(map[j]) /\ QueryMemory(a) = map[j]
  BY Queried
<1>2. AddressSpace > 0 /\ a % AddressSpace \in Nat
  BY Ranges, Sizes, RemainderSmall
<1>3. QED
  BY <1>1, <1>2, InOneRange

\* Behind a range lies the next one, and behind the last one the first.
LEMMA QueryNext ==
  ASSUME map \in Maps, NEW k \in 1 .. Len(map)
  PROVE  /\ k < Len(map) => QueryMemory(Ends(map[k])) = map[k + 1]
         /\ k = Len(map) => QueryMemory(Ends(map[k])) = map[1]
<1>1. Ends(map[k]) \in Nat /\ AddressSpace > 0 /\ AddressSpace \in Nat
  BY Ranges, Sizes
<1>2. CASE k < Len(map)
  <2>1. k + 1 \in 1 .. Len(map) /\ map[k + 1].addr = Ends(map[k])
    BY <1>2, Ranges
  <2>2. Ends(map[k]) % AddressSpace = Ends(map[k])
    BY <1>1, <1>2, EndsInside, RemainderSmall
  <2>3. Ends(map[k]) \in Words(map[k + 1])
    BY <2>1, Ranges DEF Words
  <2>4. QED
    BY <1>1, <1>2, <2>1, <2>2, <2>3, QueriedAt
<1>3. CASE k = Len(map)
  <2>1. Ends(map[k]) % AddressSpace = 0
    BY <1>1, <1>3, Ranges, RemainderSmall
  <2>2. 1 \in 1 .. Len(map) /\ 0 \in Words(map[1])
    BY Ranges DEF Words
  <2>3. QED
    BY <1>1, <1>3, <2>1, <2>2, QueriedAt
<1>4. QED
  BY <1>2, <1>3

LEMMA QueryFirst == map \in Maps => QueryMemory(0) = map[1]
<1> SUFFICES ASSUME map \in Maps PROVE QueryMemory(0) = map[1]
  OBVIOUS
<1>1. AddressSpace > 0 /\ AddressSpace \in Nat
  BY Ranges, Sizes
<1>2. 0 % AddressSpace = 0
  BY <1>1, RemainderSmall
<1>3. 1 \in 1 .. Len(map) /\ 0 \in Words(map[1])
  BY Ranges DEF Words
<1>4. QED
  BY <1>2, <1>3, QueriedAt

-----------------------------------------------------------------------------
(* FindModules.                                                            *)

LEMMA ModulesFinite ==
  ASSUME NEW m \in Maps, NEW k \in Int
  PROVE  /\ ModulesOf(m) \subseteq 1 .. Len(m)
         /\ IsFiniteSet(ModulesOf(m)) /\ IsFiniteSet(Seen(m, k)) /\ IsFiniteSet(Before(m, k))
         /\ \A l \in ModulesOf(m) : l + 2 <= Len(m)
<1>1. ModulesOf(m) \subseteq 1 .. Len(m) /\ \A l \in ModulesOf(m) : l + 2 <= Len(m)
  BY Ranges DEF ModulesOf, IsModule
<1>2. IsFiniteSet(1 .. Len(m))
  <2>1. Len(m) \in Int /\ 1 \in Int
    BY Ranges
  <2>2. QED
    BY <2>1, FS_Interval, Zenon
<1>3. Seen(m, k) \subseteq 1 .. Len(m) /\ Before(m, k) \subseteq 1 .. Len(m)
  BY <1>1 DEF Seen, Before
<1>4. QED
  BY <1>1, <1>2, <1>3, FS_Subset

\* One more range completes at most one module.
LEMMA OneMoreSeen ==
  ASSUME NEW m \in Maps, NEW k \in 0 .. Len(m)
  PROVE  /\ Cardinality(Seen(m, k)) \in Nat
         /\ Cardinality(Before(m, k - 1)) = Cardinality(Seen(m, k))
         /\ Cardinality(Seen(m, k + 1)) =
              Cardinality(Seen(m, k)) + (IF k - 1 \in ModulesOf(m) THEN 1 ELSE 0)
<1>1. k \in Int /\ ModulesOf(m) \subseteq 1 .. Len(m) /\ Len(m) \in Nat
  BY Ranges, ModulesFinite
<1>2. Before(m, k - 1) = Seen(m, k)
  BY <1>1 DEF Before, Seen
<1>3. IsFiniteSet(Seen(m, k)) /\ Cardinality(Seen(m, k)) \in Nat
  BY <1>1, ModulesFinite, FS_CardinalityType
<1>4. CASE k - 1 \in ModulesOf(m)
  <2>1. Seen(m, k + 1) = Seen(m, k) \cup {k - 1} /\ k - 1 \notin Seen(m, k)
    BY <1>1, <1>4 DEF Seen
  <2>2. Cardinality(Seen(m, k) \cup {k - 1}) = Cardinality(Seen(m, k)) + 1
    BY <1>3, <2>1, FS_AddElement
  <2>3. QED
    BY <1>2, <1>3, <1>4, <2>1, <2>2
<1>5. CASE k - 1 \notin ModulesOf(m)
  <2>1. Seen(m, k + 1) = Seen(m, k)
    BY <1>1, <1>5 DEF Seen
  <2>2. QED
    BY <1>2, <1>3, <1>5, <2>1
<1>6. QED
  BY <1>4, <1>5

LEMMA SeenNoneAndAll ==
  ASSUME NEW m \in Maps
  PROVE  Cardinality(Seen(m, 0)) = 0 /\ Seen(m, Len(m)) = ModulesOf(m)
<1>1. ModulesOf(m) \subseteq 1 .. Len(m) /\ Len(m) \in Nat /\ \A l \in ModulesOf(m) : l + 2 <= Len(m)
  BY Ranges, ModulesFinite
<1>2. Seen(m, 0) = {} /\ Seen(m, Len(m)) = ModulesOf(m)
  BY <1>1 DEF Seen
<1>3. QED
  BY <1>2, FS_EmptySet

LEMMA ModuleTyped ==
  ASSUME NEW m \in Maps, NEW k \in ModulesOf(m)
  PROVE  /\ ModuleAt(m, k) \in ModuleSet
         /\ ModuleAt(m, k).text = m[k] /\ ModuleAt(m, k).rodata = m[k + 1]
         /\ ModuleAt(m, k).total.addr = m[k].addr
         /\ m[k].addr \in Nat /\ Whole(m[k].addr)
         /\ Ends(m[k + 1]) \in Nat /\ m[k].addr <= Ends(m[k + 1])
<1>1. k \in 1 .. Len(m) /\ k + 1 \in 1 .. Len(m) /\ k + 2 \in 1 .. Len(m) /\ k + 2 = (k + 1) + 1
  BY Ranges DEF ModulesOf, IsModule
<1>2. m[k] \in RangeSet /\ m[k + 1] \in RangeSet /\ m[k + 2] \in RangeSet
  BY <1>1, Ranges
<1>3. /\ m[k].addr \in Nat /\ Whole(m[k].addr) /\ m[k].size \in Nat /\ Ends(m[k]) = m[k].addr + m[k].size
      /\ m[k + 1].addr = Ends(m[k]) /\ m[k + 1].size \in Nat
      /\ Ends(m[k + 1]) = m[k + 1].addr + m[k + 1].size
      /\ m[k + 2].addr = Ends(m[k + 1]) /\ m[k + 2].size \in Nat
      /\ Ends(m[k + 2]) = m[k + 2].addr + m[k + 2].size
  <2>1. /\ m[k].addr \in Nat /\ Whole(m[k].addr) /\ m[k].size \in Nat
        /\ Ends(m[k]) = m[k].addr + m[k].size
    BY <1>1, Ranges
  <2>2. /\ m[k + 1].addr = Ends(m[k]) /\ m[k + 1].size \in Nat
        /\ Ends(m[k + 1]) = m[k + 1].addr + m[k + 1].size
    BY <1>1, Ranges
  <2>3. /\ m[k + 2].addr = Ends(m[k + 1]) /\ m[k + 2].size \in Nat
        /\ Ends(m[k + 2]) = m[k + 2].addr + m[k + 2].size
    BY <1>1, Ranges
  <2>4. QED
    BY <2>1, <2>2, <2>3
<1>4. Ends(m[k + 1]) \in Nat /\ m[k].addr <= Ends(m[k + 1]) /\ Ends(m[k + 2]) - m[k].addr \in Nat
  BY <1>3
<1>5. QED
  BY <1>2, <1>3, <1>4 DEF ModuleAt, ModuleSet

\* A turn of the loop goes to the next range, until the last one has been read.
LEMMA QueryStep ==
  ASSUME map \in Maps, NEW k \in 0 .. Len(map), info = IF k = 0 THEN NoRange ELSE map[k], Query
  PROVE  /\ pc = "FindModules"
         /\ k < Len(map) => info' = map[k + 1] /\ pc' = "FindModules"
         /\ k = Len(map) => info' = map[1] /\ pc' = "FoundModules"
         /\ info' \in RangeSet
<1>1. pc = "FindModules" /\ info' = QueryMemory(Ends(info))
      /\ pc' = IF info'.addr >= info.addr THEN pc ELSE "FoundModules"
  BY DEF Query
<1>2. Len(map) \in Nat /\ Len(map) > 1
  BY Ranges
<1>3. CASE k = 0
  <2>1. Ends(info) = 0 /\ info.addr = 0
    BY <1>3 DEF Ends, NoRange
  <2>2. info' = map[1] /\ map[1] \in RangeSet /\ map[1].addr = 0
    BY <1>1, <1>2, <2>1, QueryFirst, Ranges
  <2>3. QED
    BY <1>1, <1>2, <1>3, <2>1, <2>2
<1>4. CASE k # 0 /\ k < Len(map)
  <2>1. info = map[k] /\ k \in 1 .. Len(map) /\ k + 1 \in 1 .. Len(map)
    BY <1>2, <1>4
  <2>2. info' = map[k + 1]
    BY <1>1, <1>4, <2>1, QueryNext
  <2>3. /\ map[k + 1].addr = map[k].addr + map[k].size
        /\ map[k].addr \in Nat /\ map[k].size \in Nat /\ map[k + 1] \in RangeSet
    BY <1>2, <1>4, <2>1, Ranges
  <2>4. QED
    BY <1>1, <1>4, <2>1, <2>2, <2>3
<1>5. CASE k # 0 /\ k = Len(map)
  <2>1. info = map[k] /\ k \in 1 .. Len(map) /\ 1 \in 1 .. Len(map) /\ k - 1 \in 1 .. Len(map)
    BY <1>2, <1>5
  <2>2. info' = map[1]
    BY <1>1, <1>5, <2>1, QueryNext
  <2>3. map[1].addr = 0 /\ map[1] \in RangeSet
    BY <2>1, Ranges
  <2>4. map[k].addr > 0
    <3>1. map[(k - 1) + 1].addr = Ends(map[k - 1]) /\ (k - 1) + 1 = k
      BY <1>2, <1>5, <2>1, Ranges
    <3>2. Ends(map[k - 1]) = map[k - 1].addr + map[k - 1].size
          /\ map[k - 1].addr \in Nat /\ map[k - 1].size \in Nat /\ map[k - 1].size > 0
      BY <2>1, Ranges
    <3>3. QED
      BY <3>1, <3>2
  <2>5. QED
    BY <1>1, <1>5, <2>1, <2>2, <2>3, <2>4, Ranges
<1>6. QED
  BY <1>3, <1>4, <1>5

ScanTypes ==
  /\ info \in RangeSet /\ state \in {"LookingForCodeStatic", "ExpectingRodata", "ExpectingData"}
  /\ cur \in [text : RangeSet, rodata : RangeSet]
  /\ found \in Seq(ModuleSet) /\ self \in -1 .. Len(found) - 1

LEMMA ScanTyped == TypeOK => ScanTypes /\ map \in Maps
BY DEF TypeOK, ScanTypes, ModuleSet

LEMMA ResetTyped == NoModule \in [text : RangeSet, rodata : RangeSet]
BY DEF NoModule, NoRange, RangeSet, Kinds

\* In a proper map no module begins while FindModules is in the middle of another.
LEMMA ProperNext ==
  ASSUME NEW m \in Maps, Proper(m), NEW k \in 0 .. Len(m), k + 1 \in ModulesOf(m)
  PROVE  /\ k > 0 /\ m[k].kind # "rx" /\ m[k + 1].kind = "rx"
         /\ ~(k > 1 /\ m[k - 1].kind = "rx" /\ m[k].kind = "r")
<1>1. m[k + 1].kind = "rx"
  BY DEF ModulesOf, IsModule
<1>2. k # 0
  BY <1>1, Ranges
<1>3. (k + 1) - 1 = k /\ (k + 1) - 2 = k - 1 /\ (k > 0 <=> k # 0) /\ (k > 1 <=> k + 1 > 2)
  BY Ranges
<1>4. m[k].kind # "rx" /\ (k + 1 > 2 => ~(m[k - 1].kind = "rx" /\ m[k].kind = "r"))
  BY <1>3 DEF Proper
<1>5. QED
  BY <1>1, <1>2, <1>3, <1>4, Zenon

\* A module that has begun goes on with its rodata and its data.
LEMMA ModuleKinds ==
  ASSUME NEW m \in Maps, NEW k \in Int, k \in ModulesOf(m)
  PROVE  m[k].kind = "rx" /\ m[k + 1].kind = "r" /\ m[k + 2].kind = "rw"
BY DEF ModulesOf, IsModule

\* The loop ends with the modules that it has found.
LEMMA WalkEnds ==
  ASSUME TypeOK, ScanInv, WalkedTo(Len(map)), UNCHANGED <<map, found, self>>,
         pc' = "FoundModules"
  PROVE  ScanInv'
<1>1. map \in Maps
  BY ScanTyped
<1>2. Proper(map) => Len(found) = Cardinality(ModulesOf(map))
  BY <1>1, SeenNoneAndAll DEF WalkedTo
<1>3. QED
  BY <1>2 DEF ScanInv, Walk, Found, FoundAll, Booted

\* The loop goes on to range k + 1.
LEMMA WalkGoesOn ==
  ASSUME TypeOK, ScanInv, NEW k \in 0 .. Len(map), k < Len(map), WalkedTo(k + 1)',
         UNCHANGED map, Found', pc' = "FindModules"
  PROVE  ScanInv'
<1>1. k + 1 \in 0 .. Len(map')
  BY ScanTyped, Ranges
<1>2. Walk'
  BY <1>1 DEF Walk
<1>3. QED
  BY <1>2 DEF ScanInv, FoundAll, Booted

LEMMA TextLookedFor ==
  ASSUME TypeOK, ScanInv, LookingForCodeStatic
  PROVE  ScanInv' /\ ScanTypes' /\ pc = "FindModules" /\ pc' \in {"FindModules", "FoundModules"}
<1>1. /\ state = "LookingForCodeStatic" /\ Query /\ UNCHANGED <<map, found, self>>
      /\ map \in Maps /\ ScanTypes /\ pc = "FindModules"
  BY ScanTyped DEF LookingForCodeStatic, Query
<1>2. PICK k \in 0 .. Len(map) : WalkedTo(k)
  BY <1>1 DEF ScanInv, Walk
<1>3. /\ info' \in RangeSet
      /\ k < Len(map) => info' = map[k + 1] /\ pc' = "FindModules"
      /\ k = Len(map) => info' = map[1] /\ pc' = "FoundModules"
  BY <1>1, <1>2, QueryStep DEF WalkedTo
<1>4. ScanTypes'
  BY <1>1, <1>3 DEF ScanTypes, LookingForCodeStatic
<1>5. CASE k = Len(map)
  BY <1>1, <1>2, <1>3, <1>4, <1>5, WalkEnds
<1>6. CASE k < Len(map)
  <2>1. k \in Int /\ (k + 1) - 1 = k /\ k + 1 # 0
    BY <1>1, Ranges
  <2>2. /\ info'.kind = "rx" => state' = "ExpectingRodata" /\ cur'.text = info'
        /\ info'.kind # "rx" => state' = "LookingForCodeStatic"
    BY <1>1 DEF LookingForCodeStatic, ScanTypes
  <2>3. ASSUME Proper(map)
        PROVE  /\ Len(found) = Cardinality(Seen(map, k + 1))
               /\ k + 1 \in ModulesOf(map) => state' = "ExpectingRodata"
               /\ k \notin ModulesOf(map)
    <3>1. k \notin ModulesOf(map) /\ k - 1 \notin ModulesOf(map)
      BY <1>1, <1>2, <2>3 DEF WalkedTo
    <3>2. Len(found) = Cardinality(Seen(map, k + 1))
      BY <1>1, <1>2, <2>3, <3>1, OneMoreSeen DEF WalkedTo
    <3>3. k + 1 \in ModulesOf(map) => state' = "ExpectingRodata"
      BY <1>1, <1>3, <1>6, <2>2, <2>3, ProperNext
    <3>4. QED
      BY <3>1, <3>2, <3>3
  <2>4. WalkedTo(k + 1)'
    BY <1>1, <1>3, <1>6, <2>1, <2>2, <2>3 DEF WalkedTo
  <2>5. Found'
    BY <1>1 DEF ScanInv, Found
  <2>6. QED
    BY <1>1, <1>3, <1>4, <1>6, <2>4, <2>5, WalkGoesOn
<1>7. QED
  BY <1>1, <1>5, <1>6, Ranges

LEMMA RodataExpected ==
  ASSUME TypeOK, ScanInv, ExpectingRodata
  PROVE  ScanInv' /\ ScanTypes' /\ pc = "FindModules" /\ pc' \in {"FindModules", "FoundModules"}
<1>1. /\ state = "ExpectingRodata" /\ Query /\ UNCHANGED <<map, found, self>>
      /\ map \in Maps /\ ScanTypes /\ pc = "FindModules"
  BY ScanTyped DEF ExpectingRodata, Query
<1>2. PICK k \in 0 .. Len(map) : WalkedTo(k)
  BY <1>1 DEF ScanInv, Walk
<1>3. /\ info' \in RangeSet
      /\ k < Len(map) => info' = map[k + 1] /\ pc' = "FindModules"
      /\ k = Len(map) => info' = map[1] /\ pc' = "FoundModules"
  BY <1>1, <1>2, QueryStep DEF WalkedTo
<1>4. /\ info'.kind = "r" => /\ state' = "ExpectingData" /\ cur'.text = cur.text
                             /\ cur'.rodata = info'
      /\ info'.kind # "r" => state' = "LookingForCodeStatic"
      /\ ScanTypes'
  BY <1>1, <1>3, ResetTyped DEF ExpectingRodata, Reset, ScanTypes
<1>5. CASE k = Len(map)
  BY <1>1, <1>2, <1>3, <1>4, <1>5, WalkEnds
<1>6. CASE k < Len(map)
  <2>1. k \in Int /\ (k + 1) - 1 = k /\ k + 1 # 0 /\ k > 0 /\ k + 1 > 1
        /\ map[k].kind = "rx" /\ cur.text = map[k]
    BY <1>1, <1>2, Ranges DEF WalkedTo
  <2>2. ASSUME Proper(map)
        PROVE  /\ Len(found) = Cardinality(Seen(map, k + 1))
               /\ k + 1 \notin ModulesOf(map)
               /\ k \in ModulesOf(map) => state' = "ExpectingData"
    <3>1. k - 1 \notin ModulesOf(map)
      BY <1>1, <1>2, <2>2 DEF WalkedTo
    <3>2. Len(found) = Cardinality(Seen(map, k + 1))
      BY <1>1, <1>2, <2>2, <3>1, OneMoreSeen DEF WalkedTo
    <3>3. k + 1 \notin ModulesOf(map)
      BY <1>1, <2>1, <2>2, ProperNext
    <3>4. k \in ModulesOf(map) => map[k + 1].kind = "r"
      BY <1>1, <2>1, ModuleKinds
    <3>5. QED
      BY <1>3, <1>4, <1>6, <3>2, <3>3, <3>4
  <2>3. WalkedTo(k + 1)'
    BY <1>1, <1>3, <1>4, <1>6, <2>1, <2>2 DEF WalkedTo
  <2>4. Found'
    BY <1>1 DEF ScanInv, Found
  <2>5. QED
    BY <1>1, <1>3, <1>4, <1>6, <2>3, <2>4, WalkGoesOn
<1>7. QED
  BY <1>1, <1>5, <1>6, Ranges

LEMMA DataExpected ==
  ASSUME TypeOK, ScanInv, ExpectingData
  PROVE  ScanInv' /\ ScanTypes' /\ pc = "FindModules" /\ pc' \in {"FindModules", "FoundModules"}
<1>1. /\ state = "ExpectingData" /\ state' = "LookingForCodeStatic" /\ Query /\ UNCHANGED map
      /\ map \in Maps /\ ScanTypes /\ pc = "FindModules"
  BY ScanTyped DEF ExpectingData, Reset, Query
<1>2. PICK k \in 0 .. Len(map) : WalkedTo(k)
  BY <1>1 DEF ScanInv, Walk
<1>3. /\ info' \in RangeSet
      /\ k < Len(map) => info' = map[k + 1] /\ pc' = "FindModules"
      /\ k = Len(map) => info' = map[1] /\ pc' = "FoundModules"
  BY <1>1, <1>2, QueryStep DEF WalkedTo
<1>4. /\ k \in Int /\ k > 1 /\ k + 1 # 0 /\ (k + 1) - 1 = k /\ (k - 1) + 1 = k /\ (k - 1) + 2 = k + 1
      /\ map[k - 1].kind = "rx" /\ map[k].kind = "r"
      /\ cur.text = map[k - 1] /\ cur.rodata = map[k]
  BY <1>1, <1>2, Ranges DEF WalkedTo
<1>5. cur' = NoModule
  BY DEF ExpectingData, Reset
<1>6. ASSUME UNCHANGED <<found, self>>, k < Len(map) => k - 1 \notin ModulesOf(map)
      PROVE  ScanInv' /\ ScanTypes'
  <2>1. ScanTypes'
    BY <1>1, <1>3, <1>5, <1>6, ResetTyped DEF ScanTypes
  <2>2. CASE k = Len(map)
    BY <1>1, <1>2, <1>3, <1>6, <2>1, <2>2, WalkEnds
  <2>3. CASE k < Len(map)
    <3>1. ASSUME Proper(map)
          PROVE  /\ Len(found) = Cardinality(Seen(map, k + 1))
                 /\ k + 1 \notin ModulesOf(map) /\ k \notin ModulesOf(map)
      <4>1. Len(found) = Cardinality(Seen(map, k + 1))
        BY <1>1, <1>2, <1>6, <2>3, <3>1, OneMoreSeen DEF WalkedTo
      <4>2. k + 1 \notin ModulesOf(map) /\ k \notin ModulesOf(map)
        BY <1>1, <1>2, <1>4, <3>1, ProperNext DEF WalkedTo
      <4>3. QED
        BY <4>1, <4>2
    <3>2. WalkedTo(k + 1)'
      BY <1>1, <1>3, <1>4, <1>6, <2>3, <3>1 DEF WalkedTo
    <3>3. Found'
      BY <1>1, <1>6 DEF ScanInv, Found
    <3>4. QED
      BY <1>1, <1>3, <2>1, <2>3, <3>2, <3>3, WalkGoesOn
  <2>4. QED
    BY <1>1, <2>2, <2>3, Ranges
<1>7. CASE info'.kind # "rw"
  <2>1. UNCHANGED <<found, self>>
    BY <1>7 DEF ExpectingData
  <2>2. k < Len(map) => k - 1 \notin ModulesOf(map)
    BY <1>1, <1>3, <1>4, <1>7, ModuleKinds
  <2>3. QED
    BY <1>1, <1>3, <1>6, <2>1, <2>2, Ranges
<1>8. CASE info'.kind = "rw"
  <2>1. k < Len(map) /\ info' = map[k + 1] /\ pc' = "FindModules"
    BY <1>1, <1>3, <1>8, Ranges
  <2>2. k - 1 \in ModulesOf(map)
    BY <1>1, <1>4, <1>8, <2>1, Ranges DEF ModulesOf, IsModule
  <2>3. found' = Append(found, ModuleAt(map, k - 1))
    <3>1. found' = Append(found,
             [text |-> cur.text, rodata |-> cur.rodata, data |-> info',
              total |-> [addr |-> cur.text.addr, size |-> Ends(info') - cur.text.addr]])
      BY <1>8 DEF ExpectingData
    <3>2. QED
      BY <1>4, <2>1, <3>1 DEF ModuleAt
  <2>4. self' = Len(found) \/ self' = self
    BY <1>8 DEF ExpectingData, SelfIs
  <2>5. ModuleAt(map, k - 1) \in ModuleSet /\ found \in Seq(ModuleSet)
    BY <1>1, <2>2, ModuleTyped DEF ScanTypes
  <2>6. /\ found' \in Seq(ModuleSet) /\ Len(found) \in Nat /\ Len(found') = Len(found) + 1
        /\ \A j \in 1 .. Len(found) : found'[j] = found[j]
        /\ found'[Len(found) + 1] = ModuleAt(map, k - 1)
    BY <2>3, <2>5
  <2>7. ScanTypes'
    BY <1>1, <1>3, <1>5, <2>4, <2>6, ResetTyped DEF ScanTypes
  <2>8. ASSUME Proper(map)
        PROVE  /\ Len(found') = Cardinality(Seen(map, k + 1))
               /\ Len(found) = Cardinality(Before(map, k - 1))
               /\ k + 1 \notin ModulesOf(map) /\ k \notin ModulesOf(map)
    <3>1. Len(found) = Cardinality(Seen(map, k))
      BY <1>2, <2>8 DEF WalkedTo
    <3>2. k + 1 \notin ModulesOf(map) /\ k \notin ModulesOf(map)
      BY <1>1, <1>2, <1>4, <2>8, ProperNext DEF WalkedTo
    <3>3. QED
      BY <1>1, <2>2, <2>6, <3>1, <3>2, OneMoreSeen
  <2>9. WalkedTo(k + 1)'
    BY <1>1, <1>4, <2>1, <2>8 DEF WalkedTo
  <2>10. Found'
    <3> SUFFICES ASSUME NEW j \in 1 .. Len(found')
                 PROVE  \E l \in ModulesOf(map) :
                          /\ found'[j] = ModuleAt(map, l)
                          /\ Proper(map) => Cardinality(Before(map, l)) = j - 1
      BY <1>1 DEF Found
    <3>1. CASE j \in 1 .. Len(found)
      BY <2>6, <3>1 DEF ScanInv, Found
    <3>2. CASE j \notin 1 .. Len(found)
      <4>1. j = Len(found) + 1 /\ j - 1 = Len(found)
        BY <2>6, <3>2
      <4>2. QED
        BY <2>2, <2>6, <2>8, <4>1
    <3>3. QED
      BY <3>1, <3>2
  <2>11. QED
    BY <1>1, <2>1, <2>7, <2>9, <2>10, WalkGoesOn
<1>9. QED
  BY <1>1, <1>3, <1>7, <1>8, Ranges

-----------------------------------------------------------------------------
(* What a claim shows.                                                     *)

\* A claim whose two mappings begin at the same place of a page.
SamePlace(c) == c \in Claims /\ c.rw % PageSize = c.ro % PageSize

LEMMA ClaimPages ==
  ASSUME NEW c, SamePlace(c)
  PROVE  /\ c.ro \in Nat /\ c.rw \in Nat /\ c.size \in Nat
         /\ AlignedRo(c) \in Nat /\ Whole(AlignedRo(c)) /\ AlignedRo(c) <= c.ro
         /\ AlignedRw(c) \in Nat /\ Whole(AlignedRw(c)) /\ AlignedRw(c) <= c.rw
         /\ c.ro - AlignedRo(c) = c.rw - AlignedRw(c)
         /\ AlignedSize(c) \in Nat /\ Whole(AlignedSize(c)) /\ c.size <= AlignedSize(c)
<1>1. c.ro \in Nat /\ c.rw \in Nat /\ c.size \in Nat /\ c.rw % PageSize = c.ro % PageSize
  BY DEF SamePlace, Claims
<1>2. AlignDown(c.ro) \in Nat /\ AlignDown(c.ro) <= c.ro /\ Whole(AlignDown(c.ro))
  BY <1>1, PageOf
<1>3. AlignDown(c.rw) \in Nat /\ AlignDown(c.rw) <= c.rw /\ Whole(AlignDown(c.rw))
  BY <1>1, PageOf
<1>4. c.ro - AlignDown(c.ro) = c.rw - AlignDown(c.rw)
  <2>1. PICK m \in Int : m = c.ro % PageSize
    BY <1>1, Sizes, Remainder
  <2>2. AlignDown(c.ro) = c.ro - m /\ AlignDown(c.rw) = c.rw - m
    BY <1>1, <2>1 DEF AlignDown
  <2>3. QED
    BY <1>1, <2>2
<1>5. QED
  BY <1>1, <1>2, <1>3, <1>4, RoundedUp DEF AlignedRo, AlignedRw, AlignedSize

\* Word w of a claim is on the same page, counted from the first, and at the same
\* place of it in both mappings.
LEMMA SameWord ==
  ASSUME NEW c, SamePlace(c), NEW w \in Nat
  PROVE  /\ AlignDown(c.rw + w) \in Nat /\ AlignDown(c.ro + w) \in Nat
         /\ Whole(AlignDown(c.rw + w)) /\ AlignedRw(c) <= AlignDown(c.rw + w)
         /\ AlignDown(c.rw + w) <= c.rw + w
         /\ AlignDown(c.ro + w) = AlignedRo(c) + (AlignDown(c.rw + w) - AlignedRw(c))
         /\ (c.rw + w) - AlignDown(c.rw + w) = (c.ro + w) - AlignDown(c.ro + w)
<1> DEFINE d == (c.rw - AlignedRw(c)) + w
<1>1. /\ c.ro \in Nat /\ c.rw \in Nat
      /\ AlignedRo(c) \in Nat /\ Whole(AlignedRo(c)) /\ AlignedRo(c) <= c.ro
      /\ AlignedRw(c) \in Nat /\ Whole(AlignedRw(c)) /\ AlignedRw(c) <= c.rw
      /\ c.ro - AlignedRo(c) = c.rw - AlignedRw(c)
  BY ClaimPages
<1>2. d \in Nat /\ c.rw + w = AlignedRw(c) + d /\ c.ro + w = AlignedRo(c) + d
  BY <1>1
<1> HIDE DEF d
<1>3. AlignDown(d) \in Nat /\ AlignDown(d) <= d
  BY <1>2, Page
<1>4. AlignDown(c.rw + w) = AlignedRw(c) + AlignDown(d)
  BY <1>1, <1>2, WholeSum
<1>5. AlignDown(c.ro + w) = AlignedRo(c) + AlignDown(d)
  BY <1>1, <1>2, WholeSum
<1>6. Whole(AlignDown(c.rw + w))
  BY <1>1, PageOf
<1>7. QED
  BY <1>1, <1>2, <1>3, <1>4, <1>5, <1>6

LEMMA ShowFacts ==
  ASSUME NEW c, SamePlace(c), NEW p \in Show(c)
  PROVE  /\ p = <<p[1], p[2]>> /\ p[1] \in Nat /\ p[2] \in Nat /\ p[1] \in Space(c)
         /\ p[2] = AlignedRo(c) + (p[1] - AlignedRw(c))
         /\ AlignedRo(c) <= p[2] /\ p[2] < AlignedRo(c) + AlignedSize(c)
         /\ Whole(p[1]) /\ Whole(p[2])
<1>1. PICK q \in Space(c) : p = <<q, AlignedRo(c) + (q - AlignedRw(c))>>
  BY DEF Show
<1>2. /\ AlignedRo(c) \in Nat /\ Whole(AlignedRo(c)) /\ AlignedRw(c) \in Nat /\ Whole(AlignedRw(c))
      /\ AlignedSize(c) \in Nat
  BY ClaimPages
<1>3. AlignedRw(c) <= q /\ q < AlignedRw(c) + AlignedSize(c) /\ q \in Nat /\ Whole(q)
  BY <1>1, <1>2 DEF Space, PagesOf
<1>4. p[1] = q /\ p[2] = AlignedRo(c) + (q - AlignedRw(c))
  BY <1>1
<1>5. Whole(q - AlignedRw(c))
  BY <1>2, <1>3, WholeSum
<1>6. Whole(p[2])
  BY <1>2, <1>3, <1>4, <1>5, WholeSum
<1>7. QED
  BY <1>1, <1>2, <1>3, <1>4, <1>6

\* What a claim sees of a range are its pages that lie in the range.
LEMMA ViewsShown ==
  ASSUME NEW c, SamePlace(c), NEW r, r.addr \in Nat, Ends(r) \in Nat
  PROVE  Views(c, r) = {p \in Show(c) : r.addr <= p[2] /\ p[2] < Ends(r)}
<1> DEFINE start   == AlignedRo(c)
           end     == start + AlignedSize(c)
           offset  == (IF r.addr > start THEN r.addr ELSE start) - start
           address == start + offset
           length  == (IF end < Ends(r) THEN end ELSE Ends(r)) - address
<1>1. Views(c, r) = {<<AlignedRw(c) + offset + (p - address), p>> : p \in PagesOf(address, length)}
  BY DEF Views
<1>2. /\ start \in Nat /\ Whole(start) /\ AlignedRw(c) \in Nat /\ Whole(AlignedRw(c))
      /\ AlignedSize(c) \in Nat
  BY ClaimPages
<1>3. /\ offset \in Nat /\ address \in Nat /\ length \in Int /\ end \in Nat
      /\ address = start + offset
      /\ \A p \in Int : p \in address .. address + length - 1
           <=> start <= p /\ p < end /\ r.addr <= p /\ p < Ends(r)
  BY <1>2
<1> HIDE DEF offset, address, length
<1>4. ASSUME NEW v \in Views(c, r) PROVE v \in Show(c) /\ r.addr <= v[2] /\ v[2] < Ends(r)
  <2>1. PICK p \in PagesOf(address, length) : v = <<AlignedRw(c) + offset + (p - address), p>>
    BY <1>1
  <2>2. p \in Int /\ start <= p /\ p < end /\ r.addr <= p /\ p < Ends(r) /\ Whole(p)
    BY <1>3, <2>1 DEF PagesOf
  <2>3. PICK q \in Int : q = AlignedRw(c) + (p - start)
    BY <1>2, <2>2
  <2>4. Whole(p - start)
    BY <1>2, <2>2, WholeSum
  <2>5. Whole(q)
    BY <1>2, <2>2, <2>3, <2>4, WholeSum
  <2>6. /\ AlignedRw(c) + offset + (p - address) = q
        /\ AlignedRw(c) <= q /\ q <= AlignedRw(c) + AlignedSize(c) - 1
        /\ p = start + (q - AlignedRw(c))
    BY <1>2, <1>3, <2>2, <2>3
  <2>7. q \in Space(c)
    BY <1>2, <2>5, <2>6 DEF Space, PagesOf
  <2>8. v = <<q, start + (q - AlignedRw(c))>> /\ v[2] = p
    BY <2>1, <2>6
  <2>9. QED
    BY <2>2, <2>7, <2>8 DEF Show
<1>5. ASSUME NEW v \in Show(c), r.addr <= v[2], v[2] < Ends(r) PROVE v \in Views(c, r)
  <2>1. /\ v = <<v[1], v[2]>> /\ v[1] \in Nat /\ v[2] \in Nat
        /\ v[2] = start + (v[1] - AlignedRw(c))
        /\ start <= v[2] /\ v[2] < start + AlignedSize(c) /\ Whole(v[2])
    BY <1>5, ShowFacts
  <2>2. v[2] \in PagesOf(address, length)
    BY <1>3, <1>5, <2>1 DEF PagesOf
  <2>3. v[1] = AlignedRw(c) + offset + (v[2] - address)
    BY <1>2, <1>3, <2>1
  <2>4. QED
    BY <1>1, <2>1, <2>2, <2>3
<1>6. QED
  BY <1>4, <1>5

\* If its first mapping begins with a page, a claim covers its own pages and no others.
LEMMA WholeClaim ==
  ASSUME NEW c, SamePlace(c), Whole(c.ro)
  PROVE  /\ \A w \in 0 .. c.size - 1 :
              <<AlignDown(c.rw + w), AlignDown(c.ro + w)>> \in Show(c)
         /\ Covers(c) => Show(c) \subseteq pages
<1>1. /\ c.ro \in Nat /\ c.rw \in Nat /\ c.size \in Nat
      /\ AlignedRo(c) \in Nat /\ Whole(AlignedRo(c)) /\ AlignedRo(c) <= c.ro
      /\ AlignedRw(c) \in Nat /\ Whole(AlignedRw(c)) /\ AlignedRw(c) <= c.rw
      /\ c.ro - AlignedRo(c) = c.rw - AlignedRw(c)
      /\ AlignedSize(c) \in Nat /\ Whole(AlignedSize(c)) /\ c.size <= AlignedSize(c)
  BY ClaimPages
<1>2. AlignedRo(c) = c.ro
  BY <1>1, Multiples DEF AlignedRo
<1>3. AlignedRw(c) = c.rw
  BY <1>1, <1>2
<1>4. ASSUME NEW w \in 0 .. c.size - 1
      PROVE  <<AlignDown(c.rw + w), AlignDown(c.ro + w)>> \in Show(c)
  <2>1. w \in Nat /\ w < c.size
    BY <1>1
  <2>2. /\ AlignDown(c.rw + w) \in Nat /\ Whole(AlignDown(c.rw + w))
        /\ AlignedRw(c) <= AlignDown(c.rw + w) /\ AlignDown(c.rw + w) <= c.rw + w
        /\ AlignDown(c.ro + w) = AlignedRo(c) + (AlignDown(c.rw + w) - AlignedRw(c))
    BY <2>1, SameWord
  <2>3. AlignDown(c.rw + w) \in Space(c)
    BY <1>1, <1>3, <2>1, <2>2 DEF Space, PagesOf
  <2>4. QED
    BY <2>2, <2>3 DEF Show
<1>5. ASSUME Covers(c), NEW p \in Show(c) PROVE p \in pages
  <2>1. /\ p = <<p[1], p[2]>> /\ p[1] \in Nat /\ p[1] \in Space(c) /\ Whole(p[1])
        /\ p[2] = AlignedRo(c) + (p[1] - AlignedRw(c))
    BY <1>5, ShowFacts
  <2>2. AlignedRw(c) <= p[1] /\ p[1] < AlignedRw(c) + AlignedSize(c)
    BY <1>1, <2>1 DEF Space, PagesOf
  <2>3. PICK w \in Nat : w = p[1] - c.rw
    BY <1>1, <1>3, <2>1, <2>2
  <2>4. Whole(w)
    BY <1>1, <1>3, <2>1, <2>3, WholeSum
  <2>5. w < AlignUp(c.size) /\ Whole(AlignUp(c.size)) /\ AlignUp(c.size) \in Nat
        /\ AlignUp(c.size) < c.size + PageSize
    BY <1>1, <1>3, <2>1, <2>2, <2>3, RoundedUp DEF AlignedSize
  <2>6. w + PageSize <= AlignUp(c.size)
    BY <2>4, <2>5, NextPage
  <2>7. w \in 0 .. c.size - 1
    BY <1>1, <2>5, <2>6, Sizes
  <2>8. <<AlignDown(c.rw + w), AlignDown(c.ro + w)>> \in pages
    BY <1>5, <2>7 DEF Covers
  <2>9. c.rw + w = p[1] /\ AlignDown(c.rw + w) = p[1]
    BY <1>1, <2>1, <2>3, Multiples
  <2>10. AlignDown(c.ro + w) = p[2]
    BY <2>1, <2>3, <2>9, SameWord
  <2>11. QED
    BY <2>1, <2>8, <2>9, <2>10
<1>6. QED
  BY <1>4, <1>5

-----------------------------------------------------------------------------
(* Claims are made and end.                                                *)

LEMMA Owner ==
  /\ \A o \in Owners : o = "patcher" \/ o = "hookJit" \/ o = "inlineJit" \/ o = "ctrl"
  /\ "patcher" \in Owners /\ "hookJit" \in Owners /\ "inlineJit" \in Owners /\ "ctrl" \in Owners
  /\ UpTo("patcher") = {"patcher"} /\ UpTo("hookJit") = {"patcher", "hookJit"}
  /\ UpTo("inlineJit") = {"patcher", "hookJit", "inlineJit"} /\ UpTo("ctrl") = Owners
  /\ Lasting = Owners \ {"ctrl"}
  /\ \A o \in Owners : o \in UpTo(o)
BY DEF Owners, UpTo, Lasting

\* Where the code of the game and our own text begin.
LEMMA Origins ==
  ASSUME TypeOK, ScanInv, Len(found) > 1, self # -1
  PROVE  /\ Main.total.addr \in Nat /\ Whole(Main.total.addr)
         /\ Ends(Main.rodata) - Main.total.addr \in Nat
         /\ SelfText \in Nat /\ Whole(SelfText)
<1>1. map \in Maps /\ Len(found) \in Nat /\ self \in -1 .. Len(found) - 1
  BY ScanTyped DEF ScanTypes
<1>2. 2 \in 1 .. Len(found) /\ self + 1 \in 1 .. Len(found)
  BY <1>1
<1>3. PICK k \in ModulesOf(map) : found[2] = ModuleAt(map, k)
  BY <1>2 DEF ScanInv, Found
<1>4. PICK l \in ModulesOf(map) : found[self + 1] = ModuleAt(map, l)
  BY <1>2 DEF ScanInv, Found
<1>5. /\ Main.total.addr = map[k].addr /\ Main.rodata = map[k + 1] /\ map[k].addr \in Nat
      /\ Whole(map[k].addr) /\ Ends(map[k + 1]) \in Nat /\ map[k].addr <= Ends(map[k + 1])
  BY <1>1, <1>3, ModuleTyped DEF Main
<1>6. SelfText = map[l].addr /\ map[l].addr \in Nat /\ Whole(map[l].addr)
  BY <1>1, <1>4, ModuleTyped DEF SelfText
<1>7. QED
  BY <1>5, <1>6

LEMMA ClaimSame ==
  ASSUME TypeOK, ClaimInv, NEW o \in Claimers
  PROVE  SamePlace(claims[o]) /\ o \in Owners
BY DEF TypeOK, ClaimInv, ClaimsKnown, Claimers, SamePlace

LEMMA LastingWhole ==
  ASSUME TypeOK, ScanInv, ClaimInv, NEW o \in Claimers, o # "ctrl"
  PROVE  Whole(claims[o].ro)
<1>1. claims[o].ro = ClaimOf(o).ro /\ Len(found) > 1 /\ self # -1 /\ o \in Owners
  BY DEF ClaimInv, ClaimsKnown, Claimers
<1>2. /\ Main.total.addr \in Nat /\ Whole(Main.total.addr) /\ SelfText \in Nat /\ Whole(SelfText)
      /\ HookJitAt \in Nat /\ Whole(HookJitAt) /\ InlineJitAt \in Nat /\ Whole(InlineJitAt)
  BY <1>1, Origins, Sizes
<1>3. Whole(SelfText + HookJitAt) /\ Whole(SelfText + InlineJitAt)
  BY <1>2, WholeSum
<1>4. QED
  BY <1>1, <1>2, <1>3, Owner DEF ClaimOf

\* No page of the address space is mapped twice.
LEMMA OnePage ==
  ASSUME TypeOK, ClaimInv, NEW p \in pages, NEW q \in pages, p[1] = q[1]
  PROVE  p = q
<1>1. PICK o \in Claimers : p \in Show(claims[o])
  BY DEF ClaimInv, Shown
<1>2. PICK u \in Claimers : q \in Show(claims[u])
  BY DEF ClaimInv, Shown
<1>3. /\ p = <<p[1], p[2]>> /\ p[1] \in Space(claims[o])
      /\ p[2] = AlignedRo(claims[o]) + (p[1] - AlignedRw(claims[o]))
  BY <1>1, ClaimSame, ShowFacts
<1>4. /\ q = <<q[1], q[2]>> /\ q[1] \in Space(claims[u])
      /\ q[2] = AlignedRo(claims[u]) + (q[1] - AlignedRw(claims[u]))
  BY <1>2, ClaimSame, ShowFacts
<1>5. o = u
  BY <1>3, <1>4 DEF ClaimInv, Apart
<1>6. QED
  BY <1>3, <1>4, <1>5

LEMMA ReservedSpace ==
  Reserved = UNION {Space(claims[o]) : o \in Claimers}
BY DEF Reserved, Space, Claimers

\* The new claim of o: its second mapping is where nobody else's is.
LEMMA NewClaim ==
  ASSUME TypeOK, ClaimInv, NEW o \in Owners, o \notin Claimers, NEW ro \in Nat, NEW size \in Nat,
         Construct(o, ro, size)
  PROVE  /\ claims' \in [Owners -> Claims \cup {None}]
         /\ SamePlace(claims'[o]) /\ claims'[o].ro = ro /\ claims'[o].size = size
         /\ \A u \in Owners : u # o => claims'[u] = claims[u]
         /\ Claimers' = Claimers \cup {o} /\ Apart'
         /\ who' = o /\ pc' = "mapping" /\ info' \in RangeSet
<1>1. PICK a \in FreeSpace(AlignUp(size)) :
        claims' = [claims EXCEPT ![o] = [ro |-> ro, size |-> size, rw |-> a + (ro - AlignDown(ro))]]
  BY DEF Construct
<1>2. a \in RwSpace /\ a \in Nat /\ Whole(a) /\ PagesOf(a, AlignUp(size)) \subseteq RwSpace \ Reserved
  BY <1>1, Sizes DEF FreeSpace
<1>3. /\ AlignDown(ro) \in Nat /\ Whole(AlignDown(ro)) /\ AlignDown(ro) <= ro
      /\ ro < AlignDown(ro) + PageSize /\ PageSize \in Nat
  BY PageOf, Sizes
<1>4. PICK d \in Nat : d = ro - AlignDown(ro)
  BY <1>3
<1>5. d \in 0 .. PageSize - 1 /\ ro = AlignDown(ro) + d
  BY <1>3, <1>4
<1>6. ro % PageSize = d /\ (a + d) % PageSize = d /\ AlignDown(a + d) = a
  <2>1. PageSize > 0 /\ d % PageSize = d
    BY <1>5, Sizes, RemainderSmall
  <2>2. AlignDown(ro) \in Int /\ a \in Int /\ d \in Int
    BY <1>2, <1>3, <1>4
  <2>3. (AlignDown(ro) + d) % PageSize = d % PageSize /\ (a + d) % PageSize = d % PageSize
    BY <1>2, <1>3, <2>2, WholeSum, Zenon
  <2>4. AlignDown(a + d) = (a + d) - d
    BY <2>1, <2>3 DEF AlignDown
  <2>5. QED
    BY <1>2, <1>4, <1>5, <2>1, <2>3, <2>4
<1>7. /\ claims'[o] = [ro |-> ro, size |-> size, rw |-> a + d]
      /\ \A u \in Owners : u # o => claims'[u] = claims[u]
  BY <1>1, <1>4 DEF TypeOK
<1>8. claims'[o] \in Claims /\ claims'[o] # None
  BY <1>2, <1>7, MemoryAssumption DEF Claims
<1>9. SamePlace(claims'[o]) /\ claims'[o].ro = ro /\ claims'[o].size = size
  BY <1>6, <1>7, <1>8 DEF SamePlace
<1>10. claims' \in [Owners -> Claims \cup {None}]
  BY <1>1, <1>7, <1>8 DEF TypeOK
<1>11. Claimers' = Claimers \cup {o}
  BY <1>7, <1>8 DEF Claimers
<1>12. Space(claims'[o]) = PagesOf(a, AlignUp(size))
  BY <1>6, <1>7 DEF Space, AlignedRw, AlignedSize
<1>13. \A u \in Claimers : Space(claims'[o]) \cap Space(claims[u]) = {}
  BY <1>2, <1>12, ReservedSpace
<1>14. \A u \in Claimers : claims'[u] = claims[u]
  BY <1>7 DEF Claimers
<1>15. Apart'
  <2> SUFFICES ASSUME NEW u \in Claimers', NEW v \in Claimers', u # v
               PROVE  Space(claims'[u]) \cap Space(claims'[v]) = {}
    BY DEF Apart, Space, PagesOf, AlignedRw, AlignedSize, AlignDown, AlignUp, Whole
  <2>1. CASE u \in Claimers /\ v \in Claimers
    BY <1>14, <2>1 DEF ClaimInv, Apart
  <2>2. CASE u = o
    BY <1>11, <1>13, <1>14, <2>2
  <2>3. CASE v = o
    BY <1>11, <1>13, <1>14, <2>3
  <2>4. QED
    BY <1>11, <2>1, <2>2, <2>3
<1>16. who' = o /\ pc' = "mapping" /\ info' \in RangeSet
  BY <1>3 DEF Construct, RangeSet, NoRange, Kinds
<1>17. QED
  BY <1>9, <1>10, <1>11, <1>7, <1>15, <1>16

\* The constructor of RwPages, called by o: it goes on with the mapping.
LEMMA Constructs ==
  ASSUME TypeOK, ScanInv, ClaimInv, NEW o \in Owners, o \notin Claimers,
         UpTo(o) = Claimers \cup {o}, NEW ro \in Nat, NEW size \in Nat, Construct(o, ro, size),
         UNCHANGED <<map, scanning, pages, stream, code>>,
         pc \in {"FoundModules", "exl_main", "InitializeInline", "features"},
         Len(found) > 1, self # -1,
         ClaimOf(o)'.ro = ro, ClaimOf(o)'.size = size,
         \A u \in Claimers : ClaimOf(u)' = ClaimOf(u),
         o = "ctrl" => HookKnown',
         rows' \in 0 .. HookMax + 1, entries' \in 0 .. InlinePoolCount, hooks' \in 0 .. MaxHooks,
         hook' = None \/ /\ hook'.at \in Nat /\ hook'.far \in BOOLEAN
                         /\ hook'.row \subseteq Nat /\ hook'.entry \subseteq Nat
  PROVE  TypeOK' /\ ScanInv' /\ ClaimInv'
<1>1. /\ claims' \in [Owners -> Claims \cup {None}]
      /\ SamePlace(claims'[o]) /\ claims'[o].ro = ro /\ claims'[o].size = size
      /\ \A u \in Owners : u # o => claims'[u] = claims[u]
      /\ Claimers' = Claimers \cup {o} /\ Apart'
      /\ who' = o /\ pc' = "mapping" /\ info' \in RangeSet
  BY NewClaim
<1>2. UNCHANGED <<map, state, cur, found, self, pages, stream, written, intended, stale>>
  BY DEF scanning, code
<1>3. \A u \in Claimers : claims'[u] = claims[u] /\ u \in Owners
  BY <1>1 DEF Claimers
<1>4. TypeOK'
  BY <1>1, <1>2 DEF TypeOK
<1>5. ScanInv'
  BY <1>1, <1>2 DEF ScanInv, Walk, Found, FoundAll, Booted
<1>6. Staged'
  BY <1>1 DEF Staged, HookClaimed
<1>7. ClaimsKnown'
  <2> SUFFICES ASSUME NEW u \in Claimers'
               PROVE  /\ claims'[u].ro = ClaimOf(u)'.ro /\ claims'[u].size = ClaimOf(u)'.size
                      /\ claims'[u].rw % PageSize = claims'[u].ro % PageSize
    BY <1>2 DEF ClaimsKnown
  <2>1. CASE u = o
    BY <1>1, <2>1 DEF SamePlace
  <2>2. CASE u \in Claimers
    BY <1>3, <2>2 DEF ClaimInv, ClaimsKnown
  <2>3. QED
    BY <1>1, <2>1, <2>2
<1>8. Shown'
  BY <1>1, <1>2, <1>3 DEF ClaimInv, Shown
<1>9. Covered'
  <2>1. \A u \in Claimers : Covers(claims[u])
    BY DEF ClaimInv, Covered
  <2>2. \A u \in Claimers : Covers(claims[u])'
    BY <1>2, <1>3, <2>1 DEF Covers
  <2>3. QED
    BY <1>1, <2>2 DEF Covered
<1>10. Unmapping' /\ HookKnown'
  BY <1>1 DEF Unmapping, HookKnown, Installing, HookClaimed
<1>11. QED
  BY <1>1, <1>4, <1>5, <1>6, <1>7, <1>8, <1>9, <1>10 DEF ClaimInv

LEMMA PatcherClaimed ==
  ASSUME TypeOK, ScanInv, ClaimInv, InitPatcherImpl
  PROVE  TypeOK' /\ ScanInv' /\ ClaimInv'
<1>1. /\ pc = "FoundModules" /\ self # -1 /\ Len(found) > 1
      /\ UNCHANGED <<map, scanning, pages, hooking, stream, code>>
      /\ Construct("patcher", Main.total.addr, Ends(Main.rodata) - Main.total.addr)
  BY DEF InitPatcherImpl
<1>2. Claimers = {}
  BY <1>1 DEF ClaimInv, Staged
<1>3. /\ ClaimOf("patcher")'.ro = Main.total.addr
      /\ ClaimOf("patcher")'.size = Ends(Main.rodata) - Main.total.addr
  BY <1>1 DEF ClaimOf, Main, scanning
<1>4. /\ Main.total.addr \in Nat /\ Ends(Main.rodata) - Main.total.addr \in Nat
  BY <1>1, Origins
<1>5. /\ rows' \in 0 .. HookMax + 1 /\ entries' \in 0 .. InlinePoolCount /\ hooks' \in 0 .. MaxHooks
      /\ hook' = None \/ /\ hook'.at \in Nat /\ hook'.far \in BOOLEAN
                         /\ hook'.row \subseteq Nat /\ hook'.entry \subseteq Nat
  BY <1>1 DEF hooking, TypeOK
<1>6. QED
  BY <1>1, <1>2, <1>3, <1>4, <1>5, Owner, Constructs

LEMMA HookJitClaimed ==
  ASSUME TypeOK, ScanInv, ClaimInv, InitializeHooks
  PROVE  TypeOK' /\ ScanInv' /\ ClaimInv'
<1>1. /\ pc = "exl_main" /\ UNCHANGED <<map, scanning, pages, hooking, stream, code>>
      /\ Construct("hookJit", SelfText + HookJitAt, JitSize)
  BY DEF InitializeHooks
<1>2. Claimers = {"patcher"} /\ self # -1 /\ Len(found) > 1
  BY <1>1, Owner DEF ClaimInv, Staged, ScanInv, Booted
<1>3. /\ ClaimOf("hookJit")'.ro = SelfText + HookJitAt /\ ClaimOf("hookJit")'.size = JitSize
      /\ \A u \in Claimers : ClaimOf(u)' = ClaimOf(u)
  BY <1>1, <1>2 DEF ClaimOf, Main, SelfText, scanning
<1>4. SelfText + HookJitAt \in Nat /\ JitSize \in Nat
  BY <1>2, Origins, Sizes
<1>5. /\ rows' \in 0 .. HookMax + 1 /\ entries' \in 0 .. InlinePoolCount /\ hooks' \in 0 .. MaxHooks
      /\ hook' = None \/ /\ hook'.at \in Nat /\ hook'.far \in BOOLEAN
                         /\ hook'.row \subseteq Nat /\ hook'.entry \subseteq Nat
  BY <1>1 DEF hooking, TypeOK
<1>6. "hookJit" \notin Claimers /\ UpTo("hookJit") = Claimers \cup {"hookJit"}
  BY <1>2, Owner
<1>7. QED
  BY <1>1, <1>2, <1>3, <1>4, <1>5, <1>6, Owner, Constructs

LEMMA InlineJitClaimed ==
  ASSUME TypeOK, ScanInv, ClaimInv, InitializeInline
  PROVE  TypeOK' /\ ScanInv' /\ ClaimInv'
<1>1. /\ pc = "InitializeInline" /\ UNCHANGED <<map, scanning, pages, hooking, stream, code>>
      /\ Construct("inlineJit", SelfText + InlineJitAt, InlinePoolSize)
  BY DEF InitializeInline
<1>2. Claimers = {"patcher", "hookJit"} /\ self # -1 /\ Len(found) > 1
  BY <1>1, Owner DEF ClaimInv, Staged, ScanInv, Booted
<1>3. /\ ClaimOf("inlineJit")'.ro = SelfText + InlineJitAt
      /\ ClaimOf("inlineJit")'.size = InlinePoolSize
      /\ \A u \in Claimers : ClaimOf(u)' = ClaimOf(u)
  BY <1>1, <1>2 DEF ClaimOf, Main, SelfText, scanning
<1>4. SelfText + InlineJitAt \in Nat /\ InlinePoolSize \in Nat
  BY <1>2, Origins, Sizes
<1>5. /\ rows' \in 0 .. HookMax + 1 /\ entries' \in 0 .. InlinePoolCount /\ hooks' \in 0 .. MaxHooks
      /\ hook' = None \/ /\ hook'.at \in Nat /\ hook'.far \in BOOLEAN
                         /\ hook'.row \subseteq Nat /\ hook'.entry \subseteq Nat
  BY <1>1 DEF hooking, TypeOK
<1>6. "inlineJit" \notin Claimers /\ UpTo("inlineJit") = Claimers \cup {"inlineJit"}
  BY <1>2, Owner
<1>7. QED
  BY <1>1, <1>2, <1>3, <1>4, <1>5, <1>6, Owner, Constructs

LEMMA RowOfNaturals ==
  ASSUME NEW a \in Nat, NEW i \in Nat, NEW n \in Nat
  PROVE  a + i * n .. (a + i * n) + n - 1 \subseteq Nat
OBVIOUS

LEMMA RowTyped ==
  ASSUME SelfText \in Nat, NEW i \in Nat
  PROVE  Row(i) \subseteq Nat /\ Entry(i) \subseteq Nat
<1>1. SelfText + HookJitAt \in Nat /\ SelfText + InlineJitAt \in Nat
      /\ TrampolineSize \in Nat /\ EntrySize \in Nat
  BY Sizes
<1>2. QED
  BY <1>1, RowOfNaturals, Zenon DEF Row, Entry

LEMMA HookBegins ==
  ASSUME TypeOK, ScanInv, ClaimInv, NEW kind \in {"replace", "trampoline", "inline"},
         NEW offset \in HookOffsets, NEW far \in BOOLEAN, Hook(kind, offset, far)
  PROVE  TypeOK' /\ ScanInv' /\ ClaimInv'
<1> DEFINE at == Main.total.addr + offset
<1>1. /\ pc = "features" /\ hooks < MaxHooks
      /\ kind # "replace" => rows <= HookMax
      /\ kind = "inline" => entries < InlinePoolCount
      /\ hooks' = hooks + 1
      /\ hook' = [at |-> at, far |-> far, row |-> IF kind = "replace" THEN {} ELSE Row(rows),
                  entry |-> IF kind = "inline" THEN Entry(entries) ELSE {}]
      /\ rows' = IF kind = "replace" THEN rows ELSE rows + 1
      /\ entries' = IF kind = "inline" THEN entries + 1 ELSE entries
      /\ Construct("ctrl", at, Claimed(far))
      /\ UNCHANGED <<map, scanning, pages, stream, code>>
  BY DEF Hook
<1>2. Claimers = Lasting /\ self # -1 /\ Len(found) > 1
  BY <1>1 DEF ClaimInv, Staged, ScanInv, Booted
<1>3. Main.total.addr \in Nat /\ SelfText \in Nat /\ offset \in Nat
  BY <1>2, Origins, Sizes
<1>4. at \in Nat /\ Claimed(far) \in Nat
  BY <1>3 DEF Claimed
<1> HIDE DEF at
<1>5. /\ rows \in 0 .. HookMax + 1 /\ entries \in 0 .. InlinePoolCount /\ hooks \in 0 .. MaxHooks
      /\ rows \in Nat /\ entries \in Nat
  BY DEF TypeOK
<1>6. /\ kind # "replace" => rows' > 0 /\ rows' - 1 = rows /\ rows' \in 0 .. HookMax + 1
      /\ kind = "inline" => entries' > 0 /\ entries' - 1 = entries /\ entries' \in 0 .. InlinePoolCount
      /\ rows' \in 0 .. HookMax + 1 /\ entries' \in 0 .. InlinePoolCount /\ hooks' \in 0 .. MaxHooks
  <2>1. HookMax \in Int /\ InlinePoolCount \in Int
    BY Sizes DEF HookMax, InlinePoolCount
  <2>2. QED
    BY <1>1, <1>5, <2>1, Sizes
<1>7. Row(rows) \subseteq Nat /\ Entry(entries) \subseteq Nat
  BY <1>3, <1>5, RowTyped
<1>8. /\ hook'.at = at /\ hook'.far = far
      /\ hook'.row = IF kind = "replace" THEN {} ELSE Row(rows)
      /\ hook'.entry = IF kind = "inline" THEN Entry(entries) ELSE {}
  BY <1>1
<1>9. /\ hook'.at \in Nat /\ hook'.far \in BOOLEAN
      /\ hook'.row \subseteq Nat /\ hook'.entry \subseteq Nat
  BY <1>4, <1>7, <1>8
<1>10. HookKnown'
  <2>1. SelfText' = SelfText
    BY <1>1 DEF SelfText, scanning
  <2>2. hook'.row = {} \/ (rows' > 0 /\ hook'.row = Row(rows - 1)')
    <3>1. kind # "replace" => Row(rows) = Row(rows - 1)'
      BY <1>6, <2>1, Zenon DEF Row
    <3>2. QED
      BY <1>6, <1>8, <3>1
  <2>3. hook'.entry = {} \/ (entries' > 0 /\ hook'.entry = Entry(entries - 1)')
    <3>1. kind = "inline" => Entry(entries) = Entry(entries - 1)'
      BY <1>6, <2>1, Zenon DEF Entry
    <3>2. QED
      BY <1>6, <1>8, <3>1
  <2>4. QED
    BY <1>9, <2>2, <2>3 DEF HookKnown
<1>11. /\ ClaimOf("ctrl")'.ro = at /\ ClaimOf("ctrl")'.size = Claimed(far)
       /\ \A u \in Claimers : ClaimOf(u)' = ClaimOf(u)
  BY <1>1, <1>2, <1>8, Owner DEF ClaimOf, Main, SelfText, scanning
<1>12. "ctrl" \notin Claimers /\ UpTo("ctrl") = Claimers \cup {"ctrl"}
  BY <1>2, Owner
<1>13. QED
  BY <1>1, <1>2, <1>4, <1>6, <1>9, <1>10, <1>11, <1>12, Owner, Constructs

\* A turn of ForEachMemRange goes to the range behind the last one.
LEMMA MemRange ==
  ASSUME TypeOK, NEW after, NextMemRange(after)
  PROVE  /\ info' \in RangeSet /\ info'.addr \in Nat /\ Ends(info') \in Nat /\ Ends(info) \in Nat
         /\ Ends(info') <= AddressSpace
         /\ Ends(info) < AddressSpace => info'.addr <= Ends(info)
         /\ pc' = IF Ends(info') < AlignedRo(claims[who]) + AlignedSize(claims[who])
                  THEN pc ELSE after
<1>1. map \in Maps /\ info \in RangeSet
  BY DEF TypeOK
<1>2. Ends(info) \in Nat
  BY <1>1 DEF Ends, RangeSet
<1>3. PICK k \in 1 .. Len(map) :
        Ends(info) % AddressSpace \in Words(map[k]) /\ QueryMemory(Ends(info)) = map[k]
  BY <1>1, <1>2, Queried
<1>4. info' = map[k]
  BY <1>3 DEF NextMemRange
<1>5. /\ map[k] \in RangeSet /\ map[k].addr \in Nat /\ Ends(map[k]) \in Nat
      /\ Ends(map[k]) <= AddressSpace
  BY <1>1, Ranges, EndsInside
<1>6. ASSUME Ends(info) < AddressSpace PROVE map[k].addr <= Ends(info)
  <2>1. Ends(info) % AddressSpace = Ends(info)
    BY <1>2, <1>6, Sizes, RemainderSmall
  <2>2. QED
    BY <1>3, <1>5, <2>1 DEF Words
<1>7. QED
  BY <1>2, <1>4, <1>5, <1>6 DEF NextMemRange

LEMMA MapsRange ==
  ASSUME TypeOK, ScanInv, ClaimInv, MapRange
  PROVE  TypeOK' /\ ScanInv' /\ ClaimInv'
<1>1. /\ pc = "mapping" /\ NextMemRange("mapped") /\ pages' = pages \cup Views(claims[who], info')
      /\ UNCHANGED <<map, scanning, claims, who, hooking, stream, code>>
  BY DEF MapRange
<1>2. info' \in RangeSet /\ info'.addr \in Nat /\ Ends(info') \in Nat /\ pc' \in {"mapping", "mapped"}
  BY <1>1, MemRange
<1>3. who \in Claimers /\ SamePlace(claims[who])
  <2>1. who \in Owners /\ Claimers = UpTo(who)
    BY <1>1 DEF TypeOK, ClaimInv, Staged
  <2>2. QED
    BY <2>1, Owner, ClaimSame
<1>4. \A p \in Views(claims[who], info') : p \in Show(claims[who]) /\ p \in Nat \X Nat
  BY <1>2, <1>3, ViewsShown, ShowFacts
<1>5. UNCHANGED <<map, state, cur, found, self, claims, who, hook, rows, entries, hooks, stream,
                  written, intended, stale>>
  BY <1>1 DEF scanning, hooking, code
<1>6. TypeOK'
  BY <1>1, <1>2, <1>4, <1>5 DEF TypeOK
<1>7. ScanInv'
  BY <1>1, <1>2, <1>5 DEF ScanInv, Walk, Found, FoundAll, Booted
<1>8. Staged'
  BY <1>1, <1>2, <1>5 DEF ClaimInv, Staged, Claimers, HookClaimed
<1>9. ClaimsKnown'
  BY <1>5 DEF ClaimInv, ClaimsKnown, Claimers, ClaimOf, Main, SelfText
<1>10. Apart'
  BY <1>5 DEF ClaimInv, Apart, Claimers
<1>11. Shown'
  BY <1>1, <1>3, <1>4, <1>5 DEF ClaimInv, Shown, Claimers
<1>12. Covered'
  <2>1. \A u \in Claimers : u # who => Covers(claims[u])
    BY DEF ClaimInv, Covered
  <2>2. \A u \in Claimers : u # who => Covers(claims[u])'
    BY <1>1, <1>5, <2>1 DEF Covers
  <2>3. QED
    BY <1>2, <1>5, <2>2 DEF Covered, Claimers
<1>13. Unmapping' /\ HookKnown'
  BY <1>1, <1>2, <1>5 DEF Unmapping, ClaimInv, HookKnown, Installing, HookClaimed, Row, Entry,
                          SelfText
<1>14. QED
  BY <1>6, <1>7, <1>8, <1>9, <1>10, <1>11, <1>12, <1>13 DEF ClaimInv

LEMMA Aborts ==
  ASSUME TypeOK, ScanInv, ClaimInv, Abort
  PROVE  TypeOK' /\ ScanInv' /\ ClaimInv'
<1>1. /\ pc' = "aborted"
      /\ UNCHANGED <<map, info, state, cur, found, self, claims, who, pages, hook, rows, entries,
                     hooks, stream, written, intended, stale>>
  BY DEF Abort, scanning, mapping, hooking, code
<1>2. TypeOK'
  BY <1>1 DEF TypeOK
<1>3. ScanInv'
  BY <1>1 DEF ScanInv, Walk, Found, FoundAll, Booted
<1>4. Staged' /\ Apart' /\ Shown' /\ Unmapping' /\ HookKnown'
  BY <1>1 DEF ClaimInv, Staged, HookClaimed, Apart, Shown, Claimers, Unmapping, HookKnown,
              Installing
<1>5. ClaimsKnown'
  BY <1>1 DEF ClaimInv, ClaimsKnown, Claimers, ClaimOf, Main, SelfText
<1>6. Covered'
  BY <1>1 DEF ClaimInv, Covered, Claimers, Covers
<1>7. QED
  BY <1>2, <1>3, <1>4, <1>5, <1>6 DEF ClaimInv

\* While FindModules walks nothing is claimed.
LEMMA NothingClaimed ==
  ASSUME TypeOK, ClaimInv, pc = "FindModules", ScanTypes',
         pc' \in {"FindModules", "FoundModules"}, UNCHANGED <<map, mapping, hooking, stream, code>>
  PROVE  TypeOK' /\ ClaimInv'
<1>1. UNCHANGED <<map, claims, who, pages, hook, rows, entries, hooks, stream, written, intended,
                  stale>>
  BY DEF mapping, hooking, code
<1>2. Claimers = {} /\ pages = {}
  BY DEF ClaimInv, Staged, Shown
<1>3. Claimers' = {} /\ pages' = {}
  BY <1>1, <1>2 DEF Claimers
<1>4. TypeOK'
  BY <1>1 DEF TypeOK, ScanTypes, ModuleSet
<1>5. QED
  BY <1>3, <1>4 DEF ClaimInv, Staged, HookClaimed, ClaimsKnown, Apart, Shown, Covered, Unmapping,
                    HookKnown, Installing

LEMMA ModulesSearched ==
  ASSUME TypeOK, ScanInv, ClaimInv, FindModules
  PROVE  TypeOK' /\ ScanInv' /\ ClaimInv'
<1>1. CASE TooManyStaticModules
  BY <1>1, Aborts DEF TooManyStaticModules
<1>2. CASE LookingForCodeStatic
  BY <1>2, TextLookedFor, NothingClaimed DEF LookingForCodeStatic
<1>3. CASE ExpectingRodata
  BY <1>3, RodataExpected, NothingClaimed DEF ExpectingRodata
<1>4. CASE ExpectingData
  BY <1>4, DataExpected, NothingClaimed DEF ExpectingData
<1>5. QED
  BY <1>1, <1>2, <1>3, <1>4 DEF FindModules

\* The constructor is done: the claim is covered.
LEMMA ClaimDone ==
  ASSUME TypeOK, ScanInv, ClaimInv, Constructed
  PROVE  TypeOK' /\ ScanInv' /\ ClaimInv'
<1>1. /\ pc = "mapped" /\ Covers(claims[who])
      /\ UNCHANGED <<map, info, state, cur, found, self, claims, who, pages, hook, rows, entries,
                     hooks, stream, written, intended, stale>>
  BY DEF Constructed, scanning, mapping, hooking, code
<1>2. /\ who = "patcher" => pc' = "exl_main"
      /\ who = "hookJit" => pc' = "InitializeInline"
      /\ who = "inlineJit" => pc' = "features"
      /\ who = "ctrl" => pc' = "HookFuncImpl"
  BY DEF Constructed
<1>3. who = "patcher" \/ who = "hookJit" \/ who = "inlineJit" \/ who = "ctrl"
  BY Owner DEF TypeOK
<1>4. TypeOK'
  BY <1>1, <1>2, <1>3 DEF TypeOK
<1>5. ScanInv'
  BY <1>1, <1>2, <1>3 DEF ScanInv, Walk, Found, FoundAll, Booted
<1>6. Staged'
  <2>1. Claimers' = UpTo(who) /\ who' = who
    BY <1>1 DEF ClaimInv, Staged, Claimers
  <2>2. QED
    BY <1>2, <1>3, <2>1, Owner DEF Staged, HookClaimed, Lasting
<1>7. Apart' /\ Shown'
  BY <1>1 DEF ClaimInv, Apart, Shown, Claimers
<1>8. ClaimsKnown'
  BY <1>1 DEF ClaimInv, ClaimsKnown, Claimers, ClaimOf, Main, SelfText
<1>9. Covered'
  BY <1>1 DEF ClaimInv, Covered, Claimers, Covers
<1>10. Unmapping' /\ HookKnown'
  BY <1>1, <1>2, <1>3 DEF ClaimInv, Unmapping, HookKnown, Installing, HookClaimed, Row, Entry,
                          SelfText
<1>11. QED
  BY <1>4, <1>5, <1>6, <1>7, <1>8, <1>9, <1>10 DEF ClaimInv

LEMMA UnmappingBegins ==
  ASSUME TypeOK, ScanInv, ClaimInv, Destruct
  PROVE  TypeOK' /\ ScanInv' /\ ClaimInv'
<1>1. /\ pc = "~RwPages" /\ pc' = "unmapping" /\ stale' \subseteq stale
      /\ info' = [addr |-> AlignedRo(claims[who]), size |-> 0, kind |-> "other"]
      /\ UNCHANGED <<map, state, cur, found, self, claims, who, pages, hook, rows, entries,
                     hooks, stream, written, intended>>
  BY DEF Destruct, scanning, mapping, hooking, NoRange
<1>2. who = "ctrl" /\ Claimers = Owners
  BY <1>1 DEF ClaimInv, Staged, HookClaimed
<1>3. SamePlace(claims["ctrl"])
  BY <1>2, Owner, ClaimSame
<1>4. AlignedRo(claims["ctrl"]) \in Nat
  BY <1>3, ClaimPages
<1>5. info' \in RangeSet /\ Ends(info') = AlignedRo(claims["ctrl"])
  BY <1>1, <1>2, <1>4 DEF RangeSet, Kinds, Ends
<1>6. TypeOK'
  BY <1>1, <1>5 DEF TypeOK
<1>7. ScanInv'
  BY <1>1 DEF ScanInv, Walk, Found, FoundAll, Booted
<1>8. Staged' /\ Apart' /\ Shown'
  BY <1>1, <1>2 DEF ClaimInv, Staged, HookClaimed, Apart, Shown, Claimers
<1>9. ClaimsKnown'
  BY <1>1 DEF ClaimInv, ClaimsKnown, Claimers, ClaimOf, Main, SelfText
<1>10. Covered'
  BY <1>1 DEF ClaimInv, Covered, Claimers, Covers
<1>11. Unmapping'
  <2>1. \A p \in Show(claims["ctrl"]) : p[2] >= AlignedRo(claims["ctrl"])
    BY <1>3, <1>4, ShowFacts
  <2>2. QED
    BY <1>1, <1>5, <2>1 DEF Unmapping
<1>12. HookKnown'
  BY <1>1 DEF ClaimInv, HookKnown, Installing, HookClaimed, Row, Entry, SelfText
<1>13. QED
  BY <1>6, <1>7, <1>8, <1>9, <1>10, <1>11, <1>12 DEF ClaimInv

\* The pairs of pages that a claim covers are not those of another claim.
LEMMA OthersKept ==
  ASSUME TypeOK, ScanInv, ClaimInv, NEW o \in Claimers, o # "ctrl", "ctrl" \in Claimers,
         NEW w \in 0 .. claims[o].size - 1
  PROVE  <<AlignDown(claims[o].rw + w), AlignDown(claims[o].ro + w)>> \notin Show(claims["ctrl"])
<1> DEFINE p == <<AlignDown(claims[o].rw + w), AlignDown(claims[o].ro + w)>>
<1>1. SamePlace(claims[o]) /\ SamePlace(claims["ctrl"]) /\ Whole(claims[o].ro)
  BY ClaimSame, LastingWhole
<1>2. p \in Show(claims[o])
  BY <1>1, WholeClaim
<1>3. p[1] \in Space(claims[o])
  BY <1>1, <1>2, ShowFacts
<1>4. Space(claims[o]) \cap Space(claims["ctrl"]) = {}
  BY DEF ClaimInv, Apart
<1>5. QED
  BY <1>1, <1>3, <1>4, ShowFacts

LEMMA UnmapsRange ==
  ASSUME TypeOK, ScanInv, ClaimInv, UnmapRange
  PROVE  TypeOK' /\ ScanInv' /\ ClaimInv'
<1>1. /\ pc = "unmapping" /\ NextMemRange("unmapped") /\ pages' = pages \ Views(claims[who], info')
      /\ UNCHANGED <<map, state, cur, found, self, claims, who, hook, rows, entries, hooks, stream,
                     written, intended, stale>>
  BY DEF UnmapRange, scanning, hooking, code
<1>2. who = "ctrl" /\ Claimers = Owners /\ "ctrl" \in Claimers
  BY <1>1, Owner DEF ClaimInv, Staged, HookClaimed
<1> DEFINE c == claims["ctrl"]
<1>3. SamePlace(c) /\ AlignedRo(c) \in Nat /\ AlignedSize(c) \in Nat
  BY <1>2, ClaimSame, ClaimPages
<1>4. /\ info' \in RangeSet /\ info'.addr \in Nat /\ Ends(info') \in Nat /\ Ends(info) \in Nat
      /\ Ends(info') <= AddressSpace
      /\ Ends(info) < AddressSpace => info'.addr <= Ends(info)
      /\ pc' = IF Ends(info') < AlignedRo(c) + AlignedSize(c) THEN "unmapping" ELSE "unmapped"
  BY <1>1, <1>2, MemRange
<1>5. /\ pages' \subseteq pages
      /\ \A p \in Show(c) : info'.addr <= p[2] /\ p[2] < Ends(info') => p \notin pages'
      /\ \A p \in pages : p \notin Show(c) => p \in pages'
  BY <1>1, <1>2, <1>3, <1>4, ViewsShown
<1>6. TypeOK'
  BY <1>1, <1>4, <1>5 DEF TypeOK
<1>7. ScanInv'
  BY <1>1, <1>4 DEF ScanInv, Walk, Found, FoundAll, Booted
<1>8. Staged' /\ Apart' /\ Shown'
  BY <1>1, <1>2, <1>4, <1>5 DEF ClaimInv, Staged, HookClaimed, Apart, Shown, Claimers
<1>9. ClaimsKnown'
  BY <1>1 DEF ClaimInv, ClaimsKnown, Claimers, ClaimOf, Main, SelfText
<1>10. Covered'
  <2> SUFFICES ASSUME NEW o \in Claimers', o # "ctrl" PROVE Covers(claims[o])'
    BY <1>1, <1>2, <1>4 DEF Covered
  <2>1. o \in Claimers /\ claims'[o] = claims[o]
    BY <1>1 DEF Claimers
  <2>2. Covers(claims[o])
    BY <1>2, <2>1 DEF ClaimInv, Covered
  <2>3. \A w \in 0 .. claims[o].size - 1 :
          <<AlignDown(claims[o].rw + w), AlignDown(claims[o].ro + w)>> \in pages'
    BY <1>2, <1>5, <2>1, <2>2, OthersKept DEF Covers
  <2>4. QED
    BY <2>1, <2>3 DEF Covers
<1>11. ASSUME NEW p \in pages', p \in Show(c)
       PROVE  p[2] >= Ends(info') /\ p[2] < AlignedRo(c) + AlignedSize(c) /\ p[2] \in Nat
  <2>1. p \in pages /\ p[2] \in Nat /\ p[2] < AlignedRo(c) + AlignedSize(c) /\ p[2] >= Ends(info)
    BY <1>1, <1>3, <1>5, <1>11, ShowFacts DEF ClaimInv, Unmapping
  <2>2. ~(info'.addr <= p[2] /\ p[2] < Ends(info'))
    BY <1>5, <1>11
  <2>3. QED
    BY <1>4, <2>1, <2>2, Sizes
<1>12. Unmapping'
  <2>1. pc' = "unmapping" => \A p \in pages' : p \in Show(c) => p[2] >= Ends(info')
    BY <1>11
  <2>2. pc' = "unmapped" => \A p \in pages' : p \notin Show(c)
    <3>1. pc' = "unmapped" => Ends(info') >= AlignedRo(c) + AlignedSize(c)
      BY <1>3, <1>4
    <3>2. QED
      BY <1>3, <1>4, <1>11, <3>1
  <2>3. QED
    BY <1>1, <2>1, <2>2 DEF Unmapping
<1>13. HookKnown'
  BY <1>1, <1>4 DEF ClaimInv, HookKnown, Installing, HookClaimed, Row, Entry, SelfText
<1>14. QED
  BY <1>6, <1>7, <1>8, <1>9, <1>10, <1>12, <1>13 DEF ClaimInv

LEMMA ReservationEnds ==
  ASSUME TypeOK, ScanInv, ClaimInv, RemoveReservation
  PROVE  TypeOK' /\ ScanInv' /\ ClaimInv'
<1>1. /\ pc = "unmapped" /\ pc' = "Hook" /\ claims' = [claims EXCEPT ![who] = None]
      /\ UNCHANGED <<map, info, state, cur, found, self, who, pages, hook, rows, entries,
                     hooks, stream, written, intended, stale>>
  BY DEF RemoveReservation, scanning, hooking, code
<1>2. who = "ctrl" /\ Claimers = Owners
  BY <1>1 DEF ClaimInv, Staged, HookClaimed
<1>3. claims' \in [Owners -> Claims \cup {None}]
  BY <1>1 DEF TypeOK
<1>4. /\ claims'["ctrl"] = None
      /\ \A o \in Owners : o # "ctrl" => claims'[o] = claims[o]
  BY <1>1, <1>2, Owner DEF TypeOK
<1>5. Claimers' = Lasting /\ \A o \in Lasting : o \in Claimers /\ o # "ctrl" /\ claims'[o] = claims[o]
  BY <1>2, <1>4, Owner DEF Claimers
<1>6. TypeOK'
  BY <1>1, <1>3 DEF TypeOK
<1>7. ScanInv'
  BY <1>1 DEF ScanInv, Walk, Found, FoundAll, Booted
<1>8. Staged'
  BY <1>1, <1>5 DEF Staged, HookClaimed
<1>9. ClaimsKnown'
  BY <1>1, <1>5 DEF ClaimInv, ClaimsKnown, ClaimOf, Main, SelfText
<1>10. Apart'
  BY <1>5 DEF ClaimInv, Apart
<1>11. Shown'
  <2> SUFFICES ASSUME NEW p \in pages PROVE \E o \in Claimers' : p \in Show(claims'[o])
    BY <1>1 DEF Shown
  <2>1. PICK o \in Claimers : p \in Show(claims[o])
    BY DEF ClaimInv, Shown
  <2>2. o # "ctrl" /\ o \in Owners
    BY <1>1, <1>2, <2>1 DEF ClaimInv, Unmapping
  <2>3. QED
    BY <1>5, <2>1, <2>2, Owner
<1>12. Covered'
  <2>1. \A o \in Lasting : Covers(claims[o])
    BY <1>2, <1>5 DEF ClaimInv, Covered
  <2>2. QED
    BY <1>1, <1>5, <2>1 DEF Covered, Covers
<1>13. Unmapping' /\ HookKnown'
  BY <1>1 DEF ClaimInv, Unmapping, HookKnown, Installing, HookClaimed, Row, Entry, SelfText
<1>14. QED
  BY <1>6, <1>7, <1>8, <1>9, <1>10, <1>11, <1>12, <1>13 DEF ClaimInv

\* What is written lands somewhere.
LEMMA LandedTyped ==
  ASSUME TypeOK, NEW o \in Claimers, NEW ws \in SUBSET Nat
  PROVE  Landed(o, ws) \subseteq Nat
<1>1. claims[o].ro \in Nat /\ claims[o].rw \in Nat
  BY DEF TypeOK, Claimers, Claims
<1>2. ASSUME NEW w \in ws, NEW p \in Hit(o, w) PROVE p[2] + (RwOf(o, w) - p[1]) \in Nat
  <2>1. RwOf(o, w) \in Int
    BY <1>1 DEF RwOf
  <2>2. AlignDown(RwOf(o, w)) \in Int /\ AlignDown(RwOf(o, w)) <= RwOf(o, w)
    BY <2>1, Page
  <2>3. p[1] = AlignDown(RwOf(o, w)) /\ p[2] \in Nat
    BY DEF Hit, TypeOK
  <2>4. QED
    BY <2>1, <2>2, <2>3
<1>3. QED
  BY <1>2 DEF Landed

\* The steps that leave the mappings alone.
Turns == {<<"HookFuncImpl", "__flush_cache">>, <<"__flush_cache", "~RwPages">>,
          <<"Hook", "features">>, <<"Hook", "HookInline">>, <<"HookInline", "FlushInline">>,
          <<"FlushInline", "features">>, <<"features", "features">>}

LEMMA SteadyStep ==
  ASSUME TypeOK, ScanInv, ClaimInv, <<pc, pc'>> \in Turns,
         UNCHANGED <<map, info, scanning, mapping, rows, entries, hooks>>,
         hook' = hook \/ (hook' = None /\ pc' = "features"),
         stream' = None \/ stream' \in [start : Nat, current : Nat],
         written' \subseteq Nat, intended' \subseteq Nat, stale' \subseteq Nat
  PROVE  TypeOK' /\ ScanInv' /\ ClaimInv'
<1>1. UNCHANGED <<map, info, state, cur, found, self, claims, who, pages, rows, entries, hooks>>
  BY DEF scanning, mapping
<1>2. \/ pc = "HookFuncImpl" /\ pc' = "__flush_cache"
      \/ pc = "__flush_cache" /\ pc' = "~RwPages"
      \/ pc = "Hook" /\ pc' = "features"
      \/ pc = "Hook" /\ pc' = "HookInline"
      \/ pc = "HookInline" /\ pc' = "FlushInline"
      \/ pc = "FlushInline" /\ pc' = "features"
      \/ pc = "features" /\ pc' = "features"
  BY DEF Turns
<1>3. TypeOK'
  BY <1>1, <1>2 DEF TypeOK
<1>4. ScanInv'
  BY <1>1, <1>2 DEF ScanInv, Walk, Found, FoundAll, Booted
<1>5. Claimers' = Claimers
  BY <1>1 DEF Claimers
<1>6. Staged'
  BY <1>1, <1>2, <1>5 DEF ClaimInv, Staged, HookClaimed
<1>7. Apart' /\ Shown'
  BY <1>1, <1>5 DEF ClaimInv, Apart, Shown
<1>8. ClaimsKnown'
  <2>1. pc' = "features" => "ctrl" \notin Claimers
    BY <1>5, <1>6, Owner DEF Staged
  <2>2. \A o \in Claimers : ClaimOf(o)' = ClaimOf(o)
    BY <1>1, <2>1 DEF ClaimOf, Main, SelfText
  <2>3. QED
    BY <1>1, <1>5, <2>2 DEF ClaimInv, ClaimsKnown
<1>9. Covered'
  <2>1. \A o \in Claimers : Covers(claims[o])
    BY <1>2 DEF ClaimInv, Covered
  <2>2. QED
    BY <1>1, <1>5, <2>1 DEF Covered, Covers
<1>10. Unmapping'
  BY <1>2 DEF Unmapping
<1>11. HookKnown'
  <2>1. pc' = "features" => ~Installing'
    BY DEF Installing, HookClaimed
  <2>2. pc' # "features" => Installing /\ hook' = hook
    BY <1>2 DEF Installing, HookClaimed
  <2>3. QED
    BY <1>1, <2>1, <2>2 DEF ClaimInv, HookKnown, Row, Entry, SelfText
<1>12. QED
  BY <1>3, <1>4, <1>6, <1>7, <1>8, <1>9, <1>10, <1>11 DEF ClaimInv

LEMMA Writing ==
  ASSUME TypeOK, NEW D \in SUBSET Claimers, NEW ws \in [D -> SUBSET Nat], WriteAll(ws)
  PROVE  written' \subseteq Nat /\ intended' \subseteq Nat /\ stale' \subseteq Nat
<1>1. \A o \in D : ws[o] \subseteq Nat /\ Landed(o, ws[o]) \subseteq Nat
  BY LandedTyped
<1>2. UNION {Landed(o, ws[o]) : o \in DOMAIN ws} \subseteq Nat
  BY <1>1
<1>3. UNION {ws[o] : o \in DOMAIN ws} \subseteq Nat
  BY <1>1
<1>4. QED
  BY <1>2, <1>3 DEF WriteAll, TypeOK

LEMMA HookWrites ==
  ASSUME ClaimInv, Installing
  PROVE  /\ Patched(hook.at, hook.far) \subseteq Nat
         /\ Writes(hook) \in [{"ctrl", "hookJit"} -> SUBSET Nat]
         /\ Writes(hook)["ctrl"] = Patched(hook.at, hook.far) /\ Writes(hook)["hookJit"] = hook.row
         /\ \A w \in Patched(hook.at, hook.far) :
              w >= hook.at /\ w <= hook.at + Claimed(hook.far) - 1
<1>1. hook.at \in Nat /\ hook.far \in BOOLEAN /\ hook.row \subseteq Nat
  BY DEF ClaimInv, HookKnown
<1>2. PICK n \in 1 .. Claimed(hook.far) : Patched(hook.at, hook.far) = hook.at .. hook.at - 1 + n
  <2>1. Patched(hook.at, hook.far)
          = hook.at .. (hook.at - 1 + (IF ~hook.far THEN 1 ELSE IF hook.at % 2 # 0 THEN 5 ELSE 4))
    BY DEF Patched
  <2>2. (IF ~hook.far THEN 1 ELSE IF hook.at % 2 # 0 THEN 5 ELSE 4) \in 1 .. Claimed(hook.far)
    BY <1>1 DEF Claimed
  <2>3. QED
    BY <2>1, <2>2
<1>3. Claimed(hook.far) \in Nat
  BY DEF Claimed
<1>4. /\ Patched(hook.at, hook.far) \subseteq Nat
      /\ \A w \in Patched(hook.at, hook.far) :
           w >= hook.at /\ w <= hook.at + Claimed(hook.far) - 1
  BY <1>1, <1>2, <1>3
<1>5. QED
  BY <1>1, <1>4 DEF Writes

LEMMA HookWritten ==
  ASSUME TypeOK, ScanInv, ClaimInv, HookFuncImpl
  PROVE  TypeOK' /\ ScanInv' /\ ClaimInv'
<1>1. /\ pc = "HookFuncImpl" /\ pc' = "__flush_cache" /\ WriteAll(Writes(hook))
      /\ UNCHANGED <<map, info, scanning, mapping, hook, rows, entries, hooks, stream>>
  BY DEF HookFuncImpl, hooking
<1>2. Claimers = Owners /\ Installing
  BY <1>1 DEF ClaimInv, Staged, HookClaimed, Installing
<1>3. {"ctrl", "hookJit"} \in SUBSET Claimers
  BY <1>2, Owner
<1>4. written' \subseteq Nat /\ intended' \subseteq Nat /\ stale' \subseteq Nat
  BY <1>1, <1>2, <1>3, HookWrites, Writing
<1>5. <<pc, pc'>> \in Turns
  BY <1>1 DEF Turns
<1>6. QED
  BY <1>1, <1>4, <1>5, SteadyStep DEF TypeOK

LEMMA HookFlushed ==
  ASSUME TypeOK, ScanInv, ClaimInv, FlushHook \/ HookReturns \/ FlushInline
  PROVE  TypeOK' /\ ScanInv' /\ ClaimInv'
<1>1. /\ <<pc, pc'>> \in Turns /\ (hook' = hook \/ (hook' = None /\ pc' = "features"))
      /\ UNCHANGED <<map, info, scanning, mapping, rows, entries, hooks, stream, written, intended>>
      /\ stale' \subseteq stale
  BY DEF FlushHook, HookReturns, FlushInline, JitFlush, Turns, hooking
<1>2. QED
  BY <1>1, SteadyStep DEF TypeOK

LEMMA EntryWritten ==
  ASSUME TypeOK, ScanInv, ClaimInv, HookInline
  PROVE  TypeOK' /\ ScanInv' /\ ClaimInv'
<1>1. /\ pc = "HookInline" /\ pc' = "FlushInline" /\ WriteAll([o \in {"inlineJit"} |-> hook.entry])
      /\ UNCHANGED <<map, info, scanning, mapping, hook, rows, entries, hooks, stream>>
  BY DEF HookInline, hooking
<1>2. Claimers = Lasting /\ Installing
  BY <1>1 DEF ClaimInv, Staged, Installing
<1>3. {"inlineJit"} \in SUBSET Claimers
  BY <1>2, Owner
<1>4. [o \in {"inlineJit"} |-> hook.entry] \in [{"inlineJit"} -> SUBSET Nat]
  BY <1>2 DEF ClaimInv, HookKnown
<1>5. written' \subseteq Nat /\ intended' \subseteq Nat /\ stale' \subseteq Nat
  BY <1>1, <1>3, <1>4, Writing
<1>6. <<pc, pc'>> \in Turns
  BY <1>1 DEF Turns
<1>7. QED
  BY <1>1, <1>5, <1>6, SteadyStep DEF TypeOK

LEMMA InstWritten ==
  ASSUME TypeOK, ScanInv, ClaimInv, WriteInst
  PROVE  TypeOK' /\ ScanInv' /\ ClaimInv'
<1>1. /\ pc = "features" /\ pc' = "features" /\ stream # None
      /\ WriteAll([o \in {"patcher"} |-> ToOffsets({stream.current})])
      /\ stream' = [stream EXCEPT !.current = @ + 1]
      /\ UNCHANGED <<map, info, scanning, mapping, hook, rows, entries, hooks>>
  BY DEF WriteInst, hooking
<1>2. Claimers = Lasting /\ self # -1 /\ Len(found) > 1
  BY <1>1 DEF ClaimInv, Staged, ScanInv, Booted
<1>3. {"patcher"} \in SUBSET Claimers
  BY <1>2, Owner
<1>4. stream \in [start : Nat, current : Nat] /\ stream' \in [start : Nat, current : Nat]
  <2>1. stream \in [start : Nat, current : Nat]
    BY <1>1 DEF TypeOK
  <2>2. stream.current \in Nat /\ stream.current + 1 \in Nat
    BY <2>1
  <2>3. QED
    BY <1>1, <2>1, <2>2
<1>5. ToOffsets({stream.current}) \subseteq Nat
  BY <1>2, <1>4, Origins DEF ToOffsets
<1>6. [o \in {"patcher"} |-> ToOffsets({stream.current})] \in [{"patcher"} -> SUBSET Nat]
  BY <1>5
<1>7. written' \subseteq Nat /\ intended' \subseteq Nat /\ stale' \subseteq Nat
  BY <1>1, <1>3, <1>6, Writing
<1>8. <<pc, pc'>> \in Turns
  BY <1>1 DEF Turns
<1>9. QED
  BY <1>1, <1>4, <1>7, <1>8, SteadyStep

LEMMA PatcherMoves ==
  ASSUME TypeOK, ScanInv, ClaimInv,
         PatcherEnds \/ \E offset \in PatchOffsets : Patcher(offset) \/ Seek(offset)
  PROVE  TypeOK' /\ ScanInv' /\ ClaimInv'
<1>1. /\ pc = "features" /\ pc' = "features"
      /\ UNCHANGED <<map, info, scanning, mapping, hook, rows, entries, hooks, written, intended>>
      /\ stale' \subseteq stale
      /\ stream' = None \/ \E offset \in PatchOffsets : stream' = [start |-> offset, current |-> offset]
  BY DEF PatcherEnds, Patcher, Seek, hooking, code
<1>2. stream' = None \/ stream' \in [start : Nat, current : Nat]
  BY <1>1, Sizes
<1>3. <<pc, pc'>> \in Turns
  BY <1>1 DEF Turns
<1>4. QED
  BY <1>1, <1>2, <1>3, SteadyStep DEF TypeOK

-----------------------------------------------------------------------------
(* The invariant.                                                          *)

LEMMA InitInv == Init => IInv
<1> SUFFICES ASSUME Init PROVE IInv
  OBVIOUS
<1>1. map \in Maps /\ pc = "FindModules" /\ found = <<>> /\ self = -1 /\ info = NoRange
      /\ state = "LookingForCodeStatic"
  BY DEF Init
<1>2. Claimers = {} /\ pages = {}
  BY DEF Init, Claimers
<1>3. TypeOK
  <2>1. 0 \in 0 .. HookMax + 1 /\ 0 \in 0 .. InlinePoolCount /\ 0 \in 0 .. MaxHooks
    <3>1. HookMax >= 0 /\ HookMax \in Int /\ InlinePoolCount >= 0 /\ InlinePoolCount \in Int
      BY Sizes, QuotientOfNatural, Remainder DEF HookMax, InlinePoolCount
    <3>2. QED
      BY <3>1, Sizes
  <2>2. info \in RangeSet /\ NoModule \in [text : RangeSet, rodata : RangeSet]
    BY <1>1, ResetTyped DEF NoRange, RangeSet, Kinds
  <2>3. claims \in [Owners -> Claims \cup {None}] /\ who \in Owners
    BY Owner DEF Init
  <2>4. /\ found \in Seq([text : RangeSet, rodata : RangeSet, data : RangeSet,
                          total : [addr : Nat, size : Nat]])
        /\ self \in -1 .. Len(found) - 1
    BY <1>1
  <2>5. QED
    BY <1>2, <2>1, <2>2, <2>3, <2>4 DEF Init, TypeOK
<1>4. ScanInv
  <2>1. 0 \in 0 .. Len(map) /\ 0 \in Int
    BY <1>1, Ranges
  <2>2. Cardinality(Seen(map, 0)) = 0 /\ 0 \notin ModulesOf(map) /\ 0 - 1 \notin ModulesOf(map)
    BY <1>1, SeenNoneAndAll, Ranges DEF ModulesOf
  <2>3. WalkedTo(0)
    BY <1>1, <2>2 DEF WalkedTo
  <2>4. QED
    BY <1>1, <2>1, <2>3 DEF ScanInv, Walk, Found, FoundAll, Booted
<1>5. ClaimInv
  BY <1>1, <1>2 DEF ClaimInv, Staged, HookClaimed, ClaimsKnown, Apart, Shown, Covered, Unmapping,
                    HookKnown, Installing
<1>6. QED
  BY <1>3, <1>4, <1>5 DEF IInv

LEMMA StepInv == IInv /\ [Next]_vars => IInv'
<1> SUFFICES ASSUME TypeOK, ScanInv, ClaimInv, [Next]_vars PROVE TypeOK' /\ ScanInv' /\ ClaimInv'
  BY DEF IInv
<1>1. CASE FindModules
  BY <1>1, ModulesSearched
<1>2. CASE RwPages
  BY <1>2, MapsRange, ClaimDone, Aborts, UnmappingBegins, UnmapsRange, ReservationEnds
  DEF RwPages, NotTheSame
<1>3. CASE Boot
  BY <1>3, PatcherClaimed, Aborts, HookJitClaimed, InlineJitClaimed DEF Boot, NoSuchModule
<1>4. CASE Hooking
  BY <1>4, HookWritten, Aborts, HookFlushed, EntryWritten DEF Hooking, WriteFails
<1>5. CASE Features
  BY <1>5, Aborts, HookBegins, PatcherMoves, InstWritten DEF Features, PoolIsFull
<1>6. CASE UNCHANGED vars
  <2>1. UNCHANGED <<map, pc, info, state, cur, found, self, claims, who, pages, hook, rows, entries,
                    hooks, stream, written, intended, stale>>
    BY <1>6 DEF vars, scanning, mapping, hooking, code
  <2>2. TypeOK'
    BY <2>1 DEF TypeOK
  <2>3. ScanInv'
    BY <2>1 DEF ScanInv, Walk, WalkedTo, Found, FoundAll, Booted
  <2>4. Staged' /\ Apart' /\ Shown' /\ Unmapping' /\ HookKnown'
    BY <2>1 DEF ClaimInv, Staged, HookClaimed, Apart, Shown, Claimers, Unmapping, HookKnown,
                Installing, Row, Entry, SelfText
  <2>5. ClaimsKnown'
    BY <2>1 DEF ClaimInv, ClaimsKnown, Claimers, ClaimOf, Main, SelfText
  <2>6. Covered'
    BY <2>1 DEF ClaimInv, Covered, Claimers, Covers
  <2>7. QED
    BY <2>2, <2>3, <2>4, <2>5, <2>6 DEF ClaimInv
<1>7. QED
  BY <1>1, <1>2, <1>3, <1>4, <1>5, <1>6 DEF Next, Working

LEMMA Invariant == Spec => []IInv
BY InitInv, StepInv, PTL DEF Spec

\* The variables keep their types (TypeOK).
THEOREM CodeTyped == Spec => []TypeOK
<1>1. IInv => TypeOK
  BY DEF IInv
<1>2. QED
  BY <1>1, Invariant, PTL

\* FindModules stores modules of the memory map in their order and, if no module begins
\* inside another one, all of them (ModulesFound).
THEOREM FindsModules == Spec => []ModulesFound
<1>1. IInv => ModulesFound
  BY DEF IInv, ScanInv, Found, FoundAll, Before, ModulesFound
<1>2. QED
  BY <1>1, Invariant, PTL

\* When only the lasting claims are left, the pages that are mapped are those reserved.
LEMMA MappedPages ==
  ASSUME TypeOK, ScanInv, ClaimInv, pc = "features"
  PROVE  {p[1] : p \in pages} = Reserved
<1>1. /\ \A o \in Claimers : o # "ctrl" /\ Covers(claims[o])
  BY Owner DEF ClaimInv, Staged, Covered
<1>2. ASSUME NEW p \in pages PROVE p[1] \in Reserved
  <2>1. PICK o \in Claimers : p \in Show(claims[o])
    BY DEF ClaimInv, Shown
  <2>2. p[1] \in Space(claims[o])
    BY <2>1, ClaimSame, ShowFacts
  <2>3. QED
    BY <2>2, ReservedSpace
<1>3. ASSUME NEW q \in Reserved PROVE \E p \in pages : q = p[1]
  <2>1. PICK o \in Claimers : q \in Space(claims[o])
    BY ReservedSpace
  <2>2. Show(claims[o]) \subseteq pages
    BY <1>1, ClaimSame, LastingWhole, WholeClaim
  <2>3. <<q, AlignedRo(claims[o]) + (q - AlignedRw(claims[o]))>> \in Show(claims[o])
    BY <2>1 DEF Show
  <2>4. QED
    BY <2>2, <2>3
<1>4. QED
  BY <1>2, <1>3

\* Every claim in use is seen through its mapping word for word, each page of the second
\* mappings shows one page of the code, and between two hooks nothing is mapped but the
\* lasting claims (ClaimsCovered).
THEOREM CoversClaims == Spec => []ClaimsCovered
<1>1. IInv => ClaimsCovered
  <2> SUFFICES ASSUME TypeOK, ScanInv, ClaimInv PROVE ClaimsCovered
    BY DEF IInv
  <2>1. \A o \in Owners :
          claims[o] # None
            => \/ o = who /\ pc \in {"mapping", "mapped", "unmapping", "unmapped", "aborted"}
               \/ Covers(claims[o])
    BY DEF ClaimInv, Covered, Claimers
  <2>2. \A p, q \in pages : p[1] = q[1] => p = q
    BY OnePage
  <2>3. QED
    BY <2>1, <2>2, MappedPages DEF ClaimsCovered
<1>2. QED
  BY <1>1, Invariant, PTL

-----------------------------------------------------------------------------
(* What is written lands where it was meant to.                            *)

\* Words of a claim that is covered are written where they are.
LEMMA LandsExactly ==
  ASSUME TypeOK, ClaimInv, NEW o \in Claimers, Covers(claims[o]), NEW ws,
         \A w \in ws : w \in Nat /\ w >= claims[o].ro /\ w <= claims[o].ro + claims[o].size - 1
  PROVE  Landed(o, ws) = ws
<1>1. /\ SamePlace(claims[o])
      /\ claims[o].ro \in Nat /\ claims[o].rw \in Nat /\ claims[o].size \in Nat
  BY ClaimSame, ClaimPages
<1>2. ASSUME NEW w \in ws PROVE {p[2] + (RwOf(o, w) - p[1]) : p \in Hit(o, w)} = {w}
  <2>1. PICK k \in 0 .. claims[o].size - 1 : k = w - claims[o].ro
    <3>1. w \in Nat /\ w >= claims[o].ro /\ w <= claims[o].ro + claims[o].size - 1
      OBVIOUS
    <3>2. w - claims[o].ro \in 0 .. claims[o].size - 1
      BY <1>1, <3>1
    <3>3. QED
      BY <3>2
  <2>2. k \in Nat /\ claims[o].ro + k = w /\ RwOf(o, w) = claims[o].rw + k
    BY <1>1, <2>1 DEF RwOf
  <2> DEFINE q == <<AlignDown(claims[o].rw + k), AlignDown(claims[o].ro + k)>>
  <2>3. q \in pages
    BY <2>1 DEF Covers
  <2>4. Hit(o, w) = {q}
    <3>1. q \in Hit(o, w)
      BY <2>2, <2>3 DEF Hit
    <3>2. \A p \in Hit(o, w) : p \in pages /\ p[1] = q[1]
      BY <2>2 DEF Hit
    <3>3. QED
      BY <2>3, <3>1, <3>2, OnePage
  <2>5. q[2] + (RwOf(o, w) - q[1]) = w
    <3>1. /\ AlignDown(claims[o].rw + k) \in Nat /\ AlignDown(claims[o].ro + k) \in Nat
          /\ (claims[o].rw + k) - AlignDown(claims[o].rw + k)
               = (claims[o].ro + k) - AlignDown(claims[o].ro + k)
      BY <1>1, <2>2, SameWord
    <3>2. q[1] = AlignDown(claims[o].rw + k) /\ q[2] = AlignDown(claims[o].ro + k)
      OBVIOUS
    <3>3. QED
      BY <1>1, <2>2, <3>1, <3>2
  <2>6. QED
    BY <2>4, <2>5
<1>3. ASSUME NEW x PROVE x \in Landed(o, ws) <=> x \in ws
  <2>1. x \in Landed(o, ws) <=>
          \E w \in ws : x \in {p[2] + (RwOf(o, w) - p[1]) : p \in Hit(o, w)}
    BY DEF Landed
  <2>2. QED
    BY <1>2, <2>1, Zenon
<1>4. QED
  BY <1>3

LEMMA InPool ==
  ASSUME NEW size \in Nat, NEW piece \in Nat, piece > 0, NEW i \in Nat, i < size \div piece
  PROVE  i * piece >= 0 /\ i * piece + piece <= size
<1>1. size \div piece \in Int /\ size % piece \in 0 .. piece - 1
      /\ size - (size % piece) = piece * (size \div piece)
  BY Division, Remainder
<1>2. PICK n \in Int : n = size \div piece
  BY <1>1
<1>3. i + 1 <= n
  BY <1>2
<1>4. (i + 1) * piece <= n * piece
  BY <1>3
<1>5. i * piece >= 0 /\ (i + 1) * piece = i * piece + piece /\ n * piece = piece * n
  OBVIOUS
<1>6. PICK m \in Nat : m = size % piece
  BY <1>1
<1>7. QED
  BY <1>1, <1>2, <1>4, <1>5, <1>6

\* A row that the pool has room for, and an entry, lie in their claims.
LEMMA PoolPieces ==
  ASSUME SelfText \in Nat, NEW i \in Nat
  PROVE  /\ i < HookMax => \A w \in Row(i) :
              w \in Nat /\ w >= SelfText + HookJitAt /\ w <= SelfText + HookJitAt + JitSize - 1
         /\ i < InlinePoolCount => \A w \in Entry(i) :
              w \in Nat /\ w >= SelfText + InlineJitAt
              /\ w <= SelfText + InlineJitAt + InlinePoolSize - 1
<1>1. /\ HookJitAt \in Nat /\ InlineJitAt \in Nat /\ JitSize \in Nat /\ InlinePoolSize \in Nat
      /\ TrampolineSize \in Nat /\ TrampolineSize > 0 /\ EntrySize \in Nat /\ EntrySize > 0
  BY Sizes
<1>2. ASSUME i < HookMax, NEW w \in Row(i)
      PROVE  w \in Nat /\ w >= SelfText + HookJitAt /\ w <= SelfText + HookJitAt + JitSize - 1
  <2>1. i * TrampolineSize >= 0 /\ i * TrampolineSize + TrampolineSize <= JitSize
    BY <1>1, <1>2, InPool DEF HookMax
  <2>2. PICK n \in Nat : n = i * TrampolineSize
    BY <1>1, <2>1
  <2>3. w \in SelfText + HookJitAt + n .. SelfText + HookJitAt + n + TrampolineSize - 1
    BY <1>2, <2>2 DEF Row
  <2>4. QED
    BY <1>1, <2>1, <2>2, <2>3
<1>3. ASSUME i < InlinePoolCount, NEW w \in Entry(i)
      PROVE  /\ w \in Nat /\ w >= SelfText + InlineJitAt
             /\ w <= SelfText + InlineJitAt + InlinePoolSize - 1
  <2>1. i * EntrySize >= 0 /\ i * EntrySize + EntrySize <= InlinePoolSize
    BY <1>1, <1>3, InPool DEF InlinePoolCount
  <2>2. PICK n \in Nat : n = i * EntrySize
    BY <1>1, <2>1
  <2>3. w \in SelfText + InlineJitAt + n .. SelfText + InlineJitAt + n + EntrySize - 1
    BY <1>3, <2>2 DEF Entry
  <2>4. QED
    BY <1>1, <2>1, <2>2, <2>3
<1>4. QED
  BY <1>2, <1>3

LEMMA PoolsLand ==
  ASSUME TypeOK, ScanInv, ClaimInv, Installing
  PROVE  /\ "hookJit" \in Claimers /\ rows <= HookMax /\ Covers(claims["hookJit"])
              => Landed("hookJit", hook.row) = hook.row
         /\ "inlineJit" \in Claimers /\ Covers(claims["inlineJit"]) =>
              /\ Landed("inlineJit", hook.entry) = hook.entry
              /\ hook.entry \subseteq AlignedRo(claims["inlineJit"])
                                 .. AlignedRo(claims["inlineJit"]) + AlignedSize(claims["inlineJit"]) - 1
<1>1. /\ hook.row = {} \/ (rows > 0 /\ hook.row = Row(rows - 1))
      /\ hook.entry = {} \/ (entries > 0 /\ hook.entry = Entry(entries - 1))
  BY DEF ClaimInv, HookKnown
<1>2. rows \in Nat /\ entries \in Nat /\ entries <= InlinePoolCount /\ HookMax \in Int
      /\ InlinePoolCount \in Int
  BY Sizes DEF TypeOK, HookMax, InlinePoolCount
<1>3. ASSUME "hookJit" \in Claimers, rows <= HookMax, Covers(claims["hookJit"])
      PROVE  Landed("hookJit", hook.row) = hook.row
  <2>1. /\ claims["hookJit"].ro = SelfText + HookJitAt /\ claims["hookJit"].size = JitSize
        /\ SelfText \in Nat
    BY <1>3, Origins, Owner DEF ClaimInv, ClaimsKnown, ClaimOf
  <2>2. \A w \in hook.row :
          w \in Nat /\ w >= claims["hookJit"].ro
          /\ w <= claims["hookJit"].ro + claims["hookJit"].size - 1
    <3>1. CASE hook.row = {}
      BY <3>1
    <3>2. CASE hook.row # {}
      <4>1. rows - 1 \in Nat /\ rows - 1 < HookMax /\ hook.row = Row(rows - 1)
        BY <1>1, <1>2, <1>3, <3>2
      <4>2. QED
        BY <2>1, <4>1, PoolPieces
    <3>3. QED
      BY <3>1, <3>2
  <2>3. QED
    BY <1>3, <2>2, LandsExactly
<1>4. ASSUME "inlineJit" \in Claimers, Covers(claims["inlineJit"])
      PROVE  /\ Landed("inlineJit", hook.entry) = hook.entry
             /\ hook.entry \subseteq AlignedRo(claims["inlineJit"])
                                .. AlignedRo(claims["inlineJit"]) + AlignedSize(claims["inlineJit"]) - 1
  <2> DEFINE c == claims["inlineJit"]
  <2>1. c.ro = SelfText + InlineJitAt /\ c.size = InlinePoolSize /\ SelfText \in Nat
    BY <1>4, Origins, Owner DEF ClaimInv, ClaimsKnown, ClaimOf
  <2>2. \A w \in hook.entry : w \in Nat /\ w >= c.ro /\ w <= c.ro + c.size - 1
    <3>1. CASE hook.entry = {}
      BY <3>1
    <3>2. CASE hook.entry # {}
      <4>1. entries - 1 \in Nat /\ entries - 1 < InlinePoolCount /\ hook.entry = Entry(entries - 1)
        BY <1>1, <1>2, <3>2
      <4>2. QED
        BY <2>1, <4>1, PoolPieces
    <3>3. QED
      BY <3>1, <3>2
  <2>3. Landed("inlineJit", hook.entry) = hook.entry
    BY <1>4, <2>2, LandsExactly
  <2>4. /\ Whole(c.ro) /\ c.ro \in Nat /\ c.size \in Nat /\ AlignedSize(c) \in Nat
        /\ c.size <= AlignedSize(c)
    BY <1>4, ClaimSame, ClaimPages, LastingWhole
  <2>5. AlignedRo(c) = c.ro
    BY <2>4, Multiples DEF AlignedRo
  <2>6. QED
    BY <2>2, <2>3, <2>4, <2>5
<1>5. QED
  BY <1>3, <1>4

\* The words that a feature patches are in the code of the game.
LEMMA PatchInClaim ==
  ASSUME PatchesInMain, TypeOK, ScanInv, ClaimInv, pc = "features", NEW offset \in PatchOffsets
  PROVE  Landed("patcher", ToOffsets({offset})) = ToOffsets({offset})
<1>1. Claimers = Lasting /\ "patcher" \in Claimers /\ self # -1 /\ Len(found) > 1
      /\ Covers(claims["patcher"])
  BY Owner DEF ClaimInv, Staged, ScanInv, Booted, Covered
<1>2. /\ claims["patcher"].ro = Main.total.addr
      /\ claims["patcher"].size = Ends(Main.rodata) - Main.total.addr
  BY <1>1, Owner DEF ClaimInv, ClaimsKnown, ClaimOf
<1>3. map \in Maps /\ Proper(map) /\ 2 \in 1 .. Len(found) /\ 2 - 1 = 1
  BY <1>1 DEF TypeOK, PatchesInMain
<1>4. PICK k \in ModulesOf(map) : found[2] = ModuleAt(map, k) /\ Cardinality(Before(map, k)) = 1
  BY <1>3 DEF ScanInv, Found
<1>5. Main.total.addr = map[k].addr /\ Main.rodata = map[k + 1]
      /\ map[k].addr \in Nat /\ Ends(map[k + 1]) \in Nat
  BY <1>3, <1>4, ModuleTyped DEF Main
<1>6. offset < Ends(map[k + 1]) - map[k].addr /\ offset \in Nat
  BY <1>3, <1>4, Sizes DEF PatchesInMain
<1>7. \A w \in ToOffsets({offset}) :
        w \in Nat /\ w >= claims["patcher"].ro /\ w <= claims["patcher"].ro + claims["patcher"].size - 1
  BY <1>2, <1>5, <1>6 DEF ToOffsets
<1>8. QED
  BY <1>1, <1>7, LandsExactly

\* The steps that do not write.
LEMMA LandingKept ==
  ASSUME TypeOK, Landing, UNCHANGED <<written, intended, stream>>, rows' = rows \/ rows' = rows + 1,
         stale' \subseteq stale, pc \notin {"__flush_cache", "FlushInline", "aborted"},
         pc' = "FindModules" => pc = "FindModules", UNCHANGED found \/ pc = "FindModules"
  PROVE  Landing'
<1>1. rows' <= HookMax => rows <= HookMax
  BY Sizes DEF TypeOK, HookMax
<1>2. pc = "FindModules" => stale' = {}
  BY DEF Landing
<1>3. ASSUME pc # "FindModules" PROVE stale' \subseteq Unflushed'
  <2>1. Unflushed' = Unflushed
    BY <1>3 DEF Unflushed, ToOffsets, Main
  <2>2. QED
    BY <1>3, <2>1 DEF Landing, Pending
<1>4. QED
  BY <1>1, <1>2, <1>3 DEF Landing

LEMMA HookLands ==
  ASSUME TypeOK, ScanInv, ClaimInv, Landing, HookFuncImpl
  PROVE  Landing'
<1>1. /\ pc = "HookFuncImpl" /\ pc' = "__flush_cache" /\ WriteAll(Writes(hook))
      /\ UNCHANGED <<found, self, claims, pages, hook, rows, stream>>
  BY DEF HookFuncImpl, hooking, mapping, scanning
<1>2. Installing /\ "ctrl" \in Claimers /\ "hookJit" \in Claimers
      /\ Covers(claims["ctrl"]) /\ Covers(claims["hookJit"])
  BY <1>1, Owner DEF Installing, ClaimInv, Staged, HookClaimed, Covered
<1> DEFINE row   == Landed("hookJit", hook.row)
           there == Patched(hook.at, hook.far)
<1>3. Landed("ctrl", there) = there
  <2>1. claims["ctrl"].ro = hook.at /\ claims["ctrl"].size = Claimed(hook.far)
    BY <1>2, Owner DEF ClaimInv, ClaimsKnown, ClaimOf
  <2>2. QED
    BY <1>2, <2>1, HookWrites, LandsExactly
<1>4. rows <= HookMax => row = hook.row
  BY <1>2, PoolsLand
<1>5. /\ written' = written \cup there \cup row /\ intended' = intended \cup there \cup hook.row
      /\ stale' = stale \cup there \cup row
  <2>1. /\ DOMAIN Writes(hook) = {"ctrl", "hookJit"}
        /\ Writes(hook)["ctrl"] = there /\ Writes(hook)["hookJit"] = hook.row
    BY <1>2, HookWrites
  <2>2. UNION {Landed(o, Writes(hook)[o]) : o \in DOMAIN Writes(hook)} = there \cup row
    BY <1>3, <2>1
  <2>3. UNION {Writes(hook)[o] : o \in DOMAIN Writes(hook)} = there \cup hook.row
    BY <2>1
  <2>4. QED
    BY <1>1, <2>2, <2>3 DEF WriteAll
<1>6. Pending' = row \cup there
  BY <1>1 DEF Pending, Landed, Hit, RwOf
<1>7. Unflushed' = Unflushed /\ stale \subseteq Unflushed
  BY <1>1 DEF Unflushed, ToOffsets, Main, Landing, Pending
<1>8. QED
  BY <1>1, <1>4, <1>5, <1>6, <1>7 DEF Landing

LEMMA HookFlush ==
  ASSUME TypeOK, ScanInv, ClaimInv, Landing, FlushHook
  PROVE  Landing'
<1>1. /\ pc = "__flush_cache" /\ pc' = "~RwPages"
      /\ UNCHANGED <<found, rows, stream, written, intended>>
      /\ stale' = stale \ (Landed("hookJit", hook.row)
                             \cup (hook.at .. hook.at + Claimed(hook.far) - 1))
  BY DEF FlushHook, hooking, scanning
<1>2. Patched(hook.at, hook.far) \subseteq hook.at .. hook.at + Claimed(hook.far) - 1
  <2>1. Installing /\ hook.at \in Nat /\ Claimed(hook.far) \in Nat
    BY <1>1 DEF Installing, HookClaimed, ClaimInv, HookKnown, Claimed
  <2>2. QED
    BY <2>1, HookWrites
<1>3. stale \subseteq Unflushed \cup Landed("hookJit", hook.row) \cup Patched(hook.at, hook.far)
  BY <1>1 DEF Landing, Pending
<1>4. Unflushed' = Unflushed
  BY <1>1 DEF Unflushed, ToOffsets, Main
<1>5. QED
  BY <1>1, <1>2, <1>3, <1>4 DEF Landing

LEMMA EntryLands ==
  ASSUME TypeOK, ScanInv, ClaimInv, Landing, HookInline
  PROVE  Landing'
<1>1. /\ pc = "HookInline" /\ pc' = "FlushInline" /\ WriteAll([o \in {"inlineJit"} |-> hook.entry])
      /\ UNCHANGED <<found, rows, stream, hook>>
  BY DEF HookInline, hooking, scanning
<1>2. Installing /\ "inlineJit" \in Claimers /\ Covers(claims["inlineJit"])
  BY <1>1, Owner DEF Installing, ClaimInv, Staged, Covered
<1>3. Landed("inlineJit", hook.entry) = hook.entry
  BY <1>2, PoolsLand
<1>4. /\ written' = written \cup hook.entry /\ intended' = intended \cup hook.entry
      /\ stale' = stale \cup hook.entry
  BY <1>1, <1>3 DEF WriteAll
<1>5. Unflushed' = Unflushed /\ stale \subseteq Unflushed /\ Pending' = hook.entry
  BY <1>1 DEF Unflushed, ToOffsets, Main, Landing, Pending
<1>6. QED
  BY <1>1, <1>4, <1>5 DEF Landing

LEMMA EntryFlush ==
  ASSUME TypeOK, ScanInv, ClaimInv, Landing, FlushInline
  PROVE  Landing'
<1>1. /\ pc = "FlushInline" /\ pc' = "features" /\ JitFlush("inlineJit")
      /\ UNCHANGED <<found, rows, stream, written, intended>>
  BY DEF FlushInline, scanning
<1>2. Installing /\ "inlineJit" \in Claimers /\ Covers(claims["inlineJit"])
  BY <1>1, Owner DEF Installing, ClaimInv, Staged, Covered
<1>3. stale' \cap hook.entry = {} /\ stale' \subseteq stale
  BY <1>1, <1>2, PoolsLand DEF JitFlush
<1>4. Unflushed' = Unflushed /\ stale \subseteq Unflushed \cup hook.entry
  BY <1>1 DEF Unflushed, ToOffsets, Main, Landing, Pending
<1>5. QED
  BY <1>1, <1>3, <1>4 DEF Landing

LEMMA InstLands ==
  ASSUME PatchesInMain, TypeOK, ScanInv, ClaimInv, Landing, WriteInst
  PROVE  Landing'
<1>1. /\ pc = "features" /\ pc' = "features" /\ stream # None /\ stream.current \in PatchOffsets
      /\ WriteAll([o \in {"patcher"} |-> ToOffsets({stream.current})])
      /\ stream' = [stream EXCEPT !.current = @ + 1]
      /\ UNCHANGED <<found, rows>>
  BY DEF WriteInst, hooking, scanning
<1>2. Landed("patcher", ToOffsets({stream.current})) = ToOffsets({stream.current})
  BY <1>1, PatchInClaim
<1>3. /\ written' = written \cup ToOffsets({stream.current})
      /\ intended' = intended \cup ToOffsets({stream.current})
      /\ stale' = stale \cup ToOffsets({stream.current})
  BY <1>1, <1>2 DEF WriteAll
<1>4. stream \in [start : Nat, current : Nat] /\ stream.start <= stream.current
  BY <1>1 DEF TypeOK, Landing
<1>5. /\ stream'.start = stream.start /\ stream'.current = stream.current + 1
      /\ stream.start \in Nat /\ stream.current \in Nat /\ stream' \in [start : Nat, current : Nat]
  <2>1. stream.start \in Nat /\ stream.current \in Nat
    BY <1>4
  <2>2. QED
    BY <1>1, <1>4, <2>1
<1>6. stream' # None /\ stream'.start <= stream'.current
  BY <1>4, <1>5, MemoryAssumption
<1>7. Unflushed' = Unflushed \cup ToOffsets({stream.current})
  <2>1. stream'.start .. stream'.current - 1
          = (stream.start .. stream.current - 1) \cup {stream.current}
    BY <1>4, <1>5
  <2>2. QED
    BY <1>1, <1>6, <2>1 DEF Unflushed, ToOffsets, Main
<1>8. stale \subseteq Unflushed
  BY <1>1 DEF Landing, Pending
<1>9. QED
  BY <1>1, <1>3, <1>6, <1>7, <1>8 DEF Landing

LEMMA PatcherFlush ==
  ASSUME TypeOK, Landing, PatcherEnds \/ \E offset \in PatchOffsets : Patcher(offset) \/ Seek(offset)
  PROVE  Landing'
<1>1. /\ pc = "features" /\ pc' = "features" /\ UNCHANGED <<found, rows, written, intended>>
      /\ stale \subseteq Unflushed
  BY DEF PatcherEnds, Patcher, Seek, hooking, code, scanning, Landing, Pending
<1>2. stale' = {}
  <2>1. (\E offset \in PatchOffsets : Patcher(offset)) => stream = None /\ stale' = stale
    BY DEF Patcher, code
  <2>2. stream = None => Unflushed = {}
    BY DEF Unflushed
  <2>3. QED
    BY <1>1, <2>1, <2>2 DEF PatcherEnds, Seek
<1>3. stream' # None => stream'.start <= stream'.current
  BY Sizes DEF PatcherEnds, Patcher, Seek
<1>4. QED
  BY <1>1, <1>2, <1>3 DEF Landing

LEMMA LandingStep ==
  PatchesInMain => (IInv /\ Landing /\ [Next]_vars => Landing')
<1> SUFFICES ASSUME PatchesInMain, TypeOK, ScanInv, ClaimInv, Landing, [Next]_vars
             PROVE  Landing'
  BY DEF IInv
<1>1. CASE FindModules
  <2>1. /\ pc = "FindModules" /\ UNCHANGED <<written, intended, stale, stream, rows>>
    BY <1>1 DEF FindModules, TooManyStaticModules, LookingForCodeStatic, ExpectingRodata,
                ExpectingData, Query, Abort, hooking, code
  <2>2. QED
    BY <2>1, LandingKept
<1>2. CASE RwPages
  <2>1. /\ UNCHANGED <<written, intended, stream, rows, found>> /\ stale' \subseteq stale
        /\ pc \in {"mapping", "mapped", "~RwPages", "unmapping", "unmapped"}
    BY <1>2 DEF RwPages, MapRange, Constructed, NotTheSame, Destruct, UnmapRange,
                RemoveReservation, Abort, hooking, code, scanning
  <2>2. pc' # "FindModules"
    BY <1>2, <2>1, Owner DEF RwPages, MapRange, Constructed, NotTheSame, Destruct, UnmapRange,
                RemoveReservation, Abort, NextMemRange, TypeOK
  <2>3. QED
    BY <2>1, <2>2, LandingKept
<1>3. CASE Boot
  <2>1. /\ UNCHANGED <<written, intended, stream, rows, found, stale>>
        /\ pc \in {"FoundModules", "exl_main", "InitializeInline"} /\ pc' # "FindModules"
    BY <1>3 DEF Boot, InitPatcherImpl, NoSuchModule, InitializeHooks, InitializeInline, Construct,
                Abort, hooking, code, scanning
  <2>2. QED
    BY <2>1, LandingKept
<1>4. CASE WriteFails \/ HookReturns \/ \E inline \in BOOLEAN : PoolIsFull(inline)
  <2>1. /\ UNCHANGED <<written, intended, stream, rows, found>> /\ stale' \subseteq stale
        /\ pc \in {"HookFuncImpl", "Hook", "features"} /\ pc' # "FindModules"
    BY <1>4 DEF WriteFails, HookReturns, PoolIsFull, JitFlush, Abort, hooking, code, scanning
  <2>2. QED
    BY <2>1, LandingKept
<1>5. CASE HookFuncImpl \/ FlushHook \/ HookInline \/ FlushInline
  BY <1>5, HookLands, HookFlush, EntryLands, EntryFlush
<1>6. CASE \E kind \in {"replace", "trampoline", "inline"}, offset \in HookOffsets, far \in BOOLEAN :
             Hook(kind, offset, far)
  <2>1. /\ UNCHANGED <<written, intended, stream, found, stale>> /\ (rows' = rows \/ rows' = rows + 1)
        /\ pc = "features" /\ pc' # "FindModules"
    BY <1>6 DEF Hook, Construct, code, scanning
  <2>2. QED
    BY <2>1, LandingKept
<1>7. CASE WriteInst \/ PatcherEnds \/ \E offset \in PatchOffsets : Patcher(offset) \/ Seek(offset)
  BY <1>7, InstLands, PatcherFlush
<1>8. CASE UNCHANGED vars
  BY <1>8 DEF vars, scanning, mapping, hooking, code, Landing, Pending, Landed, Hit, RwOf,
              Unflushed, ToOffsets, Main
<1>9. QED
  BY <1>1, <1>2, <1>3, <1>4, <1>5, <1>6, <1>7, <1>8 DEF Next, Working, Hooking, Features

\* What is written through the mappings lands where it was meant to and nowhere else, as long
\* as the pool has room for the rows handed out, and between two calls of the features only
\* what a CodePatcher will flush is not flushed (WritesLand).
THEOREM LandsWrites ==
  ASSUME PatchesInMain
  PROVE  Spec => []WritesLand
<1>1. Init => Landing
  BY DEF Init, Landing
<1>2. IInv /\ Landing /\ [Next]_vars => Landing'
  BY LandingStep
<1>3. Landing => WritesLand
  BY DEF Landing, WritesLand, Pending
<1>4. QED
  BY <1>1, <1>2, <1>3, Invariant, PTL DEF Spec

=============================================================================
