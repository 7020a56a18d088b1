----------------------------- MODULE SlubProofs -----------------------------
(***************************************************************************)
(* What the slub allocator and kmalloc do for their callers, for any pages,*)
(* header, levels and sizes: slots, slubs and runs are all accounted for,  *)
(* and objects are runs of bytes nobody else holds.                        *)
(***************************************************************************)
EXTENDS Kmalloc, DataFacts, FiniteSetTheorems, TLAPS

-----------------------------------------------------------------------------
(* Where slots lie.                                                        *)

LEMMA SlubTypes ==
  /\ Pages \subseteq Nat \ {0} /\ Levels \subseteq Nat /\ Sizes \subseteq Nat
  /\ BlockSize \in Nat \ {0} /\ HeaderSize \in Nat \ {0} /\ HeaderSize < BlockSize
  /\ MaxLevel \in Levels /\ MinLevel \in Levels
  /\ \A l \in Levels : Pow2[l] \in Nat \ {0}
<1>1. MaxLevel \in Levels /\ MinLevel \in Levels /\ Levels \subseteq Nat
  BY SlubAssumption DEF Levels
<1>2. \A l \in Levels : Pow2[l] \in Nat \ {0} /\ Pow2[l] < BlockSize
  BY SlubAssumption
<1>3. Pow2[MaxLevel] \in Nat \ {0} /\ HeaderSize + Pow2[MaxLevel] <= BlockSize
      /\ HeaderSize \in Nat \ {0} /\ BlockSize \in Nat
  BY <1>1, <1>2, SlubAssumption
<1> QED BY <1>1, <1>2, <1>3, SlubAssumption

LEMMA LevelsGrow ==
  ASSUME NEW j \in Levels, NEW k \in Levels, j <= k
  PROVE  Pow2[j] <= Pow2[k]
<1> DEFINE Bad == {n \in j .. MaxLevel : ~(Pow2[j] <= Pow2[n])}
<1>0. k \in j .. MaxLevel /\ Bad \subseteq Nat /\ j .. MaxLevel \subseteq Levels /\ MaxLevel \in Nat /\ j \in Nat
  BY SlubAssumption DEF Levels
<1>1. SUFFICES ASSUME Bad # {} PROVE FALSE
  BY <1>0
<1>2. PICK m \in Bad : \A n \in Bad : m <= n
  BY <1>0, <1>1, NatLeast, Zenon
<1>3. m # j /\ m \in Nat
  BY <1>0, <1>2, SlubTypes
<1>4. m - 1 \in j .. MaxLevel /\ m - 1 \in Levels /\ m - 1 < MaxLevel /\ m - 1 \notin Bad
  BY <1>0, <1>2, <1>3
<1>5. PICK n : n = m - 1 /\ m = n + 1
  BY <1>3
<1>6. n \in Levels /\ Pow2[j] <= Pow2[n] /\ Pow2[m] = 2 * Pow2[n] /\ m \in Levels
  <2>1. n \in Levels /\ n < MaxLevel /\ m \in Levels /\ Pow2[j] <= Pow2[n]
    BY <1>0, <1>2, <1>4, <1>5
  <2> QED BY <1>5, <2>1, SlubAssumption
<1>7. Pow2[n] \in Nat /\ Pow2[j] \in Nat /\ Pow2[m] \in Nat
  BY <1>6, SlubTypes
<1> QED BY <1>2, <1>6, <1>7

(* The slots of a block follow its header, do not overlap and end within   *)
(* the block; there is at least one.                                       *)
LEMMA SoltsFit ==
  ASSUME NEW l \in Levels
  PROVE  /\ MaxSolts(l) \in Nat \ {0}
         /\ SoltsOffset(l) \in Nat /\ HeaderSize <= SoltsOffset(l)
         /\ \A i \in 0 .. MaxSolts(l) - 1 : /\ Pow2[l] * i \in Nat
                                            /\ SoltsOffset(l) + Pow2[l] * i + Pow2[l] <= BlockSize
<1> DEFINE P == Pow2[l]
           H == HeaderSize
           u == DivRoundUp(H, P)
           m == MaxSolts(l)
           n == H + P - 1
<1>1. P \in Nat \ {0} /\ H \in Nat \ {0} /\ BlockSize \in Nat \ {0} /\ BlockSize % P = 0
  BY SlubTypes, SlubAssumption
<1>2. H + P <= BlockSize
  <2>1. l <= MaxLevel /\ MaxLevel \in Levels
    BY SlubTypes, SlubAssumption DEF Levels
  <2>2. P <= Pow2[MaxLevel] /\ Pow2[MaxLevel] \in Nat
    BY <2>1, LevelsGrow, SlubTypes
  <2>3. H + Pow2[MaxLevel] <= BlockSize
    BY SlubAssumption
  <2> QED BY <1>1, <2>2, <2>3
<1>3. PICK K \in Nat : BlockSize = K * P
  BY <1>1, MultipleOf
<1> HIDE DEF P, H
<1>4. u \in Nat /\ u * P <= n /\ n < u * P + P
  <2>1. n \in Nat
    BY <1>1
  <2> HIDE DEF n
  <2>2. n \div P \in Nat /\ (n \div P) * P <= n /\ n < (n \div P) * P + P
    BY <1>1, <2>1, DivBounds
  <2> QED BY <2>2 DEF DivRoundUp, n
<1> HIDE DEF u
<1>5. u * P \in Nat /\ H <= u * P /\ u * P < H + P
  <2>1. u * P \in Nat
    BY <1>1, <1>4, MulRegroup
  <2> QED BY <1>1, <1>4, <2>1
<1>6. u < K
  BY <1>1, <1>2, <1>3, <1>4, <1>5, MulLess
<1>7. PICK k \in Nat \ {0} : k = K - u
  BY <1>3, <1>4, <1>6
<1>8. u * P + k * P = K * P /\ k * P \in Nat
  <2>1. u + k = K
    BY <1>3, <1>4, <1>7
  <2> QED BY <1>1, <1>4, <1>7, <2>1, MulRegroup
<1>9. m = k
  <2>1. BlockSize - H \in Nat /\ k * P <= BlockSize - H /\ BlockSize - H < k * P + P
    BY <1>1, <1>2, <1>3, <1>5, <1>8
  <2>2. (BlockSize - H) \div P = k
    <3> DEFINE b == BlockSize - H
    <3> HIDE DEF b
    <3>1. b \in Nat /\ k * P <= b /\ b < k * P + P
      BY <2>1 DEF b
    <3>2. b \div P = k
      BY <1>1, <1>7, <3>1, DivUnique
    <3> QED BY <3>2 DEF b
  <2> QED BY <2>2 DEF MaxSolts, P, H
<1>10. SoltsOffset(l) = u * P
  BY DEF SoltsOffset, u, P, H
<1>11. ASSUME NEW i \in 0 .. k - 1 PROVE P * i \in Nat /\ u * P + P * i + P <= BlockSize
  <2>1. i \in Nat /\ i + 1 \in Nat /\ i + 1 <= k
    BY <1>7
  <2>2. (i + 1) * P <= k * P
    BY <1>1, <1>7, <2>1, MulMono
  <2>3. (i + 1) * P = P * i + P /\ P * i \in Nat
    BY <1>1, <2>1
  <2> QED BY <1>1, <1>3, <1>5, <1>8, <2>2, <2>3
<1> QED BY <1>1, <1>5, <1>7, <1>9, <1>10, <1>11 DEF P, H

LEMMA PageOfByte ==
  ASSUME NEW p \in Nat, NEW a \in Nat, AddrOf(p) <= a, a < AddrOf(p) + BlockSize
  PROVE  PageOf(a) = p /\ (IsBlockAligned(a) <=> a = AddrOf(p))
<1>1. BlockSize \in Nat \ {0} /\ AddrOf(p) = p * BlockSize
  BY SlubTypes DEF AddrOf
<1>2. a \div BlockSize = p
  BY <1>1, DivUnique
<1>3. IsBlockAligned(a) => a = AddrOf(p)
  <2> SUFFICES ASSUME a % BlockSize = 0 PROVE a = AddrOf(p)
    BY DEF IsBlockAligned
  <2>1. PICK q \in Nat : a = q * BlockSize
    BY <1>1, MultipleOf
  <2>2. a \div BlockSize = q
    <3>1. q * BlockSize <= a /\ a < q * BlockSize + BlockSize
      BY <1>1, <2>1
    <3> QED BY <1>1, <3>1, DivUnique
  <2> QED BY <1>1, <1>2, <2>1, <2>2
<1>4. a = AddrOf(p) => IsBlockAligned(a)
  BY <1>1, MultipleOf DEF IsBlockAligned
<1> QED BY <1>2, <1>3, <1>4 DEF PageOf

(* The address of a block, and the block of an address.                    *)
LEMMA BlockAddress ==
  ASSUME NEW p \in Nat
  PROVE  AddrOf(p) \in Nat /\ PageOf(AddrOf(p)) = p /\ IsBlockAligned(AddrOf(p))
<1>1. AddrOf(p) \in Nat /\ BlockSize \in Nat \ {0}
  BY SlubTypes, MulRegroup DEF AddrOf
<1> QED BY <1>1, PageOfByte

LEMMA AlignedIsBlock ==
  ASSUME NEW a \in Nat
  PROVE  /\ PageOf(a) \in Nat /\ AddrOf(PageOf(a)) <= a /\ a < AddrOf(PageOf(a)) + BlockSize
         /\ IsBlockAligned(a) => a = AddrOf(PageOf(a))
<1>1. BlockSize \in Nat \ {0}
  BY SlubTypes
<1>2. PageOf(a) \in Nat /\ PageOf(a) * BlockSize <= a /\ a < PageOf(a) * BlockSize + BlockSize
  BY <1>1, DivBounds DEF PageOf
<1>3. AddrOf(PageOf(a)) = PageOf(a) * BlockSize
  BY <1>1, <1>2 DEF AddrOf
<1> QED BY <1>2, <1>3, PageOfByte

(* The slots of the block at page p, when they are of level l.             *)
Solts(p, l) == {SoltAt(p, l, i) : i \in 0 .. MaxSolts(l) - 1}

LEMMA SoltPlace ==
  ASSUME NEW p \in Nat, NEW l \in Levels, NEW a \in Solts(p, l)
  PROVE  /\ a \in Nat /\ PageOf(a) = p /\ ~IsBlockAligned(a)
         /\ AddrOf(p) + HeaderSize <= a
         /\ a + Pow2[l] <= AddrOf(p) + BlockSize
<1>1. PICK i \in 0 .. MaxSolts(l) - 1 : a = AddrOf(p) + SoltsOffset(l) + Pow2[l] * i
  BY DEF Solts, SoltAt
<1>2. /\ SoltsOffset(l) \in Nat /\ HeaderSize <= SoltsOffset(l)
      /\ Pow2[l] * i \in Nat
      /\ SoltsOffset(l) + Pow2[l] * i + Pow2[l] <= BlockSize
  BY SoltsFit
<1>3. /\ AddrOf(p) \in Nat /\ BlockSize \in Nat \ {0} /\ Pow2[l] \in Nat \ {0}
      /\ HeaderSize \in Nat \ {0}
  BY BlockAddress, SlubTypes
<1>4. PICK b : b = Pow2[l] * i
  OBVIOUS
<1>5. /\ a \in Nat /\ AddrOf(p) + HeaderSize <= a
      /\ a + Pow2[l] <= AddrOf(p) + BlockSize /\ a < AddrOf(p) + BlockSize /\ a # AddrOf(p)
  BY <1>1, <1>2, <1>3, <1>4
<1> QED BY <1>3, <1>5, PageOfByte

(* Two slots of a slub do not overlap.                                     *)
LEMMA SoltsApart ==
  ASSUME NEW p \in Nat, NEW l \in Levels, NEW i \in 0 .. MaxSolts(l) - 1, NEW j \in 0 .. MaxSolts(l) - 1,
         i < j
  PROVE  SoltAt(p, l, i) + Pow2[l] <= SoltAt(p, l, j)
<1> DEFINE P == Pow2[l]
<1>1. P \in Nat \ {0} /\ i \in Nat /\ j \in Nat /\ SoltsOffset(l) \in Nat /\ AddrOf(p) \in Nat
  BY SoltsFit, SlubTypes, BlockAddress
<1> HIDE DEF P
<1>2. (i + 1) * P <= j * P
  BY <1>1, MulMono
<1>3. (i + 1) * P = P * i + P /\ j * P = P * j /\ P * i \in Nat /\ P * j \in Nat
  BY <1>1
<1>4. P * i + P <= P * j
  BY <1>2, <1>3
<1>5. PICK x, y : x = P * i /\ y = P * j
  OBVIOUS
<1>6. (AddrOf(p) + SoltsOffset(l) + x) + P <= AddrOf(p) + SoltsOffset(l) + y
  BY <1>1, <1>3, <1>4, <1>5
<1> QED BY <1>5, <1>6 DEF SoltAt, P

LEMMA SoltsDisjoint ==
  ASSUME NEW p \in Nat, NEW l \in Levels, NEW a \in Solts(p, l), NEW b \in Solts(p, l), a # b
  PROVE  (a .. a + Pow2[l] - 1) \cap (b .. b + Pow2[l] - 1) = {}
<1>1. PICK i \in 0 .. MaxSolts(l) - 1 : a = SoltAt(p, l, i)
  BY DEF Solts
<1>2. PICK j \in 0 .. MaxSolts(l) - 1 : b = SoltAt(p, l, j)
  BY DEF Solts
<1>3. i # j /\ i \in Int /\ j \in Int
  BY <1>1, <1>2, SoltsFit
<1>4. a \in Nat /\ b \in Nat /\ Pow2[l] \in Nat
  BY SoltPlace, SlubTypes
<1>5. CASE i < j
  BY <1>1, <1>2, <1>4, <1>5, SoltsApart
<1>6. CASE j < i
  BY <1>1, <1>2, <1>4, <1>6, SoltsApart
<1> QED BY <1>3, <1>5, <1>6

LEMMA SoltsAreBytes ==
  ASSUME NEW p \in Pages, NEW l \in Levels
  PROVE  Solts(p, l) \subseteq Bytes
<1>1. p \in Nat
  BY SlubTypes
<1>2. ASSUME NEW a \in Solts(p, l) PROVE a \in AddrOf(p) .. AddrOf(p) + BlockSize - 1
  <2>1. /\ a \in Nat /\ AddrOf(p) + HeaderSize <= a /\ a + Pow2[l] <= AddrOf(p) + BlockSize
        /\ AddrOf(p) \in Nat /\ BlockSize \in Nat /\ HeaderSize \in Nat /\ Pow2[l] \in Nat \ {0}
    BY <1>1, SoltPlace, SlubTypes, BlockAddress
  <2> QED BY <2>1
<1> QED BY <1>2 DEF Bytes

(* alloc_slub links every slot of the block once.                          *)
LEMMA FreshSolts ==
  ASSUME NEW p \in Pages, NEW l \in Levels
  PROVE  LET s == NewFreeList(p, l)
         IN s \in Seq(Bytes) /\ s # << >> /\ Distinct(s) /\ ToSet(s) = Solts(p, l)
<1> DEFINE m == MaxSolts(l)
           s == NewFreeList(p, l)
<1>1. m \in Nat \ {0} /\ p \in Nat
  BY SoltsFit, SlubTypes
<1> HIDE DEF m
<1>2. s = [n \in 1 .. m |-> SoltAt(p, l, m - n)]
  BY DEF NewFreeList, m
<1>3. DOMAIN s = 1 .. m /\ \A n \in 1 .. m : s[n] = SoltAt(p, l, m - n) /\ m - n \in 0 .. m - 1
  BY <1>1, <1>2
<1>4. ToSet(s) = Solts(p, l)
  <2>1. ToSet(s) \subseteq Solts(p, l)
    BY <1>3 DEF ToSet, Solts, m
  <2>2. ASSUME NEW a \in Solts(p, l) PROVE a \in ToSet(s)
    <3>1. PICK i \in 0 .. m - 1 : a = SoltAt(p, l, i)
      BY DEF Solts, m
    <3>2. m - i \in 1 .. m /\ m - (m - i) = i
      BY <1>1
    <3> QED BY <1>3, <3>1, <3>2 DEF ToSet
  <2> QED BY <2>1, <2>2
<1>5. s \in Seq(Bytes)
  <2>1. \A n \in 1 .. m : s[n] \in Bytes
    <3>1. \A n \in 1 .. m : s[n] \in Solts(p, l)
      BY <1>3 DEF Solts, m
    <3> QED BY <3>1, SoltsAreBytes
  <2>2. s \in [1 .. m -> Bytes]
    BY <1>2, <2>1
  <2> HIDE DEF s
  <2> QED BY <1>1, <2>2
<1>6. s # << >>
  BY <1>1, <1>3
<1>7. Distinct(s)
  <2> SUFFICES ASSUME NEW x \in 1 .. m, NEW y \in 1 .. m, s[x] = s[y], x < y PROVE FALSE
    BY <1>1, <1>3 DEF Distinct
  <2>1. PICK i \in 0 .. m - 1, j \in 0 .. m - 1 : i = m - y /\ j = m - x
    BY <1>1
  <2>2. i < j
    BY <1>1, <2>1
  <2>3. SoltAt(p, l, i) + Pow2[l] <= SoltAt(p, l, j)
    BY <1>1, <2>2, SoltsApart DEF m
  <2>4. SoltAt(p, l, i) = SoltAt(p, l, j) /\ SoltAt(p, l, i) \in Solts(p, l)
    BY <1>3, <2>1 DEF Solts, m
  <2> QED BY <1>1, <2>3, <2>4, SoltPlace, SlubTypes
<1> QED BY <1>4, <1>5, <1>6, <1>7

LEMMA WithFacts ==
  ASSUME NEW f, NEW x, NEW v
  PROVE  /\ DOMAIN With(f, x, v) = DOMAIN f \cup {x}
         /\ With(f, x, v)[x] = v
         /\ \A y \in DOMAIN f : y # x => With(f, x, v)[y] = f[y]
BY DEF With

LEMMA FittingFacts ==
  ASSUME NEW size \in Nat, Fitting(size) # {}
  PROVE  Min(Fitting(size)) \in Levels /\ size <= Pow2[Min(Fitting(size))]
<1>1. Fitting(size) \subseteq Nat
  BY SlubTypes DEF Fitting
<1>2. Min(Fitting(size)) \in Fitting(size)
  BY <1>1, NatLeast, Zenon DEF Min
<1> QED BY <1>2, SlubTypes DEF Fitting

-----------------------------------------------------------------------------
(* The inductive invariant, of the six parts of the state: the page runs   *)
(* rn, the levels lv and free lists fl of the slubs, the avail and full    *)
(* lists av and fu, and the objects hd that callers hold.                  *)

Types(rn, lv, fl, av, fu, hd) ==
  /\ DOMAIN rn \subseteq Pages /\ rn \in [DOMAIN rn -> SUBSET Pages]
  /\ DOMAIN lv \subseteq Pages /\ lv \in [DOMAIN lv -> Levels]
  /\ fl \in [DOMAIN lv -> Seq(Bytes)]
  /\ av \in [Levels -> Seq(DOMAIN lv)] /\ fu \in [Levels -> Seq(DOMAIN lv)]
  /\ DOMAIN hd \subseteq Bytes /\ hd \in [DOMAIN hd -> Sizes]

(* Runs share no page, and each is a slub or a large object.               *)
RunsGood(rn, lv, hd) ==
  /\ \A p \in DOMAIN rn : p \in rn[p]
  /\ \A p, q \in DOMAIN rn : p # q => rn[p] \cap rn[q] = {}
  /\ DOMAIN rn = DOMAIN lv \cup {PageOf(a) : a \in {b \in DOMAIN hd : IsBlockAligned(b)}}
  /\ \A p \in DOMAIN lv : rn[p] = {p} /\ AddrOf(p) \notin DOMAIN hd

(* The slots of a slub are divided between its list and its holders.       *)
Taken(hd, p) == {a \in DOMAIN hd : PageOf(a) = p}
SoltsGood(lv, fl, hd) ==
  \A p \in DOMAIN lv :
    /\ Distinct(fl[p])
    /\ ToSet(fl[p]) \cap Taken(hd, p) = {}
    /\ ToSet(fl[p]) \cup Taken(hd, p) = Solts(p, lv[p])

(* The slubs of a level are divided between its two lists.                 *)
ListsGood(lv, fl, av, fu) ==
  \A l \in Levels :
    /\ Distinct(av[l]) /\ Distinct(fu[l])
    /\ ToSet(av[l]) = {p \in DOMAIN lv : lv[p] = l /\ fl[p] # << >>}
    /\ ToSet(fu[l]) = {p \in DOMAIN lv : lv[p] = l /\ fl[p] = << >>}

(* An object is as large as asked for: a run of blocks, or a slot.         *)
LargeObject(rn, a, size) ==
  /\ IsBlockAligned(a) /\ Fitting(size) = {}
  /\ rn[PageOf(a)] = BridgeRun(PageOf(a), Max({size, BlockSize}))
SmallObject(lv, a, size) ==
  ~IsBlockAligned(a) /\ PageOf(a) \in DOMAIN lv /\ size <= Pow2[lv[PageOf(a)]]
ObjectsGood(rn, lv, hd) ==
  \A a \in DOMAIN hd : LargeObject(rn, a, hd[a]) \/ SmallObject(lv, a, hd[a])

Good(rn, lv, fl, av, fu, hd) ==
  /\ Types(rn, lv, fl, av, fu, hd)
  /\ RunsGood(rn, lv, hd)
  /\ SoltsGood(lv, fl, hd)
  /\ ListsGood(lv, fl, av, fu)
  /\ ObjectsGood(rn, lv, hd)

SInv == Good(runs, level_of, free_list, slub_avail, slub_full, held)

LEMMA BytesTypes == Bytes \subseteq Nat
<1> SUFFICES ASSUME NEW p \in Pages, NEW b \in AddrOf(p) .. AddrOf(p) + BlockSize - 1 PROVE b \in Nat
  BY DEF Bytes
<1> QED BY BlockAddress, SlubTypes

LEMMA SeqGrows ==
  ASSUME NEW S, NEW T, S \subseteq T, NEW s \in Seq(S)
  PROVE  s \in Seq(T)
OBVIOUS

(* What follows of the invariant for one object, slub and page.            *)
LEMMA ObjectPage ==
  ASSUME NEW rn, NEW lv, NEW fl, NEW av, NEW fu, NEW hd, Good(rn, lv, fl, av, fu, hd),
         NEW a \in DOMAIN hd
  PROVE  /\ a \in Nat /\ a \in Bytes /\ hd[a] \in Sizes /\ hd[a] \in Nat
         /\ PageOf(a) \in DOMAIN rn /\ PageOf(a) \in Pages /\ PageOf(a) \in Nat
         /\ IsBlockAligned(a) => a = AddrOf(PageOf(a)) /\ PageOf(a) \notin DOMAIN lv
         /\ ~IsBlockAligned(a) => PageOf(a) \in DOMAIN lv /\ a \in Solts(PageOf(a), lv[PageOf(a)])
<1> USE DEF Good
<1>1. a \in Nat /\ a \in Bytes /\ hd[a] \in Sizes /\ hd[a] \in Nat
  BY BytesTypes, SlubTypes DEF Types
<1>2. IsBlockAligned(a) => a = AddrOf(PageOf(a)) /\ PageOf(a) \notin DOMAIN lv /\ PageOf(a) \in DOMAIN rn
  BY <1>1, AlignedIsBlock DEF RunsGood
<1>3. ~IsBlockAligned(a) => PageOf(a) \in DOMAIN lv /\ PageOf(a) \in DOMAIN rn
  BY DEF ObjectsGood, LargeObject, SmallObject, RunsGood
<1>4. ~IsBlockAligned(a) => a \in Solts(PageOf(a), lv[PageOf(a)])
  BY <1>3 DEF SoltsGood, Taken
<1>5. DOMAIN rn \subseteq Pages
  BY DEF Types
<1> QED BY <1>1, <1>2, <1>3, <1>4, <1>5, SlubTypes

(* A page of no run is no slub, and no object lies in it.                  *)
LEMMA FreshPage ==
  ASSUME NEW rn, NEW lv, NEW fl, NEW av, NEW fu, NEW hd, Good(rn, lv, fl, av, fu, hd),
         NEW p \in Pages, \A q \in DOMAIN rn : p \notin rn[q]
  PROVE  /\ p \notin DOMAIN rn /\ p \notin DOMAIN lv /\ Taken(hd, p) = {}
         /\ AddrOf(p) \notin DOMAIN hd
<1>1. p \notin DOMAIN rn
  BY DEF Good, RunsGood
<1>2. p \notin DOMAIN lv
  BY <1>1 DEF Good, RunsGood
<1>3. Taken(hd, p) = {}
  BY <1>1, ObjectPage DEF Taken
<1>4. PageOf(AddrOf(p)) = p
  BY BlockAddress, SlubTypes
<1> QED BY <1>1, <1>2, <1>3, <1>4 DEF Taken

-----------------------------------------------------------------------------
(* A new slub: its block, header, free list and place in the avail list.   *)
LEMMA AddSlub ==
  ASSUME NEW rn, NEW lv, NEW fl, NEW av, NEW fu, NEW hd, Good(rn, lv, fl, av, fu, hd),
         NEW l \in Levels, av[l] = << >>,
         NEW p \in Pages, \A q \in DOMAIN rn : p \notin rn[q]
  PROVE  Good(With(rn, p, {p}), With(lv, p, l), With(fl, p, NewFreeList(p, l)), [av EXCEPT ![l] = <<p>>], fu, hd)
<1>1. PICK rn2, lv2, fl2, av2, new :
           /\ rn2 = With(rn, p, {p}) /\ lv2 = With(lv, p, l) /\ new = NewFreeList(p, l)
           /\ fl2 = With(fl, p, new) /\ av2 = [av EXCEPT ![l] = <<p>>]
  OBVIOUS
<1>2. /\ p \notin DOMAIN rn /\ p \notin DOMAIN lv /\ Taken(hd, p) = {}
      /\ AddrOf(p) \notin DOMAIN hd
  BY FreshPage
<1>3. new \in Seq(Bytes) /\ new # << >> /\ Distinct(new) /\ ToSet(new) = Solts(p, l)
  BY <1>1, FreshSolts
<1>4. Types(rn, lv, fl, av, fu, hd) /\ RunsGood(rn, lv, hd) /\ SoltsGood(lv, fl, hd)
      /\ ListsGood(lv, fl, av, fu) /\ ObjectsGood(rn, lv, hd)
  BY DEF Good
<1>5. DOMAIN fl = DOMAIN lv /\ DOMAIN av = Levels /\ DOMAIN fu = Levels
  BY <1>4 DEF Types
<1>6. /\ DOMAIN rn2 = DOMAIN rn \cup {p} /\ rn2[p] = {p} /\ \A q \in DOMAIN rn : rn2[q] = rn[q]
      /\ DOMAIN lv2 = DOMAIN lv \cup {p} /\ lv2[p] = l /\ \A q \in DOMAIN lv : lv2[q] = lv[q]
      /\ DOMAIN fl2 = DOMAIN lv \cup {p} /\ fl2[p] = new /\ \A q \in DOMAIN lv : fl2[q] = fl[q]
      /\ av2[l] = <<p>> /\ \A k \in Levels : k # l => av2[k] = av[k]
  <2>1. DOMAIN rn2 = DOMAIN rn \cup {p} /\ rn2[p] = {p} /\ \A q \in DOMAIN rn : rn2[q] = rn[q]
    BY <1>1, <1>2 DEF With
  <2>2. DOMAIN lv2 = DOMAIN lv \cup {p} /\ lv2[p] = l /\ \A q \in DOMAIN lv : lv2[q] = lv[q]
    BY <1>1, <1>2 DEF With
  <2>3. DOMAIN fl2 = DOMAIN lv \cup {p} /\ fl2[p] = new /\ \A q \in DOMAIN lv : fl2[q] = fl[q]
    BY <1>1, <1>2, <1>5 DEF With
  <2> QED BY <1>1, <1>5, <2>1, <2>2, <2>3
<1>7. Types(rn2, lv2, fl2, av2, fu, hd)
  <2>1. DOMAIN rn2 \subseteq Pages /\ \A q \in DOMAIN rn2 : rn2[q] \in SUBSET Pages
    BY <1>4, <1>6 DEF Types
  <2>2. rn2 \in [DOMAIN rn2 -> SUBSET Pages]
    BY <2>1, <1>1 DEF With
  <2>3. DOMAIN lv2 \subseteq Pages /\ \A q \in DOMAIN lv2 : lv2[q] \in Levels
    BY <1>4, <1>6 DEF Types
  <2>4. lv2 \in [DOMAIN lv2 -> Levels]
    BY <2>3, <1>1 DEF With
  <2>5. \A q \in DOMAIN lv2 : fl2[q] \in Seq(Bytes)
    BY <1>3, <1>4, <1>6 DEF Types
  <2>6. fl2 \in [DOMAIN lv2 -> Seq(Bytes)]
    BY <2>5, <1>1, <1>6 DEF With
  <2>7. \A k \in Levels : av2[k] \in Seq(DOMAIN lv2) /\ fu[k] \in Seq(DOMAIN lv2)
    <3> TAKE k \in Levels
    <3>1. av[k] \in Seq(DOMAIN lv) /\ fu[k] \in Seq(DOMAIN lv) /\ DOMAIN lv \subseteq DOMAIN lv2 /\ p \in DOMAIN lv2
      BY <1>4, <1>6 DEF Types
    <3>2. av[k] \in Seq(DOMAIN lv2) /\ fu[k] \in Seq(DOMAIN lv2)
      BY <3>1, SeqGrows
    <3>3. <<p>> \in Seq(DOMAIN lv2)
      BY <3>1
    <3> QED BY <1>6, <3>2, <3>3
  <2>8. av2 \in [Levels -> Seq(DOMAIN lv2)] /\ fu \in [Levels -> Seq(DOMAIN lv2)]
    <3>1. av2 = [k \in Levels |-> av2[k]] /\ fu = [k \in Levels |-> fu[k]]
      BY <1>1, <1>4 DEF Types
    <3> QED BY <2>7, <3>1
  <2> QED BY <1>4, <2>1, <2>2, <2>3, <2>4, <2>6, <2>8 DEF Types
<1>8. RunsGood(rn2, lv2, hd)
  <2>1. \A q \in DOMAIN rn2 : q \in rn2[q]
    BY <1>4, <1>6 DEF RunsGood
  <2>2. \A x, y \in DOMAIN rn2 : x # y => rn2[x] \cap rn2[y] = {}
    BY <1>4, <1>6 DEF RunsGood
  <2>3. DOMAIN rn2 = DOMAIN lv2 \cup {PageOf(a) : a \in {b \in DOMAIN hd : IsBlockAligned(b)}}
    BY <1>4, <1>6 DEF RunsGood
  <2>4. \A q \in DOMAIN lv2 : rn2[q] = {q} /\ AddrOf(q) \notin DOMAIN hd
    BY <1>2, <1>4, <1>6 DEF RunsGood
  <2> QED BY <2>1, <2>2, <2>3, <2>4 DEF RunsGood
<1>9. SoltsGood(lv2, fl2, hd)
  BY <1>2, <1>3, <1>4, <1>6 DEF SoltsGood
<1>10. ListsGood(lv2, fl2, av2, fu)
  <2>1. ToSet(<<p>>) = {p} /\ Distinct(<<p>>)
    BY DEF ToSet, Distinct
  <2>2. \A k \in Levels : {q \in DOMAIN lv2 : lv2[q] = k /\ fl2[q] = << >>} = {q \in DOMAIN lv : lv[q] = k /\ fl[q] = << >>}
    BY <1>2, <1>3, <1>6
  <2>3. \A k \in Levels : {q \in DOMAIN lv2 : lv2[q] = k /\ fl2[q] # << >>}
                           = {q \in DOMAIN lv : lv[q] = k /\ fl[q] # << >>} \cup (IF k = l THEN {p} ELSE {})
    BY <1>2, <1>3, <1>6
  <2>4. {q \in DOMAIN lv : lv[q] = l /\ fl[q] # << >>} = {}
    BY <1>4 DEF ListsGood, ToSet
  <2> QED BY <1>4, <1>6, <2>1, <2>2, <2>3, <2>4 DEF ListsGood
<1>11. ObjectsGood(rn2, lv2, hd)
  <2> SUFFICES ASSUME NEW a \in DOMAIN hd PROVE LargeObject(rn2, a, hd[a]) \/ SmallObject(lv2, a, hd[a])
    BY DEF ObjectsGood
  <2>1. PageOf(a) \in DOMAIN rn /\ (LargeObject(rn, a, hd[a]) \/ SmallObject(lv, a, hd[a]))
    BY <1>4, ObjectPage DEF ObjectsGood
  <2> QED BY <1>6, <2>1 DEF LargeObject, SmallObject
<1> QED BY <1>1, <1>7, <1>8, <1>9, <1>10, <1>11 DEF Good

-----------------------------------------------------------------------------
(* The lists after slot a of slub s, of level l, is taken or given back,   *)
(* and the runs and objects without p and a.                               *)
SlotTaken(fl, s, rest) == [fl EXCEPT ![s] = rest]
AvailTaken(av, l, rest) == [av EXCEPT ![l] = IF IsFull(rest) THEN Tail(av[l]) ELSE av[l]]
FullTaken(fu, l, s, rest) == [fu EXCEPT ![l] = IF IsFull(rest) THEN <<s>> \o fu[l] ELSE fu[l]]
SlotGiven(fl, s, a) == [fl EXCEPT ![s] = <<a>> \o fl[s]]
AvailGiven(av, l, s, slots) == IF IsFull(slots) THEN [av EXCEPT ![l] = <<s>> \o av[l]] ELSE av
FullGiven(fu, l, s, slots) == IF IsFull(slots) THEN [fu EXCEPT ![l] = RemoveFirst(fu[l], s)] ELSE fu
Without(f, x) == [y \in DOMAIN f \ {x} |-> f[y]]

(* A slot goes from the first slub of avail to a caller: a is the first    *)
(* free slot of slub s, and rest are the others.                           *)
Suits(l, size) == l \in Levels /\ size \in Sizes /\ size <= Pow2[l]
FirstFree(fl, avail, s, a, rest) ==
  avail # << >> /\ s = Head(avail) /\ a = Head(fl[s]) /\ rest = Tail(fl[s])

LEMMA TakeSlot ==
  ASSUME NEW rn, NEW lv, NEW fl, NEW av, NEW fu, NEW hd, Good(rn, lv, fl, av, fu, hd),
         NEW l, NEW size, Suits(l, size), NEW s, NEW a, NEW rest, FirstFree(fl, av[l], s, a, rest)
  PROVE  /\ s \in DOMAIN lv /\ lv[s] = l /\ fl[s] # << >> /\ a \notin DOMAIN hd
         /\ ~IsBlockAligned(a) /\ a \in Solts(s, l) /\ PageOf(a) = s
         /\ Good(rn, lv, SlotTaken(fl, s, rest), AvailTaken(av, l, rest),
                 FullTaken(fu, l, s, rest), With(hd, a, size))
<1> USE DEF Suits, FirstFree
<1>0. PICK fl2, av2, fu2, hd2 :
           /\ fl2 = SlotTaken(fl, s, rest) /\ av2 = AvailTaken(av, l, rest)
           /\ fu2 = FullTaken(fu, l, s, rest) /\ hd2 = With(hd, a, size)
  OBVIOUS
<1>1. /\ fl2 = [fl EXCEPT ![s] = rest]
      /\ av2 = [av EXCEPT ![l] = IF IsFull(rest) THEN Tail(av[l]) ELSE av[l]]
      /\ fu2 = [fu EXCEPT ![l] = IF IsFull(rest) THEN <<s>> \o @ ELSE @]
      /\ hd2 = With(hd, a, size)
  BY <1>0 DEF SlotTaken, AvailTaken, FullTaken
<1>2. Types(rn, lv, fl, av, fu, hd) /\ RunsGood(rn, lv, hd) /\ SoltsGood(lv, fl, hd)
      /\ ListsGood(lv, fl, av, fu) /\ ObjectsGood(rn, lv, hd)
  BY DEF Good
<1>3. /\ DOMAIN fl = DOMAIN lv /\ DOMAIN av = Levels /\ DOMAIN fu = Levels
      /\ av[l] \in Seq(DOMAIN lv) /\ fu[l] \in Seq(DOMAIN lv) /\ DOMAIN lv \subseteq Pages
  BY <1>2 DEF Types
<1>4. s \in ToSet(av[l])
  BY <1>3, ListEmpty
<1>5. s \in DOMAIN lv /\ lv[s] = l /\ fl[s] # << >> /\ s \notin ToSet(fu[l])
  BY <1>2, <1>4 DEF ListsGood
<1>6. fl[s] \in Seq(Bytes) /\ Distinct(fl[s]) /\ s \in Nat
  BY <1>2, <1>3, <1>5, SlubTypes DEF Types, SoltsGood
<1>7. a \in ToSet(fl[s]) /\ rest \in Seq(Bytes) /\ ToSet(rest) = ToSet(fl[s]) \ {a} /\ Distinct(rest)
  BY <1>5, <1>6, ListEmpty, ListTail
<1>8. a \in Solts(s, l) /\ a \notin Taken(hd, s)
  BY <1>2, <1>5, <1>7 DEF SoltsGood
<1>9. PageOf(a) = s /\ ~IsBlockAligned(a) /\ a \in Nat /\ a \in Bytes
  BY <1>3, <1>5, <1>6, <1>8, SoltPlace, SoltsAreBytes
<1>10. a \notin DOMAIN hd
  BY <1>8, <1>9 DEF Taken
<1>11. /\ DOMAIN hd2 = DOMAIN hd \cup {a} /\ hd2[a] = size /\ \A b \in DOMAIN hd : hd2[b] = hd[b]
       /\ DOMAIN fl2 = DOMAIN lv /\ fl2[s] = rest /\ \A q \in DOMAIN lv : q # s => fl2[q] = fl[q]
       /\ \A k \in Levels : k # l => av2[k] = av[k] /\ fu2[k] = fu[k]
       /\ av2[l] = IF IsFull(rest) THEN Tail(av[l]) ELSE av[l]
       /\ fu2[l] = IF IsFull(rest) THEN <<s>> \o fu[l] ELSE fu[l]
  <2>1. DOMAIN hd2 = DOMAIN hd \cup {a} /\ hd2[a] = size /\ \A b \in DOMAIN hd : hd2[b] = hd[b]
    BY <1>1, <1>10 DEF With
  <2> QED BY <1>1, <1>3, <1>5, <2>1
<1>12. /\ Tail(av[l]) \in Seq(DOMAIN lv)
       /\ ToSet(Tail(av[l])) = ToSet(av[l]) \ {s} /\ Distinct(Tail(av[l]))
       /\ <<s>> \o fu[l] \in Seq(DOMAIN lv)
       /\ ToSet(<<s>> \o fu[l]) = {s} \cup ToSet(fu[l]) /\ Distinct(<<s>> \o fu[l])
  <2>1. Distinct(av[l]) /\ Distinct(fu[l])
    BY <1>2 DEF ListsGood
  <2>2. Tail(av[l]) \in Seq(DOMAIN lv) /\ ToSet(Tail(av[l])) = ToSet(av[l]) \ {s} /\ Distinct(Tail(av[l]))
    BY <1>3, <2>1, ListTail
  <2>3. /\ <<s>> \o fu[l] \in Seq(DOMAIN lv)
        /\ ToSet(<<s>> \o fu[l]) = {s} \cup ToSet(fu[l]) /\ Distinct(<<s>> \o fu[l])
    BY <1>3, <1>5, <2>1, ListAdd
  <2> QED BY <2>2, <2>3
<1>13. Types(rn, lv, fl2, av2, fu2, hd2)
  <2>1. fl2 \in [DOMAIN lv -> Seq(Bytes)]
    <3>1. \A q \in DOMAIN lv : fl2[q] \in Seq(Bytes)
      BY <1>2, <1>7, <1>11 DEF Types
    <3> QED BY <1>1, <1>3, <3>1
  <2>2. av2 \in [Levels -> Seq(DOMAIN lv)] /\ fu2 \in [Levels -> Seq(DOMAIN lv)]
    <3>1. \A k \in Levels : av2[k] \in Seq(DOMAIN lv) /\ fu2[k] \in Seq(DOMAIN lv)
      BY <1>2, <1>11, <1>12 DEF Types
    <3> QED BY <1>1, <1>3, <3>1
  <2>3. DOMAIN hd2 \subseteq Bytes /\ hd2 \in [DOMAIN hd2 -> Sizes]
    <3>1. \A b \in DOMAIN hd2 : hd2[b] \in Sizes
      BY <1>2, <1>11 DEF Types
    <3>2. hd2 = [b \in DOMAIN hd2 |-> hd2[b]]
      BY <1>1 DEF With
    <3> QED BY <1>2, <1>9, <1>11, <3>1, <3>2 DEF Types
  <2> QED BY <1>2, <2>1, <2>2, <2>3 DEF Types
<1>14. RunsGood(rn, lv, hd2)
  <2>1. {b \in DOMAIN hd2 : IsBlockAligned(b)} = {b \in DOMAIN hd : IsBlockAligned(b)}
    BY <1>9, <1>11
  <2>2. \A p \in DOMAIN lv : AddrOf(p) # a
    BY <1>3, <1>9, BlockAddress, SlubTypes
  <2> QED BY <1>2, <1>11, <2>1, <2>2 DEF RunsGood
<1>15. SoltsGood(lv, fl2, hd2)
  <2>1. Taken(hd2, s) = Taken(hd, s) \cup {a} /\ \A q : q # s => Taken(hd2, q) = Taken(hd, q)
    BY <1>9, <1>11 DEF Taken
  <2>2. /\ Distinct(fl2[s]) /\ ToSet(fl2[s]) \cap Taken(hd2, s) = {}
        /\ ToSet(fl2[s]) \cup Taken(hd2, s) = Solts(s, lv[s])
    BY <1>2, <1>5, <1>7, <1>8, <1>11, <2>1 DEF SoltsGood
  <2> QED BY <1>2, <1>11, <2>1, <2>2 DEF SoltsGood
<1>16. ListsGood(lv, fl2, av2, fu2)
  <2> SUFFICES ASSUME NEW k \in Levels
               PROVE  /\ Distinct(av2[k]) /\ Distinct(fu2[k])
                      /\ ToSet(av2[k]) = {p \in DOMAIN lv : lv[p] = k /\ fl2[p] # << >>}
                      /\ ToSet(fu2[k]) = {p \in DOMAIN lv : lv[p] = k /\ fl2[p] = << >>}
    BY DEF ListsGood
  <2>1. /\ Distinct(av[k]) /\ Distinct(fu[k])
        /\ ToSet(av[k]) = {p \in DOMAIN lv : lv[p] = k /\ fl[p] # << >>}
        /\ ToSet(fu[k]) = {p \in DOMAIN lv : lv[p] = k /\ fl[p] = << >>}
    BY <1>2 DEF ListsGood
  <2>2. CASE k # l
    BY <1>5, <1>11, <2>1, <2>2
  <2>3. CASE k = l /\ rest = << >>
    <3>1. /\ {p \in DOMAIN lv : lv[p] = l /\ fl2[p] # << >>} = {p \in DOMAIN lv : lv[p] = l /\ fl[p] # << >>} \ {s}
          /\ {p \in DOMAIN lv : lv[p] = l /\ fl2[p] = << >>} = {s} \cup {p \in DOMAIN lv : lv[p] = l /\ fl[p] = << >>}
      BY <1>5, <1>11, <2>3
    <3>2. av2[l] = Tail(av[l]) /\ fu2[l] = <<s>> \o fu[l]
      BY <1>11, <2>3 DEF IsFull
    <3> QED BY <1>12, <2>1, <2>3, <3>1, <3>2
  <2>4. CASE k = l /\ rest # << >>
    <3>1. /\ {p \in DOMAIN lv : lv[p] = l /\ fl2[p] # << >>} = {p \in DOMAIN lv : lv[p] = l /\ fl[p] # << >>}
          /\ {p \in DOMAIN lv : lv[p] = l /\ fl2[p] = << >>} = {p \in DOMAIN lv : lv[p] = l /\ fl[p] = << >>}
      BY <1>5, <1>11, <2>4
    <3>2. av2[l] = av[l] /\ fu2[l] = fu[l]
      BY <1>11, <2>4 DEF IsFull
    <3> QED BY <2>1, <2>4, <3>1, <3>2
  <2> QED BY <2>2, <2>3, <2>4
<1>17. ObjectsGood(rn, lv, hd2)
  <2>1. SmallObject(lv, a, hd2[a])
    BY <1>5, <1>9, <1>11 DEF SmallObject
  <2> QED BY <1>2, <1>11, <2>1 DEF ObjectsGood
<1> QED BY <1>0, <1>5, <1>8, <1>9, <1>10, <1>13, <1>14, <1>15, <1>16, <1>17 DEF Good

(* A slot goes back to the front of its slub's list, and the slub, if it   *)
(* was full, to the front of avail.                                        *)
LEMMA GiveSlot ==
  ASSUME NEW rn, NEW lv, NEW fl, NEW av, NEW fu, NEW hd, Good(rn, lv, fl, av, fu, hd),
         NEW a \in DOMAIN hd, ~IsBlockAligned(a), NEW s, s = PageOf(a), NEW l, l = lv[s]
  PROVE  /\ s \in DOMAIN lv /\ l \in Levels
         /\ Good(rn, lv, SlotGiven(fl, s, a), AvailGiven(av, l, s, fl[s]),
                 FullGiven(fu, l, s, fl[s]), Without(hd, a))
<1>0. PICK fl2, av2, fu2, hd2 :
           /\ fl2 = SlotGiven(fl, s, a) /\ av2 = AvailGiven(av, l, s, fl[s])
           /\ fu2 = FullGiven(fu, l, s, fl[s]) /\ hd2 = Without(hd, a)
  OBVIOUS
<1>1. /\ fl2 = [fl EXCEPT ![s] = <<a>> \o @]
      /\ av2 = IF IsFull(fl[s]) THEN [av EXCEPT ![l] = <<s>> \o @] ELSE av
      /\ fu2 = IF IsFull(fl[s]) THEN [fu EXCEPT ![l] = RemoveFirst(@, s)] ELSE fu
      /\ hd2 = [b \in DOMAIN hd \ {a} |-> hd[b]]
  BY <1>0 DEF SlotGiven, AvailGiven, FullGiven, Without
<1>2. Types(rn, lv, fl, av, fu, hd) /\ RunsGood(rn, lv, hd) /\ SoltsGood(lv, fl, hd)
      /\ ListsGood(lv, fl, av, fu) /\ ObjectsGood(rn, lv, hd)
  BY DEF Good
<1>3. /\ a \in Nat /\ a \in Bytes /\ s \in DOMAIN lv /\ a \in Solts(s, l)
  BY ObjectPage
<1>4. /\ DOMAIN fl = DOMAIN lv /\ DOMAIN av = Levels /\ DOMAIN fu = Levels /\ l \in Levels
      /\ av[l] \in Seq(DOMAIN lv) /\ fu[l] \in Seq(DOMAIN lv)
      /\ fl[s] \in Seq(Bytes) /\ Distinct(fl[s]) /\ Distinct(av[l]) /\ Distinct(fu[l])
  BY <1>2, <1>3 DEF Types, SoltsGood, ListsGood
<1>5. a \in Taken(hd, s) /\ a \notin ToSet(fl[s])
  BY <1>2, <1>3 DEF Taken, SoltsGood
<1>6. /\ <<a>> \o fl[s] \in Seq(Bytes) /\ ToSet(<<a>> \o fl[s]) = {a} \cup ToSet(fl[s])
      /\ Distinct(<<a>> \o fl[s])
  BY <1>3, <1>4, <1>5, ListAdd
<1>7. <<a>> \o fl[s] # << >>
  <2>1. ToSet(<<a>> \o fl[s]) # {}
    BY <1>6
  <2> QED BY <2>1, ListEmpty
<1>8. /\ <<s>> \o av[l] \in Seq(DOMAIN lv) /\ ToSet(<<s>> \o av[l]) = {s} \cup ToSet(av[l])
      /\ RemoveFirst(fu[l], s) \in Seq(DOMAIN lv)
      /\ ToSet(RemoveFirst(fu[l], s)) = ToSet(fu[l]) \ {s} /\ Distinct(RemoveFirst(fu[l], s))
      /\ IsFull(fl[s]) => Distinct(<<s>> \o av[l])
  <2>1. IsFull(fl[s]) => s \notin ToSet(av[l])
    BY <1>2, <1>4 DEF ListsGood, IsFull
  <2>2. /\ <<s>> \o av[l] \in Seq(DOMAIN lv) /\ ToSet(<<s>> \o av[l]) = {s} \cup ToSet(av[l])
        /\ IsFull(fl[s]) => Distinct(<<s>> \o av[l])
    BY <1>3, <1>4, <2>1, ListAdd
  <2>3. /\ RemoveFirst(fu[l], s) \in Seq(DOMAIN lv)
        /\ ToSet(RemoveFirst(fu[l], s)) = ToSet(fu[l]) \ {s} /\ Distinct(RemoveFirst(fu[l], s))
    BY <1>4, ListDel
  <2> QED BY <2>2, <2>3
<1>9. /\ DOMAIN hd2 = DOMAIN hd \ {a} /\ \A b \in DOMAIN hd2 : hd2[b] = hd[b]
      /\ DOMAIN fl2 = DOMAIN lv /\ fl2[s] = <<a>> \o fl[s] /\ \A q \in DOMAIN lv : q # s => fl2[q] = fl[q]
      /\ \A k \in Levels : k # l => av2[k] = av[k] /\ fu2[k] = fu[k]
      /\ av2[l] = IF IsFull(fl[s]) THEN <<s>> \o av[l] ELSE av[l]
      /\ fu2[l] = IF IsFull(fl[s]) THEN RemoveFirst(fu[l], s) ELSE fu[l]
  BY <1>1, <1>3, <1>4
<1>10. Types(rn, lv, fl2, av2, fu2, hd2)
  <2>1. fl2 \in [DOMAIN lv -> Seq(Bytes)]
    <3>1. \A q \in DOMAIN lv : fl2[q] \in Seq(Bytes)
      BY <1>2, <1>6, <1>9 DEF Types
    <3> QED BY <1>1, <1>4, <3>1
  <2>2. av2 \in [Levels -> Seq(DOMAIN lv)] /\ fu2 \in [Levels -> Seq(DOMAIN lv)]
    <3>1. \A k \in Levels : av2[k] \in Seq(DOMAIN lv) /\ fu2[k] \in Seq(DOMAIN lv)
      BY <1>2, <1>8, <1>9 DEF Types
    <3>2. av2 = [k \in Levels |-> av2[k]] /\ fu2 = [k \in Levels |-> fu2[k]]
      BY <1>1, <1>2, <1>4 DEF Types
    <3> QED BY <3>1, <3>2
  <2>3. DOMAIN hd2 \subseteq Bytes /\ hd2 \in [DOMAIN hd2 -> Sizes]
    <3>1. \A b \in DOMAIN hd2 : hd2[b] \in Sizes
      BY <1>2, <1>9 DEF Types
    <3> QED BY <1>1, <1>2, <1>9, <3>1 DEF Types
  <2> QED BY <1>2, <2>1, <2>2, <2>3 DEF Types
<1>11. RunsGood(rn, lv, hd2)
  <2>1. {b \in DOMAIN hd2 : IsBlockAligned(b)} = {b \in DOMAIN hd : IsBlockAligned(b)}
    BY <1>9
  <2> QED BY <1>2, <1>9, <2>1 DEF RunsGood
<1>12. SoltsGood(lv, fl2, hd2)
  <2>1. Taken(hd2, s) = Taken(hd, s) \ {a} /\ \A q : q # s => Taken(hd2, q) = Taken(hd, q)
    BY <1>9 DEF Taken
  <2>2. /\ Distinct(fl2[s]) /\ ToSet(fl2[s]) \cap Taken(hd2, s) = {}
        /\ ToSet(fl2[s]) \cup Taken(hd2, s) = Solts(s, lv[s])
    BY <1>2, <1>3, <1>5, <1>6, <1>9, <2>1 DEF SoltsGood
  <2> QED BY <1>2, <1>9, <2>1, <2>2 DEF SoltsGood
<1>13. ListsGood(lv, fl2, av2, fu2)
  <2> SUFFICES ASSUME NEW k \in Levels
               PROVE  /\ Distinct(av2[k]) /\ Distinct(fu2[k])
                      /\ ToSet(av2[k]) = {p \in DOMAIN lv : lv[p] = k /\ fl2[p] # << >>}
                      /\ ToSet(fu2[k]) = {p \in DOMAIN lv : lv[p] = k /\ fl2[p] = << >>}
    BY DEF ListsGood
  <2>1. /\ Distinct(av[k]) /\ Distinct(fu[k])
        /\ ToSet(av[k]) = {p \in DOMAIN lv : lv[p] = k /\ fl[p] # << >>}
        /\ ToSet(fu[k]) = {p \in DOMAIN lv : lv[p] = k /\ fl[p] = << >>}
    BY <1>2 DEF ListsGood
  <2>2. CASE k # l
    <3>1. /\ {p \in DOMAIN lv : lv[p] = k /\ fl2[p] # << >>} = {p \in DOMAIN lv : lv[p] = k /\ fl[p] # << >>}
          /\ {p \in DOMAIN lv : lv[p] = k /\ fl2[p] = << >>} = {p \in DOMAIN lv : lv[p] = k /\ fl[p] = << >>}
      <4>1. \A p \in DOMAIN lv : lv[p] = k => fl2[p] = fl[p]
        BY <1>9, <2>2
      <4> QED BY <4>1
    <3>2. av2[k] = av[k] /\ fu2[k] = fu[k]
      BY <1>9, <2>2
    <3> QED BY <2>1, <3>1, <3>2
  <2>3. CASE k = l /\ IsFull(fl[s])
    <3>1. /\ {p \in DOMAIN lv : lv[p] = l /\ fl2[p] # << >>} = {s} \cup {p \in DOMAIN lv : lv[p] = l /\ fl[p] # << >>}
          /\ {p \in DOMAIN lv : lv[p] = l /\ fl2[p] = << >>} = {p \in DOMAIN lv : lv[p] = l /\ fl[p] = << >>} \ {s}
      BY <1>3, <1>7, <1>9
    <3>2. av2[l] = <<s>> \o av[l] /\ fu2[l] = RemoveFirst(fu[l], s)
      BY <1>9, <2>3
    <3> QED BY <1>8, <2>1, <2>3, <3>1, <3>2
  <2>4. CASE k = l /\ ~IsFull(fl[s])
    <3>1. /\ {p \in DOMAIN lv : lv[p] = l /\ fl2[p] # << >>} = {p \in DOMAIN lv : lv[p] = l /\ fl[p] # << >>}
          /\ {p \in DOMAIN lv : lv[p] = l /\ fl2[p] = << >>} = {p \in DOMAIN lv : lv[p] = l /\ fl[p] = << >>}
      BY <1>3, <1>7, <1>9, <2>4 DEF IsFull
    <3> QED BY <1>9, <2>1, <2>4, <3>1
  <2> QED BY <2>2, <2>3, <2>4
<1>14. ObjectsGood(rn, lv, hd2)
  BY <1>2, <1>9 DEF ObjectsGood
<1> QED BY <1>0, <1>3, <1>4, <1>10, <1>11, <1>12, <1>13, <1>14 DEF Good

-----------------------------------------------------------------------------
(* A large object: whole blocks, straight from the page allocator.         *)
Unused(rn, run) == \A q \in DOMAIN rn : run \cap rn[q] = {}

LEMMA TakeRun ==
  ASSUME NEW rn, NEW lv, NEW fl, NEW av, NEW fu, NEW hd, Good(rn, lv, fl, av, fu, hd),
         NEW size \in Sizes, Fitting(size) = {},
         NEW p \in Pages, NEW run, run = BridgeRun(p, Max({size, BlockSize})),
         p \in run, run \subseteq Pages, Unused(rn, run)
  PROVE  /\ AddrOf(p) \notin DOMAIN hd /\ p \notin DOMAIN rn
         /\ Good(With(rn, p, run), lv, fl, av, fu, With(hd, AddrOf(p), size))
<1>1. PICK rn2, hd2, a : rn2 = With(rn, p, run) /\ hd2 = With(hd, a, size) /\ a = AddrOf(p)
  OBVIOUS
<1>2. Types(rn, lv, fl, av, fu, hd) /\ RunsGood(rn, lv, hd) /\ SoltsGood(lv, fl, hd)
      /\ ListsGood(lv, fl, av, fu) /\ ObjectsGood(rn, lv, hd)
  BY DEF Good
<1>3. p \notin DOMAIN rn /\ p \notin DOMAIN lv /\ Taken(hd, p) = {} /\ a \notin DOMAIN hd
  BY <1>1, FreshPage DEF Unused
<1>4. a \in Nat /\ PageOf(a) = p /\ IsBlockAligned(a) /\ a \in Bytes
  <2>1. a \in Nat /\ PageOf(a) = p /\ IsBlockAligned(a)
    BY <1>1, BlockAddress, SlubTypes
  <2>2. a \in AddrOf(p) .. AddrOf(p) + BlockSize - 1
    BY <1>1, <2>1, SlubTypes
  <2> QED BY <2>1, <2>2 DEF Bytes
<1>5. /\ DOMAIN rn2 = DOMAIN rn \cup {p} /\ rn2[p] = run /\ \A q \in DOMAIN rn : rn2[q] = rn[q]
      /\ DOMAIN hd2 = DOMAIN hd \cup {a} /\ hd2[a] = size /\ \A b \in DOMAIN hd : hd2[b] = hd[b]
  BY <1>1, <1>3 DEF With
<1>6. Types(rn2, lv, fl, av, fu, hd2)
  <2>1. DOMAIN rn2 \subseteq Pages /\ rn2 \in [DOMAIN rn2 -> SUBSET Pages]
    <3>1. \A q \in DOMAIN rn2 : rn2[q] \in SUBSET Pages
      BY <1>2, <1>5 DEF Types
    <3>2. rn2 = [q \in DOMAIN rn2 |-> rn2[q]]
      BY <1>1 DEF With
    <3> QED BY <1>2, <1>5, <3>1, <3>2 DEF Types
  <2>2. DOMAIN hd2 \subseteq Bytes /\ hd2 \in [DOMAIN hd2 -> Sizes]
    <3>1. \A b \in DOMAIN hd2 : hd2[b] \in Sizes
      BY <1>2, <1>5 DEF Types
    <3>2. hd2 = [b \in DOMAIN hd2 |-> hd2[b]]
      BY <1>1 DEF With
    <3> QED BY <1>2, <1>4, <1>5, <3>1, <3>2 DEF Types
  <2> QED BY <1>2, <2>1, <2>2 DEF Types
<1>7. RunsGood(rn2, lv, hd2)
  <2>1. DOMAIN rn2 = DOMAIN lv \cup {PageOf(b) : b \in {x \in DOMAIN hd2 : IsBlockAligned(x)}}
    <3>1. {x \in DOMAIN hd2 : IsBlockAligned(x)} = {x \in DOMAIN hd : IsBlockAligned(x)} \cup {a}
      BY <1>4, <1>5
    <3>2. DOMAIN rn = DOMAIN lv \cup {PageOf(b) : b \in {x \in DOMAIN hd : IsBlockAligned(x)}}
      BY <1>2 DEF RunsGood
    <3> QED BY <1>4, <1>5, <3>1, <3>2
  <2>2. \A x, y \in DOMAIN rn2 : x # y => rn2[x] \cap rn2[y] = {}
    BY <1>2, <1>5 DEF RunsGood, Unused
  <2>3. \A q \in DOMAIN rn2 : q \in rn2[q]
    BY <1>2, <1>5 DEF RunsGood
  <2>4. \A q \in DOMAIN lv : rn2[q] = {q} /\ AddrOf(q) \notin DOMAIN hd2
    <3>1. \A q \in DOMAIN lv : q \in DOMAIN rn /\ q \in Nat /\ rn[q] = {q} /\ AddrOf(q) \notin DOMAIN hd
      BY <1>2, SlubTypes DEF RunsGood, Types
    <3>2. \A q \in DOMAIN lv : AddrOf(q) # a
      BY <1>3, <1>4, <3>1, BlockAddress
    <3> QED BY <1>5, <3>1, <3>2
  <2> QED BY <2>1, <2>2, <2>3, <2>4 DEF RunsGood
<1>8. SoltsGood(lv, fl, hd2)
  <2>1. \A q \in DOMAIN lv : Taken(hd2, q) = Taken(hd, q)
    BY <1>3, <1>4, <1>5 DEF Taken
  <2> QED BY <1>2, <2>1 DEF SoltsGood
<1>9. ObjectsGood(rn2, lv, hd2)
  <2>1. LargeObject(rn2, a, hd2[a])
    BY <1>4, <1>5 DEF LargeObject
  <2>2. ASSUME NEW b \in DOMAIN hd PROVE LargeObject(rn2, b, hd2[b]) \/ SmallObject(lv, b, hd2[b])
    <3>1. PageOf(b) \in DOMAIN rn /\ (LargeObject(rn, b, hd[b]) \/ SmallObject(lv, b, hd[b]))
      BY <1>2, ObjectPage DEF ObjectsGood
    <3> QED BY <1>5, <3>1 DEF LargeObject, SmallObject
  <2> QED BY <1>5, <2>1, <2>2 DEF ObjectsGood
<1> QED BY <1>1, <1>2, <1>3, <1>6, <1>7, <1>8, <1>9 DEF Good

LEMMA GiveRun ==
  ASSUME NEW rn, NEW lv, NEW fl, NEW av, NEW fu, NEW hd, Good(rn, lv, fl, av, fu, hd),
         NEW a \in DOMAIN hd, IsBlockAligned(a), NEW p, p = PageOf(a)
  PROVE  /\ p \in DOMAIN rn
         /\ Good(Without(rn, p), lv, fl, av, fu, Without(hd, a))
<1>1. PICK rn2, hd2 : rn2 = Without(rn, p) /\ hd2 = Without(hd, a)
  OBVIOUS
<1>2. Types(rn, lv, fl, av, fu, hd) /\ RunsGood(rn, lv, hd) /\ SoltsGood(lv, fl, hd)
      /\ ListsGood(lv, fl, av, fu) /\ ObjectsGood(rn, lv, hd)
  BY DEF Good
<1>3. p \in DOMAIN rn /\ p \notin DOMAIN lv /\ a = AddrOf(p)
  BY ObjectPage
(* a is the only object of its run.                                        *)
<1>4. \A b \in DOMAIN hd : b # a => PageOf(b) # p
  BY <1>3, ObjectPage
<1>5. /\ DOMAIN rn2 = DOMAIN rn \ {p} /\ \A q \in DOMAIN rn2 : rn2[q] = rn[q]
      /\ DOMAIN hd2 = DOMAIN hd \ {a} /\ \A b \in DOMAIN hd2 : hd2[b] = hd[b]
  BY <1>1 DEF Without
<1>6. Types(rn2, lv, fl, av, fu, hd2)
  <2>1. DOMAIN rn2 \subseteq Pages /\ rn2 \in [DOMAIN rn2 -> SUBSET Pages]
    BY <1>1, <1>2, <1>5 DEF Types, Without
  <2>2. DOMAIN hd2 \subseteq Bytes /\ hd2 \in [DOMAIN hd2 -> Sizes]
    BY <1>1, <1>2, <1>5 DEF Types, Without
  <2> QED BY <1>2, <2>1, <2>2 DEF Types
<1>7. RunsGood(rn2, lv, hd2)
  <2>1. DOMAIN rn2 = DOMAIN lv \cup {PageOf(b) : b \in {x \in DOMAIN hd2 : IsBlockAligned(x)}}
    <3>1. DOMAIN rn = DOMAIN lv \cup {PageOf(b) : b \in {x \in DOMAIN hd : IsBlockAligned(x)}}
      BY <1>2 DEF RunsGood
    <3> QED BY <1>3, <1>4, <1>5, <3>1
  <2> QED BY <1>2, <1>3, <1>5, <2>1 DEF RunsGood
<1>8. SoltsGood(lv, fl, hd2)
  <2>1. \A q \in DOMAIN lv : Taken(hd2, q) = Taken(hd, q)
    BY <1>3, <1>5 DEF Taken
  <2> QED BY <1>2, <2>1 DEF SoltsGood
<1>9. ObjectsGood(rn2, lv, hd2)
  <2> SUFFICES ASSUME NEW b \in DOMAIN hd2 PROVE LargeObject(rn2, b, hd2[b]) \/ SmallObject(lv, b, hd2[b])
    BY DEF ObjectsGood
  <2>1. /\ b \in DOMAIN hd /\ b # a /\ PageOf(b) \in DOMAIN rn /\ PageOf(b) # p
        /\ LargeObject(rn, b, hd[b]) \/ SmallObject(lv, b, hd[b])
    BY <1>2, <1>4, <1>5, ObjectPage DEF ObjectsGood
  <2> QED BY <1>5, <2>1 DEF LargeObject, SmallObject
<1> QED BY <1>1, <1>2, <1>3, <1>6, <1>7, <1>8, <1>9 DEF Good

-----------------------------------------------------------------------------
(* What the page allocator gives a slub and a large object.                *)
LEMMA BridgeGives ==
  ASSUME NEW size \in Nat, NEW first \in Pages, BridgeMalloc(first, size)
  PROVE  LET run == BridgeRun(first, Max({size, BlockSize}))
         IN /\ first \in run /\ run \subseteq Pages /\ Unused(runs, run)
            /\ runs' = With(runs, first, run)
BY DEF Unused, BridgeMalloc, Bridge!Alloc, Bridge!Owned, With

LEMMA LargestOf ==
  ASSUME NEW m \in Nat, NEW n \in Nat
  PROVE  Max({m, n}) \in {m, n} /\ m <= Max({m, n}) /\ n <= Max({m, n})
<1>1. \E x \in {m, n} : \A y \in {m, n} : x >= y
  <2>1. CASE m >= n
    BY <2>1
  <2>2. CASE n >= m
    BY <2>2
  <2> QED BY <2>1, <2>2
<1>2. Max({m, n}) \in {m, n} /\ \A y \in {m, n} : Max({m, n}) >= y
  BY <1>1, Zenon DEF Max
<1> QED BY <1>2

LEMMA OneBlock ==
  ASSUME NEW p \in Pages
  PROVE  BridgeRun(p, Max({BlockSize, BlockSize})) = {p}
<1>1. Max({BlockSize, BlockSize}) = BlockSize /\ BlockSize \in Nat \ {0} /\ p \in Nat
  BY LargestOf, SlubTypes
<1>2. DivRoundUp(BlockSize, BlockSize) = 1
  <2>1. (BlockSize + BlockSize - 1) \div BlockSize = 1
    <3>1. PICK n \in Nat : n = BlockSize + BlockSize - 1
      BY <1>1
    <3>2. 1 * BlockSize <= n /\ n < 1 * BlockSize + BlockSize
      BY <1>1, <3>1
    <3>3. n \div BlockSize = 1
      BY <1>1, <3>2, DivUnique
    <3> QED BY <3>1, <3>3
  <2> QED BY <2>1 DEF DivRoundUp
<1>3. BridgeRun(p, BlockSize) = p .. p + 1 - 1
  BY <1>2 DEF BridgeRun
<1> QED BY <1>1, <1>3

(* The bytes of an object, of the runs rn and levels lv.                   *)
ExtentIn(rn, lv, a) ==
  IF IsBlockAligned(a)
  THEN UNION {AddrOf(p) .. AddrOf(p) + BlockSize - 1 : p \in rn[PageOf(a)]}
  ELSE a .. a + Pow2[lv[PageOf(a)]] - 1

(* What a step does to the objects: it hands one out, takes one back or    *)
(* leaves them alone, and never moves one.                                 *)
Gains(a, size) ==
  /\ a \notin DOMAIN held /\ held' = With(held, a, size)
  /\ \A b \in DOMAIN held : ExtentIn(runs', level_of', b) = ExtentIn(runs, level_of, b)
Loses(a) ==
  /\ a \in DOMAIN held /\ held' = Without(held, a)
  /\ \A b \in DOMAIN held' : ExtentIn(runs', level_of', b) = ExtentIn(runs, level_of, b)

(* Objects stay in place while their runs and slubs do.                    *)
LEMMA ObjectsStay ==
  ASSUME NEW rn, NEW lv, NEW fl, NEW av, NEW fu, NEW hd, Good(rn, lv, fl, av, fu, hd),
         NEW rn2, NEW lv2, NEW b \in DOMAIN hd,
         rn2[PageOf(b)] = rn[PageOf(b)], \A q \in DOMAIN lv : lv2[q] = lv[q]
  PROVE  ExtentIn(rn2, lv2, b) = ExtentIn(rn, lv, b)
BY ObjectPage DEF ExtentIn

LEMMA LargeStep ==
  ASSUME SInv, NEW size \in Sizes, MallocLarge(size)
  PROVE  SInv' /\ \E a : Gains(a, size)
<1>1. Fitting(size) = {} /\ UNCHANGED slubVars
  BY DEF MallocLarge
<1>2. PICK p \in Pages : BridgeMalloc(p, size) /\ held' = With(held, AddrOf(p), size)
  BY DEF MallocLarge
<1>3. PICK run : run = BridgeRun(p, Max({size, BlockSize}))
  OBVIOUS
<1>4. /\ p \in run /\ run \subseteq Pages /\ Unused(runs, run)
      /\ runs' = With(runs, p, run)
  BY <1>2, <1>3, BridgeGives, SlubTypes
<1>5. Good(runs, level_of, free_list, slub_avail, slub_full, held)
  BY DEF SInv
<1>6. /\ AddrOf(p) \notin DOMAIN held /\ p \notin DOMAIN runs
      /\ Good(With(runs, p, run), level_of, free_list, slub_avail, slub_full, With(held, AddrOf(p), size))
  BY <1>1, <1>3, <1>4, <1>5, TakeRun
<1>7. SInv'
  BY <1>1, <1>2, <1>4, <1>6 DEF SInv, slubVars
<1>8. ASSUME NEW b \in DOMAIN held PROVE ExtentIn(runs', level_of', b) = ExtentIn(runs, level_of, b)
  <2>1. PageOf(b) \in DOMAIN runs
    BY <1>5, ObjectPage
  <2>2. runs'[PageOf(b)] = runs[PageOf(b)] /\ level_of' = level_of
    BY <1>1, <1>4, <1>6, <2>1 DEF With, slubVars
  <2> QED BY <1>5, <2>2, ObjectsStay
<1> QED BY <1>2, <1>6, <1>7, <1>8 DEF Gains

LEMMA SmallStep ==
  ASSUME SInv, NEW size \in Sizes, MallocSmall(size)
  PROVE  SInv' /\ \E a : Gains(a, size)
<1>1. PICK l : l = Min(Fitting(size))
  OBVIOUS
<1>2. Suits(l, size) /\ l \in Levels
  BY <1>1, FittingFacts, SlubTypes DEF MallocSmall, Suits
<1>3. Good(runs, level_of, free_list, slub_avail, slub_full, held)
  BY DEF SInv
<1>4. DOMAIN slub_avail = Levels /\ DOMAIN free_list = DOMAIN level_of
  BY <1>3 DEF Good, Types
(* A slub of the level has a free slot.                                    *)
<1>5. CASE slub_avail[l] # << >> /\ TakeSolt(l, free_list, slub_avail[l], size) /\ UNCHANGED <<runs, level_of>>
  <2>1. PICK s, a, rest : FirstFree(free_list, slub_avail[l], s, a, rest)
    BY <1>5 DEF FirstFree
  <2>2. /\ a \notin DOMAIN held
        /\ Good(runs, level_of, SlotTaken(free_list, s, rest), AvailTaken(slub_avail, l, rest),
                FullTaken(slub_full, l, s, rest), With(held, a, size))
    BY <1>2, <1>3, <2>1, TakeSlot
  <2>3. /\ held' = With(held, a, size) /\ free_list' = SlotTaken(free_list, s, rest)
        /\ slub_avail' = AvailTaken(slub_avail, l, rest) /\ slub_full' = FullTaken(slub_full, l, s, rest)
    BY <1>5, <2>1 DEF TakeSolt, FirstFree, SlotTaken, AvailTaken, FullTaken
  <2>4. SInv'
    BY <1>5, <2>2, <2>3 DEF SInv
  <2>5. Gains(a, size)
    BY <1>5, <2>2, <2>3 DEF Gains
  <2> QED BY <2>4, <2>5
(* A new slub is allocated and its first slot taken.                       *)
<1>6. ASSUME slub_avail[l] = << >>, NEW p \in Pages, BridgeMalloc(p, BlockSize),
             level_of' = With(level_of, p, l),
             TakeSolt(l, With(free_list, p, NewFreeList(p, l)), <<p>>, size)
      PROVE  SInv' /\ \E a : Gains(a, size)
  <2>1. (\A q \in DOMAIN runs : p \notin runs[q]) /\ runs' = With(runs, p, {p})
    BY <1>6, BridgeGives, OneBlock, SlubTypes DEF Unused
  <2>2. PICK fl, av : fl = With(free_list, p, NewFreeList(p, l)) /\ av = [slub_avail EXCEPT ![l] = <<p>>]
    OBVIOUS
  <2>3. Good(runs', level_of', fl, av, slub_full, held)
    BY <1>2, <1>3, <1>6, <2>1, <2>2, AddSlub
  <2>4. PICK a, rest : a = Head(fl[p]) /\ rest = Tail(fl[p])
    OBVIOUS
  <2>5. av[l] = <<p>> /\ FirstFree(fl, av[l], p, a, rest)
    BY <1>2, <1>4, <2>2, <2>4 DEF FirstFree
  <2>6. /\ a \notin DOMAIN held
        /\ Good(runs', level_of', SlotTaken(fl, p, rest), AvailTaken(av, l, rest),
                FullTaken(slub_full, l, p, rest), With(held, a, size))
    BY <1>2, <2>3, <2>5, TakeSlot
  <2>7. /\ held' = With(held, a, size) /\ free_list' = SlotTaken(fl, p, rest)
        /\ slub_avail' = [slub_avail EXCEPT ![l] = IF IsFull(rest) THEN Tail(<<p>>) ELSE <<p>>]
        /\ slub_full' = FullTaken(slub_full, l, p, rest)
    BY <1>6, <2>2, <2>4 DEF TakeSolt, SlotTaken, FullTaken
  <2>8. slub_avail' = AvailTaken(av, l, rest)
    BY <1>4, <2>2, <2>5, <2>7 DEF AvailTaken
  <2>9. SInv'
    BY <2>6, <2>7, <2>8 DEF SInv
  <2>10. ASSUME NEW b \in DOMAIN held PROVE ExtentIn(runs', level_of', b) = ExtentIn(runs, level_of, b)
    <3>1. PageOf(b) \in DOMAIN runs /\ p \notin DOMAIN runs /\ p \notin DOMAIN level_of
      BY <1>3, <2>1, ObjectPage, FreshPage
    <3>2. runs'[PageOf(b)] = runs[PageOf(b)] /\ \A q \in DOMAIN level_of : level_of'[q] = level_of[q]
      BY <1>6, <2>1, <3>1 DEF With
    <3> QED BY <1>3, <3>2, ObjectsStay
  <2>11. Gains(a, size)
    BY <2>6, <2>7, <2>10 DEF Gains
  <2> QED BY <2>9, <2>11
<1> QED BY <1>1, <1>5, <1>6 DEF MallocSmall

LEMMA FreeStep ==
  ASSUME SInv, NEW a \in DOMAIN held, Free(a)
  PROVE  SInv' /\ Loses(a)
<1>1. Good(runs, level_of, free_list, slub_avail, slub_full, held)
  BY DEF SInv
<1>2. held' = Without(held, a)
  BY DEF Free, Without
<1>3. CASE FreeLarge(a)
  <2>1. PICK p : p = PageOf(a)
    OBVIOUS
  <2>2. IsBlockAligned(a) /\ runs' = Without(runs, p) /\ UNCHANGED slubVars
    BY <1>3, <2>1 DEF Without, FreeLarge, BridgeFree, Bridge!Free
  <2>3. Good(runs', level_of, free_list, slub_avail, slub_full, held')
    BY <1>1, <1>2, <2>1, <2>2, GiveRun
  <2>4. SInv'
    BY <2>2, <2>3 DEF SInv, slubVars
  <2>5. ASSUME NEW b \in DOMAIN held' PROVE ExtentIn(runs', level_of', b) = ExtentIn(runs, level_of, b)
    <3>1. b \in DOMAIN held /\ PageOf(b) \in DOMAIN runs'
      BY <1>2, <2>3, ObjectPage DEF Without
    <3>2. runs'[PageOf(b)] = runs[PageOf(b)] /\ level_of' = level_of
      BY <2>2, <3>1 DEF slubVars, Without
    <3> QED BY <1>1, <3>1, <3>2, ObjectsStay
  <2> QED BY <1>2, <2>4, <2>5 DEF Loses
<1>4. CASE FreeSmall(a)
  <2>1. PICK s, l : s = PageOf(a) /\ l = level_of[s]
    OBVIOUS
  <2>2. /\ ~IsBlockAligned(a) /\ UNCHANGED <<runs, level_of>>
        /\ free_list' = SlotGiven(free_list, s, a)
        /\ slub_avail' = AvailGiven(slub_avail, l, s, free_list[s])
        /\ slub_full' = FullGiven(slub_full, l, s, free_list[s])
    BY <1>4, <2>1 DEF FreeSmall, SlotGiven, AvailGiven, FullGiven
  <2>3. Good(runs, level_of, free_list', slub_avail', slub_full', held')
    BY <1>1, <1>2, <2>1, <2>2, GiveSlot
  <2> QED BY <1>2, <2>2, <2>3 DEF SInv, Loses
<1> QED BY <1>3, <1>4 DEF Free

(* The invariant holds of the empty heap and every step keeps it.          *)
LEMMA SlubInit == Init => SInv
<1> SUFFICES ASSUME Init PROVE Good(runs, level_of, free_list, slub_avail, slub_full, held)
  BY DEF SInv
<1>1. /\ runs = << >> /\ level_of = << >> /\ free_list = << >> /\ held = << >>
      /\ slub_avail = [l \in Levels |-> << >>] /\ slub_full = [l \in Levels |-> << >>]
  BY DEF Init
<1>2. DOMAIN runs = {} /\ DOMAIN level_of = {} /\ DOMAIN free_list = {} /\ DOMAIN held = {}
  BY <1>1
<1>3. Types(runs, level_of, free_list, slub_avail, slub_full, held)
  <2>1. /\ runs \in [DOMAIN runs -> SUBSET Pages] /\ level_of \in [DOMAIN level_of -> Levels]
        /\ free_list \in [DOMAIN level_of -> Seq(Bytes)] /\ held \in [DOMAIN held -> Sizes]
    BY <1>1, <1>2
  <2>2. slub_avail \in [Levels -> Seq(DOMAIN level_of)] /\ slub_full \in [Levels -> Seq(DOMAIN level_of)]
    BY <1>1
  <2> QED BY <1>2, <2>1, <2>2 DEF Types
<1>4. ListsGood(level_of, free_list, slub_avail, slub_full)
  <2>1. Distinct(<< >>) /\ ToSet(<< >>) = {}
    BY DEF Distinct, ToSet
  <2> QED BY <1>1, <1>2, <2>1 DEF ListsGood
<1>5. RunsGood(runs, level_of, held) /\ SoltsGood(level_of, free_list, held) /\ ObjectsGood(runs, level_of, held)
  BY <1>2 DEF RunsGood, SoltsGood, ObjectsGood
<1> QED BY <1>3, <1>4, <1>5 DEF Good

LEMMA SlubStep ==
  SInv /\ [Next]_vars =>
    SInv' /\ (UNCHANGED vars \/ (\E a, size : Gains(a, size)) \/ (\E a : Loses(a)))
<1> SUFFICES ASSUME SInv, [Next]_vars
             PROVE  SInv' /\ (UNCHANGED vars \/ (\E a, size : Gains(a, size)) \/ (\E a : Loses(a)))
  OBVIOUS
<1>1. CASE UNCHANGED vars
  BY <1>1 DEF vars, slubVars, SInv
<1>2. ASSUME NEW size \in Sizes, MallocLarge(size) \/ MallocSmall(size)
      PROVE  SInv' /\ \E a : Gains(a, size)
  BY <1>2, LargeStep, SmallStep
<1>3. ASSUME NEW a \in DOMAIN held, Free(a) PROVE SInv' /\ Loses(a)
  BY <1>3, FreeStep
<1> QED BY <1>1, <1>2, <1>3 DEF Next, MallocFails

LEMMA SlubInductive == Spec => []SInv
<1>1. SInv /\ [Next]_vars => SInv'
  BY SlubStep
<1> QED BY <1>1, SlubInit, PTL DEF Spec

-----------------------------------------------------------------------------
(* Where objects lie.                                                      *)
LEMMA AddressesGrow ==
  ASSUME NEW p \in Nat, NEW q \in Nat, p < q
  PROVE  AddrOf(p) + BlockSize <= AddrOf(q)
<1>1. BlockSize \in Nat \ {0} /\ p + 1 \in Nat
  BY SlubTypes
<1>2. (p + 1) * BlockSize <= q * BlockSize
  BY <1>1, MulMono
<1>3. (p + 1) * BlockSize = AddrOf(p) + BlockSize /\ q * BlockSize = AddrOf(q)
  BY <1>1 DEF AddrOf
<1> QED BY <1>2, <1>3

LEMMA RunBytes ==
  ASSUME NEW p \in Nat, NEW q \in Nat, p <= q
  PROVE  UNION {AddrOf(r) .. AddrOf(r) + BlockSize - 1 : r \in p .. q} = AddrOf(p) .. AddrOf(q) + BlockSize - 1
<1> DEFINE U == UNION {AddrOf(r) .. AddrOf(r) + BlockSize - 1 : r \in p .. q}
<1>1. BlockSize \in Nat \ {0} /\ AddrOf(p) \in Nat /\ AddrOf(q) \in Nat
  BY SlubTypes, BlockAddress
<1>2. ASSUME NEW r \in p .. q, NEW x \in AddrOf(r) .. AddrOf(r) + BlockSize - 1
      PROVE  x \in AddrOf(p) .. AddrOf(q) + BlockSize - 1
  <2>1. r \in Nat /\ AddrOf(r) \in Nat
    BY BlockAddress
  <2>2. AddrOf(p) <= AddrOf(r) /\ AddrOf(r) <= AddrOf(q)
    <3>1. p < r => AddrOf(p) + BlockSize <= AddrOf(r)
      BY <2>1, AddressesGrow
    <3>2. r < q => AddrOf(r) + BlockSize <= AddrOf(q)
      BY <2>1, AddressesGrow
    <3>3. (p = r \/ p < r) /\ (r = q \/ r < q)
      BY <2>1
    <3> QED BY <1>1, <2>1, <3>1, <3>2, <3>3
  <2> QED BY <1>1, <2>1, <2>2
<1>3. ASSUME NEW x \in AddrOf(p) .. AddrOf(q) + BlockSize - 1
      PROVE  \E r \in p .. q : x \in AddrOf(r) .. AddrOf(r) + BlockSize - 1
  <2>1. x \in Nat
    BY <1>1
  <2>2. PICK r : r = PageOf(x)
    OBVIOUS
  <2>3. r \in Nat /\ AddrOf(r) <= x /\ x < AddrOf(r) + BlockSize /\ AddrOf(r) \in Nat
    BY <2>1, <2>2, AlignedIsBlock, BlockAddress
  <2>4. ~(r < p)
    BY <1>1, <2>1, <2>3, AddressesGrow
  <2>5. ~(q < r)
    BY <1>1, <2>1, <2>3, AddressesGrow
  <2>6. r \in p .. q
    BY <2>3, <2>4, <2>5
  <2> QED BY <1>1, <2>1, <2>3, <2>6
<1> QED BY <1>2, <1>3

(* The pages an object touches are those of its run.                       *)
LEMMA ExtentPages ==
  ASSUME NEW rn, NEW lv, NEW fl, NEW av, NEW fu, NEW hd, Good(rn, lv, fl, av, fu, hd),
         NEW a \in DOMAIN hd, NEW x \in ExtentIn(rn, lv, a)
  PROVE  x \in Nat /\ PageOf(x) \in rn[PageOf(a)] /\ x \in Bytes
<1>1. PICK p : p = PageOf(a)
  OBVIOUS
<1>2. /\ a \in Nat /\ p \in DOMAIN rn /\ p \in Pages /\ p \in Nat
      /\ ~IsBlockAligned(a) => p \in DOMAIN lv /\ a \in Solts(p, lv[p])
  BY <1>1, ObjectPage
<1>3. rn[p] \subseteq Pages /\ (p \in DOMAIN lv => rn[p] = {p} /\ lv[p] \in Levels)
  BY <1>2 DEF Good, Types, RunsGood
<1>4. BlockSize \in Nat \ {0} /\ Pages \subseteq Nat
  BY SlubTypes
<1>5. PICK q \in rn[p] : x \in AddrOf(q) .. AddrOf(q) + BlockSize - 1
  <2>1. CASE IsBlockAligned(a)
    BY <1>1, <2>1 DEF ExtentIn
  <2>2. CASE ~IsBlockAligned(a)
    <3>1. p \in DOMAIN lv /\ a \in Solts(p, lv[p]) /\ rn[p] = {p} /\ lv[p] \in Levels
      BY <1>2, <1>3, <2>2
    <3>2. /\ AddrOf(p) + HeaderSize <= a /\ a + Pow2[lv[p]] <= AddrOf(p) + BlockSize
          /\ Pow2[lv[p]] \in Nat /\ HeaderSize \in Nat /\ AddrOf(p) \in Nat
      BY <1>2, <3>1, SoltPlace, SlubTypes, BlockAddress
    <3>3. x \in a .. a + Pow2[lv[p]] - 1
      BY <1>1, <2>2 DEF ExtentIn
    <3>4. x \in AddrOf(p) .. AddrOf(p) + BlockSize - 1
      BY <1>2, <1>4, <3>2, <3>3
    <3> QED BY <3>1, <3>4
  <2> QED BY <2>1, <2>2
<1>6. q \in Nat /\ q \in Pages /\ AddrOf(q) \in Nat
  BY <1>3, <1>4, BlockAddress
<1>7. x \in Nat /\ AddrOf(q) <= x /\ x < AddrOf(q) + BlockSize
  BY <1>4, <1>5, <1>6
<1>8. PageOf(x) = q
  BY <1>6, <1>7, PageOfByte
<1>9. x \in Bytes
  BY <1>5, <1>6 DEF Bytes
<1> QED BY <1>1, <1>5, <1>7, <1>8, <1>9

(* No two objects share a byte.                                            *)
LEMMA ExtentsApart ==
  ASSUME NEW rn, NEW lv, NEW fl, NEW av, NEW fu, NEW hd, Good(rn, lv, fl, av, fu, hd),
         NEW a \in DOMAIN hd, NEW b \in DOMAIN hd, a # b
  PROVE  ExtentIn(rn, lv, a) \cap ExtentIn(rn, lv, b) = {}
<1>1. PICK p, q : p = PageOf(a) /\ q = PageOf(b)
  OBVIOUS
<1>2. /\ p \in DOMAIN rn /\ q \in DOMAIN rn /\ p \in Nat
      /\ IsBlockAligned(a) => a = AddrOf(p) /\ p \notin DOMAIN lv
      /\ IsBlockAligned(b) => b = AddrOf(q) /\ q \notin DOMAIN lv
      /\ ~IsBlockAligned(a) => p \in DOMAIN lv /\ a \in Solts(p, lv[p])
      /\ ~IsBlockAligned(b) => q \in DOMAIN lv /\ b \in Solts(q, lv[q])
  BY <1>1, ObjectPage
<1>3. CASE p # q
  <2>1. rn[p] \cap rn[q] = {}
    BY <1>2, <1>3 DEF Good, RunsGood
  <2>2. \A x \in ExtentIn(rn, lv, a) : PageOf(x) \in rn[p]
    BY <1>1, ExtentPages
  <2>3. \A x \in ExtentIn(rn, lv, b) : PageOf(x) \in rn[q]
    BY <1>1, ExtentPages
  <2> QED BY <2>1, <2>2, <2>3
<1>4. CASE p = q
  <2>1. p \in DOMAIN lv /\ ~IsBlockAligned(a) /\ ~IsBlockAligned(b)
    BY <1>2, <1>4
  <2>2. PICK l \in Levels : l = lv[p]
    BY <2>1 DEF Good, Types
  <2>3. ExtentIn(rn, lv, a) = a .. a + Pow2[l] - 1 /\ ExtentIn(rn, lv, b) = b .. b + Pow2[l] - 1
    BY <1>1, <1>4, <2>1, <2>2 DEF ExtentIn
  <2>4. a \in Solts(p, l) /\ b \in Solts(p, l)
    BY <1>2, <1>4, <2>1, <2>2
  <2> QED BY <1>2, <2>3, <2>4, SoltsDisjoint
<1> QED BY <1>3, <1>4

(* An object is one run of bytes from its address on, with room for all    *)
(* that was asked for.                                                     *)
LEMMA ExtentIsRun ==
  ASSUME NEW rn, NEW lv, NEW fl, NEW av, NEW fu, NEW hd, Good(rn, lv, fl, av, fu, hd),
         NEW a \in DOMAIN hd
  PROVE  \E last \in Bytes : /\ ExtentIn(rn, lv, a) = a .. last
                             /\ a <= last /\ a + hd[a] - 1 <= last
<1>1. PICK p, size : p = PageOf(a) /\ size = hd[a]
  OBVIOUS
<1>2. /\ a \in Nat /\ size \in Nat /\ p \in DOMAIN rn /\ p \in Pages /\ p \in Nat
      /\ IsBlockAligned(a) => a = AddrOf(p)
      /\ ~IsBlockAligned(a) => p \in DOMAIN lv /\ a \in Solts(p, lv[p])
  BY <1>1, ObjectPage
<1>3. BlockSize \in Nat \ {0} /\ HeaderSize \in Nat \ {0} /\ AddrOf(p) \in Nat
  BY <1>2, SlubTypes, BlockAddress
<1>4. CASE ~IsBlockAligned(a)
  <2>1. size <= Pow2[lv[p]]
    BY <1>1, <1>4 DEF Good, ObjectsGood, LargeObject, SmallObject
  <2>2. PICK l \in Levels : l = lv[p]
    BY <1>2, <1>4 DEF Good, Types
  <2>3. PICK last : last = a + Pow2[l] - 1
    OBVIOUS
  <2>4. AddrOf(p) + HeaderSize <= a /\ a + Pow2[l] <= AddrOf(p) + BlockSize /\ Pow2[l] \in Nat \ {0}
    BY <1>2, <1>4, <2>2, SoltPlace, SlubTypes
  <2>5. last \in AddrOf(p) .. AddrOf(p) + BlockSize - 1 /\ a <= last /\ a + size - 1 <= last
    BY <1>2, <1>3, <2>1, <2>2, <2>3, <2>4
  <2>6. last \in Bytes
    BY <1>2, <2>5 DEF Bytes
  <2>7. ExtentIn(rn, lv, a) = a .. last
    BY <1>1, <1>4, <2>2, <2>3 DEF ExtentIn
  <2> QED BY <1>1, <2>5, <2>6, <2>7
<1>5. CASE IsBlockAligned(a)
  <2>1. PICK m : m = Max({size, BlockSize})
    OBVIOUS
  <2>2. m \in Nat /\ size <= m /\ BlockSize <= m
    BY <1>2, <1>3, <2>1, LargestOf
  <2>3. PICK n : n = DivRoundUp(m, BlockSize)
    OBVIOUS
  <2>4. n \in Nat /\ m <= n * BlockSize /\ n * BlockSize \in Nat
    <3> DEFINE k == m + BlockSize - 1
    <3>1. k \in Nat
      BY <1>3, <2>2
    <3> HIDE DEF k
    <3>2. n = k \div BlockSize
      BY <2>3 DEF DivRoundUp, k
    <3>3. n \in Nat /\ n * BlockSize <= k /\ k < n * BlockSize + BlockSize
      BY <1>3, <3>1, <3>2, DivBounds
    <3>4. n * BlockSize \in Nat
      BY <1>3, <3>3, MulRegroup
    <3> QED BY <1>3, <2>2, <3>1, <3>3, <3>4 DEF k
  <2>5. n # 0
    BY <1>3, <2>2, <2>4
  <2>6. PICK q \in Nat : q = p + n - 1 /\ p <= q
    BY <1>2, <2>4, <2>5
  <2>7. rn[p] = p .. q
    <3>1. LargeObject(rn, a, size)
      BY <1>1, <1>5 DEF Good, ObjectsGood, SmallObject
    <3> QED BY <1>1, <2>1, <2>3, <2>6, <3>1 DEF LargeObject, BridgeRun
  <2>8. q \in Pages
    <3>1. rn[p] \subseteq Pages
      BY <1>2 DEF Good, Types
    <3> QED BY <1>2, <2>6, <2>7, <3>1
  <2>9. AddrOf(q) \in Nat /\ AddrOf(q) + BlockSize = a + n * BlockSize
    <3>1. AddrOf(q) \in Nat
      BY BlockAddress
    <3>2. PICK r \in Nat : r = q + 1 /\ r = p + n
      BY <1>2, <2>4, <2>6
    <3>3. r * BlockSize = q * BlockSize + BlockSize
      BY <1>3, <3>2
    <3>4. r * BlockSize = p * BlockSize + n * BlockSize
      <4>1. p * BlockSize + n * BlockSize = (p + n) * BlockSize
        BY <1>2, <1>3, <2>4, MulRegroup
      <4> QED BY <3>2, <4>1
    <3>5. a = p * BlockSize /\ AddrOf(q) = q * BlockSize
      BY <1>2, <1>3, <1>5 DEF AddrOf
    <3> QED BY <3>1, <3>3, <3>4, <3>5
  <2>10. PICK last : last = AddrOf(q) + BlockSize - 1
    OBVIOUS
  <2>11. last \in Nat /\ a <= last /\ a + size - 1 <= last
    BY <1>2, <1>3, <2>2, <2>4, <2>9, <2>10
  <2>12. last \in Bytes
    <3>1. last \in AddrOf(q) .. AddrOf(q) + BlockSize - 1
      BY <1>3, <2>9, <2>10
    <3> QED BY <2>8, <3>1 DEF Bytes
  <2>13. ExtentIn(rn, lv, a) = a .. last
    <3>1. ExtentIn(rn, lv, a) = UNION {AddrOf(r) .. AddrOf(r) + BlockSize - 1 : r \in p .. q}
      BY <1>1, <1>5, <2>7 DEF ExtentIn
    <3> QED BY <1>2, <1>5, <2>6, <2>10, <3>1, RunBytes
  <2> QED BY <1>1, <2>11, <2>12, <2>13
<1> QED BY <1>4, <1>5

-----------------------------------------------------------------------------
(* The properties.                                                         *)
LEMMA DistinctLength ==
  ASSUME NEW S, NEW s \in Seq(S), Distinct(s)
  PROVE  Len(s) = Cardinality(ToSet(s))
<1>1. DOMAIN s = 1 .. Len(s) /\ Len(s) \in Nat
  OBVIOUS
<1>2. s \in Bijection(1 .. Len(s), ToSet(s))
  <2>1. s \in [1 .. Len(s) -> ToSet(s)]
    BY <1>1 DEF ToSet
  <2>2. \A m, n \in 1 .. Len(s) : s[m] = s[n] => m = n
    BY <1>1 DEF Distinct
  <2>3. \A x \in ToSet(s) : \E m \in 1 .. Len(s) : s[m] = x
    BY <1>1 DEF ToSet
  <2> QED BY <2>1, <2>2, <2>3 DEF Bijection, Injection, Surjection, IsInjective
<1>3. ExistsBijection(1 .. Len(s), ToSet(s))
  BY <1>2 DEF ExistsBijection
<1>4. IsFiniteSet(1 .. Len(s)) /\ Cardinality(1 .. Len(s)) = Len(s)
  BY <1>1, FS_Interval
<1> QED BY <1>3, <1>4, FS_Bijection

LEMMA StateGood == SInv => Good(runs, level_of, free_list, slub_avail, slub_full, held)
BY DEF SInv

LEMMA SoltsAreAccounted == SInv => SoltsAccounted
<1> SUFFICES ASSUME SInv PROVE SoltsAccounted
  OBVIOUS
<1>1. Types(runs, level_of, free_list, slub_avail, slub_full, held) /\ SoltsGood(level_of, free_list, held)
  BY DEF SInv, Good
<1>2. TypeOK
  BY <1>1 DEF TypeOK, Types, Slubs, Objects
<1>3. ASSUME NEW p \in Slubs
      PROVE  /\ Len(free_list[p]) = Cardinality(ToSet(free_list[p]))
             /\ ToSet(free_list[p]) \cap Taken(held, p) = {}
             /\ ToSet(free_list[p]) \cup Taken(held, p) = Solts(p, level_of[p])
  <2>1. free_list[p] \in Seq(Bytes) /\ Distinct(free_list[p])
    BY <1>1 DEF Types, SoltsGood, Slubs
  <2>2. Len(free_list[p]) = Cardinality(ToSet(free_list[p]))
    BY <2>1, DistinctLength
  <2> QED BY <1>1, <2>2 DEF SoltsGood, Slubs
<1> QED BY <1>2, <1>3 DEF SoltsAccounted, Taken, Solts, Objects

LEMMA SlubsAreListed == SInv => SlubsListed
<1> SUFFICES ASSUME SInv, NEW l \in Levels
             PROVE  /\ Len(slub_avail[l]) = Cardinality(Listed(slub_avail, l))
                    /\ Len(slub_full[l]) = Cardinality(Listed(slub_full, l))
                    /\ Listed(slub_avail, l) = {p \in Slubs : level_of[p] = l /\ ~IsFull(free_list[p])}
                    /\ Listed(slub_full, l) = {p \in Slubs : level_of[p] = l /\ IsFull(free_list[p])}
  BY DEF SlubsListed
<1>1. /\ slub_avail[l] \in Seq(DOMAIN level_of) /\ slub_full[l] \in Seq(DOMAIN level_of)
      /\ Distinct(slub_avail[l]) /\ Distinct(slub_full[l])
  BY DEF SInv, Good, Types, ListsGood
<1>2. /\ Len(slub_avail[l]) = Cardinality(ToSet(slub_avail[l]))
      /\ Len(slub_full[l]) = Cardinality(ToSet(slub_full[l]))
  BY <1>1, DistinctLength
<1>3. /\ ToSet(slub_avail[l]) = {p \in DOMAIN level_of : level_of[p] = l /\ free_list[p] # << >>}
      /\ ToSet(slub_full[l]) = {p \in DOMAIN level_of : level_of[p] = l /\ free_list[p] = << >>}
  BY DEF SInv, Good, ListsGood
<1> QED BY <1>2, <1>3 DEF Listed, Slubs, IsFull

LEMMA PagesAreAccounted == SInv => PagesAccounted
BY DEF SInv, Good, RunsGood, PagesAccounted, Slubs, Objects

LEMMA ExtentsMatch == \A a : Extent(a) = ExtentIn(runs, level_of, a)
BY DEF Extent, ExtentIn

LEMMA PointersAreDistinguished == SInv => PointersDistinguished
<1> SUFFICES ASSUME SInv, NEW a \in Objects
             PROVE  /\ IsBlockAligned(a) <=> Fitting(held[a]) = {}
                    /\ \A p \in Slubs : Extent(a) \cap (AddrOf(p) .. AddrOf(p) + HeaderSize - 1) = {}
  BY DEF PointersDistinguished
<1>1. Good(runs, level_of, free_list, slub_avail, slub_full, held) /\ a \in DOMAIN held
  BY StateGood DEF Objects
<1>2. IsBlockAligned(a) <=> Fitting(held[a]) = {}
  <2>1. CASE LargeObject(runs, a, held[a])
    BY <2>1 DEF LargeObject
  <2>2. CASE SmallObject(level_of, a, held[a])
    <3>1. level_of[PageOf(a)] \in Levels
      BY <1>1, <2>2 DEF SmallObject, Good, Types
    <3>2. held[a] \in Nat /\ held[a] <= Pow2[level_of[PageOf(a)]] /\ Pow2[level_of[PageOf(a)]] \in Nat
      BY <1>1, <2>2, <3>1, ObjectPage, SlubTypes DEF SmallObject
    <3>3. level_of[PageOf(a)] \in Fitting(held[a])
      BY <3>1, <3>2 DEF Fitting
    <3> QED BY <2>2, <3>3 DEF SmallObject
  <2> QED BY <1>1, <2>1, <2>2 DEF Good, ObjectsGood
<1>3. ASSUME NEW p \in Slubs, NEW x \in Extent(a), x \in AddrOf(p) .. AddrOf(p) + HeaderSize - 1 PROVE FALSE
  <2>1. p \in DOMAIN level_of /\ p \in DOMAIN runs /\ runs[p] = {p} /\ p \in Nat
    BY <1>1, SlubTypes DEF Slubs, Good, RunsGood, Types
  <2>2. x \in ExtentIn(runs, level_of, a)
    BY <1>3, ExtentsMatch
  <2>3. x \in Nat /\ PageOf(x) \in runs[PageOf(a)] /\ PageOf(a) \in DOMAIN runs /\ a \in Nat
    BY <1>1, <2>2, ExtentPages, ObjectPage
  <2>4. /\ HeaderSize \in Nat /\ HeaderSize < BlockSize /\ BlockSize \in Nat /\ AddrOf(p) \in Nat
        /\ AddrOf(p) <= x /\ x < AddrOf(p) + HeaderSize
    BY <1>3, <2>1, <2>3, SlubTypes, BlockAddress
  <2>5. x < AddrOf(p) + BlockSize
    BY <2>3, <2>4
  <2>6. PageOf(x) = p
    BY <2>1, <2>3, <2>4, <2>5, PageOfByte
  <2>7. PageOf(a) = p
    BY <1>1, <2>1, <2>3, <2>6 DEF Good, RunsGood
  <2>8. ~IsBlockAligned(a) /\ a \in Solts(p, level_of[p]) /\ level_of[p] \in Levels
    <3>1. ~IsBlockAligned(a) /\ a \in Solts(p, level_of[p])
      BY <1>1, <2>1, <2>7, ObjectPage
    <3>2. level_of[p] \in Levels
      BY <1>1, <2>1 DEF Good, Types
    <3> QED BY <3>1, <3>2
  <2>9. AddrOf(p) + HeaderSize <= a
    BY <2>1, <2>8, SoltPlace
  <2>10. x \in a .. a + Pow2[level_of[p]] - 1
    BY <2>2, <2>7, <2>8 DEF ExtentIn
  <2>11. a <= x
    BY <2>3, <2>8, <2>10, SlubTypes
  <2> QED BY <2>3, <2>4, <2>9, <2>11
<1> QED BY <1>2, <1>3

(* Each step of the allocator hands out, for an object, a run of bytes of  *)
(* which no object has any, takes one object back, or changes nothing.     *)
HeapObjects == [a \in Objects |-> Extent(a)]

LEMMA GainIsHeapAlloc ==
  ASSUME SInv, SInv', NEW a, NEW size, Gains(a, size)
  PROVE  \E first \in Bytes \ Heap!Owned, last \in Bytes : Heap!Alloc(first, first .. last)
<1>1. PICK rn2, lv2, fl2, av2, fu2, hd2 :
           /\ rn2 = runs' /\ lv2 = level_of' /\ fl2 = free_list' /\ av2 = slub_avail'
           /\ fu2 = slub_full' /\ hd2 = held'
  OBVIOUS
<1>2. Good(rn2, lv2, fl2, av2, fu2, hd2)
  BY <1>1 DEF SInv
<1>3. /\ a \notin DOMAIN held /\ DOMAIN hd2 = DOMAIN held \cup {a}
      /\ \A b \in DOMAIN held : ExtentIn(rn2, lv2, b) = Extent(b)
  BY <1>1, ExtentsMatch DEF Gains, With
<1>4. PICK last \in Bytes : ExtentIn(rn2, lv2, a) = a .. last /\ a <= last
  BY <1>2, <1>3, ExtentIsRun
<1>5. a \in Nat /\ a \in Bytes /\ \A x \in a .. last : x \in Bytes
  BY <1>2, <1>3, <1>4, ObjectPage, ExtentPages
<1>6. last \in Nat /\ a \in a .. last
  BY <1>4, <1>5, BytesTypes
<1>7. (a .. last) \cap Heap!Owned = {}
  <2>1. \A b \in DOMAIN held : (a .. last) \cap Extent(b) = {}
    BY <1>2, <1>3, <1>4, ExtentsApart, ZenonT(40)
  <2> QED BY <2>1 DEF Heap!Owned, Objects
<1>8. HeapObjects' = [b \in Objects \cup {a} |-> IF b = a THEN a .. last ELSE HeapObjects[b]]
  <2>1. Objects' = Objects \cup {a}
    BY <1>1, <1>3 DEF Objects
  <2>2. \A b \in DOMAIN hd2 : Extent(b)' = ExtentIn(rn2, lv2, b)
    BY <1>1 DEF Extent, ExtentIn
  <2>3. \A b \in Objects : Extent(b)' = Extent(b)
    BY <1>3, <2>2 DEF Objects
  <2>4. Extent(a)' = a .. last
    BY <1>3, <1>4, <2>2
  <2>5. a \notin Objects
    BY <1>3 DEF Objects
  <2>6. HeapObjects' = [b \in Objects \cup {a} |-> Extent(b)']
    BY <2>1 DEF HeapObjects
  <2>7. \A b \in Objects \cup {a} : Extent(b)' = IF b = a THEN a .. last ELSE HeapObjects[b]
    BY <2>3, <2>4, <2>5 DEF HeapObjects
  <2> QED BY <2>6, <2>7
<1>9. Heap!Alloc(a, a .. last)
  <2>1. DOMAIN HeapObjects = Objects
    BY DEF HeapObjects
  <2>2. HeapObjects' = [b \in DOMAIN HeapObjects \cup {a} |-> IF b = a THEN a .. last ELSE HeapObjects[b]]
    BY <1>8, <2>1
  <2> QED BY <1>5, <1>6, <1>7, <2>2 DEF Heap!Alloc, HeapObjects
<1> QED BY <1>4, <1>5, <1>6, <1>7, <1>9

LEMMA LossIsHeapFree ==
  ASSUME NEW a, Loses(a)
  PROVE  a \in Objects /\ Heap!Free(a)
<1>1. a \in Objects /\ Objects' = Objects \ {a}
  BY DEF Loses, Objects, Without
<1>2. \A b \in Objects \ {a} : Extent(b)' = Extent(b)
  BY <1>1 DEF Loses, Objects, Extent, ExtentIn
<1>3. HeapObjects' = [b \in Objects \ {a} |-> HeapObjects[b]]
  <2>1. HeapObjects' = [b \in Objects \ {a} |-> Extent(b)']
    BY <1>1 DEF HeapObjects
  <2>2. \A b \in Objects \ {a} : Extent(b)' = HeapObjects[b]
    BY <1>2 DEF HeapObjects
  <2> QED BY <2>1, <2>2
<1>4. DOMAIN HeapObjects = Objects
  BY DEF HeapObjects
<1> QED BY <1>1, <1>3, <1>4 DEF Heap!Free, HeapObjects

LEMMA HeapStep == SInv /\ SInv' /\ (UNCHANGED vars \/ (\E a, size : Gains(a, size)) \/ (\E a : Loses(a)))
                    => [Heap!Next]_(HeapObjects)
<1> SUFFICES ASSUME SInv, SInv', UNCHANGED vars \/ (\E a, size : Gains(a, size)) \/ (\E a : Loses(a))
             PROVE  Heap!Next \/ UNCHANGED HeapObjects
  OBVIOUS
<1>1. CASE UNCHANGED vars
  BY <1>1 DEF vars, slubVars, HeapObjects, Objects, Extent
<1>2. ASSUME NEW a, NEW size, Gains(a, size) PROVE Heap!Next
  BY <1>2, GainIsHeapAlloc DEF Heap!Next
<1>3. ASSUME NEW a, Loses(a) PROVE Heap!Next
  <2>1. \E first \in Objects : Heap!Free(first)
    BY <1>3, LossIsHeapFree
  <2> QED BY <2>1 DEF Heap!Next
<1> QED BY <1>1, <1>2, <1>3

(* No slot is lost, handed out twice or invented: for any block, header,   *)
(* level and size, the slots of a slub are divided between its free list,  *)
(* where each is once, and their holders.                                  *)
THEOREM SlubAccountsForSolts == Spec => []SoltsAccounted
BY SlubInductive, SoltsAreAccounted, PTL

(* malloc never meets a full slub on the avail list and never forgets one  *)
(* that has room: each slub is once on the list it belongs to.             *)
THEOREM SlubListsItsSlubs == Spec => []SlubsListed
BY SlubInductive, SlubsAreListed, PTL

(* Every run taken from the page allocator is a slub or a large object.    *)
THEOREM SlubAccountsForPages == Spec => []PagesAccounted
BY SlubInductive, PagesAreAccounted, PTL

(* free tells a large object from a slot by the pointer alone, and is      *)
(* never wrong; and no object covers a byte of a slub's header.            *)
THEOREM SlubTellsPointersApart == Spec => []PointersDistinguished
BY SlubInductive, PointersAreDistinguished, PTL

(* The slub allocator is to bytes what the page allocator below it is to   *)
(* pages: each object is a run of bytes that no other object has any of,   *)
(* stays where it is until it is freed, and free gives back that run.      *)
THEOREM SlubImplementsHeap == Spec => HeapSpec
<1>1. Init => Heap!Init
  <2> SUFFICES ASSUME Init PROVE HeapObjects = << >>
    BY DEF Heap!Init, HeapObjects
  <2>1. Objects = {}
    BY DEF Init, Objects
  <2> QED BY <2>1 DEF HeapObjects
<1>2. SInv /\ [Next]_vars => [Heap!Next]_(HeapObjects)
  BY SlubStep, HeapStep
<1> QED BY <1>1, <1>2, SlubInductive, PTL DEF Spec, HeapSpec, Heap!Spec, HeapObjects

-----------------------------------------------------------------------------
(* kmalloc and kfree call the slub allocator as callers of Slub do.        *)
LEMMA KstepIsStep == [KNext]_allVars => [Next]_vars
<1> SUFFICES ASSUME [KNext]_allVars PROVE [Next]_vars
  OBVIOUS
<1>1. ASSUME NEW size \in Sizes, MallocLarge(size) \/ MallocSmall(size) \/ MallocFails(size)
      PROVE  Next
  BY <1>1 DEF Next
<1>2. ASSUME NEW size \in Sizes, SimpleAlloc(size) PROVE [Next]_vars
  BY <1>1, <1>2 DEF SimpleAlloc
<1>3. ASSUME NEW size \in Sizes, NEW zero \in BOOLEAN, Kmalloc(size, zero) PROVE [Next]_vars
  BY <1>2, <1>3 DEF Kmalloc, Panics
<1>4. ASSUME NEW size \in Sizes, NEW nmemb \in Members, Kcalloc(nmemb, size) PROVE [Next]_vars
  <2>1. (nmemb * size) % WordSize \in Sizes
    BY KmallocAssumption
  <2> QED BY <1>3, <1>4, <2>1 DEF Kcalloc
<1>5. ASSUME NEW obj \in DOMAIN held \cup {NULL}, Kfree(obj) \/ Ksize(obj) PROVE [Next]_vars
  <2>1. CASE Kfree(obj)
    <3>1. CASE obj = NULL \/ ~installed
      BY <2>1, <3>1 DEF Kfree
    <3>2. CASE ~(obj = NULL \/ ~installed)
      <4>1. obj \in DOMAIN held /\ Free(obj)
        BY <2>1, <3>2 DEF Kfree
      <4> QED BY <4>1 DEF Next
    <3> QED BY <3>1, <3>2
  <2>2. CASE Ksize(obj)
    BY <2>2 DEF Ksize, Panics
  <2> QED BY <1>5, <2>1, <2>2
<1>6. ASSUME NEW size \in Sizes, VmallocDirect(size) PROVE [Next]_vars
  BY <1>1, <1>6 DEF VmallocDirect
<1>7. ASSUME NEW flag \in BOOLEAN, CacheAlloc(flag) \/ CacheFree(flag) PROVE UNCHANGED vars
  BY <1>7 DEF CacheAlloc, CacheFree
<1>8. CASE InstallVmmAdapter \/ UNCHANGED allVars
  BY <1>8 DEF InstallVmmAdapter, allVars
<1>9. CASE CacheCreate \/ CacheDestroy \/ CacheTrim
  BY <1>9 DEF CacheCreate, CacheDestroy, CacheTrim, NothingDone
<1> QED BY <1>3, <1>4, <1>5, <1>6, <1>7, <1>8, <1>9 DEF KNext

(* Every behaviour of kmalloc, kcalloc, kfree and the caches over the slub *)
(* allocator is one of the slub allocator itself, so the theorems above    *)
(* hold of them.                                                           *)
THEOREM KmallocUsesSlub == KSpec => Spec
BY KstepIsStep, PTL DEF KSpec, KInit, Spec

(* What was filled last is nothing, the bytes at NULL, or bytes of the     *)
(* object returned.                                                        *)
FillGood ==
  \/ result = NULL
  \/ result \in Objects /\ filled \subseteq Extent(result)

LEMMA FillOfNew ==
  ASSUME SInv, SInv', NEW size \in Sizes, UNCHANGED vars \/ \E a : Gains(a, size),
         result' = IF held' = held THEN NULL ELSE CHOOSE a \in DOMAIN held' : a \notin DOMAIN held,
         filled' = Memset(result', size) \/ filled' = {}
  PROVE  FillGood'
<1>1. CASE UNCHANGED vars
  BY <1>1 DEF vars, FillGood
<1>2. ASSUME NEW a, Gains(a, size) PROVE FillGood'
  <2>1. PICK rn2, lv2, fl2, av2, fu2, hd2 :
             /\ rn2 = runs' /\ lv2 = level_of' /\ fl2 = free_list' /\ av2 = slub_avail'
             /\ fu2 = slub_full' /\ hd2 = held'
    OBVIOUS
  <2>2. Good(rn2, lv2, fl2, av2, fu2, hd2)
    BY <2>1 DEF SInv
  <2>3. a \notin DOMAIN held /\ DOMAIN hd2 = DOMAIN held \cup {a} /\ hd2[a] = size
    BY <1>2, <2>1 DEF Gains, With
  <2>4. (CHOOSE x \in DOMAIN hd2 : x \notin DOMAIN held) = a /\ hd2 # held
    BY <2>3
  <2>5. result' = a
    BY <2>1, <2>4
  <2>6. PICK last \in Bytes : ExtentIn(rn2, lv2, a) = a .. last /\ a + size - 1 <= last
    BY <2>2, <2>3, ExtentIsRun
  <2>7. a \in Nat /\ size \in Nat /\ last \in Nat
    BY <2>2, <2>3, ObjectPage, SlubTypes, BytesTypes
  <2>8. filled' \subseteq a .. last
    <3>1. Memset(result', size) = a .. a + size - 1
      BY <2>5 DEF Memset
    <3>2. (a .. a + size - 1) \subseteq a .. last
      BY <2>6, <2>7
    <3> QED BY <3>1, <3>2
  <2>9. Extent(a)' = a .. last
    BY <2>1, <2>6 DEF Extent, ExtentIn
  <2>10. FillGood' <=> (result' = NULL \/ (result' \in Objects' /\ filled' \subseteq Extent(result)'))
    BY DEF FillGood
  <2>11. Extent(result)' = Extent(a)'
    BY <2>5 DEF Extent
  <2> QED BY <2>1, <2>3, <2>5, <2>8, <2>9, <2>10, <2>11 DEF Objects
<1> QED BY <1>1, <1>2

LEMMA SlubStepKinds ==
  ASSUME SInv, NEW size \in Sizes, MallocLarge(size) \/ MallocSmall(size) \/ MallocFails(size)
  PROVE  SInv' /\ (UNCHANGED vars \/ \E a : Gains(a, size))
<1>1. CASE MallocLarge(size) \/ MallocSmall(size)
  BY <1>1, LargeStep, SmallStep
<1>2. CASE MallocFails(size)
  BY <1>2 DEF MallocFails, SInv, vars, slubVars
<1> QED BY <1>1, <1>2

LEMMA FillStep == SInv /\ FillGood /\ [KNext]_allVars => FillGood'
<1> SUFFICES ASSUME SInv, FillGood, [KNext]_allVars PROVE FillGood'
  OBVIOUS
<1>1. ASSUME NEW size \in Sizes, SimpleAlloc(size), filled' = Memset(result', size) \/ filled' = {}
      PROVE  FillGood'
  <2>1. SInv' /\ (UNCHANGED vars \/ \E a : Gains(a, size))
    <3>1. CASE installed
      BY <1>1, <3>1, SlubStepKinds DEF SimpleAlloc
    <3>2. CASE ~installed
      BY <1>1, <3>2 DEF SimpleAlloc, SInv, vars, slubVars
    <3> QED BY <3>1, <3>2
  <2>2. result' = IF held' = held THEN NULL ELSE CHOOSE a \in DOMAIN held' : a \notin DOMAIN held
    BY <1>1 DEF SimpleAlloc
  <2> QED BY <1>1, <2>1, <2>2, FillOfNew
<1>2. ASSUME UNCHANGED <<vars, result, filled>> PROVE FillGood'
  BY <1>2 DEF FillGood, vars, slubVars, Objects, Extent
<1>3. ASSUME NEW size \in Sizes, NEW zero \in BOOLEAN, Kmalloc(size, zero) PROVE FillGood'
  <2>1. CASE Panics
    BY <1>2, <2>1 DEF Panics
  <2>2. CASE SimpleAlloc(size) /\ filled' = IF zero THEN Memset(result', size) ELSE {}
    BY <1>1, <2>2
  <2> QED BY <1>3, <2>1, <2>2 DEF Kmalloc
<1>4. ASSUME NEW size \in Sizes, NEW nmemb \in Members, Kcalloc(nmemb, size) PROVE FillGood'
  <2>1. (nmemb * size) % WordSize \in Sizes
    BY KmallocAssumption
  <2> QED BY <1>3, <1>4, <2>1 DEF Kcalloc
<1>5. ASSUME result' = NULL PROVE FillGood'
  BY <1>5 DEF FillGood
<1>6. ASSUME NEW obj \in DOMAIN held \cup {NULL}, Kfree(obj) \/ Ksize(obj) PROVE FillGood'
  <2>1. CASE Kfree(obj)
    BY <1>5, <2>1 DEF Kfree
  <2>2. CASE Ksize(obj)
    BY <1>2, <2>2 DEF Ksize, Panics
  <2> QED BY <1>6, <2>1, <2>2
<1>7. ASSUME NEW size \in Sizes, VmallocDirect(size) PROVE FillGood'
  BY <1>5, <1>7 DEF VmallocDirect
<1>8. ASSUME NEW flag \in BOOLEAN, CacheAlloc(flag) \/ CacheFree(flag) PROVE FillGood'
  BY <1>5, <1>8 DEF CacheAlloc, CacheFree, CachingAllocator
<1>9. CASE InstallVmmAdapter \/ UNCHANGED allVars
  BY <1>2, <1>9 DEF InstallVmmAdapter, allVars, kmallocVars
<1>10. CASE CacheCreate \/ CacheDestroy \/ CacheTrim
  BY <1>5, <1>10 DEF CacheCreate, CacheDestroy, CacheTrim, NothingDone
<1> QED BY <1>3, <1>4, <1>6, <1>7, <1>8, <1>9, <1>10 DEF KNext

(* The bytes kmalloc, kcalloc and the caches clear or fill with junk are   *)
(* bytes of the object they return and of nothing else in the heap, for    *)
(* every product kcalloc's arguments may wrap to.                          *)
THEOREM KmallocFillsOwnObject == KSpec => []FillsOwnObject
<1>1. KInit => FillGood
  BY DEF KInit, FillGood
<1>2. FillGood => FillsOwnObject
  BY DEF FillGood, FillsOwnObject
<1>3. KSpec => []SInv
  BY KmallocUsesSlub, SlubInductive, PTL
<1> QED BY <1>1, <1>2, <1>3, FillStep, PTL DEF KSpec
=============================================================================
