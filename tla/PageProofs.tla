----------------------------- MODULE PageProofs -----------------------------
(***************************************************************************)
(* What the page allocator does, for every zone: its blocks partition the  *)
(* zone and its lists agree with its records (IInv, the invariant all else *)
(* rests on); it hands out runs nobody owns, counts exactly, keeps free    *)
(* blocks merged, fails only when it must and leaves the boot's data       *)
(* alone.  And what the kernel's page interface above it promises, for     *)
(* every request: until the allocator takes back a piece of a block, what  *)
(* it hands out belongs to no other caller and is taken back, and at all   *)
(* times it fills only the pages of the call.                              *)
(***************************************************************************)
EXTENDS PageAdapter, Bootstrap, DataFacts, FiniteSetTheorems

-----------------------------------------------------------------------------
(* Powers of two and aligned blocks.                                       *)

LEMMA MinIsLeast ==
  ASSUME NEW S, S \subseteq Nat, S # {}
  PROVE  Min(S) \in S /\ \A k \in S : Min(S) <= k
BY NatLeast, Zenon DEF Min

LEMMA OrderTypes ==
  /\ MaxOrder \in Nat
  /\ Orders \subseteq Nat
  /\ \A o \in 0 .. MaxOrder + 1 : Pow2[o] \in Nat \ {0}
  /\ \A o \in Orders : o + 1 \in 0 .. MaxOrder + 1 /\ o \in 0 .. MaxOrder + 1
                       /\ Pow2[o + 1] = 2 * Pow2[o]
BY OrderAssumption DEF Orders

(* Larger powers of two are multiples of smaller ones.                     *)
LEMMA PowersDivide ==
  ASSUME NEW j \in 0 .. MaxOrder + 1, NEW k \in 0 .. MaxOrder + 1, j <= k
  PROVE  \E c \in Nat \ {0} : Pow2[k] = c * Pow2[j]
<1> DEFINE D(n) == \E c \in Nat \ {0} : Pow2[n] = c * Pow2[j]
           Bad == {n \in j .. MaxOrder + 1 : ~ D(n)}
<1>0. k \in j .. MaxOrder + 1 /\ Bad \subseteq Nat
  BY OrderTypes
<1>1. SUFFICES ASSUME Bad # {} PROVE FALSE
  BY <1>0
<1>2. PICK m \in Bad : \A n \in Bad : m <= n
  BY <1>0, <1>1, NatLeast, Zenon
<1>3. D(j)
  BY OrderTypes
<1>4. m # j
  BY <1>2, <1>3
<1>5. m - 1 \in Orders /\ m - 1 \in j .. MaxOrder + 1 /\ m - 1 \notin Bad
  BY <1>2, <1>4, OrderTypes DEF Orders
<1>6. PICK c \in Nat \ {0} : Pow2[m - 1] = c * Pow2[j]
  BY <1>5
<1>7. Pow2[m] = 2 * Pow2[m - 1]
  BY <1>5, OrderTypes
<1>8. Pow2[m] = (2 * c) * Pow2[j] /\ 2 * c \in Nat \ {0}
  BY <1>6, <1>7, OrderTypes
<1> QED BY <1>2, <1>8

LEMMA PowersGrow ==
  ASSUME NEW j \in 0 .. MaxOrder + 1, NEW k \in 0 .. MaxOrder + 1
  PROVE  /\ j <= k => Pow2[j] <= Pow2[k]
         /\ j < k => Pow2[j] < Pow2[k] /\ 2 * Pow2[j] <= Pow2[k]
<1>1. ASSUME NEW a \in 0 .. MaxOrder + 1, NEW b \in 0 .. MaxOrder + 1, a <= b
      PROVE  Pow2[a] <= Pow2[b]
  <2>1. PICK c \in Nat \ {0} : Pow2[b] = c * Pow2[a]
    BY <1>1, PowersDivide
  <2>2. 1 * Pow2[a] <= c * Pow2[a]
    BY OrderTypes, MulMono
  <2> QED BY <2>1, <2>2, OrderTypes
<1>2. ASSUME j < k PROVE Pow2[j] < Pow2[k] /\ 2 * Pow2[j] <= Pow2[k]
  <2>1. j \in Orders /\ j + 1 <= k
    BY <1>2, OrderTypes DEF Orders
  <2>2. Pow2[j + 1] <= Pow2[k]
    BY <1>1, <2>1, OrderTypes
  <2> QED BY <2>1, <2>2, OrderTypes
<1> QED BY <1>1, <1>2

(* LowIndex rounds down to a multiple of the block size.                   *)
LEMMA LowIndexFacts ==
  ASSUME NEW i \in Nat, NEW o \in 0 .. MaxOrder + 1
  PROVE  /\ LowIndex(i, o) \in Nat
         /\ LowIndex(i, o) <= i
         /\ i < LowIndex(i, o) + Pow2[o]
         /\ \E q \in Nat : LowIndex(i, o) = q * Pow2[o]
<1> DEFINE d == Pow2[o]
<1>1. d \in Nat \ {0}
  BY OrderTypes
<1>2. i \div d \in Nat /\ (i \div d) * d <= i /\ i < (i \div d) * d + d
  BY <1>1, DivBounds
<1>3. (i \div d) * d \in Nat
  BY <1>1, <1>2
<1> QED BY <1>2, <1>3 DEF LowIndex

LEMMA LowIndexUnique ==
  ASSUME NEW i \in Nat, NEW o \in 0 .. MaxOrder + 1, NEW q \in Nat,
         q * Pow2[o] <= i, i < q * Pow2[o] + Pow2[o]
  PROVE  LowIndex(i, o) = q * Pow2[o]
BY DivUnique, OrderTypes DEF LowIndex

(* A block and its buddy are the two halves of the block one order up.     *)
LEMMA BuddiesMakePair ==
  ASSUME NEW i \in Nat, NEW o \in Orders
  PROVE  /\ MergeBuddy(i, o) \in Nat
         /\ \/ /\ LowIndex(i, o) = LowIndex(i, o + 1)
               /\ MergeBuddy(i, o) = LowIndex(i, o + 1) + Pow2[o]
            \/ /\ MergeBuddy(i, o) = LowIndex(i, o + 1)
               /\ LowIndex(i, o) = LowIndex(i, o + 1) + Pow2[o]
<1> DEFINE d == Pow2[o]
           a == i \div d
           m == a \div 2
           L == LowIndex(i, o)
<1>0. d \in Nat \ {0} /\ Pow2[o + 1] = 2 * d /\ o + 1 \in 0 .. MaxOrder + 1 /\ o \in 0 .. MaxOrder + 1
  BY OrderTypes
<1>1. a \in Nat /\ a * d <= i /\ i < a * d + d /\ L = a * d
  BY <1>0, DivBounds DEF LowIndex
<1>2. m \in Nat /\ (a = 2 * m \/ a = 2 * m + 1)
  BY <1>1
<1>3. L \div d = a
  <2>1. a * d <= L /\ L < a * d + d /\ L \in Nat
    BY <1>0, <1>1
  <2> HIDE DEF a, d, L
  <2> QED BY <1>0, <1>1, <2>1, DivUnique
<1>4. BitSet(L, o) <=> a = 2 * m + 1
  BY <1>1, <1>2, <1>3 DEF BitSet
<1>5. LowIndex(i, o + 1) = m * (2 * d)
  <2>1. m * (2 * d) <= i /\ i < m * (2 * d) + 2 * d
    <3>1. CASE a = 2 * m
      BY <3>1, <1>0, <1>1, <1>2
    <3>2. CASE a = 2 * m + 1
      BY <3>2, <1>0, <1>1, <1>2
    <3> QED BY <3>1, <3>2, <1>2
  <2> HIDE DEF m, d
  <2> QED BY <1>0, <1>2, <2>1, LowIndexUnique
<1>6. CASE a = 2 * m
  <2>1. L = m * (2 * d) /\ ~BitSet(L, o)
    BY <1>0, <1>1, <1>2, <1>4, <1>6
  <2> QED BY <1>0, <1>2, <1>5, <2>1 DEF MergeBuddy, GetBuddy
<1>7. CASE a = 2 * m + 1
  <2>1. L = m * (2 * d) + d /\ BitSet(L, o)
    BY <1>0, <1>1, <1>2, <1>4, <1>7
  <2> QED BY <1>0, <1>2, <1>5, <2>1 DEF MergeBuddy, GetBuddy
<1> QED BY <1>2, <1>6, <1>7

(* The bit malloc sets to find the upper half of a block is clear.         *)
LEMMA HighIndexOfAligned ==
  ASSUME NEW i \in Nat, NEW o \in Orders, NEW k \in Orders, k < o,
         i % Pow2[o] = 0
  PROVE  /\ GetHighIndex(i, k) = i + Pow2[k]
         /\ (i + Pow2[k]) % Pow2[k] = 0
         /\ i % Pow2[k] = 0
<1> DEFINE d == Pow2[k]
<1>0. d \in Nat \ {0} /\ Pow2[k + 1] = 2 * d /\ k + 1 \in 0 .. MaxOrder + 1
      /\ o \in 0 .. MaxOrder + 1 /\ k + 1 <= o /\ Pow2[o] \in Nat \ {0}
  BY OrderTypes
<1>1. PICK q \in Nat : i = q * Pow2[o]
  BY <1>0, MultipleOf
<1>2. PICK c \in Nat \ {0} : Pow2[o] = c * Pow2[k + 1]
  BY <1>0, PowersDivide
<1> DEFINE m == q * c
<1>3. m \in Nat /\ i = (2 * m) * d /\ i + d = (2 * m + 1) * d
  BY <1>0, <1>1, <1>2
<1>4. i \div d = 2 * m
  <2> HIDE DEF m, d
  <2> QED BY <1>0, <1>3, DivUnique
<1>5. ~BitSet(i, k)
  BY <1>3, <1>4 DEF BitSet
<1>6. i % d = 0 /\ (i + d) % d = 0
  <2>1. 2 * m \in Nat /\ 2 * m + 1 \in Nat /\ i + d \in Nat
    BY <1>0, <1>3
  <2> HIDE DEF m, d
  <2> QED BY <1>0, <1>3, <2>1, MultipleOf, SMTT(30)
<1> QED BY <1>5, <1>6 DEF GetHighIndex

-----------------------------------------------------------------------------
(* The merge loop, seen as a growing region around block i.                *)

Run(i, o) == i .. i + Pow2[o] - 1
Region(i, o) == Run(LowIndex(i, o), o)

LEMMA RegionDoubles ==
  ASSUME NEW i \in Nat, NEW o \in Orders
  PROVE  /\ Region(i, o + 1) = Region(i, o) \cup Run(MergeBuddy(i, o), o)
         /\ i \in Region(i, o)
<1>1. /\ Pow2[o] \in Nat \ {0} /\ Pow2[o + 1] = 2 * Pow2[o]
      /\ o \in 0 .. MaxOrder + 1 /\ o + 1 \in 0 .. MaxOrder + 1
  BY OrderTypes
<1>2. LowIndex(i, o + 1) \in Nat /\ LowIndex(i, o) \in Nat
      /\ LowIndex(i, o) <= i /\ i < LowIndex(i, o) + Pow2[o]
  BY <1>1, LowIndexFacts
<1>3. CASE /\ LowIndex(i, o) = LowIndex(i, o + 1)
           /\ MergeBuddy(i, o) = LowIndex(i, o + 1) + Pow2[o]
  BY <1>1, <1>2, <1>3 DEF Region, Run
<1>4. CASE /\ MergeBuddy(i, o) = LowIndex(i, o + 1)
           /\ LowIndex(i, o) = LowIndex(i, o + 1) + Pow2[o]
  BY <1>1, <1>2, <1>4 DEF Region, Run
<1> QED BY <1>3, <1>4, BuddiesMakePair

LEMMA RegionGrows ==
  ASSUME NEW i \in Nat, NEW f \in Orders, NEW l \in Orders, f <= l
  PROVE  Region(i, l) = Region(i, f) \cup UNION {Run(MergeBuddy(i, k), k) : k \in f .. l - 1}
<1> DEFINE U(n) == Region(i, f) \cup UNION {Run(MergeBuddy(i, k), k) : k \in f .. n - 1}
           Bad == {n \in f .. l : Region(i, n) # U(n)}
<1>0. Bad \subseteq Nat /\ f \in Nat /\ l \in Nat /\ f .. l \subseteq Orders
  BY OrderTypes DEF Orders
<1>1. SUFFICES ASSUME Bad # {} PROVE FALSE
  BY <1>0
<1>2. PICK m \in Bad : \A n \in Bad : m <= n
  BY <1>0, <1>1, NatLeast, Zenon
<1>3. Region(i, f) = U(f)
  BY <1>0
<1>4. m # f
  BY <1>2, <1>3
<1>5. m - 1 \in f .. l /\ m - 1 \notin Bad /\ m - 1 \in Orders /\ m \in Nat
  BY <1>0, <1>2, <1>4
<1>6. Region(i, m - 1) = U(m - 1)
  BY <1>5
<1>7. Region(i, m) = Region(i, m - 1) \cup Run(MergeBuddy(i, m - 1), m - 1)
  <2>1. m - 1 + 1 = m
    BY <1>5
  <2> QED BY <1>5, <2>1, RegionDoubles
<1>8. f .. m - 1 = (f .. (m - 1) - 1) \cup {m - 1}
  BY <1>0, <1>5
<1>9. U(m) = U(m - 1) \cup Run(MergeBuddy(i, m - 1), m - 1)
  BY <1>8
<1> QED BY <1>2, <1>6, <1>7, <1>9

-----------------------------------------------------------------------------
(* What the invariant says of a single head.                               *)

LEMMA HeadFacts ==
  ASSUME IInv, NEW g \in Heads
  PROVE  /\ g \in Pages /\ g \in Nat
         /\ page[g].order \in Orders
         /\ Block(g) = Run(g, page[g].order)
         /\ g \in Block(g)
         /\ Block(g) \subseteq Pages
         /\ \E q \in Nat : g = q * Pow2[page[g].order]
<1> USE DEF IInv
<1>1. g \in Pages
  <2>1. FreeHeads \subseteq Pages
    BY ListTypes DEF FreeHeads, TypeOK
  <2>2. Owners \subseteq Pages
    BY DEF Owners, TypeOK, Kept
  <2> QED BY <2>1, <2>2 DEF Heads
<1>2. g \in Nat
  BY <1>1, ZoneAssumption DEF Pages
<1>3. page[g].order \in Orders
  BY <1>1 DEF TypeOK, PageRecord
<1>4. Pow2[page[g].order] \in Nat \ {0}
  BY <1>3, OrderTypes
<1>5. g \in Block(g)
  BY <1>2, <1>4 DEF Block
<1>6. \E q \in Nat : g = q * Pow2[page[g].order]
  BY <1>2, <1>4, MultipleOf DEF HeadsAligned
<1> QED BY <1>1, <1>2, <1>3, <1>5, <1>6 DEF Block, Run, Partition

LEMMA ListedFacts ==
  ASSUME IInv, NEW o \in Orders
  PROVE  /\ list[o] \in Seq(Pages)
         /\ Distinct(list[o])
         /\ \A g \in ToSet(list[o]) :
              g \in FreeHeads /\ g \in Heads /\ page[g].in_use = 0 /\ page[g].order = o
BY DEF IInv, TypeOK, ListsMatchRecords, Distinct, ToSet, FreeHeads, Heads

LEMMA FreeHeadFacts ==
  ASSUME IInv, NEW g \in FreeHeads
  PROVE  /\ page[g].in_use = 0
         /\ page[g].order \in Orders
         /\ g \in ToSet(list[page[g].order])
         /\ g \notin Owners
<1>1. PICK o \in Orders : g \in ToSet(list[o])
  BY DEF FreeHeads
<1> QED BY <1>1, ListedFacts DEF IInv, Partition

LEMMA FreeHeadsList ==
  ASSUME IInv
  PROVE  \A o \in Orders : ToSet(list[o]) = {g \in FreeHeads : page[g].order = o}
BY ListedFacts, FreeHeadFacts

(* The record free trusts is never stale: a buddy marked free and of the   *)
(* loop's order really heads a free block.                                 *)
LEMMA BuddyIsFree ==
  ASSUME IInv, NEW i \in Owners, NEW k \in page[i].order .. MaxOrder, CanMerge(i, k)
  PROVE  /\ MergeBuddy(i, k) \in FreeHeads
         /\ MergeBuddy(i, k) \in ToSet(list[k])
         /\ page[MergeBuddy(i, k)].order = k
<1> DEFINE b == MergeBuddy(i, k)
<1>0. i \in Heads /\ i \in Nat /\ page[i].order \in Orders /\ i \in Block(i)
  BY HeadFacts DEF Heads
<1>1. k \in Orders /\ k \in Nat /\ k < MaxOrder /\ k + 1 \in Orders
      /\ k \in 0 .. MaxOrder + 1 /\ k + 1 \in 0 .. MaxOrder + 1
      /\ Pow2[k] \in Nat \ {0} /\ Pow2[k + 1] = 2 * Pow2[k]
  BY <1>0, OrderTypes DEF Orders, CanMerge
<1>2. b \in Nat
  BY <1>0, <1>1, BuddiesMakePair
<1>3. b \in Pages /\ page[b].in_use = 0 /\ page[b].order = k
  BY <1>2, ZoneAssumption DEF CanMerge, Pages
<1>4. PICK g \in Heads : b \in Block(g)
  BY <1>3 DEF IInv, Partition
<1> DEFINE j == page[g].order
<1>5. /\ g \in Nat /\ j \in Orders /\ j \in 0 .. MaxOrder + 1
      /\ Block(g) = Run(g, j) /\ Pow2[j] \in Nat \ {0}
  BY HeadFacts, OrderTypes
<1>6. g <= b /\ b < g + Pow2[j]
  BY <1>2, <1>4, <1>5 DEF Run
<1>7. PICK a \in Nat : g = a * Pow2[j]
  BY HeadFacts
<1>8. LowIndex(b, j) = g
  BY <1>2, <1>5, <1>6, <1>7, LowIndexUnique
<1>9. CASE g = b
  <2>1. b \notin Owners
    BY <1>3 DEF IInv, OwnersInUse
  <2>2. b \in FreeHeads
    BY <1>9, <2>1 DEF Heads
  <2> QED BY <2>2, <1>3, FreeHeadFacts
<1>10. CASE g # b
  (* The block around b is larger than b's, so it holds the whole pair,    *)
  (* and with it block i: i would be its head, of order at most k.         *)
  <2>1. PICK r \in Nat : b = r * Pow2[k]
    <3>1. PICK r \in Nat : LowIndex(i, k) = r * Pow2[k]
      BY <1>0, <1>1, LowIndexFacts
    <3>2. PICK s \in Nat : LowIndex(i, k + 1) = s * Pow2[k + 1]
      BY <1>0, <1>1, LowIndexFacts
    <3>3. b = (2 * s) * Pow2[k] \/ b = (2 * s + 1) * Pow2[k]
      BY <1>0, <1>1, <3>2, BuddiesMakePair
    <3> QED BY <3>2, <3>3
  <2>2. ASSUME j <= k PROVE FALSE
    <3>1. PICK c \in Nat \ {0} : Pow2[k] = c * Pow2[j]
      BY <1>1, <1>5, <2>2, PowersDivide
    <3>2. b = (r * c) * Pow2[j] /\ r * c \in Nat
      BY <1>5, <2>1, <3>1
    <3>3. LowIndex(b, j) = b
      <4> DEFINE q == r * c
      <4>1. q * Pow2[j] <= b /\ b < q * Pow2[j] + Pow2[j]
        BY <1>2, <1>5, <3>2
      <4> HIDE DEF q
      <4> QED BY <1>2, <1>5, <3>2, <4>1, LowIndexUnique
    <3> QED BY <1>8, <1>10, <3>3
  <2>3. k + 1 <= j
    BY <1>1, <1>5, <2>2, OrderTypes
  <2>4. PICK c \in Nat \ {0} : Pow2[j] = c * Pow2[k + 1]
    BY <1>1, <1>5, <2>3, PowersDivide
  <2>5. PICK s \in Nat : LowIndex(i, k + 1) = s * Pow2[k + 1]
    BY <1>0, <1>1, LowIndexFacts
  <2> DEFINE D == Pow2[k + 1]
             q == a * c
             w == q + c
  <2>6. D \in Nat \ {0} /\ q \in Nat /\ w \in Nat /\ g = q * D /\ g + Pow2[j] = w * D
    <3>1. D \in Nat \ {0} /\ D \in Nat /\ c \in Nat /\ q \in Nat /\ w \in Nat
      BY <1>1
    <3>2. g = a * (c * D) /\ Pow2[j] = c * D
      BY <1>7, <2>4
    <3> HIDE DEF D
    <3>3. g = q * D
      BY <3>1, <3>2, MulRegroup
    <3>4. q * D + c * D = w * D
      BY <3>1, MulRegroup
    <3> QED BY <3>1, <3>2, <3>3, <3>4
  <2>7. s * D \in Nat /\ (s + 1) * D = s * D + D /\ s + 1 \in Nat
    BY <2>6
  <2>8. /\ s * D <= b /\ b < s * D + D
        /\ s * D <= i /\ i < s * D + D
    <3>1. LowIndex(i, k + 1) = s * D /\ D = 2 * Pow2[k]
      BY <1>1, <2>5
    <3>2. LowIndex(i, k + 1) <= i /\ i < LowIndex(i, k + 1) + D
      BY <1>0, <1>1, LowIndexFacts
    <3> HIDE DEF D
    <3>3. b = s * D \/ b = s * D + Pow2[k]
      BY <1>0, <1>1, <3>1, BuddiesMakePair
    <3> QED BY <1>1, <2>6, <2>7, <3>1, <3>2, <3>3
  <2> HIDE DEF q, w, D
  <2>9. q * D \in Nat /\ w * D \in Nat
    BY <2>6
  <2>10. q * D <= s * D /\ s * D + D <= w * D
    <3>1. q * D < (s + 1) * D /\ s * D < w * D
      BY <1>6, <1>2, <2>6, <2>7, <2>8, <2>9
    <3>2. q < s + 1 /\ s < w
      BY <3>1, <2>6, <2>7, MulLess
    <3>3. q <= s /\ s + 1 <= w
      BY <3>2, <2>6
    <3> QED BY <3>3, <2>6, <2>7, MulMono
  <2>11. g <= i /\ i < g + Pow2[j]
    <3> DEFINE x == q * D
               y == s * D
               z == w * D
    <3>1. x = g /\ z = g + Pow2[j] /\ x <= y /\ y + D <= z /\ y <= i /\ i < y + D
      BY <2>6, <2>8, <2>10
    <3>2. x \in Nat /\ y \in Nat /\ z \in Nat
      BY <2>7, <2>9
    <3> HIDE DEF x, y, z
    <3> QED BY <1>0, <2>6, <3>1, <3>2
  <2>12. i \in Block(g)
    BY <1>0, <1>5, <2>11 DEF Run
  <2>13. g = i
    BY <1>0, <2>12 DEF IInv, Partition
  <2>14. k + 1 <= page[i].order /\ page[i].order \in Nat /\ page[i].order <= k
    <3>1. page[i].order \in Nat /\ j = page[i].order
      BY <1>0, <2>13, OrderTypes
    <3>2. page[i].order <= k
      BY <1>1, <3>1, OrderTypes
    <3> QED BY <2>3, <3>1, <3>2
  <2> QED BY <1>1, <2>14
<1> QED BY <1>9, <1>10

-----------------------------------------------------------------------------
(* Replacing some blocks by others that cover the same pages.              *)

Tiling(f, P) ==
  /\ \A x \in DOMAIN f : f[x] \subseteq P
  /\ \A p \in P : \E x \in DOMAIN f : p \in f[x]
  /\ \A x, y \in DOMAIN f : x # y => f[x] \cap f[y] = {}

(* Tiling g is tiling f with the blocks of Old replaced by those of New.   *)
Replaces(f, g, Old, New) ==
  /\ Old \subseteq DOMAIN f /\ New \subseteq DOMAIN g
  /\ DOMAIN g = (DOMAIN f \ Old) \cup New
  /\ \A x \in DOMAIN f \ Old : x \notin New /\ g[x] = f[x]
  /\ \A x \in New : \A p \in g[x] : \E y \in Old : p \in f[y]
  /\ \A y \in Old : \A p \in f[y] : \E x \in New : p \in g[x]
  /\ \A x, y \in New : x # y => g[x] \cap g[y] = {}

LEMMA Retile ==
  ASSUME NEW P, NEW f, NEW g, NEW Old, NEW New,
         Tiling(f, P), Replaces(f, g, Old, New)
  PROVE  Tiling(g, P)
<1> USE DEF Replaces
<1>1. ASSUME NEW x \in DOMAIN g PROVE g[x] \subseteq P
  BY <1>1 DEF Tiling
<1>2. ASSUME NEW p \in P PROVE \E x \in DOMAIN g : p \in g[x]
  <2>1. PICK y \in DOMAIN f : p \in f[y]
    BY <1>2 DEF Tiling
  <2>2. CASE y \in Old
    BY <2>1, <2>2
  <2>3. CASE y \notin Old
    BY <2>1, <2>3
  <2> QED BY <2>2, <2>3
<1>3. ASSUME NEW x \in DOMAIN g, NEW y \in DOMAIN g, x # y, NEW p, p \in g[x], p \in g[y]
      PROVE  FALSE
  <2>1. CASE x \in New /\ y \in New
    BY <1>3, <2>1
  <2>2. CASE x \notin New /\ y \notin New
    BY <1>3, <2>2 DEF Tiling
  <2>3. ASSUME NEW u \in New, NEW v \in DOMAIN f \ Old, p \in g[u], p \in g[v] PROVE FALSE
    <3>1. PICK w \in Old : p \in f[w]
      BY <2>3
    <3>2. p \in f[v] /\ w # v
      BY <2>3
    <3> QED BY <3>1, <3>2 DEF Tiling
  <2> QED BY <1>3, <2>1, <2>2, <2>3
<1> QED BY <1>1, <1>2, <1>3 DEF Tiling

Blocks == [x \in Heads |-> Block(x)]

LEMMA PartitionIsTiling ==
  Partition <=> Tiling(Blocks, Pages) /\ FreeHeads \cap Owners = {}
BY DEF Partition, Tiling, Blocks

-----------------------------------------------------------------------------
(* Freeing a block.                                                        *)

(* The orders the merge loop passes are all orders it may merge at.        *)
LEMMA MergeStops ==
  ASSUME IInv, NEW i \in Owners
  PROVE  /\ page[i].order \in Orders /\ page[i].order \in Nat
         /\ MergedOrder(i) \in Orders /\ MergedOrder(i) \in Nat
         /\ page[i].order <= MergedOrder(i)
         /\ ~CanMerge(i, MergedOrder(i))
         /\ \A k \in page[i].order .. MergedOrder(i) - 1 :
              /\ k \in Orders
              /\ k \in page[i].order .. MaxOrder
              /\ CanMerge(i, k)
<1> DEFINE f == page[i].order
           S == {o \in f .. MaxOrder : ~CanMerge(i, o)}
<1>1. f \in Orders /\ f \in Nat /\ MaxOrder \in Nat /\ f <= MaxOrder
  BY HeadFacts, OrderTypes DEF Heads, Orders
<1>2. MaxOrder \in S /\ S \subseteq Nat
  BY <1>1 DEF CanMerge
<1>3. MergedOrder(i) \in S /\ \A k \in S : MergedOrder(i) <= k
  <2>1. MergedOrder(i) = Min(S)
    BY DEF MergedOrder
  <2> HIDE DEF S
  <2> QED BY <1>2, <2>1, MinIsLeast
<1>4. MergedOrder(i) \in f .. MaxOrder
  BY <1>3
<1>5. ASSUME NEW k \in f .. MergedOrder(i) - 1
      PROVE  k \in Orders /\ k \in f .. MaxOrder /\ CanMerge(i, k)
  <2>1. k \in Orders /\ k \in f .. MaxOrder /\ k \in Nat /\ k < MergedOrder(i)
    BY <1>1, <1>4, <1>5 DEF Orders
  <2>2. k \notin S
    BY <1>3, <1>4, <1>1, <2>1
  <2> QED BY <2>1, <2>2
<1> QED BY <1>1, <1>3, <1>4, <1>5 DEF Orders

(* The merged block is the owner's block and the buddies' blocks.          *)
LEMMA MergedBlock ==
  ASSUME IInv, NEW i \in Owners
  PROVE  LET f == page[i].order
             l == MergedOrder(i)
         IN /\ Region(i, l) = Block(i) \cup UNION {Block(MergeBuddy(i, k)) : k \in f .. l - 1}
            /\ LowIndex(i, l) \in Pages
            /\ LowIndex(i, l) \in Region(i, l)
            /\ Region(i, l) \subseteq Pages
<1> DEFINE f == page[i].order
           l == MergedOrder(i)
<1>1. i \in Heads /\ i \in Nat /\ Block(i) = Run(i, f) /\ Block(i) \subseteq Pages
  BY HeadFacts DEF Heads
<1>2. f \in Orders /\ l \in Orders /\ f <= l /\ f \in 0 .. MaxOrder + 1 /\ l \in 0 .. MaxOrder + 1
      /\ Pow2[f] \in Nat \ {0} /\ Pow2[l] \in Nat \ {0}
  BY MergeStops, OrderTypes
<1>3. Region(i, f) = Block(i)
  <2>1. PICK q \in Nat : i = q * Pow2[f]
    BY HeadFacts DEF Heads
  <2>2. LowIndex(i, f) = i
    <3>1. q * Pow2[f] <= i /\ i < q * Pow2[f] + Pow2[f]
      BY <1>1, <1>2, <2>1
    <3> HIDE DEF f
    <3> QED BY <1>1, <1>2, <2>1, <3>1, LowIndexUnique
  <2> QED BY <1>1, <2>2 DEF Region
<1>4. ASSUME NEW k \in f .. l - 1
      PROVE  /\ Run(MergeBuddy(i, k), k) = Block(MergeBuddy(i, k))
             /\ Block(MergeBuddy(i, k)) \subseteq Pages
  <2>1. MergeBuddy(i, k) \in FreeHeads /\ page[MergeBuddy(i, k)].order = k
    BY <1>4, MergeStops, BuddyIsFree
  <2> QED BY <2>1, HeadFacts DEF Heads
<1>5. Region(i, l) = Block(i) \cup UNION {Run(MergeBuddy(i, k), k) : k \in f .. l - 1}
  BY <1>1, <1>2, <1>3, RegionGrows
<1>6. UNION {Run(MergeBuddy(i, k), k) : k \in f .. l - 1}
      = UNION {Block(MergeBuddy(i, k)) : k \in f .. l - 1}
  BY <1>4
<1>7. Region(i, l) \subseteq Pages
  BY <1>1, <1>4, <1>5, <1>6
<1>8. LowIndex(i, l) \in Region(i, l)
  <2>0. LowIndex(i, l) \in Nat
    BY <1>1, <1>2, LowIndexFacts
  <2>1. /\ LowIndex(i, l) \in Nat
        /\ LowIndex(i, l) <= LowIndex(i, l) + Pow2[l] - 1
        /\ LowIndex(i, l) + Pow2[l] - 1 \in Nat
    <3> HIDE DEF l
    <3> QED BY <1>2, <2>0
  <2> QED BY <2>1 DEF Region, Run
<1> QED BY <1>5, <1>6, <1>7, <1>8

(* The two fields a merge or a split writes in the record of a free block. *)
LEMMA FreeRecord ==
  ASSUME NEW r \in PageRecord, NEW o \in Orders
  PROVE  LET t == [r EXCEPT !.in_use = 0, !.order = o]
         IN t \in PageRecord /\ t.in_use = 0 /\ t.order = o
<1> DEFINE s == [r EXCEPT !.in_use = 0]
<1>1. s \in PageRecord /\ s.in_use = 0
  BY DEF PageRecord
<1>2. [r EXCEPT !.in_use = 0, !.order = o] = [s EXCEPT !.order = o]
  OBVIOUS
<1> HIDE DEF s
<1>3. [s EXCEPT !.order = o] \in PageRecord /\ [s EXCEPT !.order = o].order = o
      /\ [s EXCEPT !.order = o].in_use = s.in_use
  BY <1>1 DEF PageRecord
<1> QED BY <1>1, <1>2, <1>3

LEMMA ReleaseStep ==
  ASSUME IInv, NEW i \in Owners, ReleaseBlock(i), Owners' = Owners \ {i}
  PROVE  /\ page' \in [Pages -> PageRecord]
         /\ list' \in [Orders -> Seq(Pages)]
         /\ ListsMatchRecords' /\ Partition' /\ HeadsAligned'
         /\ \A g \in Owners' : page'[g] = page[g]
         /\ LET h == LowIndex(i, MergedOrder(i))
            IN /\ FreeHeads' \subseteq FreeHeads \cup {h}
               /\ page'[h].order = MergedOrder(i)
               /\ \A g \in FreeHeads' \ {h} : page'[g] = page[g]
<1> DEFINE f == page[i].order
           l == MergedOrder(i)
           h == LowIndex(i, l)
           Buddies == {MergeBuddy(i, k) : k \in f .. l - 1}
           Gone == {i} \cup Buddies
<1>1. /\ i \in Heads /\ i \notin FreeHeads /\ i \in Nat
      /\ f \in Orders /\ f \in Nat /\ l \in Orders /\ l \in Nat /\ f <= l
      /\ l \notin f .. l - 1
      /\ \A k \in f .. l - 1 : k \in Orders
  BY HeadFacts, MergeStops DEF Heads, IInv, Partition
<1>2. \A k \in f .. l - 1 :
        /\ MergeBuddy(i, k) \in FreeHeads
        /\ MergeBuddy(i, k) \in ToSet(list[k])
        /\ page[MergeBuddy(i, k)].order = k
  BY MergeStops, BuddyIsFree
<1>3. /\ Region(i, l) = UNION {Block(x) : x \in Gone}
      /\ h \in Pages /\ h \in Region(i, l)
      /\ Region(i, l) = Run(h, l)
  BY MergedBlock DEF Region
<1>4. page' = [page EXCEPT ![h] = [page[h] EXCEPT !.in_use = 0, !.order = l]]
      /\ list' = [o \in Orders |->
                    IF o \in f .. l - 1 THEN RemoveFirst(list[o], MergeBuddy(i, o))
                    ELSE IF o = l THEN <<h>> \o list[o]
                    ELSE list[o]]
  BY DEF ReleaseBlock
<1> HIDE DEF h, l, f
<1>5. /\ page' \in [Pages -> PageRecord]
      /\ page'[h].in_use = 0 /\ page'[h].order = l
      /\ \A g \in Pages : g # h => page'[g] = page[g]
  <2> DEFINE new == [page[h] EXCEPT !.in_use = 0, !.order = l]
  <2>1. page \in [Pages -> PageRecord] /\ page[h] \in PageRecord
    BY <1>3 DEF IInv, TypeOK
  <2>2. new \in PageRecord /\ new.in_use = 0 /\ new.order = l
    BY <1>1, <2>1, FreeRecord
  <2>3. page' = [page EXCEPT ![h] = new]
    BY <1>4
  <2> HIDE DEF new
  <2> QED BY <1>3, <2>1, <2>2, <2>3
(* No block but those that are merged contains the merged block's head.    *)
<1>6. Gone \subseteq Heads /\ Buddies \subseteq FreeHeads
  BY <1>1, <1>2 DEF Heads
<1>7. h \in Heads => h \in Gone
  <2>1. PICK x \in Gone : h \in Block(x)
    BY <1>3
  <2> QED BY <2>1, <1>6, HeadFacts DEF IInv, Partition
<1>8. ASSUME NEW o \in Orders
      PROVE  /\ list'[o] \in Seq(Pages)
             /\ Distinct(list'[o])
             /\ ToSet(list'[o]) = (ToSet(list[o]) \ Buddies) \cup (IF o = l THEN {h} ELSE {})
  <2>1. list[o] \in Seq(Pages) /\ Distinct(list[o])
        /\ \A g \in ToSet(list[o]) : g \in FreeHeads /\ g \in Heads /\ page[g].order = o
    BY ListedFacts
  <2>2. CASE o \in f .. l - 1
    <3>1. list'[o] = RemoveFirst(list[o], MergeBuddy(i, o)) /\ o # l
      BY <2>2, <1>1, <1>4
    <3>2. ToSet(list[o]) \ {MergeBuddy(i, o)} = ToSet(list[o]) \ Buddies
      BY <2>1, <2>2, <1>2
    <3> QED BY <3>1, <3>2, <2>1, ListDel
  <2>3. CASE o \notin f .. l - 1
    <3>1. ToSet(list[o]) \cap Buddies = {}
      BY <2>1, <2>3, <1>2
    <3>2. CASE o = l
      <4>1. list'[o] = <<h>> \o list[o]
        BY <2>3, <3>2, <1>4
      <4>2. h \notin ToSet(list[o])
        BY <2>1, <3>1, <1>1, <1>7
      <4> QED BY <4>1, <4>2, <3>1, <3>2, <2>1, <1>3, ListAdd
    <3>3. CASE o # l
      BY <2>1, <2>3, <3>1, <3>3, <1>4
    <3> QED BY <3>2, <3>3
  <2> QED BY <2>2, <2>3
<1> HIDE DEF Buddies
<1>9. FreeHeads' = (FreeHeads \ Buddies) \cup {h}
  <2>1. FreeHeads' = UNION {ToSet(list'[o]) : o \in Orders}
    BY DEF FreeHeads, Orders
  <2>2. FreeHeads = UNION {ToSet(list[o]) : o \in Orders}
    BY DEF FreeHeads
  <2>3. \A x : x \in FreeHeads' <=> \E o \in Orders : x \in ToSet(list'[o])
    BY <2>1
  <2>4. \A x : x \in FreeHeads <=> \E o \in Orders : x \in ToSet(list[o])
    BY <2>2
  <2>5. \A x : \A o \in Orders :
          x \in ToSet(list'[o]) <=> (x \in ToSet(list[o]) /\ x \notin Buddies) \/ (o = l /\ x = h)
    BY <1>8
  <2>6. \A x : x \in FreeHeads' <=> (x \in FreeHeads /\ x \notin Buddies) \/ x = h
    BY <2>3, <2>4, <2>5, <1>1
  <2> QED BY <2>6
<1>10. /\ Heads' = (Heads \ Gone) \cup {h}
       /\ h \notin Owners' /\ FreeHeads' \cap Owners' = {}
       /\ h \notin Heads \ Gone
  BY <1>6, <1>7, <1>9 DEF Heads, IInv, Partition
<1>11. \A g \in Heads \ Gone : g \in Pages /\ g # h /\ page'[g] = page[g]
  BY <1>5, <1>7, HeadFacts
<1>12. ListsMatchRecords'
  <2> SUFFICES ASSUME NEW o \in Orders
               PROVE  /\ Distinct(list'[o])
                      /\ \A g \in ToSet(list'[o]) : page'[g].in_use = 0 /\ page'[g].order = o
    BY DEF ListsMatchRecords, Distinct, ToSet, Orders
  <2>1. ASSUME NEW g \in ToSet(list[o]) \ Buddies
        PROVE  page'[g].in_use = 0 /\ page'[g].order = o
    <3>1. g \in Heads \ Gone /\ page[g].in_use = 0 /\ page[g].order = o
      BY <1>1, ListedFacts
    <3> QED BY <3>1, <1>11
  <2> QED BY <2>1, <1>5, <1>8
<1>13. HeadsAligned'
  <2>1. ASSUME NEW g \in Heads \ Gone PROVE g % Pow2[page'[g].order] = 0
    BY <1>11 DEF IInv, HeadsAligned
  <2>2. h % Pow2[page'[h].order] = 0
    <3>1. l \in 0 .. MaxOrder + 1 /\ Pow2[l] \in Nat \ {0}
      BY <1>1, OrderTypes
    <3>2. h \in Nat /\ \E q \in Nat : h = q * Pow2[l]
      BY <1>1, <3>1, LowIndexFacts DEF h
    <3> QED BY <3>1, <3>2, <1>5, MultipleOf
  <2> QED BY <2>1, <2>2, <1>10 DEF HeadsAligned
<1>14. Partition'
  <2> DEFINE new == [x \in Heads' |-> Block(x)']
  <2>1. Tiling(Blocks, Pages) /\ DOMAIN Blocks = Heads /\ \A x \in Heads : Blocks[x] = Block(x)
    BY PartitionIsTiling DEF IInv, Blocks
  <2>2. \A x \in Heads \ Gone : new[x] = Blocks[x]
    BY <1>10, <1>11 DEF Blocks, Block
  <2>3. new[h] = UNION {Blocks[x] : x \in Gone}
    <3>1. new[h] = Run(h, l)
      BY <1>5, <1>10 DEF Block, Run
    <3> QED BY <3>1, <1>3, <1>6, <2>1
  <2> HIDE DEF Gone
  <2>4. DOMAIN new = (DOMAIN Blocks \ Gone) \cup {h}
    BY <1>10, <2>1
  <2> HIDE DEF new
  <2>5. Tiling(new, Pages)
    <3>1. Gone \subseteq DOMAIN Blocks /\ {h} \subseteq DOMAIN new
      BY <1>6, <2>1, <2>4
    <3>2. \A x \in DOMAIN Blocks \ Gone : x \notin {h} /\ new[x] = Blocks[x]
      BY <1>10, <2>1, <2>2
    <3>3. \A x \in {h} : \A p \in new[x] : \E y \in Gone : p \in Blocks[y]
      BY <2>3
    <3>4. \A y \in Gone : \A p \in Blocks[y] : \E x \in {h} : p \in new[x]
      BY <2>3
    <3>5. \A x, y \in {h} : x # y => new[x] \cap new[y] = {}
      OBVIOUS
    <3>6. Replaces(Blocks, new, Gone, {h})
      BY <2>4, <3>1, <3>2, <3>3, <3>4, <3>5 DEF Replaces
    <3> QED BY <2>1, <3>6, Retile
  <2>6. Blocks' = new /\ Pages' = Pages
    BY DEF Blocks, Pages, new
  <2>7. Tiling(Blocks', Pages')
    BY <2>5, <2>6
  <2>8. Tiling(Blocks, Pages)' /\ (FreeHeads \cap Owners = {})'
    BY <2>7, <1>10
  <2> QED BY <2>8, PartitionIsTiling, PTL
<1>15. list' \in [Orders -> Seq(Pages)]
  BY <1>4, <1>8
<1>16. \A g \in Owners' : page'[g] = page[g]
  <2>1. \A g \in Owners' : g \in Pages /\ g # h
    BY <1>10, HeadFacts DEF Heads
  <2> QED BY <2>1, <1>5
<1>17. \A g \in FreeHeads' \ {h} : page'[g] = page[g]
  <2>1. \A g \in FreeHeads' \ {h} : g \in Pages
    BY <1>9, HeadFacts DEF Heads
  <2> QED BY <2>1, <1>5
<1> QED BY <1>5, <1>9, <1>12, <1>13, <1>14, <1>15, <1>16, <1>17 DEF h, l

-----------------------------------------------------------------------------
(* Taking a block.                                                         *)

LEMMA SplitCovers ==
  ASSUME NEW i \in Nat, NEW t \in Orders, NEW o \in Orders, t <= o
  PROVE  Run(i, o) = Run(i, t) \cup UNION {Run(i + Pow2[k], k) : k \in t .. o - 1}
<1> DEFINE U(n) == Run(i, t) \cup UNION {Run(i + Pow2[k], k) : k \in t .. n - 1}
           Bad == {n \in t .. o : Run(i, n) # U(n)}
<1>0. Bad \subseteq Nat /\ t \in Nat /\ o \in Nat /\ t .. o \subseteq Orders
  BY OrderTypes DEF Orders
<1>1. SUFFICES ASSUME Bad # {} PROVE FALSE
  BY <1>0
<1>2. PICK m \in Bad : \A n \in Bad : m <= n
  BY <1>0, <1>1, NatLeast, Zenon
<1>3. Run(i, t) = U(t)
  BY <1>0
<1>4. m # t
  BY <1>2, <1>3
<1>5. m - 1 \in t .. o /\ m - 1 \notin Bad /\ m - 1 \in Orders /\ m \in Nat
  BY <1>0, <1>2, <1>4
<1>6. Run(i, m - 1) = U(m - 1)
  BY <1>5
<1>7. Run(i, m) = Run(i, m - 1) \cup Run(i + Pow2[m - 1], m - 1)
  <2>1. m - 1 + 1 = m /\ Pow2[m] = 2 * Pow2[m - 1] /\ Pow2[m - 1] \in Nat
    BY <1>5, OrderTypes
  <2> QED BY <1>5, <2>1 DEF Run
<1>8. t .. m - 1 = (t .. (m - 1) - 1) \cup {m - 1}
  BY <1>0, <1>5
<1>9. U(m) = U(m - 1) \cup Run(i + Pow2[m - 1], m - 1)
  BY <1>8
<1> QED BY <1>2, <1>6, <1>7, <1>9

(* The upper halves malloc cuts off a block it found.                      *)
LEMMA Cuts ==
  ASSUME IInv, NEW i \in FreeHeads, NEW t \in Orders, t <= page[i].order,
         NEW k \in t .. page[i].order - 1
  PROVE  /\ k \in Orders
         /\ i \in Nat /\ i + Pow2[k] \in Nat /\ Pow2[k] \in Nat \ {0}
         /\ GetHighIndex(i, k) = i + Pow2[k]
         /\ i + Pow2[k] \in Block(i)
         /\ i + Pow2[k] \in Pages
         /\ i + Pow2[k] < PageCount
         /\ i + Pow2[k] \notin Heads
         /\ (i + Pow2[k]) % Pow2[k] = 0
<1> DEFINE o == page[i].order
<1>1. i \in Heads /\ i \in Nat /\ i \in Block(i) /\ Block(i) = Run(i, o) /\ Block(i) \subseteq Pages
      /\ o \in Orders /\ i % Pow2[o] = 0
  BY HeadFacts DEF Heads, IInv, HeadsAligned
<1>2. k \in Orders /\ k < o /\ k \in 0 .. MaxOrder + 1 /\ o \in 0 .. MaxOrder + 1
      /\ Pow2[k] \in Nat \ {0} /\ Pow2[o] \in Nat \ {0}
  BY <1>1, OrderTypes DEF Orders
<1>3. GetHighIndex(i, k) = i + Pow2[k] /\ (i + Pow2[k]) % Pow2[k] = 0
  BY <1>1, <1>2, HighIndexOfAligned
<1>4. Pow2[k] < Pow2[o]
  BY <1>2, PowersGrow
<1>5. i + Pow2[k] \in Block(i)
  <2> HIDE DEF o
  <2> QED BY <1>1, <1>2, <1>4 DEF Run
<1>6. i + Pow2[k] \notin Heads
  BY <1>1, <1>2, <1>5, HeadFacts DEF IInv, Partition
<1>7. i + Pow2[k] \in Pages /\ i + Pow2[k] < PageCount
  BY <1>1, <1>5, ZoneAssumption DEF Pages
<1> QED BY <1>1, <1>2, <1>3, <1>5, <1>6, <1>7

LEMMA TakeStep ==
  ASSUME IInv, NEW size \in Nat, NEW cnt \in Nat, NEW target \in Orders, NEW order \in Orders,
         target <= order, list[order] # << >>,
         TakeBlock(size, cnt, target, order),
         Owners' = Owners \cup {Head(list[order])}
  PROVE  LET index == Head(list[order])
         IN /\ index \in FreeHeads /\ index \in Pages /\ index \notin Owners
            /\ page' \in [Pages -> PageRecord]
            /\ list' \in [Orders -> Seq(Pages)]
            /\ ListsMatchRecords' /\ Partition' /\ HeadsAligned'
            /\ page'[index].in_use = 1
            /\ \A g \in Owners : page'[g] = page[g]
            /\ index \in Nat /\ page[index].order = order
            /\ FreeHeads' = (FreeHeads \ {index}) \cup {index + Pow2[k] : k \in target .. order - 1}
            /\ \A k \in target .. order - 1 : page'[index + Pow2[k]].order = k
            /\ \A g \in FreeHeads \ {index} : page'[g] = page[g]
<1> DEFINE index == Head(list[order])
           C == target .. order - 1
           up(k) == index + Pow2[k]
           Uppers == {up(k) : k \in C}
<1>1. /\ index \in FreeHeads /\ index \in Heads /\ index \notin Owners
      /\ page[index].order = order
      /\ index \in Pages /\ index \in Nat
      /\ target \in Nat /\ order \in Nat
      /\ Block(index) = Run(index, order)
  <2>1. list[order] \in Seq(Pages)
    BY ListedFacts
  <2>2. index \in ToSet(list[order])
    BY <2>1, ListEmpty
  <2> QED BY <2>2, ListedFacts, HeadFacts, OrderTypes DEF IInv, Partition
<1>2. \A k \in C :
        /\ k \in Orders /\ k \in Nat /\ k # order
        /\ Pow2[k] \in Nat \ {0} /\ up(k) \in Nat /\ up(k) # index
        /\ GetHighIndex(index, k) = up(k)
        /\ up(k) \in Pages /\ up(k) < PageCount
        /\ up(k) \notin Heads /\ up(k) % Pow2[k] = 0
  <2> TAKE k \in C
  <2> HIDE DEF index
  <2>1. k \in target .. page[index].order - 1 /\ target <= page[index].order
    BY <1>1
  <2> QED BY <1>1, <2>1, Cuts
(* Different cuts make different blocks.                                   *)
<1>3. \A j, k \in C : j < k => up(j) + Pow2[j] <= up(k)
  <2> TAKE j, k \in C
  <2> HAVE j < k
  <2>1. j \in 0 .. MaxOrder + 1 /\ k \in 0 .. MaxOrder + 1
    BY <1>2, OrderTypes
  <2>2. 2 * Pow2[j] <= Pow2[k]
    BY <2>1, PowersGrow
  <2>3. Pow2[j] \in Nat /\ Pow2[k] \in Nat /\ index \in Nat
    BY <1>1, <1>2
  <2> HIDE DEF index, C
  <2> QED BY <2>2, <2>3
<1>4. \A j, k \in C : up(j) = up(k) => j = k
  <2> TAKE j, k \in C
  <2>1. up(j) \in Nat /\ up(k) \in Nat /\ Pow2[j] \in Nat \ {0} /\ Pow2[k] \in Nat \ {0}
        /\ j \in Nat /\ k \in Nat
    BY <1>2
  <2> HIDE DEF up, C
  <2>2. CASE j < k
    BY <1>3, <2>1, <2>2
  <2>3. CASE k < j
    BY <1>3, <2>1, <2>3
  <2> QED BY <2>1, <2>2, <2>3
<1>5. /\ page' \in [Pages -> PageRecord]
      /\ page'[index].in_use = 1 /\ page'[index].order = target
      /\ \A k \in C : page'[up(k)].in_use = 0 /\ page'[up(k)].order = k
      /\ \A p \in Pages : p # index /\ p \notin Uppers => page'[p] = page[p]
  <2> DEFINE Cut(p, o) == p = GetHighIndex(index, o) /\ p < PageCount
             cutAt(p) == CHOOSE o \in C : Cut(p, o)
             taken == [in_use |-> 1, order |-> target, cur_page_count |-> cnt, byte_size |-> size]
             split(p) == [page[p] EXCEPT !.in_use = 0, !.order = cutAt(p)]
  <2>1. page' = [p \in Pages |-> IF p = index THEN taken
                                 ELSE IF \E o \in C : Cut(p, o) THEN split(p)
                                 ELSE page[p]]
    BY Zenon DEF TakeBlock
  <2>2. \A p : \A o \in C : Cut(p, o) <=> p = up(o)
    BY <1>2
  <2>3. \A k \in C : cutAt(up(k)) = k
    <3> TAKE k \in C
    <3>1. \A o \in C : Cut(up(k), o) <=> o = k
      BY <2>2, <1>4
    <3> HIDE DEF Cut, up, C
    <3> QED BY <3>1
  <2>4. \A p \in Pages : page[p] \in PageRecord
    BY DEF IInv, TypeOK
  <2>5. taken \in PageRecord /\ taken.in_use = 1 /\ taken.order = target
    BY DEF PageRecord
  <2>6. \A k \in C : split(up(k)) \in PageRecord /\ split(up(k)).in_use = 0 /\ split(up(k)).order = k
    <3> TAKE k \in C
    <3>1. page[up(k)] \in PageRecord /\ k \in Orders
      BY <1>2, <2>4
    <3> DEFINE r == page[up(k)]
               t == [r EXCEPT !.in_use = 0, !.order = k]
    <3>2. split(up(k)) = t
      BY <2>3
    <3> HIDE DEF r
    <3>3. t \in PageRecord /\ t.in_use = 0 /\ t.order = k
      BY <3>1, FreeRecord DEF r
    <3> HIDE DEF split, t
    <3> QED BY <3>2, <3>3
  <2>7. \A p : (\E o \in C : Cut(p, o)) <=> p \in Uppers
    BY <2>2
  <2> HIDE DEF Cut, taken, split, C, up, Uppers
  <2>8. \A p \in Pages :
          page'[p] = IF p = index THEN taken ELSE IF p \in Uppers THEN split(p) ELSE page[p]
    BY <2>1, <2>7
  <2>9. \A k \in C : up(k) \in Pages /\ up(k) # index /\ up(k) \in Uppers
    BY <1>2 DEF Uppers
  <2>10. \A p \in Pages : page'[p] \in PageRecord
    <3> TAKE p \in Pages
    <3>1. CASE p \in Uppers
      <4>1. PICK k \in C : p = up(k)
        BY <3>1 DEF Uppers
      <4> QED BY <3>1, <4>1, <2>5, <2>6, <2>8
    <3>2. CASE p \notin Uppers
      BY <3>2, <2>4, <2>5, <2>8
    <3> QED BY <3>1, <3>2
  <2>11. page' = [p \in Pages |-> page'[p]]
    BY <2>1
  <2>12. page' \in [Pages -> PageRecord]
    BY <2>10, <2>11
  <2> QED BY <1>1, <2>5, <2>6, <2>8, <2>9, <2>12
<1>6. list' = [o \in Orders |->
                 IF o = order THEN Tail(list[o])
                 ELSE IF o \in C /\ GetHighIndex(index, o) < PageCount
                 THEN <<GetHighIndex(index, o)>> \o list[o]
                 ELSE list[o]]
  BY Zenon DEF TakeBlock
<1> HIDE DEF index
<1>7. ASSUME NEW o \in Orders
      PROVE  /\ list'[o] \in Seq(Pages)
             /\ Distinct(list'[o])
             /\ ToSet(list'[o]) = (ToSet(list[o]) \ {index}) \cup (IF o \in C THEN {up(o)} ELSE {})
  <2>1. list[o] \in Seq(Pages) /\ Distinct(list[o])
        /\ \A g \in ToSet(list[o]) : g \in FreeHeads /\ g \in Heads /\ page[g].order = o
    BY ListedFacts
  <2>2. CASE o = order
    <3>1. list'[o] = Tail(list[o]) /\ list[o] # << >> /\ index = Head(list[o]) /\ o \notin C
      BY <2>2, <1>1, <1>6 DEF index
    <3> QED BY <3>1, <2>1, ListTail
  <2>3. CASE o # order
    <3>1. index \notin ToSet(list[o])
      BY <2>1, <2>3, <1>1
    <3>2. CASE o \in C
      <4>1. list'[o] = <<up(o)>> \o list[o] /\ up(o) \in Pages /\ up(o) \notin ToSet(list[o])
        BY <2>1, <2>3, <3>2, <1>2, <1>6
      <4> HIDE DEF up, C
      <4> QED BY <4>1, <3>1, <3>2, <2>1, ListAdd
    <3>3. CASE o \notin C
      BY <2>1, <2>3, <3>1, <3>3, <1>6
    <3> QED BY <3>2, <3>3
  <2> QED BY <2>2, <2>3
<1> HIDE DEF C
<1>8. FreeHeads' = (FreeHeads \ {index}) \cup Uppers
  <2>1. \A x : x \in FreeHeads' <=> \E o \in Orders : x \in ToSet(list'[o])
    BY DEF FreeHeads, Orders
  <2>2. \A x : x \in FreeHeads <=> \E o \in Orders : x \in ToSet(list[o])
    BY DEF FreeHeads
  <2>3. \A x : x \in Uppers <=> \E o \in Orders : o \in C /\ x = up(o)
    BY <1>2
  <2> HIDE DEF up, Uppers
  <2>4. \A x : \A o \in Orders :
          x \in ToSet(list'[o]) <=> (x \in ToSet(list[o]) /\ x # index) \/ (o \in C /\ x = up(o))
    BY <1>7
  <2>5. \A x : x \in FreeHeads' <=> (x \in FreeHeads /\ x # index) \/ x \in Uppers
    BY <2>1, <2>2, <2>3, <2>4
  <2> QED BY <2>5
<1>9. \A x \in Uppers : x \notin Heads /\ x \in Pages /\ x # index
  BY <1>2
<1> HIDE DEF up
<1>10. /\ Heads' = Heads \cup Uppers
       /\ FreeHeads' \cap Owners' = {}
       /\ Owners' = Owners \cup {index}
  <2>1. Owners' = Owners \cup {index}
    BY DEF index
  <2>2. Heads' = Owners' \cup FreeHeads' /\ Heads = Owners \cup FreeHeads
    BY DEF Heads
  <2>3. FreeHeads \cap Owners = {}
    BY DEF IInv, Partition
  <2> HIDE DEF Uppers
  <2>4. Heads' = Heads \cup Uppers
    BY <1>1, <1>8, <2>1, <2>2
  <2>5. FreeHeads' \cap Owners' = {}
    BY <1>8, <1>9, <2>1, <2>2, <2>3
  <2> QED BY <2>1, <2>4, <2>5
<1>11. \A g \in Heads \ {index} : g \in Pages /\ g \notin Uppers /\ page'[g] = page[g]
  <2>1. \A g \in Heads : g \in Pages
    BY HeadFacts
  <2> HIDE DEF Uppers
  <2> QED BY <2>1, <1>5, <1>9
<1>12. ListsMatchRecords'
  <2> SUFFICES ASSUME NEW o \in Orders
               PROVE  /\ Distinct(list'[o])
                      /\ \A g \in ToSet(list'[o]) : page'[g].in_use = 0 /\ page'[g].order = o
    BY DEF ListsMatchRecords, Distinct, ToSet, Orders
  <2>1. ASSUME NEW g \in ToSet(list[o]) \ {index}
        PROVE  page'[g].in_use = 0 /\ page'[g].order = o
    <3>1. g \in Heads \ {index} /\ page[g].in_use = 0 /\ page[g].order = o
      BY ListedFacts
    <3> QED BY <3>1, <1>11
  <2>2. \A g \in ToSet(list'[o]) : g \in ToSet(list[o]) \ {index} \/ (o \in C /\ g = up(o))
    BY <1>7
  <2>3. o \in C => page'[up(o)].in_use = 0 /\ page'[up(o)].order = o
    BY <1>5
  <2>4. Distinct(list'[o])
    BY <1>7
  <2> QED BY <2>1, <2>2, <2>3, <2>4
<1>13. HeadsAligned'
  <2>1. ASSUME NEW g \in Heads \ {index} PROVE g % Pow2[page'[g].order] = 0
    BY <1>11 DEF IInv, HeadsAligned
  <2>2. index % Pow2[page'[index].order] = 0
    <3>1. index % Pow2[order] = 0 /\ page'[index].order = target
      BY <1>1, <1>5 DEF IInv, HeadsAligned
    <3>2. CASE target = order
      BY <3>1, <3>2
    <3>3. CASE target < order
      BY <3>1, <3>3, <1>1, HighIndexOfAligned
    <3> QED BY <3>2, <3>3, <1>1
  <2>3. \A g \in Uppers : g % Pow2[page'[g].order] = 0
    BY <1>2, <1>5
  <2> HIDE DEF Uppers
  <2> QED BY <2>1, <2>2, <2>3, <1>10 DEF HeadsAligned
<1>14. \A g \in Owners : page'[g] = page[g]
  <2> HIDE DEF Uppers
  <2> QED BY <1>1, <1>11 DEF Heads
<1>15. list' \in [Orders -> Seq(Pages)]
  BY <1>6, <1>7
(* The halves cut off and what is kept tile the block that was found.      *)
<1>16. Partition'
  <2> DEFINE new == [x \in Heads' |-> Block(x)']
             Kids == {index} \cup Uppers
  <2>1. Tiling(Blocks, Pages) /\ DOMAIN Blocks = Heads /\ Blocks[index] = Block(index)
    BY <1>1, PartitionIsTiling DEF IInv, Blocks
  <2>2. \A x \in Heads \ {index} : x \notin Kids /\ new[x] = Blocks[x]
    BY <1>10, <1>11 DEF Blocks, Block
  <2>3. new[index] = Run(index, target) /\ \A k \in C : new[up(k)] = Run(up(k), k)
    <3>1. \A x \in Heads' : new[x] = x .. x + Pow2[page'[x].order] - 1
      BY DEF Block
    <3>2. index \in Heads' /\ \A k \in C : up(k) \in Heads'
      BY <1>1, <1>10
    <3> HIDE DEF new
    <3> QED BY <1>5, <3>1, <3>2 DEF Run
  <2>4. DOMAIN new = (DOMAIN Blocks \ {index}) \cup Kids
    <3>1. DOMAIN new = Heads \cup Uppers
      BY <1>10
    <3> HIDE DEF new, Uppers
    <3> QED BY <1>1, <2>1, <3>1
  <2> HIDE DEF new
  <2>5. Blocks[index] = Run(index, target) \cup UNION {Run(up(k), k) : k \in C}
    <3>1. Run(index, order) = Run(index, target) \cup UNION {Run(index + Pow2[k], k) : k \in target .. order - 1}
      BY <1>1, SplitCovers
    <3> QED BY <1>1, <2>1, <3>1 DEF C, up
  <2>6. \A x \in Kids : \A p \in new[x] : p \in Blocks[index]
    BY <2>3, <2>5
  <2>7. \A p \in Blocks[index] : \E x \in Kids : p \in new[x]
    BY <2>3, <2>5
  <2>8. \A k \in C : new[index] \cap new[up(k)] = {}
    <3> TAKE k \in C
    <3>1. Pow2[target] <= Pow2[k] /\ Pow2[target] \in Nat /\ up(k) = index + Pow2[k] /\ Pow2[k] \in Nat
      <4>1. k \in 0 .. MaxOrder + 1 /\ target \in 0 .. MaxOrder + 1 /\ target <= k
        BY <1>2, OrderTypes DEF C
      <4> QED BY <4>1, PowersGrow, OrderTypes DEF up
    <3> QED BY <1>1, <2>3, <3>1, SMTT(30) DEF Run
  <2>9. \A j, k \in C : j < k => new[up(j)] \cap new[up(k)] = {}
    <3> TAKE j, k \in C
    <3> HAVE j < k
    <3>1. up(j) + Pow2[j] <= up(k) /\ up(j) \in Nat /\ up(k) \in Nat /\ Pow2[j] \in Nat /\ Pow2[k] \in Nat
      BY <1>2, <1>3
    <3>2. new[up(j)] = up(j) .. up(j) + Pow2[j] - 1 /\ new[up(k)] = up(k) .. up(k) + Pow2[k] - 1
      BY <2>3 DEF Run
    <3> QED BY <3>1, <3>2
  <2>10. \A x, y \in Kids : x # y => new[x] \cap new[y] = {}
    <3>1. ASSUME NEW j \in C, NEW k \in C, j # k PROVE new[up(j)] \cap new[up(k)] = {}
      <4>1. j < k \/ k < j
        BY <1>2, <3>1
      <4> QED BY <4>1, <2>9
    <3>2. \A x \in Kids : x = index \/ \E k \in C : x = up(k)
      OBVIOUS
    <3> HIDE DEF Kids
    <3> QED BY <2>8, <3>1, <3>2
  <2> HIDE DEF Kids
  <2>11. Tiling(new, Pages)
    <3> DEFINE Old == {index}
    <3>1. Old \subseteq DOMAIN Blocks /\ Kids \subseteq DOMAIN new
      BY <1>1, <2>1, <2>4
    <3>2. DOMAIN new = (DOMAIN Blocks \ Old) \cup Kids
      BY <2>4
    <3>3. \A x \in DOMAIN Blocks \ Old : x \notin Kids /\ new[x] = Blocks[x]
      BY <2>1, <2>2
    <3>4. \A x \in Kids : \A p \in new[x] : \E y \in Old : p \in Blocks[y]
      BY <2>6
    <3>5. \A y \in Old : \A p \in Blocks[y] : \E x \in Kids : p \in new[x]
      BY <2>7
    <3>6. Tiling(Blocks, Pages)
      BY <2>1
    <3> HIDE DEF Old, Uppers
    <3>7. Replaces(Blocks, new, Old, Kids)
      BY <2>10, <3>1, <3>2, <3>3, <3>4, <3>5 DEF Replaces
    <3> QED BY <3>6, <3>7, Retile
  <2>12. Blocks' = new /\ Pages' = Pages
    BY DEF Blocks, Pages, new
  <2>13. Tiling(Blocks', Pages')
    BY <2>11, <2>12
  <2>14. Tiling(Blocks, Pages)' /\ (FreeHeads \cap Owners = {})'
    BY <2>13, <1>10
  <2> QED BY <2>14, PartitionIsTiling, PTL
<1>17. \A g \in FreeHeads \ {index} : page'[g] = page[g]
  <2> HIDE DEF Uppers
  <2> QED BY <1>11 DEF Heads
<1>18. /\ FreeHeads' = (FreeHeads \ {index}) \cup {index + Pow2[k] : k \in target .. order - 1}
       /\ \A k \in target .. order - 1 : page'[index + Pow2[k]].order = k
  BY <1>5, <1>8 DEF up, C
<1> HIDE DEF Uppers
<1> QED BY <1>1, <1>5, <1>12, <1>13, <1>14, <1>15, <1>16, <1>17, <1>18 DEF index

-----------------------------------------------------------------------------
(* The invariant is inductive.                                             *)

LEMMA InitEstablishes == Init => IInv
<1> SUFFICES ASSUME Init PROVE IInv
  OBVIOUS
<1> USE DEF Init
<1>1. /\ Allocated = {} /\ Kept = Pages /\ Owners = Pages
      /\ \A o \in Orders : list[o] = << >> /\ DOMAIN list[o] = {} /\ ToSet(list[o]) = {}
      /\ 0 \in Orders
      /\ \A i \in Pages : page[i].in_use = 1 /\ page[i].order = 0 /\ i \in Nat
  BY OrderTypes, ZoneAssumption DEF Allocated, Kept, Owners, Pages, Orders, ToSet
<1>2. FreeHeads = {} /\ Heads = Pages
  BY <1>1 DEF FreeHeads, Heads
<1>3. \A i \in Pages : Block(i) = {i}
  BY <1>1, OrderAssumption DEF Block
<1>4. TypeOK
  <2>1. page \in [Pages -> PageRecord] /\ list \in [Orders -> Seq(Pages)]
    BY <1>1 DEF PageRecord
  <2>2. asked \in [Allocated -> [size : Sizes, align : Aligns \cup {1}]]
    <3>1. asked = [x \in {} |-> x]
      OBVIOUS
    <3> QED BY <3>1, <1>1
  <2>3. free_page_count \in Int /\ waste_page_count \in Int /\ boot \in 0 .. PageCount
    BY ZoneAssumption
  <2>4. halted \in BOOLEAN
    OBVIOUS
  <2>5. Allocated \subseteq Pages
    BY <1>1
  <2> QED BY <2>1, <2>2, <2>3, <2>4, <2>5, Zenon DEF TypeOK
<1>5. Partition
  BY <1>2, <1>3 DEF Partition
<1>6. ListsMatchRecords
  BY <1>1 DEF ListsMatchRecords
<1>7. HeadsAligned
  BY <1>1, <1>2, OrderAssumption DEF HeadsAligned
<1>8. OwnersInUse
  BY <1>1 DEF OwnersInUse
<1> QED BY <1>4, <1>5, <1>6, <1>7, <1>8 DEF IInv

(* A step that leaves the zone and its owners alone.                       *)
LEMMA ZoneUnchanged ==
  ASSUME IInv, UNCHANGED <<page, list>>, Owners' = Owners
  PROVE  Partition' /\ ListsMatchRecords' /\ HeadsAligned'
BY DEF IInv, Partition, ListsMatchRecords, HeadsAligned, Heads, FreeHeads, Block, Pages, Orders

LEMMA Stutters ==
  IInv /\ UNCHANGED <<page, list, free_page_count, waste_page_count, boot, asked>>
       /\ halted' \in BOOLEAN => IInv'
<1> SUFFICES ASSUME IInv, halted' \in BOOLEAN,
                    UNCHANGED <<page, list, free_page_count, waste_page_count, boot, asked>>
             PROVE  IInv'
  OBVIOUS
<1>1. Allocated' = Allocated /\ Kept' = Kept /\ Owners' = Owners
  BY DEF Allocated, Kept, Owners, Pages
<1>2. Partition' /\ ListsMatchRecords' /\ HeadsAligned'
  BY <1>1, ZoneUnchanged
<1>3. TypeOK'
  BY <1>1 DEF IInv, TypeOK, Pages, Orders, PageRecord
<1>4. OwnersInUse'
  BY <1>1 DEF IInv, OwnersInUse
<1> QED BY <1>2, <1>3, <1>4 DEF IInv

LEMMA CountTypes ==
  ASSUME IInv, NEW i \in Owners, ReleaseBlock(i)
  PROVE  free_page_count' \in Int /\ waste_page_count' \in Int
<1>1. page[i] \in PageRecord /\ Pow2[page[i].order] \in Nat
  BY HeadFacts, OrderTypes DEF Heads, IInv, TypeOK
<1>2. page[i].cur_page_count \in Nat
  BY <1>1 DEF PageRecord
<1> QED BY <1>1, <1>2 DEF ReleaseBlock, ReleaseCounts, IInv, TypeOK

LEMMA BootFreePreserves == IInv /\ BootFree => IInv'
<1> SUFFICES ASSUME IInv, BootFree PROVE IInv'
  OBVIOUS
<1>1. /\ boot \in Pages /\ boot \in Nat /\ boot' = boot + 1 /\ boot' \in 0 .. PageCount
      /\ Allocated = {} /\ Allocated' = {} /\ asked' = asked /\ halted' = halted
  BY ZoneAssumption DEF BootFree, IInv, TypeOK, OwnersInUse, Allocated, Pages
<1>2. Kept' = IF boot \in Usable THEN Kept \ {boot} ELSE Kept
  BY <1>1, ZoneAssumption DEF Kept, Pages
<1>3. Owners = Kept /\ Owners' = Kept'
  BY <1>1 DEF Owners
<1>4. CASE boot \in Usable
  <2>1. boot \in Owners /\ ReleaseBlock(boot) /\ Owners' = Owners \ {boot}
    BY <1>1, <1>2, <1>3, <1>4 DEF Kept, BootFree
  <2>2. /\ page' \in [Pages -> PageRecord]
        /\ list' \in [Orders -> Seq(Pages)]
        /\ ListsMatchRecords' /\ Partition' /\ HeadsAligned'
        /\ \A g \in Owners' : page'[g] = page[g]
    BY <2>1, ReleaseStep
  <2>3. free_page_count' \in Int /\ waste_page_count' \in Int
    BY <2>1, CountTypes
  <2>4. TypeOK'
    BY <1>1, <2>2, <2>3 DEF IInv, TypeOK, Pages, Orders, Allocated, PageRecord
  <2>5. OwnersInUse'
    BY <1>1, <1>2, <1>3, <1>4, <2>2 DEF IInv, OwnersInUse
  <2> QED BY <2>2, <2>4, <2>5 DEF IInv
<1>5. CASE boot \notin Usable
  <2>1. UNCHANGED <<page, list, free_page_count, waste_page_count>> /\ Owners' = Owners
    BY <1>2, <1>3, <1>5 DEF BootFree
  <2>2. TypeOK'
    BY <1>1, <2>1 DEF IInv, TypeOK, Pages, Orders, Allocated, PageRecord
  <2>3. OwnersInUse'
    BY <1>1, <1>2, <1>3, <1>5, <2>1 DEF IInv, OwnersInUse
  <2> QED BY <2>1, <2>2, <2>3, ZoneUnchanged DEF IInv
<1> QED BY <1>4, <1>5

LEMMA FreePreserves == ASSUME NEW i \in Pages PROVE IInv /\ Free(i) => IInv'
<1> SUFFICES ASSUME IInv, Free(i) PROVE IInv'
  OBVIOUS
<1>1. /\ boot = PageCount /\ boot' = boot /\ halted' = halted
      /\ i \in Allocated /\ Allocated' = Allocated \ {i}
      /\ asked' = [j \in Allocated \ {i} |-> asked[j]]
      /\ ReleaseBlock(i)
  BY DEF Free, Running, Allocated
<1>2. Kept' = Kept
  BY <1>1 DEF Kept, Pages
<1>3. i \in Owners /\ Owners' = Owners \ {i}
  BY <1>1, <1>2 DEF Owners, IInv, OwnersInUse
<1>4. /\ page' \in [Pages -> PageRecord]
      /\ list' \in [Orders -> Seq(Pages)]
      /\ ListsMatchRecords' /\ Partition' /\ HeadsAligned'
      /\ \A g \in Owners' : page'[g] = page[g]
  BY <1>1, <1>3, ReleaseStep
<1>5. free_page_count' \in Int /\ waste_page_count' \in Int
  BY <1>1, <1>3, CountTypes
<1>6. TypeOK'
  <2>1. asked' \in [Allocated' -> [size : Sizes, align : Aligns \cup {1}]]
    BY <1>1 DEF IInv, TypeOK
  <2> QED BY <1>1, <1>4, <1>5, <2>1 DEF IInv, TypeOK, Pages, Orders, PageRecord
<1>7. OwnersInUse'
  BY <1>1, <1>2, <1>3, <1>4, ZoneAssumption DEF IInv, OwnersInUse, Owners
<1> QED BY <1>4, <1>6, <1>7 DEF IInv

(* What malloc finds: the least order that fits, and the least order that  *)
(* fits and has a free block.                                              *)
LEMMA SearchFinds ==
  ASSUME NEW cnt \in Nat, Candidates(cnt) # {}
  PROVE  /\ Min(Fitting(cnt)) \in Orders
         /\ Min(Candidates(cnt)) \in Orders
         /\ list[Min(Candidates(cnt))] # << >>
         /\ Min(Fitting(cnt)) <= Min(Candidates(cnt))
         /\ Pow2[Min(Fitting(cnt))] >= cnt
<1>1. Candidates(cnt) \subseteq Fitting(cnt) /\ Fitting(cnt) \subseteq Orders /\ Orders \subseteq Nat
  BY OrderTypes DEF Candidates, Fitting
<1>2. Min(Candidates(cnt)) \in Candidates(cnt)
  BY <1>1, MinIsLeast
<1>3. Min(Fitting(cnt)) \in Fitting(cnt) /\ \A k \in Fitting(cnt) : Min(Fitting(cnt)) <= k
  BY <1>1, MinIsLeast
<1>4. \A o \in Candidates(cnt) : list[o] # << >>
  BY DEF Candidates
<1>5. \A o \in Fitting(cnt) : Pow2[o] >= cnt
  BY DEF Fitting
<1> QED BY <1>1, <1>2, <1>3, <1>4, <1>5

LEMMA AllocatePreserves ==
  ASSUME IInv, Running, NEW bytes \in Nat, NEW size \in Sizes, NEW align \in Aligns \cup {1},
         AllocateBytes(bytes, size, align)
  PROVE  IInv'
<1> DEFINE cnt == DivRoundUp(bytes, PageSize)
           target == Min(Fitting(cnt))
           order == Min(Candidates(cnt))
           index == Head(list[order])
<1>1. cnt \in Nat
  <2>1. PageSize \in Nat \ {0} /\ bytes + PageSize - 1 \in Nat
    BY ZoneAssumption
  <2> QED BY <2>1, DivBounds DEF DivRoundUp
<1>2. CASE Candidates(cnt) = {}
  <2>1. UNCHANGED vars
    BY <1>2 DEF AllocateBytes
  <2> QED BY <2>1, Stutters DEF vars, IInv, TypeOK
<1>3. CASE Candidates(cnt) # {}
  <2>1. /\ TakeBlock(bytes, cnt, target, order)
        /\ Allocated' = Allocated \cup {index}
        /\ asked' = [i \in Allocated \cup {index} |->
                       IF i = index THEN [size |-> size, align |-> align] ELSE asked[i]]
        /\ boot' = boot /\ halted' = halted
    BY <1>3, Zenon DEF AllocateBytes, Allocated
  <2>2. /\ target \in Orders /\ order \in Orders /\ list[order] # << >> /\ target <= order
    BY <1>1, <1>3, SearchFinds
  <2>3. Kept' = Kept /\ boot = PageCount
    BY <2>1 DEF Kept, Pages, Running
  <2>4. Owners' = Owners \cup {index}
    BY <2>1, <2>3 DEF Owners
  <2> HIDE DEF target, order, cnt
  <2>5. /\ index \in FreeHeads /\ index \in Pages /\ index \notin Owners
        /\ page' \in [Pages -> PageRecord]
        /\ list' \in [Orders -> Seq(Pages)]
        /\ ListsMatchRecords' /\ Partition' /\ HeadsAligned'
        /\ page'[index].in_use = 1
        /\ \A g \in Owners : page'[g] = page[g]
    BY <1>1, <2>1, <2>2, <2>4, TakeStep
  <2>6. free_page_count' \in Int /\ waste_page_count' \in Int
    <3>1. Pow2[target] \in Nat
      BY <2>2, OrderTypes
    <3>2. /\ free_page_count' = free_page_count - Pow2[target]
          /\ waste_page_count' = waste_page_count + (Pow2[target] - cnt)
      BY <2>1, Zenon DEF TakeBlock, TakeCounts
    <3>3. free_page_count \in Int /\ waste_page_count \in Int
      BY DEF IInv, TypeOK
    <3> QED BY <1>1, <3>1, <3>2, <3>3
  <2> HIDE DEF index
  <2>7. TypeOK'
    <3>1. asked' \in [Allocated' -> [size : Sizes, align : Aligns \cup {1}]]
      BY <2>1 DEF IInv, TypeOK
    <3>2. Allocated' \subseteq Pages
      BY <2>1, <2>5 DEF IInv, TypeOK
    <3> QED BY <2>1, <2>5, <2>6, <3>1, <3>2 DEF IInv, TypeOK, Pages, Orders, PageRecord
  <2>8. OwnersInUse'
    BY <2>1, <2>3, <2>4, <2>5, ZoneAssumption DEF IInv, OwnersInUse, Owners
  <2> QED BY <2>5, <2>7, <2>8 DEF IInv
<1> QED BY <1>2, <1>3

LEMMA NextPreserves == IInv /\ [Next]_vars => IInv'
<1> SUFFICES ASSUME IInv, [Next]_vars PROVE IInv'
  OBVIOUS
<1>1. CASE BootFree
  BY <1>1, BootFreePreserves
<1>2. ASSUME NEW size \in Sizes, Malloc(size) PROVE IInv'
  <2>1. size \in Nat
    BY ZoneAssumption
  <2> QED BY <1>2, <2>1, AllocatePreserves DEF Malloc
<1>3. ASSUME NEW size \in Sizes, NEW align \in Aligns, AlignedMalloc(size, align) PROVE IInv'
  <2>1. size \in Nat /\ align \in Nat
    BY ZoneAssumption
  <2>2. CASE AlignOK(align)
    <3> DEFINE bytes == IF align > size THEN align ELSE size
    <3>1. bytes \in Nat /\ Running /\ AllocateBytes(bytes, size, align)
      BY <1>3, <2>1, <2>2 DEF AlignedMalloc
    <3> HIDE DEF bytes
    <3> QED BY <3>1, AllocatePreserves
  <2>3. CASE ~AlignOK(align)
    BY <1>3, <2>3, Stutters DEF AlignedMalloc
  <2> QED BY <2>2, <2>3
<1>4. ASSUME NEW i \in Pages, Free(i) PROVE IInv'
  BY <1>4, FreePreserves
<1>5. CASE Stopped \/ UNCHANGED vars
  BY <1>5, Stutters DEF Stopped, vars, IInv, TypeOK
<1> QED BY <1>1, <1>2, <1>3, <1>4, <1>5 DEF Next

(* The boot loop, every malloc and every free keep the heads a partition   *)
(* of the zone into naturally aligned blocks whose records and lists agree *)
(* and whose owners are marked in use, for every zone and every Usable.    *)
THEOREM BuddyInvariant == Spec => []IInv
BY InitEstablishes, NextPreserves, PTL DEF Spec

(* Types, for every zone: in particular every list links heads of the zone *)
(* only, and the records of the zone stay records.                         *)
THEOREM BuddyTypes == Spec => []TypeOK
<1>1. IInv => TypeOK
  BY DEF IInv
<1> QED BY <1>1, BuddyInvariant, PTL

(* No page is handed out twice, is both free and owned, or is lost, in any *)
(* sequence of mallocs and frees on a zone of any size (the self-test      *)
(* pmm_selftest looks for "double alloc" in one such sequence).            *)
THEOREM BuddyPartitions == Spec => []Partition
<1>1. IInv => Partition
  BY DEF IInv
<1> QED BY <1>1, BuddyInvariant, PTL

(* The lists and the records, which malloc and free update separately,     *)
(* always agree on what is free.                                           *)
THEOREM BuddyListsMatch == Spec => []ListsMatchRecords
<1>1. IInv => ListsMatchRecords
  BY DEF IInv
<1> QED BY <1>1, BuddyInvariant, PTL

(* Every block, free or owned, starts at a multiple of its size, so the    *)
(* buddy found by flipping one bit of the index is the other half of the   *)
(* block the two were split from, and malloc's addresses are aligned.      *)
THEOREM BuddyHeadsAligned == Spec => []HeadsAligned
<1>1. IInv => HeadsAligned
  BY DEF IInv
<1> QED BY <1>1, BuddyInvariant, PTL

(* An owner's block is marked in use until its owner frees it, whatever is *)
(* split or merged around it, so free's assertion on it cannot fire.       *)
THEOREM BuddyOwnersInUse == Spec => []OwnersInUse
<1>1. IInv => OwnersInUse
  BY DEF IInv
<1> QED BY <1>1, BuddyInvariant, PTL

-----------------------------------------------------------------------------
(* Every step releases one owner's block, takes one block for a new owner, *)
(* or leaves the zone alone.                                               *)

(* Block i is given back: by its owner, or by the boot loop.               *)
Releases(i) ==
  /\ i \in Owners
  /\ ReleaseBlock(i)
  /\ Owners' = Owners \ {i}
  /\ \A g \in Owners' : page'[g] = page[g]

(* The block of order o at the head of its list is cut down to order t and *)
(* given, at i, to a caller that needs bytes.                              *)
Takes(i, t, o, bytes, size, align) ==
  LET cnt == DivRoundUp(bytes, PageSize) IN
  /\ t \in Orders /\ o \in Orders /\ t <= o /\ cnt <= Pow2[t]
  /\ list[o] # << >> /\ i = Head(list[o]) /\ i \in Pages /\ i \notin Owners
  /\ TakeBlock(bytes, cnt, t, o)
  /\ page'[i] = [in_use |-> 1, order |-> t, cur_page_count |-> cnt, byte_size |-> bytes]
  /\ \A g \in Owners : page'[g] = page[g]
  /\ Owners' = Owners \cup {i} /\ Allocated' = Allocated \cup {i}
  /\ boot = PageCount /\ boot' = boot
  /\ asked' = [j \in Allocated' |-> IF j = i THEN [size |-> size, align |-> align] ELSE asked[j]]

(* What a caller asked for, and the bytes malloc is called with.           *)
Asks(bytes, size, align) ==
  /\ bytes \in Nat
  /\ size \in Sizes
  /\ \/ align = 1 /\ bytes = size
     \/ align \in Aligns /\ AlignOK(align) /\ bytes = IF align > size THEN align ELSE size

StepOf ==
  \/ \E i \in Pages : /\ Releases(i) /\ Free(i) /\ boot = PageCount /\ boot' = boot
                      /\ i \in Allocated /\ Allocated' = Allocated \ {i}
                      /\ asked' = [j \in Allocated' |-> asked[j]]
  \/ /\ Releases(boot) /\ boot \in Usable /\ boot' = boot + 1 /\ boot \in Pages
     /\ boot \in Kept /\ Allocated = {} /\ asked' = asked
  \/ \E bytes \in Nat, size \in Sizes, align \in Aligns \cup {1}, i \in Pages, t, o \in Orders :
       Asks(bytes, size, align) /\ Takes(i, t, o, bytes, size, align)
  \/ /\ UNCHANGED <<page, list, free_page_count, waste_page_count, asked>>
     /\ Owners' = Owners /\ Allocated' = Allocated
     /\ \/ boot' = boot
        \/ boot' = boot + 1 /\ boot \in Pages /\ boot \notin Usable /\ Allocated = {}

LEMMA RoundedUp ==
  ASSUME NEW bytes \in Nat
  PROVE  /\ DivRoundUp(bytes, PageSize) \in Nat
         /\ bytes <= PageSize * DivRoundUp(bytes, PageSize)
<1> DEFINE n == bytes + PageSize - 1
           q == n \div PageSize
<1>1. PageSize \in Nat \ {0} /\ n \in Nat
  BY ZoneAssumption
<1>2. q \in Nat /\ q * PageSize <= n /\ n < q * PageSize + PageSize
  BY <1>1, DivBounds
<1> HIDE DEF q
<1>3. bytes <= PageSize * q
  BY <1>1, <1>2
<1> QED BY <1>2, <1>3 DEF DivRoundUp, q

(* A malloc that finds a block takes it.                                   *)
LEMMA AllocateTakes ==
  ASSUME IInv, Running, NEW bytes \in Nat, NEW size, NEW align,
         Candidates(DivRoundUp(bytes, PageSize)) # {}, AllocateBytes(bytes, size, align)
  PROVE  \E i \in Pages, t \in Orders, o \in Orders :
           /\ i = Head(list[Min(Candidates(DivRoundUp(bytes, PageSize)))])
           /\ Takes(i, t, o, bytes, size, align)
<1> DEFINE cnt == DivRoundUp(bytes, PageSize)
           target == Min(Fitting(cnt))
           order == Min(Candidates(cnt))
           index == Head(list[order])
<1>1. cnt \in Nat
  BY RoundedUp
<1>2. /\ TakeBlock(bytes, cnt, target, order)
      /\ Allocated' = Allocated \cup {index}
      /\ asked' = [i \in Allocated \cup {index} |->
                     IF i = index THEN [size |-> size, align |-> align] ELSE asked[i]]
      /\ boot' = boot
  BY Zenon DEF AllocateBytes, Allocated
<1>3. /\ target \in Orders /\ order \in Orders /\ list[order] # << >> /\ target <= order
      /\ cnt <= Pow2[target]
  BY <1>1, SearchFinds, OrderTypes
<1>4. Kept' = Kept /\ boot = PageCount
  BY <1>2 DEF Kept, Pages, Running
<1>5. Owners' = Owners \cup {index}
  BY <1>2, <1>4 DEF Owners
<1>6. index \in Pages /\ index \notin Owners /\ \A g \in Owners : page'[g] = page[g]
  <2> HIDE DEF cnt, target, order
  <2> QED BY <1>1, <1>2, <1>3, <1>5, TakeStep
<1>7. page'[index] = [in_use |-> 1, order |-> target, cur_page_count |-> cnt, byte_size |-> bytes]
  BY <1>2, <1>6, Zenon DEF TakeBlock
<1>8. PICK i \in Pages, t \in Orders, o \in Orders : i = index /\ t = target /\ o = order
  BY <1>3, <1>6
<1>9. Takes(i, t, o, bytes, size, align)
  <2> HIDE DEF cnt, target, order
  <2>1. /\ t <= o /\ cnt <= Pow2[t] /\ list[o] # << >> /\ i = Head(list[o]) /\ i \notin Owners
        /\ TakeBlock(bytes, cnt, t, o)
        /\ page'[i] = [in_use |-> 1, order |-> t, cur_page_count |-> cnt, byte_size |-> bytes]
        /\ Owners' = Owners \cup {i} /\ Allocated' = Allocated \cup {i}
    BY <1>2, <1>3, <1>5, <1>6, <1>7, <1>8
  <2>2. asked' = [j \in Allocated' |-> IF j = i THEN [size |-> size, align |-> align] ELSE asked[j]]
    BY <1>2, <1>8
  <2> QED BY <1>2, <1>4, <1>6, <2>1, <2>2 DEF Takes, cnt
<1> QED BY <1>8, <1>9

LEMMA AllocateKinds ==
  ASSUME IInv, Running, NEW bytes \in Nat, NEW size \in Sizes, NEW align \in Aligns \cup {1},
         Asks(bytes, size, align), AllocateBytes(bytes, size, align)
  PROVE  StepOf
<1>1. CASE Candidates(DivRoundUp(bytes, PageSize)) = {}
  <2>1. UNCHANGED vars
    BY <1>1 DEF AllocateBytes
  <2> QED BY <2>1 DEF StepOf, vars, Owners, Allocated, Kept, Pages
<1>2. CASE Candidates(DivRoundUp(bytes, PageSize)) # {}
  BY <1>2, AllocateTakes DEF StepOf
<1> QED BY <1>1, <1>2

LEMMA StepKinds == IInv /\ [Next]_vars => StepOf
<1> SUFFICES ASSUME IInv, [Next]_vars PROVE StepOf
  OBVIOUS
<1>1. CASE BootFree
  <2>1. /\ boot \in Pages /\ boot \in Nat /\ boot' = boot + 1
        /\ Allocated = {} /\ Allocated' = {} /\ asked' = asked
    BY <1>1, ZoneAssumption DEF BootFree, IInv, TypeOK, OwnersInUse, Allocated, Pages
  <2>2. Kept' = IF boot \in Usable THEN Kept \ {boot} ELSE Kept
    BY <2>1, ZoneAssumption DEF Kept, Pages
  <2>3. Owners = Kept /\ Owners' = Kept'
    BY <2>1 DEF Owners
  <2>4. CASE boot \in Usable
    <3>1. boot \in Owners /\ boot \in Kept /\ ReleaseBlock(boot) /\ Owners' = Owners \ {boot}
      BY <1>1, <2>1, <2>2, <2>3, <2>4 DEF Kept, BootFree
    <3>2. \A g \in Owners' : page'[g] = page[g]
      BY <3>1, ReleaseStep
    <3> QED BY <2>1, <2>4, <3>1, <3>2 DEF StepOf, Releases
  <2>5. CASE boot \notin Usable
    BY <1>1, <2>1, <2>2, <2>3, <2>5 DEF StepOf, BootFree
  <2> QED BY <2>4, <2>5
<1>2. ASSUME NEW size \in Sizes, Malloc(size) PROVE StepOf
  <2>1. size \in Nat /\ Asks(size, size, 1)
    BY ZoneAssumption DEF Asks
  <2> QED BY <1>2, <2>1, AllocateKinds DEF Malloc
<1>3. ASSUME NEW size \in Sizes, NEW align \in Aligns, AlignedMalloc(size, align) PROVE StepOf
  <2>1. CASE AlignOK(align)
    <3> DEFINE bytes == IF align > size THEN align ELSE size
    <3>1. bytes \in Nat /\ Running /\ AllocateBytes(bytes, size, align) /\ Asks(bytes, size, align)
      BY <1>3, <2>1, ZoneAssumption DEF AlignedMalloc, Asks
    <3> HIDE DEF bytes
    <3> QED BY <3>1, AllocateKinds
  <2>2. CASE ~AlignOK(align)
    BY <1>3, <2>2 DEF AlignedMalloc, StepOf, Owners, Allocated, Kept, Pages
  <2> QED BY <2>1, <2>2
<1>4. ASSUME NEW i \in Pages, Free(i) PROVE StepOf
  <2>1. /\ boot = PageCount /\ boot' = boot
        /\ i \in Allocated /\ Allocated' = Allocated \ {i}
        /\ asked' = [j \in Allocated \ {i} |-> asked[j]]
        /\ ReleaseBlock(i)
    BY <1>4 DEF Free, Running, Allocated
  <2>2. Kept' = Kept
    BY <2>1 DEF Kept, Pages
  <2>3. i \in Owners /\ Owners' = Owners \ {i}
    BY <2>1, <2>2 DEF Owners, IInv, OwnersInUse
  <2>4. Releases(i)
    BY <2>1, <2>3, ReleaseStep DEF Releases
  <2> QED BY <1>4, <2>1, <2>4 DEF StepOf
<1>5. CASE Stopped \/ UNCHANGED vars
  BY <1>5 DEF Stopped, vars, StepOf, Owners, Allocated, Kept, Pages
<1> QED BY <1>1, <1>2, <1>3, <1>4, <1>5 DEF Next

-----------------------------------------------------------------------------
(* The free pages are those in no owner's block.                           *)

OwnedPages == UNION {Block(i) : i \in Owners}

FreeNotOwned == FreePages = Pages \ OwnedPages /\ OwnedPages \subseteq Pages
BlocksApart == \A i, j \in Heads : i # j => Block(i) \cap Block(j) = {}

LEMMA FreeIsNotOwned == IInv => FreeNotOwned
<1> SUFFICES ASSUME IInv PROVE FreePages = Pages \ OwnedPages /\ OwnedPages \subseteq Pages
  BY DEF FreeNotOwned
<1>1. ASSUME NEW p \in FreePages PROVE p \in Pages /\ p \notin OwnedPages
  BY DEF FreePages, OwnedPages, IInv, Partition, Heads
<1>2. ASSUME NEW p \in Pages, p \notin OwnedPages PROVE p \in FreePages
  BY <1>2 DEF FreePages, OwnedPages, IInv, Partition, Heads
<1>3. OwnedPages \subseteq Pages
  BY DEF OwnedPages, IInv, Partition, Heads
<1> QED BY <1>1, <1>2, <1>3

LEMMA BlocksDisjoint == IInv => BlocksApart
BY DEF IInv, Partition, BlocksApart

LEMMA PagesFinite == IsFiniteSet(Pages) /\ Cardinality(Pages) = PageCount
BY FS_Interval, ZoneAssumption DEF Pages

(* A block has as many pages as its order says.                            *)
LEMMA BlockCount ==
  IInv => \A i \in Heads : /\ IsFiniteSet(Block(i))
                           /\ Cardinality(Block(i)) = Pow2[page[i].order]
<1> SUFFICES ASSUME IInv, NEW i \in Heads
             PROVE  IsFiniteSet(Block(i)) /\ Cardinality(Block(i)) = Pow2[page[i].order]
  OBVIOUS
<1>1. i \in Nat /\ Pow2[page[i].order] \in Nat \ {0}
  BY HeadFacts, OrderTypes
<1> DEFINE b == i + Pow2[page[i].order] - 1
<1>2. b \in Int /\ ~(i > b) /\ b - i + 1 = Pow2[page[i].order]
  BY <1>1
<1>3. Block(i) = i .. b
  BY DEF Block
<1> HIDE DEF b
<1> QED BY <1>1, <1>2, <1>3, FS_Interval

(* What giving a block back and taking one do to the free pages.           *)
LEMMA ReleaseFrees ==
  ASSUME IInv, IInv', NEW i, Releases(i)
  PROVE  /\ OwnedPages' = OwnedPages \ Block(i)
         /\ FreePages' = FreePages \cup Block(i)
         /\ FreePages \cap Block(i) = {}
         /\ Block(i) \subseteq Pages
<1>1. i \in Owners /\ i \in Heads /\ Owners' = Owners \ {i} /\ Owners \subseteq Heads
  BY DEF Releases, Heads
<1>2. \A g \in Owners' : Block(g)' = Block(g)
  BY DEF Releases, Block
<1>3. OwnedPages' = UNION {Block(g) : g \in Owners \ {i}}
  <2>1. OwnedPages' = UNION {Block(g)' : g \in Owners'}
    BY DEF OwnedPages
  <2> QED BY <1>1, <1>2, <2>1
<1>4. \A g \in Owners \ {i} : Block(g) \cap Block(i) = {}
  BY <1>1, BlocksDisjoint DEF BlocksApart
<1>5. OwnedPages' = OwnedPages \ Block(i)
  BY <1>1, <1>3, <1>4 DEF OwnedPages
<1>6. FreePages' = Pages \ OwnedPages'
  <2>1. FreeNotOwned'
    BY FreeIsNotOwned, PTL
  <2> QED BY <2>1 DEF FreeNotOwned, Pages
<1>7. FreePages = Pages \ OwnedPages /\ Block(i) \subseteq OwnedPages /\ OwnedPages \subseteq Pages
  BY <1>1, FreeIsNotOwned DEF OwnedPages, FreeNotOwned
<1> QED BY <1>5, <1>6, <1>7

LEMMA TakeUsesFree ==
  ASSUME IInv, IInv', NEW i, i \notin Owners, Owners' = Owners \cup {i},
         \A g \in Owners : page'[g] = page[g]
  PROVE  /\ OwnedPages' = OwnedPages \cup Block(i)'
         /\ FreePages' = FreePages \ Block(i)'
         /\ Block(i)' \subseteq FreePages
<1>1. \A g \in Owners : Block(g)' = Block(g)
  BY DEF Block
<1>2. OwnedPages' = UNION {Block(g)' : g \in Owners'}
  BY DEF OwnedPages
<1>3. OwnedPages' = OwnedPages \cup Block(i)'
  BY <1>1, <1>2 DEF OwnedPages
<1>4. FreePages' = Pages \ OwnedPages' /\ OwnedPages' \subseteq Pages
  <2>1. FreeNotOwned'
    BY FreeIsNotOwned, PTL
  <2> QED BY <2>1 DEF FreeNotOwned, Pages
<1>5. FreePages = Pages \ OwnedPages
  BY FreeIsNotOwned DEF FreeNotOwned
<1>6. \A g \in Owners : Block(g)' \cap Block(i)' = {}
  <2>1. BlocksApart'
    BY BlocksDisjoint, PTL
  <2>2. i \in Heads' /\ Owners \subseteq Heads'
    BY DEF Heads
  <2> QED BY <2>1, <2>2 DEF BlocksApart
<1>7. Block(i)' \cap OwnedPages = {}
  BY <1>1, <1>6 DEF OwnedPages
<1> QED BY <1>3, <1>4, <1>5, <1>7

-----------------------------------------------------------------------------
(* The counts.                                                             *)

(* The waste of every owner's block; the pages the boot still keeps waste  *)
(* nothing.                                                                *)
OwnedWaste == UNION {Wasted(i) : i \in Owners}

(* What makes CountsExact inductive: malloc never records more pages than  *)
(* the block it gives has, and the constructor's single pages waste none.  *)
Counts ==
  /\ free_page_count = Cardinality(FreePages)
  /\ waste_page_count = Cardinality(OwnedWaste)
  /\ \A i \in Owners : page[i].cur_page_count \in 0 .. Pow2[page[i].order]
  /\ \A i \in Kept : page[i].cur_page_count = 1

LEMMA InitCounts == Init => Counts
<1> SUFFICES ASSUME Init PROVE Counts
  OBVIOUS
<1> USE DEF Init
<1>1. Kept = Pages /\ Owners = Pages /\ Pow2[0] = 1
      /\ \A i \in Pages : page[i].order = 0 /\ page[i].cur_page_count = 1 /\ i \in Nat
  BY ZoneAssumption, OrderAssumption DEF Kept, Owners, Pages, Allocated
<1>2. FreeHeads = {}
  BY DEF FreeHeads, ToSet, Orders
<1>3. FreePages = {}
  BY <1>2 DEF FreePages
<1>4. \A i \in Pages : Wasted(i) = {}
  BY <1>1 DEF Wasted
<1>5. OwnedWaste = {}
  BY <1>1, <1>4 DEF OwnedWaste
<1> QED BY <1>1, <1>3, <1>5, FS_EmptySet DEF Counts

(* The wasted pages are the tail of the block.                             *)
LEMMA WasteCount ==
  ASSUME IInv, NEW i \in Heads, page[i].cur_page_count \in 0 .. Pow2[page[i].order]
  PROVE  /\ Wasted(i) \subseteq Block(i)
         /\ IsFiniteSet(Wasted(i))
         /\ Cardinality(Wasted(i)) = Pow2[page[i].order] - page[i].cur_page_count
<1> DEFINE a == i + page[i].cur_page_count
           b == i + Pow2[page[i].order] - 1
<1>1. i \in Nat /\ Pow2[page[i].order] \in Nat \ {0} /\ page[i].cur_page_count \in Nat
  <2>1. i \in Nat /\ Pow2[page[i].order] \in Nat \ {0}
    BY HeadFacts, OrderTypes
  <2> QED BY <2>1
<1>2. /\ a \in Int /\ b \in Int
      /\ (IF a > b THEN 0 ELSE b - a + 1) = Pow2[page[i].order] - page[i].cur_page_count
  BY <1>1
<1>3. Wasted(i) = a .. b
  BY DEF Wasted
<1>4. Wasted(i) \subseteq Block(i)
  BY <1>1, <1>3 DEF Block
<1> HIDE DEF a, b
<1> QED BY <1>2, <1>3, <1>4, FS_Interval

LEMMA WasteInBlocks ==
  ASSUME IInv, Counts
  PROVE  OwnedWaste \subseteq OwnedPages /\ OwnedWaste \subseteq Pages /\ IsFiniteSet(OwnedWaste)
<1>1. \A i \in Owners : Wasted(i) \subseteq Block(i)
  BY WasteCount DEF Counts, Heads
<1>2. OwnedWaste \subseteq OwnedPages
  BY <1>1 DEF OwnedWaste, OwnedPages
<1>3. OwnedPages \subseteq Pages
  BY FreeIsNotOwned DEF FreeNotOwned
<1> QED BY <1>2, <1>3, PagesFinite, FS_Subset

LEMMA ReleaseCounted ==
  ASSUME IInv, IInv', Counts, NEW i, Releases(i)
  PROVE  free_page_count' = Cardinality(FreePages') /\ waste_page_count' = Cardinality(OwnedWaste')
<1>1. i \in Owners /\ i \in Heads /\ Owners' = Owners \ {i} /\ Owners \subseteq Heads
  BY DEF Releases, Heads
<1>2. /\ free_page_count' = free_page_count + Pow2[page[i].order]
      /\ waste_page_count' = waste_page_count - (Pow2[page[i].order] - page[i].cur_page_count)
  BY DEF Releases, ReleaseBlock, ReleaseCounts
<1>3. FreePages \subseteq Pages /\ IsFiniteSet(FreePages)
  BY FreeIsNotOwned, PagesFinite, FS_Subset DEF FreeNotOwned
<1>4. /\ IsFiniteSet(Block(i)) /\ Cardinality(Block(i)) = Pow2[page[i].order]
      /\ Pow2[page[i].order] \in Nat
  BY <1>1, BlockCount, HeadFacts, OrderTypes
<1>5. free_page_count' = Cardinality(FreePages')
  <2>1. FreePages' = FreePages \cup Block(i) /\ FreePages \cap Block(i) = {}
    BY ReleaseFrees
  <2>2. Cardinality(FreePages \cup Block(i)) = Cardinality(FreePages) + Pow2[page[i].order] - 0
    BY <1>3, <1>4, <2>1, FS_Union, FS_EmptySet
  <2>3. Cardinality(FreePages) \in Nat
    BY <1>3, FS_CardinalityType
  <2> QED BY <1>2, <1>4, <2>1, <2>2, <2>3 DEF Counts
<1>6. /\ \A g \in Owners : Wasted(g) \subseteq Block(g)
      /\ IsFiniteSet(Wasted(i))
      /\ Cardinality(Wasted(i)) = Pow2[page[i].order] - page[i].cur_page_count
  BY <1>1, WasteCount DEF Counts
<1>7. OwnedWaste' = OwnedWaste \ Wasted(i)
  <2>1. OwnedWaste' = UNION {Wasted(g)' : g \in Owners'}
    BY DEF OwnedWaste
  <2>2. \A g \in Owners' : Wasted(g)' = Wasted(g)
    BY DEF Releases, Wasted
  <2>3. \A g \in Owners \ {i} : Wasted(g) \cap Wasted(i) = {}
    <3>1. \A g \in Owners \ {i} : Block(g) \cap Block(i) = {}
      BY <1>1, BlocksDisjoint DEF BlocksApart
    <3> QED BY <1>1, <1>6, <3>1
  <2> QED BY <1>1, <2>1, <2>2, <2>3 DEF OwnedWaste
<1>8. waste_page_count' = Cardinality(OwnedWaste')
  <2>1. OwnedWaste \cap Wasted(i) = Wasted(i)
    BY <1>1 DEF OwnedWaste
  <2>2. IsFiniteSet(OwnedWaste)
    BY WasteInBlocks
  <2>3. Cardinality(OwnedWaste \ Wasted(i)) = Cardinality(OwnedWaste) - Cardinality(Wasted(i))
    BY <2>1, <2>2, FS_Difference
  <2> QED BY <1>2, <1>6, <1>7, <2>3 DEF Counts
<1> QED BY <1>5, <1>8

LEMMA TakeCounted ==
  ASSUME IInv, IInv', Counts, NEW i, NEW t, NEW o, NEW bytes \in Nat, NEW size, NEW align,
         Takes(i, t, o, bytes, size, align)
  PROVE  Counts'
<1> DEFINE cnt == DivRoundUp(bytes, PageSize)
<1>1. /\ i \in Pages /\ i \notin Owners /\ Owners' = Owners \cup {i}
      /\ \A g \in Owners : page'[g] = page[g]
      /\ boot' = boot /\ cnt <= Pow2[t] /\ t \in Orders
      /\ page'[i].order = t /\ page'[i].cur_page_count = cnt
  BY DEF Takes
<1>2. cnt \in Nat /\ Pow2[t] \in Nat \ {0} /\ i \in Nat
  BY <1>1, RoundedUp, OrderTypes, ZoneAssumption DEF Pages
<1>3. /\ free_page_count' = free_page_count - Pow2[t]
      /\ waste_page_count' = waste_page_count + (Pow2[t] - cnt)
  BY DEF Takes, TakeBlock, TakeCounts
<1> HIDE DEF cnt
<1>4. i \in Heads' /\ Owners \subseteq Heads /\ Owners' \subseteq Heads'
  BY <1>1 DEF Heads
<1>5. /\ FreePages' = FreePages \ Block(i)' /\ Block(i)' \subseteq FreePages
      /\ OwnedPages' = OwnedPages \cup Block(i)'
  BY <1>1, TakeUsesFree
<1>6. FreePages \subseteq Pages /\ IsFiniteSet(FreePages)
  BY FreeIsNotOwned, PagesFinite, FS_Subset DEF FreeNotOwned
<1>7. IsFiniteSet(Block(i)') /\ Cardinality(Block(i)') = Pow2[t]
  <2> DEFINE b == i + Pow2[t] - 1
  <2>1. Block(i)' = i .. b
    BY <1>1 DEF Block
  <2>2. b \in Int /\ ~(i > b) /\ b - i + 1 = Pow2[t]
    BY <1>2
  <2> HIDE DEF b
  <2> QED BY <1>2, <2>1, <2>2, FS_Interval
<1>8. free_page_count' = Cardinality(FreePages')
  <2>1. FreePages \cap Block(i)' = Block(i)'
    BY <1>5
  <2>2. Cardinality(FreePages \ Block(i)')
          = Cardinality(FreePages) - Cardinality(FreePages \cap Block(i)')
    BY <1>6, FS_Difference
  <2> QED BY <1>3, <1>5, <1>7, <2>1, <2>2 DEF Counts
<1>9. /\ Wasted(i)' \subseteq Block(i)' /\ IsFiniteSet(Wasted(i)')
      /\ Cardinality(Wasted(i)') = Pow2[t] - cnt
  <2> DEFINE a == i + cnt
             b == i + Pow2[t] - 1
  <2>1. Wasted(i)' = a .. b /\ Block(i)' = i .. b
    BY <1>1 DEF Wasted, Block
  <2>2. a \in Int /\ b \in Int /\ (IF a > b THEN 0 ELSE b - a + 1) = Pow2[t] - cnt
        /\ a >= i
    BY <1>1, <1>2
  <2>3. a .. b \subseteq i .. b
    BY <1>2, <2>2
  <2> HIDE DEF a, b
  <2> QED BY <2>1, <2>2, <2>3, FS_Interval
<1>10. OwnedWaste' = OwnedWaste \cup Wasted(i)'
  <2>1. OwnedWaste' = UNION {Wasted(g)' : g \in Owners'}
    BY DEF OwnedWaste
  <2>2. \A g \in Owners : Wasted(g)' = Wasted(g)
    BY <1>1 DEF Wasted
  <2> QED BY <1>1, <2>1, <2>2 DEF OwnedWaste
<1>11. waste_page_count' = Cardinality(OwnedWaste')
  <2>1. OwnedWaste \cap Wasted(i)' = {} /\ IsFiniteSet(OwnedWaste)
    BY <1>5, <1>9, WasteInBlocks, FreeIsNotOwned DEF FreeNotOwned
  <2>2. Cardinality(OwnedWaste) \in Nat
    BY <2>1, FS_CardinalityType
  <2>3. Cardinality(OwnedWaste \cup Wasted(i)')
          = Cardinality(OwnedWaste) + (Pow2[t] - cnt) - 0
    BY <1>9, <2>1, FS_Union, FS_EmptySet
  <2> QED BY <1>2, <1>3, <1>10, <2>2, <2>3 DEF Counts
<1>12. \A g \in Owners' : page'[g].cur_page_count \in 0 .. Pow2[page'[g].order]
  BY <1>1, <1>2 DEF Counts
<1>13. \A g \in Kept' : page'[g].cur_page_count = 1
  <2>1. Kept' = Kept /\ Kept \subseteq Owners
    BY <1>1 DEF Kept, Owners, Pages
  <2> QED BY <1>1, <2>1 DEF Counts
<1> QED BY <1>8, <1>11, <1>12, <1>13 DEF Counts

LEMMA CountsStep == IInv /\ IInv' /\ Counts /\ StepOf => Counts'
<1> SUFFICES ASSUME IInv, IInv', Counts, StepOf PROVE Counts'
  OBVIOUS
<1>1. ASSUME NEW i, Releases(i), Kept' \subseteq Kept PROVE Counts'
  <2>1. free_page_count' = Cardinality(FreePages') /\ waste_page_count' = Cardinality(OwnedWaste')
    BY <1>1, ReleaseCounted
  <2>2. \A g \in Owners' : g \in Owners /\ page'[g] = page[g]
    BY <1>1 DEF Releases
  <2>3. Kept' \subseteq Owners'
    BY DEF Owners
  <2> QED BY <1>1, <2>1, <2>2, <2>3 DEF Counts
<1>2. boot' = boot \/ boot' = boot + 1 => Kept' \subseteq Kept
  <2>1. boot \in Nat
    BY ZoneAssumption DEF IInv, TypeOK
  <2> QED BY <2>1, ZoneAssumption DEF Kept, Pages
<1>3. CASE \E i \in Pages : Releases(i) /\ boot' = boot
  BY <1>1, <1>2, <1>3
<1>4. CASE Releases(boot) /\ boot' = boot + 1
  BY <1>1, <1>2, <1>4
<1>5. CASE \E bytes \in Nat, size \in Sizes, align \in Aligns \cup {1}, i \in Pages, t, o \in Orders :
             Takes(i, t, o, bytes, size, align)
  BY <1>5, TakeCounted
<1>6. CASE /\ UNCHANGED <<page, list, free_page_count, waste_page_count>>
           /\ Owners' = Owners
           /\ boot' = boot \/ boot' = boot + 1
  <2>1. FreePages' = FreePages
    BY <1>6 DEF FreePages, FreeHeads, Block, Orders
  <2>2. OwnedWaste' = OwnedWaste
    BY <1>6 DEF OwnedWaste, Wasted
  <2> QED BY <1>2, <1>6, <2>1, <2>2 DEF Counts
<1> QED BY <1>3, <1>4, <1>5, <1>6 DEF StepOf

LEMMA CountsInvariant == Spec => [](IInv /\ Counts)
<1>1. IInv /\ Counts /\ [Next]_vars => Counts'
  BY NextPreserves, StepKinds, CountsStep
<1> QED BY <1>1, InitEstablishes, InitCounts, NextPreserves, PTL DEF Spec

LEMMA CountsSayExact == IInv /\ Counts => CountsExact
<1> SUFFICES ASSUME IInv, Counts PROVE CountsExact
  OBVIOUS
<1>1. \A i \in Kept : Wasted(i) = {}
  <2> TAKE i \in Kept
  <2>1. page[i].cur_page_count = 1 /\ page[i].order = 0 /\ i \in Nat
    BY ZoneAssumption DEF Counts, IInv, OwnersInUse, Kept, Pages
  <2> QED BY <2>1, OrderAssumption DEF Wasted
<1>2. OwnedWaste = WastedPages
  BY <1>1 DEF OwnedWaste, WastedPages, Owners
<1> QED BY <1>2 DEF CountsExact, Counts, GetFreeBytes

(* The free and the waste count are kept incrementally over splits and     *)
(* merges, and are nevertheless exact after any calls: get_free_bytes      *)
(* reports the pages that are in free blocks.                              *)
THEOREM BuddyCountsExact == Spec => []CountsExact
BY CountsInvariant, CountsSayExact, PTL

-----------------------------------------------------------------------------
(* The allocator is a pool of runs of pages.                               *)

(* The pages outside Usable are their own one-page blocks for ever, so     *)
(* what is free or given out is Usable.                                    *)
LEMMA PoolIsUsable ==
  ASSUME IInv
  PROVE  /\ FreePages \subseteq Usable
         /\ \A i \in Allocated : Block(i) \subseteq Usable
<1>1. Pages \ Usable \subseteq Kept
  BY DEF Kept
<1>2. \A p \in Kept : p \in Owners /\ p \in Heads
  BY DEF Owners, Heads
<1>3. \A p \in Kept : p \in Block(p)
  BY <1>2, HeadFacts
<1>4. Kept \subseteq OwnedPages
  BY <1>2, <1>3 DEF OwnedPages
<1>5. ASSUME NEW i \in Allocated PROVE Block(i) \cap Kept = {} /\ Block(i) \subseteq Pages
  <2>1. i \in Heads /\ i \notin Kept
    BY DEF IInv, OwnersInUse, Heads, Owners
  <2> QED BY <2>1, <1>2, <1>3, HeadFacts, BlocksDisjoint DEF BlocksApart
<1> QED BY <1>1, <1>4, <1>5, FreeIsNotOwned DEF FreeNotOwned

OwnedBlocks == [i \in Allocated |-> Block(i)]

LEMMA PoolOwned == Abstract!Owned = UNION {Block(i) : i \in Allocated}
BY DEF Abstract!Owned

LEMMA FreeIsPoolFree ==
  ASSUME IInv, NEW i \in Pages, Releases(i), i \in Allocated, Allocated' = Allocated \ {i}
  PROVE  Abstract!Free(i)
<1>1. \A g \in Allocated' : Block(g)' = Block(g)
  BY DEF Releases, Block, Owners
<1> QED BY <1>1 DEF Abstract!Free

LEMMA TakeIsPoolAlloc ==
  ASSUME IInv, IInv', NEW i, NEW t, NEW o, NEW bytes, NEW size, NEW align,
         Takes(i, t, o, bytes, size, align)
  PROVE  \E first \in Usable \ Abstract!Owned, last \in Usable : Abstract!Alloc(first, first .. last)
<1>1. /\ i \in Pages /\ i \notin Owners /\ Owners' = Owners \cup {i} /\ t \in Orders
      /\ \A g \in Owners : page'[g] = page[g]
      /\ Allocated' = Allocated \cup {i} /\ boot = PageCount
      /\ page'[i].order = t
  BY DEF Takes
<1> DEFINE last == i + Pow2[t] - 1
<1>2. Block(i)' = i .. last
  BY <1>1 DEF Block
<1>3. i \in Nat /\ last \in Nat /\ i <= last
  <2>1. i \in Nat /\ Pow2[t] \in Nat \ {0}
    BY <1>1, OrderTypes, ZoneAssumption DEF Pages
  <2> QED BY <2>1
<1> HIDE DEF last
<1>4. i .. last \subseteq FreePages /\ FreePages \subseteq Usable
  BY <1>1, <1>2, TakeUsesFree, PoolIsUsable
<1>5. i \in Usable /\ last \in Usable
  BY <1>3, <1>4
<1>6. (i .. last) \cap Abstract!Owned = {}
  BY <1>4, FreeIsNotOwned, PoolOwned DEF FreeNotOwned, OwnedPages, Owners
<1>7. \A g \in Allocated : Block(g)' = Block(g)
  BY <1>1 DEF Block, Owners
<1>8. Abstract!Alloc(i, i .. last)
  <2>1. [g \in Allocated |-> Block(g)]' = [g \in Allocated \cup {i} |-> IF g = i THEN i .. last ELSE Block(g)]
    BY <1>1, <1>2, <1>7
  <2> QED BY <1>3, <1>4, <1>6, <2>1 DEF Abstract!Alloc
<1>9. i \notin Abstract!Owned
  BY <1>3, <1>6
<1> QED BY <1>5, <1>8, <1>9

LEMMA PoolStep ==
  IInv /\ IInv' /\ StepOf => [Abstract!Next]_(OwnedBlocks)
<1> SUFFICES ASSUME IInv, IInv', StepOf PROVE Abstract!Next \/ UNCHANGED OwnedBlocks
  OBVIOUS
<1>1. CASE \E i \in Pages : Releases(i) /\ i \in Allocated /\ Allocated' = Allocated \ {i}
  <2>1. \E i \in Allocated : Abstract!Free(i)
    BY <1>1, FreeIsPoolFree
  <2> QED BY <2>1 DEF Abstract!Next
<1>2. CASE \E bytes \in Nat, size \in Sizes, align \in Aligns \cup {1}, i \in Pages, t, o \in Orders :
             Takes(i, t, o, bytes, size, align)
  <2>1. \E first \in Usable \ Abstract!Owned, last \in Usable : Abstract!Alloc(first, first .. last)
    BY <1>2, TakeIsPoolAlloc
  <2> QED BY <2>1 DEF Abstract!Next
<1>3. CASE Allocated = {} /\ asked' = asked
  BY <1>3 DEF OwnedBlocks, Allocated
<1>4. CASE UNCHANGED page /\ Allocated' = Allocated
  BY <1>4 DEF OwnedBlocks, Block
<1> QED BY <1>1, <1>2, <1>3, <1>4 DEF StepOf

(* Every malloc gives a caller a run of the zone's usable pages that no    *)
(* other caller owns, every free gives that run back, and no step of the   *)
(* allocator, the boot loop's and the failing ones included, changes       *)
(* anything else about who owns what.                                      *)
THEOREM BuddyImplementsPool == Spec => PoolSpec
<1>1. Init => Abstract!Init
  <2> SUFFICES ASSUME Init PROVE OwnedBlocks = << >>
    BY DEF Abstract!Init, OwnedBlocks
  <2>1. Allocated = {}
    BY DEF Init, Allocated
  <2> QED BY <2>1 DEF OwnedBlocks
<1>2. IInv /\ [Next]_vars => IInv' /\ StepOf
  BY NextPreserves, StepKinds
<1>3. IInv /\ [Next]_vars => [Abstract!Next]_(OwnedBlocks)
  BY <1>2, PoolStep
<1> QED BY <1>1, <1>3, BuddyInvariant, PTL DEF Spec, PoolSpec, Abstract!Spec, OwnedBlocks

-----------------------------------------------------------------------------
(* The assertions.                                                         *)

LEMMA OwnersAssert ==
  ASSUME IInv, Counts, NEW i \in Owners
  PROVE  FreeAsserts(i)
<1>1. i \in Heads
  BY DEF Heads
<1>2. i % Pow2[page[i].order] = 0 /\ page[i].in_use = 1
  BY <1>1 DEF IInv, HeadsAligned, OwnersInUse
<1>3. FreePages \cap Block(i) = {} /\ FreePages \subseteq Pages /\ Block(i) \subseteq Pages
  BY <1>1, FreeIsNotOwned, HeadFacts DEF FreeNotOwned, OwnedPages
<1>4. IsFiniteSet(FreePages) /\ IsFiniteSet(Block(i)) /\ Cardinality(Block(i)) = Pow2[page[i].order]
  BY <1>1, <1>3, BlockCount, PagesFinite, FS_Subset
<1>5. Cardinality(FreePages \cup Block(i)) = Cardinality(FreePages) + Cardinality(Block(i)) - 0
  BY <1>3, <1>4, FS_Union, FS_EmptySet
<1>6. Cardinality(FreePages \cup Block(i)) <= PageCount
  <2>1. FreePages \cup Block(i) \in SUBSET Pages
    BY <1>3
  <2> QED BY <2>1, PagesFinite, FS_Subset
<1>7. Cardinality(FreePages) \in Nat /\ Cardinality(Block(i)) \in Nat
  BY <1>4, FS_CardinalityType
<1>8. free_page_count + Pow2[page[i].order] <= PageCount
  BY <1>4, <1>5, <1>6, <1>7 DEF Counts
<1> QED BY <1>2, <1>8 DEF FreeAsserts

LEMMA FoundAsserts ==
  ASSUME IInv, Counts, NEW cnt \in Nat
  PROVE  MallocAsserts(cnt)
<1> DEFINE o == Min(Candidates(cnt))
           g == Head(list[o])
<1> SUFFICES ASSUME Candidates(cnt) # {} PROVE page[g].in_use = 0 /\ free_page_count >= cnt
  BY DEF MallocAsserts
<1>1. o \in Candidates(cnt)
  BY MinIsLeast, OrderTypes DEF Candidates, Fitting
<1>2. o \in Orders /\ list[o] # << >> /\ Pow2[o] >= cnt /\ Pow2[o] \in Nat
  BY <1>1, OrderTypes DEF Candidates, Fitting
<1> HIDE DEF o
<1>3. g \in FreeHeads /\ page[g].in_use = 0 /\ page[g].order = o
  BY <1>2, ListedFacts, ListEmpty
<1> HIDE DEF g
<1>4. Block(g) \subseteq FreePages /\ g \in Heads
  BY <1>3 DEF FreePages, Heads
<1>5. Cardinality(Block(g)) = Pow2[o]
  BY <1>3, <1>4, BlockCount
<1>6. IsFiniteSet(FreePages)
  BY FreeIsNotOwned, PagesFinite, FS_Subset DEF FreeNotOwned
<1>7. Pow2[o] <= free_page_count /\ free_page_count \in Int
  BY <1>4, <1>5, <1>6, FS_Subset DEF Counts, IInv, TypeOK
<1> QED BY <1>2, <1>3, <1>7

LEMMA InvariantAsserts == IInv /\ Counts => AssertionsHold
<1> SUFFICES ASSUME IInv, Counts PROVE AssertionsHold
  OBVIOUS
<1>1. PrintAsserts
  BY FreeHeadFacts DEF PrintAsserts
<1>2. \A i \in Allocated \cup (Kept \cap Usable) : FreeAsserts(i)
  BY OwnersAssert DEF Owners
<1>3. \A size \in Sizes : MallocAsserts(DivRoundUp(size, PageSize))
  BY FoundAsserts, RoundedUp, ZoneAssumption
<1> QED BY <1>1, <1>2, <1>3 DEF AssertionsHold

(* No assertion of malloc, free or print can fire, in whatever order the   *)
(* boot loop and legal callers allocate and free.                          *)
THEOREM BuddyAssertionsHold == Spec => []AssertionsHold
BY CountsInvariant, InvariantAsserts, PTL

-----------------------------------------------------------------------------
(* Free blocks stay merged.                                                *)

LEMMA BuddyOfBuddy ==
  ASSUME NEW i \in Nat, NEW o \in Orders, i % Pow2[o] = 0
  PROVE  /\ GetBuddy(i, o) \in Nat /\ GetBuddy(i, o) # i
         /\ GetBuddy(i, o) % Pow2[o] = 0
         /\ GetBuddy(GetBuddy(i, o), o) = i
         /\ LowIndex(i, o) = i /\ MergeBuddy(i, o) = GetBuddy(i, o)
<1> DEFINE d == Pow2[o]
           b == GetBuddy(i, o)
<1>1. d \in Nat \ {0}
  BY OrderTypes
<1>2. PICK q \in Nat : i = q * d
  BY <1>1, MultipleOf
<1>3. i \div d = q
  BY <1>1, <1>2, DivUnique
<1>4. LowIndex(i, o) = i
  BY <1>2, <1>3 DEF LowIndex
<1>5. CASE q % 2 = 1
  <2>1. BitSet(i, o) /\ b = i - d
    BY <1>3, <1>5 DEF BitSet, GetBuddy
  <2>2. q - 1 \in Nat /\ (q - 1) % 2 = 0 /\ b = (q - 1) * d /\ b \in Nat
    <3>1. q - 1 \in Nat /\ (q - 1) % 2 = 0
      BY <1>5
    <3> HIDE DEF d
    <3>2. (q - 1) * d + 1 * d = q * d
      BY <1>1, <3>1, MulRegroup
    <3>3. (q - 1) * d \in Nat
      BY <1>1, <3>1, MulRegroup
    <3> QED BY <1>1, <1>2, <2>1, <3>1, <3>2, <3>3
  <2>3. b \div d = q - 1
    <3> DEFINE r == q - 1
    <3>1. r \in Nat /\ b = r * d
      BY <2>2
    <3> HIDE DEF r, b, d
    <3>2. b \div d = r
      BY <1>1, <2>2, <3>1, DivUnique
    <3> QED BY <3>2 DEF r
  <2>4. ~BitSet(b, o)
    BY <2>2, <2>3 DEF BitSet
  <2>5. GetBuddy(b, o) = b + d
    BY <2>4 DEF GetBuddy
  <2>6. b % Pow2[o] = 0
    <3> DEFINE r == q - 1
    <3>1. r \in Nat /\ b = r * d
      BY <2>2
    <3> HIDE DEF r, b
    <3> QED BY <1>1, <2>2, <3>1, MultipleOf
  <2> QED BY <1>1, <1>4, <2>1, <2>2, <2>5, <2>6 DEF MergeBuddy
<1>6. CASE q % 2 # 1
  <2>1. ~BitSet(i, o) /\ b = i + d
    BY <1>3, <1>6 DEF BitSet, GetBuddy
  <2>2. (q + 1) % 2 = 1 /\ b = (q + 1) * d /\ b \in Nat
    <3>1. (q + 1) % 2 = 1
      BY <1>6
    <3> HIDE DEF d
    <3>2. q * d + 1 * d = (q + 1) * d /\ (q + 1) * d \in Nat
      BY <1>1, MulRegroup
    <3> QED BY <1>1, <1>2, <2>1, <3>1, <3>2
  <2>3. b \div d = q + 1
    <3> DEFINE r == q + 1
    <3>1. r \in Nat /\ b = r * d
      BY <2>2
    <3> HIDE DEF r, b, d
    <3>2. b \div d = r
      BY <1>1, <2>2, <3>1, DivUnique
    <3> QED BY <3>2 DEF r
  <2>4. BitSet(b, o)
    BY <2>2, <2>3 DEF BitSet
  <2>5. GetBuddy(b, o) = b - d
    BY <2>4 DEF GetBuddy
  <2>6. b % Pow2[o] = 0
    <3> DEFINE r == q + 1
    <3>1. r \in Nat /\ b = r * d
      BY <2>2
    <3> HIDE DEF r, b
    <3> QED BY <1>1, <2>2, <3>1, MultipleOf
  <2> QED BY <1>1, <1>4, <2>1, <2>2, <2>5, <2>6 DEF MergeBuddy
<1> QED BY <1>5, <1>6

(* Two free buddies of one order.                                          *)
Apart(g) == ~ /\ GetBuddy(g, page[g].order) \in FreeHeads
              /\ page[GetBuddy(g, page[g].order)].order = page[g].order

LEMMA CoalescedApart ==
  Coalesced <=> \A g \in FreeHeads : page[g].order < MaxOrder => Apart(g)
BY DEF Coalesced, Apart

LEMMA ReleaseCoalesces ==
  ASSUME IInv, IInv', Coalesced, NEW i, Releases(i)
  PROVE  Coalesced'
<1> DEFINE l == MergedOrder(i)
<1>1. PICK h : h = LowIndex(i, l)
  OBVIOUS
<1>2. i \in Owners /\ i \in Nat /\ l \in Orders /\ ~CanMerge(i, l)
  BY MergeStops, HeadFacts DEF Releases, Heads
<1>3. /\ FreeHeads' \subseteq FreeHeads \cup {h}
      /\ page'[h].order = l
      /\ \A g \in FreeHeads' \ {h} : page'[g] = page[g]
  BY <1>1, ReleaseStep DEF Releases
<1> HIDE DEF l
<1>4. h \in Nat /\ h % Pow2[l] = 0 /\ l \in 0 .. MaxOrder + 1
  BY <1>1, <1>2, LowIndexFacts, MultipleOf, OrderTypes
(* Had the merged block a free buddy, the loop would have merged it.       *)
<1>5. ASSUME l < MaxOrder, NEW b \in FreeHeads', b = GetBuddy(h, l), page'[b].order = l PROVE FALSE
  <2>1. b # h
    BY <1>2, <1>4, <1>5, BuddyOfBuddy
  <2>2. b \in FreeHeads /\ page[b].order = l /\ page[b].in_use = 0 /\ b \in Pages
    BY <1>3, <1>5, <2>1, FreeHeadFacts, HeadFacts DEF Heads
  <2>3. b = MergeBuddy(i, l) /\ b < PageCount
    BY <1>1, <1>5, <2>2, ZoneAssumption DEF MergeBuddy, Pages
  <2> QED BY <1>2, <1>5, <2>2, <2>3 DEF CanMerge
<1>6. ASSUME NEW g \in FreeHeads', page'[g].order < MaxOrder,
             NEW b \in FreeHeads', b = GetBuddy(g, page'[g].order), page'[b].order = page'[g].order
      PROVE  FALSE
  <2>1. CASE g = h
    BY <1>3, <1>5, <1>6, <2>1
  <2>2. CASE b = h
    <3>1. g \in Nat /\ g % Pow2[l] = 0 /\ page'[g].order = l
      <4>1. (HeadsAligned /\ TypeOK)' /\ g \in Heads' /\ page'[g].order = l
        BY <1>3, <1>6, <2>2 DEF IInv, Heads
      <4>2. g \in Nat
        <5>1. g \in FreeHeads \cup {h}
          BY <1>3
        <5> QED BY <5>1, <1>4, HeadFacts DEF Heads
      <4> QED BY <4>1, <4>2 DEF HeadsAligned
    <3>2. g = GetBuddy(h, l)
      <4>1. GetBuddy(GetBuddy(g, l), l) = g
        BY <1>2, <3>1, BuddyOfBuddy
      <4> QED BY <1>6, <2>2, <3>1, <4>1
    <3> QED BY <1>5, <1>6, <3>1, <3>2
  <2>3. CASE g # h /\ b # h
    BY <1>3, <1>6, <2>3 DEF Coalesced
  <2> QED BY <2>1, <2>2, <2>3
<1> QED BY <1>6 DEF Coalesced

LEMMA TakeCoalesces ==
  ASSUME IInv, IInv', Coalesced, NEW i, NEW t, NEW o, NEW bytes \in Nat, NEW size, NEW align,
         Takes(i, t, o, bytes, size, align)
  PROVE  Coalesced'
<1> DEFINE cnt == DivRoundUp(bytes, PageSize)
           C == t .. o - 1
<1>1. /\ t \in Orders /\ o \in Orders /\ t <= o /\ cnt \in Nat
      /\ i = Head(list[o]) /\ list[o] # << >>
      /\ TakeBlock(bytes, cnt, t, o) /\ Owners' = Owners \cup {i}
  BY RoundedUp DEF Takes
<1> HIDE DEF cnt
<1>2. /\ i \in FreeHeads /\ i \in Nat /\ page[i].order = o
      /\ FreeHeads' = (FreeHeads \ {i}) \cup {i + Pow2[k] : k \in C}
      /\ \A k \in C : page'[i + Pow2[k]].order = k
      /\ \A g \in FreeHeads \ {i} : page'[g] = page[g]
  <2>1. LET index == Head(list[o])
        IN /\ index \in FreeHeads /\ index \in Nat /\ page[index].order = o
           /\ FreeHeads' = (FreeHeads \ {index}) \cup {index + Pow2[k] : k \in t .. o - 1}
           /\ \A k \in t .. o - 1 : page'[index + Pow2[k]].order = k
           /\ \A g \in FreeHeads \ {index} : page'[g] = page[g]
    BY <1>1, TakeStep
  <2> QED BY <1>1, <2>1
<1>3. i \notin FreeHeads'
  BY <1>1 DEF IInv, Partition, Owners
(* The buddy of an upper half that is cut off is the block that is taken.  *)
<1>4. \A k \in C : GetBuddy(i + Pow2[k], k) = i /\ k \in Orders
  <2> TAKE k \in C
  <2>1. k \in Orders /\ k < o /\ k \in Nat
    BY <1>1, OrderTypes DEF Orders
  <2>2. i % Pow2[o] = 0
    BY <1>2 DEF IInv, HeadsAligned, Heads
  <2>3. GetHighIndex(i, k) = i + Pow2[k] /\ i % Pow2[k] = 0 /\ Pow2[k] \in Nat \ {0}
    <3>1. GetHighIndex(i, k) = i + Pow2[k] /\ i % Pow2[k] = 0
      <4> HIDE DEF C
      <4> QED BY <1>1, <1>2, <2>1, <2>2, HighIndexOfAligned
    <3> QED BY <2>1, <3>1, OrderTypes
  <2>4. GetBuddy(i, k) = i + Pow2[k]
    BY <1>2, <2>3 DEF GetHighIndex, GetBuddy
  <2> QED BY <1>2, <2>1, <2>3, <2>4, BuddyOfBuddy
<1> HIDE DEF C
<1>5. ASSUME NEW g \in FreeHeads', page'[g].order < MaxOrder,
             NEW b \in FreeHeads', b = GetBuddy(g, page'[g].order), page'[b].order = page'[g].order
      PROVE  FALSE
  <2>1. CASE \E k \in C : g = i + Pow2[k]
    BY <1>2, <1>3, <1>4, <1>5, <2>1
  <2>2. CASE \E k \in C : b = i + Pow2[k]
    <3>1. PICK k \in C : b = i + Pow2[k]
      BY <2>2
    <3>2. k = page'[g].order
      BY <1>2, <1>5, <3>1
    <3>3. g \in Nat /\ g % Pow2[k] = 0
      <4>1. HeadsAligned' /\ g \in Heads'
        BY DEF IInv, Heads
      <4>2. g \in Nat
        <5>1. CASE g \in FreeHeads
          BY <5>1, HeadFacts DEF Heads
        <5>2. CASE g \in {i + Pow2[j] : j \in C}
          <6>1. PICK j \in C : g = i + Pow2[j]
            BY <5>2
          <6>2. Pow2[j] \in Nat
            BY <1>4, <6>1, OrderTypes
          <6> QED BY <1>2, <6>1, <6>2
        <5> QED BY <1>2, <5>1, <5>2
      <4> QED BY <3>2, <4>1, <4>2 DEF HeadsAligned
    <3>4. GetBuddy(b, k) = g
      BY <1>4, <1>5, <3>2, <3>3, BuddyOfBuddy
    <3> QED BY <1>3, <1>4, <3>1, <3>4
  <2>3. CASE g \in FreeHeads \ {i} /\ b \in FreeHeads \ {i}
    BY <1>2, <1>5, <2>3 DEF Coalesced
  <2> QED BY <1>2, <2>1, <2>2, <2>3
<1> QED BY <1>5 DEF Coalesced

LEMMA CoalescedStep == IInv /\ IInv' /\ Coalesced /\ StepOf => Coalesced'
<1> SUFFICES ASSUME IInv, IInv', Coalesced, StepOf PROVE Coalesced'
  OBVIOUS
<1>1. CASE \E i : Releases(i)
  BY <1>1, ReleaseCoalesces
<1>2. CASE \E bytes \in Nat, size \in Sizes, align \in Aligns \cup {1}, i \in Pages, t, o \in Orders :
             Takes(i, t, o, bytes, size, align)
  BY <1>2, TakeCoalesces
<1>3. CASE UNCHANGED <<page, list>>
  BY <1>3 DEF Coalesced, FreeHeads, Orders
<1> QED BY <1>1, <1>2, <1>3 DEF StepOf

LEMMA CoalescedInvariant == Spec => [](IInv /\ Coalesced)
<1>1. Init => Coalesced
  BY DEF Init, Coalesced, FreeHeads, ToSet, Orders
<1>2. IInv /\ Coalesced /\ [Next]_vars => Coalesced'
  BY NextPreserves, StepKinds, CoalescedStep
<1> QED BY <1>1, <1>2, InitEstablishes, NextPreserves, PTL DEF Spec

(* Two free buddies of one order never coexist, in any sequence of calls:  *)
(* what one free leaves unmerged the other's merges.                       *)
THEOREM BuddyCoalesces == Spec => []Coalesced
BY CoalescedInvariant, PTL

-----------------------------------------------------------------------------
(* malloc fails only when it must.                                         *)

LEMMA HeadOfItsBlock ==
  ASSUME IInv, NEW g \in Heads, NEW p \in Block(g)
  PROVE  p \in Nat /\ LowIndex(p, page[g].order) = g /\ Region(p, page[g].order) = Block(g)
<1> DEFINE m == page[g].order
<1>1. g \in Nat /\ m \in Orders /\ m \in 0 .. MaxOrder + 1 /\ Block(g) = Run(g, m)
      /\ Block(g) \subseteq Pages
  BY HeadFacts, OrderTypes
<1>2. PICK q \in Nat : g = q * Pow2[m]
  BY HeadFacts
<1>3. p \in Nat
  BY <1>1, ZoneAssumption DEF Pages
<1>4. g <= p /\ p < g + Pow2[m]
  BY <1>1, <1>3, OrderTypes DEF Run
<1> HIDE DEF m
<1>5. LowIndex(p, m) = g
  BY <1>1, <1>2, <1>3, <1>4, LowIndexUnique
<1> QED BY <1>1, <1>3, <1>5 DEF Region, m

LEMMA RegionNested ==
  ASSUME NEW i \in Nat, NEW f \in Orders, NEW l \in Orders, f <= l
  PROVE  Region(i, f) \subseteq Region(i, l)
<1>1. Region(i, l) = Region(i, f) \cup UNION {Run(MergeBuddy(i, k), k) : k \in f .. l - 1}
  BY RegionGrows
<1> QED BY <1>1

(* In a coalesced zone an aligned run of free pages lies in one free block:*)
(* the smallest block that met it would have its buddy, free too, in it.   *)
LEMMA RunIsOneBlock ==
  ASSUME IInv, Coalesced, NEW o \in Orders, NEW q \in Nat, Run(q * Pow2[o], o) \subseteq FreePages
  PROVE  \E g \in FreeHeads : page[g].order >= o
<1> DEFINE r == q * Pow2[o]
           Meets == {g \in FreeHeads : Block(g) \cap Run(r, o) # {}}
           Least == {page[g].order : g \in Meets}
<1>1. Pow2[o] \in Nat \ {0} /\ o \in 0 .. MaxOrder + 1 /\ o \in Nat /\ o <= MaxOrder /\ MaxOrder \in Nat
  BY OrderTypes DEF Orders
<1>2. r \in Nat
  BY <1>1, MulRegroup
<1> HIDE DEF r
<1>3. r \in Run(r, o)
  BY <1>1, <1>2 DEF Run
<1>4. \A p \in Run(r, o) : \E g \in Meets : p \in Block(g)
  BY DEF FreePages, r
<1>5. FreeHeads \subseteq Heads /\ \A g \in FreeHeads : page[g].order \in Orders
  BY HeadFacts DEF Heads
<1> SUFFICES ASSUME \A g \in FreeHeads : ~(page[g].order >= o) PROVE FALSE
  OBVIOUS
<1>6. ASSUME NEW g \in FreeHeads PROVE page[g].order < o
  <2>1. page[g].order \in Nat /\ ~(page[g].order >= o)
    BY <1>5, OrderTypes
  <2> QED BY <1>1, <2>1
<1>7. Least \subseteq Nat /\ Least # {}
  BY <1>3, <1>4, <1>5, OrderTypes, ZenonT(40)
<1> HIDE DEF Least
<1>8. PICK m \in Least : \A k \in Least : m <= k
  BY <1>7, NatLeast, Zenon
<1>9. PICK g \in Meets : page[g].order = m
  BY <1>8 DEF Least
<1>10. PICK p \in Block(g) : p \in Run(r, o)
  BY <1>9
<1>11. g \in Heads /\ p \in Nat /\ LowIndex(p, m) = g /\ Region(p, m) = Block(g) /\ g \in Nat
       /\ g % Pow2[m] = 0 /\ g \in Block(g)
  BY <1>5, <1>9, <1>10, HeadOfItsBlock, HeadFacts DEF IInv, HeadsAligned
<1>12. /\ m \in Orders /\ m < o /\ m < MaxOrder /\ m \in Nat /\ m + 1 \in Orders /\ m + 1 <= o
       /\ Pow2[m] \in Nat \ {0}
  BY <1>1, <1>5, <1>6, <1>9, OrderTypes DEF Orders
<1>13. Region(p, o) = Run(r, o)
  <2>1. r <= p /\ p < r + Pow2[o]
    BY <1>1, <1>2, <1>10, <1>11 DEF Run
  <2>2. q * Pow2[o] <= p /\ p < q * Pow2[o] + Pow2[o]
    BY <2>1 DEF r
  <2>3. LowIndex(p, o) = q * Pow2[o]
    BY <1>1, <1>11, <2>2, LowIndexUnique
  <2> QED BY <2>3 DEF Region, r
<1>14. PICK b : b = GetBuddy(g, m)
  OBVIOUS
<1>15. /\ b \in Nat /\ b # g /\ b % Pow2[m] = 0 /\ GetBuddy(b, m) = g
       /\ MergeBuddy(p, m) = b
  BY <1>11, <1>12, <1>14, BuddyOfBuddy DEF MergeBuddy
<1>16. MergeBuddy(b, m) = g /\ LowIndex(b, m) = b
  BY <1>12, <1>15, BuddyOfBuddy
<1>17. b \in Run(r, o)
  <2>1. Region(p, m + 1) = Region(p, m) \cup Run(b, m)
    BY <1>11, <1>12, <1>15, RegionDoubles
  <2>2. Region(p, m + 1) \subseteq Region(p, o)
    BY <1>11, <1>12, RegionNested
  <2>3. b \in Run(b, m)
    BY <1>12, <1>15 DEF Run
  <2> QED BY <1>13, <2>1, <2>2, <2>3
<1>18. PICK h \in Meets : b \in Block(h)
  BY <1>4, <1>17
<1>19. h \in FreeHeads /\ h \in Heads /\ page[h].order \in Orders /\ page[h].order \in Nat
       /\ m <= page[h].order /\ page[h].order < o
  BY <1>5, <1>6, <1>8, <1>18, OrderTypes DEF Least
<1>20. PICK j : j = page[h].order
  OBVIOUS
<1>21. LowIndex(b, j) = h /\ Region(b, j) = Block(h)
  BY <1>18, <1>19, <1>20, HeadOfItsBlock
<1>22. CASE j = m
  <2>1. b \in FreeHeads /\ page[b].order = m
    BY <1>16, <1>19, <1>20, <1>21, <1>22
  <2> QED BY <1>9, <1>12, <1>14, <2>1 DEF Coalesced
<1>23. CASE m < j
  <2>1. Region(b, m + 1) = Region(b, m) \cup Run(g, m)
    BY <1>12, <1>15, <1>16, RegionDoubles
  <2>2. Region(b, m + 1) \subseteq Region(b, j)
    <3>1. m + 1 <= j /\ j \in Orders
      BY <1>12, <1>19, <1>20, <1>23
    <3> QED BY <1>12, <1>15, <3>1, RegionNested
  <2>3. g \in Run(g, m)
    BY <1>11, <1>12 DEF Run
  <2>4. g \in Block(h)
    BY <1>21, <2>1, <2>2, <2>3
  <2>5. g = h
    BY <1>11, <1>19, <2>4, BlocksDisjoint DEF BlocksApart
  <2> QED BY <1>9, <1>12, <1>20, <1>23, <2>5
<1> QED BY <1>12, <1>19, <1>20, <1>22, <1>23

LEMMA CoalescedServes == IInv /\ Coalesced => FailsOnlyWhenFull
<1> SUFFICES ASSUME IInv, Coalesced, NEW cnt \in Nat, NEW o \in Fitting(cnt), FreeRun(o)
             PROVE  Candidates(cnt) # {}
  BY RoundedUp, ZoneAssumption DEF FailsOnlyWhenFull
<1>1. o \in Orders /\ Pow2[o] >= cnt /\ Pow2[o] \in Nat \ {0} /\ o \in 0 .. MaxOrder + 1
  BY OrderTypes DEF Fitting
<1>2. PICK q \in 0 .. PageCount \div Pow2[o] : q * Pow2[o] .. (q + 1) * Pow2[o] - 1 \subseteq FreePages
  BY DEF FreeRun
<1>3. q \in Nat
  BY <1>2
<1>4. Run(q * Pow2[o], o) \subseteq FreePages
  <2>1. q * Pow2[o] + 1 * Pow2[o] = (q + 1) * Pow2[o]
    BY <1>1, <1>3, MulRegroup
  <2>2. q * Pow2[o] + Pow2[o] - 1 = (q + 1) * Pow2[o] - 1
    BY <1>1, <2>1
  <2> QED BY <1>2, <2>2, Zenon DEF Run
<1>5. PICK g \in FreeHeads : page[g].order >= o
  BY <1>1, <1>3, <1>4, RunIsOneBlock
<1>6. page[g].order \in Orders /\ g \in ToSet(list[page[g].order])
  BY FreeHeadFacts
<1>7. Pow2[page[g].order] >= Pow2[o] /\ Pow2[page[g].order] \in Nat
  BY <1>1, <1>5, <1>6, PowersGrow, OrderTypes
<1>8. page[g].order \in Candidates(cnt)
  BY <1>1, <1>6, <1>7 DEF Candidates, Fitting, ToSet
<1> QED BY <1>8

(* Once the boot loop is done, malloc fails only when no aligned run of    *)
(* free pages as large as the request exists: splitting and merging never  *)
(* leave enough free pages side by side that it cannot find.               *)
THEOREM BuddyFailsOnlyWhenFull == Spec => []FailsOnlyWhenFull
BY CoalescedInvariant, CoalescedServes, PTL

-----------------------------------------------------------------------------
(* Owners keep what they asked for.                                        *)

LEMMA DoubleIsPow2 ==
  ASSUME NEW n \in Nat, IsPow2(n)
  PROVE  IsPow2(2 * n)
<1> SUFFICES ASSUME NEW d \in 2 .. 2 * n, (2 * n) % d = 0, d % 2 # 0 PROVE FALSE
  BY DEF IsPow2
<1>1. d \in Nat \ {0} /\ d >= 2 /\ 2 * n \in Nat /\ n > 0
  BY DEF IsPow2
<1>2. PICK c \in Nat : 2 * n = c * d
  BY <1>1, MultipleOf
<1>3. PICK e \in Nat : d = 2 * e + 1
  BY <1>1
<1> DEFINE f == c * e
<1>4. c * d = 2 * f + c /\ f \in Nat
  <2>1. c * (2 * e + 1) = 2 * (c * e) + c
    BY <1>2, <1>3
  <2> QED BY <1>2, <1>3, <2>1
<1> HIDE DEF f
<1>5. c = 2 * (n - f) /\ n - f \in Int
  BY <1>1, <1>2, <1>4
<1>6. PICK k : k = n - f
  OBVIOUS
<1>7. k \in Nat /\ c = 2 * k
  BY <1>2, <1>5, <1>6
<1>8. n = k * d
  <2>1. (2 * k) * d = 2 * (k * d)
    BY <1>1, <1>7
  <2>2. k * d \in Nat
    BY <1>1, <1>7, MulRegroup
  <2> QED BY <1>2, <1>7, <2>1, <2>2
<1>9. n % d = 0
  BY <1>1, <1>7, <1>8, MultipleOf
<1>10. d <= n
  <2>1. k # 0
    BY <1>1, <1>8
  <2>2. 1 * d <= k * d
    BY <1>1, <1>7, <2>1, MulMono
  <2> QED BY <1>1, <1>8, <2>2
<1> QED BY <1>1, <1>9, <1>10 DEF IsPow2

LEMMA HalfIsPow2 ==
  ASSUME NEW n \in Nat, IsPow2(n), n # 1
  PROVE  \E h \in Nat : h < n /\ n = 2 * h /\ IsPow2(h)
<1>1. n > 1 /\ n % n = 0
  BY DEF IsPow2
<1>2. n % 2 = 0
  BY <1>1 DEF IsPow2
<1>3. PICK h \in Nat : n = 2 * h
  BY <1>2
<1>4. h > 0 /\ h < n
  BY <1>1, <1>3
<1>5. ASSUME NEW d \in 2 .. h, h % d = 0 PROVE d % 2 = 0
  <2>1. d \in Nat \ {0} /\ d \in 2 .. n
    BY <1>3, <1>4
  <2>2. PICK q \in Nat : h = q * d
    BY <1>5, <2>1, MultipleOf
  <2>3. n = (2 * q) * d /\ 2 * q \in Nat
    BY <1>3, <2>1, <2>2
  <2>4. n % d = 0
    BY <2>1, <2>3, MultipleOf
  <2> QED BY <2>1, <2>4 DEF IsPow2
<1> QED BY <1>3, <1>4, <1>5 DEF IsPow2

(* A smaller power of two divides a larger one.                            *)
LEMMA Pow2Divides ==
  ASSUME NEW a \in Nat, NEW b \in Nat, IsPow2(a), IsPow2(b), a <= b
  PROVE  \E c \in Nat : b = c * a
<1> DEFINE Good(n) == \A m \in Nat : IsPow2(m) /\ m <= n => \E c \in Nat : n = c * m
           Bad == {n \in Nat : IsPow2(n) /\ ~Good(n)}
<1>1. SUFFICES ASSUME Bad # {} PROVE FALSE
  OBVIOUS
<1>2. PICK n \in Bad : \A k \in Bad : n <= k
  BY <1>1, NatLeast, Zenon
<1>3. PICK m \in Nat : IsPow2(m) /\ m <= n /\ ~ \E c \in Nat : n = c * m
  BY <1>2
<1>4. m # 1 /\ n # 1 /\ n \in Nat /\ IsPow2(n)
  <2>1. n = n * 1 /\ n \in Nat /\ IsPow2(n)
    BY <1>2
  <2>2. m # 1
    BY <1>3, <2>1
  <2> QED BY <1>3, <2>1, <2>2 DEF IsPow2
<1>5. PICK h \in Nat : h < n /\ n = 2 * h /\ IsPow2(h)
  BY <1>4, HalfIsPow2
<1>6. PICK g \in Nat : g < m /\ m = 2 * g /\ IsPow2(g)
  BY <1>3, <1>4, HalfIsPow2
<1>7. h \notin Bad /\ g <= h
  BY <1>2, <1>3, <1>5, <1>6, SMTT(30)
<1>8. PICK c \in Nat : h = c * g
  BY <1>5, <1>6, <1>7
<1>9. n = c * m
  BY <1>5, <1>6, <1>8
<1> QED BY <1>3, <1>9

LEMMA BlockBytesPow2 ==
  ASSUME NEW t \in Orders
  PROVE  IsPow2(PageSize * Pow2[t]) /\ PageSize * Pow2[t] \in Nat
<1> DEFINE Bad == {o \in Orders : ~IsPow2(PageSize * Pow2[o])}
<1>1. /\ PageSize \in Nat /\ IsPow2(PageSize) /\ Pow2[0] = 1 /\ Orders \subseteq Nat
      /\ \A o \in Orders : Pow2[o] \in Nat /\ PageSize * Pow2[o] \in Nat
  BY ZoneAssumption, OrderAssumption, OrderTypes, MulRegroup
<1>2. SUFFICES ASSUME Bad # {} PROVE FALSE
  BY <1>1
<1>3. PICK m \in Bad : \A k \in Bad : m <= k
  BY <1>1, <1>2, NatLeast, Zenon
<1>4. m # 0
  <2>1. PageSize * Pow2[0] = PageSize
    BY <1>1
  <2> QED BY <1>1, <1>3, <2>1
<1>5. m - 1 \in Orders /\ m \in Orders /\ m - 1 \notin Bad
  BY <1>1, <1>3, <1>4, OrderAssumption DEF Orders
<1>6. PICK n : n = m - 1
  OBVIOUS
<1>7. n \in Orders /\ m = n + 1 /\ Pow2[m] = 2 * Pow2[n] /\ IsPow2(PageSize * Pow2[n])
  <2>1. n \in Orders /\ m = n + 1
    BY <1>1, <1>5, <1>6
  <2> QED BY <1>5, <1>6, <2>1, OrderTypes
<1>8. PageSize * Pow2[m] = 2 * (PageSize * Pow2[n])
  BY <1>1, <1>7
<1> QED BY <1>1, <1>3, <1>7, <1>8, DoubleIsPow2

(* What Takes gives is large and aligned enough, by the sizes alone.       *)
LEMMA AlignedEnough ==
  ASSUME NEW t \in Orders, NEW i \in Nat, i % Pow2[t] = 0,
         NEW align \in Nat, align = 1 \/ AlignOK(align), align <= PageSize * Pow2[t]
  PROVE  Addr(i) % align = 0
<1> DEFINE s == PageSize * Pow2[t]
<1>1. PageSize \in Nat /\ Base \in Nat /\ Pow2[t] \in Nat \ {0} /\ s \in Nat /\ IsPow2(s)
  BY ZoneAssumption, OrderTypes, BlockBytesPow2
<1>2. PICK q \in Nat : i = q * Pow2[t]
  BY <1>1, MultipleOf
<1>3. PageSize * i = q * s /\ PageSize * i \in Nat
  BY <1>1, <1>2
<1> HIDE DEF s
<1>4. CASE align = 1
  <2>1. Addr(i) \in Nat
    BY <1>1, <1>3 DEF Addr
  <2> QED BY <1>4, <2>1
<1>5. CASE AlignOK(align)
  <2>1. align \in Nat \ {0} /\ IsPow2(align) /\ Base % align = 0
    BY <1>5 DEF AlignOK, IsPow2
  <2>2. PICK c \in Nat : s = c * align
    BY <1>1, <2>1, Pow2Divides DEF s
  <2>3. PICK b \in Nat : Base = b * align
    BY <1>1, <2>1, MultipleOf
  <2> DEFINE e == q * c
  <2>4. q * (c * align) = e * align /\ e \in Nat
    BY <1>2, <2>1, <2>2, MulRegroup
  <2> HIDE DEF e
  <2>5. Addr(i) = (b + e) * align /\ b + e \in Nat
    <3>1. b * align + e * align = (b + e) * align
      BY <2>1, <2>3, <2>4, MulRegroup
    <3> QED BY <1>3, <2>2, <2>3, <2>4, <3>1 DEF Addr
  <2>6. Addr(i) \in Nat
    BY <1>1, <1>3 DEF Addr
  <2> QED BY <2>1, <2>5, <2>6, MultipleOf
<1> QED BY <1>4, <1>5

(* What the owner of block i got.                                          *)
Serves(i) ==
  /\ asked[i].size <= PageSize * Pow2[page[i].order]
  /\ Addr(i) % asked[i].align = 0
  /\ GetSize(i) >= asked[i].size
  /\ GetSize(i) \in {asked[i].size, asked[i].align}
AllServed == \A i \in Allocated : Serves(i)

LEMMA ServedMeans == IInv => (AllServed <=> ServesRequests)
BY BlockCount DEF AllServed, Serves, ServesRequests, Heads, Owners

LEMMA TakeServes ==
  ASSUME IInv, IInv', NEW bytes \in Nat, NEW size \in Sizes, NEW align \in Aligns \cup {1},
         NEW i \in Pages, NEW t \in Orders, NEW o \in Orders,
         Asks(bytes, size, align), Takes(i, t, o, bytes, size, align)
  PROVE  Serves(i)'
<1> DEFINE cnt == DivRoundUp(bytes, PageSize)
<1>1. /\ asked'[i] = [size |-> size, align |-> align]
      /\ page'[i] = [in_use |-> 1, order |-> t, cur_page_count |-> cnt, byte_size |-> bytes]
      /\ cnt <= Pow2[t] /\ i \in Owners'
  BY DEF Takes
<1>2. i \in Nat /\ i % Pow2[t] = 0
  <2>1. HeadsAligned' /\ i \in Heads'
    BY <1>1 DEF IInv, Heads
  <2> QED BY <1>1, <2>1, ZoneAssumption DEF HeadsAligned, Pages
<1>3. /\ size \in Nat /\ align \in Nat
      /\ size <= bytes
      /\ align <= bytes \/ align = 1
      /\ align = 1 \/ AlignOK(align)
      /\ bytes >= size /\ bytes \in {size, align}
  BY ZoneAssumption DEF Asks
<1>4. bytes <= PageSize * Pow2[t] /\ PageSize * Pow2[t] \in Nat \ {0}
  <2>1. cnt \in Nat /\ bytes <= PageSize * cnt
    BY RoundedUp
  <2> HIDE DEF cnt
  <2>2. PageSize \in Nat \ {0} /\ Pow2[t] \in Nat \ {0}
    BY ZoneAssumption, OrderTypes
  <2>3. cnt * PageSize <= Pow2[t] * PageSize
    BY <1>1, <2>1, <2>2, MulMono
  <2>4. PageSize * Pow2[t] \in Nat \ {0}
    BY <2>2, BlockBytesPow2 DEF IsPow2
  <2> QED BY <2>1, <2>2, <2>3, <2>4
<1> DEFINE s == PageSize * Pow2[t]
<1>5. Addr(i) % align = 0
  <2> HIDE DEF s
  <2>1. align <= s
    BY <1>3, <1>4 DEF s
  <2> QED BY <1>2, <1>3, <2>1, AlignedEnough DEF s
<1>6. size <= PageSize * Pow2[t]
  <2> HIDE DEF s
  <2>1. size <= s
    BY <1>3, <1>4 DEF s
  <2> QED BY <2>1 DEF s
<1>7. asked[i]' = [size |-> size, align |-> align] /\ GetSize(i)' = bytes /\ page[i].order' = t
      /\ Addr(i)' = Addr(i)
  BY <1>1 DEF GetSize, Addr
<1> QED BY <1>3, <1>5, <1>6, <1>7 DEF Serves

LEMMA ServedStep == IInv /\ IInv' /\ AllServed /\ StepOf => AllServed'
<1> SUFFICES ASSUME IInv, IInv', AllServed, StepOf PROVE AllServed'
  OBVIOUS
<1>1. ASSUME NEW g, g \in Allocated, page'[g] = page[g], asked'[g] = asked[g] PROVE Serves(g)'
  BY <1>1 DEF AllServed, Serves, GetSize, Addr
<1>2. Allocated \subseteq Owners
  BY DEF Owners
<1>3. CASE \E i \in Pages : /\ Releases(i) /\ Allocated' = Allocated \ {i} /\ i \in Allocated
                            /\ Free(i) /\ boot' = boot /\ asked' = [j \in Allocated' |-> asked[j]]
  <2>1. PICK i \in Pages : /\ Releases(i) /\ Allocated' = Allocated \ {i}
                           /\ asked' = [j \in Allocated' |-> asked[j]]
    BY <1>3
  <2>2. \A g \in Allocated' : g \in Allocated /\ asked'[g] = asked[g] /\ page'[g] = page[g]
    BY <1>2, <2>1 DEF Releases
  <2> QED BY <1>1, <2>2 DEF AllServed
<1>4. CASE Allocated = {} /\ asked' = asked
  <2>1. Allocated' = {}
    BY <1>4 DEF Allocated
  <2> QED BY <2>1 DEF AllServed
<1>5. CASE \E bytes \in Nat, size \in Sizes, align \in Aligns \cup {1}, i \in Pages, t, o \in Orders :
             Asks(bytes, size, align) /\ Takes(i, t, o, bytes, size, align)
  <2>1. PICK bytes \in Nat, size \in Sizes, align \in Aligns \cup {1}, i \in Pages, t \in Orders, o \in Orders :
               Asks(bytes, size, align) /\ Takes(i, t, o, bytes, size, align)
    BY <1>5
  <2>2. Serves(i)'
    BY <2>1, TakeServes
  <2>3. /\ Allocated' = Allocated \cup {i} /\ \A g \in Owners : page'[g] = page[g]
        /\ asked' = [j \in Allocated' |-> IF j = i THEN [size |-> size, align |-> align] ELSE asked[j]]
        /\ i \notin Owners
    BY <2>1 DEF Takes
  <2>4. \A g \in Allocated : asked'[g] = asked[g] /\ page'[g] = page[g]
    BY <1>2, <2>3
  <2> QED BY <1>1, <2>2, <2>3, <2>4 DEF AllServed
<1>6. CASE UNCHANGED <<page, asked>> /\ Allocated' = Allocated
  BY <1>1, <1>6 DEF AllServed
<1> QED BY <1>3, <1>4, <1>5, <1>6 DEF StepOf

(* The owner of a block has at least the bytes it asked for, at the        *)
(* alignment it asked for, for as long as it keeps the block: what other   *)
(* callers split and merge around it changes neither.                      *)
THEOREM BuddyServesRequests == Spec => []ServesRequests
<1>1. Init => AllServed
  BY DEF Init, AllServed, Allocated
<1>2. IInv /\ AllServed /\ [Next]_vars => AllServed'
  BY NextPreserves, StepKinds, ServedStep
<1> QED BY <1>1, <1>2, InitEstablishes, NextPreserves, ServedMeans, PTL DEF Spec

-----------------------------------------------------------------------------
(* The boot's data.                                                        *)

LEMMA RoundingFacts ==
  ASSUME NEW n \in Nat
  PROVE  /\ RoundUp(n) \in Nat /\ n <= RoundUp(n)
         /\ RoundDown(n) \in Nat /\ RoundDown(n) <= n
         /\ \E q \in Nat : RoundUp(n) = q * PageSize
         /\ \E q \in Nat : RoundDown(n) = q * PageSize
<1> DEFINE m == n + PageSize - 1
<1>1. PageSize \in Nat \ {0} /\ m \in Nat
  BY ZoneAssumption
<1>2. m \div PageSize \in Nat /\ m < (m \div PageSize) * PageSize + PageSize
      /\ n \div PageSize \in Nat /\ (n \div PageSize) * PageSize <= n
  BY <1>1, DivBounds
<1>3. (m \div PageSize) * PageSize \in Nat /\ (n \div PageSize) * PageSize \in Nat
  BY <1>1, <1>2, MulRegroup
<1>4. RoundUp(n) = (m \div PageSize) * PageSize /\ RoundDown(n) = (n \div PageSize) * PageSize
  BY DEF RoundUp, DivRoundUp, RoundDown
<1>5. PICK u : u = (m \div PageSize) * PageSize
  OBVIOUS
<1>6. n <= u
  BY <1>1, <1>2, <1>3, <1>5
<1> QED BY <1>2, <1>3, <1>4, <1>5, <1>6

(* A page that ends at or before a page boundary, or starts after it.      *)
LEMMA PageApart ==
  ASSUME NEW p \in Pages, NEW q \in Nat, Addr(p) < q * PageSize
  PROVE  Addr(p) + PageSize <= q * PageSize
<1>1. PageSize \in Nat \ {0} /\ Base \in Nat /\ p \in Nat
  BY ZoneAssumption DEF Pages
<1>2. PICK b \in Nat : Base = b * PageSize
  BY <1>1, ZoneAssumption, MultipleOf
<1>3. Addr(p) = (b + p) * PageSize
  BY <1>1, <1>2 DEF Addr
<1>4. b + p < q
  BY <1>1, <1>2, <1>3, MulLess
<1>5. (b + p + 1) * PageSize <= q * PageSize
  BY <1>1, <1>2, <1>4, MulMono
<1>6. (b + p) * PageSize + PageSize = (b + p + 1) * PageSize
  BY <1>1, <1>2
<1> QED BY <1>3, <1>5, <1>6

(* The pages the boot loop frees hold nothing of the image or the records. *)
LEMMA FreedHoldNothing ==
  ASSUME NEW p \in FreedAtBoot
  PROVE  Bytes(p) \cap BootBytes = {}
<1>1. p \in Pages /\ FreedByLoop(Addr(p))
  BY DEF FreedAtBoot
<1>2. /\ KernStart \in Nat /\ KernEnd \in Nat /\ KernStart < KernEnd
      /\ HeaderSize \in Nat /\ RecordSize * PageCount \in Nat
      /\ PageSize \in Nat \ {0} /\ Addr(p) \in Nat
  <2>1. RecordSize * PageCount \in Nat /\ PageSize * p \in Nat
    BY <1>1, BootstrapAssumption, ZoneAssumption, MulRegroup DEF Pages
  <2> QED BY <2>1, BootstrapAssumption, ZoneAssumption DEF Addr
<1>3. HeaderAt \in Nat /\ KernEnd <= HeaderAt
  BY <1>2, RoundingFacts DEF HeaderAt, BumpMalloc
<1>4. RecordsAt \in Nat /\ HeaderAt + HeaderSize <= RecordsAt
  <2>1. HeaderAt + HeaderSize \in Nat
    BY <1>2, <1>3
  <2> QED BY <2>1, RoundingFacts DEF RecordsAt, BumpMalloc
<1>5. BumpEnd \in Nat /\ RecordsAt <= BumpEnd
  <2> DEFINE r == RecordSize * PageCount
  <2>1. r \in Nat /\ BumpEnd = RecordsAt + r
    BY <1>2 DEF BumpEnd
  <2> HIDE DEF r
  <2> QED BY <1>4, <2>1
<1>6. real_kend \in Nat /\ BumpEnd <= real_kend
  <2>1. kend \in Nat /\ KernEnd <= kend
    BY <1>2, RoundingFacts DEF kend
  <2>2. kend + Area \in Nat /\ BumpEnd <= kend + Area
    BY <1>2, <1>3, <1>4, <1>5, <2>1 DEF Area
  <2> QED BY <1>5, <2>1, <2>2, RoundingFacts DEF real_kend
<1>7. BootBytes \subseteq KernStart .. BumpEnd - 1
  BY <1>2, <1>3, <1>4, <1>5 DEF BootBytes
<1>8. CASE Addr(p) < kstart
  <2>1. PICK q \in Nat : kstart = q * PageSize
    BY <1>2, RoundingFacts DEF kstart
  <2>2. Addr(p) + PageSize <= kstart
    BY <1>1, <1>8, <2>1, PageApart
  <2>3. kstart \in Nat /\ kstart <= KernStart
    BY <1>2, RoundingFacts DEF kstart
  <2> QED BY <1>2, <1>7, <2>2, <2>3 DEF Bytes
<1>9. CASE Addr(p) > real_kend
  BY <1>2, <1>5, <1>6, <1>7, <1>9 DEF Bytes
<1> QED BY <1>1, <1>8, <1>9 DEF FreedByLoop

(* When the zone's usable pages are those the boot loop frees, no page the *)
(* allocator ever hands out or lists holds a byte of the kernel image or of*)
(* the allocator's own records, however the image and the records lie in   *)
(* the zone.                                                               *)
THEOREM BootDataIsKept ==
  ASSUME Usable = FreedAtBoot
  PROVE  Spec => []BootDataKept
<1>1. IInv => BootDataKept
  <2> SUFFICES ASSUME IInv, NEW i \in Allocated \cup FreeHeads, NEW p \in Block(i)
               PROVE  Bytes(p) \cap BootBytes = {}
    BY DEF BootDataKept
  <2>1. p \in Usable
    BY PoolIsUsable DEF FreePages
  <2> QED BY <2>1, FreedHoldNothing
<1> QED BY <1>1, BuddyInvariant, PTL

-----------------------------------------------------------------------------
(* Requests are whole pages.                                               *)

LEMMA PageMultiples ==
  ASSUME NEW k \in Nat
  PROVE  /\ PageSize * k \in Nat
         /\ (PageSize * k) \div PageSize = k
         /\ (PageSize * k) % PageSize = 0
         /\ DivRoundUp(PageSize * k, PageSize) = k
<1> DEFINE n == PageSize * k
<1>1. PageSize \in Nat \ {0} /\ n = k * PageSize /\ n \in Nat
  BY ZoneAssumption
<1>2. n + PageSize - 1 \in Nat /\ n + PageSize - 1 < k * PageSize + PageSize /\ n <= n + PageSize - 1
  BY <1>1
<1> HIDE DEF n
<1>3. n \div PageSize = k
  BY <1>1, DivUnique
<1>4. n % PageSize = 0
  BY <1>1, MultipleOf
<1>5. (n + PageSize - 1) \div PageSize = k
  BY <1>1, <1>2, DivUnique
<1> QED BY <1>1, <1>3, <1>4, <1>5 DEF DivRoundUp, n

LEMMA WholePages ==
  /\ \A size \in Sizes : \E k \in Nat \ {0} : size = PageSize * k
  /\ \A align \in Aligns : \E a \in Nat \ {0} : align = PageSize * a
<1>1. ASSUME NEW n \in Nat, n > 0, n % PageSize = 0
      PROVE  \E k \in Nat \ {0} : n = PageSize * k
  <2>1. PageSize \in Nat \ {0}
    BY ZoneAssumption
  <2>2. PICK k \in Nat : n = k * PageSize
    BY <1>1, <2>1, MultipleOf
  <2> QED BY <1>1, <2>1, <2>2
<1> QED BY <1>1, AdapterAssumption, ZoneAssumption

(* alloc_aligned_pages moves the first page on by less than the alignment. *)
LEMMA AlignedFirst ==
  ASSUME NEW i \in Nat, NEW a \in Nat \ {0}
  PROVE  \E d \in 0 .. a - 1 : IndexOf(AlignAbove(Addr(i), PageSize * a)) = i + d
<1> DEFINE align == PageSize * a
           n == Addr(i)
<1>1. PageSize \in Nat \ {0} /\ Base \in Nat
  BY ZoneAssumption
<1>2. PICK b \in Nat : Base = b * PageSize
  BY <1>1, ZoneAssumption, MultipleOf
<1>3. n = (b + i) * PageSize /\ n \in Nat /\ b + i \in Nat
  BY <1>1, <1>2 DEF Addr
<1>4. align \in Nat \ {0} /\ align = a * PageSize
  BY <1>1
<1> HIDE DEF align, n
<1> DEFINE q == (n + align - 1) \div align
<1>5. q \in Nat /\ q * align <= n + align - 1 /\ n + align - 1 < q * align + align
  <2>1. n + align - 1 \in Nat
    BY <1>3, <1>4
  <2> QED BY <1>4, <2>1, DivBounds
<1> HIDE DEF q
<1> DEFINE m == q * a
<1>6. m \in Nat /\ q * align = m * PageSize
  BY <1>1, <1>4, <1>5, MulRegroup
<1> HIDE DEF m
<1>7. b + i <= m
  <2>1. n < m * PageSize + 1
    BY <1>3, <1>4, <1>5, <1>6
  <2>2. (b + i) * PageSize < (m + 1) * PageSize
    <3>1. (m + 1) * PageSize = m * PageSize + PageSize
      BY <1>1, <1>6
    <3>2. m * PageSize \in Nat
      BY <1>1, <1>6
    <3> QED BY <1>1, <1>3, <2>1, <3>1, <3>2
  <2>3. b + i < m + 1
    BY <1>1, <1>3, <1>6, <2>2, MulLess
  <2> QED BY <1>3, <1>6, <2>3
<1>8. m < b + i + a
  <2>1. (b + i) * PageSize + a * PageSize = (b + i + a) * PageSize
    BY <1>1, <1>3, MulRegroup
  <2>2. m * PageSize < (b + i + a) * PageSize
    <3>1. m * PageSize \in Nat
      BY <1>1, <1>6
    <3> QED BY <1>3, <1>4, <1>5, <1>6, <2>1, <3>1
  <2> QED BY <1>1, <1>3, <1>6, <2>2, MulLess
<1>9. IndexOf(AlignAbove(n, align)) = m - b
  <2>1. AlignAbove(n, align) = m * PageSize
    BY <1>6 DEF AlignAbove, q
  <2> DEFINE c == m - b
  <2>2. c \in Nat /\ m = b + c
    BY <1>2, <1>3, <1>6, <1>7
  <2> HIDE DEF c
  <2>3. m * PageSize = b * PageSize + PageSize * c
    BY <1>1, <1>2, <2>2
  <2>4. m * PageSize - Base = PageSize * c
    <3> DEFINE e == PageSize * c
    <3>1. e \in Nat /\ Base \in Nat
      BY <1>1, <2>2
    <3> HIDE DEF e
    <3>2. m * PageSize = Base + e
      BY <1>2, <2>3 DEF e
    <3> QED BY <3>1, <3>2 DEF e
  <2> QED BY <2>1, <2>2, <2>4, PageMultiples DEF IndexOf, c
<1> DEFINE d == m - b - i
<1>10. d \in 0 .. a - 1 /\ i + d = m - b
  BY <1>2, <1>6, <1>7, <1>8
<1> HIDE DEF d
<1>11. IndexOf(AlignAbove(n, align)) = i + d
  BY <1>9, <1>10
<1> QED BY <1>10, <1>11 DEF n, align

-----------------------------------------------------------------------------
(* What the pages are filled with stays with the call, in every state.     *)

(* A piece of a block, and a caller's run: whole pages.                    *)
Piece == [index : Nat, size : {PageSize * k : k \in Nat}]
RunHeld(i) == \E k \in Nat : pages_held[i] = i .. i + k - 1

(* What holds whatever the records of torn blocks say.                     *)
Shapes ==
  /\ list \in [Orders -> Seq(Nat)]
  /\ boot \in Nat
  /\ padding \in Seq(Piece)
  /\ \A i \in DOMAIN pages_held \cap Nat : RunHeld(i)

LEMMA ReleaseShapes ==
  ASSUME Shapes, NEW i \in Nat, ReleaseBlock(i)
  PROVE  list' \in [Orders -> Seq(Nat)]
<1> DEFINE first == page[i].order
           last == MergedOrder(i)
           head == LowIndex(i, last)
<1>1. list' = [o \in Orders |->
                IF o \in first .. last - 1 THEN RemoveFirst(list[o], MergeBuddy(i, o))
                ELSE IF o = last THEN <<head>> \o list[o]
                ELSE list[o]]
  BY DEF ReleaseBlock
<1>2. last \in Orders => head \in Nat
  <2> HAVE last \in Orders
  <2>1. Pow2[last] \in Nat \ {0}
    BY OrderTypes
  <2>2. i \div Pow2[last] \in Nat
    BY <2>1, DivBounds
  <2> QED BY <2>1, <2>2, MulRegroup DEF LowIndex
<1> HIDE DEF head, last, first
<1>3. ASSUME NEW o \in Orders PROVE list'[o] \in Seq(Nat)
  <2>1. list[o] \in Seq(Nat)
    BY DEF Shapes
  <2>2. RemoveFirst(list[o], MergeBuddy(i, o)) \in Seq(Nat)
    BY <2>1, ListDel
  <2>3. o = last => <<head>> \o list[o] \in Seq(Nat)
    BY <1>2, <2>1, ListAdd
  <2> QED BY <1>1, <2>1, <2>2, <2>3
<1> QED BY <1>1, <1>3

LEMMA TakeShapes ==
  ASSUME Shapes, NEW bytes \in Nat, NEW size, NEW align, ~Fails(bytes),
         AllocateBytes(bytes, size, align)
  PROVE  Found(bytes) \in Nat /\ list' \in [Orders -> Seq(Nat)]
<1> DEFINE cnt == DivRoundUp(bytes, PageSize)
           target == Min(Fitting(cnt))
           order == Min(Candidates(cnt))
           index == Head(list[order])
           cuts == target .. order - 1
<1>1. cnt \in Nat /\ Candidates(cnt) # {}
  BY RoundedUp DEF Fails
<1>2. target \in Orders /\ order \in Orders /\ list[order] # << >>
  BY <1>1, SearchFinds
<1>3. index \in Nat
  BY <1>2 DEF Shapes
<1>4. list' = [o \in Orders |->
                IF o = order THEN Tail(list[o])
                ELSE IF o \in cuts /\ GetHighIndex(index, o) < PageCount
                THEN <<GetHighIndex(index, o)>> \o list[o]
                ELSE list[o]]
  BY <1>1, Zenon DEF AllocateBytes, TakeBlock
<1>5. Found(bytes) = index
  BY DEF Found
<1> HIDE DEF cnt, target, order, index, cuts
<1>6. ASSUME NEW o \in Orders PROVE list'[o] \in Seq(Nat)
  <2>1. list[o] \in Seq(Nat)
    BY DEF Shapes
  <2>2. GetHighIndex(index, o) \in Nat
    BY <1>3, OrderTypes DEF GetHighIndex
  <2>3. <<GetHighIndex(index, o)>> \o list[o] \in Seq(Nat)
    BY <2>1, <2>2, ListAdd
  <2>4. o = order => Tail(list[o]) \in Seq(Nat)
    BY <1>2, <2>1
  <2> QED BY <1>4, <2>1, <2>3, <2>4
<1> QED BY <1>3, <1>4, <1>5, <1>6

(* What the adapters fill.                                                 *)
LEMMA FilledRun ==
  ASSUME NEW i, NEW k \in Nat
  PROVE  Filled(i, PageSize * k) = i .. i + k - 1 /\ PageRun(i, PageSize * k) = i .. i + k - 1
BY PageMultiples DEF Filled, PageRun

LEMMA HeldSize ==
  ASSUME NEW i \in Nat, NEW k \in Nat
  PROVE  Cardinality(i .. i + k - 1) = k
<1> DEFINE b == i + k - 1
<1>1. b \in Int /\ (IF i > b THEN 0 ELSE b - i + 1) = k
  OBVIOUS
<1> HIDE DEF b
<1>2. Cardinality(i .. b) = k
  BY <1>1, FS_Interval
<1> QED BY <1>2 DEF b

-----------------------------------------------------------------------------
(* The three calls, once each.                                             *)

(* A caller that asked for k pages at the alignment of a has its run d     *)
(* pages into the block, and what is left of the block's k + a - 1 pages is*)
(* to be freed.                                                            *)
Parts(size, i, first, bytes, left) ==
  \E k \in Nat \ {0}, a \in Nat \ {0}, d \in Nat :
    /\ size = PageSize * k /\ d < a
    /\ bytes = PageSize * (k + a - 1)
    /\ first = i + d
    /\ PageSize * (first - i) = PageSize * d
    /\ left = PageSize * (a - 1 - d)
    /\ first + size \div PageSize \in Nat

LEMMA AlignedParts ==
  ASSUME NEW size \in Sizes, NEW align \in Aligns, NEW i \in Nat,
         NEW first, first = IndexOf(AlignAbove(Addr(i), align)),
         NEW bytes, bytes = size + align - PageSize,
         NEW left, left = bytes - PageSize * (first - i) - size
  PROVE  Parts(size, i, first, bytes, left)
<1>1. PICK k \in Nat \ {0}, a \in Nat \ {0} : size = PageSize * k /\ align = PageSize * a
  BY WholePages
<1>2. PICK d \in 0 .. a - 1 : first = i + d
  BY <1>1, AlignedFirst
<1>3. d \in Nat /\ d < a /\ PageSize \in Nat \ {0} /\ first - i = d
  BY <1>2, ZoneAssumption
<1>4. bytes = PageSize * (k + a - 1)
  BY <1>1, <1>3
<1>5. left = PageSize * (a - 1 - d)
  BY <1>1, <1>3
<1>6. first + size \div PageSize \in Nat
  BY <1>1, <1>2, <1>3, PageMultiples
<1> QED BY <1>1, <1>2, <1>3, <1>4, <1>5, <1>6 DEF Parts

Confined == Shapes /\ FillsOwnPages

(* pages_held after a run is handed out or given back.                     *)
LEMMA HandedOut ==
  ASSUME Shapes, NEW first, NEW run, first \in Nat => \E k \in Nat : run = first .. first + k - 1,
         pages_held' = [i \in DOMAIN pages_held \cup {first} |->
                          IF i = first THEN run ELSE pages_held[i]]
  PROVE  \A i \in DOMAIN pages_held' \cap Nat : RunHeld(i)'
<1>1. DOMAIN pages_held' = DOMAIN pages_held \cup {first}
  OBVIOUS
<1>2. \A i \in DOMAIN pages_held' : pages_held'[i] = IF i = first THEN run ELSE pages_held[i]
  BY <1>1
<1> QED BY <1>1, <1>2 DEF Shapes, RunHeld

LEMMA AllocPagesConfined ==
  ASSUME Confined, NEW size \in Sizes, NEW zero \in BOOLEAN, NEW stale \in Pages,
         AllocPages(size, zero, stale)
  PROVE  Confined'
<1>1. PICK k \in Nat \ {0} : size = PageSize * k
  BY WholePages
<1>2. CASE AllocFails(size, zero, stale)
  <2>1. UNCHANGED <<list, boot, padding, pages_held>> /\ failed'
    BY <1>2 DEF AllocFails, vars
  <2> QED BY <2>1 DEF Confined, Shapes, FillsOwnPages, RunHeld, Orders
<1>3. CASE ~AllocFails(size, zero, stale)
  <2> DEFINE first == Found(size)
  <2>1. /\ ~Fails(size) /\ AllocateBytes(size, size, 1) /\ UNCHANGED padding
        /\ Zeroed(size, zero, first)
        /\ pages_held' = [i \in DOMAIN pages_held \cup {first} |->
                            IF i = first THEN PageRun(i, size) ELSE pages_held[i]]
        /\ own' = PageRun(first, size) /\ ~failed'
    BY <1>3 DEF AllocPages
  <2>2. size \in Nat /\ Fails(size) = (Candidates(DivRoundUp(size, PageSize)) = {})
    BY ZoneAssumption DEF Fails
  <2>3. list' \in [Orders -> Seq(Nat)] /\ boot' = boot
    <3>1. boot' = boot
      BY <2>1, <2>2 DEF AllocateBytes
    <3> QED BY <2>1, <2>2, <3>1, TakeShapes DEF Confined
  <2> HIDE DEF first
  <2>4. PageRun(first, size) = first .. first + k - 1 /\ Filled(first, size) = PageRun(first, size)
    BY <1>1, FilledRun
  <2>5. pages_held' = [i \in DOMAIN pages_held \cup {first} |->
                         IF i = first THEN PageRun(first, size) ELSE pages_held[i]]
    BY <2>1
  <2>6. \A i \in DOMAIN pages_held' \cap Nat : RunHeld(i)'
    BY <2>4, <2>5, HandedOut DEF Confined
  <2>7. FillsOwnPages'
    BY <2>1, <2>4 DEF FillsOwnPages, Zeroed
  <2>8. padding' \in Seq(Piece)
    BY <2>1 DEF Confined, Shapes
  <2> QED BY <2>3, <2>6, <2>7, <2>8 DEF Confined, Shapes, Orders, Piece
<1> QED BY <1>2, <1>3

LEMMA AlignedPagesConfined ==
  ASSUME Confined, NEW size \in Sizes, NEW align \in Aligns, NEW zero \in BOOLEAN, NEW stale \in Pages,
         AlignedPages(size, align, zero, stale)
  PROVE  Confined'
<1> DEFINE bytes == size + align - PageSize
           block == Found(bytes)
           first == IndexOf(AlignAbove(Addr(block), align))
           left == bytes - PageSize * (first - block) - size
           before == <<[index |-> block, size |-> PageSize * (first - block)]>>
           after == <<[index |-> first + size \div PageSize, size |-> left]>>
<1>1. CASE AllocFails(bytes, zero, stale)
  <2>1. UNCHANGED <<list, boot, padding, pages_held>> /\ failed'
    BY <1>1 DEF AllocFails, vars
  <2> QED BY <2>1 DEF Confined, Shapes, FillsOwnPages, RunHeld, Orders
<1>2. CASE ~AllocFails(bytes, zero, stale)
  <2>1. /\ ~Fails(bytes) /\ AllocateBytes(bytes, size, align)
        /\ Zeroed(bytes, zero, block)
        /\ pages_held' = [i \in DOMAIN pages_held \cup {first} |->
                            IF i = first THEN PageRun(i, size) ELSE pages_held[i]]
        /\ padding' = (IF first > block THEN before ELSE << >>) \o (IF left > 0 THEN after ELSE << >>)
        /\ own' = PageRun(block, bytes) /\ ~failed'
    BY <1>2 DEF AlignedPages
  <2>2. PICK m \in Nat : bytes = PageSize * m
    <3>1. PICK p \in Nat \ {0}, q \in Nat \ {0} : size = PageSize * p /\ align = PageSize * q
      BY WholePages
    <3>2. bytes = PageSize * (p + q - 1) /\ p + q - 1 \in Nat
      BY <3>1, ZoneAssumption
    <3> QED BY <3>2
  <2>3. bytes \in Nat
    BY <2>2, PageMultiples
  <2>4. block \in Nat /\ list' \in [Orders -> Seq(Nat)] /\ boot' = boot
    <3> HIDE DEF bytes
    <3>1. boot' = boot
      BY <2>1 DEF AllocateBytes, Fails
    <3> QED BY <2>1, <2>3, <3>1, TakeShapes DEF Confined
  <2>5. PICK k \in Nat \ {0}, a \in Nat \ {0}, d \in Nat :
           /\ size = PageSize * k /\ d < a
           /\ bytes = PageSize * (k + a - 1)
           /\ first = block + d
           /\ PageSize * (first - block) = PageSize * d
           /\ left = PageSize * (a - 1 - d)
           /\ first + size \div PageSize \in Nat
    <3>1. /\ first = IndexOf(AlignAbove(Addr(block), align))
          /\ bytes = size + align - PageSize
          /\ left = bytes - PageSize * (first - block) - size
      OBVIOUS
    <3> HIDE DEF block, first, bytes, left
    <3>2. Parts(size, block, first, bytes, left)
      BY <2>4, <3>1, AlignedParts
    <3> QED BY <3>2 DEF Parts
  <2>6. /\ [index |-> block, size |-> PageSize * (first - block)] \in Piece
        /\ [index |-> first + size \div PageSize, size |-> left] \in Piece
    <3> HIDE DEF block, first, left
    <3>1. a - 1 - d \in Nat
      BY <2>5
    <3> QED BY <2>4, <2>5, <3>1 DEF Piece
  <2>7. padding' \in Seq(Piece)
    <3>1. before \in Seq(Piece) /\ after \in Seq(Piece)
      BY <2>6
    <3> HIDE DEF before, after
    <3>2. (IF first > block THEN before ELSE << >>) \in Seq(Piece)
          /\ (IF left > 0 THEN after ELSE << >>) \in Seq(Piece)
      BY <3>1
    <3> QED BY <2>1, <3>2, ConcatProperties
  <2>8. PageRun(first, size) = first .. first + k - 1 /\ Filled(block, bytes) = PageRun(block, bytes)
    <3> HIDE DEF bytes, block, first
    <3>1. k + a - 1 \in Nat
      BY <2>5
    <3> QED BY <2>5, <3>1, FilledRun
  <2> HIDE DEF first
  <2>9. \A i \in DOMAIN pages_held' \cap Nat : RunHeld(i)'
    <3>1. pages_held' = [i \in DOMAIN pages_held \cup {first} |->
                           IF i = first THEN PageRun(first, size) ELSE pages_held[i]]
      BY <2>1
    <3> QED BY <2>8, <3>1, HandedOut DEF Confined
  <2> HIDE DEF block, bytes
  <2>10. FillsOwnPages'
    BY <2>1, <2>8 DEF FillsOwnPages, Zeroed
  <2> QED BY <2>4, <2>7, <2>9, <2>10 DEF Confined, Shapes, Orders, Piece
<1> QED BY <1>1, <1>2

(* free__adapter frees a block, or stops.                                  *)
LEMMA FreeAdapterShapes ==
  ASSUME Shapes, NEW i \in Nat, NEW bytes, FreeAdapter(i, bytes)
  PROVE  list' \in [Orders -> Seq(Nat)] /\ boot' = boot
<1>1. CASE ReleaseBlock(i) /\ boot' = boot
  BY <1>1, ReleaseShapes
<1>2. CASE list' = list /\ boot' = boot
  BY <1>2 DEF Shapes
<1> QED BY <1>1, <1>2 DEF FreeAdapter

LEMMA FreePagesConfined ==
  ASSUME Confined, NEW i \in Pages, NEW unsafe \in BOOLEAN, FreePagesOf(i, unsafe)
  PROVE  Confined'
<1>1. i \in Nat /\ i \in DOMAIN pages_held
  BY ZoneAssumption DEF FreePagesOf, Pages
<1>2. PICK k \in Nat : pages_held[i] = i .. i + k - 1
  BY <1>1 DEF Confined, Shapes, RunHeld
<1>3. Cardinality(pages_held[i]) = k
  BY <1>1, <1>2, HeldSize
<1>4. /\ Junked(i, PageSize * k, unsafe) /\ FreeAdapter(i, PageSize * k)
      /\ pages_held' = [j \in DOMAIN pages_held \ {i} |-> pages_held[j]]
      /\ own' = pages_held[i] /\ UNCHANGED padding
  BY <1>3 DEF FreePagesOf
<1>5. list' \in [Orders -> Seq(Nat)] /\ boot' = boot
  BY <1>1, <1>4, FreeAdapterShapes DEF Confined
<1>6. FillsOwnPages'
  BY <1>2, <1>4, FilledRun DEF FillsOwnPages, Junked
<1>7. \A j \in DOMAIN pages_held' \cap Nat : RunHeld(j)'
  <2>1. DOMAIN pages_held' = DOMAIN pages_held \ {i}
        /\ \A j \in DOMAIN pages_held' : pages_held'[j] = pages_held[j]
    BY <1>4
  <2> QED BY <2>1 DEF Confined, Shapes, RunHeld
<1> QED BY <1>4, <1>5, <1>6, <1>7 DEF Confined, Shapes, Orders, Piece

LEMMA FreePaddingConfined ==
  ASSUME Confined, NEW unsafe \in BOOLEAN, FreePadding(unsafe)
  PROVE  Confined'
<1>1. PICK piece \in Piece : piece = Head(padding)
  BY DEF FreePadding, Confined, Shapes
<1>2. PICK i \in Nat, k \in Nat : piece.index = i /\ piece.size = PageSize * k
  BY <1>1 DEF Piece
<1>3. /\ Junked(i, PageSize * k, unsafe) /\ FreeAdapter(i, PageSize * k)
      /\ own' = PageRun(i, PageSize * k)
      /\ padding' = Tail(padding) /\ padding # << >> /\ UNCHANGED pages_held
  BY <1>1, <1>2 DEF FreePadding
<1>4. list' \in [Orders -> Seq(Nat)] /\ boot' = boot
  BY <1>3, FreeAdapterShapes DEF Confined
<1>5. FillsOwnPages'
  BY <1>3, FilledRun DEF FillsOwnPages, Junked
<1>6. padding' \in Seq(Piece)
  BY <1>3 DEF Confined, Shapes
<1> QED BY <1>3, <1>4, <1>5, <1>6 DEF Confined, Shapes, Orders, Piece, RunHeld

LEMMA BootConfined ==
  ASSUME Confined, BootFree, UNCHANGED adapterVars
  PROVE  Confined'
<1>1. boot \in Nat /\ boot' = boot + 1
  BY DEF Confined, Shapes, BootFree
<1>2. list' \in [Orders -> Seq(Nat)]
  <2>1. CASE ReleaseBlock(boot)
    BY <1>1, <2>1, ReleaseShapes DEF Confined
  <2>2. CASE list' = list
    BY <2>2 DEF Confined, Shapes
  <2> QED BY <2>1, <2>2 DEF BootFree
<1> QED BY <1>1, <1>2 DEF Confined, Shapes, FillsOwnPages, Orders, Piece, RunHeld, adapterVars

LEMMA ConfinedStep == Confined /\ [ANext]_allVars => Confined'
<1> SUFFICES ASSUME Confined, [ANext]_allVars PROVE Confined'
  OBVIOUS
<1>1. CASE (Stopped /\ UNCHANGED adapterVars) \/ UNCHANGED allVars
  BY <1>1 DEF Stopped, vars, allVars, adapterVars, Confined, Shapes, FillsOwnPages, Orders, RunHeld
<1> QED BY <1>1, BootConfined, AllocPagesConfined, AlignedPagesConfined, FreePaddingConfined,
           FreePagesConfined DEF ANext

(* Filling for GFP_ZERO and for the lack of GFP_UNSAFE never reaches a page*)
(* of another caller, whatever is allocated, aligned and freed, and even   *)
(* after the allocator has taken back pieces of blocks.                    *)
THEOREM AdapterFillsOwnPages == ASpec => []FillsOwnPages
<1>1. AInit => Confined
  <2> SUFFICES ASSUME AInit PROVE Confined
    OBVIOUS
  <2> QED BY DEF AInit, Init, Confined, Shapes, FillsOwnPages
<1>2. Confined => FillsOwnPages
  BY DEF Confined
<1> QED BY <1>1, <1>2, ConfinedStep, PTL DEF ASpec

-----------------------------------------------------------------------------
(* Until the allocator takes back a piece of a block, the callers of the   *)
(* adapters are the owners of its blocks.                                  *)

Sane == padding = << >> /\ ~halted /\ ~torn

(* A caller's run starts its block and is what the block's record says was *)
(* asked for.                                                              *)
Held(i) ==
  \E k \in Nat \ {0} :
    /\ k <= Pow2[page[i].order]
    /\ GetSize(i) = PageSize * k
    /\ pages_held[i] = i .. i + k - 1

HeldMatch == DOMAIN pages_held = Allocated /\ \A i \in Allocated : Held(i)
Zone == IInv /\ Counts /\ HeldMatch

HeldIn(i) == pages_held[i] \subseteq Block(i)

LEMMA HeldInBlocks ==
  ASSUME IInv, HeldMatch
  PROVE  /\ \A i \in DOMAIN pages_held : HeldIn(i)
         /\ Kernel!Owned \subseteq OwnedPages
<1>1. ASSUME NEW i \in DOMAIN pages_held PROVE HeldIn(i) /\ i \in Owners
  <2>1. i \in Allocated /\ i \in Owners /\ i \in Heads
    BY DEF HeldMatch, Owners, Heads
  <2>2. PICK k \in Nat \ {0} : k <= Pow2[page[i].order] /\ pages_held[i] = i .. i + k - 1
    BY <2>1 DEF HeldMatch, Held
  <2>3. i \in Nat /\ Pow2[page[i].order] \in Nat
    BY <2>1, HeadFacts, OrderTypes
  <2> QED BY <2>1, <2>2, <2>3 DEF HeldIn, Block
<1>2. Kernel!Owned = UNION {pages_held[i] : i \in DOMAIN pages_held}
  BY DEF Kernel!Owned
<1> QED BY <1>1, <1>2 DEF HeldIn, OwnedPages

LEMMA HeldSizes ==
  ASSUME IInv, HeldMatch, NEW i \in DOMAIN pages_held
  PROVE  GetSize(i) = PageSize * Cardinality(pages_held[i])
<1>1. i \in Allocated /\ i \in Nat
  <2>1. i \in Allocated /\ i \in Heads
    BY DEF HeldMatch, Owners, Heads
  <2> QED BY <2>1, HeadFacts
<1>2. PICK k \in Nat \ {0} : GetSize(i) = PageSize * k /\ pages_held[i] = i .. i + k - 1
  BY <1>1 DEF HeldMatch, Held
<1> QED BY <1>1, <1>2, HeldSize

(* A block is found and handed out.                                        *)
LEMMA AllocateZone ==
  ASSUME IInv, Counts, Running, NEW bytes \in Nat, NEW size \in Sizes, NEW align \in Aligns \cup {1},
         ~Fails(bytes), AllocateBytes(bytes, size, align)
  PROVE  /\ IInv' /\ Counts'
         /\ \E i \in Pages, t \in Orders, o \in Orders :
              i = Found(bytes) /\ Takes(i, t, o, bytes, size, align)
<1>1. \E i \in Pages, t \in Orders, o \in Orders :
        i = Found(bytes) /\ Takes(i, t, o, bytes, size, align)
  BY AllocateTakes DEF Fails, Found
<1>2. IInv'
  BY AllocatePreserves
<1> QED BY <1>1, <1>2, TakeCounted

(* When nothing is left of the block, its caller holds it.                 *)
LEMMA HandedWhole ==
  ASSUME IInv, HeldMatch, NEW i \in Pages, NEW t \in Orders, NEW o, NEW k \in Nat \ {0},
         NEW size, NEW align, Takes(i, t, o, PageSize * k, size, align),
         pages_held' = [j \in DOMAIN pages_held \cup {i} |->
                          IF j = i THEN i .. i + k - 1 ELSE pages_held[j]]
  PROVE  HeldMatch'
<1>1. /\ Allocated' = Allocated \cup {i} /\ i \notin Allocated
      /\ \A g \in Allocated : page'[g] = page[g]
      /\ page'[i].order = t /\ page'[i].byte_size = PageSize * k
      /\ DivRoundUp(PageSize * k, PageSize) <= Pow2[t]
  BY DEF Takes, Owners
<1>2. k <= Pow2[t]
  BY <1>1, PageMultiples
<1>3. DOMAIN pages_held' = Allocated'
  BY <1>1 DEF HeldMatch
<1>4. pages_held'[i] = i .. i + k - 1 /\ \A j \in Allocated : pages_held'[j] = pages_held[j]
  BY <1>1 DEF HeldMatch
<1>5. Held(i)'
  BY <1>1, <1>2, <1>4 DEF Held, GetSize
<1>6. ASSUME NEW j \in Allocated PROVE Held(j)'
  BY <1>1, <1>4 DEF HeldMatch, Held, GetSize
<1> QED BY <1>1, <1>3, <1>5, <1>6 DEF HeldMatch

(* A caller is given k pages of the block, from its page d on.             *)
LEMMA HandedPart ==
  ASSUME IInv, HeldMatch, IInv', NEW i \in Pages, NEW t \in Orders, NEW o, NEW n \in Nat,
         NEW size, NEW align, Takes(i, t, o, PageSize * n, size, align),
         NEW d \in Nat, NEW k \in Nat \ {0}, d + k <= n, NEW first, first = i + d,
         pages_held' = [j \in DOMAIN pages_held \cup {first} |->
                          IF j = first THEN first .. first + k - 1 ELSE pages_held[j]]
  PROVE  Kernel!Next
<1> DEFINE last == first + k - 1
<1>1. /\ i \notin Owners /\ Owners' = Owners \cup {i}
      /\ \A g \in Owners : page'[g] = page[g]
      /\ page'[i].order = t
      /\ DivRoundUp(PageSize * n, PageSize) <= Pow2[t]
  BY DEF Takes
<1>2. n <= Pow2[t] /\ Pow2[t] \in Nat /\ i \in Nat
  BY <1>1, PageMultiples, OrderTypes, ZoneAssumption, SMTT(30) DEF Pages
<1>3. /\ first .. last \subseteq Block(i)' /\ first \in first .. last /\ last \in first .. last
  BY <1>1, <1>2 DEF Block
<1> HIDE DEF last
<1>4. first .. last \subseteq FreePages /\ FreePages \subseteq Usable
  BY <1>1, <1>3, TakeUsesFree, PoolIsUsable
<1>5. FreePages \cap Kernel!Owned = {}
  BY HeldInBlocks, FreeIsNotOwned DEF FreeNotOwned
<1>6. Kernel!Alloc(first, first .. last)
  BY <1>3, <1>4, <1>5 DEF Kernel!Alloc, last
<1>7. first \in Usable \ Kernel!Owned /\ last \in Usable
  BY <1>3, <1>4, <1>5
<1> QED BY <1>6, <1>7 DEF Kernel!Next

LEMMA ZoneStill ==
  ASSUME Zone, UNCHANGED <<vars, pages_held>>
  PROVE  Zone'
<1>1. IInv'
  BY Stutters DEF Zone, vars, IInv, TypeOK
<1>2. Counts'
  BY DEF Zone, vars, Counts, FreePages, FreeHeads, Block, OwnedWaste, Wasted, Owners,
         Allocated, Kept, Pages, Orders
<1>3. HeldMatch'
  BY DEF Zone, vars, HeldMatch, Held, GetSize, Allocated
<1> QED BY <1>1, <1>2, <1>3 DEF Zone

LEMMA AllocPagesZone ==
  ASSUME Zone, NEW size \in Sizes, NEW zero \in BOOLEAN, NEW stale \in Pages,
         AllocPages(size, zero, stale)
  PROVE  Zone' /\ [Kernel!Next]_pages_held
<1>1. CASE Fails(size)
  <2>1. UNCHANGED <<vars, pages_held>>
    BY <1>1 DEF AllocPages, AllocFails
  <2> QED BY <2>1, ZoneStill
<1>2. CASE ~Fails(size)
  <2>1. PICK k \in Nat \ {0} : size = PageSize * k
    BY WholePages
  <2>2. /\ Running /\ AllocateBytes(size, size, 1)
        /\ pages_held' = [i \in DOMAIN pages_held \cup {Found(size)} |->
                            IF i = Found(size) THEN PageRun(i, size) ELSE pages_held[i]]
    BY <1>2 DEF AllocPages, AllocFails, Ready
  <2>3. size \in Nat /\ 1 \in Aligns \cup {1} /\ IInv /\ Counts /\ HeldMatch
    BY ZoneAssumption DEF Zone
  <2>4. IInv' /\ Counts'
    BY <1>2, <2>2, <2>3, AllocateZone
  <2>5. PICK i \in Pages, t \in Orders, o \in Orders : i = Found(size) /\ Takes(i, t, o, size, size, 1)
    BY <1>2, <2>2, <2>3, AllocateZone
  <2>6. pages_held' = [j \in DOMAIN pages_held \cup {i} |->
                         IF j = i THEN i .. i + k - 1 ELSE pages_held[j]]
    <3>1. PageRun(i, size) = i .. i + k - 1
      BY <2>1, FilledRun
    <3> QED BY <2>2, <2>5, <3>1
  <2>7. HeldMatch'
    BY <2>1, <2>3, <2>5, <2>6, HandedWhole
  <2>8. Kernel!Next
    <3>1. i = i + 0 /\ 0 + k <= k /\ k \in Nat
      BY ZoneAssumption DEF Pages
    <3> QED BY <2>1, <2>3, <2>4, <2>5, <2>6, <3>1, HandedPart
  <2> QED BY <2>4, <2>7, <2>8 DEF Zone
<1> QED BY <1>1, <1>2

(* An aligned request that leaves nothing to free is one of whole blocks.  *)
LEMMA AlignedPagesZone ==
  ASSUME Zone, NEW size \in Sizes, NEW align \in Aligns, NEW zero \in BOOLEAN, NEW stale \in Pages,
         AlignedPages(size, align, zero, stale)
  PROVE  (padding' = << >> => Zone') /\ [Kernel!Next]_pages_held
<1> DEFINE bytes == size + align - PageSize
           block == Found(bytes)
           first == IndexOf(AlignAbove(Addr(block), align))
           left == bytes - PageSize * (first - block) - size
           before == <<[index |-> block, size |-> PageSize * (first - block)]>>
           after == <<[index |-> first + size \div PageSize, size |-> left]>>
<1>1. CASE Fails(bytes)
  <2>1. UNCHANGED <<vars, pages_held>>
    BY <1>1 DEF AlignedPages, AllocFails
  <2> QED BY <2>1, ZoneStill
<1>2. CASE ~Fails(bytes)
  <2>1. /\ Running /\ AllocateBytes(bytes, size, align)
        /\ pages_held' = [i \in DOMAIN pages_held \cup {first} |->
                            IF i = first THEN PageRun(i, size) ELSE pages_held[i]]
        /\ padding' = (IF first > block THEN before ELSE << >>) \o (IF left > 0 THEN after ELSE << >>)
    BY <1>2 DEF AlignedPages, AllocFails, Ready
  <2>2. PICK m \in Nat : bytes = PageSize * m
    <3>1. PICK p \in Nat \ {0}, q \in Nat \ {0} : size = PageSize * p /\ align = PageSize * q
      BY WholePages
    <3>2. bytes = PageSize * (p + q - 1) /\ p + q - 1 \in Nat
      BY <3>1, ZoneAssumption
    <3> QED BY <3>2
  <2>3. bytes \in Nat /\ align \in Aligns \cup {1} /\ IInv /\ Counts /\ HeldMatch
    BY <2>2, PageMultiples DEF Zone
  <2>4. IInv' /\ Counts'
    <3> HIDE DEF bytes
    <3> QED BY <1>2, <2>1, <2>3, AllocateZone
  <2>5. PICK i \in Pages, t \in Orders, o \in Orders : i = block /\ Takes(i, t, o, bytes, size, align)
    <3> HIDE DEF bytes
    <3> QED BY <1>2, <2>1, <2>3, AllocateZone
  <2>6. i \in Nat
    BY ZoneAssumption DEF Pages
  <2>7. PICK k \in Nat \ {0}, a \in Nat \ {0}, d \in Nat :
           /\ size = PageSize * k /\ d < a
           /\ bytes = PageSize * (k + a - 1)
           /\ first = i + d
           /\ PageSize * (first - i) = PageSize * d
           /\ left = PageSize * (a - 1 - d)
           /\ first + size \div PageSize \in Nat
    <3>1. /\ first = IndexOf(AlignAbove(Addr(i), align))
          /\ bytes = size + align - PageSize
          /\ left = bytes - PageSize * (first - i) - size
      BY <2>5
    <3> HIDE DEF block, first, bytes, left
    <3>2. Parts(size, i, first, bytes, left)
      BY <2>6, <3>1, AlignedParts
    <3> QED BY <3>2 DEF Parts
  <2> HIDE DEF bytes, block, first, left
  <2>8. PageRun(first, size) = first .. first + k - 1
    BY <2>7, FilledRun
  <2>9. pages_held' = [j \in DOMAIN pages_held \cup {first} |->
                         IF j = first THEN first .. first + k - 1 ELSE pages_held[j]]
    BY <2>1, <2>8
  <2>10. PICK n \in Nat : n = k + a - 1 /\ d + k <= n
    BY <2>7
  <2>11. Kernel!Next
    <3>1. Takes(i, t, o, PageSize * n, size, align)
      BY <2>5, <2>7, <2>10
    <3> QED BY <2>3, <2>4, <2>7, <2>9, <2>10, <3>1, HandedPart
  <2>12. ASSUME padding' = << >> PROVE HeldMatch'
    <3>1. ~(first > block) /\ ~(left > 0)
      BY <2>1, <2>12
    <3>2. d = 0
      BY <2>5, <2>6, <2>7, <3>1
    <3>3. a = 1
      <4>1. a - 1 - d \in Nat /\ PageSize \in Nat \ {0}
        BY <2>7, ZoneAssumption
      <4>2. ~(PageSize * (a - 1 - d) > 0)
        BY <2>7, <3>1
      <4>3. a - 1 - d = 0
        BY <4>1, <4>2
      <4> QED BY <2>7, <3>2, <4>3
    <3>4. n = k /\ first = i
      BY <2>6, <2>7, <2>10, <3>2, <3>3
    <3>5. Takes(i, t, o, PageSize * k, size, align)
      BY <2>5, <2>7, <2>10, <3>4
    <3>6. pages_held' = [j \in DOMAIN pages_held \cup {i} |->
                           IF j = i THEN i .. i + k - 1 ELSE pages_held[j]]
      BY <2>9, <3>4
    <3> QED BY <2>3, <3>5, <3>6, HandedWhole
  <2> QED BY <2>4, <2>11, <2>12 DEF Zone
<1> QED BY <1>1, <1>2

(* free_pages of what alloc_pages gave is free of the block's owner.       *)
LEMMA FreePagesZone ==
  ASSUME Zone, NEW i \in Pages, NEW unsafe \in BOOLEAN, FreePagesOf(i, unsafe)
  PROVE  Zone'
<1> USE DEF Zone
<1>1. i \in DOMAIN pages_held /\ i \in Allocated /\ i \in Owners
  BY DEF FreePagesOf, HeldMatch, Owners
<1>2. GetSize(i) = PageSize * Cardinality(pages_held[i]) /\ FreeAsserts(i)
  BY <1>1, HeldSizes, OwnersAssert
<1>3. Free(i)
  BY <1>1, <1>2 DEF FreePagesOf, FreeAdapter, Free, Ready, Allocated
<1>4. IInv'
  BY <1>3, FreePreserves
<1>5. StepOf
  <2>1. Next
    BY <1>3 DEF Next
  <2> QED BY <2>1, StepKinds
<1>6. Counts'
  BY <1>4, <1>5, CountsStep
<1>7. Allocated' = Allocated \ {i} /\ \A g \in Allocated' : page'[g] = page[g]
  <2>1. Allocated' = Allocated \ {i} /\ boot' = boot
    BY <1>3 DEF Free, Allocated
  <2>2. Kept' = Kept
    BY <2>1 DEF Kept, Pages
  <2>3. Owners' = Owners \ {i}
    BY <1>1, <2>1, <2>2 DEF Owners, IInv, OwnersInUse
  <2>4. \A g \in Owners' : page'[g] = page[g]
    BY <1>1, <1>3, <2>3, ReleaseStep DEF Free
  <2> QED BY <2>1, <2>4 DEF Owners
<1>8. pages_held' = [j \in DOMAIN pages_held \ {i} |-> pages_held[j]]
  BY DEF FreePagesOf
<1>9. DOMAIN pages_held' = Allocated' /\ \A j \in Allocated' : pages_held'[j] = pages_held[j]
  BY <1>7, <1>8 DEF HeldMatch
<1>10. HeldMatch'
  BY <1>7, <1>9 DEF HeldMatch, Held, GetSize
<1> QED BY <1>4, <1>6, <1>10

LEMMA BootZone ==
  ASSUME Zone, BootFree, UNCHANGED adapterVars
  PROVE  Zone'
<1> USE DEF Zone
<1>1. IInv'
  BY BootFreePreserves
<1>2. Counts'
  <2>1. Next
    BY DEF Next
  <2>2. StepOf
    BY <2>1, StepKinds
  <2> QED BY <1>1, <2>2, CountsStep
<1>3. Allocated = {} /\ Allocated' = Allocated
  BY DEF BootFree, Allocated, IInv, TypeOK, OwnersInUse
<1>4. HeldMatch'
  BY <1>3 DEF HeldMatch, adapterVars
<1> QED BY <1>1, <1>2, <1>4

StillZone == Sane => Zone

(* Every step that ends in a sane state starts in one, and changes who     *)
(* holds what as the pool may.                                             *)
LEMMA ZoneStep ==
  StillZone /\ [ANext]_allVars => StillZone' /\ [Kernel!Next \/ torn']_pages_held
<1> SUFFICES ASSUME StillZone, [ANext]_allVars
             PROVE  StillZone' /\ [Kernel!Next \/ torn']_pages_held
  OBVIOUS
<1>1. CASE BootFree /\ UNCHANGED adapterVars
  <2>1. UNCHANGED <<halted, padding, torn, pages_held>>
    BY <1>1 DEF BootFree, adapterVars
  <2> QED BY <1>1, <2>1, BootZone DEF StillZone, Sane
<1>2. CASE (Stopped /\ UNCHANGED adapterVars) \/ UNCHANGED allVars
  <2>1. UNCHANGED <<vars, adapterVars>>
    BY <1>2 DEF Stopped, allVars
  <2>2. Zone => Zone'
    BY <2>1, ZoneStill DEF adapterVars
  <2>3. Sane' = Sane
    BY <2>1 DEF Sane, vars, adapterVars
  <2> QED BY <2>1, <2>2, <2>3 DEF StillZone, adapterVars
<1>3. ASSUME NEW size \in Sizes, NEW zero \in BOOLEAN, NEW stale \in Pages, AllocPages(size, zero, stale)
      PROVE  StillZone' /\ [Kernel!Next \/ torn']_pages_held
  <2>1. Ready /\ torn' = torn
    BY <1>3 DEF AllocPages, AllocFails
  <2>2. CASE torn
    BY <2>1, <2>2 DEF StillZone, Sane
  <2>3. CASE ~torn
    <3>1. Zone
      BY <2>1, <2>3 DEF StillZone, Sane, Ready, Running
    <3> QED BY <1>3, <3>1, AllocPagesZone DEF StillZone
  <2> QED BY <2>2, <2>3
<1>4. ASSUME NEW size \in Sizes, NEW align \in Aligns, NEW zero \in BOOLEAN, NEW stale \in Pages,
             AlignedPages(size, align, zero, stale)
      PROVE  StillZone' /\ [Kernel!Next \/ torn']_pages_held
  <2>1. Ready /\ torn' = torn
    BY <1>4 DEF AlignedPages, AllocFails
  <2>2. CASE torn
    BY <2>1, <2>2 DEF StillZone, Sane
  <2>3. CASE ~torn
    <3>1. Zone
      BY <2>1, <2>3 DEF StillZone, Sane, Ready, Running
    <3> QED BY <1>4, <3>1, AlignedPagesZone DEF StillZone, Sane
  <2> QED BY <2>2, <2>3
<1>5. ASSUME NEW unsafe \in BOOLEAN, FreePadding(unsafe)
      PROVE  StillZone' /\ [Kernel!Next \/ torn']_pages_held
  BY <1>5 DEF FreePadding, StillZone, Sane
<1>6. ASSUME NEW unsafe \in BOOLEAN, NEW i \in Pages, FreePagesOf(i, unsafe)
      PROVE  StillZone' /\ [Kernel!Next \/ torn']_pages_held
  <2>1. Ready /\ torn' = torn
    BY <1>6 DEF FreePagesOf
  <2>2. Kernel!Next
    BY <1>6 DEF FreePagesOf, Kernel!Next, Kernel!Free
  <2>3. CASE torn
    BY <2>1, <2>3 DEF StillZone, Sane
  <2>4. CASE ~torn
    <3>1. Zone
      BY <2>1, <2>4 DEF StillZone, Sane, Ready, Running
    <3> QED BY <1>6, <2>2, <3>1, FreePagesZone DEF StillZone
  <2> QED BY <2>2, <2>3, <2>4
<1> QED BY <1>1, <1>2, <1>3, <1>4, <1>5, <1>6 DEF ANext

LEMMA StillZoneInvariant == ASpec => []StillZone
<1>1. AInit => StillZone
  <2> SUFFICES ASSUME AInit PROVE Zone
    BY DEF StillZone
  <2>1. Init /\ pages_held = << >> /\ Allocated = {}
    BY DEF AInit, Init, Allocated
  <2>2. HeldMatch
    BY <2>1 DEF HeldMatch
  <2> QED BY <2>1, <2>2, InitEstablishes, InitCounts DEF Zone
<1> QED BY <1>1, ZoneStep, PTL DEF ASpec

(* Until the allocator takes back a piece of a block, free_pages accepts   *)
(* every run alloc_pages and alloc_aligned_pages handed out: the size it   *)
(* checks is the one asked for, and no assertion of free fails.            *)
THEOREM AdapterFreesAccepted == ASpec => []FreesAccepted
<1>1. StillZone => FreesAccepted
  <2> SUFFICES ASSUME Zone, NEW i \in DOMAIN pages_held
               PROVE  GetSize(i) = PageSize * Cardinality(pages_held[i]) /\ FreeAsserts(i)
    BY DEF StillZone, Sane, FreesAccepted, Ready, Running
  <2>1. IInv /\ Counts /\ HeldMatch /\ i \in Owners
    BY DEF Zone, HeldMatch, Owners
  <2> QED BY <2>1, HeldSizes, OwnersAssert
<1> QED BY <1>1, StillZoneInvariant, PTL

(* Whatever pages, alignments and fillings are asked for, a run handed out *)
(* belongs to no other caller, and only its free gives it back, until the  *)
(* allocator takes back a piece of a block.                                *)
THEOREM AdapterImplementsPool == ASpec => KernelSpec
<1>1. AInit => Kernel!Init
  BY DEF AInit, Kernel!Init
<1> QED BY <1>1, ZoneStep, StillZoneInvariant, PTL DEF ASpec, KernelSpec
=============================================================================
