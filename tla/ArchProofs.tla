----------------------------- MODULE ArchProofs -----------------------------
(***************************************************************************)
(* Proofs about the architecture code, for every address space, machine    *)
(* and memory map: that the boot page index translates what was submitted  *)
(* as it was submitted and the kernel finds its high half there            *)
(* (EarlyMapping), and that each usable page is freed once, into its zone  *)
(* (I386Memory).                                                           *)
(***************************************************************************)
EXTENDS MCArch, DataFacts

-----------------------------------------------------------------------------
(* The slots of the boot page index.                                       *)

Pages == {v \in 0 .. Top - 1 : v % BigPage = 0}
Slots == 0 .. MidSize - 1
Ptes == [pa : Int, type : Types \cup {"fault"}]
Tables == {ix \in [root : [Roots -> Roots], mid : [Roots -> [Slots -> Ptes]]] :
             \A i \in Roots : ix.root[i] = i}

LEMMA TableSizes ==
         /\ BigPage \in Nat \ {0} /\ MidSize \in Nat \ {0} /\ Top \in Nat \ {0}
         /\ MidSize * BigPage \in Nat \ {0}
         /\ \E t \in Nat : Top = t * (MidSize * BigPage) /\ Roots = 0 .. t - 1
         /\ \E t \in Nat : t # 0 /\ Top = t * BigPage
<1>1. BigPage \in Nat \ {0} /\ MidSize \in Nat \ {0} /\ Top \in Nat \ {0}
      /\ Top % (MidSize * BigPage) = 0
  BY MapAssumption DEF MapAssumption
<1>2. MidSize * BigPage \in Nat \ {0}
  BY <1>1
<1>3. PICK t \in Nat : Top = t * (MidSize * BigPage)
  BY <1>1, <1>2, MultipleOf
<1>4. Top \div (MidSize * BigPage) = t
  <2> DEFINE d == MidSize * BigPage
  <2>1. t * d <= Top /\ Top < t * d + d
    BY <1>1, <1>2, <1>3
  <2> HIDE DEF d
  <2>2. Top \div d = t
    BY <1>1, <1>2, <2>1, DivUnique DEF d
  <2> QED BY <2>2 DEF d
<1>5. Top = (t * MidSize) * BigPage /\ t * MidSize \in Nat
  BY <1>1, <1>3, MulRegroup
<1>6. t * MidSize # 0
  BY <1>1, <1>5
<1>7. Roots = 0 .. t - 1
  BY <1>4 DEF Roots
<1> QED BY <1>1, <1>2, <1>3, <1>5, <1>6, <1>7

LEMMA PageSlot ==
  ASSUME NEW q \in Nat, NEW v \in Nat, v = q * BigPage
  PROVE  /\ IndexFn(v) = q \div MidSize
         /\ MidFn(v) = q % MidSize
<1>1. BigPage \in Nat \ {0} /\ MidSize \in Nat \ {0} /\ MidSize * BigPage \in Nat \ {0}
  BY TableSizes
<1>2. v \div BigPage = q
  BY <1>1, DivUnique
<1> DEFINE r == q \div MidSize
           d == MidSize * BigPage
<1>3. r \in Nat /\ r * MidSize <= q /\ q < r * MidSize + MidSize
  BY <1>1, DivBounds
<1> HIDE DEF r
<1>4. r * d = (r * MidSize) * BigPage /\ r * MidSize \in Nat
  BY <1>1, <1>3, MulRegroup
<1>5. r * d <= v
  BY <1>1, <1>3, <1>4, MulMono
<1>6. v < r * d + d
  <2>1. q + 1 <= r * MidSize + MidSize /\ r * MidSize + MidSize \in Nat
    BY <1>1, <1>3, <1>4
  <2>2. (q + 1) * BigPage <= (r * MidSize + MidSize) * BigPage
    BY <1>1, <2>1, MulMono
  <2>3. (r * MidSize + MidSize) * BigPage = (r * MidSize) * BigPage + MidSize * BigPage
    BY <1>1, <1>4, MulRegroup
  <2>4. (q + 1) * BigPage = v + BigPage
    BY <1>1
  <2> QED BY <1>1, <1>4, <2>2, <2>3, <2>4
<1>7. v \div d = r
  <2>1. d \in Nat \ {0}
    BY <1>1
  <2> HIDE DEF d
  <2> QED BY <1>3, <1>5, <1>6, <2>1, DivUnique
<1> QED BY <1>2, <1>7 DEF IndexFn, MidFn, r

LEMMA PageMultiple ==
  ASSUME NEW v \in Pages
  PROVE  v \in Nat /\ v < Top /\ \E q \in Nat : v = q * BigPage
<1>1. BigPage \in Nat \ {0} /\ Top \in Nat
  BY TableSizes
<1>2. v \in Nat /\ v < Top /\ v % BigPage = 0
  BY <1>1 DEF Pages
<1> QED BY <1>1, <1>2, MultipleOf

LEMMA PageIndex ==
  ASSUME NEW v \in Pages
  PROVE  IndexFn(v) \in Roots /\ MidFn(v) \in Slots
<1>1. PICK q \in Nat : v = q * BigPage /\ v \in Nat /\ v < Top
  BY PageMultiple
<1>2. PICK t \in Nat : Top = t * (MidSize * BigPage) /\ Roots = 0 .. t - 1
  BY TableSizes
<1>3. MidSize \in Nat \ {0} /\ BigPage \in Nat \ {0}
  BY TableSizes
<1>4. q < t * MidSize
  <2>1. t * MidSize \in Nat /\ Top = (t * MidSize) * BigPage
    BY <1>2, <1>3, MulRegroup
  <2> QED BY <1>1, <1>3, <2>1, MulLess
<1>5. q \div MidSize < t
  <2>1. q \div MidSize \in Nat /\ (q \div MidSize) * MidSize <= q
    BY <1>3, DivBounds
  <2>2. (q \div MidSize) * MidSize < t * MidSize
    BY <1>3, <1>4, <2>1
  <2> HIDE DEF Roots
  <2> QED BY <1>3, <2>1, <2>2, MulLess
<1>6. q % MidSize \in 0 .. MidSize - 1 /\ q \div MidSize \in Nat
  BY <1>3
<1>7. IndexFn(v) = q \div MidSize /\ MidFn(v) = q % MidSize
  BY <1>1, PageSlot
<1>8. q \div MidSize \in Roots
  BY <1>2, <1>5, <1>6
<1> QED BY <1>6, <1>7, <1>8 DEF Slots

LEMMA PageIndexUnique ==
  ASSUME NEW u \in Pages, NEW v \in Pages,
         IndexFn(u) = IndexFn(v), MidFn(u) = MidFn(v)
  PROVE  u = v
<1>1. PICK p \in Nat : u = p * BigPage /\ u \in Nat
  BY PageMultiple
<1>2. PICK q \in Nat : v = q * BigPage /\ v \in Nat
  BY PageMultiple
<1>3. p \div MidSize = q \div MidSize /\ p % MidSize = q % MidSize
  <2>1. IndexFn(u) = p \div MidSize /\ MidFn(u) = p % MidSize
    BY <1>1, PageSlot
  <2>2. IndexFn(v) = q \div MidSize /\ MidFn(v) = q % MidSize
    BY <1>2, PageSlot
  <2> QED BY <2>1, <2>2
<1>4. MidSize \in Nat \ {0}
  BY TableSizes
<1>5. /\ p = MidSize * (p \div MidSize) + (p % MidSize)
      /\ q = MidSize * (q \div MidSize) + (q % MidSize)
  BY <1>4
<1> QED BY <1>1, <1>2, <1>3, <1>5

(* The pages of a mapping, and the sum that wraps.                         *)
LEMMA PageOfPages ==
  ASSUME NEW e \in Mappings, Valid(e), NEW k \in Nat
  PROVE  PageOf(e, k) \in Pages
<1>1. BigPage \in Nat \ {0} /\ Top \in Nat \ {0} /\ e.vaddr \in Nat
  BY TableSizes DEF Mappings
<1>2. PICK a \in Nat : e.vaddr = a * BigPage
  BY <1>1, MultipleOf DEF Valid
<1>3. PICK t \in Nat : t # 0 /\ Top = t * BigPage
  BY TableSizes
<1> DEFINE s == a + k
           r == s \div t
           m == s % t
<1>4. s \in Nat /\ r \in Nat /\ m \in 0 .. t - 1 /\ s = t * r + m
  BY <1>3
<1>5. e.vaddr + BigPage * k = s * BigPage
  BY <1>1, <1>2
<1> HIDE DEF s, r, m
<1>6. s * BigPage = r * Top + m * BigPage /\ m * BigPage \in 0 .. Top - 1
  <2>1. m \in Nat /\ m + 1 <= t
    BY <1>4, <1>3
  <2>2. (m + 1) * BigPage <= t * BigPage
    BY <1>1, <2>1, MulMono
  <2>3. (m + 1) * BigPage = m * BigPage + BigPage
    BY <1>1, <2>1
  <2>4. m * BigPage \in Nat
    BY <1>1, <2>1
  <2>5. m * BigPage < Top
    BY <1>1, <1>3, <2>2, <2>3, <2>4
  <2>6. (t * r + m) * BigPage = (t * r) * BigPage + m * BigPage
    BY <1>1, <1>4, <2>1, <1>3, MulRegroup
  <2>7. (t * r) * BigPage = r * (t * BigPage)
    BY <1>1, <1>3, <1>4
  <2> QED BY <1>1, <1>3, <1>4, <2>4, <2>5, <2>6, <2>7
<1>7. (s * BigPage) \div Top = r
  <2>1. s * BigPage \in Nat
    BY <1>1, <1>4
  <2>2. r * Top <= s * BigPage /\ s * BigPage < r * Top + Top
    BY <1>1, <1>4, <1>6
  <2> QED BY <1>1, <1>4, <2>1, <2>2, DivUnique
<1>8. (s * BigPage) % Top = m * BigPage
  <2>1. s * BigPage \in Nat
    BY <1>1, <1>4
  <2>2. s * BigPage = Top * ((s * BigPage) \div Top) + ((s * BigPage) % Top)
    <3> DEFINE x == s * BigPage
    <3>1. x \in Nat
      BY <2>1
    <3> HIDE DEF x
    <3>2. x = Top * (x \div Top) + (x % Top)
      BY <1>1, <3>1
    <3> QED BY <3>2 DEF x
  <2>3. Top * r = r * Top /\ r * Top \in Nat
    BY <1>1, <1>4
  <2>4. s * BigPage = r * Top + ((s * BigPage) % Top)
    BY <1>7, <2>2, <2>3
  <2> DEFINE x == s * BigPage
             y == x % Top
             z == m * BigPage
  <2>5. y \in Int /\ z \in Int /\ r * Top + y = r * Top + z
    BY <1>1, <2>1, <1>6, <2>4
  <2> HIDE DEF y, z
  <2>6. y = z
    BY <2>3, <2>5
  <2> QED BY <2>6 DEF y, z
<1>9. (m * BigPage) % BigPage = 0
  <2>1. m \in Nat /\ m * BigPage \in Nat
    BY <1>1, <1>4
  <2> QED BY <1>1, <2>1, MultipleOf
<1> QED BY <1>5, <1>6, <1>8, <1>9 DEF PageOf, Pages

(* One page written changes the translation of that page and of no other.  *)
LEMMA MapPageEffect ==
  ASSUME NEW ix \in Tables, NEW e \in Mappings, NEW v \in Pages
  PROVE  /\ MapPage(ix, e, v) \in Tables
         /\ \A u \in Pages : EntryIn(MapPage(ix, e, v), u) =
                               IF u = v THEN Written(e, v) ELSE EntryIn(ix, u)
<1> DEFINE i == IndexFn(v)
           j == MidFn(v)
           w == Written(e, v)
           y == [ix EXCEPT !.mid[i][j] = w]
<1>1. i \in Roots /\ j \in Slots
  BY PageIndex
<1>2. w \in Ptes
  <2>1. Top \in Nat \ {0} /\ e.paddr \in Nat /\ e.vaddr \in Nat /\ v \in Nat /\ e.type \in Types
    BY TableSizes, PageMultiple DEF Mappings
  <2>2. e.paddr + ((v - e.vaddr + Top) % Top) \in Int
    BY <2>1
  <2>3. (IF arch = "i386" THEN "memory" ELSE e.type) \in Types
    BY <2>1 DEF Types
  <2> QED BY <2>2, <2>3 DEF Ptes, Written
<1>3. /\ ix \in [root : [Roots -> Roots], mid : [Roots -> [Slots -> Ptes]]]
      /\ \A k \in Roots : ix.root[k] = k
  BY DEF Tables
<1>4. MapPage(ix, e, v) = y
  BY <1>1, <1>3 DEF MapPage
<1> HIDE DEF i, j, w
<1>5. /\ y \in [root : [Roots -> Roots], mid : [Roots -> [Slots -> Ptes]]]
      /\ y.root = ix.root
  BY <1>1, <1>2, <1>3
<1>6. ASSUME NEW k \in Roots, NEW l \in Slots
      PROVE  y.mid[k][l] = IF k = i /\ l = j THEN w ELSE ix.mid[k][l]
  BY <1>1, <1>3
<1> HIDE DEF y
<1>7. y \in Tables
  BY <1>3, <1>5 DEF Tables
<1>8. ASSUME NEW u \in Pages PROVE EntryIn(y, u) = IF u = v THEN w ELSE EntryIn(ix, u)
  <2> DEFINE k == IndexFn(u)
             l == MidFn(u)
  <2>1. k \in Roots /\ l \in Slots
    BY PageIndex
  <2>2. k = i /\ l = j <=> u = v
    BY PageIndexUnique DEF i, j
  <2> HIDE DEF k, l
  <2>3. EntryIn(y, u) = y.mid[k][l] /\ EntryIn(ix, u) = ix.mid[k][l]
    BY <1>3, <1>5, <2>1 DEF EntryIn, k, l
  <2> QED BY <1>6, <2>1, <2>2, <2>3
<1> QED BY <1>4, <1>7, <1>8 DEF w

(* What page_index_early_map leaves: the entry's pages as the entry says.  *)
LEMMA EarlyMapEffect ==
  ASSUME NEW ix \in Tables, NEW e \in Mappings, Valid(e)
  PROVE  /\ EarlyMap(ix, e) \in Tables
         /\ \A u \in Pages : EntryIn(EarlyMap(ix, e), u) =
                               IF u \in PagesOf(e) THEN Written(e, u) ELSE EntryIn(ix, u)
<1> DEFINE n == e.size \div BigPage
           R(f, k) == IF k = 0 THEN ix ELSE MapPage(f[k - 1], e, PageOf(e, k - 1))
           E(f) == f = [k \in 0 .. n |-> R(f, k)]
           mapped == CHOOSE f : E(f)
           g == [k \in 0 .. n - 1 |-> [x \in Tables |-> MapPage(x, e, PageOf(e, k))]]
<1>1. n \in Nat
  BY TableSizes, DivBounds DEF Mappings
<1>2. ASSUME NEW k \in 0 .. n - 1 PROVE k \in Nat /\ PageOf(e, k) \in Pages
  BY <1>1, PageOfPages
<1>3. g \in [0 .. n - 1 -> [Tables -> Tables]]
  BY <1>2, MapPageEffect
<1>4. EarlyMap(ix, e) = mapped[n]
  BY DEF EarlyMap
<1> HIDE DEF n
<1>5. PICK f \in [0 .. n -> Tables] : f[0] = ix /\ \A k \in 0 .. n - 1 : f[k + 1] = g[k][f[k]]
  <2> HIDE DEF g
  <2>1. PICK f \in [0 .. n -> Tables] : RecursTo(f, ix, g, n)
    BY <1>1, <1>3, BoundedRecursion
  <2> QED BY <2>1 DEF RecursTo
<1>6. E(f)
  <2>1. ASSUME NEW k \in 0 .. n PROVE f[k] = R(f, k)
    <3>1. CASE k = 0
      BY <1>5, <3>1
    <3>2. CASE k # 0
      <4>1. k - 1 \in 0 .. n - 1 /\ k - 1 \in 0 .. n /\ (k - 1) + 1 = k
        BY <1>1, <3>2
      <4>2. f[k] = g[k - 1][f[k - 1]] /\ f[k - 1] \in Tables
        BY <1>5, <4>1
      <4>3. g[k - 1][f[k - 1]] = MapPage(f[k - 1], e, PageOf(e, k - 1))
        BY <4>1, <4>2
      <4> QED BY <3>2, <4>2, <4>3
    <3> QED BY <3>1, <3>2
  <2> HIDE DEF R
  <2> QED BY <1>5, <2>1
<1>7. E(mapped)
  <2> HIDE DEF E
  <2> QED BY <1>6
<1> HIDE DEF mapped
<1>8. mapped[0] = ix /\ \A k \in 0 .. n - 1 : mapped[k + 1] = MapPage(mapped[k], e, PageOf(e, k))
  <2>1. mapped[0] = ix
    BY <1>1, <1>7
  <2>2. ASSUME NEW k \in 0 .. n - 1 PROVE mapped[k + 1] = MapPage(mapped[k], e, PageOf(e, k))
    <3>1. k + 1 \in 0 .. n /\ k + 1 # 0 /\ (k + 1) - 1 = k
      BY <1>1
    <3> QED BY <1>7, <3>1
  <2> QED BY <2>1, <2>2
<1> HIDE DEF E, R
<1> DEFINE Touched(k) == {PageOf(e, l) : l \in 0 .. k - 1}
           Good(k) == /\ mapped[k] \in Tables
                      /\ \A u \in Pages : EntryIn(mapped[k], u) =
                           IF u \in Touched(k) THEN Written(e, u) ELSE EntryIn(ix, u)
           Bad == {k \in 0 .. n : ~Good(k)}
<1>9. Good(0)
  BY <1>8
<1>10. ASSUME NEW k \in 0 .. n - 1, Good(k) PROVE Good(k + 1)
  <2> DEFINE v == PageOf(e, k)
  <2>1. v \in Pages /\ mapped[k + 1] = MapPage(mapped[k], e, v) /\ k \in Nat
    BY <1>2, <1>8
  <2>2. ASSUME NEW u PROVE u \in Touched(k + 1) <=> u = v \/ u \in Touched(k)
    <3>1. \A l : l \in 0 .. (k + 1) - 1 <=> l \in 0 .. k - 1 \/ l = k
      BY <2>1
    <3> QED BY <3>1
  <2> HIDE DEF v, Touched
  <2>3. /\ mapped[k + 1] \in Tables
        /\ \A u \in Pages : EntryIn(mapped[k + 1], u) =
             IF u = v THEN Written(e, v) ELSE EntryIn(mapped[k], u)
    <3>1. mapped[k] \in Tables
      BY <1>10
    <3> HIDE DEF Good
    <3> QED BY <2>1, <3>1, MapPageEffect
  <2> QED BY <1>10, <2>2, <2>3
<1> HIDE DEF Good
<1>11. Bad = {}
  <2>1. SUFFICES ASSUME Bad # {} PROVE FALSE
    OBVIOUS
  <2>2. Bad \subseteq Nat
    BY <1>1
  <2>3. PICK m \in Bad : \A k \in Bad : m <= k
    BY <2>1, <2>2, NatLeast, Zenon
  <2>4. m \in 0 .. n /\ ~Good(m) /\ m # 0
    BY <1>9, <2>3
  <2>5. m - 1 \in 0 .. n - 1 /\ m - 1 \in 0 .. n /\ ~(m <= m - 1) /\ (m - 1) + 1 = m
    BY <1>1, <2>4
  <2>6. Good(m - 1)
    BY <2>3, <2>5
  <2> QED BY <1>10, <2>4, <2>5, <2>6
<1>12. Good(n)
  <2>1. n \in 0 .. n
    BY <1>1
  <2>2. n \notin Bad
    BY <1>11, Zenon
  <2> QED BY <2>1, <2>2, Zenon
<1>13. Touched(n) = PagesOf(e)
  BY DEF PagesOf, n
<1> QED BY <1>4, <1>12, <1>13 DEF Good

(* The index made from the queue: every page some entry covers is          *)
(* translated as one of the entries that cover it says.                    *)
LEMMA IndexOfEffect ==
  ASSUME NEW q \in Seq(Mappings), \A n \in DOMAIN q : Valid(q[n])
  PROVE  \A u \in Pages :
           (\E n \in DOMAIN q : u \in PagesOf(q[n])) =>
             \E n \in DOMAIN q : /\ u \in PagesOf(q[n])
                                 /\ EntryIn(IndexOf(q, Len(q)), u) = Written(q[n], u)
<1> DEFINE z == Len(q)
           R(f, k) == IF k = 0 THEN Cleared ELSE EarlyMap(f[k - 1], q[k])
           E(f) == f = [k \in 0 .. z |-> R(f, k)]
           made == CHOOSE f : E(f)
           g == [k \in 0 .. z - 1 |-> [x \in Tables |-> EarlyMap(x, q[k + 1])]]
<1>1. z \in Nat /\ DOMAIN q = 1 .. z
  OBVIOUS
<1>2. ASSUME NEW k \in 0 .. z - 1 PROVE k + 1 \in DOMAIN q /\ q[k + 1] \in Mappings /\ Valid(q[k + 1])
  <2> HIDE DEF z
  <2>1. z \in Nat
    BY <1>1
  <2>2. k + 1 \in 1 .. z
    BY <2>1
  <2>3. k + 1 \in DOMAIN q
    BY <1>1, <2>2
  <2> QED BY <2>3
<1>3. g \in [0 .. z - 1 -> [Tables -> Tables]]
  BY <1>2, EarlyMapEffect
<1>4. IndexOf(q, z) = made[z]
  BY DEF IndexOf
<1> HIDE DEF z
<1>5. Cleared \in Tables
  <2>1. Absent \in Ptes
    BY DEF Absent, Ptes
  <2>2. [i \in Roots |-> i] \in [Roots -> Roots] /\ [j \in 0 .. MidSize - 1 |-> Absent] \in [Slots -> Ptes]
    BY <2>1 DEF Slots
  <2> QED BY <2>2 DEF Cleared, Tables
<1>6. PICK f \in [0 .. z -> Tables] : f[0] = Cleared /\ \A k \in 0 .. z - 1 : f[k + 1] = g[k][f[k]]
  <2> HIDE DEF g
  <2>1. PICK f \in [0 .. z -> Tables] : RecursTo(f, Cleared, g, z)
    BY <1>1, <1>3, <1>5, BoundedRecursion
  <2> QED BY <2>1 DEF RecursTo
<1>7. E(f)
  <2>1. ASSUME NEW k \in 0 .. z PROVE f[k] = R(f, k)
    <3>1. CASE k = 0
      BY <1>6, <3>1
    <3>2. CASE k # 0
      <4>1. k - 1 \in 0 .. z - 1 /\ k - 1 \in 0 .. z /\ (k - 1) + 1 = k
        BY <1>1, <3>2
      <4>2. f[k] = g[k - 1][f[k - 1]] /\ f[k - 1] \in Tables
        BY <1>6, <4>1
      <4>3. g[k - 1][f[k - 1]] = EarlyMap(f[k - 1], q[k])
        BY <4>1, <4>2
      <4> QED BY <3>2, <4>2, <4>3
    <3> QED BY <3>1, <3>2
  <2> HIDE DEF R
  <2> QED BY <1>6, <2>1
<1>8. E(made)
  <2> HIDE DEF E
  <2> QED BY <1>7
<1> HIDE DEF made
<1>9. made[0] = Cleared /\ \A k \in 0 .. z - 1 : made[k + 1] = EarlyMap(made[k], q[k + 1])
  <2>1. made[0] = Cleared
    BY <1>1, <1>8
  <2>2. ASSUME NEW k \in 0 .. z - 1 PROVE made[k + 1] = EarlyMap(made[k], q[k + 1])
    <3>1. k + 1 \in 0 .. z /\ k + 1 # 0 /\ (k + 1) - 1 = k
      BY <1>1
    <3> QED BY <1>8, <3>1
  <2> QED BY <2>1, <2>2
<1> HIDE DEF E, R
<1> DEFINE Covered(k, u) == \E n \in 1 .. k : u \in PagesOf(q[n])
           Right(k, u) == \E n \in 1 .. k : /\ u \in PagesOf(q[n])
                                            /\ EntryIn(made[k], u) = Written(q[n], u)
           Good(k) == /\ made[k] \in Tables
                      /\ \A u \in Pages : Covered(k, u) => Right(k, u)
           Bad == {k \in 0 .. z : ~Good(k)}
<1>10. Good(0)
  BY <1>5, <1>9
<1>11. ASSUME NEW k \in 0 .. z - 1, Good(k) PROVE Good(k + 1)
  <2>1. /\ made[k + 1] \in Tables
        /\ \A u \in Pages : EntryIn(made[k + 1], u) =
             IF u \in PagesOf(q[k + 1]) THEN Written(q[k + 1], u) ELSE EntryIn(made[k], u)
    <3>1. made[k] \in Tables
      BY <1>11
    <3>2. PICK e \in Mappings : e = q[k + 1] /\ Valid(e)
      BY <1>2
    <3>3. made[k + 1] = EarlyMap(made[k], e)
      BY <1>9, <3>2
    <3> HIDE DEF Good
    <3>4. /\ EarlyMap(made[k], e) \in Tables
          /\ \A u \in Pages : EntryIn(EarlyMap(made[k], e), u) =
               IF u \in PagesOf(e) THEN Written(e, u) ELSE EntryIn(made[k], u)
      BY <3>1, <3>2, EarlyMapEffect
    <3> QED BY <3>2, <3>3, <3>4
  <2>2. k \in Nat /\ k + 1 \in 1 .. k + 1 /\ 1 .. k \subseteq 1 .. k + 1
        /\ \A n \in 1 .. k + 1 : n = k + 1 \/ n \in 1 .. k
    OBVIOUS
  <2>3. ASSUME NEW u \in Pages, Covered(k + 1, u) PROVE Right(k + 1, u)
    <3>1. CASE u \in PagesOf(q[k + 1])
      <4>1. EntryIn(made[k + 1], u) = Written(q[k + 1], u)
        BY <2>1, <3>1
      <4> QED BY <2>2, <3>1, <4>1
    <3>2. CASE u \notin PagesOf(q[k + 1])
      <4>1. Covered(k, u)
        BY <2>2, <2>3, <3>2
      <4>2. PICK n \in 1 .. k : u \in PagesOf(q[n]) /\ EntryIn(made[k], u) = Written(q[n], u)
        BY <1>11, <4>1
      <4>3. EntryIn(made[k + 1], u) = EntryIn(made[k], u)
        BY <2>1, <3>2
      <4> QED BY <2>2, <4>2, <4>3
    <3> QED BY <3>1, <3>2
  <2> QED BY <2>1, <2>3
<1> HIDE DEF Good
<1>12. Bad = {}
  <2>1. SUFFICES ASSUME Bad # {} PROVE FALSE
    OBVIOUS
  <2>2. Bad \subseteq Nat
    BY <1>1
  <2>3. PICK m \in Bad : \A k \in Bad : m <= k
    BY <2>1, <2>2, NatLeast, Zenon
  <2>4. m \in 0 .. z /\ ~Good(m) /\ m # 0
    BY <1>10, <2>3
  <2>5. m - 1 \in 0 .. z - 1 /\ m - 1 \in 0 .. z /\ ~(m <= m - 1) /\ (m - 1) + 1 = m
    BY <1>1, <2>4
  <2>6. Good(m - 1)
    BY <2>3, <2>5
  <2> QED BY <1>11, <2>4, <2>5, <2>6
<1>13. Good(z)
  <2>1. z \in 0 .. z
    BY <1>1
  <2>2. z \notin Bad
    BY <1>12, Zenon
  <2> QED BY <2>1, <2>2, Zenon
<1> QED BY <1>1, <1>4, <1>13 DEF Good, z

-----------------------------------------------------------------------------
(* The queue.                                                              *)

QueueOK(q) ==
  /\ q \in Seq(Mappings) /\ Len(q) <= QueueLength
  /\ \A n \in DOMAIN q : Valid(q[n])
  /\ \A m, n \in DOMAIN q : m # n => ~Overlap(q[m], q[n])

LEMMA AddKeeps ==
  ASSUME NEW q, QueueOK(q), NEW e \in Mappings, Accepts(q, e)
  PROVE  QueueOK(Append(q, e))
<1> DEFINE r == Append(q, e)
<1>1. QueueLength \in Nat
  BY MapAssumption DEF MapAssumption
<1>2. q \in Seq(Mappings) /\ Len(q) < QueueLength /\ Len(q) \in Nat
  BY DEF QueueOK, Accepts
<1>3. /\ r \in Seq(Mappings) /\ Len(r) = Len(q) + 1
      /\ DOMAIN r = 1 .. Len(q) + 1 /\ DOMAIN q = 1 .. Len(q)
      /\ r[Len(q) + 1] = e /\ \A n \in 1 .. Len(q) : r[n] = q[n]
  BY <1>2, AppendProperties
<1> HIDE DEF r
<1>4. \A n \in DOMAIN r : n = Len(q) + 1 \/ n \in DOMAIN q
  BY <1>2, <1>3
<1>5. \A n \in DOMAIN r : Valid(r[n])
  BY <1>3, <1>4 DEF QueueOK, Accepts
<1>6. \A n \in DOMAIN q : ~Overlap(e, q[n]) /\ ~Overlap(q[n], e)
  BY DEF Accepts, Overlap
<1>7. \A m, n \in DOMAIN r : m # n => ~Overlap(r[m], r[n])
  BY <1>3, <1>4, <1>6 DEF QueueOK
<1>8. Len(r) <= QueueLength
  BY <1>1, <1>2, <1>3
<1> QED BY <1>3, <1>5, <1>7, <1>8 DEF QueueOK, r

(* The entries are in the queue.                                           *)
Holds(q, entries) == \A m \in DOMAIN entries : \E n \in DOMAIN q : q[n] = entries[m]

LEMMA SubmitKeeps ==
  ASSUME NEW entries \in Seq(Mappings), QueueOK(queue), Submit(entries)
  PROVE  /\ QueueOK(queue')
         /\ boot' \in {"added", "panic"}
         /\ boot' = "added" => Holds(queue', entries)
<1> DEFINE N == Len(entries)
           At(m) == Submitted(entries, m)
           accepted == {k \in 0 .. N : \A m \in 1 .. k : Accepts(At(m - 1), entries[m])}
           n == CHOOSE k \in accepted : \A m \in accepted : m <= k
<1>1. N \in Nat /\ DOMAIN entries = 1 .. N /\ queue \in Seq(Mappings)
  BY DEF QueueOK
<1>2. queue' = At(n) /\ boot' = (IF n = N THEN "added" ELSE "panic")
  BY DEF Submit
<1>3. n \in accepted
  <2>1. 0 \in accepted
    BY <1>1
  <2>2. accepted \subseteq 0 .. N
    OBVIOUS
  <2> HIDE DEF accepted
  <2>3. \E k \in accepted : \A m \in accepted : m <= k
    BY <1>1, <2>1, <2>2, BoundedMost
  <2> QED BY <2>3
<1> HIDE DEF n
<1>4. n \in 0 .. N /\ \A m \in 1 .. n : Accepts(At(m - 1), entries[m])
  BY <1>3
<1>5. At(0) = queue
  <2>1. SubSeq(entries, 1, 0) = << >>
    BY <1>1
  <2> QED BY <1>1, <2>1 DEF Submitted
<1>6. ASSUME NEW m \in 1 .. N PROVE At(m) = Append(At(m - 1), entries[m]) /\ entries[m] \in Mappings
  <2> DEFINE s == SubSeq(entries, 1, m - 1)
             t == SubSeq(entries, 1, m)
  <2>1. m - 1 \in 0 .. N /\ m \in Nat /\ m <= N /\ m - 1 \in Nat /\ entries[m] \in Mappings
    BY <1>1
  <2>2. /\ s \in Seq(Mappings) /\ Len(s) = m - 1 /\ \A k \in 1 .. m - 1 : s[k] = entries[k]
        /\ t \in Seq(Mappings) /\ Len(t) = m /\ \A k \in 1 .. m : t[k] = entries[k]
    BY <1>1, <2>1
  <2> HIDE DEF s, t
  <2>3. t = Append(s, entries[m])
    BY <2>1, <2>2
  <2>4. queue \o Append(s, entries[m]) = Append(queue \o s, entries[m])
    BY <1>1, <2>1, <2>2
  <2> QED BY <2>1, <2>3, <2>4 DEF Submitted, s, t
<1> DEFINE Bad == {m \in 0 .. n : ~QueueOK(At(m))}
<1> HIDE DEF N, At
<1>7. Bad = {}
  <2>1. SUFFICES ASSUME Bad # {} PROVE FALSE
    OBVIOUS
  <2>2. Bad \subseteq Nat
    BY <1>1, <1>4
  <2>3. PICK m \in Bad : \A k \in Bad : m <= k
    BY <2>1, <2>2, NatLeast, Zenon
  <2>4. m \in 0 .. n /\ ~QueueOK(At(m)) /\ m # 0
    BY <1>5, <2>3
  <2>5. m \in 1 .. n /\ m \in 1 .. N /\ m - 1 \in 0 .. n /\ ~(m <= m - 1)
    BY <1>1, <1>4, <2>4
  <2>6. QueueOK(At(m - 1))
    BY <2>3, <2>5
  <2>7. QueueOK(Append(At(m - 1), entries[m]))
    BY <1>4, <1>6, <2>5, <2>6, AddKeeps
  <2> QED BY <1>6, <2>4, <2>5, <2>7
<1>8. QueueOK(queue')
  <2>1. n \in 0 .. n
    BY <1>1, <1>4
  <2>2. n \notin Bad
    BY <1>7, Zenon
  <2> QED BY <1>2, <2>1, <2>2, Zenon
<1>9. ASSUME n = N PROVE Holds(queue', entries)
  <2>1. queue' = queue \o entries
    <3>1. SubSeq(entries, 1, N) = entries
      BY <1>1 DEF N
    <3> QED BY <1>2, <1>9, <3>1 DEF At, Submitted
  <2>2. ASSUME NEW m \in DOMAIN entries PROVE \E k \in DOMAIN queue' : queue'[k] = entries[m]
    <3>1. Len(queue) \in Nat /\ m \in 1 .. Len(entries)
      BY <1>1 DEF N
    <3>2. Len(queue) + m \in DOMAIN queue' /\ queue'[Len(queue) + m] = entries[m]
      BY <1>1, <2>1, <3>1
    <3> QED BY <3>2
  <2> QED BY <2>2 DEF Holds
<1> QED BY <1>2, <1>8, <1>9

-----------------------------------------------------------------------------
(* What the machine submits.                                               *)

LEMMA RoundBigRounds ==
  ASSUME NEW n \in Nat
  PROVE  /\ RoundBig(n) \in Nat /\ n <= RoundBig(n)
         /\ RoundBig(n) % BigPage = 0
<1>1. BigPage \in Nat \ {0}
  BY TableSizes
<1> DEFINE x == n + BigPage - 1
           r == x \div BigPage
<1>2. x \in Nat /\ r \in Nat /\ x < r * BigPage + BigPage
  BY <1>1, DivBounds
<1>3. RoundBig(n) = r * BigPage
  BY DEF RoundBig
<1> HIDE DEF r
<1>4. r * BigPage \in Nat
  BY <1>1, <1>2
<1> QED BY <1>1, <1>2, <1>3, <1>4, MultipleOf

LEMMA MachMappingsTypes ==
  ASSUME NEW arm \in ArmSizes, NEW frame \in Frames
  PROVE  MachMappings(arm, frame) \in Seq(Mappings)
<1>1. /\ MaxMemory \in Nat /\ MemioBase \in Nat /\ MemioTop \in Nat /\ MemioBase < MemioTop
      /\ KernBase \in Nat /\ Top \in Nat /\ 0 < Top /\ KernBase < Top /\ MemioBase + KernBase < Top
      /\ arm \in Nat /\ frame.base \in Nat /\ frame.size \in Nat /\ frame.base + KernBase < Top
  BY MapAssumption DEF MapAssumption
<1>2. RoundBig(MaxMemory) \in Nat /\ RoundBig(arm) \in Nat /\ RoundBig(frame.size) \in Nat
  BY <1>1, RoundBigRounds
<1>3. /\ 0 \in 0 .. Top - 1 /\ KernBase \in 0 .. Top - 1 /\ MemioBase + KernBase \in 0 .. Top - 1
      /\ frame.base + KernBase \in 0 .. Top - 1 /\ MemioTop - MemioBase \in Nat
  BY <1>1
<1>4. {"memory", "device", "framebuffer"} \subseteq Types
  BY DEF Types
<1>5. /\ Mapping(0, 0, RoundBig(MaxMemory), "memory") \in Mappings
      /\ Mapping(0, KernBase, RoundBig(arm), "memory") \in Mappings
      /\ Mapping(MemioBase, MemioBase + KernBase, MemioTop - MemioBase, "device") \in Mappings
      /\ Mapping(frame.base, frame.base + KernBase, RoundBig(frame.size), "framebuffer") \in Mappings
  BY <1>1, <1>2, <1>3, <1>4 DEF Mapping, Mappings
<1> QED BY <1>5 DEF MachMappings

LEMMA ArchMappingsTypes == ArchMappings \in Seq(Mappings)
<1>1. /\ KernelSize \in Nat /\ KernBase \in Nat /\ Top \in Nat /\ 0 < Top /\ KernBase < Top
  BY MapAssumption DEF MapAssumption
<1>2. RoundBig(KernelSize) \in Nat
  BY <1>1, RoundBigRounds
<1>3. 0 \in 0 .. Top - 1 /\ KernBase \in 0 .. Top - 1
  BY <1>1
<1>4. "memory" \in Types
  BY DEF Types
<1>5. /\ Mapping(0, 0, RoundBig(KernelSize), "memory") \in Mappings
      /\ Mapping(0, KernBase, RoundBig(KernelSize), "memory") \in Mappings
  BY <1>1, <1>2, <1>3, <1>4 DEF Mapping, Mappings
<1> QED BY <1>5 DEF ArchMappings

-----------------------------------------------------------------------------
(* The invariant.                                                          *)

(* The machine's own mappings are in the queue.                            *)
MachineHeld ==
  IF arch = "i386" THEN Holds(queue, ArchMappings)
  ELSE \E arm \in ArmSizes, frame \in Frames :
         machine = [arm |-> arm, frame |-> frame] /\ Holds(queue, MachMappings(arm, frame))

(* Every page some entry covers is translated as an entry that covers it   *)
(* says.                                                                   *)
MadeFromQueue ==
  \A u \in Pages : (\E n \in DOMAIN queue : u \in PagesOf(queue[n])) =>
    \E n \in DOMAIN queue : u \in PagesOf(queue[n]) /\ Translated(u) = Written(queue[n], u)

MapInv ==
  /\ arch \in {"armv7a", "i386"}
  /\ QueueOK(queue)
  /\ mem_top \in KernBase .. KmmapBase
  /\ kmmap_top \in KmmapBase .. ReservedBase
  /\ boot \in {"early", "added", "mapped", "panic"}
  /\ boot \in {"added", "mapped"} => MachineHeld
  /\ boot = "mapped" => MadeFromQueue

LEMMA MapInvInit == Init => MapInv
<1>1. QueueOK(<< >>)
  <2>1. \A S : << >> \in Seq(S)
    BY EmptySeq
  <2>2. QueueLength \in Nat
    BY MapAssumption DEF MapAssumption
  <2> QED BY <2>1, <2>2 DEF QueueOK
<1>2. KernBase \in KernBase .. KmmapBase /\ KmmapBase \in KmmapBase .. ReservedBase
  BY MapAssumption DEF MapAssumption
<1> QED BY <1>1, <1>2 DEF Init, MapInv

LEMMA MapInvNext == MapInv /\ [Next]_vars => MapInv'
<1> SUFFICES ASSUME MapInv, [Next]_vars PROVE MapInv'
  OBVIOUS
<1>1. /\ KernBase \in Nat /\ KmmapBase \in Nat /\ ReservedBase \in Nat /\ Top \in Nat
      /\ KernBase < KmmapBase /\ KmmapBase < ReservedBase /\ ReservedBase < Top
  BY MapAssumption DEF MapAssumption
<1>2. ASSUME boot = "early", arch' = arch, QueueOK(queue'), boot' = "early",
             mem_top' \in KernBase .. KmmapBase, kmmap_top' \in KmmapBase .. ReservedBase
      PROVE  MapInv'
  BY <1>2 DEF MapInv
<1>3. ASSUME NEW e \in Entries, Add(e) PROVE MapInv'
  <2>1. QueueOK(queue')
    <3>1. e \in Mappings
      BY MapAssumption DEF MapAssumption
    <3> QED BY <1>3, <3>1, AddKeeps DEF Add, MapInv
  <2> QED BY <1>2, <1>3, <2>1 DEF Add, MapInv
<1>4. ASSUME NEW b \in Blocks, AddMemory(b) PROVE MapInv'
  <2> DEFINE room == KmmapBase - mem_top
             size == IF b.size > room THEN room ELSE b.size
             entry == Mapping(b.base, mem_top, size, "memory")
  <2>1. mem_top \in KernBase .. KmmapBase /\ b.base \in Nat /\ b.size \in Nat
    BY MapAssumption DEF MapAssumption, MapInv
  <2>2. CASE room > 0 /\ Accepts(queue, entry)
    <3>1. size \in Nat /\ mem_top + size \in KernBase .. KmmapBase /\ mem_top \in 0 .. Top - 1
      BY <1>1, <2>1, <2>2
    <3>2. entry \in Mappings
      BY <2>1, <3>1 DEF Mapping, Mappings, Types
    <3>3. queue' = Append(queue, entry) /\ mem_top' = mem_top + size
      BY <1>4, <2>2 DEF AddMemory
    <3> HIDE DEF entry, size
    <3>4. QueueOK(queue')
      BY <2>2, <3>2, <3>3, AddKeeps DEF MapInv
    <3> QED BY <1>2, <1>4, <3>1, <3>3, <3>4 DEF AddMemory, MapInv
  <2>3. CASE ~(room > 0 /\ Accepts(queue, entry))
    <3>1. UNCHANGED <<queue, mem_top>>
      BY <1>4, <2>3 DEF AddMemory
    <3> QED BY <1>2, <1>4, <3>1 DEF AddMemory, MapInv
  <2> QED BY <2>2, <2>3
<1>5. ASSUME NEW b \in Blocks, AddKmmap(b) PROVE MapInv'
  <2> DEFINE room == ReservedBase - kmmap_top
             entry == Mapping(b.base, kmmap_top, b.size, "kmmap")
             taken == room > 0 /\ b.size <= room /\ Accepts(queue, entry)
  <2>1. kmmap_top \in KmmapBase .. ReservedBase /\ b.base \in Nat /\ b.size \in Nat
    BY MapAssumption DEF MapAssumption, MapInv
  <2>2. CASE taken
    <3>1. kmmap_top + b.size \in KmmapBase .. ReservedBase /\ kmmap_top \in 0 .. Top - 1
      BY <1>1, <2>1, <2>2
    <3>2. entry \in Mappings
      BY <2>1, <3>1 DEF Mapping, Mappings, Types
    <3>3. queue' = Append(queue, entry) /\ kmmap_top' = kmmap_top + b.size
      BY <1>5, <2>2 DEF AddKmmap
    <3> HIDE DEF entry
    <3>4. QueueOK(queue')
      BY <2>2, <3>2, <3>3, AddKeeps DEF MapInv
    <3> QED BY <1>2, <1>5, <3>1, <3>3, <3>4 DEF AddKmmap, MapInv
  <2>3. CASE ~taken
    <3>1. UNCHANGED <<queue, kmmap_top>>
      BY <1>5, <2>3 DEF AddKmmap
    <3> QED BY <1>2, <1>5, <3>1 DEF AddKmmap, MapInv
  <2> QED BY <2>2, <2>3
<1>6. ASSUME NEW arm \in ArmSizes, NEW frame \in Frames, MachAddMapping(arm, frame) PROVE MapInv'
  <2>1. PICK entries \in Seq(Mappings) : entries = MachMappings(arm, frame)
    BY MachMappingsTypes
  <2>2. Submit(entries) /\ arch = "armv7a" /\ machine' = [arm |-> arm, frame |-> frame]
    BY <1>6, <2>1 DEF MachAddMapping
  <2>3. /\ QueueOK(queue') /\ boot' \in {"added", "panic"}
        /\ boot' = "added" => Holds(queue', entries)
    BY <2>2, SubmitKeeps DEF MapInv
  <2>4. UNCHANGED <<arch, mem_top, kmmap_top>>
    BY <2>2 DEF Submit
  <2>5. boot' = "added" => MachineHeld'
    BY <2>1, <2>2, <2>3, <2>4 DEF MachineHeld
  <2> QED BY <2>3, <2>4, <2>5 DEF MapInv
<1>7. ASSUME ArchAddMapping PROVE MapInv'
  <2>1. PICK entries \in Seq(Mappings) : entries = ArchMappings
    BY ArchMappingsTypes
  <2>2. Submit(entries) /\ arch = "i386"
    BY <1>7, <2>1 DEF ArchAddMapping
  <2>3. /\ QueueOK(queue') /\ boot' \in {"added", "panic"}
        /\ boot' = "added" => Holds(queue', entries)
    BY <2>2, SubmitKeeps DEF MapInv
  <2>4. UNCHANGED <<arch, mem_top, kmmap_top>>
    BY <2>2 DEF Submit
  <2>5. boot' = "added" => MachineHeld'
    BY <2>1, <2>2, <2>3, <2>4 DEF MachineHeld
  <2> QED BY <2>3, <2>4, <2>5 DEF MapInv
<1>8. ASSUME MapInit PROVE MapInv'
  <2>1. /\ index' = IndexOf(queue, Len(queue)) /\ boot = "added" /\ boot' = "mapped"
        /\ UNCHANGED <<arch, queue, mem_top, kmmap_top, machine>>
    BY <1>8 DEF MapInit
  <2>2. queue \in Seq(Mappings) /\ \A n \in DOMAIN queue : Valid(queue[n])
    BY DEF MapInv, QueueOK
  <2>3. \A u \in Pages : (\E n \in DOMAIN queue : u \in PagesOf(queue[n])) =>
          \E n \in DOMAIN queue : /\ u \in PagesOf(queue[n])
                                  /\ EntryIn(index', u) = Written(queue[n], u)
    BY <2>1, <2>2, IndexOfEffect
  <2>4. MadeFromQueue'
    BY <2>1, <2>3 DEF MadeFromQueue, Translated, Written
  <2>5. MachineHeld'
    BY <2>1 DEF MachineHeld, MapInv
  <2> QED BY <2>1, <2>4, <2>5 DEF MapInv
<1>9. ASSUME MapInitPanics PROVE MapInv'
  BY <1>9 DEF MapInitPanics, MapInv
<1>10. ASSUME UNCHANGED vars PROVE MapInv'
  <2>1. MachineHeld' <=> MachineHeld
    BY <1>10 DEF vars, MachineHeld
  <2>2. MadeFromQueue' <=> MadeFromQueue
    BY <1>10 DEF vars, MadeFromQueue, Translated, Written
  <2> QED BY <1>10, <2>1, <2>2 DEF vars, MapInv
<1> QED BY <1>3, <1>4, <1>5, <1>6, <1>7, <1>8, <1>9, <1>10 DEF Next, Stopped

-----------------------------------------------------------------------------
(* What the hardware sees.                                                 *)

(* Below the top of the address space nothing wraps.                       *)
LEMMA PagesWithin ==
  ASSUME NEW e \in Mappings, ~ReachesTop(e)
  PROVE  /\ End(e) = e.vaddr + e.size
         /\ \A k \in 0 .. e.size \div BigPage - 1 : PageOf(e, k) = e.vaddr + BigPage * k
         /\ \A u \in PagesOf(e) : u \in Nat /\ e.vaddr <= u /\ u < End(e)
<1>1. /\ BigPage \in Nat \ {0} /\ Top \in Nat \ {0}
      /\ e.vaddr \in Nat /\ e.size \in Nat /\ e.vaddr + e.size < Top
  BY TableSizes DEF Mappings, ReachesTop
<1>2. End(e) = e.vaddr + e.size
  BY <1>1 DEF End
<1>3. ASSUME NEW k \in 0 .. e.size \div BigPage - 1
      PROVE  /\ PageOf(e, k) = e.vaddr + BigPage * k
             /\ BigPage * k \in Nat /\ BigPage * k < e.size
  <2> DEFINE z == e.size \div BigPage
  <2>1. z \in Nat /\ z * BigPage <= e.size
    BY <1>1, DivBounds
  <2> HIDE DEF z
  <2>2. k \in Nat /\ k + 1 \in Nat /\ k + 1 <= z
    BY <2>1 DEF z
  <2>3. (k + 1) * BigPage <= z * BigPage
    BY <1>1, <2>1, <2>2, MulMono
  <2>4. (k + 1) * BigPage = BigPage * k + BigPage /\ BigPage * k \in Nat
    BY <1>1, <2>2
  <2>5. BigPage * k < e.size
    BY <1>1, <2>1, <2>3, <2>4
  <2>6. e.vaddr + BigPage * k \in 0 .. Top - 1
    BY <1>1, <2>4, <2>5
  <2>7. ASSUME NEW x \in 0 .. Top - 1 PROVE x % Top = x
    BY <1>1
  <2> QED BY <2>4, <2>5, <2>6, <2>7 DEF PageOf
<1>4. ASSUME NEW u \in PagesOf(e) PROVE u \in Nat /\ e.vaddr <= u /\ u < End(e)
  <2>1. PICK k \in 0 .. e.size \div BigPage - 1 : u = PageOf(e, k)
    BY DEF PagesOf
  <2> QED BY <1>1, <1>2, <1>3, <2>1
<1> QED BY <1>2, <1>3, <1>4

LEMMA PagesApart ==
  ASSUME NEW e \in Mappings, NEW f \in Mappings, ~ReachesTop(e), ~ReachesTop(f),
         ~Overlap(e, f), e.vaddr # f.vaddr, NEW u, u \in PagesOf(e)
  PROVE  u \notin PagesOf(f)
<1>1. e.vaddr \in Nat /\ f.vaddr \in Nat /\ e.size \in Nat /\ f.size \in Nat
  BY TableSizes DEF Mappings
<1>2. u \in Nat /\ e.vaddr <= u /\ u < End(e) /\ End(e) = e.vaddr + e.size
  BY PagesWithin
<1>3. SUFFICES ASSUME u \in PagesOf(f) PROVE FALSE
  OBVIOUS
<1>4. f.vaddr <= u /\ u < End(f) /\ End(f) = f.vaddr + f.size
  BY <1>3, PagesWithin
<1> QED BY <1>1, <1>2, <1>4 DEF Overlap

(* The entry nothing disturbs is translated as it says.                    *)
LEMMA EntryApplied ==
  ASSUME MapInv, boot = "mapped", NEW n \in DOMAIN queue, ~ReachesTop(queue[n]),
         \A m \in DOMAIN queue \ {n} : queue[m].vaddr # queue[n].vaddr /\ ~ReachesTop(queue[m]),
         NEW v \in PagesOf(queue[n])
  PROVE  Translated(v) = Written(queue[n], v)
<1>1. /\ queue \in Seq(Mappings) /\ \A m \in DOMAIN queue : queue[m] \in Mappings /\ Valid(queue[m])
      /\ \A m, k \in DOMAIN queue : m # k => ~Overlap(queue[m], queue[k])
  BY DEF MapInv, QueueOK
<1>2. v \in Pages
  <2>1. PICK k \in 0 .. queue[n].size \div BigPage - 1 : v = PageOf(queue[n], k)
    BY DEF PagesOf
  <2>2. PICK e \in Mappings : e = queue[n] /\ Valid(e)
    BY <1>1
  <2>3. k \in Nat
    <3>1. e.size \div BigPage \in Nat
      BY TableSizes, DivBounds DEF Mappings
    <3> QED BY <2>2, <3>1
  <2> QED BY <2>1, <2>2, <2>3, PageOfPages
<1>3. PICK m \in DOMAIN queue : v \in PagesOf(queue[m]) /\ Translated(v) = Written(queue[m], v)
  BY <1>2 DEF MapInv, MadeFromQueue
<1>4. m = n
  <2>1. SUFFICES ASSUME m # n PROVE FALSE
    OBVIOUS
  <2>2. PICK e \in Mappings : e = queue[n]
    BY <1>1
  <2>3. PICK f \in Mappings : f = queue[m]
    BY <1>1
  <2>4. ~ReachesTop(e) /\ ~ReachesTop(f) /\ ~Overlap(e, f) /\ e.vaddr # f.vaddr
    BY <1>1, <2>1, <2>2, <2>3
  <2> QED BY <1>3, <2>2, <2>3, <2>4, PagesApart
<1> QED BY <1>3, <1>4

LEMMA InvMappingsApplied == MapInv => MappingsApplied
<1> SUFFICES ASSUME MapInv PROVE MappingsApplied
  OBVIOUS
<1>1. TypeOK
  BY DEF MapInv, QueueOK, TypeOK
<1>2. ASSUME boot = "mapped", NEW n \in DOMAIN queue
      PROVE  \/ \E m \in Others(n) : queue[m].vaddr = queue[n].vaddr \/ ReachesTop(queue[m])
             \/ ReachesTop(queue[n])
             \/ \A v \in PagesOf(queue[n]) : Translated(v) = Written(queue[n], v)
  BY <1>2, EntryApplied DEF Others
<1> QED BY <1>1, <1>2 DEF MappingsApplied

(* Translation is to the physical address KERN_BASE below.                 *)
LEMMA SeenPage ==
  ASSUME NEW e \in Mappings, NEW p \in Nat, NEW s \in Nat, NEW t, NEW c \in Nat, NEW pa \in p .. p + c - 1,
         e = Mapping(p, p + KernBase, s, t), Valid(e), ~ReachesTop(e), c <= s
  PROVE  LET v == KernBase + (pa \div BigPage) * BigPage IN
         /\ v \in PagesOf(e)
         /\ Written(e, v) = [pa |-> v - KernBase, type |-> IF arch = "i386" THEN "memory" ELSE t]
<1> DEFINE q == pa \div BigPage
           v == KernBase + q * BigPage
<1>1. /\ BigPage \in Nat \ {0} /\ Top \in Nat \ {0} /\ KernBase \in Nat
      /\ p + KernBase + s < Top /\ p % BigPage = 0 /\ s % BigPage = 0
      /\ e.paddr = p /\ e.vaddr = p + KernBase /\ e.size = s /\ e.type = t
  <2>1. BigPage \in Nat \ {0} /\ Top \in Nat \ {0} /\ KernBase \in Nat
    BY TableSizes, MapAssumption DEF MapAssumption
  <2>2. e.paddr = p /\ e.vaddr = p + KernBase /\ e.size = s /\ e.type = t
    BY DEF Mapping
  <2>3. p % BigPage = 0 /\ s % BigPage = 0
    BY <2>2 DEF Valid
  <2>4. p + KernBase + s < Top
    BY <2>1, <2>2 DEF ReachesTop
  <2> QED BY <2>1, <2>2, <2>3, <2>4
<1>2. PICK a \in Nat : p = a * BigPage
  BY <1>1, MultipleOf
<1>3. PICK b \in Nat : s = b * BigPage
  BY <1>1, MultipleOf
<1>4. pa \in Nat /\ p <= pa /\ pa < p + s
  OBVIOUS
<1>5. q \in Nat /\ q * BigPage <= pa /\ pa < q * BigPage + BigPage
  BY <1>1, <1>4, DivBounds
<1> HIDE DEF q
<1>6. a <= q
  <2>1. q * BigPage + BigPage = (q + 1) * BigPage /\ q + 1 \in Nat
    BY <1>1, <1>5
  <2>2. a * BigPage < (q + 1) * BigPage
    BY <1>1, <1>2, <1>4, <1>5, <2>1
  <2>3. a < q + 1
    BY <1>1, <2>1, <2>2, MulLess
  <2> QED BY <1>5, <2>3
<1>7. q < a + b
  <2>1. a * BigPage + b * BigPage = (a + b) * BigPage /\ a + b \in Nat
    BY <1>1, MulRegroup
  <2>2. q * BigPage < (a + b) * BigPage
    BY <1>1, <1>2, <1>3, <1>4, <1>5, <2>1
  <2> QED BY <1>1, <1>5, <2>1, <2>2, MulLess
<1>8. s \div BigPage = b
  BY <1>1, <1>3, DivUnique
<1>9. q - a \in 0 .. e.size \div BigPage - 1
  BY <1>1, <1>5, <1>6, <1>7, <1>8
<1>10. q * BigPage = p + BigPage * (q - a) /\ q * BigPage \in Nat
  <2>1. q - a \in Nat /\ q = a + (q - a)
    BY <1>5, <1>6
  <2>2. a * BigPage + (q - a) * BigPage = (a + (q - a)) * BigPage
    BY <1>1, <2>1, MulRegroup
  <2>3. (q - a) * BigPage = BigPage * (q - a) /\ (q - a) * BigPage \in Nat
    BY <1>1, <2>1
  <2> QED BY <1>1, <1>2, <1>5, <2>1, <2>2, <2>3
<1>11. v = PageOf(e, q - a)
  <2>1. PageOf(e, q - a) = e.vaddr + BigPage * (q - a)
    BY <1>9, PagesWithin
  <2> DEFINE d == BigPage * (q - a)
             x == q * BigPage
  <2>2. d \in Int /\ x = p + d
    BY <1>1, <1>5, <1>10
  <2> HIDE DEF d, x
  <2>3. KernBase + x = (p + KernBase) + d
    BY <1>1, <2>2
  <2> QED BY <1>1, <2>1, <2>3 DEF d, x
<1>12. v \in PagesOf(e)
  BY <1>9, <1>11 DEF PagesOf
<1>13. v \in Nat /\ e.vaddr <= v /\ v < Top
  <2>1. e.vaddr <= v /\ v < End(e) /\ v \in Nat /\ End(e) = e.vaddr + e.size
    BY <1>12, PagesWithin
  <2> QED BY <1>1, <2>1
<1> HIDE DEF v
<1>14. (v - e.vaddr + Top) % Top = v - e.vaddr
  <2> DEFINE d == v - e.vaddr
  <2>1. d \in 0 .. Top - 1 /\ v - e.vaddr + Top = d + Top
    BY <1>1, <1>13
  <2> HIDE DEF d
  <2>2. (d + Top) % Top = d
    BY <1>1, <2>1
  <2> QED BY <2>1, <2>2 DEF d
<1>15. e.paddr + (v - e.vaddr) = v - KernBase
  BY <1>1, <1>13
<1>16. Written(e, v) = [pa |-> v - KernBase, type |-> IF arch = "i386" THEN "memory" ELSE t]
  BY <1>1, <1>14, <1>15 DEF Written
<1> QED BY <1>12, <1>16 DEF v, q

(* Memory, registers and the frame buffer, of an entry in the queue.       *)
LEMMA SeenEntry ==
  ASSUME MapInv, boot = "mapped", NEW n \in DOMAIN queue,
         ~\E m \in DOMAIN queue : \E k \in DOMAIN queue \ {m} : queue[k].vaddr = queue[m].vaddr,
         ~\E m \in DOMAIN queue : ReachesTop(queue[m]),
         NEW p \in Nat, NEW s \in Nat, NEW t, NEW c \in Nat,
         queue[n] = Mapping(p, p + KernBase, s, t), c <= s,
         arch = "i386" => t = "memory"
  PROVE  SeenHigh(p, p + c - 1, t)
<1>1. PICK e \in Mappings : e = queue[n] /\ Valid(e) /\ ~ReachesTop(e)
  BY DEF MapInv, QueueOK
<1>2. ASSUME NEW pa \in p .. p + c - 1
      PROVE  LET v == KernBase + (pa \div BigPage) * BigPage IN
             Translated(v) = [pa |-> v - KernBase, type |-> t]
  <2> DEFINE v == KernBase + (pa \div BigPage) * BigPage
  <2>1. /\ v \in PagesOf(e)
        /\ Written(e, v) = [pa |-> v - KernBase, type |-> IF arch = "i386" THEN "memory" ELSE t]
    BY <1>1, SeenPage
  <2>2. Translated(v) = Written(e, v)
    <3> HIDE DEF v
    <3> QED BY <1>1, <2>1, EntryApplied
  <2> QED BY <2>1, <2>2
<1> QED BY <1>2 DEF SeenHigh

LEMMA InvHighHalfRight == MapInv => HighHalfRight
<1> SUFFICES ASSUME MapInv, boot = "mapped",
                    ~\E n \in DOMAIN queue : \E m \in Others(n) : queue[m].vaddr = queue[n].vaddr,
                    ~\E n \in DOMAIN queue : ReachesTop(queue[n])
             PROVE  IF arch = "i386" THEN SeenHigh(0, KernelSize - 1, "memory")
                    ELSE /\ SeenHigh(0, machine.arm - 1, "memory")
                         /\ SeenHigh(MemioBase, MemioTop - 1, "device")
                         /\ SeenHigh(machine.frame.base,
                                     machine.frame.base + machine.frame.size - 1, "framebuffer")
  BY DEF HighHalfRight
<1>1. ~\E n \in DOMAIN queue : \E m \in DOMAIN queue \ {n} : queue[m].vaddr = queue[n].vaddr
  BY DEF Others
<1>2. MachineHeld
  BY DEF MapInv
<1>3. /\ KernBase \in Nat /\ KernelSize \in Nat /\ MemioBase \in Nat /\ MemioTop \in Nat
      /\ MemioBase < MemioTop
  BY MapAssumption DEF MapAssumption
<1>4. CASE arch = "i386"
  <2>1. PICK n \in DOMAIN queue : queue[n] = Mapping(0, KernBase, RoundBig(KernelSize), "memory")
    <3>1. 2 \in DOMAIN ArchMappings
      BY DEF ArchMappings
    <3> QED BY <1>2, <1>4, <3>1 DEF MachineHeld, Holds, ArchMappings
  <2>2. RoundBig(KernelSize) \in Nat /\ KernelSize <= RoundBig(KernelSize)
    BY <1>3, RoundBigRounds
  <2>3. queue[n] = Mapping(0, 0 + KernBase, RoundBig(KernelSize), "memory")
    BY <1>3, <2>1
  <2>4. SeenHigh(0, 0 + KernelSize - 1, "memory")
    BY <1>1, <1>3, <2>2, <2>3, SeenEntry
  <2>5. 0 + KernelSize - 1 = KernelSize - 1
    BY <1>3
  <2> QED BY <1>4, <2>4, <2>5
<1>5. CASE arch # "i386"
  <2>1. PICK arm \in ArmSizes, frame \in Frames :
          machine = [arm |-> arm, frame |-> frame] /\ Holds(queue, MachMappings(arm, frame))
    BY <1>2, <1>5 DEF MachineHeld
  <2>2. arm \in Nat /\ frame.base \in Nat /\ frame.size \in Nat
    BY MapAssumption DEF MapAssumption
  <2>3. {2, 3, 4} \subseteq DOMAIN MachMappings(arm, frame)
    BY DEF MachMappings
  <2>4. SeenHigh(0, arm - 1, "memory")
    <3>1. PICK n \in DOMAIN queue : queue[n] = Mapping(0, KernBase, RoundBig(arm), "memory")
      BY <2>1, <2>3 DEF Holds, MachMappings
    <3>2. RoundBig(arm) \in Nat /\ arm <= RoundBig(arm)
      BY <2>2, RoundBigRounds
    <3>3. queue[n] = Mapping(0, 0 + KernBase, RoundBig(arm), "memory")
      BY <1>3, <3>1
    <3>4. SeenHigh(0, 0 + arm - 1, "memory")
      BY <1>1, <1>5, <2>2, <3>2, <3>3, SeenEntry
    <3>5. 0 + arm - 1 = arm - 1
      BY <2>2
    <3> QED BY <3>4, <3>5
  <2>5. SeenHigh(MemioBase, MemioTop - 1, "device")
    <3>1. PICK n \in DOMAIN queue :
            queue[n] = Mapping(MemioBase, MemioBase + KernBase, MemioTop - MemioBase, "device")
      BY <2>1, <2>3 DEF Holds, MachMappings
    <3> DEFINE c == MemioTop - MemioBase
    <3>2. c \in Nat /\ c <= c /\ MemioBase + c - 1 = MemioTop - 1
      BY <1>3
    <3>3. SeenHigh(MemioBase, MemioBase + c - 1, "device")
      BY <1>1, <1>3, <1>5, <3>1, <3>2, SeenEntry
    <3> QED BY <3>2, <3>3
  <2>6. SeenHigh(frame.base, frame.base + frame.size - 1, "framebuffer")
    <3>1. PICK n \in DOMAIN queue :
            queue[n] = Mapping(frame.base, frame.base + KernBase, RoundBig(frame.size), "framebuffer")
      BY <2>1, <2>3 DEF Holds, MachMappings
    <3>2. RoundBig(frame.size) \in Nat /\ frame.size <= RoundBig(frame.size)
      BY <2>2, RoundBigRounds
    <3> QED BY <1>1, <1>5, <2>2, <3>1, <3>2, SeenEntry
  <2> QED BY <1>5, <2>1, <2>4, <2>5, <2>6
<1> QED BY <1>4, <1>5

(* For every number of entries, page sizes and machine: the queue and the  *)
(* addresses given out stay in bounds, and the hardware translates every   *)
(* page as its entry says (early_mapping_add, page_index_early_map).       *)
THEOREM EarlyMappingsApplied == Spec => []MappingsApplied
<1> QED BY MapInvInit, MapInvNext, InvMappingsApplied, PTL DEF Spec

(* For every number of entries, page sizes and machine: what the boot core *)
(* was linked for is there when it jumps (mach_add_mapping, early_mm_init).*)
THEOREM HighHalfSeen == Spec => []HighHalfRight
<1> QED BY MapInvInit, MapInvNext, InvHighHalfRight, PTL DEF Spec

-----------------------------------------------------------------------------
(* Memory zones of the i386: rounding to pages.                            *)

LEMMA MemorySizes ==
         /\ PageSize \in Nat \ {0} /\ DmaTop \in Nat \ {0} /\ KernelSpace \in Nat /\ Wide \in Nat
         /\ DmaTop % PageSize = 0 /\ DmaTop < KernelSpace /\ KernelSpace < Wide
         /\ KernStart \in Nat /\ KernEnd \in Nat /\ Area \in Nat
BY ArchAssumption DEF ArchAssumption, Memory!I386MemoryAssumption

LEMMA RoundDownRounds ==
  ASSUME NEW a \in Nat
  PROVE  /\ Memory!RoundDown(a) \in Nat /\ Memory!RoundDown(a) <= a
         /\ Memory!RoundDown(a) % PageSize = 0
         /\ \A b \in Nat : b % PageSize = 0 /\ b <= a => b <= Memory!RoundDown(a)
<1> DEFINE q == a \div PageSize
<1>1. PageSize \in Nat \ {0}
  BY MemorySizes
<1>2. q \in Nat /\ q * PageSize <= a /\ a < q * PageSize + PageSize /\ q * PageSize \in Nat
  BY <1>1, DivBounds
<1>3. Memory!RoundDown(a) = q * PageSize
  <2>1. a = q * PageSize + (a % PageSize) /\ a % PageSize \in Nat
    BY <1>1
  <2> DEFINE x == q * PageSize
             y == a % PageSize
  <2>2. x \in Nat /\ y \in Nat /\ a = x + y
    BY <1>2, <2>1
  <2> HIDE DEF x, y
  <2>3. a - y = x
    BY <2>2
  <2> QED BY <2>3 DEF x, y, Memory!RoundDown
<1> HIDE DEF q
<1>4. (q * PageSize) % PageSize = 0
  BY <1>1, <1>2, MultipleOf
<1>5. ASSUME NEW b \in Nat, b % PageSize = 0, b <= a PROVE b <= q * PageSize
  <2>1. PICK c \in Nat : b = c * PageSize
    BY <1>1, <1>5, MultipleOf
  <2>2. q * PageSize + PageSize = (q + 1) * PageSize /\ q + 1 \in Nat
    BY <1>1, <1>2
  <2>3. c * PageSize < (q + 1) * PageSize
    BY <1>1, <1>2, <1>5, <2>1, <2>2
  <2>4. c < q + 1
    BY <1>1, <2>1, <2>2, <2>3, MulLess
  <2>5. c <= q
    BY <1>2, <2>1, <2>4
  <2> QED BY <1>1, <1>2, <2>1, <2>5, MulMono
<1> QED BY <1>2, <1>3, <1>4, <1>5

LEMMA RoundUpRounds ==
  ASSUME NEW a \in Nat
  PROVE  Memory!RoundUp(a) \in Nat /\ a <= Memory!RoundUp(a)
<1> DEFINE x == a + PageSize - 1
           q == x \div PageSize
<1>1. PageSize \in Nat \ {0}
  BY MemorySizes
<1>2. x \in Nat /\ q \in Nat /\ x < q * PageSize + PageSize
  BY <1>1, DivBounds
<1>3. Memory!RoundUp(a) = q * PageSize
  BY DEF Memory!RoundUp
<1> HIDE DEF q
<1>4. q * PageSize \in Nat
  BY <1>1, <1>2
<1> QED BY <1>1, <1>2, <1>3, <1>4

(* An aligned page that starts below an aligned top ends at most there.    *)
LEMMA PageFits ==
  ASSUME NEW p \in Nat, NEW t \in Nat, p % PageSize = 0, t % PageSize = 0, p < t
  PROVE  p + PageSize <= t
<1>1. PageSize \in Nat \ {0}
  BY MemorySizes
<1>2. PICK a \in Nat : p = a * PageSize
  BY <1>1, MultipleOf
<1>3. PICK b \in Nat : t = b * PageSize
  BY <1>1, MultipleOf
<1>4. a < b
  BY <1>1, <1>2, <1>3, MulLess
<1>5. a + 1 \in Nat /\ a + 1 <= b /\ (a + 1) * PageSize = p + PageSize
  BY <1>1, <1>2, <1>4
<1>6. (a + 1) * PageSize <= b * PageSize
  BY <1>1, <1>5, MulMono
<1> QED BY <1>3, <1>5, <1>6

-----------------------------------------------------------------------------
(* The map holds regions of one machine, each once.                        *)

MapOf(m) ==
  /\ map \in Seq(m)
  /\ bios \subseteq m
  /\ \A i, j \in DOMAIN map : map[i] = map[j] => i = j
  /\ \A i \in DOMAIN map : map[i] \notin bios

LEMMA RegionFacts ==
  ASSUME NEW m \in Machines, NEW r \in m
  PROVE  /\ r.base \in Nat /\ r.size \in Nat /\ r.base + r.size < Wide
         /\ Memory!End(r) = r.base + r.size
         /\ Memory!HoldsKernel(r) => DmaTop <= Memory!End(r)
         /\ \A s \in m \ {r} : r.base + r.size <= s.base \/ s.base + s.size <= r.base
<1>1. Memory!Sound(m)
  BY ArchAssumption DEF ArchAssumption, Memory!I386MemoryAssumption
<1>2. /\ r.base \in Nat /\ r.size \in Nat /\ r.base + r.size < Wide
      /\ r.base <= KernStart /\ r.base + r.size >= KernEnd => r.base + r.size >= DmaTop
      /\ \A s \in m \ {r} : r.base + r.size <= s.base \/ s.base + s.size <= r.base
  BY <1>1 DEF Memory!Sound
<1>3. Memory!End(r) = r.base + r.size
  <2>1. ASSUME NEW x \in 0 .. Wide - 1 PROVE x % Wide = x
    BY MemorySizes
  <2>2. r.base + r.size \in 0 .. Wide - 1
    BY <1>2, MemorySizes
  <2> QED BY <2>1, <2>2 DEF Memory!End
<1>4. Memory!HoldsKernel(r) => DmaTop <= Memory!End(r)
  BY <1>2, <1>3, MemorySizes DEF Memory!HoldsKernel
<1> QED BY <1>2, <1>3, <1>4

LEMMA NormalTopFacts ==
  ASSUME NEW m \in Machines, MapOf(m), Memory!KernelRegions # {}
  PROVE  /\ Memory!NormalTop \in Nat /\ Memory!NormalTop % PageSize = 0
         /\ DmaTop <= Memory!NormalTop /\ Memory!NormalTop < Wide
<1> DEFINE K == CHOOSE i \in Memory!KernelRegions : \A j \in Memory!KernelRegions : j <= i
           top == Memory!End(map[K])
<1>1. map \in Seq(m) /\ Len(map) \in Nat /\ DOMAIN map = 1 .. Len(map)
  BY DEF MapOf
<1>2. K \in Memory!KernelRegions
  <2>1. Memory!KernelRegions \subseteq 0 .. Len(map)
    BY <1>1 DEF Memory!KernelRegions
  <2>2. \E i \in Memory!KernelRegions : \A j \in Memory!KernelRegions : j <= i
    BY <1>1, <2>1, BoundedMost
  <2> QED BY <2>2
<1>3. Memory!NormalTop = Memory!RoundDown(Memory!Smaller(top, KernelSpace))
  BY DEF Memory!NormalTop
<1> HIDE DEF K
<1>4. map[K] \in m /\ Memory!HoldsKernel(map[K])
  BY <1>1, <1>2 DEF Memory!KernelRegions
<1>5. top \in Nat /\ DmaTop <= top /\ top < Wide
  BY <1>4, RegionFacts
<1> HIDE DEF top
<1> DEFINE s == Memory!Smaller(top, KernelSpace)
<1>6. s \in Nat /\ DmaTop <= s /\ s < Wide
  BY <1>5, MemorySizes DEF Memory!Smaller
<1> HIDE DEF s
<1>7. /\ Memory!RoundDown(s) \in Nat /\ Memory!RoundDown(s) <= s
      /\ Memory!RoundDown(s) % PageSize = 0
      /\ DmaTop <= Memory!RoundDown(s)
  BY <1>6, MemorySizes, RoundDownRounds
<1>8. Memory!RoundDown(s) < Wide
  BY <1>6, <1>7, MemorySizes
<1> QED BY <1>3, <1>7, <1>8 DEF s

LEMMA MaxPhysmemFacts ==
  ASSUME NEW m \in Machines, MapOf(m), map # << >>
  PROVE  /\ Memory!MaxPhysmem \in Nat /\ Memory!MaxPhysmem % PageSize = 0
         /\ Memory!MaxPhysmem < Wide
         /\ \A i \in DOMAIN map : Memory!RoundDown(Memory!End(map[i])) <= Memory!MaxPhysmem
<1> DEFINE ends == {Memory!End(map[i]) : i \in DOMAIN map}
           M == CHOOSE e \in ends : \A f \in ends : f <= e
<1>1. map \in Seq(m) /\ DOMAIN map = 1 .. Len(map) /\ Len(map) \in Nat /\ Len(map) # 0
  BY DEF MapOf
<1>2. \A i \in DOMAIN map : Memory!End(map[i]) \in Nat /\ Memory!End(map[i]) < Wide
  <2>1. ASSUME NEW i \in DOMAIN map PROVE Memory!End(map[i]) \in Nat /\ Memory!End(map[i]) < Wide
    <3>1. map[i] \in m
      BY <1>1
    <3> QED BY <3>1, RegionFacts
  <2> QED BY <2>1
<1>3. Memory!MaxPhysmem = Memory!RoundDown(M)
  BY DEF Memory!MaxPhysmem
<1>4. M \in ends /\ \A f \in ends : f <= M
  <2>1. ends \subseteq 0 .. Wide
    BY <1>2, MemorySizes
  <2>2. ends # {}
    <3>1. 1 \in DOMAIN map
      BY <1>1
    <3> QED BY <3>1
  <2> HIDE DEF ends
  <2>3. \E e \in ends : \A f \in ends : f <= e
    BY <2>1, <2>2, MemorySizes, BoundedMost
  <2> QED BY <2>3
<1> HIDE DEF M
<1>5. M \in Nat /\ M < Wide
  BY <1>2, <1>4
<1>6. /\ Memory!RoundDown(M) \in Nat /\ Memory!RoundDown(M) <= M
      /\ Memory!RoundDown(M) % PageSize = 0
      /\ \A b \in Nat : b % PageSize = 0 /\ b <= M => b <= Memory!RoundDown(M)
  BY <1>5, RoundDownRounds
<1>7. ASSUME NEW i \in DOMAIN map PROVE Memory!RoundDown(Memory!End(map[i])) <= Memory!RoundDown(M)
  <2>1. PICK e \in Nat : e = Memory!End(map[i])
    BY <1>2
  <2>2. e <= M
    BY <1>4, <2>1
  <2>3. Memory!RoundDown(e) \in Nat /\ Memory!RoundDown(e) <= e /\ Memory!RoundDown(e) % PageSize = 0
    BY RoundDownRounds
  <2>4. Memory!RoundDown(e) <= M
    BY <1>5, <2>2, <2>3
  <2> QED BY <1>6, <2>1, <2>3, <2>4
<1>8. Memory!RoundDown(M) < Wide
  BY <1>5, <1>6, MemorySizes
<1> QED BY <1>3, <1>6, <1>7, <1>8

-----------------------------------------------------------------------------
(* The zones and what was freed into them.                                 *)

(* The pages of region i that are offered to the zones, and those zone z   *)
(* takes.                                                                  *)
Offered(i) == {p \in Memory!PagesOf(map[i]) :
                 Memory!Usable(map[i]) /\ ~(Memory!KStart <= p /\ p < Memory!RealKend)}
Taken(i, z) == {p \in Offered(i) : Memory!InZone(p, z)}

(* The regions up to the next one have been freed, each page with the turn *)
(* it was freed in.                                                        *)
FreedUpTo(fr, n) ==
  \A z \in Memory!Zones : \A f :
    f \in fr[z] <=> \E i \in 1 .. n - 1 : \E p \in Taken(i, z) : f = <<p, i>>

ZonesSet ==
  /\ Memory!NormalTop <= Memory!MaxPhysmem
  /\ zone = [DMA     |-> [base |-> 0, size |-> DmaTop],
             NORMAL  |-> [base |-> DmaTop, size |-> Memory!NormalTop - DmaTop],
             HIGHMEM |-> [base |-> Memory!NormalTop,
                          size |-> Memory!MaxPhysmem - Memory!NormalTop]]

MemInv ==
  /\ booted \in {"e820", "cpu", "copy", "zones", "free", "done", "panic"}
  /\ \E m \in Machines : MapOf(m)
  /\ booted \in {"e820", "cpu", "copy", "zones"} => next = 1 /\ \A z \in Memory!Zones : freed[z] = {}
  /\ booted \in {"zones", "free", "done"} => Memory!KernelRegions # {}
  /\ booted \in {"free", "done"} => ZonesSet /\ FreedUpTo(freed, next)
  /\ booted = "free" => next \in 1 .. Len(map)
  /\ booted = "done" => next = Len(map) + 1

LEMMA MemInvInit == Memory!Init => MemInv
<1> SUFFICES ASSUME Memory!Init PROVE MemInv
  OBVIOUS
<1>1. booted = "e820" /\ bios \in Machines /\ map = << >> /\ next = 1
      /\ \A z \in Memory!Zones : freed[z] = {}
  BY DEF Memory!Init
<1>2. MapOf(bios)
  <2>1. \A S : << >> \in Seq(S)
    BY EmptySeq
  <2> QED BY <1>1, <2>1 DEF MapOf
<1> QED BY <1>1, <1>2 DEF MemInv

LEMMA MapGrows ==
  ASSUME NEW m \in Machines, MapOf(m), NEW r \in bios, map' = Append(map, r), bios' = bios \ {r}
  PROVE  MapOf(m)'
<1>1. map \in Seq(m) /\ r \in m /\ Len(map) \in Nat /\ DOMAIN map = 1 .. Len(map)
  BY DEF MapOf
<1>2. /\ map' \in Seq(m) /\ DOMAIN map' = 1 .. Len(map) + 1
      /\ map'[Len(map) + 1] = r /\ \A n \in 1 .. Len(map) : map'[n] = map[n]
  BY <1>1, AppendProperties
<1>3. \A n \in DOMAIN map' : n = Len(map) + 1 \/ n \in DOMAIN map
  BY <1>1, <1>2
<1>4. \A i, j \in DOMAIN map' : map'[i] = map'[j] => i = j
  BY <1>1, <1>2, <1>3 DEF MapOf
<1>5. \A i \in DOMAIN map' : map'[i] \notin bios'
  BY <1>1, <1>2, <1>3 DEF MapOf
<1> QED BY <1>2, <1>4, <1>5 DEF MapOf

LEMMA MemInvNext == MemInv /\ [Memory!Next]_Memory!vars => MemInv'
<1> SUFFICES ASSUME MemInv, [Memory!Next]_Memory!vars PROVE MemInv'
  OBVIOUS
<1>1. PICK m \in Machines : MapOf(m)
  BY DEF MemInv
<1>2. ASSUME UNCHANGED <<bios, map>>
      PROVE  /\ MapOf(m)' /\ Memory!KernelRegions' = Memory!KernelRegions
             /\ Memory!NormalTop' = Memory!NormalTop /\ Memory!MaxPhysmem' = Memory!MaxPhysmem
  <2>1. MapOf(m)'
    BY <1>1, <1>2 DEF MapOf
  <2>2. Memory!KernelRegions' = Memory!KernelRegions
    BY <1>2 DEF Memory!KernelRegions
  <2>3. Memory!NormalTop' = Memory!NormalTop
    BY <1>2, <2>2 DEF Memory!NormalTop
  <2>4. Memory!MaxPhysmem' = Memory!MaxPhysmem
    BY <1>2 DEF Memory!MaxPhysmem
  <2> QED BY <2>1, <2>2, <2>3, <2>4
<1>3. ASSUME booted' = "panic", UNCHANGED <<bios, map>> PROVE MemInv'
  BY <1>2, <1>3 DEF MemInv
<1>4. CASE Memory!DetectMemory
  <2>1. PICK r \in bios : map' = Append(map, r) /\ bios' = bios \ {r}
    BY <1>4 DEF Memory!DetectMemory
  <2>2. booted = "e820" /\ booted' \in {"cpu", "e820"} /\ UNCHANGED <<zone, freed, next>>
    BY <1>4 DEF Memory!DetectMemory
  <2>3. MapOf(m)'
    BY <1>1, <2>1, MapGrows
  <2> QED BY <2>2, <2>3 DEF MemInv
<1>5. CASE Memory!DetectFails
  BY <1>3, <1>5 DEF Memory!DetectFails, Memory!Panic
<1>6. CASE Memory!CheckCpu
  <2>1. CASE booted' = "panic"
    BY <1>3, <1>6, <2>1 DEF Memory!CheckCpu, Memory!Panic
  <2>2. CASE booted' # "panic"
    <3>1. booted = "cpu" /\ booted' = "copy" /\ UNCHANGED <<bios, map, zone, freed, next>>
      BY <1>6, <2>2 DEF Memory!CheckCpu, Memory!Panic
    <3> QED BY <1>2, <3>1 DEF MemInv
  <2> QED BY <2>1, <2>2
<1>7. CASE Memory!CopyMemoryMap
  <2>1. CASE Len(map) > MaxRegions \/ Memory!SizeAfterKernel = 0
    BY <1>3, <1>7, <2>1 DEF Memory!CopyMemoryMap, Memory!Panic
  <2>2. CASE ~(Len(map) > MaxRegions \/ Memory!SizeAfterKernel = 0)
    <3>1. booted = "copy" /\ booted' = "zones" /\ UNCHANGED <<bios, map, zone, freed, next>>
      BY <1>7, <2>2 DEF Memory!CopyMemoryMap
    <3>2. Memory!KernelRegions # {}
      BY <2>2 DEF Memory!SizeAfterKernel
    <3> QED BY <1>2, <3>1, <3>2 DEF MemInv
  <2> QED BY <2>1, <2>2
<1>8. CASE Memory!InitPmmZone
  <2>1. CASE Memory!MaxPhysmem < Memory!NormalTop
    BY <1>3, <1>8, <2>1 DEF Memory!InitPmmZone, Memory!Panic
  <2>2. CASE ~(Memory!MaxPhysmem < Memory!NormalTop)
    <3>1. /\ booted = "zones" /\ booted' = "free" /\ UNCHANGED <<bios, map, freed, next>>
          /\ zone' = [DMA     |-> [base |-> 0, size |-> DmaTop],
                      NORMAL  |-> [base |-> DmaTop, size |-> (Memory!NormalTop - DmaTop) % Wide],
                      HIGHMEM |-> [base |-> Memory!NormalTop,
                                   size |-> Memory!MaxPhysmem - Memory!NormalTop]]
      BY <1>8, <2>2 DEF Memory!InitPmmZone
    <3>2. Memory!KernelRegions # {} /\ next = 1 /\ \A z \in Memory!Zones : freed[z] = {}
      BY <3>1 DEF MemInv
    <3>3. map # << >> /\ Len(map) \in Nat /\ 1 \in 1 .. Len(map)
      <4>1. map \in Seq(m) /\ DOMAIN map = 1 .. Len(map) /\ Len(map) \in Nat
        BY <1>1 DEF MapOf
      <4>2. PICK i : i \in DOMAIN map
        BY <3>2 DEF Memory!KernelRegions
      <4> QED BY <4>1, <4>2
    <3>4. /\ Memory!NormalTop \in Nat /\ DmaTop <= Memory!NormalTop /\ Memory!NormalTop < Wide
          /\ Memory!MaxPhysmem \in Nat
      BY <1>1, <3>2, <3>3, NormalTopFacts, MaxPhysmemFacts
    <3>5. (Memory!NormalTop - DmaTop) % Wide = Memory!NormalTop - DmaTop
      <4>1. ASSUME NEW x \in 0 .. Wide - 1 PROVE x % Wide = x
        BY MemorySizes
      <4>2. Memory!NormalTop - DmaTop \in 0 .. Wide - 1
        BY <3>4, MemorySizes
      <4> QED BY <4>1, <4>2
    <3>6. ZonesSet'
      <4>1. Memory!NormalTop <= Memory!MaxPhysmem
        BY <2>2, <3>4
      <4> QED BY <1>2, <3>1, <3>5, <4>1 DEF ZonesSet
    <3>7. FreedUpTo(freed', next')
      <4>1. 1 .. next' - 1 = {}
        BY <3>1, <3>2
      <4> QED BY <3>1, <3>2, <4>1 DEF FreedUpTo
    <3>8. next' \in 1 .. Len(map')
      BY <3>1, <3>2, <3>3
    <3> QED BY <1>2, <3>1, <3>2, <3>6, <3>7, <3>8 DEF MemInv, FreedUpTo, Taken, Offered
  <2> QED BY <2>1, <2>2
<1>9. CASE Memory!FreeRegion
  <2>1. /\ booted = "free" /\ next \in DOMAIN map /\ next' = next + 1
        /\ booted' = (IF next = Len(map) THEN "done" ELSE "free")
        /\ UNCHANGED <<bios, map, zone>>
    BY <1>9 DEF Memory!FreeRegion
  <2>2. map \in Seq(m) /\ DOMAIN map = 1 .. Len(map) /\ Len(map) \in Nat
    BY <1>1 DEF MapOf
  <2>3. next \in Nat /\ next >= 1 /\ next <= Len(map)
    BY <2>1, <2>2
  <2>4. freed' = [z \in Memory!Zones |-> freed[z] \cup (Taken(next, z) \X {next})]
    BY <1>9 DEF Memory!FreeRegion, Taken, Offered
  <2>5. ASSUME NEW z \in Memory!Zones, NEW f
        PROVE  f \in freed'[z] <=> \E i \in 1 .. next : \E p \in Taken(i, z) : f = <<p, i>>
    <3>1. f \in freed'[z] <=> f \in freed[z] \/ \E p \in Taken(next, z) : f = <<p, next>>
      BY <2>4
    <3>2. f \in freed[z] <=> \E i \in 1 .. next - 1 : \E p \in Taken(i, z) : f = <<p, i>>
      BY <2>1 DEF MemInv, FreedUpTo
    <3>3. \A i : i \in 1 .. next <=> i \in 1 .. next - 1 \/ i = next
      BY <2>3
    <3> HIDE DEF Taken
    <3> QED BY <3>1, <3>2, <3>3
  <2>6. \A i, z : Taken(i, z)' = Taken(i, z)
    BY <2>1 DEF Taken, Offered, Memory!InZone
  <2>7. FreedUpTo(freed, next)'
    <3>1. next' - 1 = next
      BY <2>1, <2>3
    <3> QED BY <2>5, <2>6, <3>1 DEF FreedUpTo
  <2>8. ZonesSet'
    BY <1>2, <2>1 DEF MemInv, ZonesSet
  <2>9. booted' = "free" => next' \in 1 .. Len(map')
    BY <2>1, <2>3, <2>2
  <2>10. booted' = "done" => next' = Len(map') + 1
    BY <2>1
  <2> QED BY <1>2, <2>1, <2>7, <2>8, <2>9, <2>10 DEF MemInv
<1>10. CASE UNCHANGED Memory!vars
  <2>1. UNCHANGED <<booted, bios, map, zone, freed, next>>
    BY <1>10 DEF Memory!vars
  <2>2. \A i, z : Taken(i, z)' = Taken(i, z)
    BY <2>1 DEF Taken, Offered, Memory!InZone
  <2>3. FreedUpTo(freed, next)' <=> FreedUpTo(freed, next)
    BY <2>1, <2>2 DEF FreedUpTo
  <2>4. ZonesSet' <=> ZonesSet
    BY <1>2, <2>1 DEF ZonesSet
  <2> QED BY <1>2, <2>1, <2>3, <2>4 DEF MemInv
<1> QED BY <1>4, <1>5, <1>6, <1>7, <1>8, <1>9, <1>10 DEF Memory!Next

(* The zones divide the memory below the highest top between them.         *)
LEMMA ZoneOfPage ==
  ASSUME ZonesSet, NEW m \in Machines, MapOf(m), Memory!KernelRegions # {}, map # << >>
  PROVE  /\ \A p \in Nat, z \in Memory!Zones :
              Memory!InZone(p, z) <=> zone[z].base <= p /\ p < zone[z].base + zone[z].size
         /\ \A z \in Memory!Zones : /\ zone[z].base \in Nat /\ zone[z].size \in Nat
                                    /\ (zone[z].base + zone[z].size) % PageSize = 0
         /\ \A p \in Nat : p < Memory!MaxPhysmem => \E z \in Memory!Zones : Memory!InZone(p, z)
         /\ \A p \in Nat : \A y, z \in Memory!Zones :
              Memory!InZone(p, y) /\ Memory!InZone(p, z) => y = z
<1> DEFINE N == Memory!NormalTop
           M == Memory!MaxPhysmem
<1>1. /\ N \in Nat /\ M \in Nat /\ DmaTop \in Nat /\ Wide \in Nat
      /\ DmaTop <= N /\ N <= M /\ M < Wide
      /\ DmaTop % PageSize = 0 /\ N % PageSize = 0 /\ M % PageSize = 0
  BY NormalTopFacts, MaxPhysmemFacts, MemorySizes DEF ZonesSet
<1>2. zone = [DMA     |-> [base |-> 0, size |-> DmaTop],
              NORMAL  |-> [base |-> DmaTop, size |-> N - DmaTop],
              HIGHMEM |-> [base |-> N, size |-> M - N]]
  BY DEF ZonesSet
<1> HIDE DEF N, M
<1>3. /\ zone["DMA"].base = 0 /\ zone["DMA"].size = DmaTop
      /\ zone["NORMAL"].base = DmaTop /\ zone["NORMAL"].size = N - DmaTop
      /\ zone["HIGHMEM"].base = N /\ zone["HIGHMEM"].size = M - N
  BY <1>2
<1>4. /\ zone["DMA"].base + zone["DMA"].size = DmaTop
      /\ zone["NORMAL"].base + zone["NORMAL"].size = N
      /\ zone["HIGHMEM"].base + zone["HIGHMEM"].size = M
  BY <1>1, <1>3
<1>5. DmaTop % Wide = DmaTop /\ N % Wide = N /\ M % Wide = M
  <2>1. ASSUME NEW x \in 0 .. Wide - 1 PROVE x % Wide = x
    BY <1>1
  <2>2. DmaTop \in 0 .. Wide - 1 /\ N \in 0 .. Wide - 1 /\ M \in 0 .. Wide - 1
    BY <1>1
  <2> QED BY <2>1, <2>2
<1>6. ASSUME NEW p \in Nat
      PROVE  /\ Memory!InZone(p, "DMA") <=> p < DmaTop
             /\ Memory!InZone(p, "NORMAL") <=> DmaTop <= p /\ p < N
             /\ Memory!InZone(p, "HIGHMEM") <=> N <= p /\ p < M
  BY <1>3, <1>4, <1>5 DEF Memory!InZone, Memory!End
<1>7. Memory!Zones = {"DMA", "NORMAL", "HIGHMEM"}
  BY DEF Memory!Zones
<1>8. \A p \in Nat, z \in Memory!Zones :
        Memory!InZone(p, z) <=> zone[z].base <= p /\ p < zone[z].base + zone[z].size
  BY <1>3, <1>4, <1>6, <1>7
<1>9. \A z \in Memory!Zones : /\ zone[z].base \in Nat /\ zone[z].size \in Nat
                              /\ (zone[z].base + zone[z].size) % PageSize = 0
  <2>1. N - DmaTop \in Nat /\ M - N \in Nat /\ 0 \in Nat
    BY <1>1
  <2> QED BY <1>1, <1>3, <1>4, <1>7, <2>1
<1>10. ASSUME NEW p \in Nat, p < M PROVE \E z \in Memory!Zones : Memory!InZone(p, z)
  BY <1>1, <1>6, <1>7, <1>10
<1>11. ASSUME NEW p \in Nat, NEW y \in Memory!Zones, NEW z \in Memory!Zones,
              Memory!InZone(p, y), Memory!InZone(p, z)
       PROVE  y = z
  BY <1>1, <1>6, <1>7, <1>11
<1> QED BY <1>8, <1>9, <1>10, <1>11 DEF M

(* Pages of a region of the map, and of two.                               *)
LEMMA RegionPages ==
  ASSUME NEW m \in Machines, MapOf(m), map # << >>, NEW i \in DOMAIN map, NEW p \in Memory!PagesOf(map[i])
  PROVE  /\ p \in Nat /\ p % PageSize = 0 /\ p < Memory!MaxPhysmem
         /\ \A j \in DOMAIN map : p \in Memory!PagesOf(map[j]) => j = i
<1>1. map \in Seq(m) /\ DOMAIN map = 1 .. Len(map)
  BY DEF MapOf
<1>2. ASSUME NEW k \in DOMAIN map, p \in Memory!PagesOf(map[k])
      PROVE  /\ p \in Nat /\ p % PageSize = 0 /\ map[k] \in m
             /\ map[k].base \in Nat /\ map[k].size \in Nat
             /\ map[k].base <= p /\ p < map[k].base + map[k].size
             /\ p < Memory!RoundDown(Memory!End(map[k]))
             /\ Memory!RoundDown(Memory!End(map[k])) \in Nat
  <2>1. PICK r \in m : r = map[k]
    BY <1>1
  <2>2. r.base \in Nat /\ r.size \in Nat /\ Memory!End(r) = r.base + r.size
    BY RegionFacts
  <2>3. Memory!RoundUp(r.base) \in Nat /\ r.base <= Memory!RoundUp(r.base)
    BY <2>2, RoundUpRounds
  <2>4. Memory!RoundDown(Memory!End(r)) \in Nat /\ Memory!RoundDown(Memory!End(r)) <= Memory!End(r)
    BY <2>2, RoundDownRounds
  <2>5. /\ p \in Memory!RoundUp(r.base) .. Memory!RoundDown(Memory!End(r)) - 1
        /\ p % PageSize = 0
    BY <1>2, <2>1 DEF Memory!PagesOf
  <2> QED BY <2>1, <2>2, <2>3, <2>4, <2>5
<1>3. p < Memory!MaxPhysmem
  <2>1. Memory!RoundDown(Memory!End(map[i])) <= Memory!MaxPhysmem /\ Memory!MaxPhysmem \in Nat
    BY MaxPhysmemFacts
  <2> QED BY <1>2, <2>1
<1>4. ASSUME NEW j \in DOMAIN map, p \in Memory!PagesOf(map[j]) PROVE j = i
  <2>1. SUFFICES ASSUME j # i PROVE FALSE
    OBVIOUS
  <2>2. map[j] # map[i]
    BY <2>1 DEF MapOf
  <2>3. PICK r \in m : r = map[i]
    BY <1>1
  <2>4. PICK s \in m : s = map[j]
    BY <1>1
  <2>5. r.base + r.size <= s.base \/ s.base + s.size <= r.base
    BY <2>2, <2>3, <2>4, RegionFacts
  <2>6. r.base \in Nat /\ r.size \in Nat /\ r.base <= p /\ p < r.base + r.size /\ p \in Nat
    BY <1>2, <2>3
  <2>7. s.base \in Nat /\ s.size \in Nat /\ s.base <= p /\ p < s.base + s.size
    BY <1>2, <1>4, <2>4
  <2> QED BY <2>5, <2>6, <2>7
<1> QED BY <1>2, <1>3, <1>4

LEMMA InvPagesFreedOnce == MemInv => PagesFreedOnce
<1> SUFFICES ASSUME MemInv, booted = "done"
             PROVE  /\ UNION {{f[1] : f \in freed[z]} : z \in Memory!Zones} =
                         (UNION {Memory!PagesOf(map[i]) : i \in {j \in DOMAIN map : Memory!Usable(map[j])}})
                            \ Memory!KernelPages
                    /\ \A z \in Memory!Zones : \A f \in freed[z] :
                         /\ zone[z].base <= f[1] /\ f[1] + PageSize <= zone[z].base + zone[z].size
                         /\ \A y \in Memory!Zones : \A g \in freed[y] : g[1] = f[1] => y = z /\ g = f
  BY DEF PagesFreedOnce, Memory!PagesFreedOnce
<1>1. PICK m \in Machines : MapOf(m)
  BY DEF MemInv
<1>2. ZonesSet /\ Memory!KernelRegions # {} /\ FreedUpTo(freed, next) /\ next = Len(map) + 1
  BY DEF MemInv
<1>3. map # << >> /\ DOMAIN map = 1 .. Len(map) /\ 1 .. next - 1 = DOMAIN map
  <2>1. map \in Seq(m) /\ DOMAIN map = 1 .. Len(map) /\ Len(map) \in Nat
    BY <1>1 DEF MapOf
  <2>2. map # << >>
    BY <1>2 DEF Memory!KernelRegions
  <2> QED BY <1>2, <2>1, <2>2
<1>4. ASSUME NEW z \in Memory!Zones, NEW f \in freed[z]
      PROVE  \E i \in DOMAIN map : \E p \in Taken(i, z) : f = <<p, i>>
  BY <1>2, <1>3 DEF FreedUpTo
<1>5. ASSUME NEW z \in Memory!Zones, NEW i \in DOMAIN map, NEW p \in Taken(i, z)
      PROVE  <<p, i>> \in freed[z]
  BY <1>2, <1>3 DEF FreedUpTo
<1>6. ASSUME NEW i \in DOMAIN map, NEW z \in Memory!Zones, NEW p \in Taken(i, z)
      PROVE  /\ p \in Memory!PagesOf(map[i]) /\ Memory!Usable(map[i])
             /\ ~(Memory!KStart <= p /\ p < Memory!RealKend)
             /\ Memory!InZone(p, z) /\ p \in Nat /\ p % PageSize = 0
             /\ \A j \in DOMAIN map : p \in Memory!PagesOf(map[j]) => j = i
  <2>1. /\ p \in Memory!PagesOf(map[i]) /\ Memory!Usable(map[i])
        /\ ~(Memory!KStart <= p /\ p < Memory!RealKend) /\ Memory!InZone(p, z)
    BY DEF Taken, Offered
  <2> QED BY <1>1, <1>3, <2>1, RegionPages
<1>7. Memory!KStart \in Nat /\ Memory!RealKend \in Nat
  <2>1. Memory!KStart \in Nat
    BY MemorySizes, RoundDownRounds DEF Memory!KStart
  <2>2. Memory!RoundUp(KernEnd) + Area \in Nat
    BY MemorySizes, RoundUpRounds
  <2> QED BY <2>1, <2>2, RoundUpRounds DEF Memory!RealKend
<1>8. ASSUME NEW p \in Nat, p % PageSize = 0
      PROVE  p \in Memory!KernelPages <=> Memory!KStart <= p /\ p < Memory!RealKend
  BY <1>7, <1>8 DEF Memory!KernelPages
<1>9. ASSUME NEW p, NEW z \in Memory!Zones, NEW f \in freed[z], p = f[1]
      PROVE  \E i \in DOMAIN map : /\ Memory!Usable(map[i]) /\ p \in Memory!PagesOf(map[i])
                                   /\ p \notin Memory!KernelPages
  <2>1. PICK i \in DOMAIN map : \E q \in Taken(i, z) : f = <<q, i>>
    BY <1>4
  <2>2. PICK q \in Taken(i, z) : f = <<q, i>>
    BY <2>1
  <2>3. p = q
    BY <1>9, <2>2
  <2> QED BY <1>6, <1>8, <2>2, <2>3
<1>10. ASSUME NEW i \in DOMAIN map, Memory!Usable(map[i]), NEW p \in Memory!PagesOf(map[i]),
              p \notin Memory!KernelPages
       PROVE  \E z \in Memory!Zones : \E f \in freed[z] : p = f[1]
  <2>1. p \in Nat /\ p % PageSize = 0 /\ p < Memory!MaxPhysmem
    BY <1>1, <1>3, RegionPages
  <2>2. PICK z \in Memory!Zones : Memory!InZone(p, z)
    BY <1>1, <1>2, <1>3, <2>1, ZoneOfPage
  <2>3. p \in Taken(i, z)
    BY <1>8, <1>10, <2>1, <2>2 DEF Taken, Offered
  <2>4. <<p, i>> \in freed[z]
    BY <1>5, <2>3
  <2> QED BY <2>4
<1>11. UNION {{f[1] : f \in freed[z]} : z \in Memory!Zones} =
         (UNION {Memory!PagesOf(map[i]) : i \in {j \in DOMAIN map : Memory!Usable(map[j])}})
            \ Memory!KernelPages
  <2> DEFINE A == UNION {{f[1] : f \in freed[z]} : z \in Memory!Zones}
             B == UNION {Memory!PagesOf(map[i]) : i \in {j \in DOMAIN map : Memory!Usable(map[j])}}
  <2>1. ASSUME NEW p \in A PROVE p \in B \ Memory!KernelPages
    <3>1. PICK z \in Memory!Zones : \E f \in freed[z] : p = f[1]
      OBVIOUS
    <3> QED BY <1>9, <3>1
  <2>2. ASSUME NEW p \in B, p \notin Memory!KernelPages PROVE p \in A
    <3>1. PICK i \in DOMAIN map : Memory!Usable(map[i]) /\ p \in Memory!PagesOf(map[i])
      OBVIOUS
    <3>2. PICK z \in Memory!Zones : \E f \in freed[z] : p = f[1]
      BY <1>10, <2>2, <3>1
    <3> QED BY <3>2
  <2> HIDE DEF A, B
  <2>3. A = B \ Memory!KernelPages
    BY <2>1, <2>2
  <2> QED BY <2>3 DEF A, B
<1>12. ASSUME NEW z \in Memory!Zones, NEW f \in freed[z]
       PROVE  /\ zone[z].base <= f[1] /\ f[1] + PageSize <= zone[z].base + zone[z].size
              /\ \A y \in Memory!Zones : \A g \in freed[y] : g[1] = f[1] => y = z /\ g = f
  <2>1. PICK i \in DOMAIN map : \E q \in Taken(i, z) : f = <<q, i>>
    BY <1>4
  <2>2. PICK p \in Taken(i, z) : f = <<p, i>>
    BY <2>1
  <2>3. f[1] = p /\ p \in Nat /\ p % PageSize = 0 /\ Memory!InZone(p, z)
    BY <1>6, <2>2
  <2>4. /\ zone[z].base \in Nat /\ zone[z].size \in Nat
        /\ (zone[z].base + zone[z].size) % PageSize = 0
        /\ zone[z].base <= p /\ p < zone[z].base + zone[z].size
    BY <1>1, <1>2, <1>3, <2>3, ZoneOfPage
  <2>5. p + PageSize <= zone[z].base + zone[z].size
    <3>1. PICK t \in Nat : t = zone[z].base + zone[z].size
      BY <2>4
    <3> QED BY <2>3, <2>4, <3>1, PageFits
  <2>6. ASSUME NEW y \in Memory!Zones, NEW g \in freed[y], g[1] = f[1] PROVE y = z /\ g = f
    <3>1. PICK j \in DOMAIN map : \E q \in Taken(j, y) : g = <<q, j>>
      BY <1>4
    <3>2. PICK q \in Taken(j, y) : g = <<q, j>>
      BY <3>1
    <3>3. q = p
      BY <2>3, <2>6, <3>2
    <3>4. Memory!InZone(p, y) /\ p \in Memory!PagesOf(map[j])
      BY <1>6, <3>2, <3>3
    <3>5. y = z
      BY <1>1, <1>2, <1>3, <2>3, <3>4, ZoneOfPage
    <3>6. j = i
      BY <1>6, <2>2, <3>4
    <3> QED BY <2>2, <3>2, <3>3, <3>5, <3>6
  <2> QED BY <2>3, <2>4, <2>5, <2>6
<1> QED BY <1>11, <1>12

(* For every machine and memory map: each usable page outside the kernel   *)
(* is freed once, into the zone that holds it, and no other page is        *)
(* (arch_init_pmm_zone, arch_init_free_pmm_zone).                          *)
THEOREM MemoryFreedOnce == Memory!Spec => []PagesFreedOnce
<1> QED BY MemInvInit, MemInvNext, InvPagesFreedOnce, PTL DEF Memory!Spec
=============================================================================
