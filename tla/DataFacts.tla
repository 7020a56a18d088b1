----------------------------- MODULE DataFacts -----------------------------
(***************************************************************************)
(* Facts the proofs share: about natural numbers, and about the kernel's   *)
(* linked lists (include/list.h), kept as sequences.                       *)
(***************************************************************************)
EXTENDS Integers, Sequences, SequencesExt, SequenceTheorems, TLAPS, WellFoundedInduction

-----------------------------------------------------------------------------
(* Numbers.                                                                *)

(* Every non-empty set of naturals has a least element: induction, in the  *)
(* form the proofs use it.                                                 *)
LEMMA NatLeast ==
  ASSUME NEW S, S \subseteq Nat, S # {}
  PROVE  \E m \in S : \A k \in S : m <= k
<1>1. PICK m \in S : \A k \in S : <<k, m>> \notin OpToRel(<, Nat)
  BY NatLessThanWellFounded, WFMin, Zenon
<1>2. ASSUME NEW k \in S PROVE m <= k
  <2>1. <<k, m>> \notin {ss \in Nat \X Nat : ss[1] < ss[2]}
    BY <1>1 DEF OpToRel
  <2> QED BY <2>1
<1> QED BY <1>2

(* A value b and a step g define a function on the naturals: recursion, in *)
(* the form the proofs use it.                                             *)
Recurs(f, b, g) == f[0] = b /\ \A n \in Nat : f[n + 1] = g[n][f[n]]

LEMMA PrimitiveRecursion ==
  ASSUME NEW T, NEW b \in T, NEW g \in [Nat -> [T -> T]]
  PROVE  \E f \in [Nat -> T] : Recurs(f, b, g)
<1> DEFINE Upto(h, n) == /\ h \in [Nat -> T] /\ h[0] = b
                         /\ \A m \in Nat : m < n => h[m + 1] = g[m][h[m]]
           Stuck == {n \in Nat : ~\E h : Upto(h, n)}
<1>1. Stuck = {}
  <2>1. SUFFICES ASSUME Stuck # {} PROVE FALSE
    OBVIOUS
  <2>2. PICK n \in Stuck : \A k \in Stuck : n <= k
    BY <2>1, NatLeast, Zenon
  <2>3. CASE n = 0
    <3>1. Upto([m \in Nat |-> b], 0)
      OBVIOUS
    <3> QED BY <2>2, <2>3, <3>1
  <2>4. CASE n # 0
    <3>1. PICK k : k \in Nat /\ n = k + 1 /\ k \notin Stuck
      <4>1. n - 1 \in Nat /\ n = (n - 1) + 1 /\ ~(n <= n - 1)
        BY <2>2, <2>4
      <4> QED BY <2>2, <4>1
    <3>2. PICK h : Upto(h, k)
      BY <3>1
    <3> DEFINE i == [m \in Nat |-> IF m = k + 1 THEN g[k][h[k]] ELSE h[m]]
    <3>3. h \in [Nat -> T] /\ h[k] \in T /\ g[k][h[k]] \in T
      BY <3>1, <3>2
    <3>4. i \in [Nat -> T] /\ i[0] = b
      BY <3>1, <3>2, <3>3
    <3>5. ASSUME NEW m \in Nat, m < n PROVE i[m + 1] = g[m][i[m]]
      <4>1. m + 1 \in Nat /\ m # k + 1 /\ i[m] = h[m]
        BY <3>1, <3>5
      <4>2. CASE m = k
        BY <3>1, <4>1, <4>2
      <4>3. CASE m # k
        <5>1. m < k /\ m + 1 # k + 1
          BY <3>1, <3>5, <4>3
        <5>2. h[m + 1] = g[m][h[m]]
          BY <3>2, <5>1
        <5> QED BY <4>1, <5>1, <5>2
      <4> QED BY <4>2, <4>3
    <3>6. Upto(i, n)
      BY <3>4, <3>5
    <3> QED BY <2>2, <3>6
  <2> QED BY <2>3, <2>4
<1> DEFINE Bad == {n \in Nat : \E h, i : Upto(h, n) /\ Upto(i, n) /\ h[n] # i[n]}
<1>2. Bad = {}
  <2>1. SUFFICES ASSUME Bad # {} PROVE FALSE
    OBVIOUS
  <2>2. PICK n \in Bad : \A k \in Bad : n <= k
    BY <2>1, NatLeast, Zenon
  <2>3. PICK h, i : Upto(h, n) /\ Upto(i, n) /\ h[n] # i[n]
    BY <2>2
  <2>4. n # 0
    BY <2>3
  <2>5. PICK k : k \in Nat /\ n = k + 1 /\ k \notin Bad /\ k < n
    <3>1. n - 1 \in Nat /\ n = (n - 1) + 1 /\ ~(n <= n - 1) /\ n - 1 < n
      BY <2>2, <2>4
    <3> QED BY <2>2, <3>1
  <2>6. Upto(h, k) /\ Upto(i, k)
    BY <2>3, <2>5
  <2>7. h[k] = i[k]
    BY <2>5, <2>6
  <2> QED BY <2>3, <2>5, <2>7
<1> DEFINE H(n) == CHOOSE h : Upto(h, n)
           f == [n \in Nat |-> H(n)[n]]
<1>3. ASSUME NEW n \in Nat PROVE Upto(H(n), n)
  <2>1. \E h : Upto(h, n)
    BY <1>1
  <2> HIDE DEF Upto
  <2> QED BY <2>1
<1>4. f \in [Nat -> T] /\ f[0] = b
  <2> HIDE DEF H
  <2> QED BY <1>3
<1>5. ASSUME NEW n \in Nat PROVE f[n + 1] = g[n][f[n]]
  <2> HIDE DEF H
  <2>1. Upto(H(n + 1), n + 1) /\ Upto(H(n), n) /\ n + 1 \in Nat
    BY <1>3
  <2>2. Upto(H(n + 1), n)
    BY <2>1
  <2>3. H(n + 1)[n] = H(n)[n]
    <3> HIDE DEF Upto
    <3>1. n \notin Bad
      BY <1>2
    <3> QED BY <2>1, <2>2, <3>1
  <2>4. H(n + 1)[n + 1] = g[n][H(n + 1)[n]]
    BY <2>1
  <2> QED BY <2>1, <2>3, <2>4
<1> QED BY <1>4, <1>5 DEF Recurs

(* A function defined by recursion over 0 .. n exists.                     *)
RecursTo(f, b, g, n) == f[0] = b /\ \A k \in 0 .. n - 1 : f[k + 1] = g[k][f[k]]

LEMMA BoundedRecursion ==
  ASSUME NEW T, NEW b \in T, NEW n \in Nat, NEW g \in [0 .. n - 1 -> [T -> T]]
  PROVE  \E f \in [0 .. n -> T] : RecursTo(f, b, g, n)
<1> DEFINE h == [k \in Nat |-> IF k < n THEN g[k] ELSE [x \in T |-> x]]
<1>1. h \in [Nat -> [T -> T]]
  <2>1. ASSUME NEW k \in Nat PROVE (IF k < n THEN g[k] ELSE [x \in T |-> x]) \in [T -> T]
    <3>1. k < n => k \in 0 .. n - 1
      OBVIOUS
    <3> QED BY <3>1
  <2> QED BY <2>1
<1>2. \A k \in 0 .. n - 1 : h[k] = g[k]
  OBVIOUS
<1> HIDE DEF h
<1>3. PICK f \in [Nat -> T] : Recurs(f, b, h)
  BY <1>1, PrimitiveRecursion
<1>4. f[0] = b /\ \A k \in Nat : f[k + 1] = h[k][f[k]]
  BY <1>3 DEF Recurs
<1> DEFINE i == [k \in 0 .. n |-> f[k]]
<1>5. i \in [0 .. n -> T] /\ i[0] = b
  BY <1>4
<1>6. ASSUME NEW k \in 0 .. n - 1 PROVE i[k + 1] = g[k][i[k]]
  <2>1. k \in Nat /\ k \in 0 .. n /\ k + 1 \in 0 .. n
    OBVIOUS
  <2>2. i[k] = f[k] /\ i[k + 1] = f[k + 1] /\ h[k] = g[k]
    BY <1>2, <2>1
  <2> QED BY <1>4, <2>1, <2>2
<1> QED BY <1>5, <1>6 DEF RecursTo

(* A non-empty set of naturals with a bound has a greatest element.        *)
LEMMA BoundedMost ==
  ASSUME NEW N \in Nat, NEW S, S \subseteq 0 .. N, S # {}
  PROVE  \E m \in S : \A k \in S : k <= m
<1> DEFINE R == {N - k : k \in S}
<1>1. R \subseteq Nat /\ R # {}
  <2>1. ASSUME NEW k \in S PROVE N - k \in Nat
    <3>1. k \in 0 .. N
      OBVIOUS
    <3> QED BY <3>1
  <2> QED BY <2>1
<1> HIDE DEF R
<1>2. PICK r \in R : \A k \in R : r <= k
  BY <1>1, NatLeast, Zenon
<1>3. PICK m \in S : r = N - m
  BY DEF R
<1>4. ASSUME NEW k \in S PROVE k <= m
  <2>1. N - k \in R /\ r <= N - k
    BY <1>2 DEF R
  <2> QED BY <1>3, <2>1
<1> QED BY <1>4

(* Multiplication by a natural preserves order, and reflects it strictly.  *)
LEMMA MulMono ==
  ASSUME NEW a \in Nat, NEW b \in Nat, NEW d \in Nat, a <= b
  PROVE  a * d <= b * d
OBVIOUS

LEMMA MulLess ==
  ASSUME NEW a \in Nat, NEW b \in Nat, NEW d \in Nat, a * d < b * d
  PROVE  a < b
OBVIOUS

LEMMA MulRegroup ==
  ASSUME NEW a \in Nat, NEW b \in Nat, NEW d \in Nat
  PROVE  /\ a * (b * d) = (a * b) * d
         /\ a * d + b * d = (a + b) * d
         /\ a * b \in Nat
OBVIOUS

(* The quotient, by the inequalities that determine it.                    *)
LEMMA DivBounds ==
  ASSUME NEW n \in Nat, NEW d \in Nat \ {0}
  PROVE  /\ n \div d \in Nat
         /\ (n \div d) * d <= n
         /\ n < (n \div d) * d + d
OBVIOUS

LEMMA DivUnique ==
  ASSUME NEW n \in Nat, NEW d \in Nat \ {0}, NEW q \in Nat,
         q * d <= n, n < q * d + d
  PROVE  n \div d = q
<1>1. (n \div d) * d < (q + 1) * d
  BY DivBounds
<1>2. q * d < ((n \div d) + 1) * d
  BY DivBounds
<1>3. n \div d < q + 1
  BY <1>1, DivBounds, MulLess
<1>4. q < n \div d + 1
  BY <1>2, DivBounds, MulLess
<1> QED BY <1>3, <1>4, DivBounds

(* Remainder zero is being a multiple.                                     *)
LEMMA MultipleOf ==
  ASSUME NEW n \in Nat, NEW d \in Nat \ {0}
  PROVE  n % d = 0 <=> \E q \in Nat : n = q * d
<1>1. ASSUME n % d = 0 PROVE \E q \in Nat : n = q * d
  <2>1. n = (n \div d) * d
    BY <1>1
  <2> QED BY <2>1, DivBounds
<1>2. ASSUME NEW q \in Nat, n = q * d PROVE n % d = 0
  <2>1. n \div d = q
    BY <1>2, DivUnique
  <2>2. n = (n \div d) * d + (n % d)
    OBVIOUS
  <2> QED BY <1>2, <2>1, <2>2
<1> QED BY <1>1, <1>2

-----------------------------------------------------------------------------
(* Lists: list_add puts an element in front, list_del unlinks one.         *)

(* No element is linked twice.                                             *)
Distinct(s) == \A m, n \in DOMAIN s : s[m] = s[n] => m = n

LEMMA ListTypes ==
  ASSUME NEW S, NEW s \in Seq(S)
  PROVE  ToSet(s) \subseteq S /\ DOMAIN s = 1 .. Len(s) /\ Len(s) \in Nat
BY LenProperties, ElementOfSeq DEF ToSet

LEMMA ListEmpty ==
  ASSUME NEW S, NEW s \in Seq(S)
  PROVE  /\ ToSet(<< >>) = {} /\ Distinct(<< >>)
         /\ s # << >> => Head(s) \in ToSet(s) /\ Head(s) = s[1]
<1>1. ToSet(<< >>) = {} /\ Distinct(<< >>)
  BY DEF ToSet, Distinct
<1>2. s # << >> => Head(s) = s[1] /\ 1 \in DOMAIN s
  BY EmptySeq, LenProperties
<1> QED BY <1>1, <1>2 DEF ToSet

(* list_add.                                                               *)
LEMMA ListAdd ==
  ASSUME NEW S, NEW s \in Seq(S), NEW e \in S
  PROVE  /\ <<e>> \o s \in Seq(S)
         /\ ToSet(<<e>> \o s) = {e} \cup ToSet(s)
         /\ Distinct(s) /\ e \notin ToSet(s) => Distinct(<<e>> \o s)
<1> DEFINE t == <<e>> \o s
<1>1. <<e>> \in Seq(S) /\ Len(<<e>>) = 1 /\ <<e>>[1] = e
  OBVIOUS
<1>2. /\ t \in Seq(S)
      /\ Len(t) = 1 + Len(s)
      /\ Len(s) \in Nat
      /\ \A i \in 1 .. 1 + Len(s) : t[i] = IF i <= 1 THEN <<e>>[i] ELSE s[i - 1]
  BY <1>1, ConcatProperties, LenProperties
<1>3. DOMAIN t = 1 .. 1 + Len(s) /\ DOMAIN s = 1 .. Len(s)
  BY <1>2, LenProperties
<1>4. t[1] = e /\ \A i \in 1 .. Len(s) : t[i + 1] = s[i]
  BY <1>1, <1>2
<1> HIDE DEF t
<1>5. ToSet(t) = {e} \cup ToSet(s)
  <2>1. ASSUME NEW x \in ToSet(t) PROVE x \in {e} \cup ToSet(s)
    <3>1. PICK i \in 1 .. 1 + Len(s) : x = t[i]
      BY <2>1, <1>3 DEF ToSet
    <3>2. CASE i = 1
      BY <3>1, <3>2, <1>4
    <3>3. CASE i # 1
      <4>1. i - 1 \in 1 .. Len(s) /\ x = s[i - 1]
        BY <3>1, <3>3, <1>2
      <4> QED BY <4>1, <1>3 DEF ToSet
    <3> QED BY <3>2, <3>3
  <2>2. ASSUME NEW x \in {e} \cup ToSet(s) PROVE x \in ToSet(t)
    <3>1. 1 \in DOMAIN t /\ \A i \in DOMAIN s : i + 1 \in DOMAIN t /\ t[i + 1] = s[i]
      BY <1>2, <1>3, <1>4
    <3> QED BY <3>1, <1>4, <2>2 DEF ToSet
  <2> QED BY <2>1, <2>2
<1>6. ASSUME Distinct(s), e \notin ToSet(s) PROVE Distinct(t)
  <2> SUFFICES ASSUME NEW m \in DOMAIN t, NEW n \in DOMAIN t, t[m] = t[n] PROVE m = n
    BY DEF Distinct
  <2>1. ASSUME NEW k \in DOMAIN t, k # 1
        PROVE  k - 1 \in DOMAIN s /\ t[k] = s[k - 1] /\ t[k] # e
    <3>1. k - 1 \in DOMAIN s /\ t[k] = s[k - 1]
      BY <2>1, <1>2, <1>3, <1>4
    <3> QED BY <3>1, <1>6 DEF ToSet
  <2>2. CASE m = 1 \/ n = 1
    BY <2>1, <2>2, <1>4
  <2>3. CASE m # 1 /\ n # 1
    BY <2>1, <2>3, <1>6, <1>3, <1>2 DEF Distinct
  <2> QED BY <2>2, <2>3
<1> QED BY <1>2, <1>5, <1>6 DEF t

(* Dropping position p of a list of distinct elements drops that element.  *)
LEMMA ListDrop ==
  ASSUME NEW S, NEW s \in Seq(S), NEW t \in Seq(S), NEW p \in 1 .. Len(s),
         Len(t) = Len(s) - 1,
         \A j \in 1 .. Len(s) - 1 : t[j] = IF j < p THEN s[j] ELSE s[j + 1],
         Distinct(s)
  PROVE  ToSet(t) = ToSet(s) \ {s[p]} /\ Distinct(t)
<1>1. DOMAIN s = 1 .. Len(s) /\ DOMAIN t = 1 .. Len(s) - 1 /\ Len(s) \in Nat
  BY LenProperties
<1> DEFINE up(j) == IF j < p THEN j ELSE j + 1
<1>2. \A j \in DOMAIN t : up(j) \in DOMAIN s /\ up(j) # p /\ t[j] = s[up(j)]
  BY <1>1
<1>3. \A i \in DOMAIN s : i # p => \E j \in DOMAIN t : up(j) = i
  <2> TAKE i \in DOMAIN s
  <2> HAVE i # p
  <2>1. CASE i < p
    <3>1. i \in DOMAIN t /\ up(i) = i
      BY <1>1, <2>1
    <3> QED BY <3>1
  <2>2. CASE i > p
    <3>1. i - 1 \in DOMAIN t /\ up(i - 1) = i
      BY <1>1, <2>2
    <3> QED BY <3>1
  <2> QED BY <1>1, <2>1, <2>2
<1>4. \A j, k \in DOMAIN t : up(j) = up(k) => j = k
  BY <1>1
<1> HIDE DEF up
<1>5. \A x : x \in ToSet(t) <=> x \in ToSet(s) \ {s[p]}
  <2>1. ASSUME NEW x \in ToSet(t) PROVE x \in ToSet(s) \ {s[p]}
    <3>1. PICK j \in DOMAIN t : x = t[j]
      BY <2>1 DEF ToSet
    <3>2. up(j) \in DOMAIN s /\ x = s[up(j)] /\ up(j) # p
      BY <3>1, <1>2
    <3>3. x # s[p]
      BY <3>2, <1>1 DEF Distinct
    <3> QED BY <3>2, <3>3 DEF ToSet
  <2>2. ASSUME NEW x \in ToSet(s) \ {s[p]} PROVE x \in ToSet(t)
    <3>1. PICK i \in DOMAIN s : x = s[i]
      BY <2>2 DEF ToSet
    <3>2. i # p
      BY <2>2, <3>1
    <3>3. PICK j \in DOMAIN t : up(j) = i
      BY <3>2, <1>3
    <3>4. x = t[j]
      BY <3>1, <3>3, <1>2
    <3> QED BY <3>4 DEF ToSet
  <2> QED BY <2>1, <2>2
<1>6. Distinct(t)
  BY <1>2, <1>4 DEF Distinct
<1> QED BY <1>5, <1>6

(* Taking the first element.                                               *)
LEMMA ListTail ==
  ASSUME NEW S, NEW s \in Seq(S), s # << >>
  PROVE  /\ Tail(s) \in Seq(S)
         /\ Distinct(s) => ToSet(Tail(s)) = ToSet(s) \ {Head(s)} /\ Distinct(Tail(s))
<1>1. /\ Tail(s) \in Seq(S)
      /\ Len(Tail(s)) = Len(s) - 1
      /\ \A i \in 1 .. Len(Tail(s)) : Tail(s)[i] = s[i + 1]
  BY HeadTailProperties
<1>2. Len(s) \in Nat \ {0} /\ Head(s) = s[1]
  BY EmptySeq, ListEmpty
<1>3. 1 \in 1 .. Len(s) /\ \A j \in 1 .. Len(s) - 1 : Tail(s)[j] = IF j < 1 THEN s[j] ELSE s[j + 1]
  BY <1>1, <1>2
<1>4. Distinct(s) => ToSet(Tail(s)) = ToSet(s) \ {s[1]} /\ Distinct(Tail(s))
  BY <1>1, <1>3, ListDrop
<1> QED BY <1>1, <1>2, <1>4

(* Unlinking position p: what precedes it followed by what follows it.     *)
LEMMA ListSplice ==
  ASSUME NEW S, NEW s \in Seq(S), NEW n \in Nat, n = Len(s), NEW p \in 1 .. n
  PROVE  /\ RemoveAt(s, p) \in Seq(S)
         /\ Len(RemoveAt(s, p)) = n - 1
         /\ \A j \in 1 .. n - 1 : RemoveAt(s, p)[j] = IF j < p THEN s[j] ELSE s[j + 1]
<1> DEFINE u == SubSeq(s, 1, p - 1)
           v == SubSeq(s, p + 1, n)
           t == u \o v
<1>0. \A i \in 1 .. n : s[i] \in S
  BY ElementOfSeq
<1>1. u \in Seq(S) /\ Len(u) = p - 1 /\ \A i \in 1 .. p - 1 : u[i] = s[i]
  BY <1>0, SubSeqProperties
<1>2. v \in Seq(S) /\ Len(v) = n - p /\ \A i \in 1 .. n - p : v[i] = s[p + i]
  <2> DEFINE m == p + 1
  <2>1. m \in Int /\ n \in Int /\ n - m + 1 = n - p /\ \A i \in 1 .. n - p : m + i - 1 = p + i
    OBVIOUS
  <2>2. v = SubSeq(s, m, n) /\ \A i \in m .. n : s[i] \in S
    BY <1>0
  <2>3. (IF m <= n THEN n - m + 1 ELSE 0) = n - p
    OBVIOUS
  <2> HIDE DEF m, v
  <2>4. v \in Seq(S) /\ Len(v) = n - p /\ \A i \in 1 .. n - m + 1 : v[i] = s[m + i - 1]
    BY <2>1, <2>2, <2>3, SubSeqProperties
  <2>5. \A i \in 1 .. n - p : v[i] = s[p + i]
    BY <2>1, <2>4
  <2> QED BY <2>4, <2>5
<1>3. RemoveAt(s, p) = t
  BY DEF RemoveAt
<1> HIDE DEF u, v
<1>4. /\ t \in Seq(S)
      /\ Len(t) = Len(u) + Len(v)
      /\ \A i \in 1 .. Len(u) + Len(v) : t[i] = IF i <= Len(u) THEN u[i] ELSE v[i - Len(u)]
  BY <1>1, <1>2, ConcatProperties
<1> HIDE DEF t
<1>5. Len(u) + Len(v) = n - 1
  BY <1>1, <1>2
<1>6. ASSUME NEW j \in 1 .. n - 1 PROVE t[j] = IF j < p THEN s[j] ELSE s[j + 1]
  <2>1. t[j] = IF j <= p - 1 THEN u[j] ELSE v[j - (p - 1)]
    BY <1>1, <1>4, <1>5
  <2>2. CASE j < p
    BY <2>1, <2>2, <1>1
  <2>3. CASE ~(j < p)
    <3>1. j - (p - 1) \in 1 .. n - p /\ p + (j - (p - 1)) = j + 1
      BY <2>3
    <3>2. v[j - (p - 1)] = s[p + (j - (p - 1))]
      BY <3>1, <1>2
    <3> QED BY <2>1, <2>3, <3>1, <3>2
  <2> QED BY <2>2, <2>3
<1> QED BY <1>3, <1>4, <1>5, <1>6

(* list_del of an element that is linked takes it from its first place.    *)
LEMMA ListDelAt ==
  ASSUME NEW S, NEW s \in Seq(S), NEW e \in ToSet(s)
  PROVE  \E p \in 1 .. Len(s) :
           /\ s[p] = e
           /\ RemoveFirst(s, e) \in Seq(S)
           /\ Len(RemoveFirst(s, e)) = Len(s) - 1
           /\ \A j \in 1 .. Len(s) - 1 : RemoveFirst(s, e)[j] = IF j < p THEN s[j] ELSE s[j + 1]
<1> DEFINE I == {i \in 1 .. Len(s) : s[i] = e}
<1>1. DOMAIN s = 1 .. Len(s) /\ Len(s) \in Nat /\ I \subseteq Nat
  BY LenProperties
<1>2. I # {}
  BY <1>1 DEF ToSet
<1>3. Min(I) \in I
  BY <1>1, <1>2, NatLeast, Zenon DEF Min
<1>4. PICK p \in 1 .. Len(s) : s[p] = e /\ p = Min(I)
  BY <1>3
<1>5. RemoveFirst(s, e) = RemoveAt(s, p)
  BY <1>4, <1>2 DEF RemoveFirst, SelectInSeq
<1>6. /\ RemoveAt(s, p) \in Seq(S)
      /\ Len(RemoveAt(s, p)) = Len(s) - 1
      /\ \A j \in 1 .. Len(s) - 1 : RemoveAt(s, p)[j] = IF j < p THEN s[j] ELSE s[j + 1]
  BY <1>1, ListSplice
<1> HIDE DEF I
<1> QED BY <1>4, <1>5, <1>6

(* list_del, of an element that is linked or of one that is not.           *)
LEMMA ListDel ==
  ASSUME NEW S, NEW s \in Seq(S), NEW e
  PROVE  /\ RemoveFirst(s, e) \in Seq(S)
         /\ Distinct(s) => ToSet(RemoveFirst(s, e)) = ToSet(s) \ {e} /\ Distinct(RemoveFirst(s, e))
<1>1. CASE e \notin ToSet(s)
  <2>1. DOMAIN s = 1 .. Len(s)
    BY LenProperties
  <2>2. RemoveFirst(s, e) = s
    BY <1>1, <2>1 DEF RemoveFirst, ToSet
  <2> QED BY <1>1, <2>2
<1>2. CASE e \in ToSet(s)
  <2>1. PICK p \in 1 .. Len(s) :
          /\ s[p] = e
          /\ RemoveFirst(s, e) \in Seq(S)
          /\ Len(RemoveFirst(s, e)) = Len(s) - 1
          /\ \A j \in 1 .. Len(s) - 1 : RemoveFirst(s, e)[j] = IF j < p THEN s[j] ELSE s[j + 1]
    BY <1>2, ListDelAt
  <2>2. ASSUME Distinct(s)
        PROVE  ToSet(RemoveFirst(s, e)) = ToSet(s) \ {s[p]} /\ Distinct(RemoveFirst(s, e))
    BY <2>1, <2>2, ListDrop
  <2> QED BY <2>1, <2>2
<1> QED BY <1>1, <1>2

(* Linking an element after the first k.                                   *)
LEMMA ListInsert ==
  ASSUME NEW S, NEW s \in Seq(S), NEW e \in S, NEW k \in 0 .. Len(s)
  PROVE  /\ InsertAt(s, k + 1, e) \in Seq(S)
         /\ Len(InsertAt(s, k + 1, e)) = Len(s) + 1
         /\ \A i \in 1 .. Len(s) + 1 :
              InsertAt(s, k + 1, e)[i] = IF i <= k THEN s[i] ELSE IF i = k + 1 THEN e ELSE s[i - 1]
<1>1. PICK n \in Nat : n = Len(s) /\ k \in 0 .. n
  BY LenProperties
<1> DEFINE u == SubSeq(s, 1, k)
           v == SubSeq(s, k + 1, n)
           w == u \o <<e>>
           t == w \o v
<1>2. \A i \in 1 .. n : s[i] \in S
  BY <1>1, ElementOfSeq
<1>3. u \in Seq(S) /\ Len(u) = k /\ \A i \in 1 .. k : u[i] = s[i]
  BY <1>1, <1>2, SubSeqProperties
<1>4. v \in Seq(S) /\ Len(v) = n - k /\ \A i \in 1 .. n - k : v[i] = s[k + i]
  <2> DEFINE m == k + 1
  <2>1. m \in Int /\ n \in Int /\ n - m + 1 = n - k /\ \A i \in 1 .. n - k : m + i - 1 = k + i
    BY <1>1
  <2>2. v = SubSeq(s, m, n) /\ \A i \in m .. n : s[i] \in S
    BY <1>1, <1>2
  <2>3. (IF m <= n THEN n - m + 1 ELSE 0) = n - k
    BY <1>1
  <2> HIDE DEF m, v
  <2>4. v \in Seq(S) /\ Len(v) = n - k /\ \A i \in 1 .. n - m + 1 : v[i] = s[m + i - 1]
    BY <2>1, <2>2, <2>3, SubSeqProperties
  <2>5. \A i \in 1 .. n - k : v[i] = s[k + i]
    BY <2>1, <2>4
  <2> QED BY <2>4, <2>5
<1>5. InsertAt(s, k + 1, e) = t
  <2>1. PICK i \in Nat : i = k + 1 /\ i - 1 = k
    BY <1>1
  <2>2. InsertAt(s, i, e) = SubSeq(s, 1, i - 1) \o <<e>> \o SubSeq(s, i, Len(s))
    BY Zenon DEF InsertAt
  <2>3. SubSeq(s, 1, i - 1) = u /\ SubSeq(s, i, Len(s)) = v
    BY <1>1, <2>1
  <2> QED BY <2>1, <2>2, <2>3, Zenon
<1>6. <<e>> \in Seq(S) /\ Len(<<e>>) = 1 /\ <<e>>[1] = e
  OBVIOUS
<1> HIDE DEF u, v
<1>7. w \in Seq(S) /\ Len(w) = k + 1 /\ \A i \in 1 .. k + 1 : w[i] = IF i <= k THEN s[i] ELSE e
  <2> DEFINE x == <<e>>
  <2>1. x \in Seq(S) /\ Len(x) = 1 /\ x[1] = e
    BY <1>6
  <2> HIDE DEF x
  <2> DEFINE y == u \o x
  <2>2. /\ y \in Seq(S) /\ Len(y) = Len(u) + Len(x)
        /\ \A i \in 1 .. Len(u) + Len(x) : y[i] = IF i <= Len(u) THEN u[i] ELSE x[i - Len(u)]
    BY <1>3, <2>1, ConcatProperties
  <2> HIDE DEF y
  <2>3. ASSUME NEW i \in 1 .. k + 1 PROVE y[i] = IF i <= k THEN s[i] ELSE e
    <3>1. y[i] = IF i <= k THEN u[i] ELSE x[i - k]
      BY <1>1, <1>3, <2>1, <2>2
    <3>2. ~(i <= k) => i - k = 1
      BY <1>1
    <3>3. i <= k => i \in 1 .. k
      BY <1>1
    <3> QED BY <1>3, <2>1, <3>1, <3>2, <3>3
  <2> QED BY <1>3, <2>1, <2>2, <2>3 DEF x, y
<1> HIDE DEF w
<1>8. /\ t \in Seq(S) /\ Len(t) = n + 1
      /\ \A i \in 1 .. n + 1 : t[i] = IF i <= k + 1 THEN w[i] ELSE v[i - (k + 1)]
  <2>1. Len(w) + Len(v) = n + 1
    BY <1>1, <1>4, <1>7
  <2>2. /\ t \in Seq(S) /\ Len(t) = Len(w) + Len(v)
        /\ \A i \in 1 .. Len(w) + Len(v) : t[i] = IF i <= Len(w) THEN w[i] ELSE v[i - Len(w)]
    BY <1>4, <1>7, ConcatProperties
  <2> HIDE DEF t
  <2> QED BY <1>7, <2>1, <2>2
<1> HIDE DEF t
<1>9. ASSUME NEW i \in 1 .. n + 1
      PROVE  t[i] = IF i <= k THEN s[i] ELSE IF i = k + 1 THEN e ELSE s[i - 1]
  <2>1. CASE i <= k + 1
    <3>1. i \in 1 .. k + 1
      BY <1>1, <2>1
    <3> QED BY <1>1, <1>7, <1>8, <2>1, <3>1
  <2>2. CASE ~(i <= k + 1)
    <3>1. i - (k + 1) \in 1 .. n - k /\ k + (i - (k + 1)) = i - 1
      BY <1>1, <2>2
    <3>2. v[i - (k + 1)] = s[i - 1]
      BY <1>4, <3>1
    <3> QED BY <1>1, <1>8, <2>2, <3>2
  <2> QED BY <2>1, <2>2
<1> QED BY <1>1, <1>5, <1>8, <1>9
=============================================================================
