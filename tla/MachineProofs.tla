---------------------------- MODULE MachineProofs ----------------------------
(***************************************************************************)
(* The device index keeps every listed device's bus, and a walk over it    *)
(* meets each device once, for any devices, numbers and buses; what the    *)
(* boot takes from the firmware was answered, whatever mails nobody asked  *)
(* for; interrupted code goes on as it was, however deep exceptions nest;  *)
(* the pointers of list.h implement sequences, for any lists and entries;  *)
(* the last lines printed can be read on the screen, whatever its size and *)
(* that of a line; and the serial drivers send every character once and in *)
(* order on any board.                                                     *)
(***************************************************************************)
EXTENDS MCMachine, DataFacts, FiniteSetTheorems

-----------------------------------------------------------------------------
(* The device index: no listed device outlives its bus.                    *)

Buses == /\ list \in Seq(Devices)
         /\ bus \in [Devices -> Devices \cup {Null}]
         /\ BusListed

(* The entries __add passes are the first ones of the list.                *)
LEMMA PassedFirst ==
  ASSUME list \in Seq(Devices), NEW d
  PROVE  /\ Cardinality(Passed(d)) \in 0 .. Len(list)
         /\ Passed(d) = 1 .. Cardinality(Passed(d))
<1>1. PICK z \in Nat : z = Len(list) /\ DOMAIN list = 1 .. z
  BY LenProperties
<1> DEFINE S == {n \in Nat : n + 1 \notin Passed(d)}
<1>2. Passed(d) \subseteq 1 .. z /\ \A n \in Passed(d) : \A m \in 1 .. n : m \in Passed(d)
  <2>1. Passed(d) \subseteq 1 .. z
    BY <1>1 DEF Passed
  <2>2. ASSUME NEW n \in Passed(d), NEW m \in 1 .. n PROVE m \in Passed(d)
    <3>1. n \in 1 .. z /\ \A i \in 1 .. n : devno[list[i]] <= devno[d]
      BY <1>1 DEF Passed
    <3>2. m \in 1 .. z /\ \A i \in 1 .. m : i \in 1 .. n
      BY <3>1
    <3> QED BY <1>1, <3>1, <3>2 DEF Passed
  <2> QED BY <2>1, <2>2
<1>3. PICK k \in S : \A n \in S : k <= n
  <2>1. z \in S
    BY <1>2
  <2> QED BY <2>1, NatLeast
<1>4. Passed(d) = 1 .. k
  <2>1. ASSUME NEW n \in Passed(d) PROVE n \in 1 .. k
    <3>1. n \in Nat /\ n >= 1
      BY <1>2
    <3>2. k + 1 \notin Passed(d) /\ k \in Nat
      BY <1>3
    <3>3. ~(k + 1 <= n)
      BY <1>2, <3>1, <3>2
    <3> QED BY <3>1, <3>2, <3>3
  <2>2. ASSUME NEW n \in 1 .. k PROVE n \in Passed(d)
    <3>1. n - 1 \in Nat /\ ~(k <= n - 1) /\ (n - 1) + 1 = n
      BY <1>3
    <3>2. n - 1 \notin S
      BY <1>3, <3>1
    <3> QED BY <3>1, <3>2
  <2> QED BY <2>1, <2>2
<1>5. k \in Nat /\ Cardinality(Passed(d)) = k
  <2>1. k \in Nat
    BY <1>3
  <2>2. Cardinality(1 .. k) = IF 1 > k THEN 0 ELSE k - 1 + 1
    BY <2>1, FS_Interval
  <2> QED BY <1>4, <2>1, <2>2
<1>6. k <= z
  BY <1>2, <1>4, <1>5
<1> QED BY <1>1, <1>4, <1>5, <1>6

(* What adding a device makes of the list.                                 *)
LEMMA Added ==
  ASSUME list \in Seq(Devices), NEW d \in Devices, DevAdd(d)
  PROVE  \/ list' = list
         \/ \E k \in 0 .. Len(list) :
              /\ Passed(d) = 1 .. k
              /\ list' \in Seq(Devices) /\ Len(list') = Len(list) + 1
              /\ \A i \in 1 .. Len(list) + 1 :
                   list'[i] = IF i <= k THEN list[i] ELSE IF i = k + 1 THEN d ELSE list[i - 1]
<1>1. list' = list \/ list' = InsertAt(list, Cardinality(Passed(d)) + 1, d)
  BY DEF DevAdd, Add
<1>2. PICK k \in 0 .. Len(list) : k = Cardinality(Passed(d)) /\ Passed(d) = 1 .. k
  BY PassedFirst
<1> DEFINE t == InsertAt(list, k + 1, d)
<1>3. /\ t \in Seq(Devices) /\ Len(t) = Len(list) + 1
      /\ \A i \in 1 .. Len(list) + 1 :
           t[i] = IF i <= k THEN list[i] ELSE IF i = k + 1 THEN d ELSE list[i - 1]
  BY ListInsert
<1>4. list' = list \/ list' = t
  BY <1>1, <1>2
<1> HIDE DEF t
<1>5. CASE list' = t
  BY <1>2, <1>3, <1>5
<1> QED BY <1>4, <1>5

LEMMA AddedListed ==
  ASSUME list \in Seq(Devices), NEW d \in Devices, DevAdd(d)
  PROVE  /\ list' \in Seq(Devices)
         /\ Listed' = Listed \/ Listed' = Listed \cup {d}
<1>1. CASE list' = list
  BY <1>1 DEF Listed
<1>2. ASSUME NEW k \in 0 .. Len(list),
             list' \in Seq(Devices), Len(list') = Len(list) + 1,
             \A i \in 1 .. Len(list) + 1 :
               list'[i] = IF i <= k THEN list[i] ELSE IF i = k + 1 THEN d ELSE list[i - 1]
      PROVE  Listed' = Listed \cup {d}
  <2>1. PICK z \in Nat : z = Len(list) /\ DOMAIN list = 1 .. z /\ DOMAIN list' = 1 .. z + 1
    BY <1>2, LenProperties
  <2>2. ASSUME NEW i \in 1 .. z + 1 PROVE list'[i] \in Listed \cup {d}
    <3>1. CASE i <= k
      <4>1. list'[i] = list[i] /\ i \in 1 .. z
        BY <1>2, <2>1, <3>1
      <4> QED BY <2>1, <4>1 DEF Listed, ToSet
    <3>2. CASE i = k + 1
      BY <1>2, <2>1, <3>2
    <3>3. CASE i > k + 1
      <4>1. list'[i] = list[i - 1] /\ i - 1 \in 1 .. z
        BY <1>2, <2>1, <3>3
      <4> QED BY <2>1, <4>1 DEF Listed, ToSet
    <3> QED BY <2>1, <3>1, <3>2, <3>3
  <2>3. ASSUME NEW i \in 1 .. z PROVE list[i] \in Listed'
    <3>1. CASE i <= k
      <4>1. list'[i] = list[i] /\ i \in 1 .. z + 1
        BY <1>2, <2>1, <3>1
      <4> QED BY <2>1, <4>1 DEF Listed, ToSet
    <3>2. CASE ~(i <= k)
      <4>1. PICK j \in 1 .. z + 1 : j = i + 1 /\ ~(j <= k) /\ j # k + 1 /\ j - 1 = i
        BY <2>1, <3>2
      <4>2. list'[j] = list[i]
        BY <1>2, <2>1, <4>1
      <4> QED BY <2>1, <4>2 DEF Listed, ToSet
    <3> QED BY <3>1, <3>2
  <2>4. d \in Listed'
    <3>1. PICK j \in 1 .. z + 1 : j = k + 1 /\ ~(j <= k)
      BY <2>1
    <3>2. list'[j] = d
      BY <1>2, <2>1, <3>1
    <3> QED BY <2>1, <3>2 DEF Listed, ToSet
  <2> QED BY <2>1, <2>2, <2>3, <2>4 DEF Listed, ToSet
<1> QED BY <1>1, <1>2, Added

LEMMA BusesStep == DevicesAssumption /\ Buses /\ [Next]_vars => Buses'
<1> SUFFICES ASSUME DevicesAssumption, Buses, [Next]_vars PROVE Buses'
  OBVIOUS
<1>1. Listed \subseteq Devices
  BY ListTypes DEF Buses, Listed
<1>2. CASE list' = list /\ bus' = bus
  BY <1>2 DEF Buses, BusListed, Listed
<1>3. ASSUME NEW d \in Devices, New(d) PROVE Buses'
  <2>1. /\ d \notin Listed /\ list' \in Seq(Devices)
        /\ Listed' = Listed \/ Listed' = Listed \cup {d}
    BY <1>3, AddedListed DEF New, Buses
  <2>2. bus' = [bus EXCEPT ![d] = FromName(parent[d])] /\ FromName(parent[d]) \in Listed \cup {Null}
    BY <1>3 DEF New, FromName
  <2>3. bus' \in [Devices -> Devices \cup {Null}]
    BY <1>1, <2>2 DEF Buses
  <2>4. \A e \in Listed' : bus'[e] \in Listed' \cup {Null}
    BY <1>1, <2>1, <2>2 DEF Buses, BusListed
  <2> QED BY <2>1, <2>3, <2>4 DEF Buses, BusListed
<1>4. ASSUME NEW d \in Devices, DevRemove(d), list' # list PROVE Buses'
  <2>1. d \in Listed /\ ~Connected(d) /\ list' = RemoveFirst(list, d) /\ bus' = bus
    BY <1>4 DEF DevRemove
  <2>2. list' \in Seq(Devices)
    BY <2>1, ListDel DEF Buses
  <2>3. Listed' \subseteq Listed /\ Listed \ {d} \subseteq Listed'
    <3>1. PICK z \in Nat : z = Len(list) /\ DOMAIN list = 1 .. z
      BY LenProperties DEF Buses
    <3>2. PICK p \in 1 .. z :
            /\ list[p] = d /\ Len(list') = z - 1
            /\ \A j \in 1 .. z - 1 : list'[j] = IF j < p THEN list[j] ELSE list[j + 1]
      BY <2>1, <3>1, ListDelAt, SMTT(30) DEF Buses, Listed
    <3>3. DOMAIN list' = 1 .. z - 1
      BY <2>2, <3>2, LenProperties
    <3>4. ASSUME NEW j \in 1 .. z - 1 PROVE list'[j] \in Listed
      <4>1. j \in 1 .. z /\ j + 1 \in 1 .. z
        BY <3>1
      <4> QED BY <3>1, <3>2, <4>1 DEF Listed, ToSet
    <3>5. ASSUME NEW i \in 1 .. z, list[i] # d PROVE list[i] \in Listed'
      <4>1. i # p
        BY <3>2, <3>5
      <4>2. PICK j \in 1 .. z - 1 : (i < p /\ j = i) \/ (i > p /\ j = i - 1)
        BY <4>1
      <4>3. list'[j] = list[i]
        BY <3>2, <4>2
      <4> QED BY <3>3, <4>3 DEF Listed, ToSet
    <3> QED BY <3>1, <3>3, <3>4, <3>5 DEF Listed, ToSet
  <2>4. \A e \in Listed : bus[e] \in Listed \cup {Null} /\ bus[e] # d
    BY <2>1 DEF Connected, Buses, BusListed
  <2>5. \A e \in Listed' : bus'[e] \in Listed' \cup {Null}
    BY <2>1, <2>3, <2>4
  <2> QED BY <2>1, <2>2, <2>5 DEF Buses, BusListed
<1>5. bus' = bus \/ \E d \in Devices : New(d)
  BY DEF Next, vars, history, Install, DevRemove, WalkStart, WalkOn, WalkFreed
<1>6. list' = list \/ \E d \in Devices : New(d) \/ DevRemove(d)
  BY DEF Next, vars, history, Install, WalkStart, WalkOn, WalkFreed
<1>7. \A d \in Devices : DevRemove(d) => bus' = bus
  BY DEF DevRemove
<1> QED BY <1>2, <1>3, <1>4, <1>5, <1>6, <1>7

(* Whatever devices are added, refused and removed in whatever order, the  *)
(* bus of a listed device is listed (devlist.c, __remove).                 *)
THEOREM IndexKeepsBuses ==
  ASSUME DevicesAssumption
  PROVE  Spec => []BusListed
<1>1. Init => Buses
  BY DEF Init, Buses, BusListed, Listed, ToSet
<1>2. Buses => BusListed
  BY DEF Buses
<1> QED BY <1>1, <1>2, BusesStep, PTL DEF Spec

-----------------------------------------------------------------------------
(* The device index: a walk meets every device.                            *)

Ordered ==
  \A i, j \in DOMAIN list : i < j => devno[list[i]] <= devno[list[j]] /\ list[i] # list[j]

(* The cursor is a listed entry, the head or an entry that was freed.  Of  *)
(* the entries listed since the walk left the head, those up to the cursor *)
(* were met, and of all entries none behind it.                            *)
Round ==
  /\ met \in [Devices -> 0 .. 1] /\ stayed \subseteq Listed
  /\ \A d \in Devices : met[d] = 1 => d \in Listed
  /\ save \in Listed \cup {Null, Junk}
  /\ save \in Listed => met[save] = 1
  /\ save = Null => \A d \in stayed : met[d] = 1
  /\ \A i, j \in DOMAIN list : i < j =>
       /\ list[i] = save => met[list[j]] = 0
       /\ list[j] = save /\ list[i] \in stayed => met[list[i]] = 1

WInv == list \in Seq(Devices) /\ Ordered /\ Round

LEMMA AddedOrdered ==
  ASSUME DevicesAssumption, list \in Seq(Devices), Ordered,
         NEW d \in Devices, d \notin Listed, DevAdd(d)
  PROVE  Ordered'
<1>1. CASE list' = list
  BY <1>1 DEF Ordered
<1>2. ASSUME NEW k \in 0 .. Len(list), Passed(d) = 1 .. k,
             list' \in Seq(Devices), Len(list') = Len(list) + 1,
             \A i \in 1 .. Len(list) + 1 :
               list'[i] = IF i <= k THEN list[i] ELSE IF i = k + 1 THEN d ELSE list[i - 1]
      PROVE  Ordered'
  <2>1. PICK z \in Nat : z = Len(list) /\ DOMAIN list = 1 .. z /\ DOMAIN list' = 1 .. z + 1
    BY <1>2, LenProperties
  <2>2. \A i \in 1 .. z : list[i] \in Devices /\ devno[list[i]] \in Nat /\ list[i] # d
    <3>1. \A i \in 1 .. z : list[i] \in Devices /\ list[i] \in Listed
      BY <2>1, ElementOfSeq DEF Listed, ToSet
    <3> QED BY <3>1 DEF DevicesAssumption
  <2>3. devno[d] \in Nat
    BY DEF DevicesAssumption
  <2>4. \A i \in 1 .. k : devno[list[i]] <= devno[d]
    BY <1>2, <2>1 DEF Passed
  <2>5. ASSUME NEW i \in k + 1 .. z PROVE devno[d] <= devno[list[i]]
    <3>1. i \in DOMAIN list /\ i \notin Passed(d)
      BY <1>2, <2>1
    <3>2. PICK m \in 1 .. i : ~(devno[list[m]] <= devno[d])
      BY <2>1, <3>1 DEF Passed
    <3>3. devno[list[m]] <= devno[list[i]]
      <4>1. m \in DOMAIN list /\ (m = i \/ m < i)
        BY <2>1, <3>1
      <4> QED BY <2>1, <2>2, <3>1, <4>1 DEF Ordered
    <3>4. devno[list[m]] \in Nat /\ devno[list[i]] \in Nat
      BY <2>1, <2>2
    <3> QED BY <2>3, <3>2, <3>3, <3>4
  <2>6. ASSUME NEW i \in 1 .. z + 1, NEW j \in 1 .. z + 1, i < j
        PROVE  devno[list'[i]] <= devno[list'[j]] /\ list'[i] # list'[j]
    <3>1. CASE j <= k
      <4>1. list'[i] = list[i] /\ list'[j] = list[j] /\ i \in 1 .. z /\ j \in 1 .. z
        BY <1>2, <2>1, <2>6, <3>1
      <4> QED BY <2>1, <2>6, <4>1 DEF Ordered
    <3>2. CASE j = k + 1
      <4>1. list'[i] = list[i] /\ list'[j] = d /\ i \in 1 .. k /\ i \in 1 .. z
        BY <1>2, <2>1, <2>6, <3>2
      <4> QED BY <2>2, <2>4, <4>1
    <3>3. CASE j > k + 1 /\ i <= k
      <4>1. /\ list'[i] = list[i] /\ list'[j] = list[j - 1]
            /\ i \in 1 .. z /\ j - 1 \in 1 .. z /\ i < j - 1
        BY <1>2, <2>1, <2>6, <3>3
      <4> QED BY <2>1, <4>1 DEF Ordered
    <3>4. CASE j > k + 1 /\ i = k + 1
      <4>1. list'[i] = d /\ list'[j] = list[j - 1] /\ j - 1 \in k + 1 .. z /\ j - 1 \in 1 .. z
        BY <1>2, <2>1, <2>6, <3>4
      <4> QED BY <2>2, <2>5, <4>1
    <3>5. CASE j > k + 1 /\ i > k + 1
      <4>1. /\ list'[i] = list[i - 1] /\ list'[j] = list[j - 1]
            /\ i - 1 \in 1 .. z /\ j - 1 \in 1 .. z /\ i - 1 < j - 1
        BY <1>2, <2>1, <2>6, <3>5
      <4> QED BY <2>1, <4>1 DEF Ordered
    <3>6. k \in Nat
      BY <2>1
    <3> QED BY <2>1, <2>6, <3>1, <3>2, <3>3, <3>4, <3>5, <3>6
  <2> QED BY <2>1, <2>6 DEF Ordered
<1> QED BY <1>1, <1>2, Added

LEMMA RemovedOrdered ==
  ASSUME list \in Seq(Devices), Ordered, NEW d \in Listed, list' = RemoveFirst(list, d)
  PROVE  list' \in Seq(Devices) /\ Ordered' /\ Listed' = Listed \ {d}
<1>1. PICK z \in Nat : z = Len(list) /\ DOMAIN list = 1 .. z
  BY LenProperties
<1>2. PICK p \in 1 .. z :
        /\ list[p] = d /\ list' \in Seq(Devices) /\ Len(list') = z - 1
        /\ \A j \in 1 .. z - 1 : list'[j] = IF j < p THEN list[j] ELSE list[j + 1]
  <2>1. d \in ToSet(list)
    BY DEF Listed
  <2>2. \E p \in 1 .. Len(list) :
          /\ list[p] = d
          /\ RemoveFirst(list, d) \in Seq(Devices)
          /\ Len(RemoveFirst(list, d)) = Len(list) - 1
          /\ \A j \in 1 .. Len(list) - 1 :
               RemoveFirst(list, d)[j] = IF j < p THEN list[j] ELSE list[j + 1]
    BY <2>1, ListDelAt
  <2> QED BY <1>1, <2>2, Zenon
<1>3. DOMAIN list' = 1 .. z - 1
  BY <1>1, <1>2, LenProperties
<1>4. ASSUME NEW i \in 1 .. z - 1, NEW j \in 1 .. z - 1, i < j
      PROVE  devno[list'[i]] <= devno[list'[j]] /\ list'[i] # list'[j]
  <2>1. PICK a \in 1 .. z : a = IF i < p THEN i ELSE i + 1
    BY <1>1
  <2>2. PICK b \in 1 .. z : b = IF j < p THEN j ELSE j + 1
    BY <1>1
  <2>3. a < b
    BY <1>1, <1>4, <2>1, <2>2
  <2>4. list'[i] = list[a] /\ list'[j] = list[b]
    BY <1>2, <2>1, <2>2
  <2> QED BY <1>1, <2>3, <2>4 DEF Ordered
<1>5. Distinct(list)
  <2>1. ASSUME NEW i \in 1 .. z, NEW j \in 1 .. z, list[i] = list[j] PROVE i = j
    <3>1. ~(i < j) /\ ~(j < i)
      BY <1>1, <2>1 DEF Ordered
    <3> QED BY <3>1
  <2> QED BY <1>1, <2>1 DEF Distinct
<1>6. Listed' = Listed \ {d}
  BY <1>5, ListDel DEF Listed
<1> QED BY <1>2, <1>3, <1>4, <1>6 DEF Ordered

(* Of two entries of the longer list, either both were there in this       *)
(* order, or one is the new one.                                           *)
LEMMA AddedPairs ==
  ASSUME list \in Seq(Devices), NEW d \in Devices, DevAdd(d),
         NEW i \in DOMAIN list', NEW j \in DOMAIN list', i < j
  PROVE  \/ list'[i] = d \/ list'[j] = d
         \/ \E a, b \in DOMAIN list : a < b /\ list'[i] = list[a] /\ list'[j] = list[b]
<1>1. CASE list' = list
  BY <1>1
<1>2. ASSUME NEW k \in 0 .. Len(list),
             list' \in Seq(Devices), Len(list') = Len(list) + 1,
             \A n \in 1 .. Len(list) + 1 :
               list'[n] = IF n <= k THEN list[n] ELSE IF n = k + 1 THEN d ELSE list[n - 1],
             i # k + 1, j # k + 1
      PROVE  \E a, b \in DOMAIN list : a < b /\ list'[i] = list[a] /\ list'[j] = list[b]
  <2>1. PICK z \in Nat : z = Len(list) /\ DOMAIN list = 1 .. z /\ DOMAIN list' = 1 .. z + 1
    BY <1>2, LenProperties
  <2>2. PICK a \in 1 .. z : a = IF i <= k THEN i ELSE i - 1
    BY <1>2, <2>1
  <2>3. PICK b \in 1 .. z : b = IF j <= k THEN j ELSE j - 1
    BY <1>2, <2>1
  <2>4. a < b
    BY <1>2, <2>1, <2>2, <2>3
  <2>5. list'[i] = list[a] /\ list'[j] = list[b]
    BY <1>2, <2>1, <2>2, <2>3
  <2> QED BY <2>1, <2>4, <2>5
<1>3. ASSUME NEW k \in 0 .. Len(list),
             list' \in Seq(Devices), Len(list') = Len(list) + 1,
             \A n \in 1 .. Len(list) + 1 :
               list'[n] = IF n <= k THEN list[n] ELSE IF n = k + 1 THEN d ELSE list[n - 1]
      PROVE  list'[k + 1] = d
  <2>1. k \in Nat /\ k + 1 \in 1 .. Len(list) + 1 /\ ~(k + 1 <= k)
    BY LenProperties
  <2> QED BY <1>3, <2>1
<1> QED BY <1>1, <1>2, <1>3, Added

LEMMA AddedRound ==
  ASSUME DevicesAssumption, WInv, NEW d \in Devices, New(d)
  PROVE  WInv'
<1>1. /\ d \notin Listed /\ DevAdd(d) /\ list \in Seq(Devices) /\ Ordered
      /\ save' = save /\ met' = met /\ stayed' = stayed
  BY DEF New, WInv, history
<1>2. list' \in Seq(Devices) /\ Ordered' /\ (Listed' = Listed \/ Listed' = Listed \cup {d})
  BY <1>1, AddedListed, AddedOrdered
<1>3. /\ met[d] = 0 /\ d \notin stayed /\ save # d
  BY <1>1 DEF WInv, Round, DevicesAssumption
<1>4. ASSUME NEW i \in DOMAIN list', NEW j \in DOMAIN list', i < j
      PROVE  /\ list'[i] = save => met[list'[j]] = 0
             /\ list'[j] = save /\ list'[i] \in stayed => met[list'[i]] = 1
  <2>1. CASE list'[i] = d \/ list'[j] = d
    BY <1>3, <2>1
  <2>2. ASSUME NEW a \in DOMAIN list, NEW b \in DOMAIN list, a < b,
               list'[i] = list[a], list'[j] = list[b]
        PROVE  /\ list'[i] = save => met[list'[j]] = 0
               /\ list'[j] = save /\ list'[i] \in stayed => met[list'[i]] = 1
    BY <2>2 DEF WInv, Round
  <2> QED BY <1>1, <1>4, <2>1, <2>2, AddedPairs
<1>5. save \in Listed' => save \in Listed
  BY <1>2, <1>3
<1>6. Round'
  BY <1>1, <1>2, <1>4, <1>5 DEF WInv, Round
<1> QED BY <1>2, <1>6 DEF WInv

LEMMA RemovedPairs ==
  ASSUME list \in Seq(Devices), NEW d \in Listed, list' = RemoveFirst(list, d),
         NEW i \in DOMAIN list', NEW j \in DOMAIN list', i < j
  PROVE  \E a, b \in DOMAIN list : a < b /\ list'[i] = list[a] /\ list'[j] = list[b]
<1>1. PICK z \in Nat : z = Len(list) /\ DOMAIN list = 1 .. z
  BY LenProperties
<1>2. PICK p \in 1 .. z :
        /\ list' \in Seq(Devices) /\ Len(list') = z - 1
        /\ \A n \in 1 .. z - 1 : list'[n] = IF n < p THEN list[n] ELSE list[n + 1]
  <2>1. d \in ToSet(list)
    BY DEF Listed
  <2>2. \E p \in 1 .. Len(list) :
          /\ list[p] = d
          /\ RemoveFirst(list, d) \in Seq(Devices)
          /\ Len(RemoveFirst(list, d)) = Len(list) - 1
          /\ \A n \in 1 .. Len(list) - 1 :
               RemoveFirst(list, d)[n] = IF n < p THEN list[n] ELSE list[n + 1]
    BY <2>1, ListDelAt
  <2> QED BY <1>1, <2>2, Zenon
<1>3. DOMAIN list' = 1 .. z - 1
  BY <1>1, <1>2, LenProperties
<1>4. PICK a \in 1 .. z : a = IF i < p THEN i ELSE i + 1
  BY <1>1, <1>3
<1>5. PICK b \in 1 .. z : b = IF j < p THEN j ELSE j + 1
  BY <1>1, <1>3
<1>6. a < b
  BY <1>1, <1>3, <1>4, <1>5
<1>7. list'[i] = list[a] /\ list'[j] = list[b]
  BY <1>2, <1>3, <1>4, <1>5
<1> QED BY <1>1, <1>6, <1>7

LEMMA RemovedRound ==
  ASSUME DevicesAssumption, WInv, NEW d \in Listed, list' = RemoveFirst(list, d),
         met' = [met EXCEPT ![d] = 0], stayed' = stayed \ {d},
         save' = IF save = d THEN Junk ELSE save
  PROVE  WInv'
<1>1. list \in Seq(Devices) /\ Ordered /\ Round /\ Listed \subseteq Devices
  BY ListTypes DEF WInv, Listed
<1>2. list' \in Seq(Devices) /\ Ordered' /\ Listed' = Listed \ {d}
  BY <1>1, RemovedOrdered
<1>3. Null \notin Devices /\ Junk \notin Devices /\ Null # Junk
  BY DEF DevicesAssumption
<1>4. /\ met' \in [Devices -> 0 .. 1]
      /\ \A e \in Devices : e # d => met'[e] = met[e]
      /\ met'[d] = 0
  BY <1>1 DEF Round
<1>5. ASSUME NEW i \in DOMAIN list', NEW j \in DOMAIN list', i < j
      PROVE  /\ list'[i] = save' => met'[list'[j]] = 0
             /\ list'[j] = save' /\ list'[i] \in stayed' => met'[list'[i]] = 1
  <2>1. list'[i] \in Listed' /\ list'[j] \in Listed'
    BY <1>2, <1>5 DEF Listed, ToSet
  <2>2. /\ list'[i] # d /\ list'[j] # d
        /\ met'[list'[i]] = met[list'[i]] /\ met'[list'[j]] = met[list'[j]]
    BY <1>1, <1>2, <1>4, <2>1
  <2>3. PICK a \in DOMAIN list, b \in DOMAIN list :
          a < b /\ list'[i] = list[a] /\ list'[j] = list[b]
    BY <1>1, <1>5, RemovedPairs
  <2>4. save' = list'[i] \/ save' = list'[j] => save' = save
    BY <1>1, <1>2, <1>3, <2>1
  <2> QED BY <1>1, <2>2, <2>3, <2>4 DEF Round
<1>6. /\ stayed' \subseteq Listed'
      /\ \A e \in Devices : met'[e] = 1 => e \in Listed'
      /\ save' \in Listed' \cup {Null, Junk}
      /\ save' \in Listed' => met'[save'] = 1
      /\ save' = Null => \A e \in stayed' : met'[e] = 1
  BY <1>1, <1>2, <1>3, <1>4 DEF Round
<1> QED BY <1>2, <1>4, <1>5, <1>6 DEF WInv, Round

(* One call of __next from a place of the list: it goes on to the entry    *)
(* after it, and the first one after the head.                             *)
LEMMA StepOn ==
  ASSUME DevicesAssumption, WInv, NEW e \in Listed \cup {Null}, e = Null \/ e = save,
         Step(e), list' = list
  PROVE  WInv'
<1>1. PICK z \in Nat : z = Len(list) /\ DOMAIN list = 1 .. z
  BY LenProperties DEF WInv
<1>2. Listed \subseteq Devices /\ \A i \in 1 .. z : list[i] \in Listed
  BY <1>1, ListTypes DEF WInv, Listed, ToSet
<1>3. Null \notin Devices /\ Junk \notin Devices
  BY DEF DevicesAssumption
<1>4. PICK k \in 0 .. z : /\ IF e = Null THEN k = 0 ELSE k \in 1 .. z /\ list[k] = e
                          /\ After(e) = IF k = z THEN Null ELSE list[k + 1]
  <2>1. CASE e = Null
    <3>1. After(e) = IF list = << >> THEN Null ELSE Head(list)
      BY <2>1 DEF After
    <3>2. IF list = << >> THEN z = 0 ELSE z # 0 /\ Head(list) = list[1]
      BY <1>1, ListEmpty DEF WInv
    <3> QED BY <2>1, <3>1, <3>2
  <2>2. CASE e # Null
    <3> DEFINE k == CHOOSE i \in DOMAIN list : list[i] = e
    <3>1. k \in 1 .. z /\ list[k] = e
      <4>1. \E i \in DOMAIN list : list[i] = e
        BY <2>2 DEF Listed, ToSet
      <4> QED BY <1>1, <4>1
    <3>2. After(e) = IF k = z THEN Null ELSE list[k + 1]
      BY <1>1, <2>2 DEF After
    <3> HIDE DEF k
    <3> QED BY <2>2, <3>1, <3>2
  <2> QED BY <2>1, <2>2
<1> DEFINE before == IF e = Null THEN [d \in Devices |-> 0] ELSE met
<1>5. /\ before = IF e = Null THEN [d \in Devices |-> 0] ELSE met
      /\ met' = [d \in Devices |-> IF d = After(e) THEN before[d] + 1 ELSE before[d]]
      /\ stayed' = IF e = Null THEN Listed ELSE stayed
      /\ save' = After(e)
  BY DEF Step, Counted
<1> HIDE DEF before
<1>6. /\ before \in [Devices -> 0 .. 1] /\ stayed' \subseteq Listed
      /\ \A d \in Devices : before[d] = 1 => d \in Listed
  BY <1>5 DEF WInv, Round
<1>7. ASSUME NEW i \in 1 .. z
      PROVE  /\ i > k => before[list[i]] = 0
             /\ i <= k /\ list[i] \in stayed' => before[list[i]] = 1
  <2>1. CASE e = Null
    BY <1>2, <1>4, <1>5, <2>1
  <2>2. CASE e # Null
    <3>1. k \in 1 .. z /\ list[k] = save /\ before = met /\ stayed' = stayed /\ save \in Listed
      BY <1>4, <1>5, <2>2
    <3>2. i > k => k < i
      BY <3>1
    <3>3. i <= k => i < k \/ i = k
      BY <3>1
    <3> QED BY <1>1, <3>1, <3>2, <3>3 DEF WInv, Round
  <2> QED BY <2>1, <2>2
<1>8. \A i \in 1 .. z : i <= k \/ i > k
  OBVIOUS
<1>9. CASE k = z
  <2>1. After(e) = Null /\ \A i \in 1 .. z : i <= k
    BY <1>4, <1>9
  <2>2. met' = before /\ save' = Null
    BY <1>3, <1>5, <1>6, <2>1
  <2>3. \A d \in stayed' : before[d] = 1
    <3>1. \A d \in Listed : \E i \in 1 .. z : list[i] = d
      BY <1>1 DEF Listed, ToSet
    <3> QED BY <1>6, <1>7, <2>1, <3>1
  <2>4. Listed' = Listed /\ Null \notin Listed
    BY <1>2, <1>3 DEF Listed
  <2>5. \A i \in DOMAIN list : list[i] # Null
    BY <1>1, <1>2, <2>4
  <2> QED BY <1>6, <2>2, <2>3, <2>4, <2>5 DEF WInv, Round, Ordered
<1>10. CASE k # z
  <2>1. PICK n \in 1 .. z : n = k + 1 /\ After(e) = list[n]
    BY <1>4, <1>10
  <2>2. /\ save' = list[n] /\ list[n] \in Listed /\ before[list[n]] = 0
        /\ n > k
    <3>1. n > k
      BY <2>1
    <3> QED BY <1>2, <1>5, <1>7, <2>1, <3>1
  <2>3. \A i \in 1 .. z : i # n => list[i] # list[n]
    <3>1. \A i \in 1 .. z : i < n \/ n < i \/ i = n
      OBVIOUS
    <3> QED BY <1>1, <3>1 DEF WInv, Ordered
  <2>4. /\ met'[list[n]] = 1
        /\ \A d \in Devices : d # list[n] => met'[d] = before[d]
        /\ met' \in [Devices -> 0 .. 1]
    BY <1>2, <1>5, <1>6, <2>1, <2>2
  <2>5. ASSUME NEW i \in 1 .. z, NEW j \in 1 .. z, i < j
        PROVE  /\ list[i] = save' => met'[list[j]] = 0
               /\ list[j] = save' /\ list[i] \in stayed' => met'[list[i]] = 1
    <3>1. CASE i = n
      <4>1. j > k /\ j # n
        BY <2>1, <2>5, <3>1
      <4> QED BY <1>2, <1>7, <2>2, <2>3, <2>4, <4>1
    <3>2. CASE j = n
      <4>1. i <= k /\ i # n
        BY <2>1, <2>5, <3>2
      <4> QED BY <1>2, <1>7, <2>2, <2>3, <2>4, <4>1
    <3>3. CASE i # n /\ j # n
      BY <2>2, <2>3, <3>3
    <3> QED BY <3>1, <3>2, <3>3
  <2>6. Listed' = Listed /\ list[n] # Null
    BY <1>2, <1>3 DEF Listed
  <2>7. \A d \in Devices : met'[d] = 1 => d \in Listed
    BY <1>6, <2>2, <2>4
  <2>8. Round'
    BY <1>1, <1>6, <2>2, <2>4, <2>5, <2>6, <2>7 DEF Round
  <2> QED BY <2>8 DEF WInv, Ordered
<1> QED BY <1>9, <1>10

LEMMA WalkStep == DevicesAssumption /\ WInv /\ [Next]_vars => WInv'
<1> SUFFICES ASSUME DevicesAssumption, WInv, [Next]_vars PROVE WInv'
  OBVIOUS
<1>1. CASE UNCHANGED <<list, save, met, stayed>>
  BY <1>1 DEF WInv, Ordered, Round, Listed
<1>2. ASSUME NEW d \in Devices, New(d) PROVE WInv'
  BY <1>2, AddedRound
<1>3. ASSUME NEW d \in Devices, DevRemove(d) PROVE WInv'
  BY <1>1, <1>3, RemovedRound DEF DevRemove, history
<1>4. CASE WalkStart
  BY <1>1, <1>4, StepOn DEF WalkStart, history
<1>5. CASE WalkOn
  <2>1. save \in Listed \cup {Null} /\ Step(save) /\ list' = list
    BY <1>5 DEF WalkOn, WInv, Round
  <2> QED BY <2>1, StepOn
<1>6. CASE WalkFreed
  <2>1. /\ list' = list /\ save' \in Listed \cup {Null, Junk}
        /\ met' = [d \in Devices |-> IF d = save' THEN 1 ELSE 0] /\ stayed' = {}
    BY <1>6 DEF WalkFreed
  <2>2. Listed \subseteq Devices /\ \A i \in DOMAIN list : list[i] \in Devices
    BY ListTypes, ElementOfSeq, LenProperties DEF WInv, Listed
  <2>3. Null \notin Devices /\ Junk \notin Devices
    BY DEF DevicesAssumption
  <2>4. /\ met' \in [Devices -> 0 .. 1]
        /\ \A d \in Devices : met'[d] = 1 => d \in Listed
        /\ save' \in Listed => met'[save'] = 1
    BY <2>1, <2>2, <2>3
  <2>5. \A i, j \in DOMAIN list : i < j /\ list[i] = save' => met'[list[j]] = 0
    <3>1. \A i, j \in DOMAIN list : i < j => list[i] # list[j]
      BY DEF WInv, Ordered
    <3> QED BY <2>1, <2>2, <3>1
  <2>6. Listed' = Listed
    BY <2>1 DEF Listed
  <2>7. Round'
    BY <2>1, <2>4, <2>5, <2>6 DEF Round
  <2> QED BY <2>1, <2>7 DEF WInv, Ordered
<1> QED BY <1>1, <1>2, <1>3, <1>4, <1>5, <1>6 DEF Next, vars, history, Install

(* Whatever is added, refused and removed between the calls of a walk,     *)
(* from the head of the list and back it meets every device listed all the *)
(* while, none twice, in the order of their numbers (devlist.c, __next).   *)
THEOREM IndexWalksAll ==
  ASSUME DevicesAssumption
  PROVE  Spec => []WalkMeetsEach
<1>1. Init => WInv
  <2> SUFFICES ASSUME Init PROVE WInv
    OBVIOUS
  <2>1. list = << >> /\ list \in Seq(Devices) /\ DOMAIN list = {} /\ Listed = {}
    BY DEF Init, Listed, ToSet
  <2> QED BY <2>1 DEF Init, WInv, Ordered, Round
<1>2. DevicesAssumption /\ WInv => WalkMeetsEach
  <2> SUFFICES ASSUME DevicesAssumption, WInv, save # Junk PROVE WalkMeetsEach
    BY DEF WalkMeetsEach
  <2>1. ASSUME save \in Devices, NEW d \in Devices, met[d] > 0 PROVE InOrder(d, save)
    <3>1. met[d] = 1 /\ d \in Listed /\ save \in Listed
      BY <2>1 DEF WInv, Round, DevicesAssumption
    <3>2. PICK i \in DOMAIN list, j \in DOMAIN list : list[i] = d /\ list[j] = save
      BY <3>1 DEF Listed, ToSet
    <3>3. i \in Nat /\ j \in Nat
      BY LenProperties DEF WInv
    <3>4. ~(j < i)
      BY <3>1, <3>2 DEF WInv, Round
    <3>5. i = j \/ i < j
      BY <3>3, <3>4
    <3>6. devno[d] <= devno[d]
      BY DEF DevicesAssumption
    <3> QED BY <3>2, <3>5, <3>6 DEF WInv, Ordered, InOrder
  <2> QED BY <2>1 DEF WInv, Round, WalkMeetsEach
<1> QED BY <1>1, <1>2, WalkStep, PTL DEF Spec

-----------------------------------------------------------------------------
(* The mailbox.  A request lies in the buffer unserved from its writing to *)
(* the one mail the firmware takes for it, and the requests share no tag:  *)
(* so no answer disturbs what was taken before.                            *)

Unserved ==
  /\ buffer.code = "request"
  /\ \A t \in DOMAIN buffer.tags : buffer.tags[t].type = "request"

Turns ==
  /\ pc \in {"ask", "write", "read", "check", "booted", "panic"}
  /\ request \in 1 .. 5 \/ (request = 6 /\ pc = "booted")
  /\ mail1 \in {<< >>, <<"property">>}
  /\ mail1 # << >> => pc \in {"read", "check", "panic"} /\ Unserved
  /\ pc = "write" => Unserved
  /\ pc \in {"write", "read", "check", "panic"} => DOMAIN buffer.tags = Box!Requests[request]

Answered(t) == t \in DOMAIN granted /\ buffer.tags[t].value = granted[t]

Served ==
  pc \in {"read", "check"} /\ buffer.code = "success" =>
    \A t \in DOMAIN buffer.tags :
      t \notin MayIgnore \/ buffer.tags[t].type = "response" => Answered(t)

Taken ==
  \A t \in DOMAIN info : /\ \E i \in 1 .. 5 : i < request /\ t \in Box!Requests[i]
                         /\ t \in DOMAIN granted /\ info[t] = granted[t]

BoxInv == Turns /\ Served /\ Taken

LEMMA RequestsDiffer ==
  /\ Len(Box!Requests) = 5
  /\ \A i, j \in 1 .. 5 : i < j => Box!Requests[i] \cap Box!Requests[j] = {}
  /\ \A i \in 1 .. 5 : Box!Requests[i] = Box!FbTags <=> i = 4
<1>1. Len(Box!Requests) = 5
  BY DEF Box!Requests
<1>2. /\ Box!Requests[1] = {"ARMMEMORY"} /\ Box!Requests[2] = {"VCMEMORY"}
      /\ Box!Requests[3] = {"GETDISPLAYSIZE"} /\ Box!Requests[4] = Box!FbTags
      /\ Box!Requests[5] = {"GETPITCH"}
  BY DEF Box!Requests
<1>3. ASSUME NEW i \in 1 .. 5, NEW j \in 1 .. 5, i < j
      PROVE  Box!Requests[i] \cap Box!Requests[j] = {}
  <2>1. /\ i = 1 => j \in {2, 3, 4, 5}
        /\ i = 2 => j \in {3, 4, 5}
        /\ i = 3 => j \in {4, 5}
        /\ i = 4 => j = 5
        /\ i \in {1, 2, 3, 4}
    BY <1>3
  <2> QED BY <2>1, <1>2 DEF Box!FbTags
<1>4. ASSUME NEW i \in 1 .. 5 PROVE Box!Requests[i] = Box!FbTags <=> i = 4
  <2>1. i \in {1, 2, 3, 4, 5}
    OBVIOUS
  <2> QED BY <2>1, <1>2 DEF Box!FbTags
<1> QED BY <1>1, <1>3, <1>4

LEMMA BoxStarts ==
  ASSUME Box!Init PROVE BoxInv
BY DEF Box!Init, BoxInv, Turns, Served, Taken, Unserved

LEMMA BoxFills ==
  ASSUME BoxInv, Box!FillBuffer PROVE BoxInv'
<1>1. PICK value \in [Box!Requests[request] -> Values] :
        buffer' = [code |-> "request",
                   tags |-> [t \in Box!Requests[request] |->
                               [type |-> "request", value |-> value[t]]]]
  BY DEF Box!FillBuffer
<1>2. buffer'.code = "request" /\ DOMAIN buffer'.tags = Box!Requests[request]
  BY <1>1
<1>3. \A t \in DOMAIN buffer'.tags : buffer'.tags[t].type = "request"
  BY <1>1
<1>4. pc = "ask" /\ pc' = "write" /\ UNCHANGED <<mail1, granted, request, info>>
  BY DEF Box!FillBuffer
<1>5. Turns'
  BY <1>2, <1>3, <1>4 DEF BoxInv, Turns, Unserved
<1>6. Served' /\ Taken'
  BY <1>4 DEF BoxInv, Served, Taken
<1> QED BY <1>5, <1>6 DEF BoxInv

LEMMA BoxWrites ==
  ASSUME BoxInv, Box!WriteMailbox PROVE BoxInv'
<1>1. /\ pc = "write" /\ pc' = "read"
      /\ UNCHANGED <<buffer, granted, request, info>>
      /\ mail1' = << >> \/ mail1' = Append(mail1, "property")
  BY DEF Box!WriteMailbox, BoxInv, Turns
<1>2. mail1 = << >> /\ Unserved
  BY <1>1 DEF BoxInv, Turns
<1>3. mail1' \in {<< >>, <<"property">>}
  BY <1>1, <1>2
<1>4. Turns'
  BY <1>1, <1>2, <1>3 DEF BoxInv, Turns, Unserved
<1>5. Served' /\ Taken'
  BY <1>1, <1>2 DEF BoxInv, Served, Taken, Unserved
<1> QED BY <1>4, <1>5 DEF BoxInv

LEMMA BoxReads ==
  ASSUME BoxInv, Box!ReadMailbox PROVE BoxInv'
<1>1. pc = "read" /\ pc' = "check" /\ UNCHANGED <<mail1, buffer, granted, request, info>>
  BY DEF Box!ReadMailbox
<1> QED BY <1>1 DEF BoxInv, Turns, Served, Taken, Answered, Unserved

LEMMA BoxChecks ==
  ASSUME BoxInv, Box!CheckAnswer, MayIgnore \cap Box!FbTags = {}
  PROVE  BoxInv'
<1>1. pc = "check" /\ request \in 1 .. 5 /\ DOMAIN buffer.tags = Box!Requests[request]
  BY DEF Box!CheckAnswer, BoxInv, Turns
<1>2. UNCHANGED <<mail1, buffer, granted>>
  BY DEF Box!CheckAnswer
<1>3. CASE pc' = "panic" /\ UNCHANGED <<request, info>>
  BY <1>1, <1>2, <1>3 DEF BoxInv, Turns, Served, Taken, Unserved
<1>4. CASE Box!Succeeds /\ pc' # "panic"
  <2>1. /\ info' = [t \in DOMAIN info \cup Box!Requests[request] |->
                      IF t \in DOMAIN info THEN info[t] ELSE buffer.tags[t].value]
        /\ request' = request + 1
        /\ pc' = IF request = Len(Box!Requests) THEN "booted" ELSE "ask"
    BY <1>4 DEF Box!CheckAnswer
  <2>2. pc' = IF request = 5 THEN "booted" ELSE "ask"
    BY <2>1, RequestsDiffer
  <2>3. buffer.code = "success" /\ mail1 = << >>
    BY <1>4 DEF Box!Succeeds, BoxInv, Turns, Unserved
  <2>4. ASSUME NEW t \in Box!Requests[request] PROVE Answered(t)
    <3>1. CASE Box!Requests[request] = Box!FbTags
      BY <1>1, <2>3, <3>1 DEF BoxInv, Served
    <3>2. CASE Box!Requests[request] # Box!FbTags
      <4>1. buffer.tags[t].type = "response"
        BY <1>4, <3>2 DEF Box!Succeeds
      <4> QED BY <1>1, <2>3, <4>1 DEF BoxInv, Served
    <3> QED BY <3>1, <3>2
  <2>5. Turns'
    BY <1>1, <1>2, <2>1, <2>2, <2>3 DEF BoxInv, Turns, Unserved
  <2>6. Served'
    BY <2>2 DEF Served
  <2>7. ASSUME NEW t \in DOMAIN info'
        PROVE  /\ \E i \in 1 .. 5 : i < request' /\ t \in Box!Requests[i]
               /\ t \in DOMAIN granted' /\ info'[t] = granted'[t]
    <3>1. CASE t \in DOMAIN info
      <4>1. PICK i \in 1 .. 5 : i < request /\ t \in Box!Requests[i]
        BY <3>1 DEF BoxInv, Taken
      <4>2. i < request'
        BY <1>1, <2>1, <4>1
      <4>3. t \in DOMAIN granted /\ info[t] = granted[t] /\ info'[t] = info[t]
        BY <2>1, <3>1 DEF BoxInv, Taken
      <4> QED BY <1>2, <4>1, <4>2, <4>3
    <3>2. CASE t \notin DOMAIN info
      <4>1. t \in Box!Requests[request] /\ info'[t] = buffer.tags[t].value
        BY <2>1, <3>2
      <4>2. request < request'
        BY <1>1, <2>1
      <4> QED BY <1>1, <1>2, <2>4, <4>1, <4>2 DEF Answered
    <3> QED BY <3>1, <3>2
  <2> QED BY <2>5, <2>6, <2>7 DEF BoxInv, Taken
<1> QED BY <1>3, <1>4 DEF Box!CheckAnswer

LEMMA BoxServes ==
  ASSUME BoxInv, Box!Serve PROVE BoxInv'
<1>1. /\ mail1 = <<"property">> /\ mail1' = << >> /\ UNCHANGED <<request, pc, info>>
      /\ pc \in {"read", "check", "panic"} /\ Unserved
  <2>1. /\ mail1 # << >> /\ mail1' = Tail(mail1)
        /\ UNCHANGED <<request, pc, info>>
    BY DEF Box!Serve, Box!core
  <2>2. mail1 = <<"property">>
    BY <2>1 DEF BoxInv, Turns
  <2>3. pc \in {"read", "check", "panic"} /\ Unserved
    BY <2>1 DEF BoxInv, Turns
  <2>4. mail1' = << >>
    BY <2>1, <2>2
  <2> QED BY <2>1, <2>2, <2>3, <2>4
<1>2. request \in 1 .. 5 /\ DOMAIN buffer.tags = Box!Requests[request]
  BY <1>1 DEF BoxInv, Turns
<1>3. PICK answered \in SUBSET DOMAIN buffer.tags,
           value \in [DOMAIN buffer.tags -> Values], code \in {"success", "error"} :
        /\ code = "success" => DOMAIN buffer.tags \ answered \subseteq MayIgnore
        /\ buffer' = [code |-> code,
                      tags |-> [t \in DOMAIN buffer.tags |->
                                  IF t \in answered THEN [type |-> "response", value |-> value[t]]
                                  ELSE buffer.tags[t]]]
        /\ granted' = [t \in DOMAIN granted \cup answered |->
                         IF t \in answered THEN value[t] ELSE granted[t]]
  BY DEF Box!Serve
<1>4. buffer'.code = code /\ DOMAIN buffer'.tags = DOMAIN buffer.tags
  BY <1>3
<1>5. Turns'
  BY <1>1, <1>2, <1>4 DEF BoxInv, Turns
<1>6. ASSUME code = "success", NEW t \in DOMAIN buffer'.tags,
             t \notin MayIgnore \/ buffer'.tags[t].type = "response"
      PROVE  t \in DOMAIN granted' /\ buffer'.tags[t].value = granted'[t]
  <2>1. CASE t \in answered
    BY <1>3, <1>4, <2>1
  <2>2. CASE t \notin answered
    <3>1. t \in MayIgnore
      BY <1>3, <1>4, <1>6, <2>2
    <3>2. buffer'.tags[t] = buffer.tags[t]
      BY <1>3, <1>4, <2>2
    <3>3. buffer.tags[t].type = "request"
      BY <1>1, <1>4 DEF Unserved
    <3> QED BY <1>6, <3>1, <3>2, <3>3
  <2> QED BY <2>1, <2>2
<1>7. Served'
  BY <1>4, <1>6 DEF Served, Answered
<1>8. ASSUME NEW t \in DOMAIN info
      PROVE  t \in DOMAIN granted' /\ info[t] = granted'[t]
  <2>1. PICK i \in 1 .. 5 : i < request /\ t \in Box!Requests[i]
    BY DEF BoxInv, Taken
  <2>2. t \notin answered
    BY <1>2, <1>3, <2>1, RequestsDiffer
  <2>3. t \in DOMAIN granted /\ info[t] = granted[t]
    BY DEF BoxInv, Taken
  <2> QED BY <1>3, <2>2, <2>3
<1>9. Taken'
  BY <1>1, <1>8 DEF BoxInv, Taken
<1> QED BY <1>5, <1>7, <1>9 DEF BoxInv

LEMMA BoxRests ==
  ASSUME BoxInv, Box!Post \/ UNCHANGED Box!vars PROVE BoxInv'
<1>1. UNCHANGED <<mail1, buffer, granted, request, pc, info>>
  BY DEF Box!Post, Box!vars, Box!core
<1> QED BY <1>1 DEF BoxInv, Turns, Served, Taken, Answered, Unserved

(* Every value the boot keeps is one the firmware answered for that tag,   *)
(* whatever mails were in the queue before, if the firmware leaves no tag  *)
(* of the frame buffer unanswered in a request it reports done: fbinit     *)
(* looks at no response bit (mailbox.c and fb.c of mach-rpi2).             *)
THEOREM MailboxAnswersTaken ==
  ASSUME MayIgnore \cap Box!FbTags = {}
  PROVE  Box!Spec => []AnswersTaken
<1>1. Box!Init => BoxInv
  BY BoxStarts
<1>2. BoxInv /\ [Box!Next]_(Box!vars) => BoxInv'
  <2> SUFFICES ASSUME BoxInv, [Box!Next]_(Box!vars) PROVE BoxInv'
    OBVIOUS
  <2>1. \/ Box!FillBuffer \/ Box!WriteMailbox \/ Box!ReadMailbox \/ Box!CheckAnswer
        \/ Box!Serve \/ Box!Post \/ UNCHANGED Box!vars
    BY DEF Box!Next, Box!Core, Box!Polls, Box!Stopped
  <2> QED BY <2>1, BoxFills, BoxWrites, BoxReads, BoxChecks, BoxServes, BoxRests
<1>3. BoxInv => AnswersTaken
  BY DEF BoxInv, Turns, Taken, AnswersTaken, Box!AnswersTaken
<1> QED BY <1>1, <1>2, <1>3, PTL DEF Box!Spec

-----------------------------------------------------------------------------
(* Exceptions.  The frames on the SYS stack are those of the interrupted   *)
(* code, innermost first, and from entry to switch the words of the last   *)
(* one are in the exception mode's stack, whose stores of words do not     *)
(* touch one another but for r0's.                                         *)

Registers == [r0 : Nat, r1 : Nat, sp : Nat, lr : Nat, pc : Nat, i : {0, 1}, f : {0, 1}]
Frames == [r0 : Nat, r1 : Nat, sp : Nat, lr : Nat, pc : Nat, psr : Nat, vector : Nat]
Halves == [0 .. 11 -> Nat]

FrameOf(tf, c) ==
  /\ tf.r1 = c.r1 /\ tf.sp = c.sp /\ tf.lr = c.lr /\ tf.pc = c.pc
  /\ tf.psr = Arm!Psr(c, TRUE)

FramesOf(s, t) == Len(s) = Len(t) /\ \A k \in 1 .. Len(t) : FrameOf(s[k], t[k])

ArmTypes ==
  /\ cpu \in Registers
  /\ exc \in [lr : Nat, spsr : Nat, vector : Arm!Vectors]
  /\ temp \in [Arm!Modes -> Halves]
  /\ stack \in Seq(Frames) /\ saved \in Seq(Registers)
  /\ place \in {"code", "vector", "switch", "trap", "spin"}

(* The interrupted code's words are still in the registers.                *)
JustTaken ==
  LET c == Head(saved) IN
  /\ cpu.r1 = c.r1 /\ cpu.sp = c.sp /\ cpu.lr = c.lr
  /\ exc.lr = c.pc + Arm!LrOffset[exc.vector] /\ exc.spsr = Arm!Psr(c, TRUE)

(* They are in the stack of the mode.                                      *)
Stacked ==
  LET c == Head(saved)
      halves == temp[Arm!ModeOf(exc.vector)] IN
  /\ cpu.r1 = c.r1
  /\ Arm!Loaded(halves, 0) = c.sp /\ Arm!Loaded(halves, 4) = c.lr
  /\ Arm!Loaded(halves, 8) = c.pc /\ Arm!Loaded(halves, 12) = Arm!Psr(c, TRUE)

ArmInv ==
  /\ ArmTypes
  /\ place = "code" => saved = << >> /\ stack = << >>
  /\ place = "trap" => saved # << >> /\ FramesOf(stack, saved)
  /\ place = "vector" => exc.lr - Arm!LrOffset[exc.vector] \in Nat
  /\ place = "vector" /\ Arm!InSys(exc.spsr) =>
       saved # << >> /\ FramesOf(stack, Tail(saved)) /\ JustTaken
  /\ place = "switch" =>
       saved # << >> /\ FramesOf(stack, Tail(saved)) /\ Stacked

LEMMA WordKept ==
  ASSUME NEW w \in Nat, NEW d \in Nat \ {0}
  PROVE  /\ w % d \in Nat /\ w \div d \in Nat
         /\ (w % d) + d * (w \div d) = w
OBVIOUS

(* A word stored is read back, and leaves the four words of the frame that *)
(* it is not.                                                              *)
LEMMA StoredLoaded ==
  ASSUME Half \in Nat \ {0}, NEW halves \in Halves, NEW w \in Nat,
         NEW o \in {0, 4, 8, 12, 16, 18}
  PROVE  /\ Arm!Stored(halves, o, w) \in Halves
         /\ Arm!Loaded(Arm!Stored(halves, o, w), o) = w
<1> DEFINE g == Arm!Stored(halves, o, w)
           h == o \div 2
<1>1. h \in 0 .. 10 /\ h + 1 \in 0 .. 11 /\ h # h + 1
  OBVIOUS
<1>2. g = [[halves EXCEPT ![h] = w % Half] EXCEPT ![h + 1] = w \div Half]
  BY DEF Arm!Stored
<1>3. w % Half \in Nat /\ w \div Half \in Nat /\ (w % Half) + Half * (w \div Half) = w
  BY WordKept
<1>4. g \in Halves
  BY <1>1, <1>2, <1>3 DEF Halves
<1>5. g[h] = w % Half /\ g[h + 1] = w \div Half
  BY <1>1, <1>2 DEF Halves
<1>6. Arm!Loaded(g, o) = w
  BY <1>3, <1>5 DEF Arm!Loaded
<1> QED BY <1>4, <1>6

LEMMA StoredKeeps ==
  ASSUME NEW halves \in Halves, NEW w, NEW o \in {0, 4, 8, 12, 16, 18},
         NEW p \in {0, 4, 8, 12}, p # o
  PROVE  Arm!Loaded(Arm!Stored(halves, o, w), p) = Arm!Loaded(halves, p)
<1> DEFINE g == Arm!Stored(halves, o, w)
           h == o \div 2
           q == p \div 2
<1>1. h \in 0 .. 10 /\ h + 1 \in 0 .. 11 /\ q \in 0 .. 11 /\ q + 1 \in 0 .. 11
  OBVIOUS
<1>2. {q, q + 1} \cap {h, h + 1} = {}
  OBVIOUS
<1>3. g = [[halves EXCEPT ![h] = w % Half] EXCEPT ![h + 1] = w \div Half]
  BY DEF Arm!Stored
<1>4. g[q] = halves[q] /\ g[q + 1] = halves[q + 1]
  BY <1>1, <1>2, <1>3 DEF Halves
<1> QED BY <1>4 DEF Arm!Loaded

(* The six stores of enter_sys.                                            *)
EnterStored(halves, r0, number, spsr, pc0, lr, sp) ==
  Arm!Stored(Arm!Stored(Arm!Stored(Arm!Stored(Arm!Stored(Arm!Stored(halves, 18, r0),
    16, number), 12, spsr), 8, pc0), 4, lr), 0, sp)

HoldsWords(g, spsr, pc0, lr, sp) ==
  /\ g \in Halves /\ Arm!Loaded(g, 0) = sp /\ Arm!Loaded(g, 4) = lr
  /\ Arm!Loaded(g, 8) = pc0 /\ Arm!Loaded(g, 12) = spsr

LEMMA EnterStores ==
  ASSUME Half \in Nat \ {0}, NEW halves \in Halves, NEW r0 \in Nat, NEW number \in Nat,
         NEW spsr \in Nat, NEW pc0 \in Nat, NEW lr \in Nat, NEW sp \in Nat
  PROVE  HoldsWords(EnterStored(halves, r0, number, spsr, pc0, lr, sp), spsr, pc0, lr, sp)
<1> DEFINE g1 == Arm!Stored(halves, 18, r0)
           g2 == Arm!Stored(g1, 16, number)
           g3 == Arm!Stored(g2, 12, spsr)
           g4 == Arm!Stored(g3, 8, pc0)
           g5 == Arm!Stored(g4, 4, lr)
           g == Arm!Stored(g5, 0, sp)
<1>1. g1 \in Halves
  BY StoredLoaded
<1> HIDE DEF g1
<1>2. g2 \in Halves
  BY <1>1, StoredLoaded
<1> HIDE DEF g2
<1>3. g3 \in Halves /\ Arm!Loaded(g3, 12) = spsr
  BY <1>2, StoredLoaded
<1> HIDE DEF g3
<1>4. g4 \in Halves /\ Arm!Loaded(g4, 8) = pc0 /\ Arm!Loaded(g4, 12) = spsr
  <2>1. g4 \in Halves /\ Arm!Loaded(g4, 8) = pc0
    BY <1>3, StoredLoaded
  <2>2. Arm!Loaded(g4, 12) = Arm!Loaded(g3, 12)
    BY <1>3, StoredKeeps
  <2> QED BY <1>3, <2>1, <2>2
<1> HIDE DEF g4
<1>5. /\ g5 \in Halves /\ Arm!Loaded(g5, 4) = lr
      /\ Arm!Loaded(g5, 8) = pc0 /\ Arm!Loaded(g5, 12) = spsr
  <2>1. g5 \in Halves /\ Arm!Loaded(g5, 4) = lr
    BY <1>4, StoredLoaded
  <2>2. Arm!Loaded(g5, 8) = Arm!Loaded(g4, 8)
    BY <1>4, StoredKeeps
  <2>3. Arm!Loaded(g5, 12) = Arm!Loaded(g4, 12)
    BY <1>4, StoredKeeps
  <2> QED BY <1>4, <2>1, <2>2, <2>3
<1> HIDE DEF g5
<1>6. /\ g \in Halves /\ Arm!Loaded(g, 0) = sp /\ Arm!Loaded(g, 4) = lr
      /\ Arm!Loaded(g, 8) = pc0 /\ Arm!Loaded(g, 12) = spsr
  <2>1. g \in Halves /\ Arm!Loaded(g, 0) = sp
    BY <1>5, StoredLoaded
  <2>2. Arm!Loaded(g, 4) = Arm!Loaded(g5, 4)
    BY <1>5, StoredKeeps
  <2>3. Arm!Loaded(g, 8) = Arm!Loaded(g5, 8)
    BY <1>5, StoredKeeps
  <2>4. Arm!Loaded(g, 12) = Arm!Loaded(g5, 12)
    BY <1>5, StoredKeeps
  <2> QED BY <1>5, <2>1, <2>2, <2>3, <2>4
<1> QED BY <1>6 DEF HoldsWords, EnterStored, g1, g2, g3, g4, g5

LEMMA LoadedNat ==
  ASSUME Half \in Nat, NEW halves \in Halves, NEW o \in {0, 4, 8, 12, 16, 18}
  PROVE  Arm!Loaded(halves, o) \in Nat
<1>1. o \div 2 \in 0 .. 11 /\ o \div 2 + 1 \in 0 .. 11
  OBVIOUS
<1>2. halves[o \div 2] \in Nat /\ halves[o \div 2 + 1] \in Nat
  BY <1>1 DEF Halves
<1> QED BY <1>2 DEF Arm!Loaded

LEMMA PsrFlags ==
  ASSUME NEW c \in Registers
  PROVE  /\ Arm!Psr(c, TRUE) \in Nat /\ Arm!Psr(c, FALSE) \in Nat
         /\ Arm!InSys(Arm!Psr(c, TRUE)) /\ ~Arm!InSys(Arm!Psr(c, FALSE))
         /\ Arm!Psr(c, TRUE) % 2 = c.i /\ (Arm!Psr(c, TRUE) \div 2) % 2 = c.f
<1>1. /\ c.i = 0 \/ c.i = 1
      /\ c.f = 0 \/ c.f = 1
  BY DEF Registers
<1>2. Arm!Psr(c, TRUE) = c.i + 2 * c.f + 4 /\ Arm!Psr(c, FALSE) = c.i + 2 * c.f
  BY <1>1 DEF Arm!Psr
<1>3. \A i \in {0, 1}, f \in {0, 1} :
        LET n == i + 2 * f + 4 IN
        /\ n \in Nat /\ i + 2 * f \in Nat /\ n \div 4 = 1 /\ (i + 2 * f) \div 4 # 1
        /\ n % 2 = i /\ (n \div 2) % 2 = f
  OBVIOUS
<1> QED BY <1>1, <1>2, <1>3 DEF Arm!InSys

LEMMA VectorOffsets ==
  ASSUME NEW v \in Arm!Vectors
  PROVE  /\ Arm!Adjust[v] = Arm!LrOffset[v] /\ Arm!LrOffset[v] \in Nat
         /\ Arm!Number[v] \in Nat /\ Arm!ModeOf(v) \in Arm!Modes
<1>1. v \in {"UND", "SVC", "PABT", "DABT", "IRQ", "FIQ"}
  BY DEF Arm!Vectors
<1>2. Arm!Adjust[v] = Arm!LrOffset[v] /\ Arm!LrOffset[v] \in Nat
  BY <1>1 DEF Arm!Adjust, Arm!LrOffset
<1>3. Arm!Number[v] \in Nat
  BY <1>1 DEF Arm!Number
<1>4. Arm!ModeOf(v) \in Arm!Modes
  BY <1>1 DEF Arm!ModeOf, Arm!Modes
<1> QED BY <1>2, <1>3, <1>4

LEMMA Consed ==
  ASSUME NEW S, NEW s \in Seq(S), NEW x \in S
  PROVE  /\ <<x>> \o s \in Seq(S) /\ <<x>> \o s # << >>
         /\ Head(<<x>> \o s) = x /\ Tail(<<x>> \o s) = s
         /\ Len(<<x>> \o s) = Len(s) + 1
         /\ (<<x>> \o s)[1] = x
         /\ \A k \in 1 .. Len(s) : (<<x>> \o s)[k + 1] = s[k]
BY HeadTailProperties, ConcatProperties, LenProperties

LEMMA FramePushed ==
  ASSUME NEW s \in Seq(Frames), NEW t \in Seq(Registers), t # << >>,
         NEW tf \in Frames, FrameOf(tf, Head(t)), FramesOf(s, Tail(t))
  PROVE  FramesOf(<<tf>> \o s, t)
<1>1. /\ Tail(t) \in Seq(Registers) /\ Len(Tail(t)) = Len(t) - 1 /\ Len(t) \in Nat \ {0}
      /\ Head(t) = t[1] /\ \A k \in 1 .. Len(Tail(t)) : Tail(t)[k] = t[k + 1]
  BY HeadTailProperties, LenProperties, EmptySeq
<1>2. /\ Len(<<tf>> \o s) = Len(t) /\ (<<tf>> \o s)[1] = tf
      /\ \A k \in 1 .. Len(s) : (<<tf>> \o s)[k + 1] = s[k]
  <2>1. Len(s) = Len(t) - 1
    BY <1>1 DEF FramesOf
  <2>2. /\ Len(<<tf>> \o s) = Len(s) + 1 /\ (<<tf>> \o s)[1] = tf
        /\ \A k \in 1 .. Len(s) : (<<tf>> \o s)[k + 1] = s[k]
    BY Consed
  <2>3. Len(<<tf>> \o s) = Len(t)
    <3>1. Len(t) = Len(s) + 1
      BY <1>1, <2>1
    <3>2. Len(<<tf>> \o s) = Len(s) + 1
      BY <2>2, Zenon
    <3> QED BY <3>1, <3>2, Zenon
  <2> QED BY <2>2, <2>3
<1>3. ASSUME NEW k \in 1 .. Len(t) PROVE FrameOf((<<tf>> \o s)[k], t[k])
  <2>1. CASE k = 1
    BY <1>1, <1>2, <2>1
  <2>2. CASE k # 1
    <3>1. k - 1 \in 1 .. Len(Tail(t)) /\ (k - 1) + 1 = k
      BY <1>1, <2>2
    <3>2. k - 1 \in 1 .. Len(s) /\ FrameOf(s[k - 1], Tail(t)[k - 1])
      BY <3>1 DEF FramesOf
    <3>3. (<<tf>> \o s)[k] = s[k - 1] /\ t[k] = Tail(t)[k - 1]
      BY <1>1, <1>2, <3>1, <3>2
    <3> QED BY <3>2, <3>3
  <2> QED BY <2>1, <2>2
<1> QED BY <1>2, <1>3 DEF FramesOf

LEMMA FramePopped ==
  ASSUME NEW s \in Seq(Frames), NEW t \in Seq(Registers), t # << >>, FramesOf(s, t)
  PROVE  /\ s # << >> /\ FrameOf(Head(s), Head(t)) /\ FramesOf(Tail(s), Tail(t))
         /\ Head(s) \in Frames /\ Head(t) \in Registers
         /\ Tail(s) \in Seq(Frames) /\ Tail(t) \in Seq(Registers)
         /\ Len(Tail(t)) = Len(t) - 1 /\ Len(t) \in Nat
         /\ Len(t) = 1 => Tail(s) = << >> /\ Tail(t) = << >>
         /\ Len(t) # 1 => Tail(t) # << >>
<1>1. Len(t) \in Nat \ {0} /\ Len(s) = Len(t) /\ s # << >>
  BY LenProperties, EmptySeq DEF FramesOf
<1>2. /\ Tail(t) \in Seq(Registers) /\ Len(Tail(t)) = Len(t) - 1
      /\ Head(t) = t[1] /\ Head(t) \in Registers
      /\ \A k \in 1 .. Len(Tail(t)) : Tail(t)[k] = t[k + 1]
  BY HeadTailProperties, <1>1
<1>3. /\ Tail(s) \in Seq(Frames) /\ Len(Tail(s)) = Len(s) - 1
      /\ Head(s) = s[1] /\ Head(s) \in Frames
      /\ \A k \in 1 .. Len(Tail(s)) : Tail(s)[k] = s[k + 1]
  BY HeadTailProperties, <1>1
<1>4. FrameOf(Head(s), Head(t))
  BY <1>1, <1>2, <1>3 DEF FramesOf
<1>5. ASSUME NEW k \in 1 .. Len(Tail(t)) PROVE FrameOf(Tail(s)[k], Tail(t)[k])
  <2>1. k + 1 \in 1 .. Len(t) /\ k \in 1 .. Len(Tail(s))
    BY <1>1, <1>2, <1>3
  <2>2. FrameOf(s[k + 1], t[k + 1])
    BY <2>1 DEF FramesOf
  <2> QED BY <1>2, <1>3, <2>1, <2>2
<1>6. FramesOf(Tail(s), Tail(t))
  BY <1>1, <1>2, <1>3, <1>5 DEF FramesOf
<1>9. /\ Tail(s) = << >> <=> Len(Tail(s)) = 0
      /\ Tail(t) = << >> <=> Len(Tail(t)) = 0
  <2>1. /\ \A x \in Seq(Frames) : x = << >> <=> Len(x) = 0
        /\ \A x \in Seq(Registers) : x = << >> <=> Len(x) = 0
    BY EmptySeq
  <2> QED BY <1>2, <1>3, <2>1
<1>7. Len(t) = 1 => Tail(s) = << >> /\ Tail(t) = << >>
  BY <1>1, <1>2, <1>3, <1>9
<1>8. Len(t) # 1 => Tail(t) # << >>
  BY <1>1, <1>2, <1>9
<1> QED BY <1>1, <1>2, <1>3, <1>4, <1>6, <1>7, <1>8

LEMMA ArmStarts ==
  ASSUME Arm!ArmTrapAssumption, Arm!Init PROVE ArmInv
<1>1. Contexts \subseteq Registers
  BY DEF Arm!ArmTrapAssumption, Registers
<1>2. cpu \in Registers /\ stack = << >> /\ saved = << >> /\ place = "code"
  BY <1>1 DEF Arm!Init
<1>3. exc \in [lr : Nat, spsr : Nat, vector : Arm!Vectors]
  BY DEF Arm!Init, Arm!Vectors
<1>4. temp \in [Arm!Modes -> Halves]
  BY DEF Arm!Init, Halves
<1> QED BY <1>2, <1>3, <1>4 DEF ArmInv, ArmTypes

LEMMA ArmTakes ==
  ASSUME ArmInv, NEW v \in Arm!Vectors, Arm!Exception(v)
  PROVE  ArmInv' /\ ~Arm!Returns
<1> DEFINE sys == place # "vector"
<1>1. /\ saved' = <<cpu>> \o saved /\ UNCHANGED <<temp, stack>> /\ place' = "vector"
      /\ cpu' = [cpu EXCEPT !.i = 1, !.f = IF v = "FIQ" THEN 1 ELSE @]
      /\ exc' = [lr |-> cpu.pc + Arm!LrOffset[v], spsr |-> Arm!Psr(cpu, sys), vector |-> v]
      /\ place \in {"code", "trap", "vector"}
  BY DEF Arm!Exception
<1>2. cpu \in Registers /\ saved \in Seq(Registers)
  BY DEF ArmInv, ArmTypes
<1>3. /\ saved' \in Seq(Registers) /\ saved' # << >>
      /\ Head(saved') = cpu /\ Tail(saved') = saved /\ Len(saved') = Len(saved) + 1
  BY <1>1, <1>2, Consed
<1>4. cpu' \in Registers /\ cpu'.r1 = cpu.r1 /\ cpu'.sp = cpu.sp /\ cpu'.lr = cpu.lr
  BY <1>1, <1>2 DEF Registers
<1>5. /\ exc'.lr = cpu.pc + Arm!LrOffset[v] /\ exc'.spsr = Arm!Psr(cpu, sys)
      /\ exc'.vector = v
  BY <1>1
<1>6. exc' \in [lr : Nat, spsr : Nat, vector : Arm!Vectors]
  <2>1. cpu.pc \in Nat /\ Arm!LrOffset[v] \in Nat
    BY <1>2, VectorOffsets DEF Registers
  <2>2. Arm!Psr(cpu, sys) \in Nat
    BY <1>2, PsrFlags
  <2> QED BY <1>1, <2>1, <2>2
<1>7. ArmTypes'
  BY <1>1, <1>3, <1>4, <1>6 DEF ArmInv, ArmTypes
<1>8. ASSUME Arm!InSys(exc'.spsr)
      PROVE  FramesOf(stack, Tail(saved))' /\ JustTaken'
  <2>1. place # "vector"
    BY <1>2, <1>5, <1>8, PsrFlags
  <2>2. exc'.spsr = Arm!Psr(cpu, TRUE)
    BY <1>5, <2>1
  <2>3. FramesOf(stack, saved)
    BY <1>1, <2>1, EmptySeq DEF ArmInv, FramesOf
  <2> QED BY <1>1, <1>3, <1>4, <1>5, <2>2, <2>3 DEF JustTaken
<1>9. ArmInv'
  <2>1. exc'.lr - Arm!LrOffset[exc'.vector] \in Nat
    BY <1>2, <1>5, VectorOffsets DEF Registers
  <2> QED BY <1>1, <1>3, <1>7, <1>8, <2>1 DEF ArmInv
<1>10. ~Arm!Returns
  BY <1>2, <1>3, LenProperties DEF Arm!Returns
<1> QED BY <1>9, <1>10

LEMMA ArmEnters ==
  ASSUME Arm!ArmTrapAssumption, ArmInv, Arm!EnterSys
  PROVE  ArmInv' /\ ~Arm!Returns
<1> DEFINE m == Arm!ModeOf(exc.vector)
           spsr == exc.spsr
           pc0 == exc.lr - Arm!Adjust[exc.vector]
           number == Arm!Number[exc.vector]
           g == EnterStored(temp[m], cpu.r0, number, spsr, pc0, cpu.lr, cpu.sp)
<1>1. /\ place = "vector" /\ temp' = [temp EXCEPT ![m] = g]
      /\ cpu' = [cpu EXCEPT !.i = 1, !.f = 1]
      /\ place' = IF Arm!InSys(spsr) THEN "switch" ELSE "spin"
      /\ UNCHANGED <<exc, stack, saved>>
  BY DEF Arm!EnterSys, EnterStored
<1>2. /\ cpu \in Registers /\ spsr \in Nat /\ exc.lr \in Nat /\ exc.vector \in Arm!Vectors
      /\ temp \in [Arm!Modes -> Halves] /\ m \in Arm!Modes /\ temp[m] \in Halves
      /\ number \in Nat /\ Half \in Nat \ {0}
  BY VectorOffsets DEF ArmInv, ArmTypes, Arm!ArmTrapAssumption
<1>3. cpu.r0 \in Nat /\ cpu.lr \in Nat /\ cpu.sp \in Nat
  BY <1>2 DEF Registers
<1>4. pc0 \in Nat
  BY <1>1, <1>2, VectorOffsets DEF ArmInv
<1>5. /\ g \in Halves /\ Arm!Loaded(g, 0) = cpu.sp /\ Arm!Loaded(g, 4) = cpu.lr
      /\ Arm!Loaded(g, 8) = pc0 /\ Arm!Loaded(g, 12) = spsr
  <2>1. HoldsWords(g, spsr, pc0, cpu.lr, cpu.sp)
    <3> HIDE DEF pc0, spsr, m, number
    <3> QED BY <1>2, <1>3, <1>4, EnterStores
  <2> QED BY <2>1 DEF HoldsWords
<1> HIDE DEF g
<1>6. temp' \in [Arm!Modes -> Halves] /\ temp'[m] = g
  BY <1>1, <1>2, <1>5
<1>7. cpu' \in Registers /\ cpu'.r1 = cpu.r1
  BY <1>1, <1>2 DEF Registers
<1>8. ArmTypes'
  BY <1>1, <1>6, <1>7 DEF ArmInv, ArmTypes
<1>9. ASSUME Arm!InSys(spsr)
      PROVE  saved # << >> /\ FramesOf(stack, Tail(saved)) /\ Stacked'
  <2>1. saved # << >> /\ FramesOf(stack, Tail(saved)) /\ JustTaken
    BY <1>1, <1>9 DEF ArmInv
  <2>2. Head(saved) \in Registers
    BY <2>1, HeadTailProperties DEF ArmInv, ArmTypes
  <2>3. pc0 = Head(saved).pc
    <3>1. exc.lr = Head(saved).pc + Arm!LrOffset[exc.vector] /\ Head(saved).pc \in Nat
      BY <2>1, <2>2 DEF JustTaken, Registers
    <3> QED BY <1>2, <3>1, VectorOffsets
  <2>4. temp'[Arm!ModeOf(exc'.vector)] = g /\ Head(saved') = Head(saved)
    BY <1>1, <1>6
  <2>5. /\ cpu.r1 = Head(saved).r1 /\ cpu.sp = Head(saved).sp /\ cpu.lr = Head(saved).lr
        /\ spsr = Arm!Psr(Head(saved), TRUE)
    BY <2>1 DEF JustTaken
  <2>6. Stacked'
    BY <1>5, <1>7, <2>3, <2>4, <2>5 DEF Stacked
  <2> QED BY <2>1, <2>6
<1>10. ArmInv'
  BY <1>1, <1>8, <1>9 DEF ArmInv
<1> QED BY <1>1, <1>10 DEF Arm!Returns, ArmInv, ArmTypes

LEMMA ArmCalls ==
  ASSUME Arm!ArmTrapAssumption, ArmInv, Arm!CallTrap
  PROVE  ArmInv' /\ ~Arm!Returns
<1> DEFINE halves == temp[Arm!ModeOf(exc.vector)]
           tf == [r0 |-> Arm!Loaded(halves, 18), r1 |-> cpu.r1,
                  sp |-> Arm!Loaded(halves, 0), lr |-> Arm!Loaded(halves, 4),
                  pc |-> Arm!Loaded(halves, 8), psr |-> Arm!Loaded(halves, 12),
                  vector |-> Arm!Loaded(halves, 16)]
<1>1. /\ place = "switch" /\ stack' = <<tf>> \o stack /\ place' = "trap"
      /\ \E c \in Contexts : cpu' = [c EXCEPT !.i = 1, !.f = 1]
      /\ UNCHANGED <<exc, temp, saved>>
  BY DEF Arm!CallTrap
<1>2. saved # << >> /\ FramesOf(stack, Tail(saved)) /\ Stacked
  BY <1>1 DEF ArmInv
<1>3. /\ halves \in Halves /\ Half \in Nat /\ cpu \in Registers
      /\ stack \in Seq(Frames) /\ saved \in Seq(Registers)
  BY VectorOffsets DEF ArmInv, ArmTypes, Arm!ArmTrapAssumption
<1>4. tf \in Frames
  <2>1. \A o \in {0, 4, 8, 12, 16, 18} : Arm!Loaded(halves, o) \in Nat
    BY <1>3, LoadedNat
  <2>2. cpu.r1 \in Nat
    BY <1>3 DEF Registers
  <2> QED BY <2>1, <2>2 DEF Frames
<1>5. FrameOf(tf, Head(saved))
  BY <1>2 DEF Stacked, FrameOf
<1> HIDE DEF tf
<1>6. FramesOf(stack', saved) /\ stack' \in Seq(Frames)
  BY <1>1, <1>2, <1>3, <1>4, <1>5, FramePushed, Consed
<1>7. cpu' \in Registers
  <2>1. PICK c \in Contexts : cpu' = [c EXCEPT !.i = 1, !.f = 1]
    BY <1>1
  <2>2. c \in Registers
    BY DEF Arm!ArmTrapAssumption, Registers
  <2> QED BY <2>1, <2>2 DEF Registers
<1>8. ArmInv'
  BY <1>1, <1>2, <1>6, <1>7 DEF ArmInv, ArmTypes
<1> QED BY <1>1, <1>8 DEF Arm!Returns, ArmInv, ArmTypes

LEMMA RegistersButR0 ==
  ASSUME NEW c \in Registers, NEW r0
  PROVE  [c EXCEPT !.r0 = r0] = [r0 |-> r0, r1 |-> c.r1, sp |-> c.sp, lr |-> c.lr,
                                 pc |-> c.pc, i |-> c.i, f |-> c.f]
BY DEF Registers

LEMMA ArmReturns ==
  ASSUME ArmInv, Arm!TrapReturn
  PROVE  ArmInv' /\ Arm!Except0(cpu') = Arm!Except0(Head(saved))
<1> DEFINE tf == Head(stack)
           c == Head(saved)
<1>1. /\ place = "trap" /\ stack' = Tail(stack) /\ saved' = Tail(saved)
      /\ cpu' = [r0 |-> tf.r0, r1 |-> tf.r1, sp |-> tf.sp, lr |-> tf.lr, pc |-> tf.pc,
                 i |-> tf.psr % 2, f |-> (tf.psr \div 2) % 2]
      /\ place' = IF Len(saved) = 1 THEN "code" ELSE "trap"
      /\ UNCHANGED <<exc, temp>>
  BY DEF Arm!TrapReturn
<1>2. /\ saved # << >> /\ FramesOf(stack, saved)
      /\ stack \in Seq(Frames) /\ saved \in Seq(Registers)
  BY <1>1 DEF ArmInv, ArmTypes
<1>3. /\ FrameOf(tf, c) /\ FramesOf(Tail(stack), Tail(saved))
      /\ tf \in Frames /\ c \in Registers
      /\ Tail(stack) \in Seq(Frames) /\ Tail(saved) \in Seq(Registers)
      /\ Len(saved) = 1 => Tail(stack) = << >> /\ Tail(saved) = << >>
      /\ Len(saved) # 1 => Tail(saved) # << >>
  BY <1>2, FramePopped
<1>4. cpu' = [c EXCEPT !.r0 = tf.r0]
  <2>1. /\ tf.r1 = c.r1 /\ tf.sp = c.sp /\ tf.lr = c.lr /\ tf.pc = c.pc
        /\ tf.psr % 2 = c.i /\ (tf.psr \div 2) % 2 = c.f
    BY <1>3, PsrFlags DEF FrameOf
  <2>2. [c EXCEPT !.r0 = tf.r0] = [r0 |-> tf.r0, r1 |-> c.r1, sp |-> c.sp, lr |-> c.lr,
                                   pc |-> c.pc, i |-> c.i, f |-> c.f]
    BY <1>3, RegistersButR0
  <2>3. cpu' = [r0 |-> tf.r0, r1 |-> c.r1, sp |-> c.sp, lr |-> c.lr,
                pc |-> c.pc, i |-> c.i, f |-> c.f]
    BY <1>1, <2>1, Zenon
  <2> QED BY <2>2, <2>3, Zenon
<1>5. cpu' \in Registers /\ Arm!Except0(cpu') = Arm!Except0(c)
  BY <1>3, <1>4 DEF Registers, Frames, Arm!Except0
<1>6. ArmInv'
  BY <1>1, <1>3, <1>5 DEF ArmInv, ArmTypes
<1> QED BY <1>5, <1>6

(* Whatever exceptions interrupt code, to any depth and with any contents  *)
(* of the registers, the code goes on where it was with its registers, its *)
(* stack and its masks, but for r0 (alltraps.S).                           *)
THEOREM ArmContextRestored ==
  ASSUME Arm!ArmTrapAssumption
  PROVE  Arm!Spec => ContextRestored
<1> DEFINE Restores == Arm!Returns => Arm!Except0(cpu') = Arm!Except0(Head(saved))
<1>1. Arm!Init => ArmInv
  BY ArmStarts
<1>2. ArmInv /\ [Arm!Next]_(Arm!vars) => ArmInv' /\ [Restores]_(Arm!vars)
  <2> SUFFICES ASSUME ArmInv, [Arm!Next]_(Arm!vars) PROVE ArmInv' /\ [Restores]_(Arm!vars)
    OBVIOUS
  <2>1. CASE UNCHANGED Arm!vars
    BY <2>1 DEF Arm!vars, ArmInv, ArmTypes, FramesOf, JustTaken, Stacked
  <2>2. CASE Arm!Spins
    BY <2>2 DEF Arm!Spins, Arm!vars, ArmInv, ArmTypes, FramesOf, JustTaken, Stacked
  <2> QED BY <2>1, <2>2, ArmTakes, ArmEnters, ArmCalls, ArmReturns DEF Arm!Next
<1> QED BY <1>1, <1>2, PTL DEF Arm!Spec, ContextRestored, Arm!ContextRestored

-----------------------------------------------------------------------------
(* Linked lists: pointers implement sequences.                             *)

Nodes == Lists \cup Entries

(* The nodes of a ring in order: the head, its entries, the head again.    *)
At(l, s, i) == IF i \in 1 .. Len(s) THEN s[i] ELSE l
Ring(nx, pv, l, s) ==
  \A i \in 0 .. Len(s) : nx[At(l, s, i)] = At(l, s, i + 1) /\ pv[At(l, s, i + 1)] = At(l, s, i)

(* The stores of __list_add and __list_del, and what they do to the        *)
(* sequence.                                                               *)
NextWith(nx, b, x, a) == [[nx EXCEPT ![x] = a] EXCEPT ![b] = x]
PrevWith(pv, b, x, a) == [[pv EXCEPT ![a] = x] EXCEPT ![x] = b]
NextWithout(nx, pv, x) == [nx EXCEPT ![pv[x]] = nx[x]]
PrevWithout(nx, pv, x) == [pv EXCEPT ![nx[x]] = pv[x]]
PutAfter(s, j, x, t) ==
  /\ Len(t) = Len(s) + 1
  /\ \A i \in 1 .. Len(t) : t[i] = IF i <= j THEN s[i] ELSE IF i = j + 1 THEN x ELSE s[i - 1]
TakenOut(s, p, t) ==
  /\ Len(t) = Len(s) - 1
  /\ \A i \in 1 .. Len(t) : t[i] = IF i < p THEN s[i] ELSE s[i + 1]

LEMMA RingNodes ==
  ASSUME Lists \cap Entries = {}, NEW l \in Lists, NEW s \in Seq(Entries), Distinct(s),
         NEW z \in Nat, z = Len(s)
  PROVE  /\ DOMAIN s = 1 .. z
         /\ At(l, s, 0) = l /\ At(l, s, z + 1) = l
         /\ \A i \in 1 .. z : At(l, s, i) = s[i] /\ s[i] \in Entries /\ s[i] # l
         /\ \A i \in 0 .. z + 1 : At(l, s, i) \in Nodes
         /\ \A i, j \in 0 .. z : At(l, s, i) = At(l, s, j) => i = j
<1>1. DOMAIN s = 1 .. z /\ \A i \in 1 .. z : s[i] \in Entries /\ s[i] # l
  BY LenProperties, ElementOfSeq
<1>2. \A i, j \in 1 .. z : s[i] = s[j] => i = j
  BY <1>1 DEF Distinct
<1> QED BY <1>1, <1>2 DEF At, Nodes

(* __list_add puts an entry between two neighbours.                        *)
LEMMA RingInsert ==
  ASSUME Lists \cap Entries = {},
         NEW nx \in [Nodes -> Nodes], NEW pv \in [Nodes -> Nodes],
         NEW l \in Lists, NEW s \in Seq(Entries), Distinct(s), Ring(nx, pv, l, s),
         NEW x \in Entries, x \notin ToSet(s), NEW j \in 0 .. Len(s),
         NEW t \in Seq(Entries), PutAfter(s, j, x, t),
         NEW b, b = At(l, s, j), NEW a, a = At(l, s, j + 1)
  PROVE  /\ Ring(NextWith(nx, b, x, a), PrevWith(pv, b, x, a), l, t)
         /\ Distinct(t) /\ ToSet(t) = ToSet(s) \cup {x}
<1> DEFINE ny == NextWith(nx, b, x, a)
           py == PrevWith(pv, b, x, a)
           z == Len(s)
<1>0. Len(t) = Len(s) + 1
      /\ \A i \in 1 .. Len(t) : t[i] = IF i <= j THEN s[i] ELSE IF i = j + 1 THEN x ELSE s[i - 1]
  BY DEF PutAfter
<1> USE <1>0
<1>1. z \in Nat /\ DOMAIN s = 1 .. z /\ DOMAIN t = 1 .. z + 1 /\ j \in 0 .. z
  BY LenProperties
<1>2. /\ At(l, s, 0) = l /\ At(l, s, z + 1) = l
      /\ \A i \in 0 .. z + 1 : At(l, s, i) \in Nodes /\ At(l, s, i) # x
      /\ \A i, k \in 0 .. z : At(l, s, i) = At(l, s, k) => i = k
  <2>1. \A i \in 1 .. z : s[i] # x
    BY <1>1 DEF ToSet
  <2> QED BY <1>1, <2>1, RingNodes, SMTT(30) DEF At
<1>3. \A i \in 0 .. z + 2 : At(l, t, i) = IF i <= j THEN At(l, s, i) ELSE IF i = j + 1 THEN x ELSE At(l, s, i - 1)
  <2> SUFFICES ASSUME NEW i \in 0 .. z + 2
               PROVE  At(l, t, i) = IF i <= j THEN At(l, s, i) ELSE IF i = j + 1 THEN x ELSE At(l, s, i - 1)
    OBVIOUS
  <2> USE <1>1
  <2>1. CASE i \in 1 .. z + 1
    <3>1. At(l, t, i) = t[i]
      BY <2>1 DEF At
    <3>2. CASE i <= j
      BY <2>1, <3>1, <3>2 DEF At
    <3>3. CASE i = j + 1
      BY <2>1, <3>1, <3>3
    <3>4. CASE i > j + 1
      <4>1. i - 1 \in 1 .. z
        BY <2>1, <3>4
      <4> QED BY <2>1, <3>1, <3>4, <4>1 DEF At
    <3> QED BY <3>2, <3>3, <3>4
  <2>2. CASE i = 0
    BY <2>2 DEF At
  <2>3. CASE i = z + 2
    BY <2>3, <1>2 DEF At
  <2> QED BY <2>1, <2>2, <2>3
<1>4. x \in Nodes /\ a \in Nodes /\ b \in Nodes /\ x # a /\ x # b
  BY <1>1, <1>2 DEF Nodes
<1>5. /\ \A y \in Nodes : ny[y] = IF y = b THEN x ELSE IF y = x THEN a ELSE nx[y]
      /\ \A y \in Nodes : py[y] = IF y = x THEN b ELSE IF y = a THEN x ELSE pv[y]
  BY <1>4 DEF NextWith, PrevWith
<1> HIDE DEF ny, py
<1>6. ASSUME NEW i \in 0 .. z + 1
      PROVE  ny[At(l, t, i)] = At(l, t, i + 1) /\ py[At(l, t, i + 1)] = At(l, t, i)
  <2> USE <1>1
  <2>1. CASE i < j
    <3>1. At(l, t, i) = At(l, s, i) /\ At(l, t, i + 1) = At(l, s, i + 1) /\ i \in 0 .. z
      BY <2>1, <1>3
    <3>2. At(l, s, i) # b /\ At(l, s, i) # x /\ At(l, s, i) \in Nodes
      BY <2>1, <1>2
    <3>3. At(l, s, i + 1) # a /\ At(l, s, i + 1) # x /\ At(l, s, i + 1) \in Nodes
      <4>1. i + 1 \in 0 .. z /\ i + 1 # j + 1 /\ i + 1 # 0
        BY <2>1
      <4>2. j + 1 \in 0 .. z => At(l, s, i + 1) # a
        BY <4>1, <1>2
      <4>3. j + 1 = z + 1 => a = At(l, s, 0)
        BY <1>2
      <4>4. At(l, s, i + 1) # At(l, s, 0)
        BY <4>1, <1>2
      <4> QED BY <4>1, <4>2, <4>3, <4>4, <1>2
    <3> QED BY <3>1, <3>2, <3>3, <1>5 DEF Ring
  <2>2. CASE i = j
    <3>1. At(l, t, i) = b /\ At(l, t, i + 1) = x
      BY <2>2, <1>3
    <3> QED BY <3>1, <1>4, <1>5
  <2>3. CASE i = j + 1
    <3>1. At(l, t, i) = x /\ At(l, t, i + 1) = a
      BY <2>3, <1>3
    <3> QED BY <3>1, <1>4, <1>5
  <2>4. CASE i > j + 1
    <3>1. PICK k \in 1 .. z : i = k + 1 /\ k > j
      <4>1. i - 1 \in 1 .. z /\ i = (i - 1) + 1 /\ i - 1 > j
        BY <2>4
      <4> QED BY <4>1
    <3>2. At(l, t, i) = At(l, s, k) /\ At(l, t, i + 1) = At(l, s, k + 1)
      BY <3>1, <2>4, <1>3
    <3>3. At(l, s, k) # b /\ At(l, s, k) # x /\ At(l, s, k) \in Nodes
      BY <3>1, <1>2
    <3>4. At(l, s, k + 1) # a /\ At(l, s, k + 1) # x /\ At(l, s, k + 1) \in Nodes
      <4>1. j + 1 \in 0 .. z /\ j + 1 # k + 1 /\ j + 1 # 0
        BY <3>1
      <4>2. CASE k + 1 \in 0 .. z
        BY <4>1, <4>2, <1>2
      <4>3. CASE k + 1 = z + 1
        BY <4>1, <4>3, <1>2
      <4> QED BY <3>1, <4>1, <4>2, <4>3, <1>2
    <3> QED BY <3>1, <3>2, <3>3, <3>4, <1>5 DEF Ring
  <2> QED BY <2>1, <2>2, <2>3, <2>4
<1>7. Distinct(t) /\ ToSet(t) = ToSet(s) \cup {x}
  <2>1. \A i, k \in 1 .. z + 1 : t[i] = t[k] => i = k
    <3> SUFFICES ASSUME NEW i \in 1 .. z + 1, NEW k \in 1 .. z + 1, t[i] = t[k], i < k PROVE FALSE
      BY <1>1
    <3> USE <1>1
    <3>1. \A p, q \in 1 .. z : s[p] = s[q] => p = q
      BY DEF Distinct
    <3>2. \A p \in 1 .. z : s[p] # x
      BY DEF ToSet
    <3>3. CASE k <= j
      <4>1. i <= j /\ i \in 1 .. z /\ k \in 1 .. z /\ i # k
        BY <3>3
      <4>2. t[i] = s[i] /\ t[k] = s[k]
        BY <3>3, <4>1
      <4> QED BY <4>1, <4>2, <3>1
    <3>4. CASE k = j + 1
      <4>1. i \in 1 .. z /\ t[i] = s[i] /\ t[k] = x
        BY <3>4
      <4> QED BY <4>1, <3>2
    <3>5. CASE k > j + 1
      <4>1. k - 1 \in 1 .. z /\ t[k] = s[k - 1]
        BY <3>5
      <4>2. CASE i <= j
        <5>1. i \in 1 .. z /\ t[i] = s[i] /\ i # k - 1
          BY <4>2, <3>5
        <5> QED BY <4>1, <5>1, <3>1
      <4>3. CASE i = j + 1
        BY <4>1, <4>3, <3>2
      <4>4. CASE i > j + 1
        <5>1. i - 1 \in 1 .. z /\ t[i] = s[i - 1] /\ i - 1 # k - 1
          BY <4>4
        <5> QED BY <4>1, <5>1, <3>1
      <4> QED BY <4>2, <4>3, <4>4
    <3> QED BY <3>3, <3>4, <3>5
  <2>2. ASSUME NEW e \in ToSet(t) PROVE e \in ToSet(s) \cup {x}
    <3>1. PICK i \in 1 .. z + 1 : e = t[i]
      BY <1>1 DEF ToSet
    <3>2. t[i] = x \/ \E p \in 1 .. z : t[i] = s[p]
      <4>1. CASE i <= j
        <5>1. i \in 1 .. z /\ t[i] = s[i]
          BY <1>1, <4>1
        <5> QED BY <5>1
      <4>2. CASE i = j + 1
        BY <1>1, <4>2
      <4>3. CASE i > j + 1
        <5>1. i - 1 \in 1 .. z /\ t[i] = s[i - 1]
          BY <1>1, <4>3
        <5> QED BY <5>1
      <4> QED BY <1>1, <4>1, <4>2, <4>3
    <3> QED BY <1>1, <3>1, <3>2 DEF ToSet
  <2>3. ASSUME NEW e \in ToSet(s) \cup {x} PROVE e \in ToSet(t)
    <3>1. CASE e = x
      <4>1. j + 1 \in 1 .. z + 1 /\ t[j + 1] = x
        BY <1>1
      <4> QED BY <1>1, <3>1, <4>1 DEF ToSet
    <3>2. CASE e \in ToSet(s)
      <4>1. PICK p \in 1 .. z : s[p] = e
        BY <1>1, <3>2 DEF ToSet
      <4>2. CASE p <= j
        BY <1>1, <4>1, <4>2, SMTT(30) DEF ToSet
      <4>3. CASE p > j
        <5>1. PICK i \in 1 .. z + 1 : i = p + 1
          BY <1>1
        <5>2. ~(i <= j) /\ i # j + 1 /\ i - 1 = p
          BY <4>3, <5>1
        <5>3. t[i] = s[i - 1]
          BY <1>1, <5>2
        <5> QED BY <1>1, <4>1, <5>2, <5>3 DEF ToSet
      <4> QED BY <1>1, <4>2, <4>3
    <3> QED BY <3>1, <3>2
  <2> QED BY <1>1, <2>1, <2>2, <2>3 DEF Distinct
<1> QED BY <1>1, <1>6, <1>7 DEF Ring, ny, py

(* __list_del takes the entry at place p out.                              *)
LEMMA RingRemove ==
  ASSUME Lists \cap Entries = {},
         NEW nx \in [Nodes -> Nodes], NEW pv \in [Nodes -> Nodes],
         NEW l \in Lists, NEW s \in Seq(Entries), Distinct(s), Ring(nx, pv, l, s),
         NEW p \in 1 .. Len(s), NEW x, x = s[p],
         NEW t \in Seq(Entries), TakenOut(s, p, t)
  PROVE  Ring(NextWithout(nx, pv, x), PrevWithout(nx, pv, x), l, t)
<1> DEFINE ny == NextWithout(nx, pv, x)
           py == PrevWithout(nx, pv, x)
           z == Len(s)
<1>0. Len(t) = Len(s) - 1 /\ \A i \in 1 .. Len(t) : t[i] = IF i < p THEN s[i] ELSE s[i + 1]
  BY DEF TakenOut
<1> USE <1>0
<1>1. z \in Nat /\ DOMAIN s = 1 .. z /\ DOMAIN t = 1 .. z - 1 /\ p \in 1 .. z
  BY LenProperties
<1>2. /\ At(l, s, 0) = l /\ At(l, s, z + 1) = l
      /\ \A i \in 0 .. z + 1 : At(l, s, i) \in Nodes
      /\ \A i, k \in 0 .. z : At(l, s, i) = At(l, s, k) => i = k
      /\ At(l, s, p) = x /\ x \in Nodes
  BY <1>1, RingNodes
<1>3. nx[x] = At(l, s, p + 1) /\ pv[x] = At(l, s, p - 1)
  <2>1. p - 1 \in 0 .. z /\ (p - 1) + 1 = p
    BY <1>1
  <2>2. pv[At(l, s, (p - 1) + 1)] = At(l, s, p - 1)
    BY <2>1 DEF Ring
  <2> QED BY <1>1, <1>2, <2>1, <2>2 DEF Ring
<1>4. \A i \in 0 .. z : At(l, t, i) = IF i < p THEN At(l, s, i) ELSE At(l, s, i + 1)
  <2> SUFFICES ASSUME NEW i \in 0 .. z
               PROVE  At(l, t, i) = IF i < p THEN At(l, s, i) ELSE At(l, s, i + 1)
    OBVIOUS
  <2> USE <1>1
  <2>1. CASE i \in 1 .. z - 1
    <3>1. At(l, t, i) = t[i] /\ i \in 1 .. z /\ i + 1 \in 1 .. z
      BY <2>1 DEF At
    <3>2. At(l, s, i) = s[i] /\ At(l, s, i + 1) = s[i + 1]
      BY <3>1 DEF At
    <3> QED BY <2>1, <3>1, <3>2
  <2>2. CASE i = 0
    BY <2>2, <1>2 DEF At
  <2>3. CASE i = z
    BY <2>3, <1>2 DEF At
  <2> QED BY <2>1, <2>2, <2>3
<1>5. /\ \A y \in Nodes : ny[y] = IF y = At(l, s, p - 1) THEN At(l, s, p + 1) ELSE nx[y]
      /\ \A y \in Nodes : py[y] = IF y = At(l, s, p + 1) THEN At(l, s, p - 1) ELSE pv[y]
  BY <1>3 DEF NextWithout, PrevWithout
<1> HIDE DEF ny, py
<1>6. ASSUME NEW i \in 0 .. z - 1
      PROVE  ny[At(l, t, i)] = At(l, t, i + 1) /\ py[At(l, t, i + 1)] = At(l, t, i)
  <2> USE <1>1
  <2>1. PICK q \in Nat : q = p - 1 /\ q \in 0 .. z - 1 /\ p = q + 1 /\ p + 1 = q + 2
    <3>1. p - 1 \in Nat
      OBVIOUS
    <3> QED BY <3>1
  <2>2. At(l, s, i) \in Nodes /\ At(l, s, i + 1) \in Nodes /\ At(l, s, i + 2) \in Nodes
    BY <1>2
  <2>3. CASE i = q
    <3>1. At(l, t, i) = At(l, s, q) /\ At(l, t, i + 1) = At(l, s, q + 2)
      BY <2>1, <2>3, <1>4
    <3> QED BY <2>1, <2>2, <2>3, <3>1, <1>5
  <2>4. CASE i < q
    <3>1. At(l, t, i) = At(l, s, i) /\ At(l, t, i + 1) = At(l, s, i + 1)
      BY <2>1, <2>4, <1>4
    <3>2. At(l, s, i) # At(l, s, q)
      BY <2>1, <2>4, <1>2
    <3>3. At(l, s, i + 1) # At(l, s, q + 2)
      <4>1. i + 1 \in 0 .. z /\ i + 1 # q + 2 /\ i + 1 # 0
        BY <2>1, <2>4
      <4>2. q + 2 \in 0 .. z => At(l, s, i + 1) # At(l, s, q + 2)
        BY <4>1, <1>2
      <4>3. q + 2 = z + 1 => At(l, s, q + 2) = At(l, s, 0)
        BY <1>2
      <4>4. At(l, s, i + 1) # At(l, s, 0)
        BY <4>1, <1>2
      <4> QED BY <2>1, <4>1, <4>2, <4>3, <4>4
    <3> QED BY <2>1, <2>2, <3>1, <3>2, <3>3, <1>5 DEF Ring
  <2>5. CASE i > q
    <3>1. At(l, t, i) = At(l, s, i + 1) /\ At(l, t, i + 1) = At(l, s, i + 2)
      BY <2>1, <2>5, <1>4
    <3>2. At(l, s, i + 1) # At(l, s, q)
      BY <2>1, <2>5, <1>2
    <3>3. At(l, s, i + 2) # At(l, s, q + 2)
      <4>1. q + 2 \in 0 .. z /\ q + 2 # i + 2 /\ q + 2 # 0
        BY <2>1, <2>5
      <4>2. i + 2 \in 0 .. z => At(l, s, i + 2) # At(l, s, q + 2)
        BY <4>1, <1>2
      <4>3. i + 2 = z + 1 => At(l, s, i + 2) = At(l, s, 0)
        BY <1>2
      <4>4. At(l, s, q + 2) # At(l, s, 0)
        BY <4>1, <1>2
      <4> QED BY <4>2, <4>3, <4>4
    <3>4. i + 1 \in 0 .. z /\ (i + 1) + 1 = i + 2
      OBVIOUS
    <3>5. nx[At(l, s, i + 1)] = At(l, s, i + 2) /\ pv[At(l, s, i + 2)] = At(l, s, i + 1)
      BY <3>4 DEF Ring
    <3> QED BY <2>1, <2>2, <3>1, <3>2, <3>3, <3>5, <1>5
  <2> QED BY <2>1, <2>3, <2>4, <2>5
<1> QED BY <1>1, <1>3, <1>6 DEF Ring, ny, py

(* Stores to nodes outside a ring leave it whole.                          *)
LEMMA RingApart ==
  ASSUME NEW nx \in [Nodes -> Nodes], NEW pv \in [Nodes -> Nodes],
         NEW ny \in [Nodes -> Nodes], NEW py \in [Nodes -> Nodes],
         NEW l \in Lists, NEW s \in Seq(Entries), Ring(nx, pv, l, s),
         \A y \in {l} \cup ToSet(s) : ny[y] = nx[y] /\ py[y] = pv[y]
  PROVE  Ring(ny, py, l, s)
<1>1. \A i \in 0 .. Len(s) + 1 : At(l, s, i) \in {l} \cup ToSet(s)
  BY LenProperties DEF At, ToSet
<1>2. Len(s) \in Nat
  BY LenProperties
<1> QED BY <1>1, <1>2 DEF Ring

(* The entries from a node on, walked in any pointers.                     *)
UptoIn(nx, l, x) ==
  LET from[k \in Nat] ==
          IF k = 0 THEN [y \in Nodes |-> <<>>]
          ELSE [y \in Nodes |-> IF y = l THEN <<>> ELSE <<y>> \o from[k - 1][nx[y]]]
  IN  from[Cardinality(Entries) + 1][x]

(* A sequence without repetitions is no longer than its elements are many. *)
LEMMA RingFits ==
  ASSUME IsFiniteSet(Entries), NEW s \in Seq(Entries), Distinct(s)
  PROVE  Cardinality(Entries) \in Nat /\ Len(s) <= Cardinality(Entries)
<1>1. Cardinality(Entries) \in Nat /\ Len(s) \in Nat /\ DOMAIN s = 1 .. Len(s)
  BY FS_CardinalityType, LenProperties
<1>2. IsFiniteSet(1 .. Len(s)) /\ Cardinality(1 .. Len(s)) = Len(s)
  <2>1. \A z \in Nat : Cardinality(1 .. z) = z
    <3> TAKE z \in Nat
    <3>1. Cardinality(1 .. z) = IF 1 > z THEN 0 ELSE z - 1 + 1
      BY FS_Interval
    <3> QED BY <3>1
  <2> QED BY <1>1, <2>1, FS_Interval
<1>3. s \in Injection(1 .. Len(s), Entries)
  <2>1. s \in [1 .. Len(s) -> Entries] /\ \A i, j \in 1 .. Len(s) : s[i] = s[j] => i = j
    BY <1>1 DEF Distinct
  <2> QED BY <2>1, Zenon DEF Injection, IsInjective
<1> QED BY <1>1, <1>2, <1>3, FS_Injection

(* Walking a ring gives the entries from there to its end.                 *)
LEMMA WalkedRing ==
  ASSUME Lists \cap Entries = {}, IsFiniteSet(Entries),
         NEW nx \in [Nodes -> Nodes], NEW pv, NEW l \in Lists,
         NEW s \in Seq(Entries), Distinct(s), Ring(nx, pv, l, s),
         NEW j \in 1 .. Len(s) + 1
  PROVE  UptoIn(nx, l, At(l, s, j)) = SubSeq(s, j, Len(s))
<1> DEFINE T == [Nodes -> Seq(Nodes)]
           b == [y \in Nodes |-> <<>>]
           st == [F \in T |-> [y \in Nodes |-> IF y = l THEN <<>> ELSE <<y>> \o F[nx[y]]]]
           g == [n \in Nat |-> st]
           E(f) == f = [k \in Nat |->
                    IF k = 0 THEN [y \in Nodes |-> <<>>]
                    ELSE [y \in Nodes |-> IF y = l THEN <<>> ELSE <<y>> \o f[k - 1][nx[y]]]]
           from == CHOOSE f : E(f)
           N == Cardinality(Entries)
           z == Len(s)
<1>1. \E f : E(f)
  <2>1. b \in T
    <3>1. <<>> \in Seq(Nodes)
      BY EmptySeq
    <3> QED BY <3>1
  <2>2. st \in [T -> T]
    <3>1. ASSUME NEW F \in T PROVE [y \in Nodes |-> IF y = l THEN <<>> ELSE <<y>> \o F[nx[y]]] \in T
      <4>1. ASSUME NEW y \in Nodes PROVE (IF y = l THEN <<>> ELSE <<y>> \o F[nx[y]]) \in Seq(Nodes)
        <5>1. <<>> \in Seq(Nodes)
          BY EmptySeq
        <5>2. F[nx[y]] \in Seq(Nodes) /\ <<y>> \in Seq(Nodes)
          OBVIOUS
        <5>3. <<y>> \o F[nx[y]] \in Seq(Nodes)
          BY <5>2, ConcatProperties
        <5> QED BY <5>1, <5>3
      <4> QED BY <4>1
    <3> QED BY <3>1
  <2> HIDE DEF T, b, st
  <2>3. g \in [Nat -> [T -> T]] /\ \A n \in Nat : g[n] = st
    BY <2>2
  <2> HIDE DEF g
  <2>4. PICK f \in [Nat -> T] : f[0] = b /\ \A n \in Nat : f[n + 1] = g[n][f[n]]
    <3>1. \E f \in [Nat -> T] : Recurs(f, b, g)
      BY <2>1, <2>3, PrimitiveRecursion
    <3> QED BY <3>1 DEF Recurs
  <2>5. ASSUME NEW k \in Nat, k # 0 PROVE f[k] = st[f[k - 1]] /\ f[k - 1] \in T
    <3>1. k - 1 \in Nat /\ (k - 1) + 1 = k
      BY <2>5
    <3> QED BY <2>3, <2>4, <3>1
  <2>6. ASSUME NEW F \in T PROVE st[F] = [y \in Nodes |-> IF y = l THEN <<>> ELSE <<y>> \o F[nx[y]]]
    BY DEF st
  <2> DEFINE R(k) == IF k = 0 THEN [y \in Nodes |-> <<>>]
                     ELSE [y \in Nodes |-> IF y = l THEN <<>> ELSE <<y>> \o f[k - 1][nx[y]]]
  <2>7. \A k \in Nat : f[k] = R(k)
    BY <2>4, <2>5, <2>6 DEF b
  <2>8. f = [k \in Nat |-> R(k)]
    <3> HIDE DEF R
    <3> QED BY <2>4, <2>7
  <2> QED BY <2>8
<1>2. E(from)
  <2> HIDE DEF E
  <2> QED BY <1>1
<1> HIDE DEF from
<1>3. /\ from[0] = b
      /\ \A k \in Nat : k # 0 =>
           from[k] = [y \in Nodes |-> IF y = l THEN <<>> ELSE <<y>> \o from[k - 1][nx[y]]]
  BY <1>2
<1>4. /\ z \in Nat /\ At(l, s, z + 1) = l /\ l \in Nodes
      /\ \A i \in 1 .. z : At(l, s, i) = s[i] /\ s[i] # l /\ s[i] \in Nodes /\ nx[s[i]] = At(l, s, i + 1)
  <2>1. z \in Nat
    BY LenProperties
  <2>2. \A i \in 1 .. z : nx[At(l, s, i)] = At(l, s, i + 1)
    BY <2>1 DEF Ring
  <2> QED BY <2>1, <2>2, RingNodes DEF Nodes
<1> DEFINE Bad == {k \in Nat : \E i \in 1 .. z + 1 : z + 1 - i < k /\ from[k][At(l, s, i)] # SubSeq(s, i, z)}
<1>5. Bad = {}
  <2>1. SUFFICES ASSUME Bad # {} PROVE FALSE
    OBVIOUS
  <2>2. PICK k \in Bad : \A m \in Bad : k <= m
    BY <2>1, NatLeast, Zenon
  <2>3. PICK i \in 1 .. z + 1 : z + 1 - i < k /\ from[k][At(l, s, i)] # SubSeq(s, i, z)
    BY <2>2
  <2>4. k \in Nat /\ k # 0 /\ k - 1 \in Nat /\ ~(k <= k - 1) /\ i \in 1 .. z + 1 /\ z + 1 - i < k
    BY <1>4, <2>2, <2>3, SMTT(30)
  <2>5. k - 1 \notin Bad
    BY <2>2, <2>4
  <2>6. CASE i = z + 1
    <3>1. from[k][l] = <<>>
      BY <1>3, <1>4, <2>4
    <3>2. SubSeq(s, z + 1, z) = <<>>
      BY <1>4, SubSeqEmpty
    <3> QED BY <1>4, <2>3, <2>6, <3>1, <3>2
  <2>7. CASE i # z + 1
    <3>1. i \in 1 .. z /\ i + 1 \in 1 .. z + 1 /\ z + 1 - (i + 1) < k - 1
      <4> HIDE DEF z
      <4>1. z \in Nat /\ i \in 1 .. z + 1 /\ i # z + 1
        BY <1>4, <2>4, <2>7
      <4>2. i \in 1 .. z /\ i + 1 \in 1 .. z + 1
        BY <4>1
      <4>3. k \in Nat /\ z + 1 - i < k
        BY <2>4
      <4>4. z + 1 - (i + 1) < k - 1
        BY <4>1, <4>3
      <4> QED BY <4>2, <4>4
    <3>2. from[k - 1][At(l, s, i + 1)] = SubSeq(s, i + 1, z)
      BY <2>4, <2>5, <3>1
    <3>3. from[k][s[i]] = <<s[i]>> \o from[k - 1][At(l, s, i + 1)]
      <4>1. from[k] = [y \in Nodes |-> IF y = l THEN <<>> ELSE <<y>> \o from[k - 1][nx[y]]]
        BY <1>3, <2>4
      <4>2. s[i] # l /\ s[i] \in Nodes /\ nx[s[i]] = At(l, s, i + 1)
        BY <1>4, <3>1
      <4> HIDE DEF z
      <4> QED BY <4>1, <4>2, Zenon
    <3>4. SubSeq(s, i, z) = <<s[i]>> \o SubSeq(s, i + 1, z)
      <4>1. z \in i .. z
        BY <1>4, <3>1
      <4> QED BY <3>1, <4>1, SubSeqRecursiveFirst
    <3> QED BY <1>4, <2>3, <3>1, <3>2, <3>3, <3>4
  <2> QED BY <2>6, <2>7
<1>6. N + 1 \in Nat /\ z + 1 - j < N + 1
  <2>1. N \in Nat /\ z <= N
    BY RingFits
  <2> QED BY <1>4, <2>1
<1>7. from[N + 1][At(l, s, j)] = SubSeq(s, j, z)
  BY <1>5, <1>6
<1> QED BY <1>7 DEF UptoIn, from

(* Every list is a ring through its entries, and no entry is in two.       *)
Rings(nx, pv, sq) ==
  /\ nx \in [Nodes -> Nodes] /\ pv \in [Nodes -> Nodes]
  /\ sq \in [Lists -> Seq(Entries)]
  /\ \A l \in Lists : Ring(nx, pv, l, sq[l]) /\ Distinct(sq[l])
  /\ \A l, m \in Lists : l # m => ToSet(sq[l]) \cap ToSet(sq[m]) = {}

(* A loop that has not come to its head holds the entry that was after its *)
(* cursor: the next one of the list, whether or not the cursor is still in *)
(* it.  r is what the loop has still to come to.                           *)
LoopAt(w, p, a, sq, r) ==
  \/ r = << >> /\ (w = {} \/ \E l \in Lists : w = {l} /\ p = l)
  \/ \E l \in Lists : \E j \in 1 .. Len(sq[l]) + 1 :
       /\ w = {l} /\ p \in Entries /\ a = At(l, sq[l], j)
       /\ r = <<p>> \o SubSeq(sq[l], j, Len(sq[l]))
       /\ p \in ToSet(sq[l]) => j > 1 /\ sq[l][j - 1] = p

SeqsIn(nx) == [l \in Lists |-> UptoIn(nx, l, nx[l])]
RestIn(nx, w, p, a) ==
  IF w = {} \/ p \in w THEN << >> ELSE <<p>> \o UptoIn(nx, CHOOSE l \in w : TRUE, a)

Shown == [l \in Lists |-> List!Upto(l, next[l])]

LEMMA Walks ==
  /\ Shown = SeqsIn(next) /\ Shown' = SeqsIn(next')
  /\ List!Rest = RestIn(next, walked, pos, after)
  /\ List!Rest' = RestIn(next', walked', pos', after')
BY DEF Shown, SeqsIn, List!Rest, RestIn, List!Upto, UptoIn, Nodes, List!Nodes

(* What the loops of the model show of rings in order.                     *)
LEMMA RingsShow ==
  ASSUME Lists \cap Entries = {}, IsFiniteSet(Entries),
         NEW nx, NEW pv, NEW sq, NEW w, NEW p, NEW a, NEW r,
         Rings(nx, pv, sq), LoopAt(w, p, a, sq, r)
  PROVE  SeqsIn(nx) = sq /\ RestIn(nx, w, p, a) = r
<1>1. SeqsIn(nx) = sq
  <2>1. ASSUME NEW l \in Lists PROVE UptoIn(nx, l, nx[l]) = sq[l]
    <3>1. /\ sq[l] \in Seq(Entries) /\ Distinct(sq[l]) /\ Ring(nx, pv, l, sq[l])
          /\ nx \in [Nodes -> Nodes]
      BY DEF Rings
    <3>2. Len(sq[l]) \in Nat /\ At(l, sq[l], 0) = l
      BY <3>1, LenProperties DEF At
    <3>3. nx[l] = At(l, sq[l], 1) /\ 1 \in 1 .. Len(sq[l]) + 1
      BY <3>1, <3>2 DEF Ring
    <3>4. UptoIn(nx, l, At(l, sq[l], 1)) = SubSeq(sq[l], 1, Len(sq[l]))
      <4> PICK s \in Seq(Entries) : s = sq[l]
        BY <3>1
      <4> QED BY <3>1, <3>3, WalkedRing, ZenonT(40)
    <3> QED BY <3>1, <3>3, <3>4, SubSeqFull
  <2> QED BY <2>1 DEF SeqsIn, Rings
<1>2. RestIn(nx, w, p, a) = r
  <2>1. CASE r = << >> /\ (w = {} \/ \E l \in Lists : w = {l} /\ p = l)
    BY <2>1 DEF RestIn
  <2>2. ASSUME NEW l \in Lists, NEW j \in 1 .. Len(sq[l]) + 1,
               w = {l}, p \in Entries, a = At(l, sq[l], j),
               r = <<p>> \o SubSeq(sq[l], j, Len(sq[l]))
        PROVE  RestIn(nx, w, p, a) = r
    <3>1. /\ sq[l] \in Seq(Entries) /\ Distinct(sq[l]) /\ Ring(nx, pv, l, sq[l])
          /\ nx \in [Nodes -> Nodes]
      BY DEF Rings
    <3>2. UptoIn(nx, l, a) = SubSeq(sq[l], j, Len(sq[l]))
      <4> PICK s \in Seq(Entries) : s = sq[l]
        BY <3>1
      <4> QED BY <2>2, <3>1, WalkedRing, ZenonT(40)
    <3>3. w # {} /\ p \notin w /\ (CHOOSE k \in w : TRUE) = l
      BY <2>2
    <3> QED BY <2>2, <3>2, <3>3 DEF RestIn
  <2> QED BY <2>1, <2>2 DEF LoopAt
<1> QED BY <1>1, <1>2

(* Adding to one list and removing from it leave the others as they were.  *)
LEMMA RingsInsert ==
  ASSUME Lists \cap Entries = {}, NEW nx, NEW pv, NEW sq, Rings(nx, pv, sq),
         NEW l \in Lists, NEW x \in Entries, \A m \in Lists : x \notin ToSet(sq[m]),
         NEW s, s = sq[l], NEW j \in 0 .. Len(s), NEW t \in Seq(Entries), PutAfter(s, j, x, t),
         NEW b, b = At(l, s, j), NEW a, a = At(l, s, j + 1)
  PROVE  Rings(NextWith(nx, b, x, a), PrevWith(pv, b, x, a), [sq EXCEPT ![l] = t])
<1> DEFINE ny == NextWith(nx, b, x, a)
           py == PrevWith(pv, b, x, a)
           sr == [sq EXCEPT ![l] = t]
<1>1. /\ nx \in [Nodes -> Nodes] /\ pv \in [Nodes -> Nodes] /\ sq \in [Lists -> Seq(Entries)]
      /\ \A m \in Lists : sq[m] \in Seq(Entries) /\ Ring(nx, pv, m, sq[m]) /\ Distinct(sq[m])
      /\ \A k, m \in Lists : k # m => ToSet(sq[k]) \cap ToSet(sq[m]) = {}
  BY DEF Rings
<1>2. Ring(ny, py, l, t) /\ Distinct(t) /\ ToSet(t) = ToSet(s) \cup {x}
  <2>1. /\ nx \in [Nodes -> Nodes] /\ pv \in [Nodes -> Nodes] /\ s \in Seq(Entries)
        /\ Ring(nx, pv, l, s) /\ Distinct(s) /\ x \notin ToSet(s)
    BY <1>1
  <2> QED BY <2>1, RingInsert
<1>3. a \in {l} \cup ToSet(s) /\ b \in {l} \cup ToSet(s)
  BY <1>1, LenProperties DEF At, ToSet
<1>4. ny \in [Nodes -> Nodes] /\ py \in [Nodes -> Nodes]
  <2>1. ToSet(sq[l]) \subseteq Entries
    BY <1>1, ListTypes
  <2>2. x \in Nodes /\ a \in Nodes /\ b \in Nodes
    BY <1>3, <2>1 DEF Nodes
  <2> QED BY <1>1, <2>2 DEF NextWith, PrevWith
<1>5. ASSUME NEW m \in Lists, m # l PROVE Ring(ny, py, m, sq[m])
  <2>1. ToSet(sq[l]) \subseteq Entries /\ ToSet(sq[m]) \subseteq Entries
    BY <1>1, ListTypes
  <2>2. \A y \in {m} \cup ToSet(sq[m]) : y # x /\ y # a /\ y # b /\ y \in Nodes
    BY <1>1, <1>3, <1>5, <2>1 DEF Nodes
  <2>3. \A y \in {m} \cup ToSet(sq[m]) : ny[y] = nx[y] /\ py[y] = pv[y]
    BY <1>1, <2>2 DEF NextWith, PrevWith
  <2> HIDE DEF ny, py
  <2> QED BY <1>1, <1>4, <2>3, RingApart
<1> HIDE DEF ny, py
<1>6. sr \in [Lists -> Seq(Entries)] /\ sr[l] = t /\ \A m \in Lists : m # l => sr[m] = sq[m]
  BY <1>1
<1> HIDE DEF sr
<1>7. \A m \in Lists : Ring(ny, py, m, sr[m]) /\ Distinct(sr[m])
  BY <1>1, <1>2, <1>5, <1>6
<1>8. ASSUME NEW k \in Lists, NEW m \in Lists, k # m PROVE ToSet(sr[k]) \cap ToSet(sr[m]) = {}
  <2>1. ASSUME NEW h \in Lists, h # l PROVE ToSet(t) \cap ToSet(sq[h]) = {}
    BY <1>1, <1>2, <2>1
  <2>2. CASE k = l
    BY <1>6, <1>8, <2>1, <2>2
  <2>3. CASE m = l
    BY <1>6, <1>8, <2>1, <2>3
  <2>4. CASE k # l /\ m # l
    BY <1>1, <1>6, <1>8, <2>4
  <2> QED BY <2>2, <2>3, <2>4
<1>9. Rings(ny, py, sr)
  BY <1>4, <1>6, <1>7, <1>8 DEF Rings
<1> QED BY <1>9 DEF ny, py, sr

LEMMA SetWithout ==
  ASSUME NEW s \in Seq(Entries), NEW t \in Seq(Entries), NEW p \in 1 .. Len(s),
         TakenOut(s, p, t), Distinct(s)
  PROVE  ToSet(t) = ToSet(s) \ {s[p]} /\ Distinct(t)
<1>1. Len(t) = Len(s) - 1 /\ \A i \in 1 .. Len(s) - 1 : t[i] = IF i < p THEN s[i] ELSE s[i + 1]
  BY DEF TakenOut
<1> QED BY <1>1, ListDrop

LEMMA RingsRemove ==
  ASSUME Lists \cap Entries = {}, NEW nx, NEW pv, NEW sq, Rings(nx, pv, sq),
         NEW l \in Lists, NEW s, s = sq[l], NEW p \in 1 .. Len(s), NEW x, x = s[p],
         NEW t \in Seq(Entries), TakenOut(s, p, t)
  PROVE  Rings(NextWithout(nx, pv, x), PrevWithout(nx, pv, x), [sq EXCEPT ![l] = t])
<1> DEFINE a == nx[x]
           b == pv[x]
           ny == NextWithout(nx, pv, x)
           py == PrevWithout(nx, pv, x)
           sr == [sq EXCEPT ![l] = t]
<1>1. /\ nx \in [Nodes -> Nodes] /\ pv \in [Nodes -> Nodes] /\ sq \in [Lists -> Seq(Entries)]
      /\ \A m \in Lists : sq[m] \in Seq(Entries) /\ Ring(nx, pv, m, sq[m]) /\ Distinct(sq[m])
      /\ \A k, m \in Lists : k # m => ToSet(sq[k]) \cap ToSet(sq[m]) = {}
  BY DEF Rings
<1>2. s \in Seq(Entries) /\ Ring(nx, pv, l, s) /\ Distinct(s) /\ Len(s) \in Nat /\ DOMAIN s = 1 .. Len(s)
  BY <1>1, LenProperties
<1>3. Ring(ny, py, l, t) /\ a = At(l, s, p + 1) /\ b = At(l, s, p - 1)
  <2>1. Ring(NextWithout(nx, pv, x), PrevWithout(nx, pv, x), l, t)
    <3> HIDE DEF ny, py, a, b
    <3> QED BY <1>1, <1>2, RingRemove
  <2>2. nx[x] = At(l, s, p + 1) /\ pv[x] = At(l, s, p - 1)
    <3>1. p - 1 \in 0 .. Len(s) /\ (p - 1) + 1 = p /\ p \in 0 .. Len(s) /\ At(l, s, p) = x
      BY <1>2 DEF At
    <3>2. pv[At(l, s, (p - 1) + 1)] = At(l, s, p - 1) /\ nx[At(l, s, p)] = At(l, s, p + 1)
      BY <1>2, <3>1 DEF Ring
    <3> QED BY <3>1, <3>2
  <2> QED BY <2>1, <2>2
<1>4. Distinct(t) /\ ToSet(t) = ToSet(s) \ {x}
  BY <1>2, SetWithout
<1> HIDE DEF a, b
<1>5. /\ a \in {l} \cup ToSet(s) /\ b \in {l} \cup ToSet(s)
      /\ ToSet(s) \subseteq Entries /\ x \in Entries
      /\ a \in Nodes /\ b \in Nodes
  <2>1. ToSet(s) \subseteq Entries /\ x \in Entries
    BY <1>2, ListTypes, ElementOfSeq
  <2>2. a \in {l} \cup ToSet(s) /\ b \in {l} \cup ToSet(s)
    BY <1>2, <1>3 DEF At, ToSet
  <2> QED BY <2>1, <2>2 DEF Nodes
<1>6. ny \in [Nodes -> Nodes] /\ py \in [Nodes -> Nodes]
  BY <1>1, <1>5 DEF NextWithout, PrevWithout, a, b
<1>7. ASSUME NEW m \in Lists, m # l PROVE Ring(ny, py, m, sq[m])
  <2>1. ToSet(sq[m]) \subseteq Entries
    BY <1>1, ListTypes
  <2>2. \A y \in {m} \cup ToSet(sq[m]) : y # a /\ y # b /\ y \in Nodes
    BY <1>1, <1>5, <1>7, <2>1 DEF Nodes
  <2>3. \A y \in {m} \cup ToSet(sq[m]) : ny[y] = nx[y] /\ py[y] = pv[y]
    BY <1>1, <2>2 DEF NextWithout, PrevWithout, a, b
  <2> HIDE DEF ny, py
  <2> QED BY <1>1, <1>6, <2>3, RingApart
<1> HIDE DEF ny, py
<1>8. sr \in [Lists -> Seq(Entries)] /\ sr[l] = t /\ \A m \in Lists : m # l => sr[m] = sq[m]
  BY <1>1
<1> HIDE DEF sr
<1>9. \A m \in Lists : Ring(ny, py, m, sr[m]) /\ Distinct(sr[m])
  BY <1>1, <1>3, <1>4, <1>7, <1>8
<1>10. ASSUME NEW k \in Lists, NEW m \in Lists, k # m PROVE ToSet(sr[k]) \cap ToSet(sr[m]) = {}
  <2>1. ASSUME NEW h \in Lists, h # l PROVE ToSet(t) \cap ToSet(sq[h]) = {}
    BY <1>1, <1>4, <2>1
  <2>2. CASE k = l
    BY <1>8, <1>10, <2>1, <2>2
  <2>3. CASE m = l
    BY <1>8, <1>10, <2>1, <2>3
  <2>4. CASE k # l /\ m # l
    BY <1>1, <1>8, <1>10, <2>4
  <2> QED BY <2>2, <2>3, <2>4
<1>11. Rings(ny, py, sr)
  BY <1>6, <1>8, <1>9, <1>10 DEF Rings
<1> QED BY <1>4, <1>5, <1>11 DEF ny, py, sr, a, b

(* An entry in no list may be pointed at itself.                           *)
LEMMA RingsSpare ==
  ASSUME Lists \cap Entries = {}, NEW nx, NEW pv, NEW sq, Rings(nx, pv, sq),
         NEW x \in Entries, \A m \in Lists : x \notin ToSet(sq[m])
  PROVE  Rings([nx EXCEPT ![x] = x], [pv EXCEPT ![x] = x], sq)
<1> DEFINE ny == [nx EXCEPT ![x] = x]
           py == [pv EXCEPT ![x] = x]
<1>1. /\ nx \in [Nodes -> Nodes] /\ pv \in [Nodes -> Nodes] /\ sq \in [Lists -> Seq(Entries)]
      /\ \A m \in Lists : sq[m] \in Seq(Entries) /\ Ring(nx, pv, m, sq[m]) /\ Distinct(sq[m])
  BY DEF Rings
<1>2. ny \in [Nodes -> Nodes] /\ py \in [Nodes -> Nodes]
  BY <1>1 DEF Nodes
<1>3. ASSUME NEW m \in Lists PROVE Ring(ny, py, m, sq[m])
  <2>1. ToSet(sq[m]) \subseteq Entries
    BY <1>1, ListTypes
  <2>2. \A y \in {m} \cup ToSet(sq[m]) : y # x /\ y \in Nodes
    BY <2>1 DEF Nodes
  <2>3. \A y \in {m} \cup ToSet(sq[m]) : ny[y] = nx[y] /\ py[y] = pv[y]
    BY <1>1, <2>2
  <2> HIDE DEF ny, py
  <2> QED BY <1>1, <1>2, <2>3, RingApart
<1> HIDE DEF ny, py
<1>4. Rings(ny, py, sq)
  BY <1>2, <1>3 DEF Rings
<1> QED BY <1>4 DEF ny, py

LEMMA ShownNow ==
  ASSUME Lists \cap Entries = {}, IsFiniteSet(Entries), NEW sq, NEW r,
         Rings(next, prev, sq), LoopAt(walked, pos, after, sq, r)
  PROVE  Shown = sq /\ List!Rest = r
BY Walks, RingsShow

LEMMA ShownThen ==
  ASSUME Lists \cap Entries = {}, IsFiniteSet(Entries), NEW sq, NEW r,
         Rings(next', prev', sq), LoopAt(walked', pos', after', sq, r)
  PROVE  Shown' = sq /\ List!Rest' = r
BY Walks, RingsShow

LEMMA LinkedIn ==
  ASSUME NEW sq \in [Lists -> Seq(Entries)], Shown = sq
  PROVE  \A l \in Lists : List!In(l) = ToSet(sq[l])
<1> SUFFICES ASSUME NEW l \in Lists PROVE List!In(l) = ToSet(sq[l])
  OBVIOUS
<1>1. List!Upto(l, next[l]) = sq[l]
  BY DEF Shown
<1>2. ToSet(sq[l]) \subseteq Entries
  BY ListTypes
<1> QED BY <1>1, <1>2 DEF List!In, ToSet

(* A loop is not disturbed by what happens to other lists.                 *)
LEMMA LoopKept ==
  ASSUME NEW sq \in [Lists -> Seq(Entries)], NEW w, NEW p, NEW a, NEW r,
         LoopAt(w, p, a, sq, r), NEW l \in Lists, l \notin w, NEW t
  PROVE  LoopAt(w, p, a, [sq EXCEPT ![l] = t], r)
<1>1. \A m \in Lists : m # l => [sq EXCEPT ![l] = t][m] = sq[m]
  OBVIOUS
<1> QED BY <1>1, Zenon DEF LoopAt

LEMMA ListAdds ==
  ASSUME Lists \cap Entries = {}, IsFiniteSet(Entries), NEW sq, NEW r,
         Rings(next, prev, sq), LoopAt(walked, pos, after, sq, r),
         NEW x \in Entries, NEW l \in Lists, List!Add(x, l)
  PROVE  /\ \E t : Rings(next', prev', t) /\ LoopAt(walked', pos', after', t, r)
         /\ List!Seqs!Add(x, l)
<1>1. /\ ~List!IsLinked(x) /\ l \notin walked /\ UNCHANGED <<walked, pos, after>>
      /\ List!ListAdd(x, l) \/ List!ListAddTail(x, l)
  BY DEF List!Add
<1>2. Shown = sq /\ List!Rest = r /\ sq \in [Lists -> Seq(Entries)]
  BY ShownNow DEF Rings
<1>3. \A m \in Lists : x \notin ToSet(sq[m])
  BY <1>1, <1>2, LinkedIn DEF List!IsLinked
<1>4. PICK s \in Seq(Entries) : s = sq[l]
  BY <1>2
<1>5. Len(s) \in Nat /\ Ring(next, prev, l, s)
  BY <1>4, LenProperties DEF Rings
<1>6. ASSUME NEW j \in 0 .. Len(s), NEW t \in Seq(Entries), PutAfter(s, j, x, t),
             t = <<x>> \o s \/ t = Append(s, x),
             List!ListAddBetween(x, At(l, s, j), At(l, s, j + 1))
      PROVE  /\ \E u : Rings(next', prev', u) /\ LoopAt(walked', pos', after', u, r)
             /\ List!Seqs!Add(x, l)
  <2> DEFINE u == [sq EXCEPT ![l] = t]
  <2>1. /\ next' = NextWith(next, At(l, s, j), x, At(l, s, j + 1))
        /\ prev' = PrevWith(prev, At(l, s, j), x, At(l, s, j + 1))
    BY <1>6 DEF List!ListAddBetween, NextWith, PrevWith
  <2>2. Rings(next', prev', u)
    BY <1>3, <1>4, <1>6, <2>1, RingsInsert
  <2>3. LoopAt(walked', pos', after', u, r)
    BY <1>1, <1>2, LoopKept
  <2>4. Shown' = u /\ List!Rest' = r
    <3> HIDE DEF u
    <3> QED BY <2>2, <2>3, ShownThen
  <2>5. \A m \in Lists : \A i \in DOMAIN sq[m] : sq[m][i] # x
    BY <1>3 DEF ToSet
  <2>6. List!Seqs!Add(x, l)
    <3>1. ~List!Seqs!Linked(x)
      BY <1>2, <2>5 DEF List!Seqs!Linked, List!Seqs!In, Shown
    <3>2. Shown' = [Shown EXCEPT ![l] = <<x>> \o @] \/ Shown' = [Shown EXCEPT ![l] = Append(@, x)]
      BY <1>2, <1>4, <1>6, <2>4
    <3> QED BY <1>1, <1>2, <2>4, <3>1, <3>2 DEF List!Seqs!Add, Shown
  <2> QED BY <2>2, <2>3, <2>6
<1>7. CASE List!ListAdd(x, l)
  <2> DEFINE t == <<x>> \o s
  <2>1. At(l, s, 0) = l /\ At(l, s, 1) = next[l] /\ 0 \in 0 .. Len(s)
    <3>1. Len(s) \in Nat
      BY <1>5, LenProperties
    <3>2. 0 \in 0 .. Len(s) /\ At(l, s, 0) = l
      BY <3>1 DEF At
    <3>3. next[At(l, s, 0)] = At(l, s, 0 + 1)
      BY <1>5, <3>2 DEF Ring
    <3> QED BY <3>2, <3>3
  <2>2. t \in Seq(Entries) /\ PutAfter(s, 0, x, t)
    <3>1. <<x>> \in Seq(Entries) /\ Len(<<x>>) = 1 /\ <<x>>[1] = x
      OBVIOUS
    <3>2. /\ t \in Seq(Entries) /\ Len(t) = 1 + Len(s)
          /\ \A i \in 1 .. 1 + Len(s) : t[i] = IF i <= 1 THEN <<x>>[i] ELSE s[i - 1]
      BY <3>1, ConcatProperties
    <3> HIDE DEF t
    <3> QED BY <1>5, <3>1, <3>2 DEF PutAfter
  <2>3. List!ListAddBetween(x, At(l, s, 0), At(l, s, 0 + 1))
    BY <1>7, <2>1 DEF List!ListAdd
  <2> QED BY <1>6, <2>1, <2>2, <2>3
<1>8. CASE List!ListAddTail(x, l)
  <2> DEFINE t == Append(s, x)
             z == Len(s)
  <2>1. At(l, s, z + 1) = l /\ At(l, s, z) = prev[l] /\ z \in 0 .. Len(s)
    <3>1. At(l, s, z + 1) = l /\ z \in 0 .. Len(s)
      BY <1>5 DEF At
    <3> QED BY <1>5, <3>1 DEF Ring
  <2>2. t \in Seq(Entries) /\ PutAfter(s, z, x, t)
    <3>1. /\ t \in Seq(Entries) /\ Len(t) = Len(s) + 1 /\ t[Len(s) + 1] = x
          /\ \A i \in 1 .. Len(s) : t[i] = s[i]
      BY AppendProperties
    <3> HIDE DEF t
    <3> QED BY <1>5, <3>1 DEF PutAfter
  <2>3. List!ListAddBetween(x, At(l, s, z), At(l, s, z + 1))
    BY <1>8, <2>1 DEF List!ListAddTail
  <2> QED BY <1>6, <2>1, <2>2, <2>3
<1> QED BY <1>1, <1>7, <1>8

(* What follows a place that is left when the place before it goes.        *)
LEMMA RestKept ==
  ASSUME NEW s \in Seq(Entries), NEW t \in Seq(Entries), NEW p \in 1 .. Len(s),
         TakenOut(s, p, t)
  PROVE  SubSeq(t, p, Len(t)) = SubSeq(s, p + 1, Len(s))
<1> DEFINE u == SubSeq(t, p, Len(t))
           v == SubSeq(s, p + 1, Len(s))
           z == Len(s)
<1>1. /\ z \in Nat /\ p \in 1 .. z /\ Len(t) = z - 1
      /\ \A i \in 1 .. z - 1 : t[i] = IF i < p THEN s[i] ELSE s[i + 1]
      /\ \A i \in 1 .. z : s[i] \in Entries
      /\ \A i \in 1 .. z - 1 : t[i] \in Entries
  BY LenProperties, ElementOfSeq DEF TakenOut
<1>2. /\ u \in Seq(Entries) /\ Len(u) = z - p
      /\ \A i \in 1 .. z - p : u[i] = t[p + i - 1]
  <2>1. \A i \in p .. Len(t) : t[i] \in Entries
    BY <1>1
  <2>2. /\ u \in Seq(Entries) /\ Len(u) = IF p <= Len(t) THEN Len(t) - p + 1 ELSE 0
        /\ \A i \in 1 .. Len(t) - p + 1 : u[i] = t[p + i - 1]
    BY <1>1, <2>1, SubSeqProperties
  <2> HIDE DEF u
  <2> QED BY <1>1, <2>2
<1>3. /\ v \in Seq(Entries) /\ Len(v) = z - p
      /\ \A i \in 1 .. z - p : v[i] = s[p + i]
  <2>1. \A i \in p + 1 .. z : s[i] \in Entries
    BY <1>1
  <2>2. /\ v \in Seq(Entries) /\ Len(v) = IF p + 1 <= z THEN z - (p + 1) + 1 ELSE 0
        /\ \A i \in 1 .. z - (p + 1) + 1 : v[i] = s[(p + 1) + i - 1]
    BY <1>1, <2>1, SubSeqProperties
  <2> HIDE DEF v
  <2>3. v \in Seq(Entries) /\ Len(v) = z - p
    BY <1>1, <2>2
  <2>4. ASSUME NEW i \in 1 .. z - p PROVE v[i] = s[p + i]
    <3>1. i \in 1 .. z - (p + 1) + 1 /\ (p + 1) + i - 1 = p + i
      BY <1>1
    <3>2. v[i] = s[(p + 1) + i - 1]
      BY <2>2, <3>1
    <3> QED BY <3>1, <3>2
  <2> QED BY <2>3, <2>4
<1> HIDE DEF u, v
<1>4. ASSUME NEW i \in 1 .. z - p PROVE u[i] = v[i]
  <2>1. p + i - 1 \in 1 .. z - 1 /\ ~(p + i - 1 < p) /\ (p + i - 1) + 1 = p + i
    BY <1>1
  <2>2. t[p + i - 1] = s[p + i]
    BY <1>1, <2>1
  <2> QED BY <1>2, <1>3, <2>2
<1>5. u = v
  BY <1>2, <1>3, <1>4, SeqEqual
<1> QED BY <1>5 DEF u, v

LEMMA RemovedAt ==
  ASSUME NEW S, NEW s \in Seq(S), NEW p \in 1 .. Len(s)
  PROVE  RemoveAt(s, p) \in Seq(S) /\ TakenOut(s, p, RemoveAt(s, p))
<1>1. Len(s) \in Nat
  BY LenProperties
<1>2. /\ RemoveAt(s, p) \in Seq(S)
      /\ Len(RemoveAt(s, p)) = Len(s) - 1
      /\ \A j \in 1 .. Len(s) - 1 : RemoveAt(s, p)[j] = IF j < p THEN s[j] ELSE s[j + 1]
  BY <1>1, ListSplice
<1> QED BY <1>2 DEF TakenOut

LEMMA HeadFirst ==
  ASSUME NEW S, NEW e \in S, NEW s \in Seq(S)
  PROVE  <<e>> \o s # << >> /\ Head(<<e>> \o s) = e /\ Tail(<<e>> \o s) = s
<1> DEFINE t == <<e>> \o s
<1>1. <<e>> \in Seq(S) /\ Len(<<e>>) = 1 /\ <<e>>[1] = e /\ Len(s) \in Nat
  BY LenProperties
<1>2. /\ t \in Seq(S) /\ Len(t) = 1 + Len(s)
      /\ \A i \in 1 .. 1 + Len(s) : t[i] = IF i <= 1 THEN <<e>>[i] ELSE s[i - 1]
  BY <1>1, ConcatProperties
<1> HIDE DEF t
<1>3. t # << >>
  BY <1>1, <1>2, EmptySeq
<1>4. Head(t) = e
  BY <1>1, <1>2, <1>3, ListEmpty
<1>5. /\ Tail(t) \in Seq(S) /\ Len(Tail(t)) = Len(t) - 1
      /\ \A i \in 1 .. Len(Tail(t)) : Tail(t)[i] = t[i + 1]
  BY <1>2, <1>3, HeadTailProperties
<1>6. \A i \in 1 .. Len(Tail(t)) : Tail(t)[i] = s[i]
  BY <1>1, <1>2, <1>5
<1>7. Tail(t) = s
  BY <1>1, <1>2, <1>5, <1>6, SeqEqual
<1> QED BY <1>3, <1>4, <1>7 DEF t

LEMMA ListDeletes ==
  ASSUME Lists \cap Entries = {}, IsFiniteSet(Entries), NEW sq, NEW r,
         Rings(next, prev, sq), LoopAt(walked, pos, after, sq, r),
         NEW x \in Entries, NEW l \in Lists, List!Delete(x, l)
  PROVE  /\ \E t : Rings(next', prev', t) /\ LoopAt(walked', pos', after', t, r)
         /\ List!Seqs!Delete(x, l)
<1>1. /\ x \in List!In(l) /\ (l \in walked => x = pos) /\ UNCHANGED <<walked, pos, after>>
      /\ List!ListDel(x) \/ List!ListDelInit(x)
  BY DEF List!Delete
<1>2. Shown = sq /\ List!Rest = r /\ sq \in [Lists -> Seq(Entries)]
  BY ShownNow DEF Rings
<1>3. PICK s \in Seq(Entries) : s = sq[l]
  BY <1>2
<1>4. Len(s) \in Nat /\ DOMAIN s = 1 .. Len(s) /\ Distinct(s)
  BY <1>3, LenProperties DEF Rings
<1>5. PICK p \in 1 .. Len(s) : s[p] = x
  BY <1>1, <1>2, <1>3, <1>4, LinkedIn DEF ToSet
<1> DEFINE t == RemoveAt(s, p)
           u == [sq EXCEPT ![l] = t]
<1>6. t \in Seq(Entries) /\ TakenOut(s, p, t) /\ t = SubSeq(s, 1, p - 1) \o SubSeq(s, p + 1, Len(s))
  <2>1. t \in Seq(Entries) /\ TakenOut(s, p, t)
    BY RemovedAt
  <2>2. t = SubSeq(s, 1, p - 1) \o SubSeq(s, p + 1, Len(s))
    BY DEF RemoveAt
  <2> QED BY <2>1, <2>2
<1> HIDE DEF t
<1>7. /\ Rings(NextWithout(next, prev, x), PrevWithout(next, prev, x), u)
      /\ ToSet(t) = ToSet(s) \ {x}
  <2>1. x = s[p]
    BY <1>5
  <2>2. Rings(NextWithout(next, prev, x), PrevWithout(next, prev, x), u)
    BY <1>3, <1>6, <2>1, RingsRemove
  <2>3. ToSet(t) = ToSet(s) \ {x}
    BY <1>4, <1>6, <2>1, SetWithout
  <2> QED BY <2>2, <2>3
<1>8. Rings(next', prev', u)
  <2>1. List!Deleted(x).n = NextWithout(next, prev, x) /\ List!Deleted(x).p = PrevWithout(next, prev, x)
    BY DEF List!Deleted, NextWithout, PrevWithout
  <2>2. CASE List!ListDel(x)
    BY <1>7, <2>1, <2>2 DEF List!ListDel
  <2>3. CASE List!ListDelInit(x)
    <3>1. ASSUME NEW m \in Lists PROVE x \notin ToSet(u[m])
      <4>1. CASE m = l
        BY <1>2, <1>7, <4>1
      <4>2. CASE m # l
        <5>1. u[m] = sq[m] /\ x \in ToSet(sq[l]) /\ ToSet(sq[l]) \cap ToSet(sq[m]) = {}
          BY <1>1, <1>2, <4>2, LinkedIn DEF Rings
        <5> QED BY <5>1
      <4> QED BY <4>1, <4>2
    <3>2. /\ next' = [NextWithout(next, prev, x) EXCEPT ![x] = x]
          /\ prev' = [PrevWithout(next, prev, x) EXCEPT ![x] = x]
      BY <2>1, <2>3 DEF List!ListDelInit
    <3> HIDE DEF u
    <3> QED BY <1>7, <3>1, <3>2, RingsSpare
  <2> QED BY <1>1, <2>2, <2>3
<1>9. LoopAt(walked', pos', after', u, r)
  <2>1. CASE l \notin walked
    BY <1>1, <1>2, <2>1, LoopKept
  <2>2. CASE l \in walked
    <3>1. x = pos /\ pos \notin Lists
      BY <1>1, <2>2
    <3>2. PICK m \in Lists : \E j \in 1 .. Len(sq[m]) + 1 :
            /\ walked = {m} /\ after = At(m, sq[m], j)
            /\ r = <<pos>> \o SubSeq(sq[m], j, Len(sq[m]))
            /\ pos \in ToSet(sq[m]) => j > 1 /\ sq[m][j - 1] = pos
      BY <2>2, <3>1 DEF LoopAt
    <3>21. PICK j \in 1 .. Len(sq[m]) + 1 :
            /\ walked = {m} /\ after = At(m, sq[m], j)
            /\ r = <<pos>> \o SubSeq(sq[m], j, Len(sq[m]))
            /\ pos \in ToSet(sq[m]) => j > 1 /\ sq[m][j - 1] = pos
      BY <3>2
    <3>3. m = l /\ j \in 1 .. Len(s) + 1 /\ x \in ToSet(s)
      BY <1>3, <1>4, <1>5, <2>2, <3>2 DEF ToSet
    <3>4. j > 1 /\ s[j - 1] = s[p]
      BY <1>3, <1>5, <3>1, <3>21, <3>3
    <3>5. j - 1 \in 1 .. Len(s)
      BY <1>4, <3>3, <3>4
    <3>6. j - 1 = p
      BY <1>4, <3>4, <3>5 DEF Distinct
    <3>7. j = p + 1 /\ p \in 1 .. Len(t) + 1
      BY <1>4, <1>6, <3>3, <3>6 DEF TakenOut
    <3>8. r = <<pos>> \o SubSeq(t, p, Len(t))
      <4>1. SubSeq(t, p, Len(t)) = SubSeq(s, p + 1, Len(s))
        BY <1>6, RestKept
      <4> QED BY <1>3, <3>21, <3>3, <3>7, <4>1
    <3>9. after = At(l, t, p)
      <4>1. after = At(l, s, p + 1)
        BY <1>3, <3>21, <3>3, <3>7
      <4>2. CASE p + 1 \in 1 .. Len(s)
        <5>1. p \in 1 .. Len(t) /\ t[p] = s[p + 1]
          BY <1>4, <1>6, <4>2 DEF TakenOut
        <5> QED BY <4>1, <4>2, <5>1 DEF At
      <4>3. CASE p + 1 \notin 1 .. Len(s)
        <5>1. p \notin 1 .. Len(t)
          BY <1>4, <1>6, <4>3 DEF TakenOut
        <5> QED BY <4>1, <4>3, <5>1 DEF At
      <4> QED BY <4>2, <4>3
    <3>10. pos \notin ToSet(t) /\ pos \in Entries
      BY <1>7, <3>1
    <3>11. u[l] = t
      BY <1>2
    <3>12. LoopAt(walked, pos, after, u, r)
      <4> HIDE DEF u
      <4> QED BY <3>21, <3>3, <3>7, <3>8, <3>9, <3>10, <3>11 DEF LoopAt
    <3> QED BY <1>1, <3>12
  <2> QED BY <2>1, <2>2
<1>10. Shown' = u /\ List!Rest' = r
  <2> HIDE DEF u
  <2> QED BY <1>8, <1>9, ShownThen
<1>11. List!Seqs!Delete(x, l)
  <2>1. l \in walked => r # << >> /\ x = Head(r)
    <3> SUFFICES ASSUME l \in walked PROVE r # << >> /\ x = Head(r)
      OBVIOUS
    <3>1. x = pos /\ pos \notin Lists
      BY <1>1
    <3>2. PICK m \in Lists : \E j \in 1 .. Len(sq[m]) + 1 :
            r = <<pos>> \o SubSeq(sq[m], j, Len(sq[m]))
      BY <3>1 DEF LoopAt
    <3> PICK j \in 1 .. Len(sq[m]) + 1 : r = <<pos>> \o SubSeq(sq[m], j, Len(sq[m]))
      BY <3>2
    <3>3. SubSeq(sq[m], j, Len(sq[m])) \in Seq(Entries)
      <4>1. sq[m] \in Seq(Entries)
        BY <1>2
      <4>2. Len(sq[m]) \in Nat /\ j \in Int /\ \A i \in j .. Len(sq[m]) : sq[m][i] \in Entries
        BY <4>1, LenProperties, ElementOfSeq
      <4> QED BY <4>2, SubSeqProperties
    <3> QED BY <3>1, <3>3, HeadFirst
  <2>2. /\ p \in DOMAIN sq[l] /\ sq[l][p] = x
        /\ Shown' = [sq EXCEPT ![l] = SubSeq(@, 1, p - 1) \o SubSeq(@, p + 1, Len(@))]
    BY <1>2, <1>3, <1>4, <1>5, <1>6, <1>10
  <2> QED BY <1>1, <1>2, <1>10, <2>1, <2>2 DEF List!Seqs!Delete, List!Seqs!Without, Shown
<1> QED BY <1>8, <1>9, <1>11

LEMMA ListBegins ==
  ASSUME Lists \cap Entries = {}, IsFiniteSet(Entries), NEW sq, NEW r,
         Rings(next, prev, sq), LoopAt(walked, pos, after, sq, r),
         NEW l \in Lists, List!Begin(l)
  PROVE  /\ \E t : Rings(next', prev', sq) /\ LoopAt(walked', pos', after', sq, t)
         /\ List!Seqs!Begin(l)
<1>1. /\ walked = {} /\ walked' = {l} /\ pos' = next[l] /\ after' = next[next[l]]
      /\ UNCHANGED <<next, prev>>
  BY DEF List!Begin
<1>2. Shown = sq /\ List!Rest = r /\ sq \in [Lists -> Seq(Entries)]
  BY ShownNow DEF Rings
<1>3. PICK s \in Seq(Entries) : s = sq[l]
  BY <1>2
<1>4. Len(s) \in Nat /\ Ring(next, prev, l, s) /\ \A i \in 1 .. Len(s) : s[i] \in Entries
  BY <1>3, LenProperties, ElementOfSeq DEF Rings
<1>5. next[l] = At(l, s, 1)
  BY <1>4 DEF Ring, At
<1>6. LoopAt({l}, next[l], next[next[l]], sq, s)
  <2>1. CASE Len(s) = 0
    <3>1. s = << >> /\ next[l] = l
      BY <1>4, <1>5, <2>1, EmptySeq DEF At
    <3> QED BY <3>1 DEF LoopAt
  <2>2. CASE Len(s) # 0
    <3>1. next[l] = s[1] /\ s[1] \in Entries /\ 1 \in 0 .. Len(s) /\ 2 \in 1 .. Len(s) + 1 /\ 1 \in 1 .. Len(s)
      BY <1>4, <1>5, <2>2 DEF At
    <3>2. next[next[l]] = At(l, s, 2)
      BY <1>4, <1>5, <3>1 DEF Ring
    <3>3. s = <<s[1]>> \o SubSeq(s, 2, Len(s))
      <4>1. Len(s) \in 1 .. Len(s)
        BY <1>4, <2>2
      <4>2. SubSeq(s, 1, Len(s)) = <<s[1]>> \o SubSeq(s, 1 + 1, Len(s))
        BY <3>1, <4>1, SubSeqRecursiveFirst
      <4> QED BY <4>2, SubSeqFull
    <3>4. s[2 - 1] = s[1] /\ 2 > 1
      OBVIOUS
    <3> QED BY <1>3, <3>1, <3>2, <3>3, <3>4 DEF LoopAt
  <2> QED BY <2>1, <2>2
<1>7. Rings(next', prev', sq) /\ LoopAt(walked', pos', after', sq, s)
  BY <1>1, <1>6
<1>8. Shown' = sq /\ List!Rest' = s
  BY <1>7, ShownThen
<1>9. List!Seqs!Begin(l)
  BY <1>1, <1>2, <1>3, <1>8 DEF List!Seqs!Begin, Shown
<1> QED BY <1>7, <1>9

LEMMA ListSteps ==
  ASSUME Lists \cap Entries = {}, IsFiniteSet(Entries), NEW sq, NEW r,
         Rings(next, prev, sq), LoopAt(walked, pos, after, sq, r), List!Step
  PROVE  /\ \E t : Rings(next', prev', sq) /\ LoopAt(walked', pos', after', sq, t)
         /\ List!Seqs!Step
<1>1. /\ walked # {} /\ pos \notin walked /\ pos' = after /\ after' = next[after]
      /\ UNCHANGED <<next, prev, walked>>
  BY DEF List!Step, List!After
<1>2. Shown = sq /\ List!Rest = r /\ sq \in [Lists -> Seq(Entries)]
  BY ShownNow DEF Rings
<1>3. PICK l \in Lists : \E j \in 1 .. Len(sq[l]) + 1 :
        /\ walked = {l} /\ pos \in Entries /\ after = At(l, sq[l], j)
        /\ r = <<pos>> \o SubSeq(sq[l], j, Len(sq[l]))
  BY <1>1 DEF LoopAt
<1>4. PICK s \in Seq(Entries) : s = sq[l]
  BY <1>2
<1>5. PICK j \in 1 .. Len(s) + 1 :
        /\ walked = {l} /\ pos \in Entries /\ after = At(l, s, j)
        /\ r = <<pos>> \o SubSeq(s, j, Len(s))
  BY <1>3, <1>4
<1>6. Len(s) \in Nat /\ Ring(next, prev, l, s) /\ \A i \in 1 .. Len(s) : s[i] \in Entries
  BY <1>4, LenProperties, ElementOfSeq DEF Rings
<1> DEFINE t == SubSeq(s, j, Len(s))
<1>7. t \in Seq(Entries)
  <2>1. j \in Int /\ Len(s) \in Int /\ \A i \in j .. Len(s) : s[i] \in Entries
    BY <1>6
  <2> QED BY <2>1, SubSeqProperties
<1> HIDE DEF t
<1>8. r # << >> /\ Tail(r) = t
  <2>1. r = <<pos>> \o t
    BY <1>5 DEF t
  <2> QED BY <1>5, <1>7, <2>1, HeadFirst
<1>9. LoopAt({l}, after, next[after], sq, t)
  <2>1. CASE j = Len(s) + 1
    <3>1. after = l
      BY <1>5, <1>6, <2>1 DEF At
    <3>2. t = << >>
      BY <1>6, <2>1, SubSeqEmpty DEF t
    <3> QED BY <3>1, <3>2 DEF LoopAt
  <2>2. CASE j # Len(s) + 1
    <3>1. j \in 1 .. Len(s) /\ j \in 0 .. Len(s) /\ j + 1 \in 1 .. Len(s) + 1 /\ j + 1 > 1 /\ (j + 1) - 1 = j
      BY <1>6, <2>2
    <3>2. after = s[j] /\ after \in Entries
      BY <1>5, <1>6, <3>1 DEF At
    <3>3. next[after] = At(l, s, j + 1)
      BY <1>5, <1>6, <3>1 DEF Ring
    <3>4. t = <<s[j]>> \o SubSeq(s, j + 1, Len(s))
      <4>1. Len(s) \in j .. Len(s)
        BY <1>6, <3>1
      <4> QED BY <3>1, <4>1, SubSeqRecursiveFirst DEF t
    <3> QED BY <1>4, <3>1, <3>2, <3>3, <3>4 DEF LoopAt
  <2> QED BY <2>1, <2>2
<1>10. Rings(next', prev', sq) /\ LoopAt(walked', pos', after', sq, t)
  BY <1>1, <1>5, <1>9
<1>11. Shown' = sq /\ List!Rest' = t
  BY <1>10, ShownThen
<1>12. List!Seqs!Step
  BY <1>1, <1>2, <1>8, <1>11 DEF List!Seqs!Step, Shown
<1> QED BY <1>10, <1>12

LEMMA ListFinishes ==
  ASSUME Lists \cap Entries = {}, IsFiniteSet(Entries), NEW sq, NEW r,
         Rings(next, prev, sq), LoopAt(walked, pos, after, sq, r), List!Finish
  PROVE  /\ \E t : Rings(next', prev', sq) /\ LoopAt(walked', pos', after', sq, t)
         /\ List!Seqs!Finish
<1>1. walked # {} /\ pos \in walked /\ walked' = {} /\ UNCHANGED <<next, prev, pos, after>>
  BY DEF List!Finish
<1>2. Shown = sq /\ List!Rest = r
  BY ShownNow
<1>3. r = << >>
  BY <1>1 DEF LoopAt
<1>4. Rings(next', prev', sq) /\ LoopAt(walked', pos', after', sq, r)
  BY <1>1, <1>3 DEF LoopAt
<1>5. Shown' = sq /\ List!Rest' = r
  BY <1>4, ShownThen
<1>6. List!Seqs!Finish
  BY <1>1, <1>2, <1>3, <1>5 DEF List!Seqs!Finish, Shown
<1> QED BY <1>4, <1>6

LEMMA ListsStart ==
  ASSUME Lists \cap Entries = {}, IsFiniteSet(Entries), List!Init
  PROVE  /\ \E sq, r : Rings(next, prev, sq) /\ LoopAt(walked, pos, after, sq, r)
         /\ List!Seqs!Init
<1> DEFINE sq == [l \in Lists |-> << >>]
<1>1. next = [x \in Nodes |-> x] /\ prev = next /\ walked = {}
  BY DEF List!Init, Nodes, List!Nodes
<1>2. << >> \in Seq(Entries) /\ Len(<< >>) = 0 /\ ToSet(<< >>) = {} /\ Distinct(<< >>)
  <2>1. << >> \in Seq(Entries) /\ Len(<< >>) = 0
    BY EmptySeq
  <2> QED BY <2>1, ListEmpty
<1>3. sq \in [Lists -> Seq(Entries)] /\ \A l \in Lists : sq[l] = << >>
  BY <1>2
<1>4. ASSUME NEW l \in Lists PROVE Ring(next, prev, l, << >>)
  <2>1. \A i \in {0, 1} : At(l, << >>, i) = l
    BY <1>2 DEF At
  <2>2. next[l] = l /\ prev[l] = l
    BY <1>1 DEF Nodes
  <2> QED BY <1>2, <2>1, <2>2 DEF Ring
<1> HIDE DEF sq
<1>5. Rings(next, prev, sq)
  <2>1. next \in [Nodes -> Nodes] /\ prev \in [Nodes -> Nodes]
    BY <1>1
  <2> QED BY <1>2, <1>3, <1>4, <2>1 DEF Rings
<1>6. LoopAt(walked, pos, after, sq, << >>)
  BY <1>1 DEF LoopAt
<1>7. Shown = sq /\ List!Rest = << >>
  BY <1>5, <1>6, ShownNow
<1>8. List!Seqs!Init
  BY <1>1, <1>7 DEF List!Seqs!Init, Shown, sq
<1> QED BY <1>5, <1>6, <1>8

ListInv == \E sq, r : Rings(next, prev, sq) /\ LoopAt(walked, pos, after, sq, r)

(* The pointer stores of list.h implement sequences, for any lists and     *)
(* entries: adding at either end, deleting, and a loop that is safe        *)
(* against removal, whose body may delete the entry it was given and link  *)
(* it into another list, do what SeqList says (list.h).                    *)
THEOREM ListsAreSequences ==
  ASSUME List!ListAssumption, IsFiniteSet(Entries)
  PROVE  List!Spec => SeqSpec
<1>1. Lists \cap Entries = {}
  BY DEF List!ListAssumption
<1>2. List!Init => ListInv /\ List!Seqs!Init
  BY <1>1, ListsStart DEF ListInv
<1>3. ListInv /\ [List!Next]_(List!vars) =>
        /\ ListInv'
        /\ [List!Seqs!Next]_<<[l \in Lists |-> List!Upto(l, next[l])], walked, List!Rest>>
  <2> SUFFICES ASSUME ListInv, [List!Next]_(List!vars)
               PROVE  /\ ListInv'
                      /\ \/ List!Seqs!Next
                         \/ UNCHANGED <<[l \in Lists |-> List!Upto(l, next[l])], walked, List!Rest>>
    OBVIOUS
  <2>1. PICK sq, r : Rings(next, prev, sq) /\ LoopAt(walked, pos, after, sq, r)
    BY DEF ListInv
  <2>2. CASE UNCHANGED List!vars
    <3>1. UNCHANGED <<next, prev, walked, pos, after>>
      BY <2>2 DEF List!vars
    <3>2. Rings(next', prev', sq) /\ LoopAt(walked', pos', after', sq, r)
      BY <2>1, <3>1
    <3>3. UNCHANGED <<Shown, walked, List!Rest>>
      BY <1>1, <2>1, <3>1, <3>2, ShownNow, ShownThen
    <3> QED BY <3>2, <3>3 DEF ListInv, Shown
  <2>3. ASSUME NEW l \in Lists, List!Begin(l) PROVE ListInv' /\ List!Seqs!Next
    BY <1>1, <2>1, <2>3, ListBegins DEF ListInv, List!Seqs!Next
  <2>4. ASSUME NEW l \in Lists, NEW x \in Entries, List!Add(x, l) PROVE ListInv' /\ List!Seqs!Next
    BY <1>1, <2>1, <2>4, ListAdds DEF ListInv, List!Seqs!Next
  <2>5. ASSUME NEW l \in Lists, NEW x \in Entries, List!Delete(x, l) PROVE ListInv' /\ List!Seqs!Next
    BY <1>1, <2>1, <2>5, ListDeletes DEF ListInv, List!Seqs!Next
  <2>6. CASE List!Step
    BY <1>1, <2>1, <2>6, ListSteps DEF ListInv, List!Seqs!Next
  <2>7. CASE List!Finish
    BY <1>1, <2>1, <2>7, ListFinishes DEF ListInv, List!Seqs!Next
  <2> QED BY <2>2, <2>3, <2>4, <2>5, <2>6, <2>7 DEF List!Next
<1> QED BY <1>2, <1>3, PTL DEF List!Spec, SeqSpec, List!SeqSpec, List!Seqs!Spec
-----------------------------------------------------------------------------
(* The frame buffer console: the last lines stay on the screen.            *)

FbRows == 0 .. Fb!conrows - 1
FbCols == 0 .. Fb!concols - 1
FbCells == {Fb!Cell(x, y) : x \in FbRows, y \in FbCols}

LEMMA FbSizes ==
  ASSUME Fb!FbAssumption
  PROVE  /\ Fb!conrrows \in Nat \ {0} /\ Fb!pagecols \in Nat \ {0}
         /\ Fb!concols \in Nat \ {0} /\ Fb!conrows \in Nat \ {0}
         /\ Fb!conrows = Fb!conrrows * Fb!pagecols
         /\ Fb!conrrows * 9 <= Height
         /\ (Fb!pagecols * Fb!concols) * 6 <= Width
<1>1. Width \in Nat /\ Height \in Nat /\ CONPAGE_COLS \in Nat \ {0} /\ Fb!conrows > 0
  BY DEF Fb!FbAssumption
<1>2. PICK r, c \in Nat : r = Height \div 9 /\ c = Width \div 6
  BY <1>1, DivBounds
<1>3. r * 9 <= Height /\ c * 6 <= Width
  BY <1>1, <1>2, DivBounds
<1>4. PICK p \in Nat : p = c \div CONPAGE_COLS /\ p * CONPAGE_COLS <= c
  BY <1>1, DivBounds
<1>5. r # 0 /\ p # 0 /\ r * p \in Nat \ {0}
  <2>1. r * p > 0
    BY <1>1, <1>2, <1>4 DEF Fb!conrows, Fb!conrrows, Fb!pagecols, Fb!conrcols
  <2>2. r = 0 => r * p = 0
    OBVIOUS
  <2>3. p = 0 => r * p = 0
    OBVIOUS
  <2> QED BY <2>1, <2>2, <2>3
<1>6. (p * CONPAGE_COLS) * 6 <= Width
  <2>1. PICK m \in Nat : m = p * CONPAGE_COLS
    BY <1>1
  <2>2. m * 6 <= c * 6
    BY <1>4, <2>1
  <2> QED BY <1>1, <1>3, <2>1, <2>2
<1> QED BY <1>1, <1>2, <1>3, <1>4, <1>5, <1>6
        DEF Fb!conrows, Fb!conrrows, Fb!pagecols, Fb!conrcols, Fb!concols

(* A line is in one column of the screen, at one height.                   *)
LEMMA FbLineParts ==
  ASSUME Fb!FbAssumption, NEW x \in FbRows
  PROVE  /\ x \div Fb!conrrows \in Nat /\ x \div Fb!conrrows < Fb!pagecols
         /\ x % Fb!conrrows \in 0 .. Fb!conrrows - 1
         /\ x = (x \div Fb!conrrows) * Fb!conrrows + (x % Fb!conrrows)
<1>1. PICK r \in Nat \ {0}, p \in Nat \ {0} :
        r = Fb!conrrows /\ p = Fb!pagecols /\ Fb!conrows = r * p
  BY FbSizes
<1>2. x \in Nat /\ x < r * p
  <2>1. r * p \in Nat
    OBVIOUS
  <2> QED BY <1>1, <2>1 DEF FbRows
<1>3. PICK q \in Nat : q = x \div r /\ q * r <= x
  BY <1>2, DivBounds
<1>4. q < p
  <2>1. q * r < p * r
    BY <1>2, <1>3
  <2> QED BY <2>1, MulLess
<1>5. x % r \in 0 .. r - 1 /\ x = (x \div r) * r + (x % r)
  BY <1>2
<1> QED BY <1>1, <1>3, <1>4, <1>5

LEMMA FbCellsDiffer ==
  ASSUME Fb!FbAssumption,
         NEW x \in FbRows, NEW y \in FbCols, NEW u \in FbRows, NEW v \in FbCols,
         Fb!Cell(x, y) = Fb!Cell(u, v)
  PROVE  x = u /\ y = v
<1>1. PICK r \in Nat \ {0}, c \in Nat \ {0} :
        r = Fb!conrrows /\ c = Fb!concols /\ c = CONPAGE_COLS
  BY FbSizes DEF Fb!concols
<1>2. PICK q \in Nat, s \in Nat : q = x \div r /\ s = u \div r
  BY <1>1, FbLineParts
<1>3. PICK h \in Nat, k \in Nat : h = x % r /\ k = u % r
  <2>1. x % r \in 0 .. r - 1 /\ u % r \in 0 .. r - 1
    BY <1>1, FbLineParts
  <2>2. x % r \in Nat /\ u % r \in Nat
    BY <2>1
  <2> QED BY <2>2
<1>4. y \in Nat /\ v \in Nat /\ y < c /\ v < c
  BY <1>1 DEF FbCols
<1>5. <<h * 9, (y + q * c) * 6>> = <<k * 9, (v + s * c) * 6>>
  BY <1>1, <1>2, <1>3 DEF Fb!Cell
<1>6. h = k /\ y + q * c = v + s * c
  <2>1. PICK a \in Nat, b \in Nat : a = y + q * c /\ b = v + s * c
    BY <1>1, <1>4
  <2>2. h * 9 = k * 9 /\ a * 6 = b * 6
    BY <1>5, <2>1
  <2> QED BY <2>1, <2>2
<1>7. PICK w \in Nat : w = y + q * c
  BY <1>1, <1>4
<1>8. w \div c = q /\ w \div c = s
  BY <1>1, <1>4, <1>6, <1>7, DivUnique
<1>9. q = s /\ y = v
  BY <1>4, <1>6, <1>8
<1> QED BY <1>1, <1>2, <1>3, <1>6, <1>9, FbLineParts

(* What is drawn in a cell stays inside of the frame buffer.               *)
LEMMA FbCellFits ==
  ASSUME Fb!FbAssumption, NEW c \in FbCells
  PROVE  Fb!OnScreen(c)
<1>1. PICK x \in FbRows, y \in FbCols : c = Fb!Cell(x, y)
  BY DEF FbCells
<1>2. PICK r \in Nat \ {0}, p \in Nat \ {0}, w \in Nat \ {0} :
        /\ r = Fb!conrrows /\ p = Fb!pagecols /\ w = Fb!concols /\ w = CONPAGE_COLS
        /\ r * 9 <= Height /\ (p * w) * 6 <= Width
  BY FbSizes DEF Fb!concols
<1>3. PICK q \in Nat, h \in Nat : q = x \div r /\ q < p /\ h = x % r /\ h < r
  <2>1. x \div r \in Nat /\ x \div r < p /\ x % r \in 0 .. r - 1
    BY <1>2, FbLineParts
  <2>2. x % r \in Nat /\ x % r < r
    BY <1>2, <2>1
  <2> QED BY <2>1, <2>2
<1>4. y \in Nat /\ y < w
  BY <1>2 DEF FbCols
<1>5. c = <<h * 9, (y + q * w) * 6>>
  BY <1>1, <1>2, <1>3 DEF Fb!Cell
<1>6. Width \in Nat /\ Height \in Nat
  BY DEF Fb!FbAssumption
<1>7. h * 9 + 9 <= Height
  BY <1>2, <1>3, <1>6
<1>8. (y + q * w) * 6 + 6 <= Width
  <2>1. PICK a \in Nat, b \in Nat : a = q * w /\ b = p * w
    BY <1>2, <1>3
  <2>2. (q + 1) * w <= p * w
    BY <1>2, <1>3, MulMono
  <2>3. (q + 1) * w = q * w + w
    BY <1>2, <1>3
  <2>4. a + w <= b
    BY <2>1, <2>2, <2>3
  <2> QED BY <1>2, <1>4, <1>6, <2>1, <2>4
<1> QED BY <1>5, <1>7, <1>8 DEF Fb!OnScreen

(* The lines cleared ahead: the one entered and at most five behind it.    *)
LEMMA FbAheadOnly ==
  ASSUME Fb!FbAssumption, NEW x \in FbRows, NEW z \in Fb!AheadOf(x)
  PROVE  z \in FbRows /\ x <= z /\ z <= x + 5
<1>1. PICK n \in Nat \ {0} : n = Fb!conrows
  BY FbSizes
<1>2. PICK q \in 0 .. 5 : z = x + q /\ \A s \in 0 .. q : (x + s) % n # 0
  BY <1>1 DEF Fb!AheadOf
<1>3. x \in Nat /\ x < n
  BY <1>1 DEF FbRows
<1>4. x + q < n
  <2> SUFFICES ASSUME ~(x + q < n) PROVE FALSE
    OBVIOUS
  <2>1. PICK s \in 0 .. q : s = n - x
    BY <1>2, <1>3
  <2>2. x + s = n /\ n % n = 0
    BY <1>3, <2>1
  <2>3. (x + s) % n # 0
    BY <1>2
  <2> QED BY <2>2, <2>3
<1> QED BY <1>1, <1>2, <1>3, <1>4 DEF FbRows

(* What fbputc leaves in a cell: the cursor, a line cleared ahead, the     *)
(* character (a return erases the cursor instead), or what was there.      *)
FbCleared(x) == {Fb!Cell(l, i) : l \in Fb!AheadOf(x), i \in FbCols}
FbAfter(con, ch, out, c) ==
  IF ch # "\r" /\ c = Fb!Cell(out.x, out.y) THEN Fb!Cursor
  ELSE IF Fb!Ends(con.y, ch) /\ c \in FbCleared(out.x) THEN Fb!Blank
  ELSE IF ch # "\n" /\ c = Fb!Cell(con.x, con.y) THEN IF ch = "\r" THEN Fb!Blank ELSE ch
  ELSE con.screen[c]
FbMoved(con, ch, out) ==
  /\ out.x = IF Fb!Ends(con.y, ch) THEN Fb!NextLine(con.x) ELSE con.x
  /\ out.y = IF ch = "\n" THEN con.y
             ELSE IF ch = "\r" \/ Fb!Ends(con.y, ch) THEN 0 ELSE con.y + 1
  /\ out.x \in FbRows /\ out.y \in FbCols
FbDrew(con, ch, out) ==
  /\ DOMAIN con.screen \subseteq DOMAIN out.screen
  /\ DOMAIN out.screen \subseteq FbCells
  /\ ch # "\n" => Fb!Cell(con.x, con.y) \in DOMAIN out.screen
  /\ \A c \in DOMAIN out.screen \ DOMAIN con.screen :
       \/ ch # "\r" /\ c = Fb!Cell(out.x, out.y)
       \/ Fb!Ends(con.y, ch) /\ c \in FbCleared(out.x)
       \/ ch # "\n" /\ c = Fb!Cell(con.x, con.y)
  /\ \A c \in DOMAIN out.screen : out.screen[c] = FbAfter(con, ch, out, c)

LEMMA FbPutMoves ==
  ASSUME Fb!FbAssumption, NEW con, con.x \in FbRows, con.y \in FbCols, NEW ch
  PROVE  FbMoved(con, ch, Fb!Fbputc(con, ch))
<1> DEFINE out == Fb!Fbputc(con, ch)
<1>1. /\ out.x = IF Fb!Ends(con.y, ch) THEN Fb!NextLine(con.x) ELSE con.x
      /\ out.y = IF ch = "\n" THEN con.y
                 ELSE IF ch = "\r" \/ Fb!Ends(con.y, ch) THEN 0 ELSE con.y + 1
  BY DEF Fb!Fbputc
<1> HIDE DEF out
<1>2. PICK n \in Nat \ {0}, w \in Nat \ {0} : n = Fb!conrows /\ w = Fb!concols
  BY FbSizes
<1>3. con.x \in 0 .. n - 1 /\ con.y \in 0 .. w - 1
  BY <1>2 DEF FbRows, FbCols
<1>4. Fb!NextLine(con.x) \in 0 .. n - 1
  BY <1>2, <1>3 DEF Fb!NextLine
<1>5. out.x \in FbRows
  BY <1>1, <1>2, <1>3, <1>4 DEF FbRows
<1>6. out.y \in 0 .. w - 1
  <2>1. ch # "\r" /\ ~Fb!Ends(con.y, ch) => con.y + 1 < w
    BY <1>2, <1>3 DEF Fb!Ends
  <2> QED BY <1>1, <1>3, <2>1
<1> QED BY <1>1, <1>2, <1>5, <1>6 DEF FbMoved, FbCols, out

LEMMA FbPutDraws ==
  ASSUME Fb!FbAssumption, NEW con, con.x \in FbRows, con.y \in FbCols,
         DOMAIN con.screen \subseteq FbCells, NEW ch
  PROVE  FbDrew(con, ch, Fb!Fbputc(con, ch))
<1> DEFINE out == Fb!Fbputc(con, ch)
           here == Fb!Cell(con.x, con.y)
           there == Fb!Cell(out.x, out.y)
           ends == Fb!Ends(con.y, ch)
           s0 == con.screen
           s1 == IF ch # "\n" THEN Fb!Drawn(s0, {here}, Fb!Blank) ELSE s0
           s2 == IF ch \in {"\n", "\r"} THEN s1 ELSE Fb!Drawn(s1, {here}, ch)
           s3 == IF ends THEN Fb!Drawn(s2, FbCleared(out.x), Fb!Blank) ELSE s2
           s4 == IF ch # "\r" THEN Fb!Drawn(s3, {there}, Fb!Cursor) ELSE s3
<1>1. out.screen = s4
  BY DEF Fb!Fbputc, Fb!At, Fb!ClearAhead, FbCleared, FbCols
<1>2. out.x \in FbRows /\ out.y \in FbCols
  BY FbPutMoves DEF FbMoved
<1>3. here \in FbCells /\ there \in FbCells
  BY <1>2 DEF FbCells
<1>4. FbCleared(out.x) \subseteq FbCells
  BY <1>2, FbAheadOnly DEF FbCleared, FbCells
<1> HIDE DEF out, here, there, ends
<1>5. /\ DOMAIN s1 = IF ch # "\n" THEN DOMAIN s0 \cup {here} ELSE DOMAIN s0
      /\ \A c \in DOMAIN s1 : s1[c] = IF ch # "\n" /\ c = here THEN Fb!Blank ELSE s0[c]
  BY DEF Fb!Drawn
<1> HIDE DEF s1
<1>6. /\ DOMAIN s2 = DOMAIN s1
      /\ \A c \in DOMAIN s2 : s2[c] = IF ch # "\n" /\ c = here
                                      THEN IF ch = "\r" THEN Fb!Blank ELSE ch
                                      ELSE s0[c]
  BY <1>5 DEF Fb!Drawn
<1> HIDE DEF s2
<1>7. /\ DOMAIN s3 = IF ends THEN DOMAIN s2 \cup FbCleared(out.x) ELSE DOMAIN s2
      /\ \A c \in DOMAIN s3 : s3[c] = IF ends /\ c \in FbCleared(out.x) THEN Fb!Blank ELSE s2[c]
  BY DEF Fb!Drawn
<1> HIDE DEF s3
<1>8. /\ DOMAIN s4 = IF ch # "\r" THEN DOMAIN s3 \cup {there} ELSE DOMAIN s3
      /\ \A c \in DOMAIN s4 : s4[c] = IF ch # "\r" /\ c = there THEN Fb!Cursor ELSE s3[c]
  BY DEF Fb!Drawn
<1> HIDE DEF s4, s0
<1>9. DOMAIN s0 \subseteq DOMAIN s4 /\ DOMAIN s4 \subseteq FbCells
      /\ (ch # "\n" => here \in DOMAIN s4)
      /\ \A c \in DOMAIN s4 \ DOMAIN s0 :
           \/ ch # "\r" /\ c = there
           \/ ends /\ c \in FbCleared(out.x)
           \/ ch # "\n" /\ c = here
  <2>1. DOMAIN s0 \subseteq FbCells
    BY DEF s0
  <2> QED BY <1>3, <1>4, <1>5, <1>6, <1>7, <1>8, <2>1
<1>10. ASSUME NEW c \in DOMAIN s4 PROVE s4[c] = FbAfter(con, ch, out, c)
  <2>1. CASE ch # "\r" /\ c = there
    BY <1>8, <2>1 DEF FbAfter, there
  <2>2. CASE ~(ch # "\r" /\ c = there) /\ ends /\ c \in FbCleared(out.x)
    <3>1. c \in DOMAIN s3
      BY <1>8, <2>2
    <3> QED BY <1>7, <1>8, <2>2, <3>1 DEF FbAfter, there, ends
  <2>3. CASE ~(ch # "\r" /\ c = there) /\ ~(ends /\ c \in FbCleared(out.x))
    <3>1. c \in DOMAIN s3
      BY <1>8, <2>3
    <3>2. c \in DOMAIN s2 /\ s4[c] = s2[c]
      BY <1>7, <1>8, <2>3, <3>1
    <3> QED BY <1>6, <2>3, <3>2 DEF FbAfter, there, ends, here, s0
  <2> QED BY <2>1, <2>2, <2>3
<1> QED BY <1>1, <1>9, <1>10 DEF FbDrew, out, here, there, ends, s0

(* There is one cursor, and it is where the next character goes; between   *)
(* a return and its new line there is none.                                *)
FbCursorAt(scr, on, x, y) ==
  \A c \in DOMAIN scr : scr[c] = Fb!Cursor <=> on /\ c = Fb!Cell(x, y)

LEMMA FbCursorKept ==
  ASSUME Fb!FbAssumption, NEW con, NEW out, NEW ch \in Printed \cup {"\r", "\n", Fb!Blank},
         FbDrew(con, ch, out), FbCursorAt(con.screen, ch # "\n", con.x, con.y)
  PROVE  FbCursorAt(out.screen, ch # "\r", out.x, out.y)
<1>1. Fb!Cursor # Fb!Blank /\ ch # Fb!Cursor
  BY DEF Fb!FbAssumption, Fb!Cursor, Fb!Blank
<1>2. ASSUME NEW c \in DOMAIN out.screen
      PROVE  out.screen[c] = Fb!Cursor <=> ch # "\r" /\ c = Fb!Cell(out.x, out.y)
  <2>1. out.screen[c] = FbAfter(con, ch, out, c)
    BY DEF FbDrew
  <2>2. CASE ch # "\r" /\ c = Fb!Cell(out.x, out.y)
    BY <2>1, <2>2 DEF FbAfter
  <2>3. CASE /\ ~(ch # "\r" /\ c = Fb!Cell(out.x, out.y))
             /\ Fb!Ends(con.y, ch) /\ c \in FbCleared(out.x)
    BY <1>1, <2>1, <2>3 DEF FbAfter
  <2>4. CASE /\ ~(ch # "\r" /\ c = Fb!Cell(out.x, out.y))
             /\ ~(Fb!Ends(con.y, ch) /\ c \in FbCleared(out.x))
             /\ ch # "\n" /\ c = Fb!Cell(con.x, con.y)
    BY <1>1, <2>1, <2>4 DEF FbAfter
  <2>5. CASE /\ ~(ch # "\r" /\ c = Fb!Cell(out.x, out.y))
             /\ ~(Fb!Ends(con.y, ch) /\ c \in FbCleared(out.x))
             /\ ~(ch # "\n" /\ c = Fb!Cell(con.x, con.y))
    <3>1. c \in DOMAIN con.screen /\ out.screen[c] = con.screen[c]
      BY <2>1, <2>5 DEF FbAfter, FbDrew
    <3>2. con.screen[c] # Fb!Cursor
      BY <2>5, <3>1 DEF FbCursorAt
    <3> QED BY <2>5, <3>1, <3>2
  <2> QED BY <2>2, <2>3, <2>4, <2>5
<1> QED BY <1>2 DEF FbCursorAt

(* The screens fbconcls passes through.                                    *)
FbScreens ==
  {con \in [screen : UNION {[D -> {Fb!Blank, Fb!Cursor}] : D \in SUBSET FbCells},
            x : FbRows, y : FbCols] :
     FbCursorAt(con.screen, TRUE, con.x, con.y)}

LEMMA FbBlanks ==
  ASSUME Fb!FbAssumption, NEW con \in FbScreens
  PROVE  Fb!Fbputc(con, Fb!Blank) \in FbScreens
<1> DEFINE out == Fb!Fbputc(con, Fb!Blank)
<1>1. con.x \in FbRows /\ con.y \in FbCols /\ DOMAIN con.screen \subseteq FbCells
      /\ \A c \in DOMAIN con.screen : con.screen[c] \in {Fb!Blank, Fb!Cursor}
  BY DEF FbScreens
<1>2. FbMoved(con, Fb!Blank, out) /\ FbDrew(con, Fb!Blank, out)
  BY <1>1, FbPutMoves, FbPutDraws
<1>3. FbCursorAt(con.screen, TRUE, con.x, con.y)
  BY DEF FbScreens
<1>4. Fb!Blank # "\n" /\ Fb!Blank # "\r"
  BY DEF Fb!Blank
<1>5. out = [screen |-> out.screen, x |-> out.x, y |-> out.y]
      /\ out.screen = [c \in DOMAIN out.screen |-> out.screen[c]]
  <2>1. Fb!Blank \notin {"\n", "\r"}
    BY <1>4
  <2> QED BY <2>1, ZenonT(40) DEF Fb!Fbputc, Fb!At, Fb!Drawn
<1> HIDE DEF out
<1>6. FbCursorAt(out.screen, TRUE, out.x, out.y)
  BY <1>2, <1>3, <1>4, FbCursorKept
<1>7. ASSUME NEW c \in DOMAIN out.screen PROVE out.screen[c] \in {Fb!Blank, Fb!Cursor}
  <2>1. out.screen[c] = FbAfter(con, Fb!Blank, out, c)
    BY <1>2 DEF FbDrew
  <2>2. c \notin DOMAIN con.screen => out.screen[c] \in {Fb!Blank, Fb!Cursor}
    BY <1>2, <2>1 DEF FbDrew, FbAfter
  <2>3. c \in DOMAIN con.screen => out.screen[c] \in {Fb!Blank, Fb!Cursor}
    BY <1>1, <1>4, <2>1 DEF FbAfter
  <2> QED BY <2>2, <2>3
<1>8. out.screen \in UNION {[D -> {Fb!Blank, Fb!Cursor}] : D \in SUBSET FbCells}
  <2>1. DOMAIN out.screen \in SUBSET FbCells
    BY <1>2 DEF FbDrew
  <2>2. out.screen \in [DOMAIN out.screen -> {Fb!Blank, Fb!Cursor}]
    BY <1>5, <1>7
  <2> QED BY <2>1, <2>2
<1>9. out.x \in FbRows /\ out.y \in FbCols
  BY <1>2 DEF FbMoved
<1>10. out \in [screen : UNION {[D -> {Fb!Blank, Fb!Cursor}] : D \in SUBSET FbCells},
               x : FbRows, y : FbCols]
  BY <1>5, <1>8, <1>9
<1> QED BY <1>6, <1>10 DEF FbScreens, out

(* The next cell in the order of the text is one place on.                 *)
LEMMA FbPlaces ==
  ASSUME NEW n \in Nat \ {0}, NEW w \in Nat \ {0}, NEW x \in 0 .. n - 1, NEW y \in 0 .. w - 1,
         NEW u, u = IF y + 1 >= w THEN IF x + 1 >= n THEN 0 ELSE x + 1 ELSE x,
         NEW v, v = IF y + 1 >= w THEN 0 ELSE y + 1
  PROVE  u * w + v = IF (x * w + y) + 1 = n * w THEN 0 ELSE (x * w + y) + 1
<1>1. PICK a \in Nat, c \in Nat : a = x * w /\ c = n * w
  OBVIOUS
<1>2. (x + 1) * w = a + w
  BY <1>1
<1>3. a + w <= c
  <2>1. (x + 1) * w <= n * w
    BY MulMono
  <2> QED BY <1>1, <1>2, <2>1
<1>4. CASE y + 1 < w
  <2>1. u = x /\ v = y + 1
    BY <1>4
  <2>2. u * w + v = (a + y) + 1
    BY <1>1, <2>1
  <2>3. (a + y) + 1 # c
    BY <1>3, <1>4
  <2> QED BY <1>1, <2>2, <2>3
<1>5. CASE y + 1 >= w /\ x + 1 < n
  <2>1. u = x + 1 /\ v = 0 /\ y + 1 = w
    BY <1>5
  <2>2. u * w + v = (a + y) + 1
    <3>1. u * w = a + w
      BY <1>2, <2>1
    <3> QED BY <2>1, <3>1
  <2>3. (a + w) + w <= c
    <3>1. ((x + 1) + 1) * w <= n * w
      BY <1>5, MulMono
    <3>2. ((x + 1) + 1) * w = (x + 1) * w + w
      OBVIOUS
    <3> QED BY <1>1, <1>2, <3>1, <3>2
  <2>4. (a + y) + 1 # c
    BY <2>1, <2>3
  <2> QED BY <1>1, <2>2, <2>4
<1>6. CASE y + 1 >= w /\ x + 1 >= n
  <2>1. u = 0 /\ v = 0 /\ y + 1 = w /\ x + 1 = n
    BY <1>6
  <2>2. (a + y) + 1 = c
    BY <1>1, <1>2, <2>1
  <2>3. u * w + v = 0
    BY <2>1
  <2> QED BY <1>1, <2>2, <2>3
<1> QED BY <1>4, <1>5, <1>6

(* As many blanks as there are cells bring the cursor home.                *)
LEMMA FbHome ==
  ASSUME Fb!FbAssumption
  PROVE  LET con == Fb!Fbconcls([screen |-> << >>, x |-> 0, y |-> 0])
         IN  /\ con.x = 0 /\ con.y = 0
             /\ DOMAIN con.screen \subseteq FbCells
             /\ FbCursorAt(con.screen, TRUE, 0, 0)
<1> DEFINE b == [screen |-> << >>, x |-> 0, y |-> 0]
           cells == Fb!conrows * Fb!concols
           R(f, k) == IF k = 0 THEN b ELSE Fb!Fbputc(f[k - 1], Fb!Blank)
           E(f) == f = [k \in 0 .. cells |-> R(f, k)]
           cleared == CHOOSE f : E(f)
           g == [k \in 0 .. cells - 1 |-> [con \in FbScreens |-> Fb!Fbputc(con, Fb!Blank)]]
<1>1. Fb!Fbconcls(b) = [cleared[cells] EXCEPT !.x = 0, !.y = 0]
  BY DEF Fb!Fbconcls
<1>2. PICK n \in Nat \ {0}, w \in Nat \ {0} :
        n = Fb!conrows /\ w = Fb!concols /\ cells = n * w
  BY FbSizes
<1>3. cells \in Nat \ {0}
  BY <1>2
<1>4. b \in FbScreens /\ b.x = 0 /\ b.y = 0
  <2>1. b.screen \in [{} -> {Fb!Blank, Fb!Cursor}] /\ {} \in SUBSET FbCells
    OBVIOUS
  <2>2. 0 \in FbRows /\ 0 \in FbCols
    BY <1>2 DEF FbRows, FbCols
  <2>3. FbCursorAt(b.screen, TRUE, b.x, b.y)
    BY DEF FbCursorAt
  <2> QED BY <2>1, <2>2, <2>3 DEF FbScreens
<1> HIDE DEF b, cells
<1>5. g \in [0 .. cells - 1 -> [FbScreens -> FbScreens]]
  BY FbBlanks
<1>6. PICK f \in [0 .. cells -> FbScreens] :
        f[0] = b /\ \A k \in 0 .. cells - 1 : f[k + 1] = g[k][f[k]]
  <2> HIDE DEF g
  <2>1. PICK f \in [0 .. cells -> FbScreens] : RecursTo(f, b, g, cells)
    BY <1>3, <1>4, <1>5, BoundedRecursion
  <2> QED BY <2>1 DEF RecursTo
<1>7. E(f)
  <2>1. ASSUME NEW k \in 0 .. cells PROVE f[k] = R(f, k)
    <3>1. CASE k = 0
      BY <1>6, <3>1
    <3>2. CASE k # 0
      <4>1. k - 1 \in 0 .. cells - 1 /\ k - 1 \in 0 .. cells /\ (k - 1) + 1 = k
        BY <1>3, <3>2
      <4>2. f[k] = g[k - 1][f[k - 1]] /\ f[k - 1] \in FbScreens
        BY <1>6, <4>1
      <4>3. g[k - 1][f[k - 1]] = Fb!Fbputc(f[k - 1], Fb!Blank)
        BY <4>1, <4>2
      <4> QED BY <3>2, <4>2, <4>3
    <3> QED BY <3>1, <3>2
  <2> HIDE DEF R
  <2> QED BY <1>6, <2>1
<1>8. E(cleared)
  <2> HIDE DEF E
  <2> QED BY <1>7
<1> HIDE DEF cleared
<1>9. cleared[0] = b /\ \A k \in 0 .. cells - 1 : cleared[k + 1] = Fb!Fbputc(cleared[k], Fb!Blank)
  <2>1. cleared[0] = b
    BY <1>3, <1>8
  <2>2. ASSUME NEW k \in 0 .. cells - 1
        PROVE cleared[k + 1] = Fb!Fbputc(cleared[k], Fb!Blank)
    <3>1. k + 1 \in 0 .. cells /\ k + 1 # 0 /\ (k + 1) - 1 = k
      BY <1>3
    <3> QED BY <1>8, <3>1
  <2> QED BY <2>1, <2>2
<1> HIDE DEF E, R, g
<1> DEFINE Home(k) == IF k = cells THEN 0 ELSE k
           Good(k) == cleared[k] \in FbScreens /\ cleared[k].x * w + cleared[k].y = Home(k)
           Bad == {k \in 0 .. cells : ~Good(k)}
<1>10. Good(0)
  BY <1>2, <1>3, <1>4, <1>9
<1>11. ASSUME NEW k \in 0 .. cells - 1, Good(k) PROVE Good(k + 1)
  <2> DEFINE con == cleared[k]
             out == Fb!Fbputc(con, Fb!Blank)
  <2>1. cleared[k + 1] = out /\ con \in FbScreens
    BY <1>9, <1>11
  <2>2. out \in FbScreens /\ con.x \in FbRows /\ con.y \in FbCols
    BY <2>1, FbBlanks DEF FbScreens
  <2>3. FbMoved(con, Fb!Blank, out)
    BY <2>2, FbPutMoves
  <2>4. PICK x \in 0 .. n - 1, y \in 0 .. w - 1 : x = con.x /\ y = con.y
    BY <1>2, <2>2 DEF FbRows, FbCols
  <2>5. k \in Nat /\ k < cells /\ x * w + y = k
    <3>1. k \in Nat /\ k # cells
      BY <1>3
    <3> QED BY <1>3, <1>11, <2>4, <3>1
  <2>6. /\ out.x = IF y + 1 >= w THEN IF x + 1 >= n THEN 0 ELSE x + 1 ELSE x
        /\ out.y = IF y + 1 >= w THEN 0 ELSE y + 1
    <3>1. Fb!Blank # "\n" /\ Fb!Blank # "\r"
      BY DEF Fb!Blank
    <3> QED BY <1>2, <2>3, <2>4, <3>1 DEF FbMoved, Fb!Ends, Fb!NextLine
  <2> HIDE DEF con, out
  <2>7. out.x * w + out.y = IF (x * w + y) + 1 = n * w THEN 0 ELSE (x * w + y) + 1
    BY <1>2, <2>6, FbPlaces
  <2>8. out.x * w + out.y = IF k + 1 = cells THEN 0 ELSE k + 1
    BY <1>2, <2>5, <2>7
  <2> QED BY <2>1, <2>2, <2>8
<1> HIDE DEF Good
<1>12. Bad = {}
  <2> SUFFICES ASSUME Bad # {} PROVE FALSE
    OBVIOUS
  <2>1. Bad \subseteq Nat
    BY <1>3
  <2>2. PICK m \in Bad : \A k \in Bad : m <= k
    BY <2>1, NatLeast, Zenon
  <2>3. m \in 0 .. cells /\ ~Good(m)
    OBVIOUS
  <2>4. m # 0
    BY <1>10, <2>3
  <2>5. m - 1 \in 0 .. cells - 1 /\ m - 1 \in 0 .. cells /\ (m - 1) + 1 = m /\ ~(m <= m - 1)
    BY <1>3, <2>3, <2>4
  <2>6. ~Good(m - 1)
    BY <1>11, <2>3, <2>5
  <2>7. m - 1 \in Bad
    BY <2>5, <2>6
  <2> QED BY <2>2, <2>5, <2>7
<1>13. Good(cells)
  <2>1. cells \in 0 .. cells
    BY <1>3
  <2> QED BY <1>12, <2>1
<1>14. cleared[cells] \in FbScreens /\ cleared[cells].x * w + cleared[cells].y = 0
  BY <1>13 DEF Good
<1>15. cleared[cells].x = 0 /\ cleared[cells].y = 0
  <2>1. PICK x \in Nat, y \in Nat : x = cleared[cells].x /\ y = cleared[cells].y
    <3>1. cleared[cells].x \in FbRows /\ cleared[cells].y \in FbCols
      BY <1>14 DEF FbScreens
    <3>2. FbRows \subseteq Nat /\ FbCols \subseteq Nat
      BY <1>2 DEF FbRows, FbCols
    <3> QED BY <3>1, <3>2
  <2>2. PICK a \in Nat : a = x * w
    BY <1>2
  <2>3. a = 0 /\ y = 0
    BY <1>14, <2>1, <2>2, SMTT(30)
  <2>4. x = 0
    <3> SUFFICES ASSUME x # 0 PROVE FALSE
      OBVIOUS
    <3>1. 1 * w <= x * w
      BY <1>2, MulMono
    <3> QED BY <1>2, <2>2, <2>3, <3>1
  <2> QED BY <2>1, <2>3, <2>4
<1>16. DOMAIN cleared[cells].screen \subseteq FbCells
  BY <1>14 DEF FbScreens
<1>17. FbCursorAt(cleared[cells].screen, TRUE, 0, 0)
  BY <1>14, <1>15 DEF FbScreens
<1>18. /\ Fb!Fbconcls(b).x = 0 /\ Fb!Fbconcls(b).y = 0
       /\ Fb!Fbconcls(b).screen = cleared[cells].screen
  BY <1>1, <1>14 DEF FbScreens
<1> QED BY <1>16, <1>17, <1>18 DEF b

(* The text of a line is in its cells.                                     *)
FbText(scr, l, text) ==
  \A i \in 1 .. Len(text) :
    Fb!Cell(l, i - 1) \in DOMAIN scr /\ scr[Fb!Cell(l, i - 1)] = text[i]

(* The line of the screen that holds the k-th of the last lines.           *)
FbLine(x, k) == (x + 1 - k + Fb!conrows) % Fb!conrows

FbInv ==
  /\ pending \in BOOLEAN /\ fbconenable \in BOOLEAN
  /\ conx \in FbRows /\ cony \in FbCols
  /\ recent \in Seq(Seq(Printed)) /\ Len(recent) <= Fb!conrows
  /\ \A k \in 1 .. Len(recent) : Len(recent[k]) <= Fb!concols
  /\ pending => cony = 0
  /\ ~pending /\ Len(recent) >= 1 => Len(recent[1]) = cony
  /\ ~fbconenable => conx = 0 /\ cony = 0 /\ screen = << >> /\ recent = << << >> >>
  /\ fbconenable =>
       /\ DOMAIN screen \subseteq FbCells
       /\ FbCursorAt(screen, ~pending, conx, cony)
       /\ \A k \in 1 .. Len(recent) : FbText(screen, FbLine(conx, k), recent[k])

LEMMA FbLines ==
  ASSUME Fb!FbAssumption, NEW x \in FbRows, NEW k \in 1 .. Fb!conrows
  PROVE  /\ FbLine(x, k) = IF k <= x + 1 THEN x + 1 - k ELSE x + 1 - k + Fb!conrows
         /\ FbLine(x, k) \in FbRows
<1>1. PICK n \in Nat \ {0} : n = Fb!conrows
  BY FbSizes
<1>2. x \in 0 .. n - 1 /\ k \in 1 .. n
  BY <1>1 DEF FbRows
<1>3. CASE k <= x + 1
  <2>1. PICK m \in Nat : m = x + 1 - k /\ m < n
    BY <1>2, <1>3
  <2>2. (m + n) % n = m
    BY <1>1, <2>1
  <2> QED BY <1>1, <1>2, <1>3, <2>1, <2>2 DEF FbLine, FbRows
<1>4. CASE ~(k <= x + 1)
  <2>1. PICK m \in Nat : m = x + 1 - k + n /\ m < n
    BY <1>2, <1>4
  <2>2. m % n = m
    BY <1>1, <2>1
  <2> QED BY <1>1, <1>2, <1>4, <2>1, <2>2 DEF FbLine, FbRows
<1> QED BY <1>3, <1>4

(* A line entered finds the last lines further back than those it clears.  *)
LEMMA FbEntered ==
  ASSUME Fb!FbAssumption, NEW x \in FbRows, NEW k \in 2 .. Fb!Kept
  PROVE  /\ FbLine(Fb!NextLine(x), k) = FbLine(x, k - 1)
         /\ FbLine(x, k - 1) # Fb!NextLine(x)
         /\ FbLine(x, k - 1) \notin Fb!AheadOf(Fb!NextLine(x))
         /\ Fb!NextLine(x) \in FbRows
<1>1. PICK n \in Nat \ {0} : n = Fb!conrows
  BY FbSizes
<1>2. x \in 0 .. n - 1 /\ k \in 2 .. n - 5
  BY <1>1 DEF FbRows, Fb!Kept
<1>3. PICK z \in 0 .. n - 1 : z = Fb!NextLine(x) /\ z = IF x + 1 >= n THEN 0 ELSE x + 1
  BY <1>1, <1>2 DEF Fb!NextLine
<1>4. FbLine(z, k) = IF k <= z + 1 THEN z + 1 - k ELSE z + 1 - k + n
  <2>1. z \in FbRows /\ k \in 1 .. Fb!conrows
    BY <1>1, <1>2, <1>3 DEF FbRows
  <2> QED BY <1>1, <2>1, FbLines
<1>5. FbLine(x, k - 1) = IF k - 1 <= x + 1 THEN x + 1 - (k - 1) ELSE x + 1 - (k - 1) + n
  <2>1. k - 1 \in 1 .. Fb!conrows
    BY <1>1, <1>2
  <2> QED BY <1>1, <2>1, FbLines
<1>6. FbLine(z, k) = FbLine(x, k - 1) /\ FbLine(x, k - 1) # z
  BY <1>2, <1>3, <1>4, <1>5
<1>7. ~(z <= FbLine(x, k - 1) /\ FbLine(x, k - 1) <= z + 5)
  BY <1>2, <1>3, <1>5
<1>8. z \in FbRows
  BY <1>1, <1>3 DEF FbRows
<1> QED BY <1>3, <1>6, <1>7, <1>8, FbAheadOnly

LEMMA FbStarts == ASSUME Fb!FbAssumption, Fb!Init PROVE FbInv
<1>1. 0 \in FbRows /\ 0 \in FbCols /\ Fb!conrows >= 1
  BY FbSizes DEF FbRows, FbCols
<1>2. /\ recent = << << >> >> /\ recent \in Seq(Seq(Printed))
      /\ Len(recent) = 1 /\ recent[1] = << >> /\ Len(recent[1]) = 0
  BY DEF Fb!Init
<1>3. \A k \in 1 .. Len(recent) : Len(recent[k]) <= Fb!concols
  BY <1>2, FbSizes
<1> QED BY <1>1, <1>2, <1>3 DEF FbInv, Fb!Init

LEMMA FbJumps == ASSUME Fb!FbAssumption, FbInv, Fb!JumpHandler PROVE FbInv'
<1> DEFINE con == Fb!Fbconcls([screen |-> << >>, x |-> 0, y |-> 0])
<1>1. conx = 0 /\ cony = 0 /\ screen = << >> /\ pending = FALSE
  BY DEF FbInv, Fb!JumpHandler
<1>2. /\ fbconenable' = TRUE /\ pending' = FALSE
      /\ screen' = con.screen /\ conx' = con.x /\ cony' = con.y
      /\ recent' = << << >> >>
  BY <1>1 DEF Fb!JumpHandler
<1>3. /\ con.x = 0 /\ con.y = 0
      /\ DOMAIN con.screen \subseteq FbCells
      /\ FbCursorAt(con.screen, TRUE, 0, 0)
  BY FbHome
<1> HIDE DEF con
<1>4. 0 \in FbRows /\ 0 \in FbCols /\ Fb!conrows >= 1
  BY FbSizes DEF FbRows, FbCols
<1>5. /\ recent' \in Seq(Seq(Printed))
      /\ Len(recent') = 1 /\ recent'[1] = << >> /\ Len(recent'[1]) = 0
  BY <1>2
<1>6. \A k \in 1 .. Len(recent') : Len(recent'[k]) <= Fb!concols
  BY <1>5, FbSizes
<1>7. \A k \in 1 .. Len(recent') : FbText(screen', FbLine(conx', k), recent'[k])
  BY <1>5 DEF FbText
<1>8. DOMAIN screen' \subseteq FbCells /\ FbCursorAt(screen', ~pending', conx', cony')
  BY <1>2, <1>3
<1> QED BY <1>2, <1>3, <1>4, <1>5, <1>6, <1>7, <1>8 DEF FbInv

(* The lines after a character is typed and before its line is left.       *)
FbTyped(ch) == IF ch \in {"\r", "\n"} THEN recent ELSE [recent EXCEPT ![1] = Append(@, ch)]

LEMMA FbTypedLines ==
  ASSUME FbInv, NEW ch \in Printed \cup {"\r", "\n"}
  PROVE  /\ FbTyped(ch) \in Seq(Seq(Printed)) /\ Len(FbTyped(ch)) = Len(recent)
         /\ \A k \in 1 .. Len(recent) :
              FbTyped(ch)[k] = IF k = 1 /\ ch \notin {"\r", "\n"}
                               THEN Append(recent[1], ch) ELSE recent[k]
<1>1. recent \in Seq(Seq(Printed))
  BY DEF FbInv
<1>2. CASE ch \in {"\r", "\n"}
  BY <1>1, <1>2 DEF FbTyped
<1>3. CASE ch \notin {"\r", "\n"} /\ Len(recent) = 0
  <2>1. recent = << >> /\ FbTyped(ch) = << >>
    BY <1>1, <1>3 DEF FbTyped
  <2> QED BY <1>1, <1>3, <2>1
<1>4. CASE ch \notin {"\r", "\n"} /\ Len(recent) >= 1
  <2>1. recent[1] \in Seq(Printed) /\ ch \in Printed
    BY <1>1, <1>4
  <2>2. Append(recent[1], ch) \in Seq(Printed)
    BY <2>1
  <2> QED BY <1>1, <1>4, <2>2 DEF FbTyped
<1>5. Len(recent) \in Nat
  BY <1>1
<1> QED BY <1>2, <1>3, <1>4, <1>5

LEMMA FbTypedKept ==
  ASSUME Fb!FbAssumption, FbInv, fbconenable,
         NEW ch \in Printed \cup {"\r", "\n"}, ch = "\n" <=> pending,
         NEW con, con.x = conx, con.y = cony, con.screen = screen,
         NEW out, FbMoved(con, ch, out), FbDrew(con, ch, out),
         NEW j \in 1 .. Len(recent),
         Fb!Ends(cony, ch) => /\ FbLine(conx, j) # out.x
                              /\ FbLine(conx, j) \notin Fb!AheadOf(out.x)
  PROVE  FbText(out.screen, FbLine(conx, j), FbTyped(ch)[j])
<1> DEFINE l == FbLine(conx, j)
           typing == ch \notin {"\r", "\n"}
<1>1. PICK n \in Nat \ {0}, w \in Nat \ {0} : n = Fb!conrows /\ w = Fb!concols
  BY FbSizes
<1>2. /\ conx \in FbRows /\ cony \in FbCols /\ cony \in 0 .. w - 1
      /\ Len(recent) \in Nat /\ Len(recent) <= n /\ recent[j] \in Seq(Printed)
      /\ Len(recent[j]) <= w /\ Len(recent[j]) \in Nat
  BY <1>1 DEF FbInv, FbCols
<1>3. l \in FbRows /\ (l = conx <=> j = 1)
  <2>1. j \in 1 .. Fb!conrows /\ 1 \in 1 .. Fb!conrows
    BY <1>1, <1>2
  <2>2. l = (IF j <= conx + 1 THEN conx + 1 - j ELSE conx + 1 - j + Fb!conrows) /\ l \in FbRows
    BY <1>2, <2>1, FbLines
  <2>3. conx \in 0 .. n - 1 /\ j \in 1 .. n
    BY <1>1, <1>2 DEF FbRows
  <2> QED BY <1>1, <2>2, <2>3
<1>4. j = 1 /\ ch # "\n" => Len(recent[j]) = cony
  BY <1>2 DEF FbInv
<1>5. /\ FbTyped(ch)[j] = IF j = 1 /\ typing THEN Append(recent[1], ch) ELSE recent[j]
      /\ Len(FbTyped(ch)[j]) = IF j = 1 /\ typing THEN cony + 1 ELSE Len(recent[j])
  <2>1. FbTyped(ch)[j] = IF j = 1 /\ typing THEN Append(recent[1], ch) ELSE recent[j]
    BY FbTypedLines
  <2>2. CASE j = 1 /\ typing
    <3>1. recent[1] \in Seq(Printed) /\ Len(recent[1]) = cony /\ FbTyped(ch)[j] = Append(recent[1], ch)
      BY <1>2, <1>4, <2>1, <2>2
    <3> QED BY <2>1, <2>2, <3>1
  <2>3. CASE ~(j = 1 /\ typing)
    BY <2>1, <2>3
  <2> QED BY <2>2, <2>3
<1>6. Len(FbTyped(ch)[j]) <= w /\ Len(FbTyped(ch)[j]) \in Nat
  BY <1>2, <1>5
<1>7. FbText(screen, l, recent[j])
  BY DEF FbInv
<1>8. out.x \in FbRows /\ out.y \in FbCols
  BY DEF FbMoved
<1>9. ~Fb!Ends(cony, ch) => out.x = conx /\ (ch # "\r" => typing /\ out.y = cony + 1)
  BY DEF FbMoved, Fb!Ends
<1> HIDE DEF l
<1>10. ASSUME NEW i \in 1 .. Len(FbTyped(ch)[j])
       PROVE  /\ Fb!Cell(l, i - 1) \in DOMAIN out.screen
              /\ out.screen[Fb!Cell(l, i - 1)] = FbTyped(ch)[j][i]
  <2> DEFINE c == Fb!Cell(l, i - 1)
  <2>1. i \in 1 .. w /\ i - 1 \in FbCols
    BY <1>1, <1>6 DEF FbCols
  <2>2. ~(ch # "\r" /\ c = Fb!Cell(out.x, out.y))
    <3> SUFFICES ASSUME ch # "\r", c = Fb!Cell(out.x, out.y) PROVE FALSE
      OBVIOUS
    <3>1. l = out.x /\ i - 1 = out.y
      BY <1>3, <1>8, <2>1, FbCellsDiffer
    <3>2. ~Fb!Ends(cony, ch)
      BY <3>1 DEF l
    <3>3. typing /\ out.y = cony + 1 /\ j = 1
      BY <1>3, <1>9, <3>1, <3>2
    <3>4. i <= cony + 1
      BY <1>5, <3>3
    <3> QED BY <1>2, <2>1, <3>1, <3>3, <3>4
  <2>3. ~(Fb!Ends(cony, ch) /\ c \in FbCleared(out.x))
    <3> SUFFICES ASSUME Fb!Ends(cony, ch), c \in FbCleared(out.x) PROVE FALSE
      OBVIOUS
    <3>1. PICK m \in Fb!AheadOf(out.x), y \in FbCols : c = Fb!Cell(m, y)
      BY DEF FbCleared
    <3>2. m \in FbRows
      BY <1>8, FbAheadOnly
    <3>3. l = m
      BY <1>3, <2>1, <3>1, <3>2, FbCellsDiffer
    <3> QED BY <3>3 DEF l
  <2>4. CASE i <= Len(recent[j])
    <3>1. c \in DOMAIN screen /\ screen[c] = recent[j][i]
      BY <1>2, <1>7, <2>1, <2>4 DEF FbText
    <3>2. c \in DOMAIN out.screen /\ out.screen[c] = FbAfter(con, ch, out, c)
      BY <3>1 DEF FbDrew
    <3>3. ~(ch # "\n" /\ c = Fb!Cell(conx, cony))
      <4> SUFFICES ASSUME ch # "\n", c = Fb!Cell(conx, cony) PROVE FALSE
        OBVIOUS
      <4>1. l = conx /\ i - 1 = cony
        BY <1>2, <1>3, <2>1, FbCellsDiffer
      <4> QED BY <1>2, <1>3, <1>4, <2>1, <2>4, <4>1
    <3>4. out.screen[c] = screen[c]
      BY <2>2, <2>3, <3>2, <3>3 DEF FbAfter
    <3>5. FbTyped(ch)[j][i] = recent[j][i]
      BY <1>2, <1>5, <2>1, <2>4
    <3> QED BY <3>1, <3>2, <3>4, <3>5
  <2>5. CASE ~(i <= Len(recent[j]))
    <3>1. j = 1 /\ typing /\ i = cony + 1 /\ ch # "\n" /\ ch # "\r"
      BY <1>2, <1>4, <1>5, <2>1, <2>5
    <3>2. c = Fb!Cell(conx, cony)
      <4>1. i - 1 = cony
        BY <1>2, <3>1
      <4> QED BY <1>3, <3>1, <4>1
    <3>3. c \in DOMAIN out.screen /\ out.screen[c] = FbAfter(con, ch, out, c)
      BY <3>1, <3>2 DEF FbDrew
    <3>4. out.screen[c] = ch
      BY <2>2, <2>3, <3>1, <3>2, <3>3 DEF FbAfter
    <3>5. FbTyped(ch)[j][i] = ch
      BY <1>2, <1>4, <1>5, <3>1
    <3> QED BY <3>3, <3>4, <3>5
  <2> QED BY <2>4, <2>5
<1> QED BY <1>10 DEF FbText, l

LEMMA FbEnteredLines ==
  ASSUME NEW t \in Seq(Seq(Printed)), NEW n \in Nat, Fb!conrows = n, Len(t) <= n
  PROVE  /\ Fb!Entered(t) \in Seq(Seq(Printed)) /\ Len(Fb!Entered(t)) <= n
         /\ \A k \in 1 .. Len(Fb!Entered(t)) :
              /\ k = 1 => Fb!Entered(t)[k] = << >>
              /\ k # 1 => /\ k \in 2 .. Fb!Kept /\ k - 1 \in 1 .. Len(t)
                          /\ Fb!Entered(t)[k] = t[k - 1]
<1> DEFINE u == << << >> >> \o t
           h == IF Len(t) < Fb!Kept THEN Len(t) + 1 ELSE Fb!Kept
<1>1. /\ Len(t) \in Nat /\ u \in Seq(Seq(Printed)) /\ Len(u) = Len(t) + 1
      /\ u[1] = << >> /\ \A k \in 2 .. Len(u) : u[k] = t[k - 1]
  OBVIOUS
<1>2. Fb!Kept = n - 5 /\ h \in Int /\ h <= Len(t) + 1 /\ h <= Fb!Kept
  BY <1>1 DEF Fb!Kept
<1>3. PICK v : v = Fb!Entered(t) /\ v = SubSeq(u, 1, h)
  BY DEF Fb!Entered
<1> HIDE DEF u, h
<1>4. PICK m \in Nat : m = IF h < 1 THEN 0 ELSE h
  BY <1>2
<1>5. /\ v \in Seq(Seq(Printed)) /\ Len(v) = m
      /\ \A k \in 1 .. m : v[k] = u[k]
  BY <1>1, <1>2, <1>3, <1>4, SMTT(30)
<1>6. ASSUME NEW k \in 1 .. m
      PROVE  /\ k = 1 => u[k] = << >>
             /\ k # 1 => /\ k \in 2 .. Fb!Kept /\ k - 1 \in 1 .. Len(t)
                         /\ u[k] = t[k - 1]
  <2>1. m <= Len(t) + 1 /\ (m >= 1 => m <= n - 5)
    BY <1>1, <1>2, <1>4
  <2>2. CASE k = 1
    BY <1>1, <2>2
  <2>3. CASE k # 1
    <3>1. k \in 2 .. Len(t) + 1 /\ k \in 2 .. n - 5 /\ k - 1 \in 1 .. Len(t)
      <4>1. PICK z \in Nat : z = Len(t)
        BY <1>1, LenProperties
      <4>2. k \in Nat /\ k >= 2 /\ k <= m /\ m >= 1
        BY <2>3
      <4> QED BY <2>1, <4>1, <4>2, SMTT(30)
    <3>2. u[k] = t[k - 1]
      BY <1>1, <3>1
    <3> QED BY <1>2, <2>3, <3>1, <3>2
  <2> QED BY <2>2, <2>3
<1>7. Len(v) <= n
  BY <1>1, <1>2, <1>4, <1>5
<1>8. \A k \in 1 .. Len(v) :
        /\ k = 1 => v[k] = << >>
        /\ k # 1 => k \in 2 .. Fb!Kept /\ k - 1 \in 1 .. Len(t) /\ v[k] = t[k - 1]
  BY <1>5, <1>6, Zenon
<1> QED BY <1>3, <1>5, <1>7, <1>8, Zenon

LEMMA FbPrints ==
  ASSUME Fb!FbAssumption, FbInv, NEW ch \in Printed \cup {"\r", "\n"}, Fb!Putchar(ch)
  PROVE  FbInv'
<1>1. PICK n \in Nat \ {0}, w \in Nat \ {0} : n = Fb!conrows /\ w = Fb!concols
  BY FbSizes
<1>2. /\ pending \in BOOLEAN /\ fbconenable \in BOOLEAN
      /\ conx \in FbRows /\ cony \in FbCols /\ cony \in 0 .. w - 1
      /\ recent \in Seq(Seq(Printed)) /\ Len(recent) \in Nat /\ Len(recent) <= n
      /\ pending => cony = 0
      /\ ~pending /\ Len(recent) >= 1 => Len(recent[1]) = cony
  BY <1>1 DEF FbInv, FbCols
<1>3. (pending <=> ch = "\n") /\ pending' = (ch = "\r") /\ fbconenable' = fbconenable
  BY <1>2 DEF Fb!Putchar
<1>4. CASE ~fbconenable
  <2>1. UNCHANGED <<fbconenable, screen, conx, cony, recent>>
    BY <1>4 DEF Fb!Putchar
  <2>2. cony = 0 /\ Len(recent[1]) = 0
    <3>1. cony = 0 /\ recent[1] = << >>
      BY <1>4 DEF FbInv
    <3> QED BY <3>1
  <2> QED BY <1>1, <1>3, <1>4, <2>1, <2>2 DEF FbInv
<1>5. CASE fbconenable
  <2> DEFINE con == [screen |-> screen, x |-> conx, y |-> cony]
             out == Fb!Fbputc(con, ch)
             t == FbTyped(ch)
  <2>1. /\ screen' = out.screen /\ conx' = out.x /\ cony' = out.y
        /\ recent' = IF Fb!Ends(cony, ch) THEN Fb!Entered(t) ELSE t
    BY <1>5 DEF Fb!Putchar, FbTyped
  <2>2. con.x = conx /\ con.y = cony /\ con.screen = screen
    OBVIOUS
  <2> HIDE DEF con, out
  <2>3. DOMAIN screen \subseteq FbCells /\ FbCursorAt(screen, ~pending, conx, cony)
    BY <1>5 DEF FbInv
  <2>4. FbMoved(con, ch, out) /\ FbDrew(con, ch, out)
    BY <1>2, <2>2, <2>3, FbPutMoves, FbPutDraws DEF out
  <2>5. FbCursorAt(screen', ~pending', conx', cony')
    <3>1. FbCursorAt(con.screen, ch # "\n", con.x, con.y)
      BY <1>3, <2>2, <2>3
    <3>2. FbCursorAt(out.screen, ch # "\r", out.x, out.y)
      BY <2>4, <3>1, FbCursorKept
    <3>3. ~pending' <=> ch # "\r"
      BY <1>3
    <3> QED BY <2>1, <3>2, <3>3 DEF FbCursorAt
  <2>6. DOMAIN screen' \subseteq FbCells /\ conx' \in FbRows /\ cony' \in FbCols
    BY <2>1, <2>4 DEF FbMoved, FbDrew
  <2>7. /\ t \in Seq(Seq(Printed)) /\ Len(t) = Len(recent)
        /\ \A k \in 1 .. Len(t) : Len(t[k]) <= w
        /\ \A k \in 1 .. Len(t) :
             k = 1 => t[k] = IF ch \in {"\r", "\n"} THEN recent[1] ELSE Append(recent[1], ch)
    <3>1. /\ t \in Seq(Seq(Printed)) /\ Len(t) = Len(recent)
          /\ \A k \in 1 .. Len(recent) :
               t[k] = IF k = 1 /\ ch \notin {"\r", "\n"} THEN Append(recent[1], ch) ELSE recent[k]
      BY FbTypedLines
    <3> HIDE DEF t
    <3>2. ASSUME NEW k \in 1 .. Len(t) PROVE Len(t[k]) <= w
      <4>1. recent[k] \in Seq(Printed) /\ Len(recent[k]) <= w
        BY <1>1, <1>2, <3>1 DEF FbInv
      <4>2. CASE k = 1 /\ ch \notin {"\r", "\n"}
        <5>1. t[k] = Append(recent[1], ch) /\ recent[1] \in Seq(Printed) /\ Len(recent[1]) = cony
          <6>1. t[k] = Append(recent[1], ch)
            BY <3>1, <4>2
          <6>2. ~pending /\ Len(recent) >= 1
            BY <1>2, <1>3, <3>1, <4>2
          <6> QED BY <1>2, <4>1, <4>2, <6>1, <6>2
        <5>2. Len(t[k]) = cony + 1
          BY <5>1
        <5> QED BY <1>2, <5>2
      <4>3. CASE ~(k = 1 /\ ch \notin {"\r", "\n"})
        BY <3>1, <4>1, <4>3
      <4> QED BY <4>2, <4>3
    <3> QED BY <3>1, <3>2
  <2>8. ASSUME NEW j \in 1 .. Len(recent),
               Fb!Ends(cony, ch) => /\ FbLine(conx, j) # out.x
                                    /\ FbLine(conx, j) \notin Fb!AheadOf(out.x)
        PROVE  FbText(out.screen, FbLine(conx, j), t[j])
    BY <1>3, <1>5, <2>2, <2>4, <2>8, FbTypedKept
  <2> HIDE DEF t
  <2>9. CASE ~Fb!Ends(cony, ch)
    <3>1. recent' = t /\ conx' = conx
      BY <2>1, <2>4, <2>9, <2>2 DEF FbMoved
    <3>2. ch # "\n" /\ ~pending
      BY <1>3, <2>9 DEF Fb!Ends
    <3>3. ~pending' /\ Len(recent') >= 1 => Len(recent'[1]) = cony'
      <4> SUFFICES ASSUME ~pending', Len(recent') >= 1 PROVE Len(recent'[1]) = cony'
        OBVIOUS
      <4>1. ch \notin {"\r", "\n"} /\ cony' = cony + 1
        BY <1>3, <2>1, <2>2, <2>4, <2>9, <3>2 DEF FbMoved
      <4>2. t[1] = Append(recent[1], ch) /\ Len(recent[1]) = cony /\ recent[1] \in Seq(Printed)
        BY <1>2, <2>7, <3>1, <3>2, <4>1
      <4> QED BY <3>1, <4>1, <4>2
    <3>4. pending' => cony' = 0
      BY <1>3, <2>1, <2>2, <2>4, <2>9, <3>2 DEF FbMoved
    <3>5. \A k \in 1 .. Len(recent') : FbText(screen', FbLine(conx', k), recent'[k])
      BY <2>1, <2>7, <2>8, <2>9, <3>1
    <3> QED BY <1>1, <1>2, <1>3, <1>5, <2>5, <2>6, <2>7, <3>1, <3>3, <3>4, <3>5 DEF FbInv
  <2>10. CASE Fb!Ends(cony, ch)
    <3>1. recent' = Fb!Entered(t) /\ conx' = Fb!NextLine(conx)
      BY <2>1, <2>2, <2>4, <2>10 DEF FbMoved
    <3>2. ch # "\r" /\ ~pending' /\ cony' = 0
      BY <1>2, <1>3, <2>1, <2>2, <2>4, <2>10 DEF FbMoved, Fb!Ends
    <3>3. /\ recent' \in Seq(Seq(Printed)) /\ Len(recent') <= n
          /\ \A k \in 1 .. Len(recent') :
               /\ k = 1 => recent'[k] = << >>
               /\ k # 1 => /\ k \in 2 .. Fb!Kept /\ k - 1 \in 1 .. Len(t)
                           /\ recent'[k] = t[k - 1]
      BY <1>1, <1>2, <2>7, <3>1, FbEnteredLines
    <3>4. Len(recent') >= 1 => Len(recent'[1]) = cony'
      BY <3>2, <3>3
    <3>5. ASSUME NEW k \in 1 .. Len(recent') PROVE Len(recent'[k]) <= w
      <4>1. CASE k = 1
        <5>1. recent'[k] = << >>
          BY <3>3, <4>1
        <5> QED BY <1>1, <5>1
      <4>2. CASE k # 1
        <5>1. recent'[k] = t[k - 1] /\ k - 1 \in 1 .. Len(t)
          BY <3>3, <4>2
        <5> QED BY <2>7, <5>1
      <4> QED BY <4>1, <4>2
    <3>6. ASSUME NEW k \in 1 .. Len(recent')
          PROVE  FbText(screen', FbLine(conx', k), recent'[k])
      <4>1. CASE k = 1
        BY <3>3, <4>1 DEF FbText
      <4>2. CASE k # 1
        <5>1. PICK j \in 1 .. Len(recent) : j = k - 1 /\ recent'[k] = t[j]
          BY <2>7, <3>3, <4>2
        <5>2. /\ FbLine(conx', k) = FbLine(conx, j) /\ FbLine(conx, j) # out.x
              /\ FbLine(conx, j) \notin Fb!AheadOf(out.x)
          BY <1>2, <2>1, <3>1, <3>3, <4>2, <5>1, FbEntered
        <5> QED BY <2>1, <2>8, <5>1, <5>2
      <4> QED BY <4>1, <4>2
    <3> QED BY <1>1, <1>3, <1>5, <2>5, <2>6, <3>2, <3>3, <3>4, <3>5, <3>6 DEF FbInv
  <2> QED BY <2>9, <2>10
<1> QED BY <1>2, <1>4, <1>5

(* Whatever the size of the screen and of a line and whatever is printed,  *)
(* the last lines but those cleared ahead can be read, there is one cursor *)
(* and nothing is drawn outside of the frame buffer (fbputc, fbconcls).    *)
THEOREM ConsoleShowsLines ==
  ASSUME Fb!FbAssumption
  PROVE  Fb!Spec => []RecentLinesShown
<1>1. Fb!Init => FbInv
  BY FbStarts
<1>2. FbInv /\ [Fb!Next]_(Fb!vars) => FbInv'
  <2> SUFFICES ASSUME FbInv, [Fb!Next]_(Fb!vars) PROVE FbInv'
    OBVIOUS
  <2>1. CASE Fb!JumpHandler
    BY <2>1, FbJumps
  <2>2. CASE \E ch \in Printed \cup {"\r", "\n"} : Fb!Putchar(ch)
    BY <2>2, FbPrints
  <2>3. CASE UNCHANGED Fb!vars
    BY <2>3 DEF FbInv, Fb!vars
  <2> QED BY <2>1, <2>2, <2>3 DEF Fb!Next
<1>3. FbInv => RecentLinesShown
  <2> SUFFICES ASSUME FbInv, fbconenable
               PROVE  /\ \A k \in DOMAIN recent :
                           Fb!LineShown((conx + 1 - k + Fb!conrows) % Fb!conrows, recent[k])
                      /\ ~pending => \A c \in DOMAIN screen :
                           screen[c] = Fb!Cursor <=> c = Fb!Cell(conx, cony)
                      /\ \A c \in DOMAIN screen : Fb!OnScreen(c)
    BY DEF RecentLinesShown, Fb!RecentLinesShown
  <2>1. ASSUME NEW k \in DOMAIN recent
        PROVE Fb!LineShown((conx + 1 - k + Fb!conrows) % Fb!conrows, recent[k])
    <3>1. k \in 1 .. Len(recent)
      BY DEF FbInv
    <3>2. FbText(screen, FbLine(conx, k), recent[k])
      BY <3>1 DEF FbInv
    <3> QED BY <3>2 DEF FbText, FbLine, Fb!LineShown
  <2>2. ~pending => \A c \in DOMAIN screen : screen[c] = Fb!Cursor <=> c = Fb!Cell(conx, cony)
    BY DEF FbInv, FbCursorAt
  <2>3. \A c \in DOMAIN screen : Fb!OnScreen(c)
    BY FbCellFits DEF FbInv
  <2> QED BY <2>1, <2>2, <2>3
<1> QED BY <1>1, <1>2, <1>3, PTL DEF Fb!Spec
-----------------------------------------------------------------------------
(* The serial drivers: the device's registers are where they are sought,   *)
(* and every character goes out once and in order.                         *)

SerReg(d, i) == Serial!Program(d)[i][1]
SerVal(d, i) == Serial!Program(d)[i][2]
SerText == Chars \cup {"nl", "cr"}

(* The board as it was built, after the jump, and on the portio bus.       *)
SerPaths == Seq([kind : {"port", "memory"}, base : Nat])
SerBoards == [driver : {"rpi2", "ns16550", "boot"}, path : SerPaths, base : Nat, mapped : Nat, device : Nat]
SerBoard(b) ==
  /\ board \in SerBoards
  /\ board.driver = b.driver /\ board.mapped = b.mapped /\ board.device = b.device
  /\ \/ ~jumped /\ board.path = b.path /\ board.base = b.base
     \/ jumped /\ b.driver # "boot" /\ board.path = b.path /\ board.base = b.mapped
     \/ /\ jumped /\ b.driver = "ns16550" /\ Len(b.path) = 1
        /\ board.path = <<Serial!Portio>> /\ board.base = b.mapped

(* What the line control register holds after the first k writes.          *)
SerLcr(d, k) ==
  IF d = "ns16550" THEN IF k < 2 THEN -1 ELSE IF k < 5 THEN 128 ELSE 3
  ELSE IF k < 4 THEN -1 ELSE 3

(* The registers hold what was last written to them.                       *)
SerSet(d, rs, k) ==
  /\ k \in 0 .. Len(Serial!Program(d))
  /\ DOMAIN rs = DOMAIN Serial!Offset(d)
  /\ rs.LCR = SerLcr(d, k)
  /\ \A i \in 1 .. k :
       (\A j \in i + 1 .. k : SerReg(d, j) # SerReg(d, i)) => rs[SerReg(d, i)] = SerVal(d, i)

(* The text asked for.                                                      *)
SerWanted(d, c) == IF d = "boot" /\ c = "nl" THEN <<"cr", "nl">> ELSE <<c>>
SerAsked(d, p) ==
  LET asked[n \in 0 .. Len(p)] == IF n = 0 THEN << >> ELSE asked[n - 1] \o SerWanted(d, p[n])
  IN asked[Len(p)]

SerInv ==
  /\ \E b \in Boards : SerBoard(b)
  /\ SerSet(board.driver, regs, at)
  /\ jumped \in BOOLEAN /\ polled \in BOOLEAN
  /\ todo # << >> => Serial!Ready
  /\ polled => todo # << >> /\ Len(fifo) < FifoSize
  /\ line \in Seq(SerText) /\ fifo \in Seq(SerText) /\ todo \in Seq(SerText)
  /\ put \in Seq(Chars)
  /\ line \o fifo \o todo = SerAsked(board.driver, put)

(* Each register is where its device has it.                               *)
SerDecodes ==
  \A r \in DOMAIN Serial!Offset(board.driver) : Serial!Physical(Serial!BusAddress(board.path, board.base, Serial!Offset(board.driver)[r]))
                       = board.device + Serial!Offset(board.driver)[r]

LEMMA SerOffsets ==
  ASSUME NEW d, NEW r \in DOMAIN Serial!Offset(d)
  PROVE  Serial!Offset(d)[r] \in Nat
BY DEF Serial!Offset, Serial!RpiOffset, Serial!NsOffset

LEMMA SerAboveRoot == Serial!Above(<<Serial!Portio>>) = 0 /\ Serial!Root(<<Serial!Portio>>) = "port"
<1> DEFINE p == <<Serial!Portio>>
           sum[n \in 0 .. Len(p) - 1] == IF n = 0 THEN 0 ELSE sum[n - 1] + p[n].base
<1>1. Len(p) = 1 /\ p[1] = Serial!Portio /\ Serial!Portio.kind = "port"
  BY DEF Serial!Portio
<1>2. Serial!Above(p) = sum[Len(p) - 1]
  BY DEF Serial!Above
<1>3. sum = [n \in 0 .. Len(p) - 1 |-> IF n = 0 THEN 0 ELSE sum[n - 1] + p[n].base]
  <2> DEFINE g == [n \in {0} |-> 0]
             E(h) == [n \in 0 .. Len(p) - 1 |-> IF n = 0 THEN 0 ELSE h[n - 1] + p[n].base]
  <2>1. 0 .. Len(p) - 1 = {0}
    BY <1>1
  <2>2. g = E(g)
    BY <2>1
  <2>3. sum = CHOOSE h : h = E(h)
    OBVIOUS
  <2> HIDE DEF g, E, sum, p
  <2>4. sum = E(sum)
    BY <2>2, <2>3
  <2> QED BY <2>4 DEF E
<1> HIDE DEF sum, p
<1>4. Serial!Above(p) = 0
  <2>1. 0 \in 0 .. Len(p) - 1 /\ Len(p) - 1 = 0
    BY <1>1
  <2>2. sum[0] = 0
    BY <1>3, <2>1
  <2> QED BY <1>2, <2>1, <2>2
<1>5. Serial!Root(p) = "port"
  BY <1>1 DEF Serial!Root
<1> QED BY <1>4, <1>5 DEF p

(* Where an access ends, given the bus address it should end at.           *)
LEMMA SerReached ==
  ASSUME NEW a \in Nat, NEW t \in Nat, NEW s \in Nat \ {0}, t < s
  PROVE  a = t => a % s = t
OBVIOUS

(* The buses above a root add a number.                                    *)
LEMMA SerAbove ==
  ASSUME NEW p \in SerPaths, p # << >>
  PROVE  Serial!Above(p) \in Nat
<1> DEFINE top == Len(p) - 1
           sum[n \in 0 .. Len(p) - 1] == IF n = 0 THEN 0 ELSE sum[n - 1] + p[n].base
           E(h) == [n \in 0 .. Len(p) - 1 |-> IF n = 0 THEN 0 ELSE h[n - 1] + p[n].base]
           g == [n \in 0 .. top - 1 |-> [x \in Nat |-> x + p[n + 1].base]]
           R(h) == \A n \in 0 .. top - 1 : h[n + 1] = g[n][h[n]]
<1>1. top \in Nat /\ \A n \in 0 .. top - 1 : n + 1 \in 1 .. Len(p) /\ p[n + 1].base \in Nat
  <2> DEFINE S == [kind : {"port", "memory"}, base : Nat]
  <2>1. \A x \in S : x.base \in Nat
    OBVIOUS
  <2> HIDE DEF S
  <2>2. Len(p) \in Nat /\ Len(p) # 0 /\ \A n \in 1 .. Len(p) : p[n] \in S
    <3>1. p \in Seq(S)
      BY DEF S, SerPaths
    <3> HIDE DEF S
    <3> QED BY <3>1
  <2>3. ASSUME NEW n \in 0 .. top - 1 PROVE n + 1 \in 1 .. Len(p)
    BY <2>2
  <2> QED BY <2>1, <2>2, <2>3
<1>2. Serial!Above(p) = sum[top]
  BY DEF Serial!Above
<1>3. g \in [0 .. top - 1 -> [Nat -> Nat]]
  BY <1>1
<1>4. PICK h \in [0 .. top -> Nat] : RecursTo(h, 0, g, top)
  <2> HIDE DEF g, top
  <2> QED BY <1>1, <1>3, BoundedRecursion
<1>5. h = E(h)
  <2>1. h[0] = 0 /\ \A n \in 0 .. top - 1 : h[n + 1] = g[n][h[n]]
    BY <1>4 DEF RecursTo
  <2>2. ASSUME NEW n \in 0 .. top, n # 0 PROVE h[n] = h[n - 1] + p[n].base
    <3> HIDE DEF top, sum
    <3>1. n - 1 \in 0 .. top - 1 /\ (n - 1) + 1 = n /\ n - 1 \in 0 .. top
      BY <1>1, <2>2
    <3>2. h[n - 1] \in Nat
      BY <1>4, <3>1
    <3>3. g[n - 1][h[n - 1]] = h[n - 1] + p[(n - 1) + 1].base
      BY <3>1, <3>2
    <3> QED BY <2>1, <3>1, <3>3
  <2>3. 0 .. Len(p) - 1 = 0 .. top
    OBVIOUS
  <2> HIDE DEF top
  <2>4. h = [n \in 0 .. top |-> IF n = 0 THEN 0 ELSE h[n - 1] + p[n].base]
    BY <1>4, <2>1, <2>2
  <2> QED BY <2>3, <2>4
<1>6. sum = E(sum)
  <2>1. sum = CHOOSE f : f = E(f)
    OBVIOUS
  <2> HIDE DEF sum, E
  <2> QED BY <1>5, <2>1
<1> HIDE DEF sum, g
<1> DEFINE Bad == {n \in 0 .. top : ~(sum[n] \in Nat)}
<1>7. Bad = {}
  <2> SUFFICES ASSUME Bad # {} PROVE FALSE
    OBVIOUS
  <2>1. PICK n \in Bad : \A k \in Bad : n <= k
    <3>1. Bad \subseteq Nat
      BY <1>1
    <3> HIDE DEF Bad
    <3> QED BY <3>1, NatLeast, Zenon
  <2>2. n \in 0 .. top /\ ~(sum[n] \in Nat)
    BY <2>1
  <2>3. n # 0
    BY <1>6, <2>2
  <2>4. n - 1 \in 0 .. top - 1 /\ (n - 1) + 1 = n /\ n - 1 \in 0 .. top /\ ~(n <= n - 1)
    BY <1>1, <2>2, <2>3
  <2>5. sum[n - 1] \in Nat
    BY <2>1, <2>4
  <2>6. p[n].base \in Nat
    BY <1>1, <2>4
  <2>7. sum[n] = sum[n - 1] + p[n].base
    BY <1>6, <2>2, <2>3
  <2> QED BY <2>2, <2>5, <2>6, <2>7
<1>8. top \in 0 .. top /\ top \notin Bad
  BY <1>1, <1>7
<1> QED BY <1>2, <1>8

LEMMA SerReaches ==
  ASSUME Serial!UartAssumption, NEW b \in Boards, SerBoard(b)
  PROVE  SerDecodes /\ board.driver = b.driver /\ board.device = b.device
<1>1. /\ b.base \in Nat /\ b.mapped \in Nat /\ b.device \in Nat /\ Serial!Above(b.path) \in Nat
      /\ b.base + Serial!Above(b.path) = b.device
      /\ Serial!Wired(b)
  <2>1. Serial!Wired(b)
    BY DEF Serial!UartAssumption
  <2> QED BY <2>1, SerAbove DEF Serial!Wired, SerPaths
<1>2. KOFFSET \in Nat \ {0} /\ PortSpace \in Nat \ {0} /\ AddrSpace \in Nat \ {0}
  BY DEF Serial!UartAssumption
<1>3. PICK u \in Nat \ {0} : u = Serial!Space(b.path)
  BY <1>2 DEF Serial!Space
<1>4. board.driver = b.driver /\ board.device = b.device
  BY DEF SerBoard
<1>5. ASSUME NEW r \in DOMAIN Serial!Offset(board.driver)
      PROVE Serial!Physical(Serial!BusAddress(board.path, board.base, Serial!Offset(board.driver)[r]))
              = board.device + Serial!Offset(board.driver)[r]
  <2>1. PICK o \in Nat : o = Serial!Offset(b.driver)[r]
    BY <1>4, SerOffsets
  <2>2. /\ b.device + o < KOFFSET /\ b.device + o < u
        /\ b.mapped = b.base + KOFFSET => b.driver = "boot" \/ b.mapped = b.base \/ b.device + o + KOFFSET < u
        /\ b.driver = "ns16550" /\ Len(b.path) = 1 => b.mapped = b.device /\ b.device + o < PortSpace
    <3>1. b.device + o \in {b.device + Serial!Offset(b.driver)[q] : q \in DOMAIN Serial!Offset(b.driver)}
      BY <1>4, <2>1
    <3> QED BY <1>1, <1>3, <3>1 DEF Serial!Wired
  <2>6. PICK t \in Nat : t = b.device + o
    BY <1>1, <2>1
  <2>3. CASE ~jumped /\ board.path = b.path /\ board.base = b.base
    <3>1. (b.base + o + Serial!Above(b.path)) % u = b.device + o
      <4>1. b.base + o + Serial!Above(b.path) = t
        BY <1>1, <2>1, <2>6
      <4> QED BY <1>3, <2>2, <2>6, <4>1, SerReached
    <3> QED BY <1>3, <1>4, <2>1, <2>3, <3>1 DEF Serial!BusAddress, Serial!Physical
  <2>4. CASE jumped /\ b.driver # "boot" /\ board.path = b.path /\ board.base = b.mapped
    <3>1. board.path = b.path /\ board.base = b.mapped
      BY <2>4
    <3>2. CASE b.mapped = b.base
      <4>1. (b.mapped + o + Serial!Above(b.path)) % u = b.device + o
        <5>1. b.mapped + o + Serial!Above(b.path) = t
          BY <1>1, <2>1, <2>6, <3>2
        <5> QED BY <1>3, <2>2, <2>6, <5>1, SerReached
      <4>2. ~(b.device + o >= KOFFSET)
        BY <1>1, <1>2, <2>1, <2>2
      <4> QED BY <1>3, <1>4, <2>1, <3>1, <4>1, <4>2 DEF Serial!BusAddress, Serial!Physical
    <3>3. CASE b.mapped # b.base
      <4>1. b.mapped = b.base + KOFFSET /\ Serial!Root(b.path) = "memory" /\ b.device + o + KOFFSET < u
        BY <1>1, <2>2, <2>4, <3>3 DEF Serial!Wired
      <4>2. (b.mapped + o + Serial!Above(b.path)) % u = b.device + o + KOFFSET
        <5>1. b.mapped + o + Serial!Above(b.path) = t + KOFFSET /\ t + KOFFSET \in Nat
          BY <1>1, <1>2, <2>1, <2>6, <4>1
        <5> QED BY <1>3, <2>6, <4>1, <5>1, SerReached
      <4>3. b.device + o + KOFFSET >= KOFFSET /\ (b.device + o + KOFFSET) - KOFFSET = b.device + o
        BY <1>1, <1>2, <2>1
      <4> QED BY <1>3, <1>4, <2>1, <2>4, <3>1, <4>1, <4>2, <4>3 DEF Serial!BusAddress, Serial!Physical
    <3> QED BY <3>2, <3>3
  <2>5. CASE /\ b.driver = "ns16550" /\ Len(b.path) = 1
             /\ board.path = <<Serial!Portio>> /\ board.base = b.mapped
    <3> DEFINE p == <<Serial!Portio>>
    <3>1. board.path = p /\ board.base = b.mapped
      BY <2>5
    <3>2. Serial!Above(p) = 0 /\ Serial!Root(p) = "port"
      BY SerAboveRoot
    <3> HIDE DEF p
    <3>3. Serial!Space(p) = PortSpace
      BY <3>2 DEF Serial!Space
    <3>4. (b.mapped + o + 0) % PortSpace = b.device + o
      <4>1. b.mapped + o + 0 = b.device + o /\ b.device + o < PortSpace
        BY <1>1, <2>1, <2>2, <2>5
      <4> QED BY <1>2, <2>6, <4>1, SerReached
    <3> QED BY <1>4, <2>1, <3>1, <3>2, <3>3, <3>4 DEF Serial!BusAddress, Serial!Physical
  <2> QED BY <2>3, <2>4, <2>5 DEF SerBoard
<1> QED BY <1>4, <1>5 DEF SerDecodes

(* The registers an access to register r reaches.                          *)
LEMMA SerTargets ==
  ASSUME Serial!UartAssumption, SerInv, NEW r \in DOMAIN Serial!Offset(board.driver)
  PROVE  Serial!Target(Serial!Offset(board.driver)[r]) =
           {q \in DOMAIN Serial!Offset(board.driver) :
              /\ Serial!Offset(board.driver)[q] = Serial!Offset(board.driver)[r]
              /\ q \in {"DLL", "DLM"} => Serial!Dlab
              /\ q \in {"DATA", "IER"} => ~Serial!Dlab}
<1>1. PICK b \in Boards : SerBoard(b)
  BY DEF SerInv
<1>2. SerDecodes /\ board.device = b.device /\ b.device \in Nat
  BY <1>1, SerReaches DEF Serial!UartAssumption, Serial!Wired, SerBoard
<1>3. ASSUME NEW q \in DOMAIN Serial!Offset(board.driver)
      PROVE board.device + Serial!Offset(board.driver)[q]
              = Serial!Physical(Serial!BusAddress(board.path, board.base, Serial!Offset(board.driver)[r]))
            <=> Serial!Offset(board.driver)[q] = Serial!Offset(board.driver)[r]
  <2>1. PICK m \in Nat, o \in Nat : m = Serial!Offset(board.driver)[q] /\ o = Serial!Offset(board.driver)[r]
    BY SerOffsets
  <2>2. Serial!Physical(Serial!BusAddress(board.path, board.base, o)) = b.device + o
    BY <1>2, <2>1 DEF SerDecodes
  <2> QED BY <1>2, <2>1, <2>2
<1>4. DOMAIN regs = DOMAIN Serial!Offset(board.driver)
  BY DEF SerInv, SerSet
<1> QED BY <1>3, <1>4 DEF Serial!Target

LEMMA SerRpiFacts ==
  ASSUME NEW d, d # "ns16550"
  PROVE  /\ Serial!Offset(d) = Serial!RpiOffset /\ Len(Serial!Program(d)) = 13
         /\ \A q, r \in DOMAIN Serial!Offset(d) : Serial!Offset(d)[q] = Serial!Offset(d)[r] => q = r
         /\ \A k \in 0 .. 12 :
              /\ SerReg(d, k + 1) \in DOMAIN Serial!Offset(d) \ {"DATA", "DLL", "DLM"}
              /\ SerLcr(d, k + 1) = IF SerReg(d, k + 1) = "LCR" THEN SerVal(d, k + 1) ELSE SerLcr(d, k)
<1>1. Serial!Offset(d) = Serial!RpiOffset /\ Serial!Program(d) = Serial!RpiProgram
  BY DEF Serial!Offset, Serial!Program
<1>2. Len(Serial!RpiProgram) = 13
  BY DEF Serial!RpiProgram
<1>3. \A q, r \in DOMAIN Serial!RpiOffset : Serial!RpiOffset[q] = Serial!RpiOffset[r] => q = r
  BY DEF Serial!RpiOffset
<1>4. ASSUME NEW k \in 0 .. 12
      PROVE /\ Serial!RpiProgram[k + 1][1] \in DOMAIN Serial!RpiOffset \ {"DATA", "DLL", "DLM"}
            /\ Serial!RpiProgram[k + 1][1] = "LCR" => k + 1 = 4
            /\ k + 1 = 4 => Serial!RpiProgram[k + 1] = <<"LCR", 3>>
  BY DEF Serial!RpiOffset, Serial!RpiProgram
<1>5. ASSUME NEW k \in 0 .. 12
      PROVE SerLcr(d, k + 1) = IF SerReg(d, k + 1) = "LCR" THEN SerVal(d, k + 1) ELSE SerLcr(d, k)
  BY <1>1, <1>4 DEF SerLcr, SerReg, SerVal
<1> QED BY <1>1, <1>2, <1>3, <1>4, <1>5 DEF SerReg

LEMMA SerNsFacts ==
  ASSUME NEW d, d = "ns16550"
  PROVE  /\ Serial!Offset(d) = Serial!NsOffset /\ Len(Serial!Program(d)) = 6
         /\ \A q, r \in DOMAIN Serial!Offset(d) :
              Serial!Offset(d)[q] = Serial!Offset(d)[r] =>
                q = r \/ {q, r} = {"DATA", "DLL"} \/ {q, r} = {"IER", "DLM"}
         /\ \A k \in 0 .. 5 :
              /\ SerReg(d, k + 1) \in DOMAIN Serial!Offset(d) \ {"DATA", "IER"}
              /\ SerReg(d, k + 1) \in {"DLL", "DLM"} => SerLcr(d, k) = 128
              /\ SerLcr(d, k + 1) = IF SerReg(d, k + 1) = "LCR" THEN SerVal(d, k + 1) ELSE SerLcr(d, k)
<1>1. Serial!Offset(d) = Serial!NsOffset /\ Serial!Program(d) = Serial!NsProgram
  BY DEF Serial!Offset, Serial!Program
<1>2. Len(Serial!NsProgram) = 6
  BY DEF Serial!NsProgram
<1>3. \A q, r \in DOMAIN Serial!NsOffset : Serial!NsOffset[q] = Serial!NsOffset[r] =>
        q = r \/ {q, r} = {"DATA", "DLL"} \/ {q, r} = {"IER", "DLM"}
  BY DEF Serial!NsOffset
<1>4. Serial!LCR.DLAB = 128 /\ Serial!LCR.DATA_8BIT + Serial!LCR.STOP_1BIT + Serial!LCR.PARITY_NONE = 3
  BY DEF Serial!LCR
<1>5. /\ Serial!NsProgram[1][1] = "FCR" /\ Serial!NsProgram[2] = <<"LCR", 128>>
      /\ Serial!NsProgram[3][1] = "DLL" /\ Serial!NsProgram[4][1] = "DLM"
      /\ Serial!NsProgram[5] = <<"LCR", 3>> /\ Serial!NsProgram[6][1] = "MCR"
  BY <1>4 DEF Serial!NsProgram
<1>6. ASSUME NEW k \in 0 .. 5
      PROVE /\ Serial!NsProgram[k + 1][1] \in DOMAIN Serial!NsOffset \ {"DATA", "IER"}
            /\ Serial!NsProgram[k + 1][1] = "LCR" => k \in {1, 4}
            /\ Serial!NsProgram[k + 1][1] \in {"DLL", "DLM"} => k \in {2, 3}
            /\ k = 1 => Serial!NsProgram[k + 1] = <<"LCR", 128>>
            /\ k = 4 => Serial!NsProgram[k + 1] = <<"LCR", 3>>
  <2>1. k \in {0, 1, 2, 3, 4, 5}
    OBVIOUS
  <2> QED BY <1>5, <2>1 DEF Serial!NsOffset
<1>7. ASSUME NEW k \in 0 .. 5
      PROVE /\ SerReg(d, k + 1) \in {"DLL", "DLM"} => SerLcr(d, k) = 128
            /\ SerLcr(d, k + 1) = IF SerReg(d, k + 1) = "LCR" THEN SerVal(d, k + 1) ELSE SerLcr(d, k)
  BY <1>1, <1>6 DEF SerLcr, SerReg, SerVal
<1> QED BY <1>1, <1>2, <1>3, <1>6, <1>7 DEF SerReg

(* Each write of the initialisation reaches the one register it is for.    *)
LEMMA SerInitTarget ==
  ASSUME Serial!UartAssumption, SerInv, NEW d, d = board.driver,
         at < Len(Serial!Program(d))
  PROVE  Serial!Target(Serial!Offset(d)[SerReg(d, at + 1)]) = {SerReg(d, at + 1)}
<1>0. PICK r : r = SerReg(d, at + 1)
  OBVIOUS
<1>1. regs.LCR = SerLcr(d, at) /\ at \in 0 .. Len(Serial!Program(d)) /\ Serial!LCR.DLAB = 128
  BY DEF SerInv, SerSet, Serial!LCR
<1>2. CASE d = "ns16550"
  <2>0. Len(Serial!Program(d)) = 6
    BY <1>2, SerNsFacts
  <2>1. at \in 0 .. 5
    BY <1>1, <2>0
  <2>2. /\ r \in DOMAIN Serial!Offset(d) \ {"DATA", "IER"}
        /\ r \in {"DLL", "DLM"} => SerLcr(d, at) = 128
        /\ \A q \in DOMAIN Serial!Offset(d) :
             Serial!Offset(d)[q] = Serial!Offset(d)[r] =>
               q = r \/ {q, r} = {"DATA", "DLL"} \/ {q, r} = {"IER", "DLM"}
    <3>1. /\ r \in DOMAIN Serial!Offset(d) \ {"DATA", "IER"}
          /\ r \in {"DLL", "DLM"} => SerLcr(d, at) = 128
      BY <1>0, <1>2, <2>1, SerNsFacts
    <3> QED BY <1>2, <3>1, SerNsFacts, ZenonT(40)
  <2>3. r \in {"DLL", "DLM"} => Serial!Dlab
    BY <1>1, <2>2 DEF Serial!Dlab
  <2>4. Serial!Target(Serial!Offset(d)[r]) =
          {q \in DOMAIN Serial!Offset(d) :
              /\ Serial!Offset(d)[q] = Serial!Offset(d)[r]
              /\ q \in {"DLL", "DLM"} => Serial!Dlab
              /\ q \in {"DATA", "IER"} => ~Serial!Dlab}
    BY <2>2, SerTargets
  <2>6. ASSUME NEW q \in DOMAIN Serial!Offset(d), q # r, Serial!Offset(d)[q] = Serial!Offset(d)[r]
        PROVE  (~Serial!Dlab /\ q \in {"DLL", "DLM"}) \/ (Serial!Dlab /\ q \in {"DATA", "IER"})
    <3>1. {q, r} = {"DATA", "DLL"} \/ {q, r} = {"IER", "DLM"}
      BY <2>2, <2>6
    <3>2. q \in {"DATA", "IER"} /\ r \in {"DLL", "DLM"}
      <4>1. r \in {q, r} /\ q \in {q, r}
        OBVIOUS
      <4>2. r \in {"DLL", "DLM"}
        BY <2>2, <3>1, <4>1
      <4> QED BY <2>2, <2>6, <3>1, <4>1, <4>2
    <3> QED BY <2>3, <3>2
  <2>5. Serial!Target(Serial!Offset(d)[r]) = {r}
    BY <2>2, <2>3, <2>4, <2>6
  <2> QED BY <1>0, <2>5
<1>3. CASE d # "ns16550"
  <2>0. Len(Serial!Program(d)) = 13
    BY <1>3, SerRpiFacts
  <2>1. at \in 0 .. 12
    BY <1>1, <2>0
  <2>2. /\ r \in DOMAIN Serial!Offset(d) \ {"DATA", "DLL", "DLM"}
        /\ \A q \in DOMAIN Serial!Offset(d) : Serial!Offset(d)[q] = Serial!Offset(d)[r] => q = r
    <3>1. r \in DOMAIN Serial!Offset(d) \ {"DATA", "DLL", "DLM"}
      BY <1>0, <1>3, <2>1, SerRpiFacts
    <3> QED BY <1>3, <3>1, SerRpiFacts
  <2>3. ~Serial!Dlab
    BY <1>1, <1>3, <2>1 DEF Serial!Dlab, SerLcr
  <2>4. Serial!Target(Serial!Offset(d)[r]) =
          {q \in DOMAIN Serial!Offset(d) :
              /\ Serial!Offset(d)[q] = Serial!Offset(d)[r]
              /\ q \in {"DLL", "DLM"} => Serial!Dlab
              /\ q \in {"DATA", "IER"} => ~Serial!Dlab}
    BY <2>2, SerTargets
  <2>5. Serial!Target(Serial!Offset(d)[r]) = {r}
    BY <2>2, <2>3, <2>4
  <2> QED BY <1>0, <2>5
<1> QED BY <1>2, <1>3

LEMMA SerDataTarget ==
  ASSUME Serial!UartAssumption, SerInv, NEW d, d = board.driver, Serial!Ready
  PROVE  Serial!Target(Serial!Offset(d).DATA) = {"DATA"}
<1>1. regs.LCR = SerLcr(d, at) /\ at = Len(Serial!Program(d)) /\ Serial!LCR.DLAB = 128
  BY DEF SerInv, SerSet, Serial!LCR, Serial!Ready
<1>2. Len(Serial!Program(d)) = IF d = "ns16550" THEN 6 ELSE 13
  BY SerNsFacts, SerRpiFacts
<1>3. ~Serial!Dlab
  BY <1>1, <1>2 DEF Serial!Dlab, SerLcr
<1>4. "DATA" \in DOMAIN Serial!Offset(d)
  BY DEF Serial!Offset, Serial!NsOffset, Serial!RpiOffset
<1>5. \A q \in DOMAIN Serial!Offset(d) :
        Serial!Offset(d)[q] = Serial!Offset(d)["DATA"] => q \in {"DATA", "DLL"}
  <2>1. CASE d = "ns16550"
    BY <1>4, <2>1, SerNsFacts
  <2>2. CASE d # "ns16550"
    BY <1>4, <2>2, SerRpiFacts
  <2> QED BY <2>1, <2>2
<1> QED BY <1>3, <1>4, <1>5, SerTargets

(* The program of either driver, of z writes.                              *)
SerLong(d, z) ==
  /\ Len(Serial!Program(d)) = z
  /\ \A k \in 0 .. z - 1 :
       /\ SerReg(d, k + 1) \in DOMAIN Serial!Offset(d)
       /\ SerLcr(d, k + 1) = IF SerReg(d, k + 1) = "LCR" THEN SerVal(d, k + 1) ELSE SerLcr(d, k)

LEMMA SerFacts == ASSUME NEW d PROVE \E z \in Nat : SerLong(d, z)
<1>1. CASE d = "ns16550"
  <2>1. PICK z \in Nat : z = 6 /\ 0 .. z - 1 = 0 .. 5
    OBVIOUS
  <2>2. SerLong(d, z)
    BY <1>1, <2>1, SerNsFacts DEF SerLong
  <2> QED BY <2>2
<1>2. CASE d # "ns16550"
  <2>1. PICK z \in Nat : z = 13 /\ 0 .. z - 1 = 0 .. 12
    OBVIOUS
  <2>2. SerLong(d, z)
    BY <1>2, <2>1, SerRpiFacts DEF SerLong
  <2> QED BY <2>2
<1> QED BY <1>1, <1>2

LEMMA SerSetNext ==
  ASSUME NEW d, NEW rs, NEW k, SerSet(d, rs, k), k < Len(Serial!Program(d)),
         NEW qs, DOMAIN qs = DOMAIN rs,
         \A q \in DOMAIN rs : qs[q] = IF q = SerReg(d, k + 1) THEN SerVal(d, k + 1) ELSE rs[q]
  PROVE  SerSet(d, qs, k + 1)
<1>1. PICK z \in Nat : SerLong(d, z) /\ z = Len(Serial!Program(d)) /\ k \in 0 .. z - 1
  <2>1. PICK z \in Nat : SerLong(d, z)
    BY SerFacts
  <2>2. Len(Serial!Program(d)) = z /\ k \in 0 .. Len(Serial!Program(d))
    BY <2>1 DEF SerSet, SerLong
  <2>3. k \in 0 .. z - 1
    BY <2>2
  <2> QED BY <2>1, <2>2, <2>3
<1>2. \A i \in 0 .. z - 1 : SerReg(d, i + 1) \in DOMAIN rs
  BY <1>1 DEF SerSet, SerLong
<1>3. "LCR" \in DOMAIN rs
  BY DEF SerSet, Serial!Offset, Serial!NsOffset, Serial!RpiOffset
<1>4. SerLcr(d, k + 1) = IF SerReg(d, k + 1) = "LCR" THEN SerVal(d, k + 1) ELSE SerLcr(d, k)
  BY <1>1 DEF SerLong
<1>5. qs.LCR = SerLcr(d, k + 1)
  BY <1>3, <1>4 DEF SerSet
<1>6. ASSUME NEW i \in 1 .. k + 1, \A j \in i + 1 .. k + 1 : SerReg(d, j) # SerReg(d, i)
      PROVE  qs[SerReg(d, i)] = SerVal(d, i)
  <2>1. SerReg(d, i) \in DOMAIN rs
    <3>1. i - 1 \in 0 .. z - 1 /\ (i - 1) + 1 = i
      BY <1>1
    <3> QED BY <1>2, <3>1
  <2>2. CASE i = k + 1
    BY <2>1, <2>2
  <2>3. CASE i # k + 1
    <3>1. i \in 1 .. k /\ k + 1 \in i + 1 .. k + 1 /\ \A j \in i + 1 .. k : j \in i + 1 .. k + 1
      BY <1>1, <2>3
    <3>2. SerReg(d, k + 1) # SerReg(d, i) /\ rs[SerReg(d, i)] = SerVal(d, i)
      BY <1>6, <3>1 DEF SerSet
    <3> QED BY <2>1, <3>2
  <2> QED BY <2>2, <2>3
<1>7. k + 1 \in 0 .. Len(Serial!Program(d)) /\ DOMAIN qs = DOMAIN Serial!Offset(d)
  BY <1>1 DEF SerSet
<1> QED BY <1>5, <1>6, <1>7 DEF SerSet

(* All is set when the initialisation is over.                             *)
LEMMA SerAllSet ==
  ASSUME NEW d, NEW rs, NEW k, SerSet(d, rs, k), k = Len(Serial!Program(d)),
         NEW i \in DOMAIN Serial!Program(d)
  PROVE  rs[SerReg(d, i)] = Serial!LastSet(d, SerReg(d, i))
<1> DEFINE S == {j \in 1 .. k : SerReg(d, j) = SerReg(d, i)}
           Is(m) == /\ Serial!Program(d)[m][1] = SerReg(d, i)
                    /\ \A j \in DOMAIN Serial!Program(d) :
                         Serial!Program(d)[j][1] = SerReg(d, i) => j <= m
           m == CHOOSE n \in DOMAIN Serial!Program(d) : Is(n)
<1>1. k \in Nat /\ DOMAIN Serial!Program(d) = 1 .. k
  <2>1. DOMAIN Serial!NsProgram = 1 .. 6 /\ Len(Serial!NsProgram) = 6
    BY DEF Serial!NsProgram
  <2>2. DOMAIN Serial!RpiProgram = 1 .. 13 /\ Len(Serial!RpiProgram) = 13
    BY DEF Serial!RpiProgram
  <2> QED BY <2>1, <2>2 DEF Serial!Program
<1>2. \E n \in DOMAIN Serial!Program(d) : Is(n)
  <2>1. S \subseteq 0 .. k /\ i \in S
    BY <1>1
  <2>2. PICK n \in S : \A j \in S : j <= n
    <3> HIDE DEF S
    <3>1. S # {}
      BY <2>1
    <3> QED BY <1>1, <2>1, <3>1, BoundedMost, Zenon
  <2> QED BY <1>1, <2>2 DEF SerReg
<1>3. m \in DOMAIN Serial!Program(d) /\ Is(m)
  <2> HIDE DEF Is
  <2> QED BY <1>2
<1>4. Serial!LastSet(d, SerReg(d, i)) = SerVal(d, m)
  BY DEF Serial!LastSet, SerVal
<1> HIDE DEF m
<1>5. m \in 1 .. k /\ SerReg(d, m) = SerReg(d, i) /\ \A j \in m + 1 .. k : SerReg(d, j) # SerReg(d, m)
  <2>1. \A j \in m + 1 .. k : j \in 1 .. k /\ ~(j <= m)
    BY <1>1, <1>3
  <2> QED BY <1>1, <1>3, <2>1 DEF SerReg
<1> QED BY <1>4, <1>5 DEF SerSet

-----------------------------------------------------------------------------
(* What is asked for grows by one character's text.                        *)
SerJoined(d, p, h) ==
  h = [n \in 0 .. Len(p) |-> IF n = 0 THEN << >> ELSE h[n - 1] \o SerWanted(d, p[n])]

LEMMA SerJoins ==
  ASSUME NEW d, NEW p \in Seq(Chars)
  PROVE  \E h : SerJoined(d, p, h)
<1> DEFINE T == Seq(SerText)
           top == Len(p)
           g == [n \in 0 .. top - 1 |-> [x \in T |-> x \o SerWanted(d, p[n + 1])]]
<1>1. \A c \in Chars : SerWanted(d, c) \in T
  <2>1. ASSUME NEW c \in Chars PROVE SerWanted(d, c) \in Seq(SerText)
    <3>1. <<c>> \in Seq(SerText) /\ <<"cr", "nl">> \in Seq(SerText)
      BY DEF SerText
    <3> QED BY <3>1, Zenon DEF SerWanted
  <2> QED BY <2>1
<1>2. top \in Nat /\ \A n \in 1 .. top : p[n] \in Chars
  OBVIOUS
<1>3. \A x \in T, y \in T : x \o y \in T
  OBVIOUS
<1>4. << >> \in T
  OBVIOUS
<1>5. g \in [0 .. top - 1 -> [T -> T]]
  <2> HIDE DEF T, top
  <2>1. \A n \in 0 .. top - 1 : n + 1 \in 1 .. top
    BY <1>2
  <2> QED BY <1>1, <1>2, <1>3, <2>1
<1>6. PICK h \in [0 .. top -> T] : RecursTo(h, << >>, g, top)
  <2> HIDE DEF g, top, T
  <2> QED BY <1>2, <1>4, <1>5, BoundedRecursion
<1> HIDE DEF T
<1>7. ASSUME NEW n \in 0 .. top, n # 0 PROVE h[n] = h[n - 1] \o SerWanted(d, p[n])
  <2> HIDE DEF top
  <2>1. n - 1 \in 0 .. top - 1 /\ (n - 1) + 1 = n /\ n - 1 \in 0 .. top
    BY <1>2, <1>7
  <2>2. h[n] = g[n - 1][h[n - 1]]
    BY <1>6, <2>1 DEF RecursTo
  <2>3. h[n - 1] \in T
    BY <1>6, <2>1
  <2>4. g[n - 1][h[n - 1]] = h[n - 1] \o SerWanted(d, p[(n - 1) + 1])
    BY <2>1, <2>3
  <2> QED BY <2>1, <2>2, <2>4
<1>8. h[0] = << >>
  BY <1>6 DEF RecursTo
<1>9. h = [n \in 0 .. top |-> IF n = 0 THEN << >> ELSE h[n - 1] \o SerWanted(d, p[n])]
  <2> HIDE DEF top
  <2> QED BY <1>6, <1>7, <1>8
<1> QED BY <1>9 DEF SerJoined

(* There is one such function, so any will do.                             *)
LEMMA SerJoinedOnce ==
  ASSUME NEW d, NEW p \in Seq(Chars), NEW t \in Seq(Chars), NEW k \in Nat,
         k <= Len(p), k <= Len(t), \A n \in 1 .. k : p[n] = t[n],
         NEW f, SerJoined(d, p, f), NEW h, SerJoined(d, t, h)
  PROVE  f[k] = h[k]
<1>1. /\ \A n \in 0 .. k : f[n] = IF n = 0 THEN << >> ELSE f[n - 1] \o SerWanted(d, p[n])
      /\ \A n \in 0 .. k : h[n] = IF n = 0 THEN << >> ELSE h[n - 1] \o SerWanted(d, t[n])
  <2>1. Len(p) \in Nat /\ Len(t) \in Nat
    OBVIOUS
  <2>2. \A n \in 0 .. k : n \in 0 .. Len(p) /\ n \in 0 .. Len(t)
    BY <2>1
  <2> QED BY <2>2 DEF SerJoined
<1> DEFINE Bad == {n \in 0 .. k : f[n] # h[n]}
<1>2. Bad = {}
  <2> SUFFICES ASSUME Bad # {} PROVE FALSE
    OBVIOUS
  <2>1. PICK n \in Bad : \A m \in Bad : n <= m
    <3>1. Bad \subseteq Nat
      OBVIOUS
    <3> HIDE DEF Bad
    <3> QED BY <3>1, NatLeast, Zenon
  <2>2. n \in 0 .. k /\ f[n] # h[n] /\ n # 0
    BY <1>1, <2>1
  <2>3. n - 1 \in 0 .. k /\ n \in 1 .. k /\ ~(n <= n - 1)
    BY <2>2
  <2>4. f[n - 1] = h[n - 1] /\ p[n] = t[n]
    BY <2>1, <2>3
  <2> QED BY <1>1, <2>2, <2>4
<1> QED BY <1>2

LEMMA SerAskedIs ==
  ASSUME NEW d, NEW p \in Seq(Chars), NEW h, SerJoined(d, p, h)
  PROVE  SerAsked(d, p) = h[Len(p)]
<1> DEFINE asked[n \in 0 .. Len(p)] == IF n = 0 THEN << >> ELSE asked[n - 1] \o SerWanted(d, p[n])
           E(f) == [n \in 0 .. Len(p) |-> IF n = 0 THEN << >> ELSE f[n - 1] \o SerWanted(d, p[n])]
<1>1. SerAsked(d, p) = asked[Len(p)]
  BY DEF SerAsked
<1>2. asked = E(asked)
  <2>1. asked = CHOOSE f : f = E(f)
    OBVIOUS
  <2>2. h = E(h)
    BY DEF SerJoined
  <2> HIDE DEF asked, E
  <2> QED BY <2>1, <2>2
<1> HIDE DEF asked
<1>3. SerJoined(d, p, asked)
  BY <1>2 DEF SerJoined
<1>4. asked[Len(p)] = h[Len(p)]
  <2>1. PICK k \in Nat : k = Len(p)
    OBVIOUS
  <2> QED BY <1>3, <2>1, SerJoinedOnce
<1> QED BY <1>1, <1>4

LEMMA SerAskedNext ==
  ASSUME NEW d, NEW p \in Seq(Chars), NEW c \in Chars
  PROVE  SerAsked(d, Append(p, c)) = SerAsked(d, p) \o SerWanted(d, c)
<1>1. PICK t \in Seq(Chars) : t = Append(p, c)
  <2>1. Append(p, c) \in Seq(Chars)
    OBVIOUS
  <2> QED BY <2>1, Zenon
<1>2. PICK k \in Nat : k = Len(p) /\ Len(t) = k + 1 /\ t[k + 1] = c /\ \A n \in 1 .. k : t[n] = p[n]
  BY <1>1
<1>3. PICK f : SerJoined(d, p, f)
  BY SerJoins
<1>4. PICK h : SerJoined(d, t, h)
  BY SerJoins
<1>5. f[k] = h[k]
  BY <1>2, <1>3, <1>4, SerJoinedOnce
<1>6. h[k + 1] = h[k] \o SerWanted(d, c)
  <2>1. k + 1 \in 0 .. Len(t) /\ k + 1 # 0 /\ (k + 1) - 1 = k
    BY <1>2
  <2> QED BY <1>2, <1>4, <2>1 DEF SerJoined
<1>7. SerAsked(d, p) = f[k] /\ SerAsked(d, t) = h[k + 1]
  BY <1>2, <1>3, <1>4, SerAskedIs
<1> QED BY <1>1, <1>5, <1>6, <1>7

LEMMA SerAskedNothing == ASSUME NEW d PROVE SerAsked(d, << >>) = << >>
<1>1. PICK p \in Seq(Chars) : p = << >> /\ Len(p) = 0
  <2>1. << >> \in Seq(Chars) /\ Len(<< >>) = 0
    OBVIOUS
  <2> QED BY <2>1, Zenon
<1>2. PICK h : SerJoined(d, p, h)
  BY SerJoins
<1>3. h[0] = << >>
  BY <1>1, <1>2 DEF SerJoined
<1> QED BY <1>1, <1>2, <1>3, SerAskedIs

-----------------------------------------------------------------------------
(* Texts that are put together can be grouped in any way.                  *)
LEMMA Regroup == \A S : \A a, b, c \in Seq(S) : (a \o b) \o c = a \o (b \o c)
BY ConcatAssociative, SMTT(60)

(* Moving a character over leaves the text as it is.                       *)
LEMMA SerMoved ==
  ASSUME NEW S, NEW s \in Seq(S), NEW t \in Seq(S), t # << >>
  PROVE  /\ Append(s, Head(t)) \in Seq(S) /\ Tail(t) \in Seq(S)
         /\ Append(s, Head(t)) \o Tail(t) = s \o t
<1>1. PICK e \in S, u \in Seq(S) : e = Head(t) /\ u = Tail(t)
  BY HeadTailProperties
<1>2. t = <<e>> \o u
  BY <1>1
<1>3. Append(s, e) = s \o <<e>> /\ <<e>> \in Seq(S)
  BY AppendIsConcat
<1>4. (s \o <<e>>) \o u = s \o (<<e>> \o u)
  BY <1>3, Regroup, SMTT(60)
<1>5. Append(s, e) \in Seq(S)
  OBVIOUS
<1> QED BY <1>1, <1>2, <1>3, <1>4, <1>5

LEMMA SerShift ==
  ASSUME NEW r \in Seq(SerText), NEW s \in Seq(SerText), NEW t \in Seq(SerText), t # << >>
  PROVE  r \o Append(s, Head(t)) \o Tail(t) = r \o s \o t
<1>1. PICK v \in Seq(SerText), u \in Seq(SerText) : v = Append(s, Head(t)) /\ u = Tail(t) /\ v \o u = s \o t
  BY SerMoved
<1>2. (r \o v) \o u = r \o (v \o u)
  BY Regroup, SMTT(60)
<1>3. (r \o s) \o t = r \o (s \o t)
  BY Regroup, SMTT(60)
<1> QED BY <1>1, <1>2, <1>3

LEMMA SerStarts == ASSUME Serial!UartAssumption, Serial!Init PROVE SerInv
<1>1. board \in Boards /\ Serial!Wired(board)
  BY DEF Serial!Init, Serial!UartAssumption
<1>2. SerBoard(board)
  BY <1>1 DEF Serial!Init, SerBoard, SerBoards, SerPaths, Serial!Wired
<1>3. SerSet(board.driver, regs, 0)
  <2>1. PICK z \in Nat : SerLong(board.driver, z)
    BY SerFacts
  <2>2. 0 \in 0 .. Len(Serial!Program(board.driver))
    BY <2>1 DEF SerLong
  <2>3. DOMAIN regs = DOMAIN Serial!Offset(board.driver) /\ "LCR" \in DOMAIN Serial!Offset(board.driver)
    BY DEF Serial!Init, Serial!Offset, Serial!NsOffset, Serial!RpiOffset
  <2>4. regs.LCR = SerLcr(board.driver, 0)
    BY <2>3 DEF Serial!Init, Serial!Unknown, SerLcr
  <2> QED BY <2>2, <2>3, <2>4 DEF SerSet
<1>4. /\ at = 0 /\ todo = << >> /\ fifo = << >> /\ line = << >> /\ put = << >>
      /\ polled = FALSE /\ jumped = FALSE
  BY DEF Serial!Init
<1>5. << >> \in Seq(SerText) /\ << >> \in Seq(Chars) /\ << >> \o << >> \o << >> = << >>
  OBVIOUS
<1>6. SerAsked(board.driver, put) = << >>
  BY <1>4, SerAskedNothing
<1> QED BY <1>1, <1>2, <1>3, <1>4, <1>5, <1>6 DEF SerInv

LEMMA SerStays ==
  ASSUME SerInv, UNCHANGED <<board, jumped, at, regs, fifo, line, todo, polled, put>>
  PROVE  SerInv'
BY DEF SerInv, SerBoard, Serial!Ready

LEMMA SerWritesRegister ==
  ASSUME Serial!UartAssumption, SerInv, Serial!WriteNext
  PROVE  SerInv'
<1>1. PICK d, r : d = board.driver /\ r = SerReg(d, at + 1)
  OBVIOUS
<1>2. at < Len(Serial!Program(d)) /\ at' = at + 1 /\ UNCHANGED <<board, jumped, todo, polled, put>>
  BY <1>1 DEF Serial!WriteNext, Serial!output
<1>3. Serial!BusWrite(Serial!Offset(d)[r], SerVal(d, at + 1))
  BY <1>1 DEF Serial!WriteNext, SerReg, SerVal
<1>4. Serial!Target(Serial!Offset(d)[r]) = {r}
  BY <1>1, <1>2, SerInitTarget
<1>5. PICK z \in Nat : SerLong(d, z) /\ z = Len(Serial!Program(d)) /\ at \in 0 .. z - 1
  <2>1. PICK z \in Nat : SerLong(d, z)
    BY SerFacts
  <2>2. Len(Serial!Program(d)) = z /\ at \in 0 .. Len(Serial!Program(d))
    BY <1>1, <2>1 DEF SerInv, SerSet, SerLong
  <2>3. at \in 0 .. z - 1
    BY <1>2, <2>2
  <2> QED BY <2>1, <2>2, <2>3
<1>6. r # "DATA"
  <2>1. CASE d = "ns16550"
    <3>1. z = 6
      BY <1>5, <2>1, SerNsFacts
    <3>2. at \in 0 .. 5
      BY <1>5, <3>1
    <3> QED BY <1>1, <2>1, <3>2, SerNsFacts
  <2>2. CASE d # "ns16550"
    <3>1. z = 13
      BY <1>5, <2>2, SerRpiFacts
    <3>2. at \in 0 .. 12
      BY <1>5, <3>1
    <3> QED BY <1>1, <2>2, <3>2, SerRpiFacts
  <2> QED BY <2>1, <2>2
<1>7. /\ regs' = [q \in DOMAIN regs |-> IF q = r THEN SerVal(d, at + 1) ELSE regs[q]]
      /\ fifo' = fifo /\ line' = line
  BY <1>3, <1>4, <1>6 DEF Serial!BusWrite
<1>8. SerSet(d, regs', at + 1)
  <2>1. SerSet(d, regs, at)
    BY <1>1 DEF SerInv
  <2>2. /\ DOMAIN regs' = DOMAIN regs
        /\ \A q \in DOMAIN regs : regs'[q] = IF q = SerReg(d, at + 1) THEN SerVal(d, at + 1) ELSE regs[q]
    BY <1>1, <1>7
  <2> QED BY <1>2, <2>1, <2>2, SerSetNext
<1>9. todo = << >>
  <2>1. ~Serial!Ready
    BY <1>1, <1>5 DEF Serial!Ready
  <2> QED BY <2>1 DEF SerInv
<1> QED BY <1>1, <1>2, <1>7, <1>8, <1>9 DEF SerInv, SerBoard

LEMMA SerTakes ==
  ASSUME SerInv, NEW c \in Chars, Serial!Putchar(c) \/ Serial!Bputc(c)
  PROVE  SerInv'
<1>1. PICK d : d = board.driver
  OBVIOUS
<1>2. /\ Serial!Ready /\ todo = << >> /\ todo' = SerWanted(d, c) /\ put' = Append(put, c)
      /\ UNCHANGED <<board, jumped, at, regs, fifo, line, polled>>
  BY <1>1 DEF Serial!Putchar, Serial!Bputc, Serial!Put, Serial!Idle, Serial!device, SerWanted
<1>3. put \in Seq(Chars) /\ line \in Seq(SerText) /\ fifo \in Seq(SerText) /\ ~polled
  BY <1>2 DEF SerInv
<1>4. SerAsked(d, put') = SerAsked(d, put) \o SerWanted(d, c) /\ put' \in Seq(Chars)
  <2>1. PICK p \in Seq(Chars) : p = put
    BY <1>3
  <2>2. SerAsked(d, Append(p, c)) = SerAsked(d, p) \o SerWanted(d, c)
    BY SerAskedNext
  <2>3. Append(p, c) \in Seq(Chars)
    OBVIOUS
  <2> QED BY <1>2, <2>1, <2>2, <2>3
<1>5. line \o fifo = SerAsked(d, put)
  <2>1. line \o fifo \o << >> = SerAsked(d, put)
    BY <1>1, <1>2 DEF SerInv
  <2>2. line \o fifo \in Seq(SerText)
    BY <1>3
  <2> QED BY <2>1, <2>2
<1>6. SerWanted(d, c) \in Seq(SerText)
  <2>1. <<c>> \in Seq(SerText) /\ <<"cr", "nl">> \in Seq(SerText)
    BY DEF SerText
  <2> QED BY <2>1, Zenon DEF SerWanted
<1>7. line' \o fifo' \o todo' = SerAsked(d, put')
  BY <1>2, <1>4, <1>5
<1> QED BY <1>1, <1>2, <1>3, <1>4, <1>6, <1>7 DEF SerInv, SerBoard, Serial!Ready

LEMMA SerPolls ==
  ASSUME Serial!UartAssumption, SerInv, Serial!Poll
  PROVE  SerInv'
<1>1. /\ todo # << >> /\ polled' = TRUE
      /\ UNCHANGED <<board, jumped, at, regs, fifo, line, todo, put>>
  BY DEF Serial!Poll, Serial!device
<1>2. Len(fifo) < FifoSize
  <2>1. FifoSize \in Nat \ {0}
    BY DEF Serial!UartAssumption
  <2>2. fifo = << >> => Len(fifo) = 0
    OBVIOUS
  <2> QED BY <2>1, <2>2 DEF Serial!Poll, Serial!Room
<1> QED BY <1>1, <1>2 DEF SerInv, SerBoard, Serial!Ready

LEMMA SerWrites ==
  ASSUME Serial!UartAssumption, SerInv, Serial!Write
  PROVE  SerInv'
<1>1. PICK d : d = board.driver
  OBVIOUS
<1>2. polled /\ Serial!Ready /\ todo # << >> /\ Len(fifo) < FifoSize
  BY DEF Serial!Write, SerInv
<1>3. /\ Serial!BusWrite(Serial!Offset(d).DATA, Head(todo))
      /\ todo' = Tail(todo) /\ polled' = FALSE /\ UNCHANGED <<board, jumped, at, put>>
  BY <1>1 DEF Serial!Write
<1>4. Serial!Target(Serial!Offset(d).DATA) = {"DATA"}
  BY <1>1, <1>2, SerDataTarget
<1>5. /\ fifo' = Append(fifo, Head(todo)) /\ line' = line
      /\ regs' = [q \in DOMAIN regs |-> regs[q]]
  BY <1>2, <1>3, <1>4 DEF Serial!BusWrite
<1>6. SerSet(d, regs', at')
  <2>1. SerSet(d, regs, at)
    BY <1>1 DEF SerInv
  <2>2. "LCR" \in DOMAIN regs
    BY <2>1 DEF SerSet, Serial!Offset, Serial!NsOffset, Serial!RpiOffset
  <2>3. PICK z \in Nat : SerLong(d, z) /\ z = Len(Serial!Program(d))
    BY SerFacts DEF SerLong
  <2>4. \A i \in 1 .. at : SerReg(d, i) \in DOMAIN regs
    <3>1. ASSUME NEW i \in 1 .. at PROVE i - 1 \in 0 .. z - 1 /\ (i - 1) + 1 = i
      BY <2>1, <2>3 DEF SerSet
    <3> QED BY <2>1, <2>3, <3>1 DEF SerSet, SerLong
  <2>5. /\ DOMAIN regs' = DOMAIN regs /\ regs'.LCR = regs.LCR /\ at' = at
        /\ \A i \in 1 .. at : regs'[SerReg(d, i)] = regs[SerReg(d, i)]
    BY <1>3, <1>5, <2>2, <2>4
  <2> QED BY <2>1, <2>5 DEF SerSet
<1>7. /\ todo \in Seq(SerText) /\ fifo \in Seq(SerText) /\ line \in Seq(SerText)
      /\ line \o fifo \o todo = SerAsked(d, put)
  BY <1>1 DEF SerInv
<1>8. /\ Tail(todo) \in Seq(SerText) /\ Append(fifo, Head(todo)) \in Seq(SerText)
      /\ line \o Append(fifo, Head(todo)) \o Tail(todo) = line \o fifo \o todo
  <2>1. PICK a \in Seq(SerText), b \in Seq(SerText), t \in Seq(SerText) :
          a = line /\ b = fifo /\ t = todo /\ t # << >>
    BY <1>2, <1>7
  <2>2. /\ Append(b, Head(t)) \in Seq(SerText) /\ Tail(t) \in Seq(SerText)
    BY <2>1, SerMoved
  <2>3. a \o Append(b, Head(t)) \o Tail(t) = a \o b \o t
    <3>1. t # << >>
      BY <2>1
    <3> QED BY <3>1, SerShift, Zenon
  <2> QED BY <2>1, <2>2, <2>3
<1> QED BY <1>1, <1>2, <1>3, <1>5, <1>6, <1>7, <1>8 DEF SerInv, SerBoard, Serial!Ready

LEMMA SerSends ==
  ASSUME Serial!UartAssumption, SerInv, Serial!Transmit
  PROVE  SerInv'
<1>1. /\ fifo # << >> /\ line' = Append(line, Head(fifo)) /\ fifo' = Tail(fifo)
      /\ UNCHANGED <<board, jumped, at, regs, todo, polled, put>>
  BY DEF Serial!Transmit, Serial!output
<1>2. /\ todo \in Seq(SerText) /\ fifo \in Seq(SerText) /\ line \in Seq(SerText)
      /\ line \o fifo \o todo = SerAsked(board.driver, put)
  BY DEF SerInv
<1>3. /\ Tail(fifo) \in Seq(SerText) /\ Append(line, Head(fifo)) \in Seq(SerText)
      /\ Append(line, Head(fifo)) \o Tail(fifo) \o todo = line \o fifo \o todo
  <2>1. PICK a \in Seq(SerText), b \in Seq(SerText) : a = line /\ b = fifo /\ b # << >>
    BY <1>1, <1>2
  <2>2. /\ Append(a, Head(b)) \in Seq(SerText) /\ Tail(b) \in Seq(SerText)
        /\ Append(a, Head(b)) \o Tail(b) = a \o b
    BY <2>1, SerMoved
  <2> QED BY <2>1, <2>2
<1>4. Len(Tail(fifo)) < Len(fifo) /\ Len(Tail(fifo)) \in Int /\ Len(fifo) \in Int
  BY <1>1, <1>2
<1>5. polled => Len(fifo') < FifoSize
  <2> SUFFICES ASSUME polled PROVE Len(fifo') < FifoSize
    OBVIOUS
  <2>1. Len(fifo) < FifoSize
    BY DEF SerInv
  <2>2. FifoSize \in Int
    BY DEF Serial!UartAssumption
  <2> QED BY <1>1, <1>4, <2>1, <2>2
<1> QED BY <1>1, <1>2, <1>3, <1>5 DEF SerInv, SerBoard, Serial!Ready

LEMMA SerMoves ==
  ASSUME Serial!UartAssumption, SerInv, Serial!JumpHandler \/ Serial!DevInit
  PROVE  SerInv'
<1>1. PICK b \in Boards : SerBoard(b)
  BY DEF SerInv
<1>2. /\ todo = << >> /\ ~polled
      /\ UNCHANGED <<at, regs, fifo, line, todo, polled, put>>
  BY DEF Serial!JumpHandler, Serial!DevInit, Serial!Idle, Serial!device, Serial!output, SerInv
<1>3. board'.driver = board.driver /\ SerBoard(b)' /\ jumped' \in BOOLEAN
  <2>1. board \in SerBoards /\ jumped \in BOOLEAN
    BY DEF SerInv, SerBoard
  <2>2. CASE Serial!JumpHandler
    <3>1. ~jumped /\ board.driver # "boot" /\ jumped' = TRUE /\ board' = [board EXCEPT !.base = board.mapped]
      BY <2>2 DEF Serial!JumpHandler
    <3>2. /\ board' \in SerBoards /\ board'.driver = board.driver /\ board'.mapped = board.mapped
          /\ board'.device = board.device /\ board'.path = board.path /\ board'.base = board.mapped
      BY <2>1, <3>1 DEF SerBoards
    <3> QED BY <1>1, <3>1, <3>2 DEF SerBoard
  <2>3. CASE Serial!DevInit
    <3>1. /\ jumped /\ board.driver = "ns16550" /\ Len(board.path) = 1 /\ jumped' = jumped
          /\ board' = [board EXCEPT !.path = <<Serial!Portio>>, !.base = board.mapped]
      BY <2>3 DEF Serial!DevInit
    <3>2. <<Serial!Portio>> \in SerPaths
      BY DEF Serial!Portio, SerPaths
    <3>3. /\ board' \in SerBoards /\ board'.driver = board.driver /\ board'.mapped = board.mapped
          /\ board'.device = board.device /\ board'.path = <<Serial!Portio>> /\ board'.base = board.mapped
      BY <2>1, <3>1, <3>2 DEF SerBoards
    <3>4. Len(b.path) = 1
      BY <1>1, <3>1 DEF SerBoard
    <3> QED BY <1>1, <3>1, <3>3, <3>4 DEF SerBoard
  <2> QED BY <2>2, <2>3
<1> QED BY <1>1, <1>2, <1>3 DEF SerInv, Serial!Ready

(* Every character given to putchar is sent, once and in order, and the    *)
(* device has every setting of the driver before, whatever the board: any  *)
(* buses, registers, size of the fifo, and on either side of the jump      *)
(* (uart-rpi2.c, uart-ns16550.c, console.c of the loader).                 *)
THEOREM SerialOutputComplete ==
  ASSUME Serial!UartAssumption
  PROVE  Serial!Spec => []OutputComplete
<1>1. Serial!Init => SerInv
  BY SerStarts
<1>2. SerInv /\ [Serial!Next]_(Serial!vars) => SerInv'
  <2> SUFFICES ASSUME SerInv, [Serial!Next]_(Serial!vars) PROVE SerInv'
    OBVIOUS
  <2>1. CASE Serial!IoMemInit \/ Serial!IoPortInit \/ UNCHANGED Serial!vars
    BY <2>1, SerStays DEF Serial!IoMemInit, Serial!IoPortInit, Serial!vars, Serial!device, Serial!output
  <2>2. CASE Serial!InitRegister \/ Serial!Bioinit
    BY <2>2, SerWritesRegister DEF Serial!InitRegister, Serial!Bioinit
  <2>3. CASE \E c \in Chars : Serial!Putchar(c) \/ Serial!Bputc(c)
    BY <2>3, SerTakes
  <2>4. CASE Serial!Done
    BY <2>4, SerStays DEF Serial!Done, Serial!vars, Serial!device, Serial!output
  <2> QED BY <2>1, <2>2, <2>3, <2>4, SerPolls, SerWrites, SerSends, SerMoves DEF Serial!Next
<1>3. SerInv => OutputComplete
  <2> SUFFICES ASSUME SerInv PROVE OutputComplete
    OBVIOUS
  <2>1. line \o fifo \o todo = Serial!Asked
    BY DEF SerInv, SerAsked, SerWanted, Serial!Asked, Serial!Wanted
  <2>2. ASSUME Serial!Ready, NEW i \in DOMAIN Serial!Program(board.driver)
        PROVE  regs[SerReg(board.driver, i)] = Serial!LastSet(board.driver, SerReg(board.driver, i))
    BY <2>2, SerAllSet DEF SerInv, Serial!Ready
  <2> QED BY <2>1, <2>2 DEF OutputComplete, Serial!OutputComplete, SerReg
<1> QED BY <1>1, <1>2, <1>3, PTL DEF Serial!Spec
=============================================================================
