------------------------------ MODULE DevList ------------------------------
(***************************************************************************)
(* The device index: kern/dev/index/devlist.c behind kern/dev/index/       *)
(* index.c, with drivers that look up their bus by name, add a device and  *)
(* walk the index with for_each_device (include/aim/device.h).             *)
(*                                                                         *)
(* The index is a list sorted by device number.  A driver adds a device    *)
(* once.  An allocation may fail.  The cursor of a walk is saved between   *)
(* two calls of dev_next, and anything may be added or removed meanwhile.  *)
(***************************************************************************)
EXTENDS Integers, Sequences, FiniteSets, SequencesExt

CONSTANTS
  Devices,
  devno,    \* devno[d]: the number of a device; several may be NODEV
  parent,   \* parent[d]: the bus a driver looks up, or Null
  Null,     \* no device
  Junk      \* whatever lies beside the list head or in freed memory

DevicesAssumption ==
  /\ Null \notin Devices /\ Junk \notin Devices /\ Null # Junk
  /\ devno \in [Devices -> Nat]
  /\ parent \in [Devices -> Devices \cup {Null}]
  /\ \A d \in Devices : parent[d] # d

VARIABLES
  ready,   \* has the core initcall installed the list?
  list,    \* the devices of the entries, in list order
  bus,     \* bus[d]: dev->bus, set when d is added
  save,    \* *savep of the walk: a device's entry, Null for the list
           \* head, Junk for an entry freed meanwhile
  cur,     \* dev of the walk; Null before and after it
  met,     \* history: how often a device was met since the walk left the
           \* head, or since it was added
  stayed   \* history: the devices listed since then

history == <<met, stayed>>
vars == <<ready, list, bus, save, cur, history>>

Init ==
  /\ ready = FALSE
  /\ list = << >>
  /\ bus = [d \in Devices |-> Null]
  /\ save = Null
  /\ cur = Null
  /\ met = [d \in Devices |-> 0]
  /\ stayed = {}

Listed == ToSet(list)

(* The core initcall, set_device_index: until then the dummy functions of  *)
(* index.c answer, EOF or NULL.                                            *)
Install ==
  /\ ~ready
  /\ ready' = TRUE
  /\ UNCHANGED <<list, bus, save, cur, history>>

(* dev_from_name, NULL from the dummy index too, whose list is empty.      *)
FromName(name) == IF name \in Listed THEN name ELSE Null

(* The entries the loop of __add passes: up to the first larger one.       *)
\* Slip: the walk stops at the first smaller number.
PassedDescending(d) == {n \in DOMAIN list : \A m \in 1 .. n : devno[list[m]] >= devno[d]}
Passed(d) == {n \in DOMAIN list : \A m \in 1 .. n : devno[list[m]] <= devno[d]}

(* __add of the list, where kmalloc may fail, behind dev_add of index.c.   *)
Add(d) == list' = InsertAt(list, Cardinality(Passed(d)) + 1, d) \/ UNCHANGED list
DevAdd(d) == IF ready THEN Add(d) ELSE UNCHANGED list

(* A driver's new or init: dev->bus = dev_from_name(parent), dev_add, of   *)
(* which the result is ignored.                                            *)
New(d) ==
  /\ d \notin Listed
  /\ bus' = [bus EXCEPT ![d] = FromName(parent[d])]
  /\ DevAdd(d)
  /\ UNCHANGED <<ready, save, cur, history>>

\* Slip: the search ends at the entry to remove.
ConnectedBefore(d) ==
  \E n \in DOMAIN list : bus[list[n]] = d /\ \A m \in 1 .. n : list[m] # d
Connected(d) == \E e \in Listed : bus[e] = d

DevRemove(d) ==
  /\ ready
  /\ IF d \in Listed /\ ~Connected(d)
     THEN /\ list' = RemoveFirst(list, d)
          /\ save' = IF save = d THEN Junk ELSE save
          /\ met' = [met EXCEPT ![d] = 0]
          /\ stayed' = stayed \ {d}
     ELSE UNCHANGED <<list, save, history>>          \* EOF
  /\ UNCHANGED <<ready, bus, cur>>

-----------------------------------------------------------------------------
(* __next                                                                  *)

(* What *savep names after the entry of e (Null: the head): the code       *)
(* compares it with the head itself, though it is the structure around the *)
(* head by then, so it reads a device there.                               *)
After(e) ==
  IF e = Null THEN (IF list = << >> THEN Null ELSE Head(list))
  ELSE LET n == CHOOSE k \in DOMAIN list : list[k] = e
       IN IF n = Len(list) THEN Null ELSE list[n + 1]

(* From the head on, what is met is counted anew.                          *)
Counted(e) ==
  LET before == IF e = Null THEN [d \in Devices |-> 0] ELSE met
  IN /\ met' = [d \in Devices |-> IF d = After(e) THEN before[d] + 1 ELSE before[d]]
     /\ stayed' = IF e = Null THEN Listed ELSE stayed

Step(e) ==
  /\ save' = After(e)
  /\ IF After(e) = Null THEN cur' \in {Null, Junk} ELSE cur' = After(e)
  /\ Counted(e)

WalkStart ==
  /\ cur = Null
  /\ IF ready THEN Step(Null) ELSE UNCHANGED <<save, cur, history>>
  /\ UNCHANGED <<ready, list, bus>>

(* The saved entry is still linked, or is the head.                        *)
WalkOn ==
  /\ cur # Null
  /\ save # Junk
  /\ Step(save)
  /\ UNCHANGED <<ready, list, bus>>

(* It was removed meanwhile, and memory is read after kfree: the list as   *)
(* it was, another entry, or anything.                                     *)
WalkFreed ==
  /\ cur # Null
  /\ save = Junk
  /\ \/ save' \in Listed /\ cur' = save'
     \/ save' \in {Null, Junk} /\ cur' \in {Null, Junk}
  /\ met' = [d \in Devices |-> IF d = save' THEN 1 ELSE 0]
  /\ stayed' = {}
  /\ UNCHANGED <<ready, list, bus>>

Next ==
  \/ Install
  \/ \E d \in Devices : New(d) \/ DevRemove(d)
  \/ WalkStart
  \/ WalkOn
  \/ WalkFreed

Spec == Init /\ [][Next]_vars

-----------------------------------------------------------------------------
(* No device outlives its bus in the index, so a driver that reads         *)
(* dev->bus of a listed device never follows a pointer to a removed one.   *)
BusListed == \A d \in Listed : bus[d] \in Listed \cup {Null}

(* From one end of the list to the other a walk meets every device that is *)
(* listed all the while, none twice, in the order of their numbers, though *)
(* others are added and removed between its steps; unless the entry it is  *)
(* at is freed, after which a new count begins (devlist.c, __next).        *)
InOrder(d, e) == devno[d] <= devno[e]
WalkMeetsEach ==
  save # Junk =>
    /\ \A d \in Devices : met[d] <= 1
    /\ save \in Devices => \A d \in Devices : met[d] > 0 => InOrder(d, save)
    /\ save = Null => \A d \in stayed : met[d] > 0

(* "iterate over all devices" (device.h:207): the loop ends where the list *)
(* does, and does not go on from the head to the first device again.       *)
LoopEnds == [][cur # Null /\ save = Null => save' = Null]_vars
=============================================================================
