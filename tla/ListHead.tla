------------------------------ MODULE ListHead ------------------------------
(***************************************************************************)
(* The circular lists of include/list.h, as pointers: every store of       *)
(* __list_add and __list_del, in the order written, and the loop that is   *)
(* safe against removal.  A deleted entry keeps its old pointers; its      *)
(* caller may link it into another list while the loop goes on.            *)
(***************************************************************************)
EXTENDS Integers, Sequences

CONSTANTS
    Lists, Entries,
    Count           \* how many entries there are

Nodes == Lists \cup Entries

ListAssumption == Lists \cap Entries = {} /\ Lists # {} /\ Count \in Nat

VARIABLES
    next, prev,     \* the two pointers of every node
    walked,         \* the list a loop runs over
    pos, n          \* the loop's cursor and the entry after it

vars == <<next, prev, walked, pos, n>>

\* INIT_LIST_HEAD on every list; entries start with whatever they hold
Init ==
    /\ next = [x \in Nodes |-> x] /\ prev = next
    /\ walked = {} /\ \E l \in Lists : pos = l /\ n = l

\* The entries from x on up to the list's head; a ring has Count at most.
Upto(l, x) ==
    LET from[k \in Nat] ==
            IF k = 0 THEN [y \in Nodes |-> <<>>]
            ELSE [y \in Nodes |-> IF y = l THEN <<>> ELSE <<y>> \o from[k - 1][next[y]]]
    IN  from[Count + 1][x]
In(l) == LET s == Upto(l, next[l]) IN {x \in Entries : \E i \in DOMAIN s : s[i] = x}
IsLinked(x) == \E l \in Lists : x \in In(l)

\* __list_add(new, before, after)
ListAddBetween(new, before, after) ==
    /\ prev' = [[prev EXCEPT ![after] = new] EXCEPT ![new] = before]
    /\ next' = [[next EXCEPT ![new] = after] EXCEPT ![before] = new]

ListAdd(new, l) == ListAddBetween(new, l, next[l])
ListAddTail(new, l) == ListAddBetween(new, prev[l], l)

\* Slip: only one of the neighbours hears of it.
Unlinked(x) == [n |-> [next EXCEPT ![prev[x]] = next[x]], p |-> prev]

\* __list_del(prev, next) and what list_del_init adds
Deleted(x) ==
    [n |-> [next EXCEPT ![prev[x]] = next[x]], p |-> [prev EXCEPT ![next[x]] = prev[x]]]

ListDel(x) == next' = Deleted(x).n /\ prev' = Deleted(x).p

ListDelInit(x) ==
    /\ next' = [Deleted(x).n EXCEPT ![x] = x]
    /\ prev' = [Deleted(x).p EXCEPT ![x] = x]

\* The rules callers keep: an entry is in one list at most, and a loop's body
\* changes its list only by removing the current entry.
Add(x, l) ==
    /\ ~IsLinked(x) /\ l \notin walked
    /\ ListAdd(x, l) \/ ListAddTail(x, l)
    /\ UNCHANGED <<walked, pos, n>>

Delete(x, l) ==
    /\ x \in In(l) /\ (l \in walked => x = pos)
    /\ ListDel(x) \/ ListDelInit(x)
    /\ UNCHANGED <<walked, pos, n>>

\* for_each_entry_safe: its first assignments, its step, its test
Begin(l) ==
    /\ walked = {}
    /\ walked' = {l} /\ pos' = next[l] /\ n' = next[next[l]]
    /\ UNCHANGED <<next, prev>>

\* Slip: the step of for_each_entry, which is not safe.
AfterUnsafe == [pos |-> next[pos], n |-> next[next[pos]]]

After == [pos |-> n, n |-> next[n]]

Step ==
    /\ walked # {} /\ pos \notin walked
    /\ pos' = After.pos /\ n' = After.n
    /\ UNCHANGED <<next, prev, walked>>

Finish == walked # {} /\ pos \in walked /\ walked' = {} /\ UNCHANGED <<next, prev, pos, n>>

Next ==
    \/ \E l \in Lists : Begin(l) \/ \E x \in Entries : Add(x, l) \/ Delete(x, l)
    \/ Step \/ Finish

Spec == Init /\ [][Next]_vars

-----------------------------------------------------------------------------

Rest ==
    IF walked = {} \/ pos \in walked THEN <<>>
    ELSE <<pos>> \o Upto(CHOOSE l \in walked : TRUE, n)

Seqs == INSTANCE SeqList WITH
    lists <- [l \in Lists |-> Upto(l, next[l])], rest <- Rest

\* The pointers implement sequences: adding, deleting and deleting inside a loop,
\* with the entry going straight into another list, do to the lists what SeqList
\* says, and the loop comes to every entry once, in order (list.h).
SeqSpec == Seqs!Spec

=============================================================================
