------------------------------ MODULE SeqList ------------------------------
(***************************************************************************)
(* What include/list.h promises its callers: lists are sequences of        *)
(* entries, an entry is in one list at most, and a loop that is safe       *)
(* against removal comes to every entry its list had when the loop began.  *)
(***************************************************************************)
EXTENDS Integers, Sequences

CONSTANTS Lists, Entries

VARIABLES
    lists,  \* list -> the entries in it, in order
    walked, \* the lists a loop runs over: one or none
    rest    \* the entries the loop has still to come to, the current one first

Init == lists = [l \in Lists |-> <<>>] /\ walked = {} /\ rest = <<>>

In(e, l) == \E i \in DOMAIN lists[l] : lists[l][i] = e
Linked(e) == \E l \in Lists : In(e, l)

Without(s, i) == SubSeq(s, 1, i - 1) \o SubSeq(s, i + 1, Len(s))

Add(e, l) ==
    /\ ~Linked(e) /\ l \notin walked
    /\ \/ lists' = [lists EXCEPT ![l] = <<e>> \o @]
       \/ lists' = [lists EXCEPT ![l] = Append(@, e)]
    /\ UNCHANGED <<walked, rest>>

\* A loop's body removes the entry it was given and no other of its list.
Delete(e, l) ==
    /\ l \in walked => (rest # <<>> /\ e = Head(rest))
    /\ \E i \in DOMAIN lists[l] :
         lists[l][i] = e /\ lists' = [lists EXCEPT ![l] = Without(@, i)]
    /\ UNCHANGED <<walked, rest>>

Begin(l) == walked = {} /\ walked' = {l} /\ rest' = lists[l] /\ UNCHANGED lists
Step == rest # <<>> /\ rest' = Tail(rest) /\ UNCHANGED <<lists, walked>>
Finish == walked # {} /\ rest = <<>> /\ walked' = {} /\ UNCHANGED <<lists, rest>>

Next ==
    \/ \E l \in Lists : Begin(l) \/ \E e \in Entries : Add(e, l) \/ Delete(e, l)
    \/ Step \/ Finish

Spec == Init /\ [][Next]_<<lists, walked, rest>>

=============================================================================
