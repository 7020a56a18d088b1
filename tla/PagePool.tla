------------------------------ MODULE PagePool ------------------------------
(***************************************************************************)
(* What a physical page allocator promises its callers (struct             *)
(* virt_pmalloc, include/aim/pmm.h): malloc returns the first page of a    *)
(* run of pages of the pool that no other caller owns, free gives back the *)
(* run malloc returned, and nothing else changes who owns what.            *)
(***************************************************************************)
EXTENDS Integers

CONSTANT Pool     \* the pages the allocator may hand out

VARIABLE blocks   \* blocks[i]: the run owned by the caller that was given page i

Owned == UNION {blocks[i] : i \in DOMAIN blocks}

Init == blocks = << >>

Alloc(first, run) ==
  /\ first \in run
  /\ run \subseteq Pool
  /\ run \cap Owned = {}
  /\ blocks' = [i \in DOMAIN blocks \cup {first} |->
                  IF i = first THEN run ELSE blocks[i]]

Free(first) ==
  /\ first \in DOMAIN blocks
  /\ blocks' = [i \in DOMAIN blocks \ {first} |-> blocks[i]]

Next ==
  \/ \E first \in DOMAIN blocks : Free(first)
  \/ \E first \in Pool \ Owned : \E last \in Pool : Alloc(first, first .. last)

Spec == Init /\ [][Next]_blocks

(* No page has two owners.                                                 *)
Disjoint ==
  \A i, j \in DOMAIN blocks : i # j => blocks[i] \cap blocks[j] = {}
=============================================================================
