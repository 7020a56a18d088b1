----------------------------- MODULE MCKmalloc -----------------------------
(* An instance of Kmalloc for TLC.                                         *)
EXTENDS Kmalloc

Doubling == [l \in MinLevel .. MaxLevel |-> 2^l]
=============================================================================
