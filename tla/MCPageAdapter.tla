--------------------------- MODULE MCPageAdapter ---------------------------
(* An instance of PageAdapter for TLC.                                     *)
EXTENDS PageAdapter

Doubling == [o \in 0 .. MaxOrder + 1 |-> 2^o]
=============================================================================
