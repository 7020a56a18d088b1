---------------------------- MODULE MCBootstrap ----------------------------
(* Instances of Bootstrap for TLC.                                         *)
EXTENDS Bootstrap

Doubling == [o \in 0 .. MaxOrder + 1 |-> 2^o]
=============================================================================
