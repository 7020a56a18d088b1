------------------------------ MODULE Exclusion ------------------------------
(***************************************************************************)
(* What spin_lock and spin_unlock of include/arch/armv7a/asm.h promise to  *)
(* the code between them: a core that asked comes in only when no other is *)
(* there, and stays until it leaves.  In which order the cores that wait   *)
(* are served is left open, as the code leaves it.                         *)
(***************************************************************************)
CONSTANT Cores

VARIABLES
  asking,   \* the cores whose spin_lock has not returned
  inside    \* the cores whose spin_lock has, and that have not called spin_unlock

Empty == asking = {} /\ inside = {}

(* spin_lock is called, by a core that is not in already: it would wait    *)
(* for itself.                                                             *)
Ask(c) ==
  /\ c \notin asking \cup inside
  /\ asking' = asking \cup {c}
  /\ UNCHANGED inside

(* spin_lock returns.                                                      *)
Enter(c) ==
  /\ c \in asking
  /\ inside = {}
  /\ asking' = asking \ {c}
  /\ inside' = {c}

(* spin_unlock                                                             *)
Leave(c) ==
  /\ c \in inside
  /\ inside' = inside \ {c}
  /\ UNCHANGED asking

OneMoves == \E c \in Cores : Ask(c) \/ Enter(c) \/ Leave(c)

Promise == Empty /\ [][OneMoves]_<<asking, inside>>
=============================================================================
