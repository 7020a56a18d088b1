------------------------------ MODULE SpinLock ------------------------------
(***************************************************************************)
(* The ARM spinlock of include/arch/armv7a/asm.h, one step per instruction *)
(* that touches the lock word.  ldrex tags the word for the core (the      *)
(* exclusive monitor); any store to the word by another core removes the   *)
(* tag, and the architecture may remove it at any time.  strexeq stores    *)
(* only while the tag is there, and is skipped when ldrex read a 1.        *)
(* spin_unlock and spinlock_init are plain stores.                         *)
(***************************************************************************)
EXTENDS Integers

CONSTANT Cores

VARIABLES
  locked,   \* lock->locked
  monitor,  \* monitor[c]: is the word tagged exclusive for core c?
  r0,       \* r0[c]: the value core c's last ldrex read
  pc        \* where core c is in spin_lock and spin_unlock

lockVars == <<locked, monitor, r0, pc>>

TypeOK ==
  /\ locked \in {0, 1}
  /\ monitor \in [Cores -> BOOLEAN]
  /\ r0 \in [Cores -> {0, 1}]
  /\ pc \in [Cores -> {"out", "ldrex", "strex", "held"}]

NoTags == [c \in Cores |-> FALSE]

(* spinlock_init, before any core uses the lock.                           *)
Init ==
  /\ locked = 0
  /\ monitor = NoTags
  /\ r0 = [c \in Cores |-> 0]
  /\ pc = [c \in Cores |-> "out"]

Goto(c, from, to) == pc[c] = from /\ pc' = [pc EXCEPT ![c] = to]

(* A core enters spin_lock.                                                *)
Call(c) ==
  /\ Goto(c, "out", "ldrex")
  /\ UNCHANGED <<locked, monitor, r0>>

Ldrex(c) ==
  /\ Goto(c, "ldrex", "strex")
  /\ r0' = [r0 EXCEPT ![c] = locked]
  /\ monitor' = [monitor EXCEPT ![c] = TRUE]
  /\ UNCHANGED locked

\* Slip: a plain store, whatever the monitor says.
StrexAlways(c) ==
  /\ r0[c] = 0
  /\ Goto(c, "strex", "held")
  /\ locked' = 1
  /\ monitor' = NoTags
  /\ UNCHANGED r0
(* strexeq is executed and stores 1: result = 0 leaves the loop.           *)
Strex(c) ==
  /\ r0[c] = 0
  /\ monitor[c]
  /\ Goto(c, "strex", "held")
  /\ locked' = 1
  /\ monitor' = NoTags
  /\ UNCHANGED r0

(* strexeq is skipped, or finds the tag gone: result = 1, so loop.         *)
Retry(c) ==
  /\ r0[c] # 0 \/ ~monitor[c]
  /\ Goto(c, "strex", "ldrex")
  /\ UNCHANGED <<locked, monitor, r0>>

Unlock(c) ==
  /\ Goto(c, "held", "out")
  /\ locked' = 0
  /\ monitor' = NoTags
  /\ UNCHANGED r0

(* The monitor may be cleared for reasons of its own.                      *)
LoseTag(c) ==
  /\ monitor[c]
  /\ monitor' = [monitor EXCEPT ![c] = FALSE]
  /\ UNCHANGED <<locked, r0, pc>>

Next ==
  \E c \in Cores :
    \/ Call(c) \/ Ldrex(c) \/ Strex(c) \/ Retry(c) \/ Unlock(c)
    \/ LoseTag(c)

Spec == Init /\ [][Next]_lockVars

-----------------------------------------------------------------------------
Held(c) == pc[c] = "held"

(* Two cores are never both between spin_lock and spin_unlock.             *)
MutualExclusion == \A c, d \in Cores : Held(c) /\ Held(d) => c = d

(* The lock word says whether someone holds it: a core that is spinning on *)
(* a 1 is waiting for someone.                                             *)
LockedMeansHeld == locked = 1 <=> \E c \in Cores : Held(c)

(* A tag that survived to strexeq guarantees ldrex's value is still there. *)
TagMeansUnchanged ==
  \A c \in Cores : pc[c] = "strex" /\ monitor[c] => r0[c] = locked

IInv == TypeOK /\ MutualExclusion /\ LockedMeansHeld /\ TagMeansUnchanged

(* The spinlock keeps the promise: only a core that called spin_lock comes *)
(* out of it, and only when no core is between spin_lock and spin_unlock.  *)
Spinning == {c \in Cores : pc[c] \in {"ldrex", "strex"}}
Holders == {c \in Cores : Held(c)}
Promised == INSTANCE Exclusion WITH asking <- Spinning, inside <- Holders
LockSpec == Promised!Promise
=============================================================================
