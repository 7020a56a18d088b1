------------------------------ MODULE Console ------------------------------
(***************************************************************************)
(* Console output from every core: kern/dev/console.c over SpinLock, with  *)
(* the boot phases of kern/init that decide who prints and how.            *)
(*                                                                         *)
(* The boot core prints at low addresses, where kputs takes no lock        *)
(* (get_ip() < KOFFSET), jumps, applies the jump handlers (whose           *)
(* set_console re-initialises the lock), prints under the lock, and wakes  *)
(* the other cores one by one, printing between wake-ups.  A woken core    *)
(* jumps to high addresses silently and prints one message.                *)
(***************************************************************************)
EXTENDS SpinLock, Sequences, FiniteSets

CONSTANTS
  BootCore,    \* core 0
  StrLen,      \* characters of every message
  MaxPrints,   \* messages the boot core prints in each phase, at most
  MaxLosses    \* tags the monitor drops of its own accord, at most

ASSUME ConsoleAssumption ==
  /\ BootCore \in Cores
  /\ StrLen \in Nat \ {0}
  /\ MaxPrints \in Nat
  /\ MaxLosses \in Nat

VARIABLES
  phase,    \* phase[c]: "off", "reset" (__puts is NULL), "low" or "high"
  io,       \* io[c]: "idle", "locking" or "putting" (in __puts)
  left,     \* left[c]: characters core c has still to put
  prints,   \* prints[c]: messages core c has finished in this phase
  out,      \* what the UART received: core, message number and position
  losses

consoleVars == <<locked, monitor, r0, pc, phase, io, left, prints, out, losses>>
bootVars == <<phase, prints, losses>>

CInit ==
  /\ Init
  /\ phase = [c \in Cores |-> IF c = BootCore THEN "reset" ELSE "off"]
  /\ io = [c \in Cores |-> "idle"]
  /\ left = [c \in Cores |-> 0]
  /\ prints = [c \in Cores |-> 0]
  /\ out = << >>
  /\ losses = 0

Idle(c) == io[c] = "idle"
MayPrint(c) == Idle(c) /\ prints[c] < IF c = BootCore THEN MaxPrints ELSE 1
\* Slip: kputs never locks.
ShouldLockNever(c) == FALSE
ShouldLock(c) == phase[c] = "high"

-----------------------------------------------------------------------------
(* kputs                                                                   *)

(* Before early_console_init: __puts == NULL, return EOF.                  *)
KputsEOF(c) ==
  /\ MayPrint(c)
  /\ phase[c] = "reset"
  /\ prints' = [prints EXCEPT ![c] = @ + 1]
  /\ UNCHANGED <<lockVars, phase, io, left, out, losses>>

KputsEnter(c) ==
  /\ MayPrint(c)
  /\ phase[c] \in IF c = BootCore THEN {"low", "high"} ELSE {"high"}
  /\ left' = [left EXCEPT ![c] = StrLen]
  /\ \/ ShouldLock(c) /\ Call(c) /\ io' = [io EXCEPT ![c] = "locking"]
     \/ ~ShouldLock(c) /\ io' = [io EXCEPT ![c] = "putting"] /\ UNCHANGED lockVars
  /\ UNCHANGED <<bootVars, out>>

KputsLock(c) ==
  /\ io[c] = "locking"
  /\ \/ (Ldrex(c) \/ Retry(c)) /\ UNCHANGED io
     \/ Strex(c) /\ io' = [io EXCEPT ![c] = "putting"]
  /\ UNCHANGED <<bootVars, left, out>>

(* One __putchar of __kputs.                                               *)
Putchar(c) ==
  /\ io[c] = "putting"
  /\ left[c] > 0
  /\ left' = [left EXCEPT ![c] = @ - 1]
  /\ out' = Append(out, [core |-> c, phase |-> phase[c], msg |-> prints[c], char |-> StrLen - left[c] + 1])
  /\ UNCHANGED <<lockVars, bootVars, io>>

KputsReturn(c) ==
  /\ io[c] = "putting"
  /\ left[c] = 0
  /\ io' = [io EXCEPT ![c] = "idle"]
  /\ prints' = [prints EXCEPT ![c] = @ + 1]
  /\ IF ShouldLock(c) THEN Unlock(c) ELSE UNCHANGED lockVars
  /\ UNCHANGED <<phase, left, out, losses>>

-----------------------------------------------------------------------------
(* Boot phases.                                                            *)

(* set_console: install the output functions, spinlock_init.               *)
SetConsole == locked' = 0 /\ monitor' = NoTags /\ UNCHANGED <<r0, pc>>

(* early_console_init in master_early_init.                                *)
EarlyConsoleInit ==
  /\ phase[BootCore] = "reset"
  /\ Idle(BootCore)
  /\ phase' = [phase EXCEPT ![BootCore] = "low"]
  /\ prints' = [prints EXCEPT ![BootCore] = 0]
  /\ SetConsole
  /\ UNCHANGED <<io, left, out, losses>>

\* Slip: the console is set again after the cores are started.
MasterJumpAgain ==
  /\ phase[BootCore] \in {"low", "high"}
  /\ Idle(BootCore)
  /\ phase' = [phase EXCEPT ![BootCore] = "high"]
  /\ prints' = [prints EXCEPT ![BootCore] = 0]
  /\ SetConsole
  /\ UNCHANGED <<io, left, out, losses>>
(* mmu_jump to master_init, which applies the console's jump handler.      *)
MasterJump ==
  /\ phase[BootCore] = "low"
  /\ Idle(BootCore)
  /\ phase' = [phase EXCEPT ![BootCore] = "high"]
  /\ prints' = [prints EXCEPT ![BootCore] = 0]
  /\ SetConsole
  /\ UNCHANGED <<io, left, out, losses>>

\* Slip: the loop ends after the first core.
StartSlaveOnce(c) ==
  /\ phase[BootCore] = "high"
  /\ Idle(BootCore)
  /\ \A d \in Cores \ {BootCore} : phase[d] = "off"
  /\ phase' = [phase EXCEPT ![c] = IF c = BootCore THEN @ ELSE "low"]
  /\ UNCHANGED <<lockVars, io, left, prints, out, losses>>
(* One turn of mach_start_slaves' loop: the mailbox write releases core c. *)
StartSlave(c) ==
  /\ phase[BootCore] = "high"
  /\ Idle(BootCore)
  /\ phase[c] = "off"
  /\ phase' = [phase EXCEPT ![c] = "low"]
  /\ UNCHANGED <<lockVars, io, left, prints, out, losses>>

(* slave_early_init: mmu_jump to slave_init.                               *)
SlaveJump(c) ==
  /\ c # BootCore
  /\ phase[c] = "low"
  /\ phase' = [phase EXCEPT ![c] = "high"]
  /\ UNCHANGED <<lockVars, io, left, prints, out, losses>>

DropTag(c) ==
  /\ losses < MaxLosses
  /\ LoseTag(c)
  /\ losses' = losses + 1
  /\ UNCHANGED <<phase, io, left, prints, out>>

CoreStep(c) ==
  \/ KputsEnter(c) \/ KputsLock(c) \/ Putchar(c) \/ KputsReturn(c)
  \/ SlaveJump(c)

(* Every core has printed what it will print and spins in while (1).       *)
Done ==
  /\ \A c \in Cores : phase[c] = "high" /\ Idle(c) /\ ~MayPrint(c)
  /\ UNCHANGED consoleVars

CNext ==
  \/ \E c \in Cores : KputsEOF(c) \/ CoreStep(c) \/ StartSlave(c) \/ DropTag(c)
  \/ EarlyConsoleInit
  \/ MasterJump
  \/ Done

CSpec == CInit /\ [][CNext]_consoleVars

(* A core that can take a step takes one: nothing preempts it, and the     *)
(* boot path runs on.                                                      *)
FairCSpec ==
  /\ CSpec
  /\ \A c \in Cores : WF_consoleVars(CoreStep(c)) /\ WF_consoleVars(StartSlave(c))
  /\ WF_consoleVars(EarlyConsoleInit)
  /\ WF_consoleVars(MasterJump)

-----------------------------------------------------------------------------
CTypeOK ==
  /\ TypeOK
  /\ phase \in [Cores -> {"off", "reset", "low", "high"}]
  /\ io \in [Cores -> {"idle", "locking", "putting"}]
  /\ left \in [Cores -> 0 .. StrLen]
  /\ prints \in [Cores -> Nat]
  /\ out \in Seq([core : Cores, phase : {"low", "high"}, msg : Nat, char : 1 .. StrLen])
  /\ losses \in 0 .. MaxLosses

(* "kputs ... Atomic" (include/aim/console.h): the characters of a message *)
(* come out together, whichever core prints it and in whichever phase, so  *)
(* the unlocked prints of the low phase never meet another core's.         *)
MessagesContiguous ==
  CTypeOK /\
  \A n \in DOMAIN out :
    out[n].char > 1 => n > 1 /\ out[n - 1] = [out[n] EXCEPT !.char = @ - 1]

(* "By initializing a lock, caller assumes no code is holding it": when    *)
(* set_console clears the lock, no core is in kputs.                       *)
ConsoleSetWhenIdle ==
  [][EarlyConsoleInit \/ MasterJump => \A c \in Cores : Idle(c) /\ ~Held(c)]_consoleVars

(* Every woken core's hello reaches the console, however the boot core's   *)
(* own prints contend for the lock.                                        *)
EveryCoreSpeaks ==
  \A c \in Cores \ {BootCore} : <>(prints[c] = 1)
=============================================================================
