------------------------------ MODULE ArmTrap ------------------------------
(***************************************************************************)
(* Exceptions on ARM (kern/arch/armv7a/alltraps.S, arch_trap.c): the six   *)
(* words each exception mode has for a stack, the trap frame built on the  *)
(* interrupted stack, trap(), and trap_return.  Memory is half-words, for  *)
(* the code stores a word at an odd multiple of two bytes; a word is below *)
(* Half * Half.  Code is interrupted inside trap() as well.                *)
(***************************************************************************)
EXTENDS Integers, Sequences

CONSTANTS
    Half,       \* 2^16, shrunk
    Contexts,   \* registers r0, r1, sp, lr, pc and flags i, f code may have
    MaxDepth    \* bound: exceptions inside exceptions

ArmTrapAssumption ==
    /\ Half \in Nat /\ Half > 28
    /\ LET Word == 0 .. (Half * Half - 9) IN
       Contexts \subseteq [r0 : Word, r1 : Word, sp : Word, lr : Word, pc : Word,
                          i : {0, 1}, f : {0, 1}]

VARIABLES
    cpu,    \* registers and mask flags of the code that runs; r1 stands for r1 to r12
    exc,    \* lr and spsr of the exception mode entered, and its vector
    temp,   \* trap_sp: the half-words of each exception mode's stack
    stack,  \* trap frames on the SYS stack, innermost first
    at,     \* "code", "vector", "switch", "trap" or "spin"
    saved   \* what each interrupted piece of code held, innermost first

vars == <<cpu, exc, temp, stack, at, saved>>

Vectors == {"UND", "SVC", "PABT", "DABT", "IRQ", "FIQ"}
Modes == {"UND", "SVC", "ABT", "IRQ", "FIQ"}
ModeOf(v) == IF v \in {"PABT", "DABT"} THEN "ABT" ELSE v
Number == [UND |-> 4, SVC |-> 8, PABT |-> 12, DABT |-> 16, IRQ |-> 24, FIQ |-> 28]

\* Slip: a data abort goes back like the others.
AdjustSameForAborts == [UND |-> 4, SVC |-> 0, PABT |-> 4, DABT |-> 4, IRQ |-> 4, FIQ |-> 4]

\* What each vector takes off lr
Adjust == [UND |-> 4, SVC |-> 0, PABT |-> 4, DABT |-> 8, IRQ |-> 4, FIQ |-> 4]

\* What the processor put there: the distance from the instruction to go on with
LrOffset == [UND |-> 4, SVC |-> 0, PABT |-> 4, DABT |-> 8, IRQ |-> 4, FIQ |-> 4]

\* The status register: the flags, and whether the mode is SYS
Psr(c, sys) == c.i + 2 * c.f + 4 * (IF sys THEN 1 ELSE 0)
InSys(psr) == psr \div 4 = 1

\* A store and a load of a word at a byte offset
Stored(frame, offset, w) ==
    [frame EXCEPT ![offset \div 2] = w % Half, ![offset \div 2 + 1] = w \div Half]
Loaded(frame, offset) == frame[offset \div 2] + Half * frame[offset \div 2 + 1]

Init ==
    /\ cpu \in Contexts
    /\ exc = [lr |-> 0, spsr |-> 0, vector |-> "SVC"]
    /\ temp = [m \in Modes |-> [h \in 0 .. 11 |-> 0]]
    /\ stack = <<>> /\ at = "code" /\ saved = <<>>

\* The processor takes an exception: masked ones never, IRQs masked from here
\* on, FIQs only by a FIQ.  One taken before the code is back in SYS mode finds
\* an exception mode in spsr.
Exception(v) ==
    /\ at \in {"code", "trap", "vector"} /\ Len(saved) < MaxDepth
    /\ v = "IRQ" => cpu.i = 0
    /\ v = "FIQ" => cpu.f = 0
    /\ at = "vector" => v = "FIQ"
    /\ saved' = <<cpu>> \o saved
    /\ exc' = [lr |-> cpu.pc + LrOffset[v], spsr |-> Psr(cpu, at # "vector"), vector |-> v]
    /\ cpu' = [cpu EXCEPT !.i = 1, !.f = IF v = "FIQ" THEN 1 ELSE @]
    /\ at' = "vector"
    /\ UNCHANGED <<temp, stack>>

\* The vector and enter_sys up to the switch of modes
EnterSys ==
    /\ at = "vector"
    /\ LET m == ModeOf(exc.vector)
           r0Kept == Stored(temp[m], 18, cpu.r0)
           numbered == Stored(r0Kept, 16, Number[exc.vector])
           withSpsr == Stored(numbered, 12, exc.spsr)
           withPc == Stored(withSpsr, 8, exc.lr - Adjust[exc.vector])
       IN  temp' = [temp EXCEPT ![m] = Stored(Stored(withPc, 4, cpu.lr), 0, cpu.sp)]
    /\ cpu' = [cpu EXCEPT !.i = 1, !.f = 1]
    /\ at' = IF InSys(exc.spsr) THEN "switch" ELSE "spin"
    /\ UNCHANGED <<exc, stack, saved>>

\* In SYS mode: the frame goes on the interrupted stack, and trap() runs with
\* registers of its own.
CallTrap ==
    /\ at = "switch"
    /\ LET frame == temp[ModeOf(exc.vector)] IN
        stack' = <<[r0 |-> Loaded(frame, 18), r1 |-> cpu.r1,
                    sp |-> Loaded(frame, 0), lr |-> Loaded(frame, 4),
                    pc |-> Loaded(frame, 8), psr |-> Loaded(frame, 12),
                    vector |-> Loaded(frame, 16)]>> \o stack
    /\ \E c \in Contexts : cpu' = [c EXCEPT !.i = 1, !.f = 1]
    /\ at' = "trap"
    /\ UNCHANGED <<exc, temp, saved>>

TrapReturn ==
    /\ at = "trap"
    /\ LET tf == Head(stack) IN
        cpu' = [r0 |-> tf.r0, r1 |-> tf.r1, sp |-> tf.sp, lr |-> tf.lr, pc |-> tf.pc,
                i |-> tf.psr % 2, f |-> (tf.psr \div 2) % 2]
    /\ stack' = Tail(stack) /\ saved' = Tail(saved)
    /\ at' = IF Len(saved) = 1 THEN "code" ELSE "trap"
    /\ UNCHANGED <<exc, temp>>

\* "b spin", for an exception that came before SYS mode was entered
Spins == at = "spin" /\ UNCHANGED vars

Next == (\E v \in Vectors : Exception(v)) \/ EnterSys \/ CallTrap \/ TrapReturn \/ Spins

Spec == Init /\ [][Next]_vars

-----------------------------------------------------------------------------

Returns == Len(saved') < Len(saved)
Except0(c) == [c EXCEPT !.r0 = 0]

\* Whatever exception interrupts code, and whatever others interrupt its
\* handling, the code goes on at the right instruction with its registers, its
\* stack and its masks, but for r0: the frame passes through a six-word stack
\* per mode that the next exception of that mode overwrites (alltraps.S).
ContextRestored == [][Returns => Except0(cpu') = Except0(Head(saved))]_vars

\* "restore r0 to it's original value" (alltraps.S:72): the code also goes on
\* with the r0 it had.
R0Restored == [][Returns => cpu'.r0 = Head(saved).r0]_vars

=============================================================================
