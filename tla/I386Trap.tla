------------------------------ MODULE I386Trap ------------------------------
(***************************************************************************)
(* Traps and interrupts on i386: the interrupt descriptor table, the two   *)
(* 8259A controllers and the dispatch in trap() (kern/arch/i386/           *)
(* arch_trap.c, alltraps.S, vectors.pl, kern/trap/trap.c).  The            *)
(* controllers are programmed by single port writes, between which the     *)
(* processor takes interrupts when it has them on.  They are in edge       *)
(* triggered mode: a rising line latches a request, which goes when it is  *)
(* taken, when the line falls and when ICW1 resets the controller.         *)
(* init.c keeps irq_init and sti in comments; the order assumed here is    *)
(* theirs.                                                                 *)
(***************************************************************************)
EXTENDS Integers, Sequences, FiniteSets

CONSTANTS Irqs, Traps       \* lines devices raise, exceptions code may cause

I386TrapAssumption == Irqs \subseteq (0 .. 15) \ {2} /\ Traps \subseteq 0 .. 31

VARIABLES
    irqmask,    \* the kernel's copy of both masks
    outs,       \* port writes the running function has still to make
    pic,        \* both controllers: next ICW, vector base, mask, lines in service
    slaveEoi,   \* the slave honours automatic EOI, as it "doesn't tend to"
    if,         \* the processor's interrupt flag
    frames,     \* trap frames on the stack, innermost first
    high,       \* lines that devices hold high
    raised,     \* requests latched and not yet taken
    asked,      \* lines irq_enable was called for
    handled,    \* lines handle_interrupt was called for
    owed,       \* history: lines with a request it was not yet called for
    phase       \* "start", "traps", "irqs", "on" or "panic"

lines == <<high, raised, owed>>
vars == <<irqmask, outs, pic, slaveEoi, if, frames, lines, asked, handled, phase>>

T_SYSCALL == 128
T_IRQ0 == 32
IRQ_SLAVE == 2
Pic1 == 32      \* IO_PIC1
Pic2 == 160     \* IO_PIC2
Keyboard == 1   \* its line

Bit(v, i) == (v \div 2^i) % 2 = 1

Init ==
    /\ irqmask = 65535 - 2^IRQ_SLAVE /\ outs = <<>>
    /\ \E m \in {0, 255} : pic = [p \in {Pic1, Pic2} |->
            [icw |-> 1, base |-> IF p = Pic1 THEN 8 ELSE 112, mask |-> m,
             eoi |-> FALSE, service |-> {}]]
    /\ slaveEoi \in BOOLEAN /\ if = FALSE /\ frames = <<>>
    /\ high = {} /\ raised = {} /\ owed = {}
    /\ asked = {} /\ handled = {} /\ phase = "start"

\* The gate init_idt gives a vector: the one for system calls leaves IF alone.
Gate(vector) == IF vector = T_SYSCALL THEN "trap" ELSE "interrupt"

Running == phase # "panic" /\ frames = <<>> /\ outs = <<>>

TrapInit ==
    /\ Running /\ phase = "start"
    /\ phase' = "traps"
    /\ UNCHANGED <<irqmask, outs, pic, slaveEoi, if, frames, lines, asked, handled>>

\* The writes of picsetmask
MaskWrites(mask) == << <<Pic1 + 1, mask % 256>>, <<Pic2 + 1, mask \div 256>> >>

\* Slip: the master is left without automatic EOI.
PicInitNormalEoi ==
    << <<Pic1 + 1, 255>>, <<Pic2 + 1, 255>>,
       <<Pic1, 17>>, <<Pic1 + 1, T_IRQ0>>, <<Pic1 + 1, 2^IRQ_SLAVE>>, <<Pic1 + 1, 1>>,
       <<Pic2, 17>>, <<Pic2 + 1, T_IRQ0 + 8>>, <<Pic2 + 1, IRQ_SLAVE>>, <<Pic2 + 1, 3>> >>

PicInit ==
    << <<Pic1 + 1, 255>>, <<Pic2 + 1, 255>>,
       <<Pic1, 17>>, <<Pic1 + 1, T_IRQ0>>, <<Pic1 + 1, 2^IRQ_SLAVE>>, <<Pic1 + 1, 3>>,
       <<Pic2, 17>>, <<Pic2 + 1, T_IRQ0 + 8>>, <<Pic2 + 1, IRQ_SLAVE>>, <<Pic2 + 1, 3>>,
       <<Pic1, 104>>, <<Pic1, 10>>, <<Pic2, 104>>, <<Pic2, 10>> >>

IrqInit ==
    /\ Running /\ phase = "traps"
    /\ outs' = PicInit \o (IF irqmask # 65535 THEN MaskWrites(irqmask) ELSE <<>>)
    /\ phase' = "irqs"
    /\ UNCHANGED <<irqmask, pic, slaveEoi, if, frames, lines, asked, handled>>

IrqEnable(irq) ==
    /\ Running /\ irq \notin asked
    /\ irqmask' = IF Bit(irqmask, irq) THEN irqmask - 2^irq ELSE irqmask
    /\ outs' = MaskWrites(irqmask')
    /\ asked' = asked \cup {irq}
    /\ UNCHANGED <<pic, slaveEoi, if, frames, lines, handled, phase>>

Sti ==
    /\ Running /\ phase = "irqs"
    /\ if' = TRUE /\ phase' = "on"
    /\ UNCHANGED <<irqmask, outs, pic, slaveEoi, frames, lines, asked, handled>>

Lines(p) == IF p = Pic1 THEN 0 .. 7 ELSE 8 .. 15
Controller(irq) == IF irq < 8 THEN Pic1 ELSE Pic2

IsIcw1(command, v) == command /\ Bit(v, 4)

\* What a controller makes of a byte: ICW1 on the command port starts its
\* initialisation and clears its mask and what it has in service; the data port
\* takes ICW2 to ICW4 during it, the last with automatic EOI in bit 1, and the
\* mask at other times; OCW3 changes nothing modelled here.
PicWritten(p, command, v) ==
    LET c == pic[p] IN
    IF command
    THEN IF IsIcw1(command, v)
         THEN [c EXCEPT !.icw = 2, !.mask = 0, !.eoi = FALSE, !.service = {}]
         ELSE c
    ELSE CASE c.icw = 2 -> [c EXCEPT !.icw = 3, !.base = 8 * (v \div 8)]
           [] c.icw = 3 -> [c EXCEPT !.icw = 4]
           [] c.icw = 4 -> [c EXCEPT !.icw = 1, !.eoi = Bit(v, 1) /\ (p = Pic2 => slaveEoi)]
           [] OTHER     -> [c EXCEPT !.mask = v]

\* ICW1 also resets the edge latches of the controller's lines: a line that is
\* high by then has to fall and to rise again.
Outb ==
    /\ phase # "panic" /\ frames = <<>> /\ outs # <<>>
    /\ LET port == Head(outs)[1]
           v == Head(outs)[2]
           p == IF port < Pic2 THEN Pic1 ELSE Pic2
           lost == IF IsIcw1(port = p, v) THEN Lines(p) ELSE {}
       IN  /\ pic' = [pic EXCEPT ![p] = PicWritten(p, port = p, v)]
           /\ raised' = raised \ lost
           /\ owed' = owed \ lost
    /\ outs' = Tail(outs)
    /\ UNCHANGED <<irqmask, slaveEoi, if, frames, high, asked, handled, phase>>

\* A device raises its line, as often as it likes
Raise(irq) ==
    /\ irq \notin high
    /\ high' = high \cup {irq}
    /\ raised' = raised \cup {irq}
    /\ owed' = owed \cup {irq}
    /\ UNCHANGED <<irqmask, outs, pic, slaveEoi, if, frames, asked, handled, phase>>

\* Vector through gate to alltraps: the frame keeps the number and the flag.
Enter(vector) ==
    /\ frames' = <<[trapno |-> vector, if |-> if]>> \o frames
    /\ if' = (if /\ Gate(vector) = "trap")

\* The lines of a controller are served by rank, the slave's all as line 2.
Rank(irq) == IF irq < 8 THEN <<irq, 0>> ELSE <<IRQ_SLAVE, irq>>
Outranks(a, b) ==
    LET r == Rank(a)
        s == Rank(b)
    IN  r[1] < s[1] \/ (r[1] = s[1] /\ r[2] < s[2])

\* A request reaches the processor unless a mask holds it back, or a line in
\* service that it does not outrank.
Passes(irq) ==
    LET c == pic[Controller(irq)] IN
    /\ irq \in raised
    /\ ~Bit(c.mask, irq % 8)
    /\ \A s \in c.service : Outranks(irq, s)
    /\ irq >= 8 => ~Bit(pic[Pic1].mask, IRQ_SLAVE)

Taken(irq) ==
    /\ phase # "panic" /\ if /\ Passes(irq)
    /\ \A other \in raised : Outranks(other, irq) => ~Passes(other)

\* An interrupt stays in service where there is no automatic EOI: the kernel
\* never sends another.
Interrupt(irq) ==
    /\ Taken(irq)
    /\ raised' = raised \ {irq}
    /\ pic' = [pic EXCEPT ![Controller(irq)].service = IF pic[Controller(irq)].eoi THEN @ ELSE @ \cup {irq}]
    /\ Enter(pic[Controller(irq)].base + (irq % 8))
    /\ UNCHANGED <<irqmask, outs, slaveEoi, high, owed, asked, handled, phase>>

\* A device lowers its line.  When the request was not yet taken it is gone;
\* when the processor was told of it and there is no other, the controller gives
\* its line 7 in its place.
Lower(irq) ==
    /\ irq \in high
    /\ high' = high \ {irq}
    /\ raised' = raised \ {irq}
    /\ owed' = owed \ (raised \cap {irq})
    /\ \/ UNCHANGED <<if, frames>>
       \/ /\ Taken(irq) /\ \A other \in raised \ {irq} : ~Passes(other)
          /\ Enter(pic[Controller(irq)].base + 7)
    /\ UNCHANGED <<irqmask, outs, pic, slaveEoi, asked, handled, phase>>

Syscall ==
    /\ Running /\ phase \in {"irqs", "on"}
    /\ Enter(T_SYSCALL)
    /\ UNCHANGED <<irqmask, outs, pic, slaveEoi, lines, asked, handled, phase>>

Exception(vector) ==
    /\ Running /\ phase \in {"irqs", "on"}
    /\ Enter(vector)
    /\ UNCHANGED <<irqmask, outs, pic, slaveEoi, lines, asked, handled, phase>>

\* Slip: the interrupts are told first, and a system call is one of them.
DispatchedIrqFirst(trapno) ==
    IF trapno >= T_IRQ0 THEN {trapno - T_IRQ0} ELSE {}

\* The line trap() hands to handle_interrupt, if any
Dispatched(trapno) ==
    IF trapno # T_SYSCALL /\ trapno >= T_IRQ0 THEN {trapno - T_IRQ0} ELSE {}

Panics(trapno) == trapno # T_SYSCALL /\ trapno < T_IRQ0

\* trap() up to its trap_return, which unwinds to what was interrupted.
\* handle_interrupt reads the keyboard's scan code, which lowers its line.
Trap ==
    /\ phase # "panic" /\ frames # <<>>
    /\ LET tf == Head(frames)
           irqs == Dispatched(tf.trapno)
           answered == irqs \cap {Keyboard}
       IN  /\ handled' = handled \cup irqs
           /\ high' = high \ answered
           /\ raised' = raised \ answered
           /\ owed' = owed \ (irqs \ raised')
           /\ IF Panics(tf.trapno)
              THEN phase' = "panic" /\ UNCHANGED <<frames, if>>
              ELSE frames' = Tail(frames) /\ if' = tf.if /\ UNCHANGED phase
    /\ UNCHANGED <<irqmask, outs, pic, slaveEoi, asked>>

Cpu ==
    \/ TrapInit \/ IrqInit \/ Sti \/ Outb \/ Trap
    \/ \E irq \in Irqs : Interrupt(irq)

Next ==
    \/ Cpu \/ Syscall
    \/ \E irq \in Irqs : IrqEnable(irq) \/ Raise(irq) \/ Lower(irq)
    \/ \E t \in Traps : Exception(t)

\* The processor runs on, also between the interrupts of a busy device and
\* between system calls, and with interrupts on it takes each request that lasts.
Fairness ==
    /\ WF_vars(TrapInit \/ IrqInit) /\ SF_vars(Outb \/ Sti) /\ WF_vars(Trap)
    /\ \A irq \in Irqs : WF_vars(Interrupt(irq))

Spec == Init /\ [][Next]_vars
FairSpec == Spec /\ Fairness

-----------------------------------------------------------------------------

Outranked(irq) == \E other \in raised : Outranks(other, irq)

HandleInterrupt(irq) == Trap /\ irq \in Dispatched(Head(frames).trapno)

\* However devices raise and lower their lines, also while the masks are half
\* written or a system call runs: handle_interrupt is called with the lines
\* irq_enable was called for and no others but the controllers' lines 7 and 15,
\* which stand for requests withdrawn too late; and it is called, with the line's
\* own number, for the requests an enabled line makes after its controller's
\* ICW1, unless the device withdraws them, the kernel panics, or lines of higher
\* rank have requests time and again.  For the lines of a slave that does not
\* honour automatic EOI nothing is promised: the first taken stays in service.
EnabledLinesServed ==
    /\ [](handled \subseteq asked \cup {7, 15})
    /\ \A irq \in Irqs :
        (irq < 8 \/ slaveEoi) =>
            \/ []<>(irq \notin owed \cap asked \/ phase = "panic" \/ Outranked(irq))
            \/ []<><<HandleInterrupt(irq)>>_vars

=============================================================================
