-------------------------------- MODULE Boot --------------------------------
(***************************************************************************)
(* The boot of the rpi2 kernel: kern/init/early_init.c and init.c on the   *)
(* first core, which turns on its MMU half way and then lets the handlers  *)
(* of kern/mm/jump.c move what the drivers keep to high addresses; and the *)
(* other cores, which it starts through the mailboxes of bcm2836.c.        *)
(*                                                                         *)
(* A pointer is "none" before it is set, "low" while it holds a physical   *)
(* address and "high" once it holds one above KOFFSET.  The page tables    *)
(* map both (EarlyMapping); without the MMU only low ones can be used.     *)
(***************************************************************************)
EXTENDS Integers, Sequences, FiniteSets

CONSTANTS
  Cores,                       \* RPI2_CORES
  Master,                      \* the core that boots, core 0
  JUMP_HANDLER_QUEUE_LENGTH,
  Hazards                      \* what may go wrong with the slaves' stacks

VARIABLES
  pc,          \* where each core is
  mmu,         \* the cores whose MMU is on
  ptr,         \* each pointer: none, low or high
  handlers,    \* __jump_handler_queue
  applied,     \* how many of them have run
  fbconenable, \* does fbputc draw?
  stack,       \* slave_stack_lowaddr, as the master wrote it
  box,         \* mailbox 3 of each slave, a bcm2836 register
  starting,    \* the slave the master is starting, and how far it is
  sp,          \* the stack each slave runs on
  fault        \* was a pointer used that could not be?

vars == <<pc, mmu, ptr, handlers, applied, fbconenable, stack, box, starting, sp, fault>>
slaves == <<box, starting, sp, stack>>

Slaves == Cores \ {Master}
Pointers == {"bus_fp", "uart_bus", "putchar", "kputs", "mailbox_bus", "fb_bits", "bcm_bus",
             "g_pvbridge", "kmalloc", "trap_stack"}
NoStack == 0

ASSUME BootAssumption ==
  /\ Master \in Cores /\ Cores \subseteq Nat /\ Slaves \subseteq Nat \ {0}
  /\ Hazards \subseteq {"stale", "nomem"}
  /\ JUMP_HANDLER_QUEUE_LENGTH \in Nat

Init ==
  /\ pc = [c \in Cores |-> IF c = Master THEN "early_devices" ELSE "parked"]
  /\ mmu = {}
  /\ ptr = [p \in Pointers |-> "none"]
  /\ handlers = << >> /\ applied = 0   \* .bss; jump_handlers_clear is never called
  /\ fbconenable = FALSE
  /\ stack = [c \in Slaves |-> NoStack]
  /\ box = [c \in Slaves |-> FALSE]
  /\ starting = [core |-> 1, at |-> "stack"]
  /\ sp = [c \in Slaves |-> NoStack]
  /\ fault = FALSE

-----------------------------------------------------------------------------
Usable(c, p) == ptr'[p] = "low" \/ (ptr'[p] = "high" /\ c \in mmu)
Uses(c, pointers) == fault' = (fault \/ \E p \in pointers : ~Usable(c, p))

(* kprintf, down to the registers, and to the frame buffer once enabled.   *)
Kprintf == {"kputs", "putchar", "uart_bus", "bus_fp"} \cup (IF fbconenable THEN {"fb_bits"} ELSE {})

Goto(c, there) == pc' = [pc EXCEPT ![c] = there]
From(here, there) == pc[Master] = here /\ Goto(Master, there)
Set(pointers, where) == ptr' = [p \in Pointers |-> IF p \in pointers THEN where ELSE ptr[p]]

(* jump_handlers_add, and what the caller does when the queue is full.     *)
Full == Len(handlers) = JUMP_HANDLER_QUEUE_LENGTH
JumpHandlersAdd(handler) == handlers' = IF Full THEN handlers ELSE Append(handlers, handler)

EarlyDevicesInit ==
  /\ From("early_devices", IF Full THEN "panic" ELSE "early_console")
  /\ Set({"bus_fp"}, "low")
  /\ JumpHandlersAdd("io_mem")
  /\ UNCHANGED <<mmu, applied, fbconenable, slaves, fault>>

(* set_console, both functions at the addresses the code runs at, the      *)
(* registers, and the first kprintf.                                       *)
EarlyConsoleInit ==
  /\ From("early_console", IF Full THEN "hang" ELSE "mailbox")
  /\ Set({"uart_bus", "putchar", "kputs"}, "low")
  /\ JumpHandlersAdd("console")
  /\ UNCHANGED <<mmu, applied, fbconenable, slaves>>
  /\ Uses(Master, Kprintf)

MailboxInit ==
  /\ From("mailbox", IF Full THEN "hang" ELSE "memory")
  /\ Set({"mailbox_bus"}, "low")
  /\ JumpHandlersAdd("mailbox")
  /\ UNCHANGED <<mmu, applied, fbconenable, slaves>>
  /\ Uses(Master, Kprintf)

DetectMemory ==
  /\ \/ From("memory", "fbdev")
     \/ From("memory", "panic")
  /\ UNCHANGED <<mmu, ptr, handlers, applied, fbconenable, slaves>>
  /\ Uses(Master, {"mailbox_bus"} \cup Kprintf)

(* rpi2_fbdev_init: nobody looks at what jump_handlers_add says.           *)
FbdevInit ==
  /\ pc[Master] = "fbdev"
  /\ \/ /\ Goto(Master, "early_mm")
        /\ Set({"fb_bits"}, "low")
        /\ JumpHandlersAdd("fb")
        /\ Uses(Master, {"mailbox_bus"} \cup Kprintf)
     \/ Goto(Master, "panic") /\ UNCHANGED <<ptr, handlers, fault>>
  /\ UNCHANGED <<mmu, applied, fbconenable, slaves>>

(* There are no early initcalls; mach_add_mapping may panic.               *)
EarlyMmInit ==
  /\ From("early_mm", "mmu_jump") \/ From("early_mm", "panic")
  /\ UNCHANGED <<mmu, ptr, handlers, applied, fbconenable, slaves>>
  /\ Uses(Master, Kprintf)

MmuJump ==
  /\ From("mmu_jump", "master_entry")
  /\ mmu' = mmu \cup {Master}
  /\ UNCHANGED <<ptr, handlers, applied, fbconenable, slaves, fault>>

(* master_entry takes the stack by its high address.                       *)
MasterEntry ==
  /\ From("master_entry", "fbcls")
  /\ fault' = (fault \/ Master \notin mmu)
  /\ UNCHANGED <<mmu, ptr, handlers, applied, fbconenable, slaves>>

(* master_init clears the frame buffer before its pointer is moved.        *)
MasterFbcls ==
  /\ From("fbcls", "handlers")
  /\ UNCHANGED <<mmu, ptr, handlers, applied, fbconenable, slaves>>
  /\ Uses(Master, {"fb_bits"})

(* jump_handlers_apply; a handler adds KOFFSET or sets a high address.     *)
Moved(handler) ==
  CASE handler = "io_mem"  -> {"bus_fp"}
    [] handler = "console" -> {"uart_bus", "putchar", "kputs"}
    [] handler = "mailbox" -> {"mailbox_bus"}
    [] handler = "fb"      -> {"fb_bits"}

\* Slip: the first handler in the queue is not run.
JumpHandlersApplyFrom1 ==
  /\ pc[Master] = "handlers"
  /\ IF applied + 1 < Len(handlers)
     THEN /\ Set(Moved(handlers[applied + 2]), "high")
          /\ fbconenable' = (fbconenable \/ handlers[applied + 2] = "fb")
          /\ applied' = applied + 1
          /\ UNCHANGED pc
     ELSE Goto(Master, "bcm2836") /\ UNCHANGED <<ptr, fbconenable, applied>>
  /\ UNCHANGED <<mmu, handlers, slaves, fault>>
JumpHandlersApply ==
  /\ pc[Master] = "handlers"
  /\ IF applied < Len(handlers)
     THEN /\ Set(Moved(handlers[applied + 1]), "high")
          /\ fbconenable' = (fbconenable \/ handlers[applied + 1] = "fb")
          /\ applied' = applied + 1
          /\ UNCHANGED pc
     ELSE Goto(Master, "bcm2836") /\ UNCHANGED <<ptr, fbconenable, applied>>
  /\ UNCHANGED <<mmu, handlers, slaves, fault>>

MachMasterInit ==
  /\ From("bcm2836", "vmm")
  /\ Set({"bcm_bus"}, "high")
  /\ UNCHANGED <<mmu, handlers, applied, fbconenable, slaves>>
  /\ Uses(Master, Kprintf)

(* vmm_bootstrap sets the bridge, then installs the adapter of kmalloc.    *)
VmmBootstrap ==
  /\ From("vmm", "cpus") \/ From("vmm", "panic")
  /\ Set({"g_pvbridge", "kmalloc"}, "high")
  /\ UNCHANGED <<mmu, handlers, applied, fbconenable, slaves>>
  /\ Uses(Master, Kprintf)

(* It panics without memory.                                               *)
CpuInitStructure ==
  /\ From("cpus", "trap_init") \/ From("cpus", "panic")
  /\ UNCHANGED <<mmu, ptr, handlers, applied, fbconenable, slaves>>
  /\ Uses(Master, {"g_pvbridge"})

(* The stacks of exceptions: without memory they are left at NULL, for the *)
(* allocation is not checked; no exception is expected before the end.     *)
TrapInit ==
  /\ From("trap_init", "initcalls")
  /\ Set({"trap_stack"}, "high") \/ UNCHANGED ptr
  /\ UNCHANGED <<mmu, handlers, applied, fbconenable, slaves>>
  /\ Uses(Master, {"g_pvbridge"})

(* The device list (stage 1), then the io-mem driver (stage 4), which      *)
(* allocates its bus; neither returns an error.                            *)
DoInitcalls ==
  /\ From("initcalls", "start_slaves")
  /\ UNCHANGED <<mmu, ptr, handlers, applied, fbconenable, slaves>>
  /\ Uses(Master, {"kmalloc"} \cup Kprintf)

-----------------------------------------------------------------------------
(* mach_start_slaves: first a stack for each slave, then each mailbox.     *)
(* malloc's -1 is not looked at; its sum with the size is no stack.        *)
NextSlave(at) ==
  starting' = IF starting.core + 1 \in Slaves THEN [core |-> starting.core + 1, at |-> at]
              ELSE [core |-> 1, at |-> IF at = "stack" THEN "clear" ELSE "done"]

AllocStack ==
  /\ pc[Master] = "start_slaves" /\ starting.at = "stack"
  /\ stack' \in {[stack EXCEPT ![starting.core] = s] :
                   s \in {starting.core} \cup (IF "nomem" \in Hazards THEN {NoStack} ELSE {})}
  /\ NextSlave("stack")
  /\ UNCHANGED <<pc, mmu, ptr, handlers, applied, fbconenable, box, sp>>
  /\ Uses(Master, Kprintf)

(* bcm2836_write_mailbox: clear all bits, then set those of the address;   *)
(* the register is read and printed in between.                            *)
ClearMailbox ==
  /\ pc[Master] = "start_slaves" /\ starting.at = "clear"
  /\ box' = [box EXCEPT ![starting.core] = FALSE]
  /\ starting' = [starting EXCEPT !.at = "set"]
  /\ UNCHANGED <<pc, mmu, ptr, handlers, applied, fbconenable, stack, sp>>
  /\ Uses(Master, {"bcm_bus"} \cup Kprintf)

\* Slip: the core is left out of the register's address.
SetMailboxOfCore0 ==
  /\ pc[Master] = "start_slaves" /\ starting.at = "set"
  /\ NextSlave("clear")
  /\ UNCHANGED <<pc, mmu, ptr, handlers, applied, fbconenable, box, stack, sp>>
  /\ Uses(Master, {"bcm_bus"} \cup Kprintf)
SetMailbox ==
  /\ pc[Master] = "start_slaves" /\ starting.at = "set"
  /\ box' = [box EXCEPT ![starting.core] = TRUE]
  /\ NextSlave("clear")
  /\ UNCHANGED <<pc, mmu, ptr, handlers, applied, fbconenable, stack, sp>>
  /\ Uses(Master, {"bcm_bus"} \cup Kprintf)

(* The firmware's loop, external: it jumps where the mailbox points, and   *)
(* writes the mailbox back to clear it.                                    *)
Leave(c) ==
  /\ pc[c] = "parked" /\ box[c]
  /\ Goto(c, "entry")
  /\ box' = [box EXCEPT ![c] = FALSE]
  /\ UNCHANGED <<mmu, ptr, handlers, applied, fbconenable, stack, starting, sp, fault>>

(* slave_early_entry reads its stack with its caches off: the store may    *)
(* still be in the master's.                                               *)
SlaveEarlyEntry(c) ==
  /\ pc[c] = "entry"
  /\ Goto(c, "early")
  /\ sp' \in {[sp EXCEPT ![c] = s] :
                s \in {stack[c]} \cup (IF "stale" \in Hazards THEN {NoStack} ELSE {})}
  /\ UNCHANGED <<mmu, ptr, handlers, applied, fbconenable, stack, box, starting, fault>>

SlaveMmuJump(c) ==
  /\ pc[c] = "early" /\ sp[c] # NoStack
  /\ mmu' = mmu \cup {c}
  /\ Goto(c, "slave_entry")
  /\ UNCHANGED <<ptr, handlers, applied, fbconenable, slaves, fault>>

(* With its caches on, slave_entry reads the stack's high address.         *)
SlaveEntry(c) ==
  /\ pc[c] = "slave_entry"
  /\ Goto(c, "slave_init")
  /\ sp' = [sp EXCEPT ![c] = stack[c]]
  /\ fault' = (fault \/ c \notin mmu)
  /\ UNCHANGED <<mmu, ptr, handlers, applied, fbconenable, stack, box, starting>>

SlaveInit(c) ==
  /\ pc[c] = "slave_init"
  /\ Goto(c, "spin")
  /\ UNCHANGED <<mmu, ptr, handlers, applied, fbconenable, slaves>>
  /\ Uses(c, Kprintf)

Loops == /\ pc[Master] \in {"panic", "hang"} \/ starting.at = "done"
         /\ UNCHANGED vars

MasterStep ==
  \/ EarlyDevicesInit \/ EarlyConsoleInit \/ MailboxInit \/ DetectMemory \/ FbdevInit
  \/ EarlyMmInit \/ MmuJump \/ MasterEntry \/ MasterFbcls \/ JumpHandlersApply \/ MachMasterInit
  \/ VmmBootstrap \/ CpuInitStructure \/ TrapInit \/ DoInitcalls \/ AllocStack \/ ClearMailbox \/ SetMailbox
SlaveStep(c) == Leave(c) \/ SlaveEarlyEntry(c) \/ SlaveMmuJump(c) \/ SlaveEntry(c) \/ SlaveInit(c)

Next == MasterStep \/ (\E c \in Slaves : SlaveStep(c)) \/ Loops

Safety == Init /\ [][Next]_vars
Fairness == WF_vars(MasterStep) /\ \A c \in Slaves : WF_vars(SlaveStep(c))
Spec == Safety /\ Fairness

-----------------------------------------------------------------------------
(* Every pointer is set before it is used, and holds an address the core   *)
(* that uses it can reach; and once the handlers have run none of them is  *)
(* left low, although one handler's registration is not checked.           *)
BeforeJump == {"early_devices", "early_console", "mailbox", "memory", "fbdev", "early_mm",
               "mmu_jump", "master_entry", "fbcls", "handlers", "panic", "hang"}
PointersUsable ==
  /\ ~fault
  /\ pc[Master] \notin BeforeJump => \A p \in Pointers : ptr[p] # "low"

(* Unless the boot stops, every slave that gets a stack gets through       *)
(* slave_init, although its mailbox is cleared and set by two writes while *)
(* it polls, and whatever becomes of the other slaves' stacks.             *)
NoStackIn(c) == pc[c] = "early" /\ sp[c] = NoStack
SlavesStart ==
  <>(\/ pc[Master] \in {"panic", "hang"}
     \/ \A c \in Slaves : pc[c] = "spin" \/ NoStackIn(c))
=============================================================================
