------------------------------- MODULE MCArch -------------------------------
(***************************************************************************)
(* The architecture code for TLC: the early mappings and page tables of    *)
(* both architectures, and the memory zones and traps of the i386.  They   *)
(* share no variable, so a behaviour is one of one of them, part, and the  *)
(* others stand still.                                                     *)
(***************************************************************************)
EXTENDS EarlyMapping

CONSTANTS
  Parts,                                                  \* the components run
  PageSize, DmaTop, KernelSpace, KernStart, KernEnd,      \* I386Memory
  Area, Wide, Narrow, MaxRegions, Machines,
  Irqs, Traps                                             \* I386Trap

VARIABLES
  part,
  booted, bios, map, zone, freed, next,
  irqmask, outs, pic, slaveEoi, if, frames, high, raised, owed, asked, handled,
  phase

(* A 32-byte address space of 2-byte big pages: memory below 6, registers  *)
(* up to 10, the high half at 16, kmmap at 26 and an unaligned top at 31;  *)
(* drivers' mappings that wrap, or end where the address space does.       *)
MCFrames == {[base |-> 4, size |-> 1], [base |-> 3, size |-> 2]}
MCBlocks == {[base |-> 0, size |-> 2], [base |-> 2, size |-> 6], [base |-> 0, size |-> 1]}
MCEntries ==
  {Mapping(2, 20, 4, "device"), Mapping(4, 28, 4, "device"), Mapping(0, 28, 6, "memory")}

Region(from, to, kind) == [base |-> from, size |-> to - from, type |-> kind]

(* Conventional memory below the kernel's region, the kernel's region with *)
(* ends around the tops of DMA and of the kernel's address space, and a    *)
(* usable or reserved region further up, some of it above Narrow.          *)
MCMachines ==
  {{Region(0, low, 1), Region(start, top, 1), Region(from, from + len, kind)} :
      low \in 2 .. 3, start \in 3 .. 4, top \in 8 .. 19,
      from \in {20, 25, 29}, len \in {1, 4, 9}, kind \in {1, 2}}
  \cup {{Region(0, low, 1), Region(4, top, 1)} : low \in 2 .. 4, top \in 8 .. 19}
  \cup {{Region(0, 2, 1), Region(4, 10, 1), Region(10, 12, 2), Region(12, 20, 1)}}

Memory == INSTANCE I386Memory WITH phase <- booted
Pc == INSTANCE I386Trap

ASSUME ArchAssumption == Memory!I386MemoryAssumption /\ Pc!I386TrapAssumption

memoryVars == <<booted, bios, map, zone, freed, next>>
pcVars ==
  <<irqmask, outs, pic, slaveEoi, if, frames, high, raised, owed, asked, handled,
    phase>>
mcvars == <<part, vars, memoryVars, pcVars>>

NoMemory ==
  /\ booted = "off" /\ bios = {} /\ map = << >> /\ zone = << >>
  /\ freed = << >> /\ next = 1

NoPc ==
  /\ irqmask = 0 /\ outs = << >> /\ pic = << >> /\ if = FALSE /\ frames = << >>
  /\ slaveEoi = FALSE /\ high = {} /\ raised = {} /\ owed = {} /\ asked = {} /\ handled = {} /\ phase = "off"

MCInit ==
  /\ part \in Parts
  /\ Init /\ (part # "mapping" => arch = "i386")
  /\ IF part = "memory" THEN Memory!Init ELSE NoMemory
  /\ IF part = "pc" THEN Pc!Init ELSE NoPc

MCNext ==
  /\ UNCHANGED part
  /\ \/ part = "mapping" /\ Next /\ UNCHANGED <<memoryVars, pcVars>>
     \/ part = "memory" /\ Memory!Next /\ UNCHANGED <<vars, pcVars>>
     \/ part = "pc" /\ Pc!Next /\ UNCHANGED <<vars, memoryVars>>

MCSpec == MCInit /\ [][MCNext]_mcvars /\ Pc!Fairness

-----------------------------------------------------------------------------
(* Each usable page outside the kernel is freed once, into its zone        *)
(* (I386Memory).                                                           *)
PagesFreedOnce == Memory!PagesFreedOnce

(* The lines asked for, and no others, reach handle_interrupt (I386Trap).  *)
EnabledLinesServed == Pc!EnabledLinesServed
=============================================================================
