---------------------------- MODULE EarlyMapping ----------------------------
(***************************************************************************)
(* The queue of early mappings (kern/mm/kmmap/early_kmmap.c), what the     *)
(* machine puts in it (mach_add_mapping of the Raspberry Pi 2, and         *)
(* early_mm_init of the i386) and the boot page index made from it: a      *)
(* table of tables of big pages (kern/mm/mmu.c and the arch_mmu.c of both  *)
(* architectures).                                                         *)
(*                                                                         *)
(* Addresses are 0 .. Top - 1 and sums of them wrap, as 32-bit ones do.    *)
(* Early initcalls submit mappings; then early_mm_init runs the machine's  *)
(* and applies them all with nothing in between.                           *)
(***************************************************************************)
EXTENDS Integers, Sequences

CONSTANTS
  QueueLength,    \* EARLY_MAPPING_QUEUE_LENGTH
  Top,            \* 2^32
  BigPage,        \* BIGPAGE_SIZE
  KernBase,       \* KERN_BASE, which is also KOFFSET
  KmmapBase,      \* KMMAP_BASE
  ReservedBase,   \* RESERVED_BASE
  MidSize,        \* PGMID_SIZE, the big pages of one table
  MaxMemory,      \* RPI2_MAX_MEMORY
  MemioBase, MemioTop,   \* RPI2_MEMIO_BASE, RPI2_MEMIO_TOP
  ArmSizes,       \* the memory sizes the firmware may report
  Frames,         \* the frame buffers it may give: [base, size]
  KernelSize,     \* KTOP - KOFFSET of the i386
  Entries,        \* what other callers of early_mapping_add submit
  Blocks          \* [base, size] for early_mapping_add_memory and _kmmap

(* Entries of the queue.  "other" is a type the boot page index does not   *)
(* know.                                                                   *)
Types == {"memory", "kmmap", "device", "framebuffer", "other"}
Mappings == [paddr : Nat, vaddr : 0 .. Top - 1, size : Nat, type : Types]

ASSUME MapAssumption ==
  /\ {QueueLength, Top, BigPage, KernBase, KmmapBase, ReservedBase} \subseteq Nat \ {0}
  /\ {MaxMemory, MemioBase, MemioTop, KernelSize} \subseteq Nat
  /\ KernBase < KmmapBase /\ KmmapBase < ReservedBase /\ ReservedBase < Top
  /\ MemioBase < MemioTop
  /\ KernBase % BigPage = 0 /\ KmmapBase % BigPage = 0
  /\ MidSize \in Nat \ {0} /\ Top % (MidSize * BigPage) = 0
  /\ Entries \subseteq Mappings
  /\ \A b \in Blocks : b.base \in Nat /\ b.size \in Nat
  \* The machine's memory and registers lie in the lower part of the addresses.
  /\ ArmSizes \subseteq Nat /\ MemioBase + KernBase < Top
  /\ \A f \in Frames : f.base \in Nat /\ f.size \in Nat /\ f.base + KernBase < Top

VARIABLES
  arch,        \* "armv7a" or "i386"
  queue,       \* queue[0 .. queue_size - 1]
  mem_top,
  kmmap_top,
  boot,        \* "early", "added", "mapped" or "panic"
  machine,     \* the [arm, frame] mach_add_mapping was given
  index        \* the boot page index: root[i] is the table entry i points to,
               \* mid[t][j] the [pa, type] of its big page j

vars == <<arch, queue, mem_top, kmmap_top, boot, machine, index>>

Mapping(p, v, s, t) == [paddr |-> p, vaddr |-> v, size |-> s, type |-> t]

(* early_mapping_clear                                                     *)
Init ==
  /\ arch \in {"armv7a", "i386"}
  /\ queue = << >>
  /\ mem_top = KernBase
  /\ kmmap_top = KmmapBase
  /\ boot = "early"
  /\ machine = << >>
  /\ index = << >>

-----------------------------------------------------------------------------
(* early_mapping_add                                                       *)

Valid(e) == e.paddr % BigPage = 0 /\ e.vaddr % BigPage = 0 /\ e.size % BigPage = 0

End(e) == (e.vaddr + e.size) % Top
\* Slip: only the new entry's start is compared.
OverlapOneSided(e, f) == e.vaddr > f.vaddr /\ e.vaddr < End(f)
Overlap(e, f) ==
  \/ e.vaddr > f.vaddr /\ e.vaddr < End(f)
  \/ f.vaddr > e.vaddr /\ f.vaddr < End(e)

Accepts(q, e) ==
  /\ Len(q) < QueueLength
  /\ Valid(e)
  /\ \A n \in DOMAIN q : ~Overlap(e, q[n])

Add(e) ==
  /\ boot = "early"
  /\ queue' = IF Accepts(queue, e) THEN Append(queue, e) ELSE queue
  /\ UNCHANGED <<arch, mem_top, kmmap_top, boot, machine, index>>

(* early_mapping_add_memory: as much as fits below KMMAP_BASE.             *)
AddMemory(b) ==
  LET room == KmmapBase - mem_top
      size == IF b.size > room THEN room ELSE b.size
      entry == Mapping(b.base, mem_top, size, "memory")
  IN
  /\ boot = "early"
  /\ IF room > 0 /\ Accepts(queue, entry)
     THEN queue' = Append(queue, entry) /\ mem_top' = mem_top + size
     ELSE UNCHANGED <<queue, mem_top>>
  /\ UNCHANGED <<arch, kmmap_top, boot, machine, index>>

(* early_mapping_add_kmmap: all of it below RESERVED_BASE, or nothing.     *)
AddKmmap(b) ==
  LET room == ReservedBase - kmmap_top
      entry == Mapping(b.base, kmmap_top, b.size, "kmmap")
  IN
  /\ boot = "early"
  /\ IF room > 0 /\ b.size <= room /\ Accepts(queue, entry)
     THEN queue' = Append(queue, entry) /\ kmmap_top' = kmmap_top + b.size
     ELSE UNCHANGED <<queue, kmmap_top>>
  /\ UNCHANGED <<arch, mem_top, boot, machine, index>>

-----------------------------------------------------------------------------
(* mach_add_mapping: low and high memory, devices, frame buffer.  A        *)
(* mapping the queue refuses is a panic.                                   *)

RoundBig(n) == ((n + BigPage - 1) \div BigPage) * BigPage
\* Slip: the frame buffer's size in pixels of two bytes, not in bytes.
MachMappingsPixels(arm, frame) ==
  << Mapping(0, 0, RoundBig(MaxMemory), "memory"),
     Mapping(0, KernBase, RoundBig(arm), "memory"),
     Mapping(MemioBase, MemioBase + KernBase, MemioTop - MemioBase, "device"),
     Mapping(frame.base, frame.base + KernBase, RoundBig(frame.size \div 2), "framebuffer") >>
MachMappings(arm, frame) ==
  << Mapping(0, 0, RoundBig(MaxMemory), "memory"),
     Mapping(0, KernBase, RoundBig(arm), "memory"),
     Mapping(MemioBase, MemioBase + KernBase, MemioTop - MemioBase, "device"),
     Mapping(frame.base, frame.base + KernBase, RoundBig(frame.size), "framebuffer") >>

(* early_mm_init of the i386: the kernel's part of memory, low and high.   *)
ArchMappings ==
  << Mapping(0, 0, RoundBig(KernelSize), "memory"),
     Mapping(0, KernBase, RoundBig(KernelSize), "memory") >>

(* The queue after the first n of the entries have been submitted.         *)
Submitted(entries, n) == queue \o SubSeq(entries, 1, n)

Submit(entries) ==
  LET accepted == {n \in 0 .. Len(entries) :
                     \A m \in 1 .. n : Accepts(Submitted(entries, m - 1), entries[m])}
      n == CHOOSE k \in accepted : \A m \in accepted : m <= k
  IN
  /\ boot = "early"
  /\ queue' = Submitted(entries, n)
  /\ boot' = IF n = Len(entries) THEN "added" ELSE "panic"
  /\ UNCHANGED <<arch, mem_top, kmmap_top, index>>

MachAddMapping(arm, frame) ==
  /\ arch = "armv7a"
  /\ Submit(MachMappings(arm, frame))
  /\ machine' = [arm |-> arm, frame |-> frame]

ArchAddMapping == arch = "i386" /\ Submit(ArchMappings) /\ UNCHANGED machine

-----------------------------------------------------------------------------
(* page_index_init, by early_mapping_next from the first entry to the last *)

Absent == [pa |-> -1, type |-> "fault"]
IndexFn(v) == v \div (MidSize * BigPage)
MidFn(v) == (v \div BigPage) % MidSize
Roots == 0 .. Top \div (MidSize * BigPage) - 1

\* Slip: every entry points to the first table.
ClearedOneTable ==
  [root |-> [i \in Roots |-> 0], mid |-> [t \in Roots |-> [j \in 0 .. MidSize - 1 |-> Absent]]]
(* page_index_clear: one table for each entry of the index, all empty.     *)
Cleared ==
  [root |-> [i \in Roots |-> i], mid |-> [t \in Roots |-> [j \in 0 .. MidSize - 1 |-> Absent]]]

(* The big pages page_index_early_map writes for e, and what it writes:    *)
(* the i386 has one type of page.                                          *)
PageOf(e, k) == (e.vaddr + BigPage * k) % Top
PagesOf(e) == {PageOf(e, k) : k \in 0 .. e.size \div BigPage - 1}
Written(e, v) == [pa |-> e.paddr + ((v - e.vaddr + Top) % Top),
                  type |-> IF arch = "i386" THEN "memory" ELSE e.type]

MapPage(ix, e, v) ==
  [ix EXCEPT !.mid[ix.root[IndexFn(v)]][MidFn(v)] = Written(e, v)]
EarlyMap(ix, e) ==
  LET pages == e.size \div BigPage
      mapped[k \in 0 .. pages] == IF k = 0 THEN ix
                                  ELSE MapPage(mapped[k - 1], e, PageOf(e, k - 1))
  IN mapped[pages]

(* The index after the first n entries, from the empty one.                *)
IndexOf(q, n) ==
  LET made[k \in 0 .. n] == IF k = 0 THEN Cleared ELSE EarlyMap(made[k - 1], q[k])
  IN made[n]

KnownType(e) == arch = "i386" \/ e.type \in {"memory", "device", "framebuffer"}

(* Entries are mapped in queue order; one of another type panics.          *)
MapInit ==
  /\ boot = "added"
  /\ \A n \in DOMAIN queue : KnownType(queue[n])
  /\ index' = IndexOf(queue, Len(queue))
  /\ boot' = "mapped"
  /\ UNCHANGED <<arch, queue, mem_top, kmmap_top, machine>>

MapInitPanics ==
  /\ boot = "added"
  /\ \E n \in DOMAIN queue : ~KnownType(queue[n])
  /\ boot' = "panic"
  /\ UNCHANGED <<arch, queue, mem_top, kmmap_top, machine, index>>

(* The walk of the hardware.                                               *)
EntryIn(ix, v) == ix.mid[ix.root[IndexFn(v)]][MidFn(v)]
Translated(v) == EntryIn(index, v)

Stopped == boot \in {"mapped", "panic"} /\ UNCHANGED vars

Next ==
  \/ \E e \in Entries : Add(e)
  \/ \E b \in Blocks : AddMemory(b) \/ AddKmmap(b)
  \/ \E arm \in ArmSizes, frame \in Frames : MachAddMapping(arm, frame)
  \/ ArchAddMapping
  \/ MapInit
  \/ MapInitPanics
  \/ Stopped

Spec == Init /\ [][Next]_vars

-----------------------------------------------------------------------------
TypeOK ==
  /\ \A n \in DOMAIN queue :
       /\ Valid(queue[n])
       /\ queue[n] \in Mappings
  /\ Len(queue) <= QueueLength
  /\ mem_top \in KernBase .. KmmapBase
  /\ kmmap_top \in KmmapBase .. ReservedBase
  /\ boot \in {"early", "added", "mapped", "panic"}

Others(n) == DOMAIN queue \ {n}
ReachesTop(e) == e.vaddr + e.size >= Top

(* The queue and the addresses given out stay in their bounds, and after   *)
(* the page index is made the hardware translates every submitted page as  *)
(* its entry says, unless an entry has the same start or an end that is or *)
(* lies beyond the end of the address space.                               *)
MappingsApplied ==
  /\ TypeOK
  /\ boot = "mapped" =>
       \A n \in DOMAIN queue :
         \/ \E m \in Others(n) : queue[m].vaddr = queue[n].vaddr \/ ReachesTop(queue[m])
         \/ ReachesTop(queue[n])
         \/ \A v \in PagesOf(queue[n]) : Translated(v) = Written(queue[n], v)

(* Once the boot core jumps, what it was linked for is there: memory is    *)
(* seen as memory, registers as device memory and the frame buffer as one, *)
(* each KOFFSET above its physical address, for every size the firmware    *)
(* may report and whatever else was submitted at other starts.             *)
SeenHigh(first, last, type) ==
  \A pa \in first .. last :
    LET v == KernBase + (pa \div BigPage) * BigPage IN
    Translated(v) = [pa |-> v - KernBase, type |-> type]
HighHalfRight ==
  boot = "mapped" =>
    LET sameStart == \E n \in DOMAIN queue : \E m \in Others(n) : queue[m].vaddr = queue[n].vaddr
        top == \E n \in DOMAIN queue : ReachesTop(queue[n])
        frame == machine.frame
    IN sameStart \/ top \/
       IF arch = "i386" THEN SeenHigh(0, KernelSize - 1, "memory")
       ELSE /\ SeenHigh(0, machine.arm - 1, "memory")
            /\ SeenHigh(MemioBase, MemioTop - 1, "device")
            /\ SeenHigh(frame.base, frame.base + frame.size - 1, "framebuffer")
=============================================================================
