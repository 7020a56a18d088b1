----------------------------- MODULE I386Memory -----------------------------
(***************************************************************************)
(* Physical memory on i386, from the BIOS to the allocators: the loader's  *)
(* E820 loop (boot/arch/i386/bootasm.S, memdetect.c), the kernel's copy of *)
(* the map and its three zones (kern/arch/i386/arch_mmu.c).  Addresses     *)
(* count small units, PageSize of which make a page; addr_t and lsize_t    *)
(* are 64 bits wide on this port (modulus Wide), size_t 32 (modulus        *)
(* Narrow).  A zone's allocator is what was freed into it.                 *)
(***************************************************************************)
EXTENDS Integers, Sequences

CONSTANTS
    PageSize, DmaTop,       \* 4 KB and 16 MB, in units
    KernelSpace,            \* KTOP - KOFFSET
    KernStart, KernEnd,     \* KERN_START_LOW, KERN_END_LOW
    Area,                   \* what the bump allocator took after the kernel
    Wide, Narrow,           \* 2^64 and 2^32
    MaxRegions,             \* MAX_MEMORY_REGIONS and MAX_MACHINE_MEMORY_MAP
    Machines                \* sets of regions a BIOS may report

\* What is supposed of a BIOS: no region wraps, no two overlap, and the one that
\* holds the kernel reaches the top of the DMA zone.
Sound(regions) ==
    /\ \A r \in regions :
        /\ r.base \in Nat /\ r.size \in Nat /\ r.base + r.size < Wide
        /\ r.base <= KernStart /\ r.base + r.size >= KernEnd => r.base + r.size >= DmaTop
    /\ \A r \in regions : \A s \in regions \ {r} :
        r.base + r.size <= s.base \/ s.base + s.size <= r.base

I386MemoryAssumption ==
    /\ {PageSize, DmaTop, KernelSpace, MaxRegions} \subseteq Nat \ {0}
    /\ DmaTop % PageSize = 0
    /\ {KernStart, KernEnd, Area, Wide, Narrow} \subseteq Nat
    /\ KernStart < KernEnd /\ KernEnd < DmaTop /\ DmaTop < KernelSpace
    /\ KernelSpace < Narrow /\ Narrow < Wide
    /\ \A regions \in Machines : Sound(regions)

VARIABLES
    phase,      \* "e820", "cpu", "copy", "zones", "free", "done" or "panic"
    bios,       \* the regions the BIOS has still to report
    map,        \* machine_memory_map, as the loader and then the kernel hold it
    zone,       \* pmm_zone[]: base and size of each zone
    freed,      \* the pages freed into each zone's allocator, with the turn each
                \* was freed in
    next        \* the region arch_init_free_pmm_zone comes to next

vars == <<phase, bios, map, zone, freed, next>>

Zones == {"DMA", "NORMAL", "HIGHMEM"}

Init ==
    /\ phase = "e820" /\ bios \in Machines /\ map = <<>>
    /\ zone = [z \in Zones |-> [base |-> 0, size |-> 0]]
    /\ freed = [z \in Zones |-> {}]
    /\ next = 1

Panic == phase' = "panic" /\ UNCHANGED <<bios, map, zone, freed, next>>

End(r) == (r.base + r.size) % Wide
Usable(r) == r.type = 1

Smaller(a, b) == IF a < b THEN a ELSE b
RoundUp(a) == ((a + PageSize - 1) \div PageSize) * PageSize
RoundDown(a) == a - (a % PageSize)

\* One call of INT 15h, AX = E820h: a region in the BIOS's own order, the last
\* one with EBX = 0, or the carry flag, which makes the count 0 however many
\* regions came before.
DetectMemory ==
    /\ phase = "e820"
    /\ \E r \in bios :
        /\ map' = Append(map, r)
        /\ bios' = bios \ {r}
        /\ phase' = IF bios = {r} THEN "cpu" ELSE "e820"
    /\ UNCHANGED <<zone, freed, next>>

DetectFails == phase = "e820" /\ Panic

Features == {"PAE", "MSR", "NX"}

CheckCpu ==
    /\ phase = "cpu"
    /\ \E cpuid \in SUBSET Features :
        IF cpuid = Features
        THEN phase' = "copy" /\ UNCHANGED <<bios, map, zone, freed, next>>
        ELSE Panic

HoldsKernel(r) == Usable(r) /\ r.base <= KernStart /\ End(r) >= KernEnd
KernelRegions == {i \in DOMAIN map : HoldsKernel(map[i])}

\* size_after_kernel, a size_t, from the last region that holds the kernel
SizeAfterKernel ==
    IF KernelRegions = {} THEN 0
    ELSE LET i == CHOOSE i \in KernelRegions : \A j \in KernelRegions : j <= i
         IN  Smaller(KernelSpace, (End(map[i]) - KernEnd) % Narrow)

CopyMemoryMap ==
    /\ phase = "copy"
    /\ IF Len(map) > MaxRegions \/ SizeAfterKernel = 0
       THEN Panic
       ELSE phase' = "zones" /\ UNCHANGED <<bios, map, zone, freed, next>>

NormalTop ==
    LET top == IF KernelRegions = {} THEN 0
               ELSE End(map[CHOOSE i \in KernelRegions : \A j \in KernelRegions : j <= i])
    IN  RoundDown(Smaller(top, KernelSpace))

\* Slip: the top of memory is kept in a size_t.
MaxPhysmemNarrow ==
    LET ends == {End(map[i]) % Narrow : i \in DOMAIN map}
    IN  RoundDown(CHOOSE e \in ends : \A f \in ends : f <= e)

\* Every region counts, reserved ones too.
MaxPhysmem ==
    LET ends == {End(map[i]) : i \in DOMAIN map}
    IN  RoundDown(CHOOSE e \in ends : \A f \in ends : f <= e)

InitPmmZone ==
    /\ phase = "zones"
    /\ IF MaxPhysmem < NormalTop
       THEN Panic
       ELSE /\ zone' = [DMA     |-> [base |-> 0, size |-> DmaTop],
                        NORMAL  |-> [base |-> DmaTop,
                                     size |-> (NormalTop - DmaTop) % Wide],
                        HIGHMEM |-> [base |-> NormalTop, size |-> MaxPhysmem - NormalTop]]
            /\ phase' = "free"
            /\ UNCHANGED <<bios, map, freed, next>>

\* real_kend of vmm_bootstrap; the page the kernel starts in is its own
KStart == RoundDown(KernStart)
RealKend == RoundUp(RoundUp(KernEnd) + Area)

\* Slip: the page at a zone's end passes as the zone's.
InZoneInclusive(page, z) == zone[z].base <= page /\ page <= End(zone[z])

InZone(page, z) == zone[z].base <= page /\ page < End(zone[z])

PagesOf(r) == {p \in RoundUp(r.base) .. (RoundDown(End(r)) - 1) : p % PageSize = 0}

\* One turn of the loop over the map: each page of a usable region that is not
\* the kernel's is offered to each zone.
FreeRegion ==
    /\ phase = "free" /\ next \in DOMAIN map
    /\ next' = next + 1
    /\ LET r == map[next]
           pages == {p \in PagesOf(r) : Usable(r) /\ ~(KStart <= p /\ p < RealKend)}
       IN  freed' = [z \in Zones |->
                        freed[z] \cup ({p \in pages : InZone(p, z)} \X {next})]
    /\ phase' = IF next = Len(map) THEN "done" ELSE "free"
    /\ UNCHANGED <<bios, map, zone>>

Next ==
    \/ DetectMemory \/ DetectFails \/ CheckCpu \/ CopyMemoryMap
    \/ InitPmmZone \/ FreeRegion

Spec == Init /\ [][Next]_vars

-----------------------------------------------------------------------------

KernelPages == {p \in KStart .. (RealKend - 1) : p % PageSize = 0}

\* Once the zones are filled, every page that lies inside a usable region and
\* outside the kernel's memory was freed exactly once, into one allocator, and
\* that is the one whose zone holds it; no other page was freed anywhere.  The
\* three zones come from two independent walks over a map in any order, with
\* ragged ends, reserved regions and memory above 4 GB (arch_init_pmm_zone,
\* arch_init_free_pmm_zone).
PagesFreedOnce ==
    phase = "done" =>
        /\ UNION {{f[1] : f \in freed[z]} : z \in Zones} =
              (UNION {PagesOf(map[i]) : i \in {j \in DOMAIN map : Usable(map[j])}})
                  \ KernelPages
        /\ \A z \in Zones : \A f \in freed[z] :
              /\ zone[z].base <= f[1] /\ f[1] + PageSize <= zone[z].base + zone[z].size
              /\ \A y \in Zones : \A g \in freed[y] : g[1] = f[1] => y = z /\ g = f

=============================================================================
