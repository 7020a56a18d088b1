----------------------------- MODULE Bootstrap -----------------------------
(***************************************************************************)
(* How the zone comes to be: vmm_bootstrap (kern/mm/vmm/bootstrap.c) and   *)
(* mach_init_free_pmm_zone (mach-rpi2/mach_early_init.c).                  *)
(*                                                                         *)
(* A throw-away allocator bumps a pointer through the memory after the     *)
(* kernel image; the buddy allocator's own records come from it.  The boot *)
(* loop then frees the pages outside the image and that memory, and the    *)
(* zone is Buddy's from there on, with Usable the pages the loop frees.    *)
(***************************************************************************)
EXTENDS Buddy

CONSTANTS
  KernStart,   \* KERN_START_LOW
  KernEnd,     \* KERN_END_LOW
  HeaderSize,  \* sizeof(struct buddy_pmalloc)
  RecordSize   \* sizeof(struct buddy_page)

ASSUME BootstrapAssumption ==
  /\ KernStart \in Nat /\ KernEnd \in Nat /\ KernStart < KernEnd
  /\ HeaderSize \in Nat \ {0} /\ RecordSize \in Nat \ {0}

RoundUp(n) == DivRoundUp(n, PageSize) * PageSize
RoundDown(n) == (n \div PageSize) * PageSize

(* bootstrap_vmalloc__malloc: what it returns when its pointer is at cur;  *)
(* the pointer moves to the end of that.                                   *)
BumpMalloc(cur) == RoundUp(cur)

(* The two allocations of vmm_bootstrap and of the buddy constructor.      *)
HeaderAt == BumpMalloc(KernEnd)
RecordsAt == BumpMalloc(HeaderAt + HeaderSize)
BumpEnd == RecordsAt + RecordSize * PageCount
Area == BumpEnd - KernEnd

kstart == RoundDown(KernStart)
kend == RoundUp(KernEnd)
real_kend == RoundUp(kend + Area)

\* Slip: the loop protects the image, not what was allocated after it.
FreedByLoopImageOnly(pa) == pa < kstart \/ pa > kend
(* The test of the boot loop.                                              *)
FreedByLoop(pa) == pa < kstart \/ pa > real_kend
FreedAtBoot == {p \in Pages : FreedByLoop(Addr(p))}

-----------------------------------------------------------------------------
Bytes(p) == Addr(p) .. Addr(p) + PageSize - 1
BootBytes ==
  (KernStart .. KernEnd - 1) \cup (HeaderAt .. HeaderAt + HeaderSize - 1)
    \cup (RecordsAt .. BumpEnd - 1)

(* No page the allocator may hand out holds a byte of the kernel image or  *)
(* of the allocator's own records, though the end of those is computed     *)
(* from a page-rounded kend and an area measured from an unrounded one.    *)
BootDataKept ==
  \A i \in Allocated \cup FreeHeads : \A p \in Block(i) : Bytes(p) \cap BootBytes = {}

(* "free non-kernel pages, kstart = ..., kend = ..." (mach_early_init.c):  *)
(* once the loop is done, every page outside [kstart, kend) is the         *)
(* allocator's to hand out.                                                *)
NonKernelPagesFreed ==
  boot = PageCount =>
    \A p \in Pages : Addr(p) < kstart \/ Addr(p) >= real_kend =>
      \E i \in Allocated \cup FreeHeads : p \in Block(i)
=============================================================================
