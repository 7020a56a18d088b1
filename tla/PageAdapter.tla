---------------------------- MODULE PageAdapter ----------------------------
(***************************************************************************)
(* The page interface of the kernel, kern/mm/pmm/pmm.c: alloc_pages,       *)
(* alloc_aligned_pages and free_pages over the buddy allocator, through    *)
(* the adapters, with the filling GFP_ZERO and the lack of GFP_UNSAFE ask  *)
(* for.  The caller's record, struct pages, is the arguments here; stale   *)
(* is the address that was in it before the call.                          *)
(***************************************************************************)
EXTENDS Buddy

(* What the kernel asks of pages it asks in pages.                         *)
ASSUME AdapterAssumption ==
  /\ \A size \in Sizes : size > 0 /\ size % PageSize = 0
  /\ \A align \in Aligns : align > 0 /\ align % PageSize = 0

VARIABLES
  pages_held,  \* pages_held[i]: the pages of a caller whose paddr is Addr(i)
  padding,     \* what alloc_aligned_pages has yet to free: [index, size]
  wrote,       \* the pages the last call filled
  own,         \* the pages the last call was about
  failed,      \* did it return EOF?
  torn         \* has the allocator taken back a piece of a block?

adapterVars == <<pages_held, padding, wrote, own, failed, torn>>
allVars == <<vars, adapterVars>>

AInit ==
  /\ Init
  /\ pages_held = << >>
  /\ padding = << >>
  /\ wrote = {} /\ own = {} /\ failed = FALSE /\ torn = FALSE

PageRun(i, bytes) == i .. i + bytes \div PageSize - 1

(* pmemset: the size is counted down in pages until it is 0, and wraps     *)
(* when it is no multiple of them.                                         *)
Filled(i, bytes) == IF bytes % PageSize = 0 THEN PageRun(i, bytes) ELSE Pages

\* Slip: an aligned address is moved on too.
AlignAboveNext(n, align) == (n \div align + 1) * align
AlignAbove(n, align) == ((n + align - 1) \div align) * align
IndexOf(a) == (a - Base) \div PageSize

Ready == Running /\ padding = << >>

(* alloc_pages gives the block at its head, or nothing: what it fills, and *)
(* what its caller sees.                                                   *)
Found(bytes) == Head(list[Min(Candidates(DivRoundUp(bytes, PageSize)))])
Fails(bytes) == Candidates(DivRoundUp(bytes, PageSize)) = {}
Zeroed(bytes, zero, i) == wrote' = IF zero THEN Filled(i, bytes) ELSE {}

AllocFails(bytes, zero, stale) ==
  /\ Fails(bytes)
  /\ Zeroed(bytes, zero, stale)
  /\ failed' = TRUE
  /\ own' = {}
  /\ UNCHANGED <<vars, pages_held, padding, torn>>

\* Slip: the caller's record keeps the address it had.
AllocPagesStale(size, zero, stale) ==
  /\ Ready
  /\ \/ AllocFails(size, zero, stale)
     \/ /\ ~Fails(size)
        /\ AllocateBytes(size, size, 1)
        /\ Zeroed(size, zero, stale)
        /\ pages_held' = [i \in DOMAIN pages_held \cup {Found(size)} |->
                            IF i = Found(size) THEN PageRun(i, size) ELSE pages_held[i]]
        /\ own' = PageRun(Found(size), size)
        /\ failed' = FALSE
        /\ UNCHANGED <<padding, torn>>
AllocPages(size, zero, stale) ==
  /\ Ready
  /\ \/ AllocFails(size, zero, stale)
     \/ /\ ~Fails(size)
        /\ AllocateBytes(size, size, 1)
        /\ Zeroed(size, zero, Found(size))
        /\ pages_held' = [i \in DOMAIN pages_held \cup {Found(size)} |->
                            IF i = Found(size) THEN PageRun(i, size) ELSE pages_held[i]]
        /\ own' = PageRun(Found(size), size)
        /\ failed' = FALSE
        /\ UNCHANGED <<padding, torn>>

(* free__adapter: get_size must be what the caller says, then free, whose  *)
(* assertions may fail for a piece of a block.                             *)
FreeAdapter(i, bytes) ==
  IF GetSize(i) = bytes /\ FreeAsserts(i)
  THEN ReleaseBlock(i) /\ UNCHANGED <<boot, halted>>
  ELSE halted' = TRUE /\ UNCHANGED <<page, list, free_page_count, waste_page_count, boot>>

Junked(i, bytes, unsafe) == wrote' = IF unsafe THEN {} ELSE Filled(i, bytes)

FreePagesOf(i, unsafe) ==
  LET bytes == PageSize * Cardinality(pages_held[i]) IN
  /\ Ready
  /\ i \in DOMAIN pages_held
  /\ Junked(i, bytes, unsafe)
  /\ FreeAdapter(i, bytes)
  /\ pages_held' = [j \in DOMAIN pages_held \ {i} |-> pages_held[j]]
  /\ asked' = [j \in DOMAIN asked \ {i} |-> asked[j]]
  /\ own' = pages_held[i]
  /\ failed' = FALSE
  /\ UNCHANGED <<padding, torn>>

(* alloc_aligned_pages: align - PAGE_SIZE more than asked for, then the    *)
(* piece before the aligned address and the piece after the end are freed. *)
AlignedPages(size, align, zero, stale) ==
  LET bytes == size + align - PageSize
      block == Found(bytes)
      first == IndexOf(AlignAbove(Addr(block), align))
      left == bytes - PageSize * (first - block) - size
  IN
  /\ Ready
  /\ \/ AllocFails(bytes, zero, stale)
     \/ /\ ~Fails(bytes)
        /\ AllocateBytes(bytes, size, align)
        /\ Zeroed(bytes, zero, block)
        /\ pages_held' = [i \in DOMAIN pages_held \cup {first} |->
                            IF i = first THEN PageRun(i, size) ELSE pages_held[i]]
        /\ padding' = (IF first > block
                       THEN <<[index |-> block, size |-> PageSize * (first - block)]>>
                       ELSE << >>)
                   \o (IF left > 0
                       THEN <<[index |-> first + size \div PageSize, size |-> left]>>
                       ELSE << >>)
        /\ own' = PageRun(block, bytes)
        /\ failed' = FALSE
        /\ UNCHANGED torn

(* A piece heads no block: either its record makes the adapter or free     *)
(* stop, or it happens to fit and the piece goes on a free list, merged    *)
(* with whatever the record of its buddy says.  (The list_del of a buddy   *)
(* that is on no list is left out; the properties end where a piece is     *)
(* taken back.)                                                            *)
FreePadding(unsafe) ==
  /\ ~halted /\ padding # << >>
  /\ Junked(Head(padding).index, Head(padding).size, unsafe)
  /\ FreeAdapter(Head(padding).index, Head(padding).size)
  /\ own' = PageRun(Head(padding).index, Head(padding).size)
  /\ padding' = Tail(padding)
  /\ torn' = (torn \/ ~halted')
  /\ UNCHANGED <<asked, pages_held, failed>>

ANext ==
  \/ (BootFree \/ Stopped) /\ UNCHANGED adapterVars
  \/ \E size \in Sizes, zero \in BOOLEAN, stale \in Pages :
       \/ AllocPages(size, zero, stale)
       \/ \E align \in Aligns : AlignedPages(size, align, zero, stale)
  \/ \E unsafe \in BOOLEAN : FreePadding(unsafe) \/ \E i \in Pages : FreePagesOf(i, unsafe)

ASpec == AInit /\ [][ANext]_allVars

-----------------------------------------------------------------------------
(* Through the adapters the kernel still has a pool of disjoint runs of    *)
(* pages, each of the pages its caller asked for, until the allocator takes*)
(* back a piece of a block.                                                *)
Kernel == INSTANCE PagePool WITH Pool <- Usable, blocks <- pages_held
KernelSpec == Kernel!Init /\ [][Kernel!Next \/ torn']_pages_held

(* Until then free_pages takes back every run alloc_pages gave: the size it*)
(* checks is the size asked for, and no assertion of free fails.           *)
FreesAccepted ==
  Ready /\ ~torn =>
    \A i \in DOMAIN pages_held :
      GetSize(i) = PageSize * Cardinality(pages_held[i]) /\ FreeAsserts(i)

(* "double alloc" is what pmm_selftest looks for (kern/mm/vmm/bootstrap.c):*)
(* no page has two owners, whatever is allocated and freed.                *)
NoDoubleAlloc == Kernel!Disjoint

(* A call that succeeds fills no page but those it hands out or takes      *)
(* back, so no caller's data changes under it.                             *)
FillsOwnPages == ~failed => wrote \subseteq own
=============================================================================
