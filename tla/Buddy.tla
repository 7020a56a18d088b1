------------------------------- MODULE Buddy -------------------------------
(***************************************************************************)
(* The buddy physical page allocator, kern/mm/pmm/buddy.c.                 *)
(*                                                                         *)
(* A zone of PageCount pages is kept as blocks of Pow2[order] pages.  The  *)
(* allocator keeps one record per page and one LIFO list of free block     *)
(* heads per order.  A block is named by the index of its first page; the  *)
(* address a caller sees is Addr(index).  Records of pages that head no    *)
(* block are stale: the code never clears them, and neither does the model.*)
(*                                                                         *)
(* After the constructor every page is in use; the boot loop then frees    *)
(* the pages outside the kernel image one by one (mach_init_free_pmm_zone),*)
(* and only then do callers run.  All callers run on the boot core with no *)
(* lock, so every operation is one step.                                   *)
(***************************************************************************)
EXTENDS Integers, Sequences, FiniteSets, SequencesExt, FiniteSetsExt

CONSTANTS
  PageCount,  \* page_count: pages of the zone
  PageSize,   \* page_size: bytes of a page
  Base,       \* base: physical address of page 0
  MaxOrder,   \* max_order, fixed by the constructor
  Pow2,       \* Pow2[o] is the C expression 1 << o
  Usable,     \* pages the boot loop gives to the allocator
  Sizes,      \* byte sizes callers ask for
  Aligns      \* byte alignments callers ask for

VARIABLES
  page,             \* pages[]: the record of each page
  list,             \* list[]: free block heads of each order, newest first
  free_page_count,
  waste_page_count,
  boot,             \* next page the boot loop looks at
  asked,            \* what the owner of each allocated block asked for
  halted            \* has aligned_malloc panicked?

vars == <<page, list, free_page_count, waste_page_count, boot, asked, halted>>

Pages == 0 .. PageCount - 1
Orders == 0 .. MaxOrder
Addr(i) == Base + PageSize * i

(* IS_POW_OF_2: every divisor but 1 is even.                               *)
IsPow2(n) == n > 0 /\ \A d \in 2 .. n : n % d = 0 => d % 2 = 0

(***************************************************************************)
(* Pow2 doubles, and max_order is the largest order a block of the zone    *)
(* can have.                                                               *)
(***************************************************************************)
ASSUME ZoneAssumption ==
  /\ PageCount \in Nat \ {0}
  /\ PageSize \in Nat \ {0}
  /\ IsPow2(PageSize)
  /\ Base \in Nat
  /\ Base % PageSize = 0
  /\ Usable \subseteq Pages
  /\ Sizes \subseteq Nat
  /\ Aligns \subseteq Nat

ASSUME OrderAssumption ==
  /\ MaxOrder \in Nat
  /\ Pow2 \in [0 .. MaxOrder + 1 -> Nat \ {0}]
  /\ Pow2[0] = 1
  /\ \A o \in Orders : Pow2[o + 1] = 2 * Pow2[o]
  /\ Pow2[MaxOrder] <= PageCount
  /\ PageCount < Pow2[MaxOrder + 1]

-----------------------------------------------------------------------------
(* Index arithmetic: get_buddy, get_high_index and the repeated            *)
(* get_low_index of the merge loop.                                        *)

BitSet(i, o) == (i \div Pow2[o]) % 2 = 1
GetBuddy(i, o) == IF BitSet(i, o) THEN i - Pow2[o] ELSE i + Pow2[o]
GetHighIndex(i, o) == IF BitSet(i, o) THEN i ELSE i + Pow2[o]
LowIndex(i, o) == (i \div Pow2[o]) * Pow2[o]

PageRecord == [in_use : 0 .. 1, order : Orders, cur_page_count : Nat, byte_size : Nat]

Init ==
  /\ page = [i \in Pages |-> [in_use |-> 1, order |-> 0,
                              cur_page_count |-> 1, byte_size |-> 0]]
  /\ list = [o \in Orders |-> << >>]
  /\ free_page_count = 0
  /\ waste_page_count = 0
  /\ boot = 0
  /\ asked = << >>
  /\ halted = FALSE

-----------------------------------------------------------------------------
(* buddy_pmalloc__malloc                                                   *)

Running == ~halted /\ boot = PageCount

\* Slip: the size is rounded down.
DivRoundDown(n, d) == n \div d
DivRoundUp(n, d) == (n + d - 1) \div d
Fitting(cnt) == {o \in Orders : Pow2[o] >= cnt}
\* Slip: only the list of the requested order is searched.
CandidatesNoSplit(cnt) == {o \in Fitting(cnt) : o = Min(Fitting(cnt)) /\ list[o] # << >>}
Candidates(cnt) == {o \in Fitting(cnt) : list[o] # << >>}

\* Slip: the pages asked for are subtracted, not the block's.
TakeCountsOfRequest(cnt, target) ==
  /\ free_page_count' = free_page_count - cnt
  /\ waste_page_count' = waste_page_count + (Pow2[target] - cnt)
TakeCounts(cnt, target) ==
  /\ free_page_count' = free_page_count - Pow2[target]
  /\ waste_page_count' = waste_page_count + (Pow2[target] - cnt)

(* The block found at order is cut down to target; the upper half of every *)
(* cut becomes a free block of its own.                                    *)
TakeBlock(size, cnt, target, order) ==
  LET index == Head(list[order])
      Cut(p, o) == p = GetHighIndex(index, o) /\ p < PageCount
      cuts == target .. order - 1
  IN
  /\ page' = [p \in Pages |->
                IF p = index
                THEN [in_use |-> 1, order |-> target, cur_page_count |-> cnt, byte_size |-> size]
                ELSE IF \E o \in cuts : Cut(p, o)
                THEN [page[p] EXCEPT !.in_use = 0, !.order = CHOOSE o \in cuts : Cut(p, o)]
                ELSE page[p]]
  /\ list' = [o \in Orders |->
                IF o = order THEN Tail(list[o])
                ELSE IF o \in cuts /\ GetHighIndex(index, o) < PageCount
                THEN <<GetHighIndex(index, o)>> \o list[o]
                ELSE list[o]]
  /\ TakeCounts(cnt, target)

(* size and align are what the caller asked for; bytes is what malloc is   *)
(* called with.  Its assertions, like those of free, are the invariant     *)
(* AssertionsHold.                                                         *)
AllocateBytes(bytes, size, align) ==
  LET cnt == DivRoundUp(bytes, PageSize)
      target == Min(Fitting(cnt))
      order == Min(Candidates(cnt))
      index == Head(list[order])
  IN \/ /\ Candidates(cnt) = {}              \* return -1
        /\ UNCHANGED vars
     \/ /\ Candidates(cnt) # {}
        /\ TakeBlock(bytes, cnt, target, order)
        /\ asked' = [i \in DOMAIN asked \cup {index} |->
                       IF i = index THEN [size |-> size, align |-> align] ELSE asked[i]]
        /\ UNCHANGED <<boot, halted>>

Malloc(size) == Running /\ AllocateBytes(size, size, 1)

(* buddy_pmalloc__aligned_malloc: IS_ALIGNED, then malloc.                 *)
AlignOK(align) == IsPow2(align) /\ Base % align = 0

AlignedMalloc(size, align) ==
  /\ Running
  /\ \/ AlignOK(align) /\ AllocateBytes(IF align > size THEN align ELSE size, size, align)
     \/ /\ ~AlignOK(align)                  \* panic
        /\ halted' = TRUE
        /\ UNCHANGED <<page, list, free_page_count, waste_page_count, boot, asked>>

-----------------------------------------------------------------------------
(* buddy_pmalloc__free                                                     *)

(* The merge loop from block i: its index at order o, the buddy it looks   *)
(* at there, and the order at which it stops.                              *)
MergeBuddy(i, o) == GetBuddy(LowIndex(i, o), o)
\* Slip: the buddy's in_use is not checked.
CanMergeInUse(i, o) ==
  /\ o < MaxOrder
  /\ MergeBuddy(i, o) < PageCount
  /\ page[MergeBuddy(i, o)].order = o
\* Slip: the buddy's order is not checked.
CanMergeSmaller(i, o) ==
  /\ o < MaxOrder
  /\ MergeBuddy(i, o) < PageCount
  /\ page[MergeBuddy(i, o)].in_use = 0
CanMerge(i, o) ==
  /\ o < MaxOrder
  /\ MergeBuddy(i, o) < PageCount
  /\ page[MergeBuddy(i, o)].in_use = 0
  /\ page[MergeBuddy(i, o)].order = o
\* Slip: free never merges.
MergedOrderNever(i) == page[i].order
MergedOrder(i) == Min({o \in page[i].order .. MaxOrder : ~CanMerge(i, o)})

\* Slip: the waste is not given back.
ReleaseCountsNoWaste(i) ==
  /\ free_page_count' = free_page_count + Pow2[page[i].order]
  /\ UNCHANGED waste_page_count
ReleaseCounts(i) ==
  /\ free_page_count' = free_page_count + Pow2[page[i].order]
  /\ waste_page_count' = waste_page_count - (Pow2[page[i].order] - page[i].cur_page_count)

ReleaseBlock(i) ==
  LET first == page[i].order
      last == MergedOrder(i)
      head == LowIndex(i, last)
  IN
  /\ page' = [page EXCEPT ![head] = [@ EXCEPT !.in_use = 0, !.order = last]]
  /\ list' = [o \in Orders |->
                IF o \in first .. last - 1 THEN RemoveFirst(list[o], MergeBuddy(i, o))
                ELSE IF o = last THEN <<head>> \o list[o]
                ELSE list[o]]
  /\ ReleaseCounts(i)

Free(i) ==
  /\ Running
  /\ i \in DOMAIN asked
  /\ ReleaseBlock(i)
  /\ asked' = [j \in DOMAIN asked \ {i} |-> asked[j]]
  /\ UNCHANGED <<boot, halted>>

(* One turn of the boot loop of mach_init_free_pmm_zone.                   *)
BootFree ==
  /\ boot < PageCount
  /\ IF boot \in Usable
     THEN ReleaseBlock(boot)
     ELSE UNCHANGED <<page, list, free_page_count, waste_page_count>>
  /\ boot' = boot + 1
  /\ UNCHANGED <<asked, halted>>

(* panic() never returns.                                                  *)
Stopped == halted /\ UNCHANGED vars

Next ==
  \/ BootFree
  \/ \E size \in Sizes : Malloc(size)
  \/ \E size \in Sizes, align \in Aligns : AlignedMalloc(size, align)
  \/ \E i \in Pages : Free(i)
  \/ Stopped

Spec == Init /\ [][Next]_vars

(* get_size and get_free_bytes.                                            *)
\* Slip: the size of the block is reported.
GetSizeOfBlock(i) == PageSize * Pow2[page[i].order]
GetSize(i) == page[i].byte_size
GetFreeBytes == PageSize * free_page_count

-----------------------------------------------------------------------------
(* What the records and lists mean.                                        *)

Block(i) == i .. i + Pow2[page[i].order] - 1
Allocated == DOMAIN asked
FreeHeads == UNION {ToSet(list[o]) : o \in Orders}
(* Pages no one has freed yet: the kernel image, and before the boot loop  *)
(* reaches them all others.                                                *)
Kept == {p \in Pages : p >= boot \/ p \notin Usable}
Owners == Allocated \cup Kept
Heads == Owners \cup FreeHeads
FreePages == UNION {Block(i) : i \in FreeHeads}

TypeOK ==
  /\ page \in [Pages -> PageRecord]
  /\ list \in [Orders -> Seq(Pages)]
  /\ free_page_count \in Int
  /\ waste_page_count \in Int
  /\ boot \in 0 .. PageCount
  /\ Allocated \subseteq Pages
  /\ asked \in [Allocated -> [size : Sizes, align : Aligns \cup {1}]]
  /\ halted \in BOOLEAN

(* The heads cut the zone into blocks: every page lies in exactly one      *)
(* block, so no page is handed out twice, none is both free and owned, and *)
(* none is lost, whatever stale records the splits and merges left behind. *)
Partition ==
  /\ \A i \in Heads : Block(i) \subseteq Pages
  /\ \A p \in Pages : \E i \in Heads : p \in Block(i)
  /\ \A i, j \in Heads : i # j => Block(i) \cap Block(j) = {}
  /\ FreeHeads \cap Owners = {}

(* list[o] holds, once each, exactly the free heads whose record says free *)
(* and order o (print asserts the first half of it).                       *)
ListsMatchRecords ==
  \A o \in Orders : \A n \in DOMAIN list[o] :
    /\ page[list[o][n]].in_use = 0
    /\ page[list[o][n]].order = o
    /\ \A m \in DOMAIN list[o] : list[o][m] = list[o][n] => m = n

(* Two free buddies never coexist: free always merges as far as it can.    *)
Coalesced ==
  \A i \in FreeHeads :
    page[i].order < MaxOrder => ~ /\ GetBuddy(i, page[i].order) \in FreeHeads
                                  /\ page[GetBuddy(i, page[i].order)].order = page[i].order

(* The counts malloc and free keep incrementally are exact: the free pages *)
(* are those in free blocks, which get_free_bytes reports, and the waste   *)
(* is what owners' blocks hold beyond what they asked for, which print     *)
(* reports.                                                                *)
Wasted(i) == i + page[i].cur_page_count .. i + Pow2[page[i].order] - 1
WastedPages == UNION {Wasted(i) : i \in Allocated}
CountsExact ==
  /\ GetFreeBytes = PageSize * Cardinality(FreePages)
  /\ waste_page_count = Cardinality(WastedPages)

(* malloc fails only when it must: if some naturally aligned run of free   *)
(* pages of the rounded-up size exists, a list it searches is not empty.   *)
FreeRun(o) == \E q \in 0 .. PageCount \div Pow2[o] : q * Pow2[o] .. (q + 1) * Pow2[o] - 1 \subseteq FreePages
FailsOnlyWhenFull ==
  boot = PageCount =>
    \A size \in Sizes :
      LET cnt == DivRoundUp(size, PageSize) IN
      (\E o \in Fitting(cnt) : FreeRun(o)) => Candidates(cnt) # {}

(* An owner keeps a block at least as large and as aligned as it asked     *)
(* for, and get_size reports the size or the alignment it asked for,       *)
(* whichever malloc was called with.                                       *)
ServesRequests ==
  \A i \in Allocated :
    /\ asked[i].size <= PageSize * Cardinality(Block(i))
    /\ Addr(i) % asked[i].align = 0
    /\ GetSize(i) >= asked[i].size
    /\ GetSize(i) \in {asked[i].size, asked[i].align}

(* No assertion of malloc or free can fire, in whatever order legal callers*)
(* allocate and free: not the one on the block malloc found or on the      *)
(* count it takes from, nor the three free makes on the block it gets, nor *)
(* the one print makes of what is on the lists.                            *)
FreeAsserts(i) ==
  /\ i % Pow2[page[i].order] = 0
  /\ page[i].in_use = 1
  /\ free_page_count + Pow2[page[i].order] <= PageCount
MallocAsserts(cnt) ==
  Candidates(cnt) # {} =>
    /\ page[Head(list[Min(Candidates(cnt))])].in_use = 0
    /\ free_page_count >= cnt
PrintAsserts == \A i \in FreeHeads : page[i].in_use = 0
AssertionsHold ==
  /\ PrintAsserts
  /\ \A i \in Allocated \cup (Kept \cap Usable) : FreeAsserts(i)
  /\ \A size \in Sizes : MallocAsserts(DivRoundUp(size, PageSize))

-----------------------------------------------------------------------------
(* The strengthening that makes Partition inductive.                       *)

(* A block starts at a multiple of its size, which is what lets free find  *)
(* its buddy by flipping one bit.                                          *)
HeadsAligned == \A i \in Heads : i % Pow2[page[i].order] = 0

(* Whoever heads a block that is not free is marked so, and the boot loop  *)
(* still holds single pages.                                               *)
OwnersInUse ==
  /\ \A i \in Owners : page[i].in_use = 1
  /\ \A i \in Kept : page[i].order = 0
  /\ Allocated \cap Kept = {}
  /\ boot < PageCount => Allocated = {}

(* Together: the records, lists and owners cut the zone into blocks of     *)
(* which no page is shared or lost, after any calls.                       *)
IInv ==
  TypeOK /\ Partition /\ ListsMatchRecords /\ HeadsAligned /\ OwnersInUse

-----------------------------------------------------------------------------
(* The allocator implements a pool of disjoint runs of pages.              *)
Abstract == INSTANCE PagePool WITH
          Pool <- Usable, blocks <- [i \in Allocated |-> Block(i)]

PoolSpec == Abstract!Spec
=============================================================================
