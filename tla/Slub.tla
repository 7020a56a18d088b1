-------------------------------- MODULE Slub --------------------------------
(***************************************************************************)
(* The slub object allocator, kern/mm/vmm/slub.c, over the page bridge of  *)
(* kern/mm/vmm/pvbridge.c.                                                 *)
(*                                                                         *)
(* An object of at most Pow2[MaxLevel] bytes is a slot of a slub: a block  *)
(* that starts with a header and is cut into slots of one level's size.  A *)
(* larger object is a run of whole blocks straight from the page           *)
(* allocator.  free tells the two apart by the alignment of the pointer    *)
(* alone.  The page allocator below is PagePool, which Buddy implements;   *)
(* page p is the block at address BlockSize * p, page 0 is never usable,   *)
(* so address 0 is NULL, and the bridge's fixed offset is left out.        *)
(***************************************************************************)
EXTENDS Integers, Sequences, FiniteSets, SequencesExt, FiniteSetsExt

CONSTANTS
  Pages,       \* the pages the page allocator may hand out
  BlockSize,   \* SLUB_BLOCK_SIZE, the page size
  HeaderSize,  \* sizeof(struct slub_header)
  MinLevel,    \* MIN_SLUB_LEVEL
  MaxLevel,    \* MAX_SLUB_LEVEL
  Pow2,        \* Pow2[level] is the C expression 1 << level
  Sizes        \* byte sizes callers ask for

VARIABLES
  runs,        \* the page allocator's: runs[p] are the pages handed out at p
  level_of,    \* the level_idx of each slub's header
  free_list,   \* the addresses of each slub's free slots, newest first
  slub_avail,  \* the slubs of each level with a free slot, newest first
  slub_full,   \* the slubs of each level with none, newest first
  held         \* the size asked for of each object callers hold

slubVars == <<level_of, free_list, slub_avail, slub_full>>
vars == <<runs, slubVars, held>>

Levels == MinLevel .. MaxLevel

(* The static assertions of vmm.h, and a block being a power of two.       *)
ASSUME SlubAssumption ==
  /\ Pages \subseteq Nat \ {0}
  /\ MinLevel \in Nat /\ MaxLevel \in Nat /\ MinLevel <= MaxLevel
  /\ Pow2 \in [Levels -> Nat \ {0}]
  /\ \A l \in Levels : l < MaxLevel => Pow2[l + 1] = 2 * Pow2[l]
  /\ BlockSize \in Nat
  /\ \A l \in Levels : BlockSize % Pow2[l] = 0 /\ Pow2[l] < BlockSize
  /\ HeaderSize \in Nat \ {0}
  /\ HeaderSize + Pow2[MaxLevel] <= BlockSize
  /\ Sizes \subseteq Nat

Bridge == INSTANCE PagePool WITH Pool <- Pages, blocks <- runs

AddrOf(p) == BlockSize * p
PageOf(a) == a \div BlockSize      \* ALIGN_BELOW(a, SLUB_BLOCK_SIZE)
IsBlockAligned(a) == a % BlockSize = 0

DivRoundUp(n, d) == (n + d - 1) \div d

MaxSolts(l) == (BlockSize - HeaderSize) \div Pow2[l]
\* Slip: the offset is rounded down.
SoltsOffsetBelow(l) == (HeaderSize \div Pow2[l]) * Pow2[l]
SoltsOffset(l) == DivRoundUp(HeaderSize, Pow2[l]) * Pow2[l]
\* Slip: the stride is half a slot.
SoltAtHalfStride(p, l, i) == AddrOf(p) + SoltsOffset(l) + (Pow2[l] * i) \div 2
SoltAt(p, l, i) == AddrOf(p) + SoltsOffset(l) + Pow2[l] * i

Init ==
  /\ runs = << >>
  /\ level_of = << >>
  /\ free_list = << >>
  /\ slub_avail = [l \in Levels |-> << >>]
  /\ slub_full = [l \in Levels |-> << >>]
  /\ held = << >>

-----------------------------------------------------------------------------
(* slub_vmalloc__malloc                                                    *)

Fitting(size) == {l \in Levels : Pow2[l] >= size}
With(f, x, v) == [y \in DOMAIN f \cup {x} |-> IF y = x THEN v ELSE f[y]]

(* aligned_malloc(size, SLUB_BLOCK_SIZE) of the bridge: the page allocator *)
(* gives a run of enough pages at first.                                   *)
BridgeRun(first, bytes) == first .. first + DivRoundUp(bytes, BlockSize) - 1
BridgeMalloc(first, size) == Bridge!Alloc(first, BridgeRun(first, Max({size, BlockSize})))

MallocLarge(size) ==
  /\ Fitting(size) = {}
  /\ \E first \in Pages :
       /\ BridgeMalloc(first, size)
       /\ held' = With(held, AddrOf(first), size)
  /\ UNCHANGED slubVars

(* alloc_slub links the slots from the first on, each before the last.     *)
NewFreeList(p, l) == [n \in 1 .. MaxSolts(l) |-> SoltAt(p, l, MaxSolts(l) - n)]

IsFull(slots) == slots = << >>

(* malloc_from_slub on the first slub of avail, then slub_is_full.         *)
TakeSolt(l, lists, avail, size) ==
  LET slub == Head(avail)
      rest == Tail(lists[slub])
  IN
  /\ held' = With(held, Head(lists[slub]), size)
  /\ free_list' = [lists EXCEPT ![slub] = rest]
  /\ slub_avail' = [slub_avail EXCEPT ![l] = IF IsFull(rest) THEN Tail(avail) ELSE avail]
  /\ slub_full' = [slub_full EXCEPT ![l] = IF IsFull(rest) THEN <<slub>> \o @ ELSE @]

MallocSmall(size) ==
  /\ Fitting(size) # {}
  /\ LET l == Min(Fitting(size)) IN
     \/ /\ slub_avail[l] # << >>
        /\ TakeSolt(l, free_list, slub_avail[l], size)
        /\ UNCHANGED <<runs, level_of>>
     \/ /\ slub_avail[l] = << >>
        /\ \E p \in Pages :
             /\ BridgeMalloc(p, BlockSize)
             /\ level_of' = With(level_of, p, l)
             /\ TakeSolt(l, With(free_list, p, NewFreeList(p, l)), <<p>>, size)

(* The bridge finds no run: return NULL.                                   *)
MallocFails(size) ==
  /\ Fitting(size) # {} => slub_avail[Min(Fitting(size))] = << >>
  /\ UNCHANGED vars

-----------------------------------------------------------------------------
(* slub_vmalloc__free                                                      *)
BridgeFree(a) == Bridge!Free(PageOf(a))

\* Slip: large objects leak.
FreeLargeLeaks(a) ==
  /\ IsBlockAligned(a)
  /\ UNCHANGED <<runs, slubVars>>
FreeLarge(a) ==
  /\ IsBlockAligned(a)
  /\ BridgeFree(a)
  /\ UNCHANGED slubVars

\* Slip: move_flag is read after the slot is linked, so it is never set.
FreeSmallNeverMoves(a) ==
  /\ ~IsBlockAligned(a)
  /\ free_list' = [free_list EXCEPT ![PageOf(a)] = <<a>> \o @]
  /\ UNCHANGED <<runs, level_of, slub_avail, slub_full>>
\* Slip: a slot of a full slub is not linked.
FreeSmallLosesSolt(a) ==
  LET slub == PageOf(a)
      l == level_of[slub]
      move_flag == IsFull(free_list[slub])
  IN
  /\ ~IsBlockAligned(a)
  /\ free_list' = [free_list EXCEPT ![slub] = IF move_flag THEN @ ELSE <<a>> \o @]
  /\ UNCHANGED <<runs, slubVars>>
FreeSmall(a) ==
  LET slub == PageOf(a)
      l == level_of[slub]
      move_flag == IsFull(free_list[slub])
  IN
  /\ ~IsBlockAligned(a)
  /\ free_list' = [free_list EXCEPT ![slub] = <<a>> \o @]
  /\ IF move_flag
     THEN /\ slub_full' = [slub_full EXCEPT ![l] = RemoveFirst(@, slub)]
          /\ slub_avail' = [slub_avail EXCEPT ![l] = <<slub>> \o @]
     ELSE UNCHANGED <<slub_full, slub_avail>>
  /\ UNCHANGED <<runs, level_of>>

Free(a) ==
  /\ held' = [b \in DOMAIN held \ {a} |-> held[b]]
  /\ FreeLarge(a) \/ FreeSmall(a)

Next ==
  \/ \E size \in Sizes : MallocLarge(size) \/ MallocSmall(size) \/ MallocFails(size)
  \/ \E a \in DOMAIN held : Free(a)

Spec == Init /\ [][Next]_vars

-----------------------------------------------------------------------------
Slubs == DOMAIN level_of
Objects == DOMAIN held
Bytes == UNION {AddrOf(p) .. AddrOf(p) + BlockSize - 1 : p \in Pages}

TypeOK ==
  /\ DOMAIN runs \subseteq Pages
  /\ runs \in [DOMAIN runs -> SUBSET Pages]
  /\ Slubs \subseteq Pages
  /\ level_of \in [Slubs -> Levels]
  /\ free_list \in [Slubs -> Seq(Bytes)]
  /\ slub_avail \in [Levels -> Seq(Slubs)]
  /\ slub_full \in [Levels -> Seq(Slubs)]
  /\ Objects \subseteq Bytes
  /\ held \in [Objects -> Sizes]

(* Every slot of a slub is either on its free list, once, or held by one   *)
(* caller: no slot is handed out twice or lost, and nothing that is not a  *)
(* slot is ever put on a free list.                                        *)
SoltsAccounted ==
  TypeOK /\
  \A p \in Slubs :
    LET solts == {SoltAt(p, level_of[p], i) : i \in 0 .. MaxSolts(level_of[p]) - 1}
        listed == ToSet(free_list[p])
        taken == {a \in Objects : PageOf(a) = p}
    IN /\ Len(free_list[p]) = Cardinality(listed)
       /\ listed \cap taken = {}
       /\ listed \cup taken = solts

(* A slub is on the avail list of its level, once, if it has a free slot   *)
(* and on the full list, once, if it has none, so malloc never meets a     *)
(* full slub and never forgets one that has room.                          *)
Listed(lists, l) == ToSet(lists[l])
SlubsListed ==
  \A l \in Levels :
    /\ Len(slub_avail[l]) = Cardinality(Listed(slub_avail, l))
    /\ Len(slub_full[l]) = Cardinality(Listed(slub_full, l))
    /\ Listed(slub_avail, l) = {p \in Slubs : level_of[p] = l /\ ~IsFull(free_list[p])}
    /\ Listed(slub_full, l) = {p \in Slubs : level_of[p] = l /\ IsFull(free_list[p])}

(* Each run taken from the page allocator is one slub or one large object, *)
(* so none leaks and no slub loses its page.                               *)
PagesAccounted ==
  /\ DOMAIN runs = Slubs \cup {PageOf(a) : a \in {b \in Objects : IsBlockAligned(b)}}
  /\ \A p \in Slubs : runs[p] = {p} /\ AddrOf(p) \notin Objects

(* The objects are disjoint runs of bytes of the pages: the slub allocator *)
(* promises for bytes what the page allocator promises for pages.          *)
Extent(a) ==
  IF IsBlockAligned(a)
  THEN UNION {AddrOf(p) .. AddrOf(p) + BlockSize - 1 : p \in runs[PageOf(a)]}
  ELSE a .. a + Pow2[level_of[PageOf(a)]] - 1

Heap == INSTANCE PagePool WITH
          Pool <- Bytes, blocks <- [a \in Objects |-> Extent(a)]
HeapSpec == Heap!Spec

(* "we need to distinguish two type of pointers": a pointer free takes for *)
(* a large object is one, so it never gives a slub's page, with everyone's *)
(* objects in it, back to the page allocator; and no object covers a byte  *)
(* of a slub's header, where free looks for the level and the list.        *)
PointersDistinguished ==
  \A a \in Objects :
    /\ IsBlockAligned(a) <=> Fitting(held[a]) = {}
    /\ \A p \in Slubs : Extent(a) \cap (AddrOf(p) .. AddrOf(p) + HeaderSize - 1) = {}
=============================================================================
