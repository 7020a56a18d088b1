------------------------------ MODULE Kmalloc ------------------------------
(***************************************************************************)
(* kmalloc, kfree and the object caches of kern/mm/vmm/vmm.c, over the     *)
(* allocator installed by install_vmm_adapter, which is the slub allocator *)
(* of Slub.  Before that, and for caches for ever, the allocators are the  *)
(* dummies of the file.                                                    *)
(***************************************************************************)
EXTENDS Slub

CONSTANTS
  WordSize,    \* a size_t counts modulo this
  Members,     \* the member counts callers of kcalloc ask for
  CacheSize    \* the size of the objects of a cache

(* What the product of a count and a size wraps to may be asked for too.   *)
ASSUME KmallocAssumption ==
  /\ WordSize \in Nat \ {0}
  /\ \A nmemb \in Members, size \in Sizes : (nmemb * size) % WordSize \in Sizes

VARIABLES
  installed,   \* has install_vmm_adapter been called?
  result,      \* what the last allocation returned
  filled,      \* the bytes the last call cleared or filled with junk
  stopped      \* panic was called

kmallocVars == <<installed, result, filled, stopped>>
allVars == <<vars, kmallocVars>>

NULL == 0
EOF == -1
KInit == Init /\ installed = FALSE /\ result = NULL /\ filled = {} /\ stopped = FALSE

Memset(a, size) == a .. a + size - 1

(* The simple allocator: the dummy, or slub_vmalloc through its adapter.   *)
SimpleAlloc(size) ==
  /\ IF installed
     THEN MallocLarge(size) \/ MallocSmall(size) \/ MallocFails(size)
     ELSE UNCHANGED vars
  /\ result' = IF held' = held THEN NULL
               ELSE CHOOSE a \in DOMAIN held' : a \notin DOMAIN held

(* The three functions go into __simple_allocator together, by value.      *)
SetSimpleAllocator == installed' = TRUE
InstallVmmAdapter ==
  /\ ~installed /\ SetSimpleAllocator
  /\ UNCHANGED <<vars, result, filled, stopped>>

TooLarge(size) == size > BlockSize \div 2
Panics == stopped' = TRUE /\ UNCHANGED <<vars, installed, result, filled>>

Kmalloc(size, zero) ==
  \/ TooLarge(size) /\ Panics
  \/ /\ ~TooLarge(size)
     /\ SimpleAlloc(size)
     /\ filled' = IF zero THEN Memset(result', size) ELSE {}
     /\ UNCHANGED <<installed, stopped>>

(* kcalloc of vmm.h: the product wraps, and is both asked for and cleared. *)
\* Slip: what is cleared is computed in a wider type than what is asked for.
KcallocWide(nmemb, size) ==
  \/ TooLarge((nmemb * size) % WordSize) /\ Panics
  \/ /\ ~TooLarge((nmemb * size) % WordSize)
     /\ SimpleAlloc((nmemb * size) % WordSize)
     /\ filled' = Memset(result', nmemb * size)
     /\ UNCHANGED <<installed, stopped>>
Kcalloc(nmemb, size) == Kmalloc((nmemb * size) % WordSize, TRUE)

(* kfree and ksize take NULL; the dummies never gave anything else.        *)
Kfree(obj) ==
  /\ IF obj = NULL \/ ~installed THEN UNCHANGED vars ELSE Free(obj)
  /\ filled' = {} /\ result' = NULL
  /\ UNCHANGED <<installed, stopped>>
Ksize(obj) ==
  /\ installed /\ obj # NULL  \* slub_vmalloc__size panics; otherwise 0 is read
  /\ Panics

(* What the dummies return, which nothing replaces in __caching_allocator. *)
CachingAllocator == [create |-> EOF, destroy |-> EOF, alloc |-> NULL]

(* cache_create and cache_destroy fail, and there is nothing to trim.      *)
NothingDone == result' = NULL /\ filled' = {} /\ UNCHANGED <<vars, installed, stopped>>
CacheCreate == CachingAllocator.create = EOF /\ NothingDone
CacheDestroy == CachingAllocator.destroy = EOF /\ NothingDone
CacheTrim == NothingDone

(* cache_alloc, and cache_free of what it gave: nothing is allocated or    *)
(* freed, and what is filled is NULL.                                      *)
CacheAlloc(zero) ==
  /\ result' = CachingAllocator.alloc
  /\ filled' = IF zero THEN Memset(result', CacheSize) ELSE {}
  /\ UNCHANGED <<vars, installed, stopped>>
CacheFree(unsafe) ==
  /\ filled' = IF unsafe THEN {} ELSE Memset(NULL, CacheSize)
  /\ result' = NULL
  /\ UNCHANGED <<vars, installed, stopped>>

(* A caller of g_vmalloc itself, whom kmalloc's limit does not stop.       *)
VmallocDirect(size) ==
  /\ installed
  /\ MallocLarge(size) \/ MallocSmall(size) \/ MallocFails(size)
  /\ filled' = {} /\ result' = NULL
  /\ UNCHANGED <<installed, stopped>>

KNext ==
  \/ /\ ~stopped
     /\ \/ InstallVmmAdapter
        \/ \E size \in Sizes :
             \/ VmallocDirect(size)
             \/ \E zero \in BOOLEAN : Kmalloc(size, zero)
             \/ \E n \in Members : Kcalloc(n, size)
        \/ \E obj \in DOMAIN held \cup {NULL} : Kfree(obj) \/ Ksize(obj)
        \/ \E flag \in BOOLEAN : CacheAlloc(flag) \/ CacheFree(flag)
        \/ CacheCreate \/ CacheDestroy \/ CacheTrim
  \/ stopped /\ UNCHANGED allVars

KSpec == KInit /\ [][KNext]_allVars

-----------------------------------------------------------------------------
(* Clearing an object touches neither another object, nor the header or a  *)
(* free slot of a slub, where the lists run through the memory itself:     *)
(* also when the product of kcalloc wrapped, and when the object is larger *)
(* than any slot.                                                          *)
FillsOwnObject ==
  result # NULL =>
    filled \cap (Bytes \ (IF result \in Objects THEN Extent(result) ELSE {})) = {}
=============================================================================
