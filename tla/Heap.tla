-------------------------------- MODULE Heap --------------------------------
(***************************************************************************)
(* The kernel heap of libk/malloc.c on its slab caches, down to memory: a  *)
(* cell of mem is two bytes, a pointer takes four of them and a            *)
(* malloc_metadata_t one.  Each cache keeps the one slab it was created    *)
(* with, because malloc never passes SLAB_AUTO_GROW; its freelist is       *)
(* threaded through the buffers, and its slab_t and slab_cache_t are kept  *)
(* outside mem.  Addresses are physical (HEAP_START_ADDR is left off) and  *)
(* frame 0 is NULL.                                                        *)
(*                                                                         *)
(* Where the kernel would go on with memory that is no longer its own the  *)
(* model stops, with the reason in status and the cache in culprit.        *)
(***************************************************************************)
EXTENDS Integers, Sequences, FiniteSets, SequencesExt, FiniteSetsExt

CONSTANTS
    Frames,     \* the frames pmm_init left free
    PAGE,       \* PAGE_SIZE, in cells
    Sizes,      \* the buffer sizes of slab_caches, in cells
    Requests,   \* the sizes callers ask for, in cells
    MaxLive     \* callers have at most this many blocks

PTR == 4
META == 1           \* sizeof(malloc_metadata_t)
BUFCTL == 2 * PTR   \* sizeof(slab_bufctl_t): next and ptr
SLAB_T == 4 * PTR
CACHE_T == 5 * PTR

NULL == 0
Caches == DOMAIN Sizes
Largest == Sizes[Len(Sizes)]

\* Requests of more than a page would overlap in the physical allocator, and
\* the largest request for a slab does not fit its buffer with the metadata.
ASSUME HeapAssumption ==
    /\ Frames \subseteq Nat \ {0} /\ IsFiniteSet(Frames) /\ Frames # {}
    /\ PAGE \in Nat
    /\ Sizes \in Seq(Nat \ {0}) /\ Sizes # <<>>
    /\ \A k \in 1 .. (Len(Sizes) - 1) : Sizes[k + 1] = 2 * Sizes[k]
    /\ PAGE >= CACHE_T + Largest /\ PAGE > SLAB_T + BUFCTL
    /\ \A n \in Requests : n \in 1 .. (PAGE - META) /\ n # Largest
    /\ MaxLive \in Nat

VARIABLES
    free,           \* the frames whose bit is clear in the bitmap
    mem,            \* all cells, those of frame 0 included
    page,           \* the frame of each cache's slab
    freelist_head,  \* per cache; WILD when it is no buffer's address
    bufctl_count,   \* per cache
    live,           \* the blocks callers have
    status, culprit

vars == <<free, mem, page, freelist_head, bufctl_count, live, status, culprit>>

WILD == -1      \* a pointer that leads nowhere
DATA == -2      \* what the owner of a block writes
Cells == 0 .. (PAGE * (Max(Frames) + 1) - 1)

\* m with the pointer p at address a; the pointer at a, if it may be one.
WithPtr(m, a, p) == [m EXCEPT ![a] = p, ![a + 1] = 0, ![a + 2] = 0, ![a + 3] = 0]
PtrAt(a) ==
    IF /\ \A i \in 1 .. (PTR - 1) : mem[a + i] = 0
       /\ mem[a] = NULL \/ \E k \in Caches : mem[a] \div PAGE = page[k]
    THEN mem[a] ELSE WILD

\* The cache a block came from; 0 for a page of its own.
CacheOf(b) ==
    IF \E k \in Caches : page[k] = b.ptr \div PAGE
    THEN CHOOSE k \in Caches : page[k] = b.ptr \div PAGE ELSE 0

Stop(why, k) == status' = why /\ culprit' = k

-----------------------------------------------------------------------------
(* Creating the caches.                                                    *)

bufctl_count_max(k) == (PAGE - CACHE_T) \div Sizes[k]
Buffer(k, p, j) == p * PAGE + (j - 1) * Sizes[k]

\* Mutant of slab_init_bufctls: the list is not linked to its third buffer.
slab_init_bufctls_Short(m, k, p) ==
    LET after[j \in 0 .. bufctl_count_max(k)] ==
            IF j = 0 THEN m
            ELSE LET put == WithPtr(after[j - 1], Buffer(k, p, j) + PTR, Buffer(k, p, j))
                 IN IF j \in {1, 3} THEN put ELSE WithPtr(put, Buffer(k, p, j - 1), Buffer(k, p, j))
    IN after[bufctl_count_max(k)]

\* slab_init_bufctls for all buffers in turn: write the buffer's own address
\* behind its next, then append it.  A buffer smaller than a slab_bufctl_t
\* has no room for this: its neighbours' fields are overwritten.
slab_init_bufctls(m, k, p) ==
    LET after[j \in 0 .. bufctl_count_max(k)] ==
            IF j = 0 THEN m
            ELSE LET put == WithPtr(after[j - 1], Buffer(k, p, j) + PTR, Buffer(k, p, j))
                 IN IF j = 1 THEN put ELSE WithPtr(put, Buffer(k, p, j - 1), Buffer(k, p, j))
    IN after[bufctl_count_max(k)]

\* slab_cache_create for each size: a frame for the slab_cache_t, the next
\* one for its slab.
malloc_heap_init ==
    /\ status = "boot"
    /\ LET frame == [j \in 1 .. Cardinality(free) |->
                        CHOOSE p \in free : Cardinality({q \in free : q <= p}) = j]
           slab == [k \in Caches |-> frame[2 * k]]
           made[k \in 0 .. Len(Sizes)] ==
               IF k = 0 THEN mem ELSE slab_init_bufctls(made[k - 1], k, slab[k])
       IN IF Len(frame) < 2 * Len(Sizes)
          THEN Stop("panic", 0) /\ UNCHANGED <<free, mem, page, freelist_head, bufctl_count>>
          ELSE /\ page' = slab
               /\ mem' = made[Len(Sizes)]
               /\ freelist_head' = [k \in Caches |-> Buffer(k, slab[k], 1)]
               /\ bufctl_count' = [k \in Caches |-> bufctl_count_max(k)]
               /\ free' = free \ {frame[j] : j \in 1 .. (2 * Len(Sizes))}
               /\ Stop("run", 0)
    /\ UNCHANGED live

-----------------------------------------------------------------------------
(* malloc and free.                                                        *)

get_slab_cache_index(n) ==
    IF n > Largest THEN Len(Sizes) ELSE Min({k \in Caches : n <= Sizes[k]})

\* A block from a slab: slab_cache_alloc pops the freelist, reading the next
\* pointer from the buffer, and the metadata is written over it.  Without a
\* buffer it panics.
malloc_small(n) ==
    /\ status = "run" /\ n <= Largest
    /\ LET k == get_slab_cache_index(n + META)
           ptr == freelist_head[k]
       IN IF ptr \in {NULL, WILD} \/ \E b \in live : b.ptr = ptr
          THEN /\ Stop(IF ptr = NULL THEN "panic" ELSE "wild", k)
               /\ UNCHANGED <<mem, freelist_head, bufctl_count, live>>
          ELSE /\ freelist_head' = [freelist_head EXCEPT ![k] = PtrAt(ptr)]
               /\ mem' = [mem EXCEPT ![ptr] = k - 1]
               /\ bufctl_count' = [bufctl_count EXCEPT ![k] = @ - 1]
               /\ live' = live \cup {[ptr |-> ptr, size |-> n + META]}
               /\ UNCHANGED <<status, culprit>>
    /\ UNCHANGED <<free, page>>

\* A page from the physical allocator, cleared.  A refusal is not noticed:
\* the block is then at address 0.  Once such a block has been freed the
\* allocator finds frame 0 first, takes it for a refusal and never gets past.
malloc_large(n) ==
    /\ status = "run" /\ n > Largest
    /\ LET p == IF free = {} THEN 0 ELSE Min(free)
       IN /\ free' = free \ ({p} \ {NULL})
          /\ mem' = [a \in Cells |-> IF a = p * PAGE THEN 1
                                     ELSE IF a \div PAGE = p THEN 0 ELSE mem[a]]
          /\ live' = live \cup {[ptr |-> p * PAGE, size |-> n + META]}
    /\ UNCHANGED <<page, freelist_head, bufctl_count, status, culprit>>

\* The owner of a block fills it.
Use(b) ==
    /\ status = "run" /\ b \in live
    /\ mem' = [a \in Cells |-> IF a \in (b.ptr + META) .. (b.ptr + b.size - 1)
                               THEN DATA ELSE mem[a]]
    /\ UNCHANGED <<free, page, freelist_head, bufctl_count, live, status, culprit>>

\* Mutant of free_small: next and ptr are written one cell too late.
free_small_Late(b) ==
    /\ status = "run" /\ b \in live /\ b.ptr % PAGE # 0
    /\ LET k == mem[b.ptr] + 1
       IN IF k \notin Caches \/ bufctl_count[k] = bufctl_count_max(k)
          THEN /\ Stop(IF k \in Caches THEN "panic" ELSE "wild", CacheOf(b))
               /\ UNCHANGED <<mem, freelist_head, bufctl_count>>
          ELSE /\ mem' = WithPtr(WithPtr(mem, b.ptr, freelist_head[k]), b.ptr + PTR + 1, b.ptr)
               /\ freelist_head' = [freelist_head EXCEPT ![k] = b.ptr]
               /\ bufctl_count' = [bufctl_count EXCEPT ![k] = @ + 1]
               /\ UNCHANGED <<status, culprit>>
    /\ live' = live \ {b}
    /\ UNCHANGED <<free, page>>

\* A block that does not start a page is taken for a buffer of the cache its
\* metadata names (slab_cache_free).
free_small(b) ==
    /\ status = "run" /\ b \in live /\ b.ptr % PAGE # 0
    /\ LET k == mem[b.ptr] + 1
       IN IF k \notin Caches \/ bufctl_count[k] = bufctl_count_max(k)
          THEN /\ Stop(IF k \in Caches THEN "panic" ELSE "wild", CacheOf(b))
               /\ UNCHANGED <<mem, freelist_head, bufctl_count>>
          ELSE /\ mem' = WithPtr(WithPtr(mem, b.ptr, freelist_head[k]), b.ptr + PTR, b.ptr)
               /\ freelist_head' = [freelist_head EXCEPT ![k] = b.ptr]
               /\ bufctl_count' = [bufctl_count EXCEPT ![k] = @ + 1]
               /\ UNCHANGED <<status, culprit>>
    /\ live' = live \ {b}
    /\ UNCHANGED <<free, page>>

\* Mutant of free_large: one page too many.
free_large_OneMore(b) ==
    /\ status = "run" /\ b \in live /\ b.ptr % PAGE = 0
    /\ LET p == b.ptr \div PAGE
           freed == p .. (p + mem[b.ptr])
       IN /\ free' = free \cup freed
          /\ IF freed \cap ToSet(page) # {} THEN Stop("corrupt", CacheOf(b))
                                            ELSE UNCHANGED <<status, culprit>>
    /\ live' = live \ {b}
    /\ UNCHANGED <<mem, page, freelist_head, bufctl_count>>

\* A block that starts a page is taken for a number of pages, although it
\* may be the first buffer of a slab and the number its cache's index.
free_large(b) ==
    /\ status = "run" /\ b \in live /\ b.ptr % PAGE = 0
    /\ LET p == b.ptr \div PAGE
           freed == p .. (p + mem[b.ptr] - 1)
       IN /\ free' = free \cup freed
          /\ IF freed \cap ToSet(page) # {} THEN Stop("corrupt", CacheOf(b))
                                            ELSE UNCHANGED <<status, culprit>>
    /\ live' = live \ {b}
    /\ UNCHANGED <<mem, page, freelist_head, bufctl_count>>

Init ==
    /\ free = Frames
    /\ mem = [a \in Cells |-> 0]
    /\ page = <<>> /\ freelist_head = <<>> /\ bufctl_count = <<>>
    /\ live = {} /\ status = "boot" /\ culprit = 0

Next ==
    \/ malloc_heap_init
    \/ Cardinality(live) < MaxLive /\ \E n \in Requests : malloc_small(n) \/ malloc_large(n)
    \/ \E b \in live : Use(b) \/ free_small(b) \/ free_large(b)

Spec == Init /\ [][Next]_vars

-----------------------------------------------------------------------------
(* Properties.                                                             *)

\* The types of the state.  A slab's page that is given back takes as many
\* pages behind it along as its cache's index says, frames or not.
TypeOK ==
    /\ status = "corrupt" \/ free \subseteq Frames \cup {0}
    /\ mem \in [Cells -> Cells \cup {WILD, DATA}]
    /\ status \in {"boot", "run", "panic", "wild", "corrupt"}
    /\ culprit \in Caches \cup {0}
    /\ \A b \in live : b.ptr \in Cells /\ b.ptr + b.size - 1 \in Cells

\* The caches whose buffers have room for a slab_bufctl_t.
SoundCaches == {k \in Caches : Sizes[k] >= BUFCTL}

\* The freelist of a cache with large enough buffers, as it stands in
\* memory between blocks their owners write to, consists of bufctl_count
\* different buffers, none of them in use, and then ends; malloc and free
\* lose no buffer.  A pointer or an index that is none is met only in a cache
\* with smaller buffers, whatever callers wrote.
FreelistSound ==
    /\ status = "wild" => culprit \notin SoundCaches
    /\ status = "run" =>
        \A k \in SoundCaches :
            LET node[i \in 0 .. bufctl_count[k]] ==
                    IF i = 0 THEN freelist_head[k] ELSE PtrAt(node[i - 1])
                listed == {node[i] : i \in 0 .. (bufctl_count[k] - 1)}
                used == {b.ptr : b \in {c \in live : CacheOf(c) = k}}
            IN /\ node[bufctl_count[k]] = NULL
               /\ Cardinality(listed) = bufctl_count[k]
               /\ listed \cap used = {}
               /\ listed \cup used = {Buffer(k, page[k], j) : j \in 1 .. bufctl_count_max(k)}

\* A page and its block are exclusive as well, except at address 0.
Sound(b) ==
    LET k == CacheOf(b) IN IF k = 0 THEN b.ptr # 0 ELSE k \in SoundCaches

\* Blocks of these caches and of pages are what malloc promises: disjoint,
\* and left alone by everything but their owners.
Promise == INSTANCE BlockAllocator WITH
    blocks <- [b \in {c \in live : Sound(c)} |-> [i \in 0 .. (b.size - 1) |-> mem[b.ptr + i]]]
BlocksPrivate == Promise!Spec
=============================================================================
