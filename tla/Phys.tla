-------------------------------- MODULE Phys --------------------------------
(***************************************************************************)
(* The physical page-frame allocator: mm/phys.c over the bitmap of         *)
(* mm/bmap.c.                                                              *)
(*                                                                         *)
(* Addresses and lengths are counted in page frames: every USABLE entry of *)
(* a stivale2 memory map is page aligned.  A frame number stands for both  *)
(* the frame and its bit in pmm_bitmap (PAGE_TO_BIT, BIT_TO_PAGE); frame 0 *)
(* is the NULL pointer.  The bitmap is the set `used' of the bits that are *)
(* 1.  A bit that lies outside pmm_bitmap's own bytes belongs to other     *)
(* memory: a read of it returns anything, a write to it is recorded in     *)
(* the history variable `stray'.  The bitmap is itself in page frames, and *)
(* a memset that reaches one of them clears the bits kept there.           *)
(* bmap.c takes the bit number as an int; a frame number fits one on a     *)
(* machine of less than 2^31 frames (8 TiB), which is assumed.             *)
(***************************************************************************)
EXTENDS Integers, Sequences, FiniteSets, FiniteSetsExt

CONSTANTS
    PAGE_SIZE,  \* bytes in a page (4096 in mm/mm.h)
    WORD,       \* number of values of size_t (2^64)
    MemMaps,    \* the memory maps the bootloader may pass to pmm_init
    Counts,     \* the page counts callers ask for
    Holders,    \* the kernel pointers that can own one allocation each
    MaxNullFrees  \* bound: how often a refused block is freed all the same

BYTE == 8       \* bits in a byte of the bitmap
KB == 1024

MmapType == {"USABLE", "RECLAIMABLE", "KERNEL", "OTHER"}
Entry == [base : Nat, length : Nat, type : MmapType]

Frames(e) == e.base .. (e.base + e.length - 1)

\* The entries whose memory counts towards hi_page_top.
Counted(e) == e.type # "OTHER"

\* USABLE entries overlap no other USABLE entry (guaranteed by stivale2).
Disjoint(m) ==
    \A j, k \in DOMAIN m :
        /\ j # k
        /\ m[j].type = "USABLE"
        /\ m[k].type = "USABLE"
        => Frames(m[j]) \cap Frames(m[k]) = {}

ASSUME PageSizeAssumption == PAGE_SIZE \in Nat \ {0}
ASSUME NullFreesAssumption == MaxNullFrees \in Nat
ASSUME MemMapAssumption == \A m \in MemMaps : m \in Seq(Entry) /\ Disjoint(m)
\* hi_page_top * 1024 is representable: physical addresses have 52 bits.
ASSUME WordAssumption ==
    /\ WORD \in Nat \ {0}
    /\ Counts \subseteq 0 .. (WORD - 1)
    /\ \A m \in MemMaps : \A k \in DOMAIN m :
          (m[k].base + m[k].length) * KB < WORD

VARIABLES
    pc,             \* where pmm_init is; "ready" once it has returned
    i,              \* the loop variable of pmm_init (1-based)
    mmap,           \* the memory map, which pmm_init edits in place
    hi_page_top,    \* in frames
    used_page_cnt,  \* a size_t
    map,            \* pmm_bitmap.map as a frame; NULLMAP when never set
    size,           \* pmm_bitmap.size, in pages (it is page aligned)
    used,           \* the bits of the bitmap that are 1
    holds,          \* holds[h]: the allocation h owns, or NoAlloc
    refused,        \* the counts for which some caller now holds NULL
    ret,            \* what the last allocation returned
    null_frees,     \* history: how often NULL was freed
    zeroed,         \* history: frames written by the last pmm_allocz
    stray           \* history: bits written outside the bitmap

bootVars == <<pc, i, mmap, hi_page_top, map, size>>
callVars == <<holds, refused, ret, null_frees, zeroed>>
vars == <<bootVars, used_page_cnt, used, stray, callVars>>

NULL == 0
NULLMAP == -1
NoAlloc == [base |-> NULL, n |-> 0]

MapBits == size * PAGE_SIZE * BYTE
InMap(B) == {b \in B : b < MapBits}

\* Unsigned size_t arithmetic: one addition or subtraction wraps at most once.
Wrap(x) == IF x < 0 THEN x + WORD ELSE IF x >= WORD THEN x - WORD ELSE x

Span(a) == a.base .. (a.base + a.n - 1)
Held == UNION {Span(holds[h]) : h \in Holders}

\* The frames the bitmap is stored in; with pmm_bitmap.map NULL, the first.
BitmapBase == IF map = NULLMAP THEN 0 ELSE map
BitmapFrames == BitmapBase .. (BitmapBase + size - 1)

\* The bits of the bitmap that are stored in the frames F.
BitsIn(F) ==
    {b \in 0 .. (MapBits - 1) : BitmapBase + (b \div (PAGE_SIZE * BYTE)) \in F}

-----------------------------------------------------------------------------
(* mm/bmap.c, for all the bits B of one loop.                              *)

bitmap_set(bits, B) == bits \cup InMap(B)
bitmap_clear(bits, B) == bits \ B
Touch(B) == stray' = stray \cup (B \ InMap(B))

\* bitmap_get(b), where junk is what the memory beyond the bitmap reads as.
bitmap_get(b, junk) == b \in used \cup junk

Init ==
    /\ pc = "scan" /\ i = 1
    /\ mmap \in MemMaps
    /\ hi_page_top = 0 /\ used_page_cnt = 0
    /\ map = NULLMAP /\ size = 0
    /\ used = {} /\ stray = {}
    /\ holds = [h \in Holders |-> NoAlloc] /\ refused = {}
    /\ ret = NULL /\ null_frees = 0 /\ zeroed = {}

-----------------------------------------------------------------------------
(* pmm_init: three loops over the memory map.                              *)

\* First loop: hi_page_top becomes the highest end of a counted entry.
ScanEntry ==
    /\ pc = "scan" /\ i <= Len(mmap)
    /\ LET top == mmap[i].base + mmap[i].length
       IN hi_page_top' = IF Counted(mmap[i]) /\ top > hi_page_top
                         THEN top ELSE hi_page_top
    /\ i' = i + 1
    /\ UNCHANGED <<pc, mmap, used_page_cnt, map, size, used, stray, callVars>>

\* Bytes of bitmap for n frames, n / 8 rounded up to whole pages.
BitmapPages(n) == ((n \div BYTE) + PAGE_SIZE - 1) \div PAGE_SIZE

\* KB_TO_PAGES takes hi_page_top, which is in bytes, for kilobytes.
ScanDone ==
    /\ pc = "scan" /\ i > Len(mmap)
    /\ used_page_cnt' = hi_page_top * KB
    /\ size' = BitmapPages(hi_page_top)
    /\ pc' = "place" /\ i' = 1
    /\ UNCHANGED <<mmap, hi_page_top, map, used, stray, callVars>>

\* Mutant of Fits: the length of the entry is not looked at.
Fits_AnyLength(e) == e.type = "USABLE"

Fits(e) == e.type = "USABLE" /\ e.length >= size
\* Mutant of Shrunk: the bitmap's pages stay in the entry.
Shrunk_Not(e) == e

Shrunk(e) == [base |-> e.base + size, length |-> e.length - size,
              type |-> e.type]

\* memset(map, 0xFF, size), reached from the break and from the loop's end.
FillBitmap ==
    /\ used' = 0 .. (MapBits - 1)
    /\ pc' = "free" /\ i' = 1

\* Second loop: the bitmap takes the front of the first entry it fits in.
PlaceEntry ==
    /\ pc = "place" /\ i <= Len(mmap)
    /\ IF Fits(mmap[i])
       THEN /\ map' = mmap[i].base
            /\ mmap' = [mmap EXCEPT ![i] = Shrunk(mmap[i])]
            /\ FillBitmap
       ELSE /\ i' = i + 1
            /\ UNCHANGED <<map, mmap, used, pc>>
    /\ UNCHANGED <<hi_page_top, used_page_cnt, size, stray, callVars>>

\* No entry is large enough: pmm_bitmap.map stays NULL and is filled anyway.
PlaceNone ==
    /\ pc = "place" /\ i > Len(mmap)
    /\ FillBitmap
    /\ UNCHANGED <<mmap, hi_page_top, used_page_cnt, map, size, stray, callVars>>

\* Third loop: every USABLE entry goes through pmm_free.
FreeEntry ==
    /\ pc = "free" /\ i <= Len(mmap)
    /\ IF mmap[i].type = "USABLE"
       THEN /\ used' = bitmap_clear(used, Frames(mmap[i]))
            /\ Touch(Frames(mmap[i]))
            /\ used_page_cnt' = Wrap(used_page_cnt - mmap[i].length)
       ELSE UNCHANGED <<used, used_page_cnt, stray>>
    /\ i' = i + 1
    /\ UNCHANGED <<pc, mmap, hi_page_top, map, size, callVars>>

\* Mutant of FreeDone: frame 0 is not reserved.
FreeDone_NoReserve ==
    /\ pc = "free" /\ i > Len(mmap)
    /\ pc' = "ready"
    /\ UNCHANGED <<i, mmap, hi_page_top, used_page_cnt, map, size, used, stray,
                   callVars>>

\* pmm_init ends by reserving frame 0, without counting it.
FreeDone ==
    /\ pc = "free" /\ i > Len(mmap)
    /\ used' = bitmap_set(used, {0}) /\ Touch({0})
    /\ pc' = "ready"
    /\ UNCHANGED <<i, mmap, hi_page_top, used_page_cnt, map, size, callVars>>

-----------------------------------------------------------------------------
(* Allocation and release, called by the rest of the kernel.               *)

\* The inner loop of _get_ffp_range: the k-th probe reads the bit
\* f + PAGE_TO_BIT(k), and PAGE_TO_BIT divides by PAGE_SIZE once more.
FreeAt(f, n, junk) ==
    /\ n > 0
    /\ \A k \in 0 .. (n - 1) : ~ bitmap_get(f + (k \div PAGE_SIZE), junk)

\* Mutant of get_ffp_range: the scan stops one frame early.
get_ffp_range_Short(n, junk, ptr) ==
    \/ /\ ptr \in 0 .. (hi_page_top - 2)
       /\ FreeAt(ptr, n, junk)
       /\ \A f \in 0 .. (ptr - 1) : ~ FreeAt(f, n, junk)
    \/ /\ ptr = NULL
       /\ \A f \in 0 .. (hi_page_top - 2) : ~ FreeAt(f, n, junk)

\* _get_ffp_range(n) returns ptr: the first start that passes, or NULL.
get_ffp_range(n, junk, ptr) ==
    \/ /\ ptr \in 0 .. (hi_page_top - 1)
       /\ FreeAt(ptr, n, junk)
       /\ \A f \in 0 .. (ptr - 1) : ~ FreeAt(f, n, junk)
    \/ /\ ptr = NULL
       /\ \A f \in 0 .. (hi_page_top - 1) : ~ FreeAt(f, n, junk)

\* What the bits the scan can read beyond the bitmap may be.
Junk(n) ==
    SUBSET {b \in 0 .. (hi_page_top + (n \div PAGE_SIZE)) : b >= MapBits}

\* The part pmm_alloc and pmm_allocz share: on behalf of h, ask for n pages.
Allocate(h, n) ==
    /\ pc = "ready" /\ holds[h] = NoAlloc
    /\ \E junk \in Junk(n), ptr \in 0 .. hi_page_top :
          /\ IF used_page_cnt <= 0 THEN ptr = NULL
                                   ELSE get_ffp_range(n, junk, ptr)
          /\ ret' = ptr
          /\ IF ptr = NULL
             THEN /\ refused' = refused \cup {n}
                  /\ UNCHANGED <<used_page_cnt, holds>>
             ELSE /\ used_page_cnt' = Wrap(used_page_cnt + n)
                  /\ holds' = [holds EXCEPT ![h] = [base |-> ptr, n |-> n]]
                  /\ UNCHANGED refused
    /\ UNCHANGED <<bootVars, null_frees>>

\* The frames a request of n pages that returned ptr was granted.
Granted(ptr, n) == IF ptr = NULL THEN {} ELSE ptr .. (ptr + n - 1)

pmm_alloc(h, n) ==
    /\ Allocate(h, n)
    /\ used' = bitmap_set(used, Granted(ret', n))
    /\ Touch(Granted(ret', n))
    /\ zeroed' = {}

\* Mutant of pmm_allocz: one page too many is cleared.
pmm_allocz_OnePageMore(h, n) ==
    /\ Allocate(h, n)
    /\ zeroed' = ret' .. (ret' + n)
    /\ used' = bitmap_set(used, Granted(ret', n)) \ BitsIn(zeroed')
    /\ Touch(Granted(ret', n))

\* The memset is not guarded: on failure it clears n pages from address 0.
pmm_allocz(h, n) ==
    /\ Allocate(h, n)
    /\ zeroed' = ret' .. (ret' + n - 1)
    /\ used' = bitmap_set(used, Granted(ret', n)) \ BitsIn(zeroed')
    /\ Touch(Granted(ret', n))

\* Mutant of pmm_free: used_page_cnt is not reduced.
pmm_free_NoCount(h) ==
    /\ pc = "ready" /\ holds[h] # NoAlloc
    /\ used' = bitmap_clear(used, Span(holds[h])) /\ Touch(Span(holds[h]))
    /\ holds' = [holds EXCEPT ![h] = NoAlloc]
    /\ UNCHANGED <<bootVars, used_page_cnt, refused, ret, null_frees, zeroed>>

\* h gives back the allocation it owns.
pmm_free(h) ==
    /\ pc = "ready" /\ holds[h] # NoAlloc
    /\ used' = bitmap_clear(used, Span(holds[h])) /\ Touch(Span(holds[h]))
    /\ used_page_cnt' = Wrap(used_page_cnt - holds[h].n)
    /\ holds' = [holds EXCEPT ![h] = NoAlloc]
    /\ UNCHANGED <<bootVars, refused, ret, null_frees, zeroed>>

\* pmm_free again, from a caller that was refused n pages and gives NULL back
\* as if it were a block: malloc does not look at what pmm_allocz returned.
pmm_free_NULL(n) ==
    /\ pc = "ready" /\ n \in refused
    /\ null_frees < MaxNullFrees
    /\ used' = bitmap_clear(used, 0 .. (n - 1)) /\ Touch(0 .. (n - 1))
    /\ used_page_cnt' = Wrap(used_page_cnt - n)
    /\ refused' = refused \ {n}
    /\ null_frees' = null_frees + 1
    /\ UNCHANGED <<bootVars, holds, ret, zeroed>>

Boot == ScanEntry \/ ScanDone \/ PlaceEntry \/ PlaceNone \/ FreeEntry \/ FreeDone

Next ==
    \/ Boot
    \/ \E h \in Holders, n \in Counts : pmm_alloc(h, n) \/ pmm_allocz(h, n)
    \/ \E h \in Holders : pmm_free(h)
    \/ \E n \in Counts : pmm_free_NULL(n)

Spec == Init /\ [][Next]_vars

-----------------------------------------------------------------------------
(* Properties.                                                             *)

UsableEntries == {k \in DOMAIN mmap : mmap[k].type = "USABLE"}
UsableFrames == UNION {Frames(mmap[k]) : k \in UsableEntries}

\* The frames the scan of _get_ffp_range finds clear.
FreeFrames == {f \in 0 .. (hi_page_top - 1) : f \notin used}

\* Every frame below hi_page_top has its bit inside the bitmap.  n / 8 is
\* rounded down before it is rounded up to pages, so this fails for a
\* hi_page_top that is 1 to 7 frames past a whole number of bitmap pages.
Covered == hi_page_top <= MapBits

\* The memset of a refused pmm_allocz, which starts at address 0, does not
\* reach the bitmap.  It does when no entry could hold the bitmap, and when
\* the bitmap lies in the first frames: the allocator then wipes its own map.
Apart ==
    /\ map # NULLMAP
    /\ \A n \in Counts : (0 .. (n - 1)) \cap BitmapFrames = {}

\* pmm_init has set up an allocator that is in a position to keep its promises.
Sound == pc = "ready" /\ Covered /\ Apart

\* Every frame at which a request may be granted lies beyond the bitmap.
StartsAboveBitmap ==
    \A f \in (UsableFrames \ {0}) \cup (MapBits .. (hi_page_top - 1)) :
        \A b \in BitmapFrames : b < f

\* The type of the state.
TypeOK ==
    /\ pc \in {"scan", "place", "free", "ready"}
    /\ i \in Nat \ {0}
    /\ mmap \in Seq(Entry)
    /\ hi_page_top \in Nat
    /\ used_page_cnt \in 0 .. (WORD - 1)
    /\ map \in Nat \cup {NULLMAP}
    /\ size \in Nat
    /\ used \in SUBSET Nat
    /\ stray \in SUBSET Nat
    /\ holds \in [Holders -> [base : Nat, n : 0 .. (WORD - 1)]]
    /\ refused \in SUBSET Counts
    /\ ret \in Nat
    /\ null_frees \in 0 .. MaxNullFrees
    /\ zeroed \in SUBSET Nat

\* Whatever pmm_alloc may hand out next is usable RAM, is not the bitmap's
\* own storage and belongs to no earlier caller; it is not frame 0 either,
\* unless somebody has freed NULL.
FreeFramesAreSafe ==
    Sound =>
        /\ (FreeFrames \ {0}) \subseteq UsableFrames
        /\ (FreeFrames \ {0}) \cap (Held \cup BitmapFrames) = {}
        /\ null_frees = 0 => 0 \notin FreeFrames

\* No frame belongs to two callers of pmm_alloc(1), and none that belongs
\* to a caller is NULL, the bitmap or memory the firmware reserved.
HoldersExclusive ==
    Sound =>
        /\ \A g, h \in Holders :
              g # h => Span(holds[g]) \cap Span(holds[h]) = {}
        /\ Held \subseteq UsableFrames \ {0}
        /\ Held \cap BitmapFrames = {}

\* used_page_cnt and the bitmap are two records of the same thing and never
\* drift apart while nobody frees NULL: their sum is what pmm_init left, frame
\* 0 aside (pmm_init sets its bit without counting it).
UsedCountTracksBitmap ==
    Sound /\ null_frees = 0 =>
        used_page_cnt + Cardinality(FreeFrames) =
            hi_page_top * KB - (IF 0 \in UsableFrames THEN 1 ELSE 0)

\* The memset of pmm_allocz, which also runs when pmm_alloc returned NULL,
\* never overwrites a frame that somebody owns, and never the bitmap.
ZeroFillSafe ==
    [][\A h \in Holders, n \in Counts :
          pmm_allocz(h, n) /\ Sound =>
              zeroed' \cap (Held \cup BitmapFrames) = {}]_vars

\* For single pages the allocator pmm_init leaves, if it is sound, implements
\* its abstract specification: a frame is free or owned by one caller, and
\* NULL is returned only when no frame is free or somebody has freed NULL.
FA == INSTANCE FrameAllocator WITH
    booted <- Sound,
    free <- IF Sound THEN FreeFrames \ {0} ELSE {},
    held <- [h \in Holders |-> IF Sound THEN holds[h].base ELSE 0],
    ret <- IF Sound THEN ret ELSE 0,
    broken <- Sound /\ null_frees > 0

RefinesFrameAllocator == FA!Spec

\* For requests of any length: frame 0 stays reserved, so that NULL is
\* never a successful result, even though ranges may overlap each other and
\* be zeroed over each other.  Freeing NULL, or a memset over the bitmap,
\* would end it.
FrameZeroReserved ==
    /\ pc = "ready" /\ MapBits > 0
    /\ Apart /\ StartsAboveBitmap /\ null_frees = 0
    => 0 \in used \ Held

\* For requests of any length: used_page_cnt is what pmm_init left plus the
\* pages now owned, however the ranges overlap; it never wraps and never
\* reaches 0, so the test at the head of pmm_alloc never refuses a request.
\* It is kept apart from the bitmap, so a memset over that does not matter.
UsedCountIsHeldPages ==
    pc = "ready" /\ hi_page_top > 0 /\ null_frees = 0 =>
        /\ used_page_cnt = hi_page_top * KB
                - MapThenSumSet(LAMBDA k : mmap[k].length, UsableEntries)
                + MapThenSumSet(LAMBDA h : holds[h].n, Holders)
        /\ used_page_cnt > 0

=============================================================================
