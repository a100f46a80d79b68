-------------------------------- MODULE Slab --------------------------------
(***************************************************************************)
(* A slab cache of mm/slab.c, together with the page frames it shares with *)
(* the other users of the physical allocator.                              *)
(*                                                                         *)
(* A slab is a page: bufctl_count_max buffers from its start and the       *)
(* slab_t at its end, so a slab is named by its frame and a buffer by its  *)
(* frame and index.  The list of slabs from slabs_head and the freelist    *)
(* threaded through the free buffers of a slab are sequences.  Of `slabs', *)
(* the cursor that every call leaves in the cache, only whether it is NULL *)
(* matters to the next call.  Frame 0 is the NULL pointer.  When a page is *)
(* given back while something still points into it, status becomes         *)
(* "corrupt" and the model stops: what the kernel does from then on        *)
(* depends on who gets the page next.                                      *)
(***************************************************************************)
EXTENDS Integers, Sequences, FiniteSets, SequencesExt

CONSTANTS
    Frames,             \* the frames pmm_init left free
    bufctl_count_max,   \* buffers in a slab
    FlagSets,           \* the flags callers pass: sets of slab_flags_t
    GrowCounts,         \* the counts callers pass to slab_cache_grow
    MaxSlabs            \* callers do not grow the cache beyond this

ASSUME SlabAssumption ==
    /\ Frames \subseteq Nat \ {0} /\ IsFiniteSet(Frames)
    /\ bufctl_count_max \in Nat \ {0}
    /\ FlagSets \subseteq SUBSET {"PANIC", "AUTO_GROW"}
    /\ GrowCounts \subseteq Nat
    /\ MaxSlabs \in Nat

VARIABLES
    free,       \* the frames whose bit is clear in the bitmap
    other,      \* the frames other parts of the kernel own
    cache,      \* the frame of the slab_cache_t, or NULL
    chain,      \* the slabs reached from slabs_head, in order
    slabs,      \* whether the cursor cache->slabs is not NULL
    live,       \* the buffers handed out and not given back
    status      \* "run", or why the kernel no longer gets anywhere

vars == <<free, other, cache, chain, slabs, live, status>>

NULL == 0
Buffers == Frames \X (1 .. bufctl_count_max)
Page(b) == b[1]
Slabs == [page : Frames, bufctl_count : Nat, freelist : Seq(Buffers)]

Init ==
    /\ free = Frames /\ other = {}
    /\ cache = NULL /\ chain = <<>> /\ slabs = FALSE
    /\ live = {}
    /\ status = "run"

\* log(PANIC, ...) never returns; without SLAB_PANIC the caller sees NULL.
Fail(flags) == status' = IF "PANIC" \in flags THEN "panic" ELSE status

-----------------------------------------------------------------------------
(* Growing.                                                                *)

\* The members of a finite set of numbers, in ascending order.
InOrder(F) ==
    [j \in 1 .. Cardinality(F) |->
        CHOOSE p \in F : Cardinality({q \in F : q <= p}) = j]

\* The frames n calls of pmm_allocz(1) return: the lowest free ones, and
\* fewer than n when memory runs out.
Taken(n, F) ==
    [j \in 1 .. (IF n <= Cardinality(F) THEN n ELSE Cardinality(F)) |->
        InOrder(F)[j]]

\* Mutant of NewSlab: bufctl_count is left 0.
NewSlab_NoCount(p) ==
    [page |-> p, bufctl_count |-> 0,
     freelist |-> [j \in 1 .. bufctl_count_max |-> <<p, j>>]]

\* Mutant of NewSlab: the buffers start after the page.
NewSlab_PastPage(p) ==
    [page |-> p, bufctl_count |-> bufctl_count_max,
     freelist |-> [j \in 1 .. bufctl_count_max |-> <<p + 1, j>>]]

\* slab_create_slab, and slab_init_bufctls for every index.
NewSlab(p) ==
    [page |-> p, bufctl_count |-> bufctl_count_max,
     freelist |-> [j \in 1 .. bufctl_count_max |-> <<p, j>>]]

\* The loop of slab_cache_grow starts from slabs_head, whose next pointer it
\* overwrites: of the slabs there were only the first is still reached.
Grown(ch, pages) ==
    IF pages = <<>> THEN ch
    ELSE (IF ch = <<>> THEN <<>> ELSE <<Head(ch)>>)
            \o [j \in DOMAIN pages |-> NewSlab(pages[j])]

slab_cache_grow(n, flags) ==
    /\ status = "run" /\ cache # NULL
    /\ LET pages == Taken(n, free)
       IN /\ chain' = Grown(chain, pages)
          /\ slabs' = (chain' # <<>>)
          /\ free' = free \ ToSet(pages)
          /\ IF Len(pages) < n THEN Fail(flags) ELSE UNCHANGED status
    /\ UNCHANGED <<other, cache, live>>

slab_cache_create(flags) ==
    /\ status = "run" /\ cache = NULL
    /\ IF free = {}
       THEN Fail(flags) /\ UNCHANGED <<free, cache, chain, slabs>>
       ELSE LET page == Min(free)
                pages == Taken(1, free \ {page})
            IN /\ cache' = page
               /\ chain' = Grown(<<>>, pages)
               /\ slabs' = (chain' # <<>>)
               /\ free' = free \ ({page} \cup ToSet(pages))
               /\ IF pages = <<>> THEN Fail(flags) ELSE UNCHANGED status
    /\ UNCHANGED <<other, live>>

-----------------------------------------------------------------------------
(* Allocating and freeing a buffer.                                        *)

\* Mutant of FirstFree: only the first slab is looked at.
FirstFree_HeadOnly(ch) == IF ch # <<>> /\ Head(ch).freelist # <<>> THEN 1 ELSE 0

\* The first slab with a free buffer; 0 when the loop runs off the chain.
FirstFree(ch) == SelectInSeq(ch, LAMBDA s : s.freelist # <<>>)

\* Mutants of Pop: the freelist does not advance; the count is not reduced;
\* the rest of the freelist is lost.
Pop_NoAdvance(ch, k) ==
    /\ chain' = [ch EXCEPT ![k].bufctl_count = @ - 1]
    /\ live' = live \cup {Head(ch[k].freelist)}
    /\ slabs' = TRUE

Pop_NoCount(ch, k) ==
    /\ chain' = [ch EXCEPT ![k].freelist = Tail(@)]
    /\ live' = live \cup {Head(ch[k].freelist)}
    /\ slabs' = TRUE

Pop_LosesRest(ch, k) ==
    /\ chain' = [ch EXCEPT ![k].freelist = <<>>, ![k].bufctl_count = @ - 1]
    /\ live' = live \cup {Head(ch[k].freelist)}
    /\ slabs' = TRUE

\* Take the head of the freelist of the k-th slab of ch.
Pop(ch, k) ==
    /\ chain' = [ch EXCEPT ![k].freelist = Tail(@), ![k].bufctl_count = @ - 1]
    /\ live' = live \cup {Head(ch[k].freelist)}
    /\ slabs' = TRUE

slab_cache_alloc(flags) ==
    /\ status = "run" /\ cache # NULL
    /\ LET k == FirstFree(chain)
           pages == Taken(1, free)
           grown == Grown(chain, pages)
       IN \/ /\ k # 0
             /\ Pop(chain, k)
             /\ UNCHANGED <<free, status>>
          \/ /\ k = 0 /\ "AUTO_GROW" \in flags /\ FirstFree(grown) # 0
             /\ Pop(grown, FirstFree(grown))
             /\ free' = free \ ToSet(pages)
             /\ UNCHANGED status
             \* slab_cache_grow fails and slab_cache_alloc calls itself again
          \/ /\ k = 0 /\ "AUTO_GROW" \in flags /\ FirstFree(grown) = 0
             /\ status' = IF "PANIC" \in flags THEN "panic" ELSE "hung"
             /\ UNCHANGED <<free, chain, slabs, live>>
          \/ /\ k = 0 /\ "AUTO_GROW" \notin flags
             /\ slabs' = FALSE
             /\ Fail(flags)
             /\ UNCHANGED <<free, chain, live>>
    /\ UNCHANGED <<other, cache>>

\* A buffer goes to the first slab that has ever lost one, not to its own.
slab_cache_free(b, flags) ==
    /\ status = "run" /\ cache # NULL /\ b \in live
    /\ LET k == SelectInSeq(chain, LAMBDA s : s.bufctl_count < bufctl_count_max)
       IN /\ slabs' = (k # 0)
          /\ IF k # 0
             THEN /\ chain' = [chain EXCEPT ![k].freelist = <<b>> \o @,
                                            ![k].bufctl_count = @ + 1]
                  /\ UNCHANGED status
             ELSE Fail(flags) /\ UNCHANGED chain
    /\ live' = live \ {b}
    /\ UNCHANGED <<free, other, cache>>

-----------------------------------------------------------------------------
(* Giving slabs back.                                                      *)

\* Mutant of Full: a slab with one buffer out counts as free.
Full_OneOut(s) == s.bufctl_count >= bufctl_count_max - 1

Full(s) == s.bufctl_count = bufctl_count_max

\* Something points into a page of P: a live buffer or the slabs left, ch.
StillUsed(P, ch) ==
    \/ \E b \in live : Page(b) \in P
    \/ \E k \in DOMAIN ch : \/ ch[k].page \in P
                            \/ \E b \in ToSet(ch[k].freelist) : Page(b) \in P

slab_cache_reap ==
    /\ status = "run" /\ cache # NULL
    /\ LET kept == InOrder({k \in DOMAIN chain : ~ Full(chain[k])})
           left == [j \in DOMAIN kept |-> chain[kept[j]]]
           freed == {s.page : s \in {t \in ToSet(chain) : Full(t)}}
       IN /\ chain' = left
          /\ slabs' = (left # <<>>)
          /\ free' = free \cup freed
          /\ status' = IF StillUsed(freed, left) THEN "corrupt" ELSE status
    /\ UNCHANGED <<other, cache, live>>

\* The page given back for a slab is the page of its first free buffer.  The
\* slabs before one that is not full are gone when the function gives up.
slab_cache_destroy(flags) ==
    /\ status = "run" /\ cache # NULL
    /\ LET k == SelectInSeq(chain, LAMBDA s : ~ Full(s))
           done == IF k = 0 THEN chain ELSE SubSeq(chain, 1, k - 1)
           freed == {Page(Head(s.freelist)) : s \in ToSet(done)}
       IN /\ slabs' = (k # 0)
          /\ IF k = 0
             THEN /\ cache' = NULL /\ chain' = <<>>
                  /\ free' = free \cup freed \cup {cache}
                  /\ status' = IF StillUsed(freed, <<>>) THEN "corrupt" ELSE status
             ELSE /\ UNCHANGED <<cache, chain>>
                  /\ free' = free \cup freed
                  /\ IF StillUsed(freed, chain) THEN status' = "corrupt"
                                                ELSE Fail(flags)
    /\ UNCHANGED <<other, live>>

\* The dump starts at the cursor, wherever the last call left it.
slab_cache_dump(flags) ==
    /\ status = "run" /\ cache # NULL
    /\ slabs' = FALSE
    /\ IF slabs THEN UNCHANGED status ELSE Fail(flags)
    /\ UNCHANGED <<free, other, cache, chain, live>>

\* Any call but dump on a cache that does not exist.
NoCache(flags) ==
    /\ status = "run" /\ cache = NULL
    /\ Fail(flags)
    /\ UNCHANGED <<free, other, cache, chain, slabs, live>>

-----------------------------------------------------------------------------
(* Page tables, other caches and large allocations use the same frames.    *)

OtherAlloc ==
    /\ status = "run" /\ free # {}
    /\ free' = free \ {Min(free)} /\ other' = other \cup {Min(free)}
    /\ UNCHANGED <<cache, chain, slabs, live, status>>

OtherFree(p) ==
    /\ status = "run" /\ p \in other
    /\ free' = free \cup {p} /\ other' = other \ {p}
    /\ UNCHANGED <<cache, chain, slabs, live, status>>

Next ==
    \/ \E fl \in FlagSets :
          \/ slab_cache_create(fl)
          \/ slab_cache_alloc(fl)
          \/ slab_cache_dump(fl)
          \/ NoCache(fl)
          \/ \E b \in live : slab_cache_free(b, fl)
          \/ \E n \in GrowCounts :
                Len(chain) + n <= MaxSlabs /\ slab_cache_grow(n, fl)
          \/ slab_cache_destroy(fl)
    \/ slab_cache_reap
    \/ OtherAlloc
    \/ \E p \in other : OtherFree(p)

Spec == Init /\ [][Next]_vars

-----------------------------------------------------------------------------
(* Properties.                                                             *)

Available == UNION {ToSet(chain[k].freelist) : k \in DOMAIN chain}

\* The type of the state.
TypeOK ==
    /\ free \subseteq Frames /\ other \subseteq Frames
    /\ cache \in Frames \cup {NULL}
    /\ chain \in Seq(Slabs)
    /\ slabs \in BOOLEAN
    /\ live \subseteq Buffers
    /\ status \in {"run", "panic", "hung", "corrupt"}

\* A buffer is handed out to at most one caller: it is on at most one
\* freelist, at most once, and on none while a caller has it, although free
\* puts it on the list of a slab that need not be its own.
BufferExclusive ==
    /\ \A j, k \in DOMAIN chain :
          \A m \in DOMAIN chain[j].freelist, n \in DOMAIN chain[k].freelist :
             chain[j].freelist[m] = chain[k].freelist[n] => j = k /\ m = n
    /\ Available \cap live = {}

\* bufctl_count, which decides where a buffer is freed to and which slabs are
\* given back, is the length of the freelist.
BufctlCountExact ==
    \A k \in DOMAIN chain :
        /\ chain[k].bufctl_count = Len(chain[k].freelist)
        /\ chain[k].bufctl_count <= bufctl_count_max

\* A page with a buffer that somebody has or may get next belongs to the
\* cache: it is not free, nobody else's and not the cache descriptor.
BuffersBacked ==
    status # "corrupt" =>
        {Page(b) : b \in live \cup Available} \cap (free \cup other \cup {cache}) = {}

\* Allocation loses nothing: when a buffer is handed out, every other one
\* that was on a freelist before is still on one, even when the call grows
\* the cache and drops slabs from the chain.
AllocStrandsNothing ==
    [][live' \ live # {} => Available \subseteq Available' \cup live']_vars

\* The pages of the slabs that are still reached.
Reached == {s.page : s \in ToSet(chain)}

\* reap and destroy give back no page in use while the cache has at most one
\* slab and no buffer of another: a full count then means a free slab.  (With
\* two, the counts say nothing about whose buffers are out.)
ShrinkSafe ==
    [][Len(chain) <= 1 /\ (\A b \in live \cup Available : Page(b) \in Reached)
          => status' # "corrupt"]_vars

\* slab_cache_alloc calls itself again without end only when there is
\* neither a frame nor a buffer left: a slab it has just grown serves it.
AllocEnds == status = "hung" => free = {} /\ Available = {}

\* "Couldn't find a slab to be freed" is reported for no buffer that the
\* cache has handed out: while one is live some slab will take it back.
FreeFindsSlab ==
    status = "run" /\ live # {} =>
        \E k \in DOMAIN chain : chain[k].bufctl_count < bufctl_count_max
=============================================================================
