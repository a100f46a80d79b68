----------------------------- MODULE PhysProofs -----------------------------
(***************************************************************************)
(* Theorems about the physical allocator, for every memory map, page size  *)
(* and number of callers.                                                  *)
(***************************************************************************)
EXTENDS Phys, NumberSets, SequenceTheorems

\* What the types of the state rest on: lengths and counts are size_t values,
\* and KB_TO_PAGES(hi_page_top) does not overflow.
TypeInv ==
    /\ TypeOK
    /\ \A k \in DOMAIN mmap : mmap[k].length < WORD
    /\ hi_page_top * KB < WORD
    /\ pc = "scan" => mmap \in MemMaps

\* A page of bitmap has a natural number of bits.
LEMMA MapBitsNat == TypeOK => MapBits \in Nat
  BY PageSizeAssumption DEF TypeOK, MapBits, BYTE

\* One addition or subtraction of a size_t stays a size_t.
LEMMA WrapType ==
  ASSUME NEW x \in 0 .. (WORD - 1), NEW n \in 0 .. (WORD - 1)
  PROVE  Wrap(x + n) \in 0 .. (WORD - 1) /\ Wrap(x - n) \in 0 .. (WORD - 1)
  BY WordAssumption DEF Wrap

\* Rounding up to pages yields a natural number of pages.
LEMMA BitmapPagesNat == ASSUME NEW n \in Nat PROVE BitmapPages(n) \in Nat
  <1>1. (n \div 8) + PAGE_SIZE - 1 \in Nat
    BY PageSizeAssumption
  <1> QED
    BY <1>1, PageSizeAssumption DEF BitmapPages, BYTE

\* Setting and clearing bits keeps the sets of bits sets of bits.
LEMMA BitmapTypes ==
  ASSUME NEW B \in SUBSET Nat, used \in SUBSET Nat, stray \in SUBSET Nat
  PROVE  /\ bitmap_set(used, B) \in SUBSET Nat
         /\ bitmap_clear(used, B) \in SUBSET Nat
         /\ Touch(B) => stray' \in SUBSET Nat
  <1>1. InMap(B) \subseteq B
    BY DEF InMap
  <1> QED
    BY <1>1 DEF bitmap_set, bitmap_clear, Touch

\* The frames a request is granted are frames.
LEMMA GrantedNat ==
  ASSUME NEW ptr \in Nat, NEW n \in Nat
  PROVE  Granted(ptr, n) \in SUBSET Nat
  BY DEF Granted

\* Taking the bitmap's pages from the front of an entry leaves an entry.
LEMMA ShrunkEntry ==
  ASSUME NEW e \in Entry, size \in Nat, e.length >= size
  PROVE  /\ Shrunk(e) \in Entry
         /\ Shrunk(e).base = e.base + size
         /\ Shrunk(e).length = e.length - size
         /\ Shrunk(e).type = e.type
  <1>1. e.base \in Nat /\ e.length \in Nat /\ e.type \in MmapType
    BY DEF Entry
  <1>2. e.base + size \in Nat /\ e.length - size \in Nat
    BY <1>1
  <1> QED
    BY <1>1, <1>2 DEF Shrunk, Entry

\* Every step keeps the types: pmm_init's arithmetic on the memory map and
\* the allocator's on used_page_cnt.
LEMMA TypeStep == TypeInv /\ [Next]_vars => TypeInv'
  <1> SUFFICES ASSUME TypeInv, [Next]_vars PROVE TypeInv'
    OBVIOUS
  <1> USE DEF TypeInv
  <1>0. MapBits \in Nat
    BY MapBitsNat
  <1>a. \A k \in DOMAIN mmap : mmap[k] \in Entry
    BY DEF TypeOK
  <1>b. \A e \in Entry : e.base \in Nat /\ e.length \in Nat
    BY DEF Entry
  <1>c. mmap \in Seq(Entry) /\ DOMAIN mmap = 1 .. Len(mmap) /\ Len(mmap) \in Nat
    BY DEF TypeOK
  <1>1. CASE ScanEntry
    <2>1. mmap[i] \in Entry /\ (mmap[i].base + mmap[i].length) * KB < WORD
      BY <1>1, MemMapAssumption, WordAssumption DEF ScanEntry, TypeOK
    <2>2. mmap[i].base + mmap[i].length \in Nat
      BY <1>b, <2>1
    <2>3. hi_page_top' \in Nat /\ hi_page_top' * KB < WORD
      BY <1>1, <2>1, <2>2 DEF ScanEntry, TypeOK
    <2>4. i' \in Nat \ {0}
      BY <1>1 DEF ScanEntry, TypeOK
    <2>5. UNCHANGED <<pc, mmap, used_page_cnt, map, size, used, stray, callVars>>
      BY <1>1 DEF ScanEntry
    <2> QED
      BY <2>3, <2>4, <2>5 DEF TypeOK, callVars
  <1>2. CASE ScanDone
    <2>1. hi_page_top * KB \in 0 .. (WORD - 1)
      BY WordAssumption DEF TypeOK, KB
    <2>2. size' \in Nat
      BY <1>2, BitmapPagesNat DEF ScanDone, TypeOK
    <2>3. used_page_cnt' \in 0 .. (WORD - 1)
      BY <1>2, <2>1 DEF ScanDone
    <2> QED
      BY <1>2, <2>2, <2>3 DEF ScanDone, TypeOK, callVars
  <1>3. CASE PlaceEntry
    <2>1. mmap[i] \in Entry
      BY <1>3 DEF PlaceEntry, TypeOK
    <2>2. CASE Fits(mmap[i])
      <3>1. Shrunk(mmap[i]) \in Entry /\ Shrunk(mmap[i]).length < WORD
        <4>1. size \in Nat /\ mmap[i].length >= size /\ mmap[i].length < WORD
          BY <1>3, <2>2, <1>c DEF PlaceEntry, Fits, TypeOK
        <4> QED
          BY <1>b, <2>1, <4>1, ShrunkEntry, WordAssumption
      <3>2. mmap' = [mmap EXCEPT ![i] = Shrunk(mmap[i])] /\ i \in 1 .. Len(mmap)
        BY <1>3, <2>2 DEF PlaceEntry, TypeOK
      <3>3. mmap' \in Seq(Entry)
        BY <3>1, <3>2, ExceptSeq DEF TypeOK
      <3>4. \A k \in DOMAIN mmap' : mmap'[k].length < WORD
        BY <3>1, <3>2 DEF TypeOK
      <3>5. map' \in Nat /\ used' = 0 .. (MapBits - 1) /\ i' = 1 /\ pc' = "free"
        BY <1>3, <2>1, <2>2, <1>b DEF PlaceEntry, FillBitmap
      <3>6. used' \in SUBSET Nat
        BY <1>0, <3>5
      <3> QED
        BY <1>3, <3>3, <3>4, <3>5, <3>6 DEF PlaceEntry, TypeOK, callVars
    <2>3. CASE ~ Fits(mmap[i])
      <3>1. /\ i' = i + 1
            /\ UNCHANGED <<map, mmap, used, pc, hi_page_top, used_page_cnt,
                           size, stray, callVars>>
        BY <1>3, <2>3 DEF PlaceEntry
      <3> QED
        BY <3>1 DEF TypeOK, callVars
    <2> QED
      BY <2>2, <2>3
  <1>4. CASE PlaceNone
    BY <1>0, <1>4 DEF PlaceNone, FillBitmap, TypeOK, callVars
  <1>5. CASE FreeEntry
    <2>1. mmap[i] \in Entry /\ mmap[i].length \in 0 .. (WORD - 1)
      <3>1. i \in DOMAIN mmap
        BY <1>5, <1>c DEF FreeEntry, TypeOK
      <3> QED
        BY <1>a, <1>b, <3>1, WordAssumption
    <2>2. used_page_cnt' \in 0 .. (WORD - 1)
      BY <1>5, <2>1, WrapType DEF FreeEntry, TypeOK
    <2>3. Frames(mmap[i]) \subseteq Nat
      BY <2>1 DEF Frames, Entry
    <2>4. used' \in SUBSET Nat /\ stray' \in SUBSET Nat
      BY <1>5, <2>3, BitmapTypes DEF FreeEntry, TypeOK
    <2>5. i' \in Nat \ {0} /\ pc = "free"
      BY <1>5 DEF FreeEntry, TypeOK
    <2>6. UNCHANGED <<pc, mmap, hi_page_top, map, size, callVars>>
      BY <1>5 DEF FreeEntry
    <2> QED
      BY <2>2, <2>4, <2>5, <2>6 DEF TypeOK, callVars
  <1>6. CASE FreeDone
    <2>1. used' \in SUBSET Nat /\ stray' \in SUBSET Nat
      BY <1>6, BitmapTypes DEF FreeDone, TypeOK
    <2> QED
      BY <1>6, <2>1 DEF FreeDone, TypeOK, callVars
  <1>7. ASSUME NEW h \in Holders, NEW n \in Counts, Allocate(h, n)
        PROVE  /\ used_page_cnt' \in 0 .. (WORD - 1)
               /\ holds' \in [Holders -> [base : Nat, n : 0 .. (WORD - 1)]]
               /\ refused' \in SUBSET Counts
               /\ ret' \in Nat /\ n \in Nat
               /\ bitmap_set(used, Granted(ret', n)) \in SUBSET Nat
               /\ Touch(Granted(ret', n)) => stray' \in SUBSET Nat
    <2>1. n \in 0 .. (WORD - 1) /\ n \in Nat
      BY WordAssumption
    <2>2. PICK ptr \in 0 .. hi_page_top :
             /\ ret' = ptr
             /\ IF ptr = NULL
                THEN /\ refused' = refused \cup {n}
                     /\ UNCHANGED <<used_page_cnt, holds>>
                ELSE /\ used_page_cnt' = Wrap(used_page_cnt + n)
                     /\ holds' = [holds EXCEPT ![h] = [base |-> ptr, n |-> n]]
                     /\ UNCHANGED refused
      BY <1>7 DEF Allocate
    <2>3. ret' \in Nat
      BY <2>2 DEF TypeOK
    <2>4. /\ bitmap_set(used, Granted(ret', n)) \in SUBSET Nat
          /\ Touch(Granted(ret', n)) => stray' \in SUBSET Nat
      BY <2>1, <2>3, GrantedNat, BitmapTypes DEF TypeOK
    <2>5. CASE ptr = NULL
      BY <2>1, <2>2, <2>3, <2>4, <2>5 DEF TypeOK
    <2>6. CASE ptr # NULL
      <3>1. used_page_cnt' \in 0 .. (WORD - 1)
        BY <2>1, <2>2, <2>6, WrapType DEF TypeOK
      <3>2. holds' \in [Holders -> [base : Nat, n : 0 .. (WORD - 1)]]
        <4>1. [base |-> ptr, n |-> n] \in [base : Nat, n : 0 .. (WORD - 1)]
          BY <2>1, <2>2, <2>3
        <4> QED
          BY <2>2, <2>6, <4>1 DEF TypeOK
      <3> QED
        BY <2>1, <2>2, <2>3, <2>4, <2>6, <3>1, <3>2 DEF TypeOK
    <2> QED
      BY <2>5, <2>6
  <1>8. ASSUME NEW h \in Holders, NEW n \in Counts, pmm_alloc(h, n)
        PROVE  TypeInv'
    <2>1. /\ Allocate(h, n) /\ zeroed' = {} /\ Touch(Granted(ret', n))
          /\ used' = bitmap_set(used, Granted(ret', n))
      BY <1>8 DEF pmm_alloc
    <2> QED
      BY <1>7, <2>1 DEF Allocate, bootVars, TypeOK
  <1>9. ASSUME NEW h \in Holders, NEW n \in Counts, pmm_allocz(h, n)
        PROVE  TypeInv'
    <2>1. /\ Allocate(h, n) /\ zeroed' = ret' .. (ret' + n - 1)
          /\ Touch(Granted(ret', n))
          /\ used' = bitmap_set(used, Granted(ret', n)) \ BitsIn(zeroed')
      BY <1>9 DEF pmm_allocz
    <2>2. zeroed' \in SUBSET Nat
      BY <1>7, <2>1
    <2>3. used' \in SUBSET Nat
      BY <1>7, <2>1
    <2> QED
      BY <1>7, <2>1, <2>2, <2>3 DEF Allocate, bootVars, TypeOK
  <1>10. ASSUME NEW h \in Holders, pmm_free(h)
         PROVE  TypeInv'
    <2>1. holds[h] \in [base : Nat, n : 0 .. (WORD - 1)]
      BY DEF TypeOK
    <2>2. Span(holds[h]) \subseteq Nat
      BY <2>1 DEF Span
    <2>3. used' \in SUBSET Nat /\ stray' \in SUBSET Nat
      BY <1>10, <2>2, BitmapTypes DEF pmm_free, TypeOK
    <2>4. used_page_cnt' \in 0 .. (WORD - 1)
      BY <1>10, <2>1, WrapType DEF pmm_free, TypeOK
    <2>5. holds' \in [Holders -> [base : Nat, n : 0 .. (WORD - 1)]]
      BY <1>10, WordAssumption DEF pmm_free, TypeOK, NoAlloc, NULL
    <2> QED
      BY <1>10, <2>3, <2>4, <2>5 DEF pmm_free, bootVars, TypeOK
  <1>11. ASSUME NEW n \in Counts, pmm_free_NULL(n)
         PROVE  TypeInv'
    <2>1. n \in 0 .. (WORD - 1) /\ (0 .. (n - 1)) \in SUBSET Nat
      BY WordAssumption
    <2>2. used' \in SUBSET Nat /\ stray' \in SUBSET Nat
      BY <1>11, <2>1, BitmapTypes DEF pmm_free_NULL, TypeOK
    <2>3. used_page_cnt' \in 0 .. (WORD - 1)
      BY <1>11, <2>1, WrapType DEF pmm_free_NULL, TypeOK
    <2>4. null_frees' \in 0 .. MaxNullFrees /\ refused' \in SUBSET Counts
      BY <1>11, NullFreesAssumption DEF pmm_free_NULL, TypeOK
    <2> QED
      BY <1>11, <2>2, <2>3, <2>4 DEF pmm_free_NULL, bootVars, TypeOK
  <1>12. CASE UNCHANGED vars
    BY <1>12 DEF vars, bootVars, callVars, TypeOK
  <1> QED
    BY <1>1, <1>2, <1>3, <1>4, <1>5, <1>6, <1>8, <1>9, <1>10, <1>11, <1>12
    DEF Next, Boot

\* Initially the state has its types.
LEMMA TypeInit == Init => TypeInv
  <1> SUFFICES ASSUME Init PROVE TypeInv
    OBVIOUS
  <1>1. mmap \in Seq(Entry) /\ \A k \in DOMAIN mmap : mmap[k].length < WORD
    <2>1. \A k \in DOMAIN mmap : (mmap[k].base + mmap[k].length) * KB < WORD
      BY WordAssumption DEF Init
    <2>2. mmap \in Seq(Entry)
      BY MemMapAssumption DEF Init
    <2>3. \A k \in DOMAIN mmap : mmap[k] \in Entry
      BY <2>2
    <2> QED
      BY <2>1, <2>2, <2>3, WordAssumption DEF Entry, KB
  <1> QED
    BY <1>1, WordAssumption, NullFreesAssumption
    DEF Init, TypeInv, TypeOK, NoAlloc, NULL, NULLMAP, KB

\* Type correctness of the physical allocator.
THEOREM TypeCorrect == Spec => []TypeOK
  <1>1. TypeInv => TypeOK
    BY DEF TypeInv
  <1> QED
    BY <1>1, TypeInit, TypeStep, PTL DEF Spec

-----------------------------------------------------------------------------
(* Safety, for callers that ask for one page at a time.                    *)

Usable(f) == \E k \in DOMAIN mmap : mmap[k].type = "USABLE" /\ f \in Frames(mmap[k])

\* What h owns is one usable frame whose bit is set.
OwnsOneFrame(h) ==
    /\ holds[h].n = 1
    /\ holds[h].base \in used
    /\ holds[h].base \in 1 .. (hi_page_top - 1)
    /\ Usable(holds[h].base)

\* Once pmm_init has returned: clear bits are usable frames, owned bits are
\* set, and no two owners share a bit.  Bit 0 is clear once NULL was freed.
ReadyInv ==
    /\ \A f \in FreeFrames : f # 0 => Usable(f)
    /\ null_frees = 0 => 0 \notin FreeFrames
    /\ null_frees > 0 => 0 \notin used
    /\ \A h \in Holders : holds[h] = NoAlloc \/ OwnsOneFrame(h)
    /\ \A g, h \in Holders :
          g # h /\ holds[g] # NoAlloc => holds[g].base # holds[h].base

\* The inductive invariant behind exclusive ownership.  While pmm_init frees
\* the map, a clear bit comes from an entry the third loop has passed.
SafeInv ==
    /\ Disjoint(mmap)
    /\ pc \in {"scan", "place"} => map = NULLMAP
    /\ pc # "ready" => \A h \in Holders : holds[h] = NoAlloc
    /\ pc # "ready" => null_frees = 0 /\ ret = NULL
    /\ map # NULLMAP => \A f \in BitmapFrames : ~ Usable(f)
    /\ pc = "free" =>
          \A f \in 0 .. (MapBits - 1) :
             f \notin used =>
                \E k \in DOMAIN mmap : /\ k < i
                                       /\ mmap[k].type = "USABLE"
                                       /\ f \in Frames(mmap[k])
    /\ Sound => ReadyInv

\* No frame belongs to anyone when nothing is allocated.
LEMMA NoAllocSpan == ASSUME NEW a, a = NoAlloc PROVE Span(a) = {}
  BY DEF NoAlloc, NULL, Span

\* A step that leaves pmm_init's variables alone leaves the usable frames alone.
LEMMA UsableStable == ASSUME mmap' = mmap PROVE \A f : Usable(f)' <=> Usable(f)
  BY DEF Usable, Frames

\* A step that leaves pmm_init's variables alone leaves a sound allocator
\* sound, an unsound one unsound, and the bitmap where it is.
LEMMA SoundStable ==
  ASSUME UNCHANGED <<pc, size, map, hi_page_top>>
  PROVE  /\ Sound' <=> Sound
         /\ Covered' <=> Covered
         /\ MapBits' = MapBits /\ BitmapFrames' = BitmapFrames
  BY DEF Sound, Covered, Apart, MapBits, BitmapFrames, BitmapBase

\* Initially nothing is owned and there is no bitmap.
LEMMA SafeInit == Init => SafeInv
  <1> SUFFICES ASSUME Init PROVE SafeInv
    OBVIOUS
  <1>1. Disjoint(mmap)
    BY MemMapAssumption DEF Init
  <1>2. \A h \in Holders : holds[h] = NoAlloc
    BY DEF Init
  <1> QED
    BY <1>1, <1>2 DEF Init, SafeInv, Sound

\* The bitmap's frames are cut out of the entry they are placed in.
LEMMA PlaceSafe ==
  ASSUME TypeInv, Disjoint(mmap), PlaceEntry, Fits(mmap[i])
  PROVE  /\ Disjoint(mmap)'
         /\ \A f \in BitmapFrames' : ~ Usable(f)'
  <1>1. /\ i \in DOMAIN mmap /\ mmap[i] \in Entry /\ size \in Nat
        /\ mmap \in Seq(Entry) /\ \A k \in DOMAIN mmap : mmap[k] \in Entry
    BY DEF PlaceEntry, TypeInv, TypeOK, callVars
  <1>2. /\ mmap' = [mmap EXCEPT ![i] = Shrunk(mmap[i])]
        /\ map' = mmap[i].base /\ size' = size
        /\ mmap[i].type = "USABLE" /\ mmap[i].length >= size
    BY DEF PlaceEntry, Fits, callVars
  <1>3. /\ Shrunk(mmap[i]) \in Entry
        /\ Shrunk(mmap[i]).base = mmap[i].base + size
        /\ Shrunk(mmap[i]).length = mmap[i].length - size
        /\ Shrunk(mmap[i]).type = mmap[i].type
    BY <1>1, <1>2, ShrunkEntry
  <1>4. mmap[i].base \in Nat /\ mmap[i].length \in Nat
    BY <1>1 DEF Entry
  <1>5. Frames(Shrunk(mmap[i])) = (mmap[i].base + size) .. (mmap[i].base + mmap[i].length - 1)
    BY <1>1, <1>3, <1>4 DEF Frames
  <1>6. BitmapFrames' = mmap[i].base .. (mmap[i].base + size - 1)
    BY <1>2, <1>4 DEF BitmapFrames, NULLMAP, BitmapBase
  <1>7. /\ Frames(Shrunk(mmap[i])) \subseteq Frames(mmap[i])
        /\ BitmapFrames' \subseteq Frames(mmap[i])
        /\ Frames(Shrunk(mmap[i])) \cap BitmapFrames' = {}
    <2>1. Frames(mmap[i]) = mmap[i].base .. (mmap[i].base + mmap[i].length - 1)
      BY DEF Frames
    <2>2. mmap[i].length >= size /\ size \in Nat
      BY <1>1, <1>2
    <2> QED
      BY <1>4, <1>5, <1>6, <2>1, <2>2
  <1>8. /\ DOMAIN mmap' = DOMAIN mmap
        /\ mmap'[i] = Shrunk(mmap[i])
        /\ \A k \in DOMAIN mmap : k # i => mmap'[k] = mmap[k]
    BY <1>1, <1>2
  <1>9. \A k \in DOMAIN mmap : /\ mmap'[k].type = mmap[k].type
                               /\ Frames(mmap'[k]) \subseteq Frames(mmap[k])
    BY <1>3, <1>7, <1>8
  <1>11. Disjoint(mmap)'
    <2>1. \A j, k \in DOMAIN mmap' :
             j # k /\ mmap'[j].type = "USABLE" /\ mmap'[k].type = "USABLE"
             => Frames(mmap'[j]) \cap Frames(mmap'[k]) = {}
      BY <1>8, <1>9 DEF Disjoint
    <2> QED
      BY <2>1 DEF Disjoint, Frames
  <1>12. ASSUME NEW f \in BitmapFrames', Usable(f)' PROVE FALSE
    <2>1. PICK k \in DOMAIN mmap' : mmap'[k].type = "USABLE" /\ f \in Frames(mmap'[k])
      BY <1>12 DEF Usable, Frames
    <2>2. k # i
      BY <1>7, <1>8, <1>12, <2>1
    <2> QED
      BY <1>2, <1>7, <1>8, <1>9, <1>12, <2>1, <2>2 DEF Disjoint
  <1> QED
    BY <1>11, <1>12

\* Every step of pmm_init keeps the invariant.
LEMMA SafeBoot == TypeInv /\ SafeInv /\ Boot => SafeInv'
  <1> SUFFICES ASSUME TypeInv, SafeInv, Boot PROVE SafeInv'
    OBVIOUS
  <1>0. MapBits \in Nat /\ mmap \in Seq(Entry) /\ i \in Nat
    BY MapBitsNat DEF TypeInv, TypeOK
  <1>1. CASE ScanEntry \/ ScanDone
    <2>1. /\ pc' \in {"scan", "place"} /\ map' = NULLMAP
          /\ UNCHANGED <<mmap, holds, null_frees, ret>> /\ pc = "scan"
      BY <1>1 DEF ScanEntry, ScanDone, SafeInv, callVars
    <2>2. Disjoint(mmap)'
      BY <2>1 DEF SafeInv, Disjoint, Frames
    <2>3. \A h \in Holders : holds'[h] = NoAlloc
      BY <2>1 DEF SafeInv
    <2> QED
      BY <2>1, <2>2, <2>3 DEF SafeInv, Sound, NoAlloc, NULL
  <1>2. CASE PlaceEntry
    <2>1. /\ null_frees' = 0 /\ ret' = NULL
          /\ \A h \in Holders : holds'[h] = NoAlloc
      BY <1>2 DEF SafeInv, PlaceEntry, callVars
    <2>2. CASE Fits(mmap[i])
      <3>1. pc' = "free" /\ used' = 0 .. (MapBits - 1) /\ size' = size
        BY <1>2, <2>2 DEF PlaceEntry, FillBitmap, callVars
      <3>2. MapBits' = MapBits
        BY <3>1 DEF MapBits
      <3>3. \A f \in 0 .. (MapBits' - 1) : f \in used'
        BY <3>1, <3>2
      <3>4. Disjoint(mmap)' /\ \A f \in BitmapFrames' : ~ Usable(f)'
        BY <1>2, <2>2, PlaceSafe DEF SafeInv
      <3> QED
        BY <2>1, <3>1, <3>3, <3>4 DEF SafeInv, Sound, NoAlloc, NULL
    <2>3. CASE ~ Fits(mmap[i])
      <3>1. UNCHANGED <<pc, map, mmap>> /\ pc = "place"
        BY <1>2, <2>3 DEF PlaceEntry, callVars
      <3>2. Disjoint(mmap)'
        BY <3>1 DEF SafeInv, Disjoint, Frames
      <3> QED
        BY <2>1, <3>1, <3>2 DEF SafeInv, Sound, NoAlloc, NULL
    <2> QED
      BY <2>2, <2>3
  <1>3. CASE PlaceNone
    <2>1. /\ pc' = "free" /\ used' = 0 .. (MapBits - 1)
          /\ UNCHANGED <<size, mmap, holds, null_frees, ret, map>> /\ pc = "place"
      BY <1>3 DEF PlaceNone, FillBitmap, callVars
    <2>2. \A h \in Holders : holds'[h] = NoAlloc
      BY <2>1 DEF SafeInv
    <2>3. MapBits' = MapBits
      BY <2>1 DEF MapBits
    <2>4. \A f \in 0 .. (MapBits' - 1) : f \in used'
      BY <2>1, <2>3
    <2>5. Disjoint(mmap)' /\ map' = NULLMAP
      BY <2>1 DEF SafeInv, Disjoint, Frames
    <2> QED
      BY <2>1, <2>2, <2>4, <2>5 DEF SafeInv, Sound, NoAlloc, NULL, NULLMAP
  <1>4. CASE FreeEntry
    <2>1. /\ pc = "free" /\ i \in DOMAIN mmap /\ i' = i + 1
          /\ UNCHANGED <<pc, mmap, size, map, holds, null_frees, ret>>
          /\ used' = IF mmap[i].type = "USABLE"
                     THEN used \ Frames(mmap[i]) ELSE used
      BY <1>0, <1>4 DEF FreeEntry, bitmap_clear, TypeInv, TypeOK, callVars
    <2>2. /\ Disjoint(mmap)'
          /\ \A h \in Holders : holds'[h] = NoAlloc
          /\ map' # NULLMAP => \A f \in BitmapFrames' : ~ Usable(f)'
      BY <2>1, UsableStable DEF SafeInv, Disjoint, Frames, BitmapFrames, BitmapBase
    <2>3. MapBits' = MapBits
      BY <2>1 DEF MapBits
    <2>4. ASSUME NEW f \in 0 .. (MapBits' - 1), f \notin used'
          PROVE  \E k \in DOMAIN mmap' : /\ k < i'
                                         /\ mmap'[k].type = "USABLE"
                                         /\ f \in Frames(mmap'[k])
      <3>1. CASE f \notin used
        <4>1. PICK k \in DOMAIN mmap : /\ k < i
                                      /\ mmap[k].type = "USABLE"
                                      /\ f \in Frames(mmap[k])
          BY <2>1, <2>3, <2>4, <3>1 DEF SafeInv
        <4>2. k < i'
          BY <1>0, <2>1, <4>1
        <4> QED
          BY <2>1, <4>1, <4>2
      <3>2. CASE f \in used
        <4>1. mmap[i].type = "USABLE" /\ f \in Frames(mmap[i])
          BY <2>1, <2>4, <3>2
        <4>2. i < i'
          BY <1>0, <2>1
        <4> QED
          BY <2>1, <4>1, <4>2
      <3> QED
        BY <3>1, <3>2
    <2> QED
      BY <2>1, <2>2, <2>4 DEF SafeInv, Sound, NoAlloc, NULL, Frames
  <1>5. CASE FreeDone
    <2>1. /\ pc = "free" /\ pc' = "ready" /\ i > Len(mmap)
          /\ UNCHANGED <<mmap, size, map, holds, null_frees, hi_page_top>>
          /\ used' = used \cup InMap({0})
      BY <1>5 DEF FreeDone, bitmap_set, callVars
    <2>2. /\ Disjoint(mmap)'
          /\ \A h \in Holders : holds'[h] = NoAlloc
          /\ map' # NULLMAP => \A f \in BitmapFrames' : ~ Usable(f)'
      BY <2>1, UsableStable DEF SafeInv, Disjoint, Frames, BitmapFrames, BitmapBase
    <2>3. MapBits' = MapBits
      BY <2>1 DEF MapBits
    <2>4. ASSUME Sound', NEW f \in FreeFrames' PROVE f # 0 /\ Usable(f)'
      <3>1. f \in 0 .. (hi_page_top - 1) /\ f \notin used /\ f \notin InMap({0})
        BY <2>1, <2>4 DEF FreeFrames
      <3>2. f \in 0 .. (MapBits - 1)
        BY <1>0, <2>1, <2>3, <2>4, <3>1 DEF Sound, Covered, TypeInv, TypeOK
      <3>3. f # 0
        BY <1>0, <3>1, <3>2 DEF InMap
      <3>4. Usable(f)
        BY <2>1, <3>1, <3>2 DEF SafeInv, Usable
      <3> QED
        BY <2>1, <3>3, <3>4, UsableStable
    <2>5. null_frees' = 0
      BY <2>1 DEF SafeInv
    <2> QED
      BY <2>1, <2>2, <2>4, <2>5 DEF SafeInv, ReadyInv, NoAlloc, NULL
  <1> QED
    BY <1>1, <1>2, <1>3, <1>4, <1>5 DEF Boot

\* The frame pmm_alloc(1) returns was clear: the scan reads no bit beyond a
\* bitmap that covers every frame.
LEMMA AllocOne ==
  ASSUME TypeInv, Covered, NEW h \in Holders, Allocate(h, 1), ret' # NULL
  PROVE  /\ ret' \in FreeFrames \ {0}
         /\ InMap(Granted(ret', 1)) = {ret'}
         /\ holds' = [holds EXCEPT ![h] = [base |-> ret', n |-> 1]]
         /\ used_page_cnt' = Wrap(used_page_cnt + 1)
  <1>0. MapBits \in Nat /\ hi_page_top \in Nat /\ hi_page_top <= MapBits
    BY MapBitsNat DEF TypeInv, TypeOK, Covered
  <1>1. PICK junk \in Junk(1), ptr \in 0 .. hi_page_top :
           /\ IF used_page_cnt <= 0 THEN ptr = NULL
                                    ELSE get_ffp_range(1, junk, ptr)
           /\ ret' = ptr
           /\ IF ptr = NULL
              THEN /\ refused' = refused \cup {1}
                   /\ UNCHANGED <<used_page_cnt, holds>>
              ELSE /\ used_page_cnt' = Wrap(used_page_cnt + 1)
                   /\ holds' = [holds EXCEPT ![h] = [base |-> ptr, n |-> 1]]
                   /\ UNCHANGED refused
    BY DEF Allocate
  <1>2. /\ get_ffp_range(1, junk, ptr) /\ ptr # NULL
        /\ used_page_cnt' = Wrap(used_page_cnt + 1)
        /\ holds' = [holds EXCEPT ![h] = [base |-> ptr, n |-> 1]]
    BY <1>1
  <1>3. ptr \in 0 .. (hi_page_top - 1) /\ FreeAt(ptr, 1, junk)
    BY <1>2 DEF get_ffp_range
  <1>4. 0 \div PAGE_SIZE = 0
    BY PageSizeAssumption
  <1>5. ~ bitmap_get(ptr, junk)
    <2>1. ~ bitmap_get(ptr + (0 \div PAGE_SIZE), junk)
      BY <1>3 DEF FreeAt
    <2>2. ptr + (0 \div PAGE_SIZE) = ptr
      BY <1>3, <1>4
    <2> QED
      BY <2>1, <2>2
  <1>6. ptr \notin used
    BY <1>5 DEF bitmap_get
  <1>7. Granted(ptr, 1) = {ptr}
    BY <1>2, <1>3 DEF Granted
  <1>8. InMap({ptr}) = {ptr}
    BY <1>0, <1>3 DEF InMap
  <1> QED
    BY <1>1, <1>2, <1>3, <1>6, <1>7, <1>8 DEF FreeFrames, NULL

\* Multiplication by a natural number is monotonic.
LEMMA TimesMono ==
  ASSUME NEW q \in Nat, NEW s \in Nat, NEW k \in Nat, s <= k
  PROVE  s * q <= k * q
  OBVIOUS

\* The page of an s-page bitmap that a bit is stored in is one of the s.
LEMMA DivBelow ==
  ASSUME NEW q \in Nat \ {0}, NEW s \in Nat, NEW b \in 0 .. (s * q - 1)
  PROVE  b \div q \in 0 .. (s - 1)
  <1> DEFINE k == b \div q
  <1>1. b \in Nat /\ b < s * q /\ s * q \in Nat
    OBVIOUS
  <1>2. k \in Nat /\ k * q <= b
    BY <1>1
  <1> HIDE DEF k
  <1>3. ~ (k >= s)
    BY <1>1, <1>2, TimesMono
  <1>4. k \in 0 .. (s - 1)
    BY <1>2, <1>3
  <1> QED
    BY <1>4 DEF k

\* A memset that reaches no frame of the bitmap clears no bit.
LEMMA NoWipe ==
  ASSUME TypeInv, NEW F, F \cap BitmapFrames = {}
  PROVE  BitsIn(F) = {}
  <1> DEFINE q == PAGE_SIZE * BYTE
  <1>1. q \in Nat \ {0} /\ size \in Nat /\ BitmapBase \in Nat /\ MapBits = size * q
    BY PageSizeAssumption DEF BYTE, TypeInv, TypeOK, BitmapBase, NULLMAP, MapBits
  <1>2. ASSUME NEW b \in 0 .. (MapBits - 1) PROVE BitmapBase + (b \div q) \in BitmapFrames
    <2> HIDE DEF q
    <2>1. b \div q \in 0 .. (size - 1)
      BY <1>1, DivBelow
    <2> DEFINE k == b \div q
    <2> HIDE DEF k
    <2>2. BitmapBase + k \in BitmapBase .. (BitmapBase + size - 1)
      BY <1>1, <2>1 DEF k
    <2> QED
      BY <2>2 DEF k, BitmapFrames
  <1> QED
    BY <1>2 DEF BitsIn

\* What a request for one page does to the bitmap and the owners: the memset
\* of pmm_allocz, granted or refused, clears no bit of a sound allocator.
LEMMA CallOne ==
  ASSUME TypeInv, SafeInv, Sound, Counts = {1}, NEW h \in Holders,
         pmm_alloc(h, 1) \/ pmm_allocz(h, 1)
  PROVE  /\ ret' = NULL => UNCHANGED <<used, holds, used_page_cnt>>
         /\ ret' # NULL =>
               /\ ret' \in FreeFrames \ {0}
               /\ used' = used \cup {ret'}
               /\ holds' = [holds EXCEPT ![h] = [base |-> ret', n |-> 1]]
               /\ used_page_cnt' = Wrap(used_page_cnt + 1)
         /\ pmm_allocz(h, 1) => zeroed' = {ret'} /\ ret' \notin BitmapFrames
  <1>1. Allocate(h, 1) /\ Covered /\ Apart /\ ReadyInv
    BY DEF pmm_alloc, pmm_allocz, Sound, SafeInv
  <1>2. ret' \in Nat
    BY <1>1 DEF Allocate, TypeInv, TypeOK
  <1>3. ret' = NULL => Granted(ret', 1) = {} /\ UNCHANGED <<holds, used_page_cnt>>
    BY <1>1 DEF Granted, Allocate
  <1>4. ret' # NULL => /\ ret' \in FreeFrames \ {0}
                       /\ InMap(Granted(ret', 1)) = {ret'}
                       /\ holds' = [holds EXCEPT ![h] = [base |-> ret', n |-> 1]]
                       /\ used_page_cnt' = Wrap(used_page_cnt + 1)
    BY <1>1, AllocOne
  <1>5. ret' \notin BitmapFrames
    <2>1. CASE ret' = NULL
      <3>1. 0 .. (1 - 1) = {0}
        OBVIOUS
      <3> QED
        BY <1>1, <2>1, <3>1 DEF Apart, NULL
    <2>2. CASE ret' # NULL
      BY <1>1, <1>4, <2>2 DEF ReadyInv, SafeInv, Apart
    <2> QED
      BY <2>1, <2>2
  <1>6. bitmap_set(used, Granted(ret', 1)) = IF ret' = NULL THEN used ELSE used \cup {ret'}
    BY <1>3, <1>4 DEF bitmap_set, InMap
  <1>7. CASE pmm_alloc(h, 1)
    <2>1. used' = IF ret' = NULL THEN used ELSE used \cup {ret'}
      BY <1>6, <1>7 DEF pmm_alloc
    <2>2. pmm_allocz(h, 1) => zeroed' = {ret'}
      BY <1>2 DEF pmm_allocz
    <2> QED
      BY <1>3, <1>4, <1>5, <2>1, <2>2
  <1>8. CASE pmm_allocz(h, 1)
    <2>1. zeroed' = {ret'}
      BY <1>2, <1>8 DEF pmm_allocz
    <2>2. BitsIn(zeroed') = {}
      BY <1>5, <2>1, NoWipe
    <2>3. used' = IF ret' = NULL THEN used ELSE used \cup {ret'}
      BY <1>6, <1>8, <2>2 DEF pmm_allocz
    <2> QED
      BY <1>3, <1>4, <1>5, <2>1, <2>3
  <1> QED
    BY <1>7, <1>8

\* Allocating one page keeps the invariant.
LEMMA SafeAlloc ==
  ASSUME TypeInv, SafeInv, Counts = {1}, NEW h \in Holders,
         pmm_alloc(h, 1) \/ pmm_allocz(h, 1)
  PROVE  SafeInv'
  <1>1. /\ pc = "ready" /\ pc' = "ready" /\ holds[h] = NoAlloc
        /\ UNCHANGED <<mmap, size, map, hi_page_top, null_frees>>
    BY DEF pmm_alloc, pmm_allocz, Allocate, bootVars
  <1>2. /\ Disjoint(mmap)'
        /\ map' # NULLMAP => \A f \in BitmapFrames' : ~ Usable(f)'
    BY <1>1, UsableStable DEF SafeInv, Disjoint, Frames, BitmapFrames, BitmapBase
  <1>3. ASSUME Sound' PROVE ReadyInv'
    <2>1. Sound
      BY <1>1, <1>3, SoundStable
    <2>2. ReadyInv
      BY <1>1, <2>1 DEF SafeInv
    <2>3. CASE ret' = NULL
      <3>1. UNCHANGED <<used, holds>>
        BY <2>1, <2>3, CallOne
      <3> QED
        BY <1>1, <2>2, <3>1, UsableStable
        DEF ReadyInv, OwnsOneFrame, FreeFrames, NoAlloc, NULL
    <2>4. CASE ret' # NULL
      <3>1. /\ ret' \in FreeFrames \ {0}
            /\ used' = used \cup {ret'}
            /\ holds' = [holds EXCEPT ![h] = [base |-> ret', n |-> 1]]
        BY <2>1, <2>4, CallOne
      <3>2. ret' # 0 /\ Usable(ret') /\ ret' \notin used
        BY <2>2, <3>1 DEF ReadyInv, FreeFrames
      <3>3. /\ \A f \in FreeFrames' : f # 0 => Usable(f)'
            /\ null_frees' = 0 => 0 \notin FreeFrames'
            /\ null_frees' > 0 => 0 \notin used'
        <4>1. FreeFrames' \subseteq FreeFrames
          BY <1>1, <3>1 DEF FreeFrames
        <4> QED
          BY <1>1, <2>2, <3>1, <4>1, UsableStable DEF ReadyInv
      <3>4. holds \in [Holders -> [base : Nat, n : 0 .. (WORD - 1)]]
        BY DEF TypeInv, TypeOK
      <3>5. /\ holds'[h] = [base |-> ret', n |-> 1]
            /\ \A g \in Holders : g # h => holds'[g] = holds[g]
        BY <3>1, <3>4
      <3>6. OwnsOneFrame(h)'
        <4>1. ret' \in 1 .. (hi_page_top - 1)
          BY <3>1, <3>2 DEF FreeFrames, TypeInv, TypeOK
        <4> QED
          BY <1>1, <3>1, <3>2, <3>5, <4>1, UsableStable DEF OwnsOneFrame
      <3>7. ASSUME NEW g \in Holders, g # h, holds[g] # NoAlloc
            PROVE  OwnsOneFrame(g)' /\ holds[g].base # ret'
        <4>1. OwnsOneFrame(g)
          BY <2>2, <3>7 DEF ReadyInv
        <4> QED
          BY <1>1, <3>1, <3>2, <3>5, <3>7, <4>1, UsableStable DEF OwnsOneFrame
      <3>8. \A g \in Holders : holds'[g] = NoAlloc \/ OwnsOneFrame(g)'
        BY <3>5, <3>6, <3>7
      <3>9. \A g, k \in Holders :
               g # k /\ holds'[g] # NoAlloc => holds'[g].base # holds'[k].base
        <4>1. ASSUME NEW g \in Holders, NEW k \in Holders, g # k,
                     holds'[g] # NoAlloc
              PROVE  holds'[g].base # holds'[k].base
          <5>1. CASE g = h
            BY <2>2, <3>2, <3>5, <3>7, <4>1, <5>1 DEF ReadyInv, NoAlloc, NULL
          <5>2. CASE k = h
            BY <3>5, <3>7, <4>1, <5>2
          <5>3. CASE g # h /\ k # h
            BY <2>2, <3>5, <4>1, <5>3 DEF ReadyInv
          <5> QED
            BY <5>1, <5>2, <5>3
        <4> QED
          BY <4>1
      <3> QED
        BY <3>3, <3>8, <3>9 DEF ReadyInv, NoAlloc, NULL
    <2> QED
      BY <2>3, <2>4
  <1> QED
    BY <1>1, <1>2, <1>3 DEF SafeInv

\* Giving a page back keeps the invariant.
LEMMA SafeFree ==
  ASSUME TypeInv, SafeInv, NEW h \in Holders, pmm_free(h)
  PROVE  SafeInv'
  <1>1. /\ pc = "ready" /\ pc' = "ready" /\ holds[h] # NoAlloc
        /\ UNCHANGED <<mmap, size, map, hi_page_top, null_frees>>
        /\ used' = used \ Span(holds[h])
        /\ holds' = [holds EXCEPT ![h] = NoAlloc]
    BY DEF pmm_free, bootVars, bitmap_clear
  <1>2. /\ Disjoint(mmap)'
        /\ map' # NULLMAP => \A f \in BitmapFrames' : ~ Usable(f)'
    BY <1>1, UsableStable DEF SafeInv, Disjoint, Frames, BitmapFrames, BitmapBase
  <1>3. ASSUME Sound' PROVE ReadyInv'
    <2>1. ReadyInv
      BY <1>1, <1>3, SoundStable DEF SafeInv
    <2>2. OwnsOneFrame(h)
      BY <1>1, <2>1 DEF ReadyInv
    <2>3. holds \in [Holders -> [base : Nat, n : 0 .. (WORD - 1)]]
      BY DEF TypeInv, TypeOK
    <2>4. Span(holds[h]) = {holds[h].base}
      BY <2>2, <2>3 DEF Span, OwnsOneFrame
    <2>5. /\ holds'[h] = NoAlloc
          /\ \A g \in Holders : g # h => holds'[g] = holds[g]
      BY <1>1, <2>3
    <2>6. /\ \A f \in FreeFrames' : f # 0 => Usable(f)'
          /\ null_frees' = 0 => 0 \notin FreeFrames'
          /\ null_frees' > 0 => 0 \notin used'
      <3>1. ASSUME NEW f \in FreeFrames', f # 0 PROVE Usable(f)
        <4>1. f \in FreeFrames \/ f = holds[h].base
          BY <1>1, <2>4, <3>1 DEF FreeFrames
        <4> QED
          BY <2>1, <2>2, <3>1, <4>1 DEF ReadyInv, OwnsOneFrame
      <3>2. null_frees = 0 => 0 \notin FreeFrames'
        BY <1>1, <2>1, <2>2, <2>4 DEF ReadyInv, OwnsOneFrame, FreeFrames
      <3> QED
        BY <1>1, <2>1, <3>1, <3>2, UsableStable DEF ReadyInv
    <2>7. ASSUME NEW g \in Holders, holds'[g] # NoAlloc PROVE OwnsOneFrame(g)'
      <3>1. g # h /\ holds'[g] = holds[g]
        BY <2>5, <2>7
      <3>2. OwnsOneFrame(g) /\ holds[g].base # holds[h].base
        BY <2>1, <2>7, <3>1 DEF ReadyInv
      <3> QED
        BY <1>1, <2>4, <3>1, <3>2, UsableStable DEF OwnsOneFrame
    <2>8. \A g, k \in Holders :
             g # k /\ holds'[g] # NoAlloc => holds'[g].base # holds'[k].base
      <3>1. \A g \in Holders : holds'[g] # NoAlloc => g # h /\ holds'[g] = holds[g]
        BY <2>5
      <3>2. \A g \in Holders : holds'[g] # NoAlloc => holds'[g].base # 0
        BY <2>7, <3>1, <2>1 DEF ReadyInv, OwnsOneFrame
      <3> QED
        BY <2>1, <2>5, <3>1, <3>2 DEF ReadyInv, NoAlloc, NULL
    <2> QED
      BY <2>6, <2>7, <2>8 DEF ReadyInv, NoAlloc, NULL
  <1> QED
    BY <1>1, <1>2, <1>3 DEF SafeInv

\* Freeing NULL clears bit 0, which belongs to nobody.
LEMMA SafeFreeNull ==
  ASSUME TypeInv, SafeInv, pmm_free_NULL(1)
  PROVE  SafeInv'
  <1>1. /\ pc = "ready" /\ pc' = "ready"
        /\ UNCHANGED <<mmap, size, map, hi_page_top, holds>>
        /\ used' = used \ (0 .. (1 - 1))
        /\ null_frees' = null_frees + 1 /\ null_frees \in Nat
    BY DEF pmm_free_NULL, bootVars, bitmap_clear, TypeInv, TypeOK
  <1>2. used' = used \ {0} /\ null_frees' > 0
    BY <1>1
  <1>3. /\ Disjoint(mmap)'
        /\ map' # NULLMAP => \A f \in BitmapFrames' : ~ Usable(f)'
    BY <1>1, UsableStable DEF SafeInv, Disjoint, Frames, BitmapFrames, BitmapBase
  <1>4. ASSUME Sound' PROVE ReadyInv'
    <2>1. ReadyInv
      BY <1>1, <1>4, SoundStable DEF SafeInv
    <2>2. /\ \A f \in FreeFrames' : f # 0 => Usable(f)'
          /\ 0 \notin used'
      BY <1>1, <1>2, <2>1, UsableStable DEF ReadyInv, FreeFrames
    <2>3. ASSUME NEW h \in Holders, OwnsOneFrame(h) PROVE OwnsOneFrame(h)'
      <3>1. holds[h].base # 0
        BY <2>3 DEF OwnsOneFrame, TypeInv, TypeOK
      <3> QED
        BY <1>1, <1>2, <2>3, <3>1, UsableStable DEF OwnsOneFrame
    <2> QED
      BY <1>1, <1>2, <2>1, <2>2, <2>3 DEF ReadyInv, NoAlloc, NULL
  <1> QED
    BY <1>1, <1>3, <1>4 DEF SafeInv

\* When callers ask for one page at a time, every step keeps the invariant.
LEMMA SafeStep ==
  ASSUME Counts = {1}
  PROVE  TypeInv /\ SafeInv /\ [Next]_vars => SafeInv'
  <1> SUFFICES ASSUME TypeInv, SafeInv, [Next]_vars PROVE SafeInv'
    OBVIOUS
  <1>1. CASE Boot
    BY <1>1, SafeBoot
  <1>2. ASSUME NEW h \in Holders, NEW n \in Counts,
               pmm_alloc(h, n) \/ pmm_allocz(h, n)
        PROVE  SafeInv'
    BY <1>2, SafeAlloc
  <1>3. ASSUME NEW h \in Holders, pmm_free(h) PROVE SafeInv'
    BY <1>3, SafeFree
  <1>5. ASSUME NEW n \in Counts, pmm_free_NULL(n) PROVE SafeInv'
    BY <1>5, SafeFreeNull
  <1>4. CASE UNCHANGED vars
    <2>1. UNCHANGED <<pc, i, mmap, hi_page_top, map, size, used, holds, null_frees, ret>>
      BY <1>4 DEF vars, bootVars, callVars
    <2>2. (Sound' <=> Sound) /\ MapBits' = MapBits
      BY <2>1, SoundStable
    <2>3. ReadyInv => ReadyInv'
      BY <2>1, UsableStable
      DEF ReadyInv, OwnsOneFrame, FreeFrames, NoAlloc, NULL
    <2>4. /\ Disjoint(mmap)'
          /\ map' # NULLMAP => \A f \in BitmapFrames' : ~ Usable(f)'
      BY <2>1, UsableStable DEF SafeInv, Disjoint, Frames, BitmapFrames, BitmapBase
    <2>5. pc' # "ready" => \A h \in Holders : holds'[h] = NoAlloc
      BY <2>1 DEF SafeInv
    <2> QED
      BY <2>1, <2>2, <2>3, <2>4, <2>5 DEF SafeInv, Frames, NoAlloc, NULL
  <1> QED
    BY <1>1, <1>2, <1>3, <1>4, <1>5 DEF Next

\* The invariant gives the two properties that the runs check.
LEMMA SafeImplies ==
  ASSUME TypeInv, SafeInv
  PROVE  FreeFramesAreSafe /\ HoldersExclusive
  <1>1. \A f : f \in UsableFrames <=> Usable(f)
    BY DEF UsableFrames, UsableEntries, Usable
  <1>2. \A f : f \in Held <=> \E h \in Holders : f \in Span(holds[h])
    BY DEF Held
  <1>3. \A h \in Holders : holds[h] = NoAlloc => Span(holds[h]) = {}
    BY NoAllocSpan
  <1>4. ASSUME NEW h \in Holders, OwnsOneFrame(h)
        PROVE  Span(holds[h]) = {holds[h].base}
    BY <1>4 DEF OwnsOneFrame, Span, TypeInv, TypeOK
  <1>5. map # NULLMAP => \A f \in BitmapFrames : f \notin UsableFrames
    BY <1>1 DEF SafeInv
  <1>6. ASSUME Sound
        PROVE  /\ (FreeFrames \ {0}) \subseteq UsableFrames
               /\ (FreeFrames \ {0}) \cap Held = {}
               /\ null_frees = 0 => 0 \notin FreeFrames
               /\ Held \subseteq UsableFrames \ {0}
               /\ \A g, h \in Holders :
                     g # h => Span(holds[g]) \cap Span(holds[h]) = {}
    <2>1. ReadyInv
      BY <1>6 DEF SafeInv
    <2>2. (FreeFrames \ {0}) \subseteq UsableFrames
      BY <1>1, <2>1 DEF ReadyInv
    <2>3. ASSUME NEW f \in Held
          PROVE  f \in used /\ f # 0 /\ f \in UsableFrames
      <3>1. PICK h \in Holders : f \in Span(holds[h])
        BY <1>2
      <3>2. OwnsOneFrame(h)
        BY <1>3, <2>1, <3>1 DEF ReadyInv
      <3> QED
        BY <1>1, <1>4, <3>1, <3>2 DEF OwnsOneFrame
    <2>4. (FreeFrames \ {0}) \cap Held = {} /\ (null_frees = 0 => 0 \notin FreeFrames)
      BY <2>1, <2>3 DEF FreeFrames, ReadyInv
    <2>5. ASSUME NEW g \in Holders, NEW h \in Holders, g # h
          PROVE  Span(holds[g]) \cap Span(holds[h]) = {}
      BY <1>3, <1>4, <2>1, <2>5 DEF ReadyInv
    <2> QED
      BY <2>2, <2>3, <2>4, <2>5
  <1>7. Sound => map # NULLMAP
    BY DEF Sound, Apart
  <1>8. FreeFramesAreSafe
    BY <1>5, <1>6, <1>7 DEF FreeFramesAreSafe
  <1>9. HoldersExclusive
    BY <1>5, <1>6, <1>7 DEF HoldersExclusive
  <1> QED
    BY <1>8, <1>9

\* What pmm_alloc may hand out is usable, unowned and not the bitmap, when
\* callers ask for single pages, on every memory map that the bitmap covers and
\* in which pmm_init finds the bitmap a place other than frame 0.  Frame 0 is
\* not handed out while nobody frees NULL.
THEOREM FreeFramesSafe ==
  ASSUME Counts = {1}
  PROVE  Spec => []FreeFramesAreSafe
  <1>1. TypeInv /\ SafeInv => FreeFramesAreSafe
    BY SafeImplies
  <1> QED
    BY <1>1, TypeInit, SafeInit, TypeStep, SafeStep, PTL DEF Spec

\* No frame has two owners, and no owned frame is NULL, the bitmap or
\* reserved memory, under the same conditions.
THEOREM ExclusiveOwnership ==
  ASSUME Counts = {1}
  PROVE  Spec => []HoldersExclusive
  <1>1. TypeInv /\ SafeInv => HoldersExclusive
    BY SafeImplies
  <1> QED
    BY <1>1, TypeInit, SafeInit, TypeStep, SafeStep, PTL DEF Spec

-----------------------------------------------------------------------------
(* Frame 0, for requests of any length.                                    *)

\* Neither a refused nor a granted pmm_allocz can reach the bitmap.
Guarded == Apart /\ StartsAboveBitmap

\* The bits that are clear, and the frames that are owned, lie beyond the
\* bitmap, bit 0 apart.
AboveInv ==
    /\ MapBits > 0 => 0 \in used
    /\ \A f \in 0 .. (MapBits - 1) : f \notin used => \A b \in BitmapFrames : b < f
    /\ \A h \in Holders : \A f \in Span(holds[h]) : \A b \in BitmapFrames : b < f

\* The inductive invariant behind the reservation of frame 0.  Ranges overlap
\* and their release clears bits of frames that were never usable, but only
\* bits above the first frame that was.
ZeroInv ==
    /\ pc # "ready" => SafeInv
    /\ pc = "ready" => \A h \in Holders : 0 \notin Span(holds[h])
    /\ pc = "ready" /\ Guarded /\ null_frees = 0 => AboveInv

\* A request of n pages is granted at a frame that the bitmap does not cover or
\* whose bit is clear, and that is not frame 0.
LEMMA GrantStart ==
  ASSUME TypeInv, NEW h \in Holders, NEW n \in Counts, Allocate(h, n), ret' # NULL
  PROVE  /\ ret' \in 1 .. (hi_page_top - 1)
         /\ ret' \notin used
         /\ holds' = [holds EXCEPT ![h] = [base |-> ret', n |-> n]]
  <1>1. PICK junk \in Junk(n), ptr \in 0 .. hi_page_top :
           /\ IF used_page_cnt <= 0 THEN ptr = NULL
                                    ELSE get_ffp_range(n, junk, ptr)
           /\ ret' = ptr
           /\ IF ptr = NULL
              THEN /\ refused' = refused \cup {n}
                   /\ UNCHANGED <<used_page_cnt, holds>>
              ELSE /\ used_page_cnt' = Wrap(used_page_cnt + n)
                   /\ holds' = [holds EXCEPT ![h] = [base |-> ptr, n |-> n]]
                   /\ UNCHANGED refused
    BY DEF Allocate
  <1>2. /\ get_ffp_range(n, junk, ptr) /\ ptr # NULL
        /\ holds' = [holds EXCEPT ![h] = [base |-> ptr, n |-> n]]
    BY <1>1
  <1>3. ptr \in 0 .. (hi_page_top - 1) /\ FreeAt(ptr, n, junk)
    BY <1>2 DEF get_ffp_range
  <1>4. hi_page_top \in Nat /\ n \in Nat
    BY WordAssumption DEF TypeInv, TypeOK
  <1>5. 0 \in 0 .. (n - 1) /\ ptr + (0 \div PAGE_SIZE) = ptr
    BY <1>3, <1>4, PageSizeAssumption DEF FreeAt
  <1>6. ptr \notin used
    BY <1>3, <1>5 DEF FreeAt, bitmap_get
  <1> QED
    BY <1>1, <1>2, <1>3, <1>4, <1>6 DEF NULL

\* A guarded allocator stays one.
LEMMA GuardedStable ==
  ASSUME UNCHANGED <<mmap, size, map, hi_page_top>>
  PROVE  /\ Guarded' <=> Guarded
         /\ MapBits' = MapBits /\ BitmapFrames' = BitmapFrames
  <1>1. MapBits' = MapBits /\ BitmapFrames' = BitmapFrames
    BY DEF MapBits, BitmapFrames, BitmapBase
  <1>2. UsableFrames' = UsableFrames
    BY DEF UsableFrames, UsableEntries, Frames
  <1> QED
    BY <1>1, <1>2 DEF Guarded, Apart, StartsAboveBitmap

\* A request of any length keeps the invariant.
LEMMA ZeroCall ==
  ASSUME TypeInv, ZeroInv, NEW h \in Holders, NEW n \in Counts,
         pmm_alloc(h, n) \/ pmm_allocz(h, n)
  PROVE  ZeroInv'
  <1>0. /\ MapBits \in Nat /\ hi_page_top \in Nat /\ n \in Nat
        /\ holds \in [Holders -> [base : Nat, n : 0 .. (WORD - 1)]]
    BY MapBitsNat, WordAssumption DEF TypeInv, TypeOK
  <1>1. /\ Allocate(h, n) /\ pc = "ready" /\ pc' = "ready"
        /\ UNCHANGED <<mmap, size, map, hi_page_top, null_frees>>
        /\ ret' \in Nat
    BY <1>0 DEF pmm_alloc, pmm_allocz, Allocate, bootVars
  <1> DEFINE S == Granted(ret', n)
  <1>2. S \subseteq 1 .. (ret' + n - 1)
    BY <1>0, <1>1 DEF Granted, NULL
  <1>3. \A g \in Holders : \A f \in Span(holds'[g]) : f \in Span(holds[g]) \/ f \in S
    <2>1. CASE ret' = NULL
      <3>1. UNCHANGED holds
        BY <1>1, <2>1 DEF Allocate
      <3> QED
        BY <3>1
    <2>2. CASE ret' # NULL
      <3>1. holds' = [holds EXCEPT ![h] = [base |-> ret', n |-> n]]
        BY <1>1, <2>2, GrantStart
      <3>2. Span(holds'[h]) = S
        BY <1>0, <2>2, <3>1 DEF Span, Granted
      <3> QED
        BY <1>0, <3>1, <3>2
    <2> QED
      BY <2>1, <2>2
  <1>4. \A g \in Holders : 0 \notin Span(holds'[g])
    BY <1>1, <1>2, <1>3 DEF ZeroInv
  <1>5. ASSUME Guarded', null_frees' = 0 PROVE AboveInv'
    <2>1. Guarded /\ null_frees = 0 /\ MapBits' = MapBits /\ BitmapFrames' = BitmapFrames
      BY <1>1, <1>5, GuardedStable
    <2>2. AboveInv
      BY <1>1, <2>1 DEF ZeroInv
    <2>3. \A b \in BitmapFrames : b \in Int
      BY DEF BitmapFrames, BitmapBase, TypeInv, TypeOK, NULLMAP
    <2>4. ASSUME ret' # NULL, NEW b \in BitmapFrames PROVE b < ret'
      <3>1. ret' \in 1 .. (hi_page_top - 1) /\ ret' \notin used
        BY <1>1, <2>4, GrantStart
      <3>2. CASE ret' < MapBits
        <4>1. ret' \in 0 .. (MapBits - 1)
          BY <1>0, <3>1, <3>2
        <4> QED
          BY <2>2, <2>4, <3>1, <4>1 DEF AboveInv
      <3>3. CASE ~ (ret' < MapBits)
        <4>1. ret' \in MapBits .. (hi_page_top - 1)
          BY <1>0, <3>1, <3>3
        <4> QED
          BY <2>1, <2>4, <4>1 DEF Guarded, StartsAboveBitmap
      <3> QED
        BY <3>2, <3>3
    <2>5. \A f \in S : \A b \in BitmapFrames : b < f
      BY <1>0, <1>1, <2>3, <2>4 DEF Granted
    <2>6. (ret' .. (ret' + n - 1)) \cap BitmapFrames = {}
      <3>1. CASE ret' = NULL
        <4>1. ret' .. (ret' + n - 1) = 0 .. (n - 1)
          BY <1>0, <3>1 DEF NULL
        <4> QED
          BY <2>1, <4>1 DEF Guarded, Apart
      <3>2. CASE ret' # NULL
        BY <1>0, <1>1, <2>3, <2>4, <3>2
      <3> QED
        BY <3>1, <3>2
    <2>7. used' = used \cup InMap(S)
      <3>1. CASE pmm_alloc(h, n)
        BY <3>1 DEF pmm_alloc, bitmap_set
      <3>2. CASE pmm_allocz(h, n)
        <4>1. BitsIn(ret' .. (ret' + n - 1)) = {}
          BY <2>6, NoWipe
        <4> QED
          BY <3>2, <4>1 DEF pmm_allocz, bitmap_set
      <3> QED
        BY <3>1, <3>2
    <2>8. \A g \in Holders : \A f \in Span(holds'[g]) : \A b \in BitmapFrames : b < f
      BY <1>3, <2>2, <2>5 DEF AboveInv
    <2> QED
      BY <2>1, <2>2, <2>7, <2>8 DEF AboveInv, Span
  <1> QED
    BY <1>1, <1>4, <1>5 DEF ZeroInv, Span

\* The end of pmm_init sets bit 0; the other clear bits are usable frames.
LEMMA ZeroFreeDone ==
  ASSUME TypeInv, ZeroInv, FreeDone
  PROVE  ZeroInv'
  <1>1. /\ pc = "free" /\ pc' = "ready" /\ used' = used \cup InMap({0})
        /\ UNCHANGED <<mmap, size, map, hi_page_top, holds, null_frees>>
    BY DEF FreeDone, bitmap_set, callVars
  <1>2. SafeInv /\ \A h \in Holders : Span(holds[h]) = {}
    BY <1>1, NoAllocSpan DEF ZeroInv, SafeInv
  <1>3. MapBits \in Nat
    BY MapBitsNat DEF TypeInv
  <1>4. ASSUME Guarded' PROVE AboveInv'
    <2>1. Guarded /\ MapBits' = MapBits /\ BitmapFrames' = BitmapFrames
      BY <1>1, <1>4, GuardedStable
    <2>2. MapBits > 0 => 0 \in used'
      BY <1>1, <1>3 DEF InMap
    <2>3. ASSUME NEW f \in 0 .. (MapBits - 1), f \notin used', NEW b \in BitmapFrames
          PROVE  b < f
      <3>1. f # 0 /\ f \notin used
        BY <1>1, <1>3, <2>2, <2>3
      <3>2. f \in UsableFrames
        BY <1>1, <1>2, <2>3, <3>1 DEF SafeInv, UsableFrames, UsableEntries
      <3> QED
        BY <2>1, <2>3, <3>1, <3>2 DEF Guarded, StartsAboveBitmap
    <2> QED
      BY <1>1, <1>2, <2>1, <2>2, <2>3 DEF AboveInv, Span
  <1> QED
    BY <1>1, <1>2, <1>4 DEF ZeroInv, Span

\* Every step keeps frame 0's bit set, and frame 0 out of every allocation.
LEMMA ZeroStep == TypeInv /\ ZeroInv /\ [Next]_vars => ZeroInv'
  <1> SUFFICES ASSUME TypeInv, ZeroInv, [Next]_vars PROVE ZeroInv'
    OBVIOUS
  <1>1. CASE Boot /\ ~ FreeDone
    <2>1. pc # "ready" /\ pc' # "ready"
      BY <1>1 DEF Boot, ScanEntry, ScanDone, PlaceEntry, PlaceNone, FreeEntry,
                  FillBitmap
    <2>2. SafeInv'
      BY <1>1, <2>1, SafeBoot DEF ZeroInv
    <2> QED
      BY <2>1, <2>2 DEF ZeroInv
  <1>2. CASE FreeDone
    BY <1>2, ZeroFreeDone
  <1>3. ASSUME NEW h \in Holders, NEW n \in Counts,
               pmm_alloc(h, n) \/ pmm_allocz(h, n)
        PROVE  ZeroInv'
    BY <1>3, ZeroCall
  <1>4. ASSUME NEW h \in Holders, pmm_free(h) PROVE ZeroInv'
    <2>1. /\ pc = "ready" /\ pc' = "ready"
          /\ UNCHANGED <<mmap, size, map, hi_page_top, null_frees>>
          /\ used' = used \ Span(holds[h])
          /\ holds' = [holds EXCEPT ![h] = NoAlloc]
      BY <1>4 DEF pmm_free, bootVars, bitmap_clear
    <2>2. \A g \in Holders : Span(holds'[g]) \subseteq Span(holds[g])
      BY <2>1, NoAllocSpan DEF TypeInv, TypeOK
    <2>3. \A g \in Holders : 0 \notin Span(holds[g])
      BY <2>1 DEF ZeroInv
    <2>4. ASSUME Guarded', null_frees' = 0 PROVE AboveInv'
      <3>1. Guarded /\ null_frees = 0 /\ MapBits' = MapBits /\ BitmapFrames' = BitmapFrames
        BY <2>1, <2>4, GuardedStable
      <3>2. AboveInv
        BY <2>1, <3>1 DEF ZeroInv
      <3> QED
        BY <2>1, <2>2, <2>3, <3>1, <3>2 DEF AboveInv, Span
    <2> QED
      BY <2>1, <2>2, <2>3, <2>4 DEF ZeroInv, Span
  <1>5. ASSUME NEW n \in Counts, pmm_free_NULL(n) PROVE ZeroInv'
    <2>1. /\ pc = "ready" /\ pc' = "ready" /\ UNCHANGED holds
          /\ null_frees' = null_frees + 1 /\ null_frees \in Nat
      BY <1>5 DEF pmm_free_NULL, bootVars, TypeInv, TypeOK
    <2>2. null_frees' # 0
      BY <2>1
    <2> QED
      BY <2>1, <2>2 DEF ZeroInv, Span
  <1>6. CASE UNCHANGED vars
    <2>1. UNCHANGED <<pc, i, mmap, hi_page_top, map, size, used, holds, null_frees, ret>>
      BY <1>6 DEF vars, bootVars, callVars
    <2>2. pc # "ready" => SafeInv'
      <3>1. UNCHANGED <<Disjoint(mmap), MapBits, BitmapFrames>>
        BY <2>1 DEF Disjoint, Frames, MapBits, BitmapFrames, BitmapBase
      <3> QED
        BY <2>1, <3>1, UsableStable DEF ZeroInv, SafeInv, Sound, Frames, NoAlloc, NULL
    <2>3. AboveInv => AboveInv'
      BY <2>1, GuardedStable DEF AboveInv, Span
    <2> QED
      BY <2>1, <2>2, <2>3, GuardedStable DEF ZeroInv, Span
  <1> QED
    BY <1>1, <1>2, <1>3, <1>4, <1>5, <1>6 DEF Next

\* Frame 0, which is NULL, is never handed out while nobody frees NULL: for
\* requests of any length, on every memory map whose bitmap lies beyond the
\* reach of a refused pmm_allocz and below all that a request can be granted.
THEOREM ZeroReserved == Spec => []FrameZeroReserved
  <1>1. Init => ZeroInv
    BY SafeInit DEF Init, ZeroInv
  <1>2. ZeroInv => FrameZeroReserved
    BY DEF ZeroInv, AboveInv, Guarded, FrameZeroReserved, Held
  <1> QED
    BY <1>1, <1>2, TypeInit, TypeStep, ZeroStep, PTL DEF Spec

-----------------------------------------------------------------------------
(* used_page_cnt and the bitmap, for callers that ask for single pages.    *)

\* The first loop has hi_page_top reach the end of every entry it passed.
TopInv ==
    /\ pc = "scan" =>
          \A k \in DOMAIN mmap :
             k < i /\ Counted(mmap[k]) => mmap[k].base + mmap[k].length <= hi_page_top
    /\ pc # "scan" =>
          \A k \in DOMAIN mmap :
             mmap[k].type = "USABLE" => mmap[k].base + mmap[k].length <= hi_page_top

\* Each page the third loop takes off used_page_cnt is a bit it clears.  That
\* takes hi_page_top above every usable frame, so that the bit is one of those
\* counted, and entries that do not overlap, so that it was still set.
CountInv ==
    /\ TopInv
    /\ pc = "place" => used_page_cnt = hi_page_top * KB
    /\ pc = "free" =>
          /\ Covered => used_page_cnt + Cardinality(FreeFrames) = hi_page_top * KB
          /\ \A k \in DOMAIN mmap :
                k < i /\ mmap[k].type = "USABLE" => Frames(mmap[k]) \cap used = {}
    /\ Sound /\ null_frees = 0 =>
          used_page_cnt + Cardinality(FreeFrames) =
              hi_page_top * KB - (IF Usable(0) THEN 1 ELSE 0)

\* The free frames are finitely many, at most hi_page_top.
LEMMA FreeBounded ==
  ASSUME hi_page_top \in Nat
  PROVE  IsFiniteSet(FreeFrames) /\ Cardinality(FreeFrames) \in 0 .. hi_page_top
  <1>1. FreeFrames \in SUBSET (0 .. (hi_page_top - 1))
    BY DEF FreeFrames
  <1> QED
    BY <1>1, BoundedSet

\* The same, one step later.
LEMMA FreeBoundedNext ==
  ASSUME hi_page_top' \in Nat
  PROVE  IsFiniteSet(FreeFrames') /\ Cardinality(FreeFrames') \in 0 .. hi_page_top'
  <1>1. FreeFrames' \in SUBSET (0 .. (hi_page_top' - 1))
    BY DEF FreeFrames
  <1> QED
    BY <1>1, BoundedSet

\* A freshly filled bitmap has no free frame.
LEMMA CountFilled ==
  ASSUME TypeInv, UNCHANGED <<size, hi_page_top>>, used' = 0 .. (MapBits - 1), Covered'
  PROVE  Cardinality(FreeFrames') = 0
  <1>1. MapBits \in Nat /\ hi_page_top \in Nat /\ hi_page_top <= MapBits
    BY MapBitsNat DEF TypeInv, TypeOK, Covered, MapBits
  <1>2. FreeFrames' = {}
    BY <1>1 DEF FreeFrames
  <1> QED
    BY <1>2, FS_EmptySet

\* The third loop: the pages of an entry leave used_page_cnt and become free
\* frames together.
LEMMA CountFreeEntry ==
  ASSUME TypeInv, SafeInv, CountInv, FreeEntry
  PROVE  CountInv'
  <1>0. /\ mmap \in Seq(Entry) /\ DOMAIN mmap = 1 .. Len(mmap) /\ Len(mmap) \in Nat
        /\ i \in Nat /\ MapBits \in Nat /\ hi_page_top \in Nat
        /\ used_page_cnt \in 0 .. (WORD - 1) /\ WORD \in Nat
        /\ hi_page_top * KB < WORD
    BY MapBitsNat, WordAssumption DEF TypeInv, TypeOK
  <1>1. /\ pc = "free" /\ i \in DOMAIN mmap /\ i' = i + 1
        /\ UNCHANGED <<pc, mmap, size, map, holds, hi_page_top>>
    BY <1>0 DEF FreeEntry, TypeInv, TypeOK, callVars
  <1> DEFINE e == mmap[i]
             B == Frames(e)
  <1>a. e \in Entry
    BY <1>0, <1>1
  <1>2. e \in Entry /\ e.base \in Nat /\ e.length \in Nat
    BY <1>a DEF Entry
  <1>3. TopInv' /\ ~ Sound'
    BY <1>1 DEF CountInv, TopInv, Sound
  <1>4. CASE e.type # "USABLE"
    <2>1. UNCHANGED <<used, used_page_cnt>>
      BY <1>4 DEF FreeEntry, callVars
    <2>2. FreeFrames' = FreeFrames /\ Covered' = Covered
      BY <1>1, <2>1 DEF FreeFrames, Covered, MapBits
    <2>3. \A k \in DOMAIN mmap :
             k < i' /\ mmap[k].type = "USABLE" => k < i
      BY <1>0, <1>1, <1>4
    <2> QED
      BY <1>1, <1>3, <2>1, <2>2, <2>3 DEF CountInv, Frames
  <1>5. CASE e.type = "USABLE"
    <2>1. used' = used \ B /\ used_page_cnt' = Wrap(used_page_cnt - e.length)
      BY <1>5 DEF FreeEntry, bitmap_clear, callVars
    <2>2. B = e.base .. (e.base + e.length - 1) /\ e.base + e.length <= hi_page_top
      BY <1>1, <1>5 DEF Frames, CountInv, TopInv
    <2>3. ASSUME NEW k \in DOMAIN mmap, k < i', mmap[k].type = "USABLE"
          PROVE  Frames(mmap[k]) \cap used' = {}
      <3>1. CASE k = i
        BY <2>1, <3>1
      <3>2. CASE k # i
        <4>1. k < i
          BY <1>0, <1>1, <2>3, <3>2
        <4> QED
          BY <1>1, <2>1, <2>3, <4>1 DEF CountInv
      <3> QED
        BY <3>1, <3>2
    <2>4. ASSUME Covered'
          PROVE  used_page_cnt' + Cardinality(FreeFrames') = hi_page_top * KB
      <3>1. Covered /\ hi_page_top <= MapBits
        BY <1>1, <2>4 DEF Covered, MapBits
      <3>2. B \subseteq 0 .. (hi_page_top - 1)
        BY <1>0, <1>2, <2>2
      <3>3. FreeFrames \cap B = {}
        <4>1. ASSUME NEW f \in FreeFrames, f \in B PROVE FALSE
          <5>1. f \in 0 .. (MapBits - 1) /\ f \notin used
            BY <1>0, <3>1, <4>1 DEF FreeFrames
          <5>2. PICK k \in DOMAIN mmap : /\ k < i /\ mmap[k].type = "USABLE"
                                         /\ f \in Frames(mmap[k])
            BY <1>1, <5>1 DEF SafeInv
          <5>3. k # i
            BY <1>0, <1>1, <5>2
          <5> QED
            BY <1>1, <1>5, <4>1, <5>2, <5>3 DEF SafeInv, Disjoint
        <4> QED
          BY <4>1
      <3>4. FreeFrames' = FreeFrames \cup B
        BY <1>1, <2>1, <3>2 DEF FreeFrames
      <3>5. IsFiniteSet(B) /\ Cardinality(B) = e.length
        <4>1. e.base \in Int /\ e.base + e.length - 1 \in Int
          BY <1>2
        <4>2. /\ IsFiniteSet(e.base .. (e.base + e.length - 1))
              /\ Cardinality(e.base .. (e.base + e.length - 1)) =
                   IF e.base > e.base + e.length - 1 THEN 0
                   ELSE (e.base + e.length - 1) - e.base + 1
          BY <4>1, FS_Interval
        <4> QED
          BY <1>2, <2>2, <4>2
      <3> HIDE DEF B
      <3>6. /\ IsFiniteSet(FreeFrames) /\ Cardinality(FreeFrames) \in 0 .. hi_page_top
            /\ Cardinality(FreeFrames') \in 0 .. hi_page_top
        BY <1>0, <1>1, FreeBounded, FreeBoundedNext
      <3>7. Cardinality(FreeFrames') = Cardinality(FreeFrames) + e.length
        BY <3>3, <3>4, <3>5, <3>6, DisjointCount
      <3>8. used_page_cnt + Cardinality(FreeFrames) = hi_page_top * KB
        BY <1>1, <3>1 DEF CountInv
      <3> DEFINE n == Cardinality(FreeFrames)
                 l == e.length
                 u == used_page_cnt
      <3>9. /\ u \in Nat /\ u < WORD /\ l \in Nat /\ n + l <= hi_page_top
            /\ n \in Nat /\ u + n = hi_page_top * 1024 /\ u' = Wrap(u - l)
        BY <1>0, <1>2, <2>1, <3>6, <3>7, <3>8 DEF KB
      <3> HIDE DEF n, l, u
      <3>10. u - l >= 0 /\ u - l < WORD /\ u - l + (n + l) = hi_page_top * 1024
        BY <1>0, <3>9
      <3>11. u' = u - l
        BY <1>0, <3>9, <3>10 DEF Wrap
      <3>12. u' + (n + l) = hi_page_top * 1024
        BY <3>10, <3>11
      <3> QED
        BY <3>7, <3>12 DEF KB, n, l, u
    <2> QED
      BY <1>1, <1>3, <2>3, <2>4 DEF CountInv, Frames
  <1> QED
    BY <1>4, <1>5

\* pmm_init reserves frame 0 without counting it, which costs one free frame
\* exactly when frame 0 is usable.
LEMMA CountFreeDone ==
  ASSUME TypeInv, SafeInv, CountInv, FreeDone
  PROVE  CountInv'
  <1>0. /\ mmap \in Seq(Entry) /\ DOMAIN mmap = 1 .. Len(mmap) /\ Len(mmap) \in Nat
        /\ i \in Nat /\ MapBits \in Nat /\ hi_page_top \in Nat
        /\ used_page_cnt \in Nat
    BY MapBitsNat, WordAssumption DEF TypeInv, TypeOK
  <1>1. /\ pc = "free" /\ pc' = "ready" /\ i > Len(mmap)
        /\ UNCHANGED <<mmap, size, map, holds, hi_page_top, used_page_cnt>>
        /\ used' = used \cup InMap({0})
    BY DEF FreeDone, bitmap_set, callVars
  <1>2. TopInv'
    BY <1>1 DEF CountInv, TopInv
  <1>3. ASSUME Covered'
        PROVE  used_page_cnt + Cardinality(FreeFrames') =
                  hi_page_top * KB - (IF Usable(0) THEN 1 ELSE 0)
    <2>1. Covered /\ hi_page_top <= MapBits
      BY <1>1, <1>3 DEF Covered, MapBits
    <2>2. used_page_cnt + Cardinality(FreeFrames) = hi_page_top * KB
      BY <1>1, <2>1 DEF CountInv
    <2>3. FreeFrames' = FreeFrames \ {0}
      BY <1>0, <1>1, <2>1 DEF FreeFrames, InMap
    <2>4. Usable(0) <=> 0 \in FreeFrames
      <3>1. ASSUME 0 \in FreeFrames PROVE Usable(0)
        <4>1. 0 \in 0 .. (MapBits - 1) /\ 0 \notin used
          BY <1>0, <2>1, <3>1 DEF FreeFrames
        <4> QED
          BY <1>1, <4>1 DEF SafeInv, Usable
      <3>2. ASSUME Usable(0) PROVE 0 \in FreeFrames
        <4>1. PICK k \in DOMAIN mmap : mmap[k].type = "USABLE" /\ 0 \in Frames(mmap[k])
          BY <3>2 DEF Usable
        <4>2. k < i
          BY <1>0, <1>1
        <4>3. 0 \notin used
          BY <1>1, <4>1, <4>2 DEF CountInv
        <4>4. mmap[k].base + mmap[k].length <= hi_page_top /\ mmap[k] \in Entry
          BY <1>0, <1>1, <4>1 DEF CountInv, TopInv
        <4>5. hi_page_top > 0
          BY <1>0, <4>1, <4>4 DEF Frames, Entry
        <4> QED
          BY <1>0, <4>3, <4>5 DEF FreeFrames
      <3> QED
        BY <3>1, <3>2
    <2>5. IsFiniteSet(FreeFrames) /\ Cardinality(FreeFrames) \in Nat
      BY <1>0, FreeBounded
    <2>6. Cardinality(FreeFrames \ {0}) =
             IF 0 \in FreeFrames THEN Cardinality(FreeFrames) - 1 ELSE Cardinality(FreeFrames)
      BY <2>5, FS_RemoveElement
    <2> QED
      BY <1>0, <2>2, <2>3, <2>4, <2>5, <2>6 DEF KB
  <1>4. Usable(0)' <=> Usable(0)
    BY <1>1, UsableStable
  <1> QED
    BY <1>1, <1>2, <1>3, <1>4 DEF CountInv, Sound

\* Every step keeps hi_page_top above what it was computed from: the first
\* loop raises it, and placing the bitmap does not move the end of an entry.
LEMMA TopStep ==
  ASSUME TypeInv, TopInv, [Next]_vars
  PROVE  TopInv'
  <1>0. /\ mmap \in Seq(Entry) /\ DOMAIN mmap = 1 .. Len(mmap) /\ Len(mmap) \in Nat
        /\ i \in Nat /\ i # 0 /\ hi_page_top \in Nat /\ size \in Nat
    BY DEF TypeInv, TypeOK
  <1>a. \A k \in DOMAIN mmap : mmap[k] \in Entry
    BY <1>0
  <1>b. \A k \in DOMAIN mmap : mmap[k].base \in Nat /\ mmap[k].length \in Nat
    BY <1>a DEF Entry
  <1>1. CASE ScanEntry
    <2> DEFINE top == mmap[i].base + mmap[i].length
    <2>1. /\ pc = "scan" /\ i \in DOMAIN mmap /\ i' = i + 1 /\ UNCHANGED <<pc, mmap>>
          /\ hi_page_top' = IF Counted(mmap[i]) /\ top > hi_page_top
                            THEN top ELSE hi_page_top
      BY <1>0, <1>1 DEF ScanEntry, callVars
    <2>2. top \in Nat
      BY <1>b, <2>1
    <2>3. hi_page_top' >= hi_page_top /\ hi_page_top' \in Nat
          /\ (Counted(mmap[i]) => top <= hi_page_top')
      <3> HIDE DEF top
      <3> QED
        BY <1>0, <2>1, <2>2
    <2>4. ASSUME NEW k \in DOMAIN mmap, k < i', Counted(mmap[k])
          PROVE  mmap[k].base + mmap[k].length <= hi_page_top'
      <3>1. CASE k = i
        BY <2>3, <2>4, <3>1
      <3>2. CASE k # i
        <4>1. k < i
          BY <1>0, <2>1, <2>4, <3>2
        <4>2. mmap[k].base + mmap[k].length <= hi_page_top
          BY <2>1, <2>4, <4>1 DEF TopInv
        <4>3. mmap[k].base + mmap[k].length \in Nat
          BY <1>b
        <4> QED
          BY <1>0, <2>3, <4>2, <4>3
      <3> QED
        BY <3>1, <3>2
    <2> QED
      BY <2>1, <2>4 DEF TopInv, Counted
  <1>2. CASE ScanDone
    <2>1. pc = "scan" /\ i > Len(mmap) /\ pc' = "place" /\ UNCHANGED <<mmap, hi_page_top>>
      BY <1>2 DEF ScanDone, callVars
    <2>2. \A k \in DOMAIN mmap :
             mmap[k].type = "USABLE" => mmap[k].base + mmap[k].length <= hi_page_top
      BY <1>0, <2>1 DEF TopInv, Counted
    <2> QED
      BY <2>1, <2>2 DEF TopInv
  <1>3. CASE PlaceEntry /\ Fits(mmap[i])
    <2>1. /\ pc = "place" /\ pc' = "free" /\ UNCHANGED hi_page_top
          /\ i \in DOMAIN mmap /\ mmap' = [mmap EXCEPT ![i] = Shrunk(mmap[i])]
          /\ mmap[i].length >= size
      BY <1>0, <1>3 DEF PlaceEntry, FillBitmap, Fits, callVars
    <2>2. /\ Shrunk(mmap[i]).base = mmap[i].base + size
          /\ Shrunk(mmap[i]).length = mmap[i].length - size
          /\ Shrunk(mmap[i]).type = mmap[i].type
      BY <1>0, <1>a, <2>1, ShrunkEntry
    <2>3. Shrunk(mmap[i]).base + Shrunk(mmap[i]).length = mmap[i].base + mmap[i].length
      BY <1>0, <1>b, <2>1, <2>2
    <2>4. /\ DOMAIN mmap' = DOMAIN mmap
          /\ \A k \in DOMAIN mmap :
                /\ mmap'[k].type = mmap[k].type
                /\ mmap'[k].base + mmap'[k].length = mmap[k].base + mmap[k].length
      BY <1>0, <2>1, <2>2, <2>3
    <2> QED
      BY <2>1, <2>4 DEF TopInv
  <1>4. CASE (PlaceEntry /\ ~ Fits(mmap[i])) \/ PlaceNone \/ FreeEntry \/ FreeDone
    <2>1. UNCHANGED <<mmap, hi_page_top>> /\ pc # "scan" /\ pc' # "scan"
      BY <1>4 DEF PlaceEntry, PlaceNone, FillBitmap, FreeEntry, FreeDone, callVars
    <2> QED
      BY <2>1 DEF TopInv
  <1>5. CASE UNCHANGED bootVars
    BY <1>5 DEF TopInv, bootVars
  <1>6. CASE UNCHANGED vars
    BY <1>5, <1>6 DEF vars, callVars
  <1> QED
    BY <1>1, <1>2, <1>3, <1>4, <1>5, <1>6
    DEF Next, Boot, pmm_alloc, pmm_allocz, Allocate, pmm_free, pmm_free_NULL

\* The first loop and the placing of the bitmap.
LEMMA CountBoot ==
  ASSUME TypeInv, SafeInv, CountInv,
         ScanEntry \/ ScanDone \/ PlaceEntry \/ PlaceNone
  PROVE  CountInv'
  <1>0. /\ mmap \in Seq(Entry) /\ DOMAIN mmap = 1 .. Len(mmap) /\ Len(mmap) \in Nat
        /\ i \in Nat /\ i # 0 /\ MapBits \in Nat /\ hi_page_top \in Nat /\ size \in Nat
    BY MapBitsNat DEF TypeInv, TypeOK
  <1>1. TopInv' /\ ~ Sound'
    BY TopStep DEF CountInv, Next, Boot, Sound, ScanEntry, ScanDone, PlaceEntry,
                   PlaceNone, FillBitmap
  <1>2. CASE ScanEntry
    BY <1>1, <1>2 DEF CountInv, ScanEntry, callVars
  <1>3. CASE ScanDone \/ (PlaceEntry /\ ~ Fits(mmap[i]))
    BY <1>1, <1>3 DEF ScanDone, PlaceEntry, CountInv, callVars
  <1>4. CASE (PlaceEntry /\ Fits(mmap[i])) \/ PlaceNone
    <2>1. /\ pc = "place" /\ pc' = "free" /\ i' = 1 /\ used' = 0 .. (MapBits - 1)
          /\ UNCHANGED <<size, hi_page_top, used_page_cnt>>
      BY <1>4 DEF PlaceEntry, PlaceNone, FillBitmap, callVars
    <2>2. DOMAIN mmap' = DOMAIN mmap
      BY <1>0, <1>4 DEF PlaceEntry, PlaceNone, callVars
    <2>4. ASSUME Covered'
          PROVE  used_page_cnt + Cardinality(FreeFrames') = hi_page_top * KB
      <3>1. Cardinality(FreeFrames') = 0
        BY <2>1, <2>4, CountFilled
      <3>2. used_page_cnt = hi_page_top * KB /\ used_page_cnt \in Nat
        BY <2>1, WordAssumption DEF CountInv, TypeInv, TypeOK
      <3> QED
        BY <3>1, <3>2
    <2>5. \A k \in DOMAIN mmap' : ~ (k < i')
      BY <1>0, <2>1, <2>2
    <2> QED
      BY <1>1, <2>1, <2>4, <2>5 DEF CountInv
  <1> QED
    BY <1>2, <1>3, <1>4

\* Taking or giving back one page moves one unit between the two records.
LEMMA CountCalls ==
  ASSUME TypeInv, SafeInv, CountInv, Counts = {1}, NEW h \in Holders,
         pmm_alloc(h, 1) \/ pmm_allocz(h, 1) \/ pmm_free(h)
  PROVE  CountInv'
  <1>0. /\ MapBits \in Nat /\ hi_page_top \in Nat /\ WORD \in Nat
        /\ used_page_cnt \in 0 .. (WORD - 1) /\ hi_page_top * KB < WORD
    BY MapBitsNat, WordAssumption DEF TypeInv, TypeOK
  <1>1. /\ pc = "ready" /\ pc' = "ready"
        /\ UNCHANGED <<mmap, size, map, hi_page_top, null_frees>>
    BY DEF pmm_alloc, pmm_allocz, Allocate, pmm_free, bootVars
  <1>2. TopInv'
    BY <1>1 DEF CountInv, TopInv
  <1> DEFINE z == IF Usable(0) THEN 1 ELSE 0
  <1>3. ASSUME Sound', null_frees' = 0
        PROVE  used_page_cnt' + Cardinality(FreeFrames') = hi_page_top * KB - z
    <2>1. Sound /\ null_frees = 0
      BY <1>1, <1>3, SoundStable
    <2>2. ReadyInv /\ used_page_cnt + Cardinality(FreeFrames) = hi_page_top * KB - z
      BY <1>1, <2>1 DEF SafeInv, CountInv
    <2>3. /\ IsFiniteSet(FreeFrames) /\ Cardinality(FreeFrames) \in 0 .. hi_page_top
          /\ Cardinality(FreeFrames') \in 0 .. hi_page_top
      BY <1>0, <1>1, FreeBounded, FreeBoundedNext
    <2>4. z \in 0 .. 1
      OBVIOUS
    <2> DEFINE n == Cardinality(FreeFrames)
               u == used_page_cnt
    <2>5. CASE (pmm_alloc(h, 1) \/ pmm_allocz(h, 1)) /\ ret' = NULL
      <3>1. UNCHANGED <<used, used_page_cnt>>
        BY <2>1, <2>5, CallOne
      <3>2. FreeFrames' = FreeFrames
        BY <1>1, <3>1 DEF FreeFrames
      <3> QED
        BY <2>2, <3>1, <3>2
    <2>6. CASE (pmm_alloc(h, 1) \/ pmm_allocz(h, 1)) /\ ret' # NULL
      <3>1. ret' \in FreeFrames /\ used' = used \cup {ret'}
        BY <2>1, <2>6, CallOne
      <3>2. used_page_cnt' = Wrap(used_page_cnt + 1)
        BY <2>1, <2>6, CallOne
      <3>3. FreeFrames' = FreeFrames \ {ret'}
        BY <1>1, <3>1 DEF FreeFrames
      <3>4. Cardinality(FreeFrames') = Cardinality(FreeFrames) - 1
        BY <2>3, <3>1, <3>3, FS_RemoveElement
      <3> HIDE DEF z, n, u
      <3>5. /\ u \in Nat /\ n \in Nat /\ n >= 1 /\ u + n = hi_page_top * 1024 - z
            /\ u' = Wrap(u + 1) /\ hi_page_top * 1024 < WORD
        BY <1>0, <2>2, <2>3, <3>2, <3>4 DEF KB, n, u
      <3>6. u + 1 < WORD /\ u + 1 >= 0 /\ u + 1 + (n - 1) = hi_page_top * 1024 - z
        BY <1>0, <2>4, <3>5
      <3>7. u' = u + 1
        BY <1>0, <3>5, <3>6 DEF Wrap
      <3>8. u' + (n - 1) = hi_page_top * 1024 - z
        BY <3>6, <3>7
      <3> QED
        BY <3>4, <3>8 DEF KB, n, u
    <2>7. CASE pmm_free(h)
      <3>1. /\ used_page_cnt' = Wrap(used_page_cnt - holds[h].n)
            /\ used' = used \ Span(holds[h]) /\ holds[h] # NoAlloc
        BY <2>7 DEF pmm_free, bitmap_clear
      <3>2. OwnsOneFrame(h)
        BY <2>2, <3>1 DEF ReadyInv
      <3> DEFINE b == holds[h].base
      <3>3. Span(holds[h]) = {b} /\ holds[h].n = 1
        BY <3>2 DEF OwnsOneFrame, Span, TypeInv, TypeOK
      <3>4. b \in 1 .. (hi_page_top - 1) /\ b \in used
        BY <3>2 DEF OwnsOneFrame
      <3>5. FreeFrames' = FreeFrames \cup {b} /\ b \notin FreeFrames
        BY <1>0, <1>1, <3>1, <3>3, <3>4 DEF FreeFrames
      <3>6. Cardinality(FreeFrames') = Cardinality(FreeFrames) + 1
        BY <2>3, <3>5, FS_AddElement
      <3> HIDE DEF z, n, u, b
      <3>7. /\ u \in Nat /\ u < WORD /\ n \in Nat /\ n + 1 <= hi_page_top
            /\ u + n = hi_page_top * 1024 - z /\ u' = Wrap(u - 1) /\ hi_page_top >= 2
        BY <1>0, <2>2, <2>3, <3>1, <3>3, <3>4, <3>6 DEF KB, n, u
      <3>8. u - 1 >= 0 /\ u - 1 < WORD /\ u - 1 + (n + 1) = hi_page_top * 1024 - z
        BY <1>0, <2>4, <3>7
      <3>9. u' = u - 1
        BY <1>0, <3>7, <3>8 DEF Wrap
      <3>10. u' + (n + 1) = hi_page_top * 1024 - z
        BY <3>8, <3>9
      <3> QED
        BY <3>6, <3>10 DEF KB, n, u
    <2> QED
      BY <2>5, <2>6, <2>7
  <1>4. Usable(0)' <=> Usable(0)
    BY <1>1, UsableStable
  <1> QED
    BY <1>1, <1>2, <1>3, <1>4 DEF CountInv

\* When callers ask for single pages every step keeps the count.
LEMMA CountStep ==
  ASSUME Counts = {1}
  PROVE  TypeInv /\ SafeInv /\ CountInv /\ [Next]_vars => CountInv'
  <1> SUFFICES ASSUME TypeInv, SafeInv, CountInv, [Next]_vars PROVE CountInv'
    OBVIOUS
  <1>1. CASE Boot
    BY <1>1, CountBoot, CountFreeEntry, CountFreeDone DEF Boot
  <1>2. ASSUME NEW h \in Holders, NEW n \in Counts,
               pmm_alloc(h, n) \/ pmm_allocz(h, n)
        PROVE  CountInv'
    BY <1>2, CountCalls
  <1>3. ASSUME NEW h \in Holders, pmm_free(h) PROVE CountInv'
    BY <1>3, CountCalls
  <1>5. ASSUME NEW n \in Counts, pmm_free_NULL(n) PROVE CountInv'
    <2>1. /\ pc = "ready" /\ pc' = "ready" /\ UNCHANGED <<mmap, hi_page_top>>
          /\ null_frees' = null_frees + 1 /\ null_frees \in Nat
      BY <1>5 DEF pmm_free_NULL, bootVars, TypeInv, TypeOK
    <2>2. null_frees' # 0
      BY <2>1
    <2> QED
      BY <2>1, <2>2 DEF CountInv, TopInv
  <1>4. CASE UNCHANGED vars
    <2>1. UNCHANGED <<pc, i, mmap, hi_page_top, used_page_cnt, map, size, used, null_frees>>
      BY <1>4 DEF vars, bootVars, callVars
    <2>2. (Sound' <=> Sound) /\ (Covered' <=> Covered) /\ FreeFrames' = FreeFrames
      BY <2>1, SoundStable DEF FreeFrames
    <2>3. Usable(0)' <=> Usable(0)
      BY <2>1, UsableStable
    <2>4. TopInv'
      BY <2>1 DEF CountInv, TopInv
    <2> QED
      BY <2>1, <2>2, <2>3, <2>4 DEF CountInv, Frames
  <1> QED
    BY <1>1, <1>2, <1>3, <1>4, <1>5 DEF Next

\* Before the first loop there is nothing to count.
LEMMA CountInit == Init => CountInv
  <1> SUFFICES ASSUME Init PROVE CountInv
    OBVIOUS
  <1>1. mmap \in Seq(Entry) /\ i = 1 /\ pc = "scan"
    BY MemMapAssumption DEF Init
  <1>2. \A k \in DOMAIN mmap : ~ (k < i)
    BY <1>1
  <1> QED
    BY <1>1, <1>2 DEF CountInv, TopInv, Sound

\* used_page_cnt and the bitmap never drift apart while nobody frees NULL, when
\* callers ask for single pages, on every memory map that the bitmap covers and
\* in which pmm_init finds the bitmap a place other than frame 0.
THEOREM CountTracksBitmap ==
  ASSUME Counts = {1}
  PROVE  Spec => []UsedCountTracksBitmap
  <1>2. CountInv => UsedCountTracksBitmap
    <2>1. 0 \in UsableFrames <=> Usable(0)
      BY DEF UsableFrames, UsableEntries, Usable
    <2> QED
      BY <2>1 DEF CountInv, UsedCountTracksBitmap
  <1> QED
    BY <1>2, CountInit, TypeInit, SafeInit, TypeStep, SafeStep, CountStep, PTL DEF Spec

-----------------------------------------------------------------------------
(* The abstract allocator.                                                 *)

\* The unguarded memset of pmm_allocz touches frame 0 or the new page: nobody
\* owns either, and neither holds the bitmap if pmm_init left a sound allocator.
THEOREM ZeroFillIsSafe ==
  ASSUME Counts = {1}
  PROVE  Spec => ZeroFillSafe
  <1> DEFINE Harmless == \A h \in Holders, n \in Counts :
                            pmm_allocz(h, n) /\ Sound =>
                                zeroed' \cap (Held \cup BitmapFrames) = {}
  <1>1. TypeInv /\ SafeInv /\ [Next]_vars => [Harmless]_vars
    <2> SUFFICES ASSUME TypeInv, SafeInv, NEW h \in Holders, pmm_allocz(h, 1), Sound
                 PROVE  zeroed' \cap (Held \cup BitmapFrames) = {}
      OBVIOUS
    <2>1. /\ (FreeFrames \ {0}) \cap Held = {} /\ Held \subseteq UsableFrames \ {0}
      BY SafeImplies DEF FreeFramesAreSafe, HoldersExclusive
    <2>2. zeroed' = {ret'} /\ ret' \notin BitmapFrames
      BY CallOne
    <2>3. CASE ret' = NULL
      BY <2>1, <2>2, <2>3 DEF NULL
    <2>4. CASE ret' # NULL
      <3>1. ret' \in FreeFrames \ {0}
        BY <2>4, CallOne
      <3> QED
        BY <2>1, <2>2, <3>1
    <2> QED
      BY <2>3, <2>4
  <1> QED
    BY <1>1, TypeInit, SafeInit, TypeStep, SafeStep, PTL DEF Spec, ZeroFillSafe

\* In a bitmap that covers every frame, the scan for one page finds the frames
\* whose bits are clear.
LEMMA ScanOne ==
  ASSUME TypeInv, Covered, NEW junk \in Junk(1), NEW b \in 0 .. (hi_page_top - 1)
  PROVE  FreeAt(b, 1, junk) <=> b \in FreeFrames
  <1>0. MapBits \in Nat /\ hi_page_top \in Nat /\ hi_page_top <= MapBits
    BY MapBitsNat DEF TypeInv, TypeOK, Covered
  <1>1. 0 \div PAGE_SIZE = 0
    BY PageSizeAssumption
  <1>2. \A k \in 0 .. (1 - 1) : b + (k \div PAGE_SIZE) = b
    BY <1>1
  <1>3. b \notin junk
    BY <1>0 DEF Junk
  <1>4. FreeAt(b, 1, junk) <=> ~ bitmap_get(b, junk)
    BY <1>2 DEF FreeAt
  <1> QED
    BY <1>3, <1>4 DEF bitmap_get, FreeFrames

\* pmm_alloc(1) refuses only when no frame is free, if nobody has freed NULL:
\* used_page_cnt is not 0 while a frame is free, and the scan misses none.
LEMMA RefusedWhenFull ==
  ASSUME TypeInv, SafeInv, CountInv, Sound, null_frees = 0,
         NEW h \in Holders, Allocate(h, 1), ret' = NULL
  PROVE  FreeFrames = {}
  <1>0. MapBits \in Nat /\ hi_page_top \in Nat /\ hi_page_top <= MapBits
        /\ used_page_cnt \in Nat
    BY MapBitsNat, WordAssumption DEF TypeInv, TypeOK, Covered, Sound
  <1>1. Covered /\ ReadyInv
    BY DEF Sound, SafeInv
  <1>2. SUFFICES ASSUME NEW f \in FreeFrames PROVE FALSE
    OBVIOUS
  <1>3. f \in 0 .. (hi_page_top - 1) /\ f \notin used /\ hi_page_top >= 1
    BY <1>0 DEF FreeFrames
  <1>4. used_page_cnt > 0
    <2> DEFINE z == IF Usable(0) THEN 1 ELSE 0
               n == Cardinality(FreeFrames)
    <2>1. used_page_cnt + n = hi_page_top * KB - z
      BY <1>1 DEF CountInv
    <2>2. z \in 0 .. 1 /\ n \in 0 .. hi_page_top
      BY <1>0, FreeBounded
    <2> HIDE DEF z, n
    <2> QED
      BY <1>0, <1>3, <2>1, <2>2 DEF KB
  <1>5. PICK junk \in Junk(1) : get_ffp_range(1, junk, NULL)
    BY <1>0, <1>4 DEF Allocate
  <1>6. 0 \notin FreeFrames
    BY <1>1 DEF ReadyInv
  <1>7. \A b \in 0 .. (hi_page_top - 1) : FreeAt(b, 1, junk) <=> b \in FreeFrames
    BY <1>1, ScanOne
  <1> QED
    BY <1>0, <1>3, <1>5, <1>6, <1>7 DEF get_ffp_range, NULL

\* Once NULL has been freed the scan stops at frame 0, and nothing is granted.
LEMMA BrokenRefuses ==
  ASSUME TypeInv, SafeInv, Sound, null_frees > 0,
         NEW h \in Holders, Allocate(h, 1)
  PROVE  ret' = NULL
  <1>1. Covered /\ 0 \notin used /\ hi_page_top \in Nat
    BY DEF Sound, SafeInv, ReadyInv, TypeInv, TypeOK
  <1>2. SUFFICES ASSUME ret' # NULL PROVE FALSE
    OBVIOUS
  <1>3. PICK junk \in Junk(1), ptr \in 0 .. hi_page_top :
           get_ffp_range(1, junk, ptr) /\ ptr # NULL
    BY <1>2 DEF Allocate
  <1>4. /\ ptr \in 0 .. (hi_page_top - 1) /\ ptr # 0
        /\ \A f \in 0 .. (ptr - 1) : ~ FreeAt(f, 1, junk)
    BY <1>3 DEF get_ffp_range, NULL
  <1>5. 0 \in 0 .. (ptr - 1) /\ 0 \in 0 .. (hi_page_top - 1)
    BY <1>1, <1>4
  <1>6. 0 \in FreeFrames
    BY <1>1, <1>5 DEF FreeFrames
  <1>7. FreeAt(0, 1, junk)
    BY <1>1, <1>5, <1>6, ScanOne
  <1> QED
    BY <1>4, <1>5, <1>7

\* The initial state maps to the abstract initial state.
LEMMA RefineInit == Init => FA!Init
  BY DEF Init, Sound, FA!Init

\* A sound allocator's request for one page is granted or refused.
LEMMA RefineCall ==
  ASSUME TypeInv, SafeInv, CountInv, Sound, Counts = {1}, NEW h \in Holders,
         pmm_alloc(h, 1) \/ pmm_allocz(h, 1)
  PROVE  FA!Grant(h) \/ FA!Refuse(h)
  <1>1. /\ Allocate(h, 1) /\ pc = "ready" /\ pc' = "ready" /\ holds[h] = NoAlloc
        /\ UNCHANGED <<size, map, hi_page_top, null_frees>>
    BY DEF pmm_alloc, pmm_allocz, Allocate, bootVars
  <1>2. Sound' /\ holds[h].base = 0
    BY <1>1, SoundStable DEF NoAlloc, NULL
  <1>3. holds \in [Holders -> [base : Nat, n : 0 .. (WORD - 1)]] /\ null_frees \in Nat
    BY DEF TypeInv, TypeOK
  <1>4. CASE ret' = NULL
    <2>1. FreeFrames \ {0} = {} \/ null_frees > 0
      BY <1>1, <1>3, <1>4, RefusedWhenFull
    <2>2. UNCHANGED <<used, holds>>
      BY <1>4, CallOne
    <2>3. FreeFrames' = FreeFrames
      BY <1>1, <2>2 DEF FreeFrames
    <2>4. FA!Refuse(h)
      BY <1>1, <1>2, <1>4, <2>1, <2>2, <2>3 DEF FA!Refuse, NULL
    <2> QED
      BY <2>4
  <1>5. CASE ret' # NULL
    <2>1. /\ ret' \in FreeFrames \ {0} /\ used' = used \cup {ret'}
          /\ holds' = [holds EXCEPT ![h] = [base |-> ret', n |-> 1]]
      BY <1>5, CallOne
    <2>2. FreeFrames' \ {0} = (FreeFrames \ {0}) \ {ret'}
      BY <1>1, <2>1 DEF FreeFrames
    <2>3. [g \in Holders |-> holds'[g].base] =
             [[g \in Holders |-> holds[g].base] EXCEPT ![h] = ret']
      BY <1>3, <2>1
    <2>4. ~ (null_frees > 0)
      BY <1>1, <1>5, BrokenRefuses
    <2>5. FA!Grant(h)
      BY <1>1, <1>2, <2>1, <2>2, <2>3, <2>4 DEF FA!Grant
    <2> QED
      BY <2>5
  <1> QED
    BY <1>4, <1>5

\* Each step maps to a step of the abstract allocator or leaves its state.
LEMMA RefineStep ==
  ASSUME Counts = {1}
  PROVE  /\ TypeInv /\ SafeInv /\ CountInv /\ TypeInv' /\ SafeInv'
         /\ [Next]_vars
         => [FA!Next]_(FA!vars)
  <1> SUFFICES ASSUME TypeInv, SafeInv, CountInv, TypeInv', SafeInv', [Next]_vars
               PROVE  FA!Next \/ UNCHANGED (FA!vars)
    OBVIOUS
  <1>0. hi_page_top \in Nat /\ holds \in [Holders -> [base : Nat, n : 0 .. (WORD - 1)]]
    BY DEF TypeInv, TypeOK
  <1>1. ASSUME ~ Sound, ~ Sound' PROVE UNCHANGED (FA!vars)
    BY <1>1 DEF FA!vars, Sound
  <1>2. CASE FreeDone /\ Sound'
    <2>1. /\ pc = "free" /\ pc' = "ready" /\ ~ Sound
          /\ UNCHANGED <<holds, ret, null_frees, hi_page_top>>
      BY <1>2 DEF FreeDone, callVars, Sound
    <2>2. ret' = 0 /\ null_frees' = 0 /\ \A h \in Holders : holds'[h].base = 0
      BY <2>1 DEF SafeInv, NoAlloc, NULL
    <2>3. FreeFrames' \ {0} \in SUBSET (Nat \ {0})
      BY <1>0, <2>1 DEF FreeFrames
    <2>4. FA!Boot
      BY <1>2, <2>1, <2>2, <2>3 DEF FA!Boot
    <2> QED
      BY <2>4 DEF FA!Next
  <1>3. CASE Boot /\ ~ (FreeDone /\ Sound')
    <2>1. ~ Sound /\ ~ Sound'
      BY <1>3 DEF Sound, Boot, ScanEntry, ScanDone, PlaceEntry, PlaceNone,
                  FreeEntry, FreeDone, FillBitmap
    <2> QED
      BY <1>1, <2>1
  <1>4. ASSUME UNCHANGED <<pc, size, map, hi_page_top>>, ~ Sound
        PROVE  UNCHANGED (FA!vars)
    BY <1>1, <1>4, SoundStable
  <1>5. ASSUME NEW h \in Holders, NEW n \in Counts, pmm_alloc(h, n) \/ pmm_allocz(h, n)
        PROVE  FA!Next \/ UNCHANGED (FA!vars)
    <2>1. UNCHANGED <<pc, size, map, hi_page_top>>
      BY <1>5 DEF pmm_alloc, pmm_allocz, Allocate, bootVars
    <2>2. CASE Sound
      <3>1. FA!Grant(h) \/ FA!Refuse(h)
        BY <1>5, <2>2, RefineCall
      <3> QED
        BY <3>1 DEF FA!Next
    <2> QED
      BY <1>4, <2>1, <2>2
  <1>6. ASSUME NEW h \in Holders, pmm_free(h), Sound
        PROVE  FA!Release(h)
    <2>1. /\ pc = "ready" /\ pc' = "ready" /\ holds[h] # NoAlloc
          /\ UNCHANGED <<size, map, hi_page_top, ret, null_frees>>
          /\ used' = used \ Span(holds[h]) /\ holds' = [holds EXCEPT ![h] = NoAlloc]
      BY <1>6 DEF pmm_free, bootVars, bitmap_clear
    <2>2. OwnsOneFrame(h) /\ Sound'
      BY <1>6, <2>1, SoundStable DEF SafeInv, ReadyInv
    <2>3. Span(holds[h]) = {holds[h].base}
      BY <1>0, <2>2 DEF OwnsOneFrame, Span
    <2>4. holds[h].base \in 0 .. (hi_page_top - 1) /\ holds[h].base # 0
      BY <1>0, <2>2 DEF OwnsOneFrame
    <2>5. FreeFrames' \ {0} = (FreeFrames \ {0}) \cup {holds[h].base}
      BY <2>1, <2>3, <2>4 DEF FreeFrames
    <2>6. [g \in Holders |-> holds'[g].base] =
             [[g \in Holders |-> holds[g].base] EXCEPT ![h] = 0]
      BY <1>0, <2>1 DEF NoAlloc, NULL
    <2> QED
      BY <1>6, <2>1, <2>2, <2>4, <2>5, <2>6 DEF FA!Release
  <1>7. ASSUME NEW n \in Counts, pmm_free_NULL(n), Sound
        PROVE  FA!ReleaseNothing
    <2>1. /\ UNCHANGED <<pc, size, map, hi_page_top, ret, holds>>
          /\ used' = used \ (0 .. (1 - 1))
          /\ null_frees' = null_frees + 1 /\ null_frees \in Nat
      BY <1>7 DEF pmm_free_NULL, bootVars, bitmap_clear, TypeInv, TypeOK
    <2>2. Sound' /\ null_frees' > 0
      BY <1>7, <2>1, SoundStable
    <2>3. FreeFrames' \ {0} = FreeFrames \ {0}
      BY <2>1 DEF FreeFrames
    <2> QED
      BY <1>7, <2>1, <2>2, <2>3 DEF FA!ReleaseNothing
  <1>8. ASSUME NEW h \in Holders, pmm_free(h), ~ Sound
        PROVE  UNCHANGED (FA!vars)
    BY <1>4, <1>8 DEF pmm_free, bootVars
  <1>9. ASSUME NEW n \in Counts, pmm_free_NULL(n), ~ Sound
        PROVE  UNCHANGED (FA!vars)
    BY <1>4, <1>9 DEF pmm_free_NULL, bootVars
  <1>10. CASE UNCHANGED vars
    <2>1. UNCHANGED <<pc, size, map, hi_page_top, used, holds, ret, null_frees>>
      BY <1>10 DEF vars, bootVars, callVars
    <2>2. (Sound' <=> Sound) /\ FreeFrames' = FreeFrames
      BY <2>1, SoundStable DEF FreeFrames
    <2> QED
      BY <2>1, <2>2 DEF FA!vars
  <1> QED
    BY <1>2, <1>3, <1>5, <1>6, <1>7, <1>8, <1>9, <1>10 DEF Next, FA!Next

\* When callers ask for single pages, what pmm_init leaves behaves as the
\* abstract allocator, on every memory map that leaves it sound: a frame is free
\* or owned by one caller, and a request is refused only when no frame is free
\* or somebody has freed NULL, from when on every request is refused.
THEOREM ImplementsFrameAllocator ==
  ASSUME Counts = {1}
  PROVE  Spec => RefinesFrameAllocator
  <1>1. Spec => [](TypeInv /\ SafeInv /\ CountInv)
    BY CountInit, TypeInit, SafeInit, TypeStep, SafeStep, CountStep, PTL DEF Spec
  <1> QED
    BY <1>1, RefineInit, RefineStep, PTL DEF Spec, RefinesFrameAllocator, FA!Spec

-----------------------------------------------------------------------------
(* used_page_cnt and the pages owned, for requests of any length.          *)

\* The usable frames of the entries the third loop has passed.
FreedFrames ==
    UNION {Frames(mmap[k]) : k \in {j \in DOMAIN mmap : j < i /\ mmap[j].type = "USABLE"}}

\* The pages of the allocations a[h], each counted once for every owner.
PagesOf(a) == UNION {{h} \X (1 .. a[h].n) : h \in Holders}
HeldPages == PagesOf(holds)

\* The inductive invariant behind the count: what the third loop takes off is
\* the frames of the entries it has passed, which do not overlap, and what the
\* calls add and take off is the pages of their owner.
HeldInv(N) ==
    /\ TopInv
    /\ Disjoint(mmap)
    /\ \A h \in Holders : holds[h].n \in 0 .. N
    /\ pc # "ready" => \A h \in Holders : holds[h] = NoAlloc
    /\ hi_page_top * KB + Cardinality(Holders) * N < WORD
    /\ pc = "place" => used_page_cnt = hi_page_top * KB
    /\ pc = "free" => used_page_cnt + Cardinality(FreedFrames) = hi_page_top * KB
    /\ pc = "ready" /\ null_frees = 0 =>
          used_page_cnt + Cardinality(UsableFrames) =
              hi_page_top * KB + Cardinality(HeldPages)

\* No requests of up to N pages by every holder overflow used_page_cnt.
FitsWord(N) ==
    /\ Cardinality(Holders) * N < WORD
    /\ \A m \in MemMaps : \A k \in DOMAIN m :
          (m[k].base + m[k].length) * KB + Cardinality(Holders) * N < WORD

\* The usable frames lie below hi_page_top: they are at most that many, and
\* so are those of the entries the third loop has passed.
LEMMA UsableBelowTop ==
  ASSUME TypeInv, TopInv, pc # "scan"
  PROVE  /\ FreedFrames \subseteq UsableFrames
         /\ IsFiniteSet(UsableFrames) /\ Cardinality(UsableFrames) \in 0 .. hi_page_top
         /\ IsFiniteSet(FreedFrames) /\ Cardinality(FreedFrames) \in 0 .. hi_page_top
  <1>0. mmap \in Seq(Entry) /\ hi_page_top \in Nat
    BY DEF TypeInv, TypeOK
  <1>a. \A k \in DOMAIN mmap : mmap[k] \in Entry
    BY <1>0
  <1>b. \A k \in DOMAIN mmap : mmap[k].base \in Nat /\ mmap[k].length \in Nat
    BY <1>a DEF Entry
  <1>1. ASSUME NEW f \in UsableFrames PROVE f \in 0 .. (hi_page_top - 1)
    <2>1. PICK k \in DOMAIN mmap : mmap[k].type = "USABLE" /\ f \in Frames(mmap[k])
      BY DEF UsableFrames, UsableEntries
    <2>2. mmap[k].base + mmap[k].length <= hi_page_top
      BY <2>1 DEF TopInv
    <2>3. mmap[k].base \in Nat /\ mmap[k].length \in Nat
      BY <1>b
    <2> QED
      BY <1>0, <2>1, <2>2, <2>3 DEF Frames
  <1>2. FreedFrames \subseteq UsableFrames
    BY DEF FreedFrames, UsableFrames, UsableEntries
  <1>3. /\ UsableFrames \in SUBSET (0 .. (hi_page_top - 1))
        /\ FreedFrames \in SUBSET (0 .. (hi_page_top - 1))
    BY <1>1, <1>2
  <1> QED
    BY <1>0, <1>2, <1>3, BoundedSet

\* The same, one step later.
LEMMA UsableBelowTopNext ==
  ASSUME TypeInv', TopInv', pc' # "scan"
  PROVE  Cardinality(FreedFrames') \in 0 .. hi_page_top'
  <1>0. mmap' \in Seq(Entry) /\ hi_page_top' \in Nat
    BY DEF TypeInv, TypeOK
  <1>a. \A k \in DOMAIN mmap' : mmap'[k] \in Entry
    BY <1>0
  <1>b. \A k \in DOMAIN mmap' : mmap'[k].base \in Nat /\ mmap'[k].length \in Nat
    BY <1>a DEF Entry
  <1>1. ASSUME NEW f \in FreedFrames' PROVE f \in 0 .. (hi_page_top' - 1)
    <2>1. PICK k \in DOMAIN mmap' : /\ mmap'[k].type = "USABLE"
                                    /\ f \in mmap'[k].base ..
                                              (mmap'[k].base + mmap'[k].length - 1)
      BY DEF FreedFrames, Frames
    <2>2. mmap'[k].base + mmap'[k].length <= hi_page_top'
      BY <2>1 DEF TopInv
    <2>3. mmap'[k].base \in Nat /\ mmap'[k].length \in Nat
      BY <1>b, <2>1
    <2> DEFINE b == mmap'[k].base
               l == mmap'[k].length
               t == hi_page_top'
    <2>4. f \in b .. (b + l - 1) /\ b + l <= t /\ b \in Nat /\ l \in Nat /\ t \in Nat
      BY <1>0, <2>1, <2>2, <2>3
    <2> HIDE DEF b, l, t
    <2>5. f \in 0 .. (t - 1)
      BY <2>4
    <2> QED
      BY <2>5 DEF t
  <1>2. FreedFrames' \in SUBSET (0 .. (hi_page_top' - 1))
    BY <1>1
  <1> QED
    BY <1>0, <1>2, BoundedSet

\* An interval of n numbers has n members.
LEMMA IntervalCount ==
  ASSUME NEW b \in Nat, NEW n \in Nat
  PROVE  IsFiniteSet(b .. (b + n - 1)) /\ Cardinality(b .. (b + n - 1)) = n
  <1>1. b + n - 1 \in Int
    OBVIOUS
  <1>2. /\ IsFiniteSet(b .. (b + n - 1))
        /\ Cardinality(b .. (b + n - 1)) =
              IF b > b + n - 1 THEN 0 ELSE (b + n - 1) - b + 1
    BY <1>1, FS_Interval
  <1> QED
    BY <1>2

\* There are n numbers from 1 to n.
LEMMA CountTo ==
  ASSUME NEW n \in Nat
  PROVE  IsFiniteSet(1 .. n) /\ Cardinality(1 .. n) = n
  <1>1. /\ IsFiniteSet(1 .. n)
        /\ Cardinality(1 .. n) = IF 1 > n THEN 0 ELSE n - 1 + 1
    BY FS_Interval
  <1> QED
    BY <1>1

\* The lengths of the usable entries add up to the number of usable frames.
LEMMA UsableSum ==
  ASSUME TypeInv, Disjoint(mmap)
  PROVE  MapThenSumSet(LAMBDA k : mmap[k].length, UsableEntries) = Cardinality(UsableFrames)
  <1> DEFINE U == UsableEntries
             D == [k \in U |-> Frames(mmap[k])]
             W == [k \in U |-> mmap[k].length]
             Step(g) == [s \in SUBSET U |->
                           IF s = {} THEN 0
                           ELSE mmap[CHOOSE x \in s : TRUE].length
                                  + g[s \ {CHOOSE x \in s : TRUE}]]
             G == CHOOSE g : g = Step(g)
  <1>0. mmap \in Seq(Entry) /\ DOMAIN mmap = 1 .. Len(mmap) /\ Len(mmap) \in Nat
    BY DEF TypeInv, TypeOK
  <1>a. \A k \in U : mmap[k] \in Entry
    BY <1>0 DEF UsableEntries
  <1>b. \A k \in U : mmap[k].base \in Nat /\ mmap[k].length \in Nat
    BY <1>a DEF Entry
  <1>1. IsFiniteSet(U)
    <2>1. U \in SUBSET (1 .. Len(mmap))
      BY <1>0 DEF UsableEntries
    <2> HIDE DEF U
    <2> QED
      BY <1>0, <2>1, PlacesFinite
  <1>2. \A k \in U : IsFiniteSet(D[k]) /\ W[k] = Cardinality(D[k])
    <2> TAKE k \in U
    <2>1. D[k] = mmap[k].base .. (mmap[k].base + mmap[k].length - 1)
      BY DEF Frames
    <2>2. W[k] = mmap[k].length
      OBVIOUS
    <2> HIDE DEF D, W, U
    <2> QED
      BY <1>b, <2>1, <2>2, IntervalCount
  <1>3. \A j, k \in U : j # k => D[j] \cap D[k] = {}
    BY DEF Disjoint, UsableEntries
  <1>4. \A g : Step(g) = SumStep(g, W, U)
    <2> TAKE g
    <2>1. \A s \in SUBSET U : s # {} => W[CHOOSE x \in s : TRUE] = mmap[CHOOSE x \in s : TRUE].length
      <3> TAKE s \in SUBSET U
      <3> HAVE s # {}
      <3> DEFINE c == CHOOSE x \in s : TRUE
      <3>1. c \in s
        OBVIOUS
      <3>2. c \in U
        BY <3>1
      <3> HIDE DEF c, U
      <3>3. W[c] = mmap[c].length
        BY <3>2
      <3> QED
        BY <3>3 DEF c
    <2> HIDE DEF W, U
    <2> QED
      BY <2>1 DEF SumStep
  <1> HIDE DEF D, W, U
  <1>5. /\ \E h : h = SumStep(h, W, U)
        /\ \A g : g = SumStep(g, W, U) => g[U] = Cardinality(Joined(D, U))
    BY <1>1, <1>2, <1>3, SumOfSizes
  <1>6. G = Step(G)
    <2>1. \E h : h = Step(h)
      <3> HIDE DEF Step
      <3> QED
        BY <1>4, <1>5
    <2> HIDE DEF Step
    <2> QED
      BY <2>1, Zenon
  <1>7. MapThenSumSet(LAMBDA k : mmap[k].length, U) = G[U]
    BY Zenon DEF MapThenSumSet, MapThenFoldSet
  <1>8. G[U] = Cardinality(Joined(D, U))
    <2> HIDE DEF G, Step
    <2> QED
      BY <1>4, <1>5, <1>6
  <1>9. Joined(D, U) = UsableFrames
    BY DEF Joined, D, U, UsableFrames
  <1>10. MapThenSumSet(LAMBDA k : mmap[k].length, U)
           = MapThenSumSet(LAMBDA k : mmap[k].length, UsableEntries)
    BY DEF U
  <1> HIDE DEF G
  <1> QED
    BY <1>7, <1>8, <1>9, <1>10

\* The pages of finitely many holders are finitely many, and the counts of
\* the holders add up to their number.
LEMMA HeldSum ==
  ASSUME TypeInv, IsFiniteSet(Holders)
  PROVE  /\ IsFiniteSet(HeldPages) /\ Cardinality(HeldPages) \in Nat
         /\ MapThenSumSet(LAMBDA h : holds[h].n, Holders) = Cardinality(HeldPages)
  <1> DEFINE D == [h \in Holders |-> {h} \X (1 .. holds[h].n)]
             W == [h \in Holders |-> holds[h].n]
             Step(g) == [s \in SUBSET Holders |->
                           IF s = {} THEN 0
                           ELSE holds[CHOOSE x \in s : TRUE].n
                                  + g[s \ {CHOOSE x \in s : TRUE}]]
             G == CHOOSE g : g = Step(g)
  <1>0. \A h \in Holders : holds[h].n \in Nat
    BY WordAssumption DEF TypeInv, TypeOK
  <1>2. \A h \in Holders : IsFiniteSet(D[h]) /\ W[h] = Cardinality(D[h])
    <2> TAKE h \in Holders
    <2> DEFINE n == holds[h].n
    <2>1. D[h] = {h} \X (1 .. n) /\ W[h] = n /\ n \in Nat
      BY <1>0
    <2> HIDE DEF n, D, W
    <2>2. IsFiniteSet(1 .. n) /\ Cardinality(1 .. n) = n
      BY <2>1, CountTo
    <2>3. IsFiniteSet({h}) /\ Cardinality({h}) = 1
      BY FS_Singleton
    <2>4. /\ IsFiniteSet({h} \X (1 .. n))
          /\ Cardinality({h} \X (1 .. n)) = Cardinality({h}) * Cardinality(1 .. n)
      BY <2>2, <2>3, FS_Product
    <2>5. Cardinality({h} \X (1 .. n)) = n
      BY <2>1, <2>2, <2>3, <2>4
    <2> QED
      BY <2>1, <2>4, <2>5
  <1>3. \A g, h \in Holders : g # h => D[g] \cap D[h] = {}
    OBVIOUS
  <1>4. \A g : Step(g) = SumStep(g, W, Holders)
    <2> TAKE g
    <2>1. \A s \in SUBSET Holders :
             s # {} => W[CHOOSE x \in s : TRUE] = holds[CHOOSE x \in s : TRUE].n
      <3> TAKE s \in SUBSET Holders
      <3> HAVE s # {}
      <3> DEFINE c == CHOOSE x \in s : TRUE
      <3>1. c \in s
        OBVIOUS
      <3>2. c \in Holders
        BY <3>1
      <3> HIDE DEF c
      <3>3. W[c] = holds[c].n
        BY <3>2
      <3> QED
        BY <3>3 DEF c
    <2> HIDE DEF W
    <2> QED
      BY <2>1 DEF SumStep
  <1> HIDE DEF D, W
  <1>5. /\ \E h : h = SumStep(h, W, Holders)
        /\ \A g : g = SumStep(g, W, Holders) => g[Holders] = Cardinality(Joined(D, Holders))
    BY <1>2, <1>3, SumOfSizes
  <1>6. G = Step(G)
    <2>1. \E h : h = Step(h)
      <3> HIDE DEF Step
      <3> QED
        BY <1>4, <1>5
    <2> HIDE DEF Step
    <2> QED
      BY <2>1, Zenon
  <1>7. MapThenSumSet(LAMBDA h : holds[h].n, Holders) = G[Holders]
    BY Zenon DEF MapThenSumSet, MapThenFoldSet
  <1>8. G[Holders] = Cardinality(Joined(D, Holders))
    <2> HIDE DEF G, Step
    <2> QED
      BY <1>4, <1>5, <1>6
  <1>9. Joined(D, Holders) = HeldPages
    BY DEF Joined, D, HeldPages, PagesOf
  <1>10. IsFiniteSet(Joined(D, Holders)) /\ Cardinality(Joined(D, Holders)) \in Nat
    BY <1>2, <1>3, JoinedCount
  <1> HIDE DEF G
  <1> QED
    BY <1>7, <1>8, <1>9, <1>10

\* Holders of up to N pages each own at most N pages each.
LEMMA HeldBound ==
  ASSUME IsFiniteSet(Holders), NEW N \in Nat, NEW a, \A h \in Holders : a[h].n \in 0 .. N
  PROVE  Cardinality(PagesOf(a)) <= Cardinality(Holders) * N
  <1>1. IsFiniteSet(1 .. N) /\ Cardinality(1 .. N) = N
    BY CountTo
  <1>2. /\ IsFiniteSet(Holders \X (1 .. N))
        /\ Cardinality(Holders \X (1 .. N)) = Cardinality(Holders) * N
    BY <1>1, FS_Product
  <1>3. \A h \in Holders : 1 .. a[h].n \subseteq 1 .. N
    OBVIOUS
  <1>4. PagesOf(a) \in SUBSET (Holders \X (1 .. N))
    BY <1>3 DEF PagesOf
  <1>5. Cardinality(PagesOf(a)) <= Cardinality(Holders \X (1 .. N))
    BY <1>2, <1>4, FS_Subset
  <1> QED
    BY <1>2, <1>5

\* One holder's pages are not another's: two records of what is owned that
\* differ in one holder, who has nothing in a and n pages in b, differ by n.
LEMMA HeldGrows ==
  ASSUME NEW h \in Holders, NEW n \in Nat, NEW a, NEW b,
         IsFiniteSet(PagesOf(a)), a[h].n = 0, b[h].n = n,
         \A g \in Holders : g # h => b[g].n = a[g].n
  PROVE  Cardinality(PagesOf(b)) = Cardinality(PagesOf(a)) + n
  <1> DEFINE P == {h} \X (1 .. n)
  <1>1. {h} \X (1 .. a[h].n) = {}
    <2>1. 1 .. 0 = {}
      OBVIOUS
    <2> QED
      BY <2>1
  <1>2. PagesOf(b) = PagesOf(a) \cup P
    <2>1. PagesOf(a) \cup P \subseteq PagesOf(b)
      BY <1>1 DEF PagesOf
    <2>2. PagesOf(b) \subseteq PagesOf(a) \cup P
      BY DEF PagesOf
    <2> QED
      BY <2>1, <2>2
  <1>3. PagesOf(a) \cap P = {}
    BY <1>1 DEF PagesOf
  <1>4. IsFiniteSet(P) /\ Cardinality(P) = n
    <2>1. IsFiniteSet(1 .. n) /\ Cardinality(1 .. n) = n
      BY CountTo
    <2>2. IsFiniteSet({h}) /\ Cardinality({h}) = 1
      BY FS_Singleton
    <2>3. IsFiniteSet(P) /\ Cardinality(P) = Cardinality({h}) * Cardinality(1 .. n)
      BY <2>1, <2>2, FS_Product
    <2> HIDE DEF P
    <2> QED
      BY <2>1, <2>2, <2>3
  <1> HIDE DEF P
  <1> QED
    BY <1>2, <1>3, <1>4, DisjointCount

\* pmm_init keeps the count: the third loop takes off each entry's frames.
LEMMA HeldBoot ==
  ASSUME NEW N \in Nat, IsFiniteSet(Holders), FitsWord(N), TypeInv, HeldInv(N), Boot
  PROVE  HeldInv(N)'
  <1>0. /\ mmap \in Seq(Entry) /\ DOMAIN mmap = 1 .. Len(mmap) /\ Len(mmap) \in Nat
        /\ i \in Nat /\ i # 0 /\ hi_page_top \in Nat /\ size \in Nat
        /\ used_page_cnt \in 0 .. (WORD - 1) /\ WORD \in Nat
        /\ holds \in [Holders -> [base : Nat, n : 0 .. (WORD - 1)]]
    BY WordAssumption DEF TypeInv, TypeOK
  <1>a. \A k \in DOMAIN mmap : mmap[k] \in Entry
    BY <1>0
  <1>b. \A k \in DOMAIN mmap : mmap[k].base \in Nat /\ mmap[k].length \in Nat
    BY <1>a DEF Entry
  <1>1. TopInv'
    BY TopStep DEF HeldInv, Next
  <1>2. /\ holds' = holds
        /\ \A h \in Holders : holds[h].n \in 0 .. N
        /\ pc # "ready" /\ \A h \in Holders : holds[h] = NoAlloc
    BY DEF HeldInv, Boot, ScanEntry, ScanDone, PlaceEntry, PlaceNone, FreeEntry, FreeDone, callVars
  <1>3. Disjoint(mmap)'
    <2>1. CASE PlaceEntry /\ Fits(mmap[i])
      BY <2>1, PlaceSafe DEF HeldInv
    <2>2. CASE ~ (PlaceEntry /\ Fits(mmap[i]))
      <3>1. mmap' = mmap
        BY <2>2 DEF Boot, ScanEntry, ScanDone, PlaceEntry, PlaceNone, FreeEntry, FreeDone, callVars
      <3> QED
        BY <3>1 DEF HeldInv, Disjoint, Frames
    <2> QED
      BY <2>1, <2>2
  <1> DEFINE M == Cardinality(Holders) * N
  <1>4. hi_page_top' * KB + M < WORD
    <2>1. hi_page_top * KB + M < WORD
      BY DEF HeldInv
    <2>2. CASE ScanEntry
      <3> DEFINE top == mmap[i].base + mmap[i].length
      <3>1. pc = "scan" /\ i \in DOMAIN mmap /\ (hi_page_top' = hi_page_top \/ hi_page_top' = top)
        BY <1>0, <2>2 DEF ScanEntry, callVars
      <3>2. top * KB + M < WORD
        BY <3>1 DEF TypeInv, FitsWord
      <3> HIDE DEF top, M
      <3> QED
        BY <2>1, <3>1, <3>2
    <2>3. CASE ~ ScanEntry
      <3>1. hi_page_top' = hi_page_top
        BY <2>3 DEF Boot, ScanDone, PlaceEntry, PlaceNone, FreeEntry, FreeDone, callVars
      <3> QED
        BY <2>1, <3>1
    <2> QED
      BY <2>2, <2>3
  <1>5. /\ \A h \in Holders : holds'[h].n \in 0 .. N
        /\ \A h \in Holders : holds'[h] = NoAlloc'
    BY <1>2 DEF NoAlloc, NULL
  <1>6. ASSUME /\ pc' = "place" => used_page_cnt' = hi_page_top' * KB
               /\ pc' = "free" =>
                     used_page_cnt' + Cardinality(FreedFrames') = hi_page_top' * KB
               /\ pc' = "ready" /\ null_frees' = 0 =>
                     used_page_cnt' + Cardinality(UsableFrames') =
                         hi_page_top' * KB + Cardinality(HeldPages')
        PROVE  HeldInv(N)'
    BY <1>1, <1>3, <1>4, <1>5, <1>6 DEF HeldInv, KB, NoAlloc, NULL
  <1>7. CASE ScanEntry
    <2>1. pc' = "scan"
      BY <1>7 DEF ScanEntry, callVars
    <2> QED
      BY <1>6, <2>1
  <1>8. CASE ScanDone \/ (PlaceEntry /\ ~ Fits(mmap[i]))
    <2>1. pc' = "place" /\ used_page_cnt' = hi_page_top' * KB
      BY <1>8 DEF ScanDone, PlaceEntry, HeldInv, callVars
    <2> QED
      BY <1>6, <2>1
  <1>9. CASE (PlaceEntry /\ Fits(mmap[i])) \/ PlaceNone
    <2>1. /\ pc = "place" /\ pc' = "free" /\ i' = 1
          /\ UNCHANGED <<hi_page_top, used_page_cnt>> /\ DOMAIN mmap' = DOMAIN mmap
      BY <1>0, <1>9 DEF PlaceEntry, PlaceNone, FillBitmap, callVars
    <2>2. \A k \in DOMAIN mmap' : ~ (k < i')
      BY <1>0, <2>1
    <2>3. FreedFrames' = {}
      BY <2>2 DEF FreedFrames
    <2>4. Cardinality(FreedFrames') = 0
      BY <2>3, FS_EmptySet
    <2>5. used_page_cnt' + Cardinality(FreedFrames') = hi_page_top' * KB
      <3>1. used_page_cnt' = hi_page_top' * KB /\ used_page_cnt' \in Int
        BY <1>0, <2>1 DEF HeldInv
      <3> QED
        BY <2>4, <3>1
    <2> QED
      BY <1>6, <2>1, <2>5
  <1>10. CASE FreeEntry
    <2>1. /\ pc = "free" /\ i \in DOMAIN mmap /\ i' = i + 1
          /\ UNCHANGED <<pc, mmap, hi_page_top>>
      BY <1>0, <1>10 DEF FreeEntry, callVars
    <2>2. used_page_cnt + Cardinality(FreedFrames) = hi_page_top * KB
      BY <2>1 DEF HeldInv
    <2> DEFINE e == mmap[i]
    <2>3. CASE e.type # "USABLE"
      <3>1. used_page_cnt' = used_page_cnt
        BY <1>10, <2>3 DEF FreeEntry, callVars
      <3>2. \A k \in DOMAIN mmap :
               k < i' /\ mmap[k].type = "USABLE" <=> k < i /\ mmap[k].type = "USABLE"
        BY <1>0, <2>1, <2>3
      <3>3. FreedFrames' = FreedFrames
        BY <2>1, <3>2 DEF FreedFrames, Frames
      <3> QED
        BY <1>6, <2>1, <2>2, <3>1, <3>3
    <2>4. CASE e.type = "USABLE"
      <3>1. used_page_cnt' = Wrap(used_page_cnt - e.length)
        BY <1>10, <2>4 DEF FreeEntry, callVars
      <3>2. \A k \in DOMAIN mmap :
               k < i' /\ mmap[k].type = "USABLE" <=>
                  k = i \/ (k < i /\ mmap[k].type = "USABLE")
        BY <1>0, <2>1, <2>4
      <3>3. FreedFrames' = FreedFrames \cup Frames(e)
        <4>1. FreedFrames' = UNION {Frames(mmap[k]) :
                 k \in {j \in DOMAIN mmap : j < i' /\ mmap[j].type = "USABLE"}}
          BY <2>1 DEF FreedFrames, Frames
        <4> QED
          BY <2>1, <2>4, <3>2, <4>1 DEF FreedFrames
      <3>4. FreedFrames \cap Frames(e) = {}
        <4>1. ASSUME NEW k \in DOMAIN mmap, k < i, mmap[k].type = "USABLE"
              PROVE  Frames(mmap[k]) \cap Frames(e) = {}
          <5>1. k # i
            BY <1>0, <2>1, <4>1
          <5> QED
            BY <2>1, <2>4, <4>1, <5>1 DEF HeldInv, Disjoint
        <4> QED
          BY <4>1 DEF FreedFrames
      <3>5. IsFiniteSet(Frames(e)) /\ Cardinality(Frames(e)) = e.length
        BY <1>b, <2>1, IntervalCount DEF Frames
      <3>6. IsFiniteSet(FreedFrames) /\ Cardinality(FreedFrames) \in Nat
        BY <1>0, <2>1, UsableBelowTop DEF HeldInv
      <3>7. Cardinality(FreedFrames') = Cardinality(FreedFrames) + e.length
        BY <3>3, <3>4, <3>5, <3>6, DisjointCount
      <3>8. Cardinality(FreedFrames') <= hi_page_top
        <4>1. TypeInv'
          BY TypeStep DEF Next
        <4>2. pc' # "scan"
          BY <2>1
        <4>3. Cardinality(FreedFrames') \in 0 .. hi_page_top'
          BY <1>1, <4>1, <4>2, UsableBelowTopNext
        <4> QED
          BY <1>0, <2>1, <4>3
      <3> DEFINE c == Cardinality(FreedFrames)
                 l == e.length
                 u == used_page_cnt
                 H == hi_page_top
      <3>9. /\ u \in Nat /\ u < WORD /\ l \in Nat /\ c \in Nat /\ c + l <= H /\ H \in Nat
            /\ u + c = H * 1024 /\ u' = Wrap(u - l)
        BY <1>0, <1>b, <2>1, <2>2, <3>1, <3>6, <3>7, <3>8 DEF KB
      <3> HIDE DEF c, l, u, H
      <3>10. u - l >= 0 /\ u - l < WORD /\ u - l + (c + l) = H * 1024
        BY <1>0, <3>9
      <3>11. u' = u - l
        BY <1>0, <3>9, <3>10 DEF Wrap
      <3>12. u' + (c + l) = H * 1024
        BY <3>10, <3>11
      <3>13. used_page_cnt' + Cardinality(FreedFrames') = hi_page_top' * KB
        BY <2>1, <3>7, <3>12 DEF c, l, u, H, KB
      <3> QED
        BY <1>6, <2>1, <3>13
    <2> QED
      BY <2>3, <2>4
  <1>11. CASE FreeDone
    <2>1. /\ pc = "free" /\ pc' = "ready" /\ i > Len(mmap)
          /\ UNCHANGED <<mmap, hi_page_top, used_page_cnt>>
      BY <1>11 DEF FreeDone, callVars
    <2>2. used_page_cnt + Cardinality(FreedFrames) = hi_page_top * KB
      BY <2>1 DEF HeldInv
    <2>3. UsableFrames' = FreedFrames
      <3>1. \A k \in DOMAIN mmap : k < i
        BY <1>0, <2>1
      <3>2. UsableFrames' = UsableFrames
        BY <2>1 DEF UsableFrames, UsableEntries, Frames
      <3> QED
        BY <3>1, <3>2 DEF UsableFrames, UsableEntries, FreedFrames
    <2>4. HeldPages' = {}
      <3>1. \A h \in Holders : holds'[h].n = 0
        BY <1>2 DEF NoAlloc
      <3>2. 1 .. 0 = {}
        OBVIOUS
      <3> QED
        BY <3>1, <3>2 DEF HeldPages, PagesOf
    <2>5. Cardinality(HeldPages') = 0
      BY <2>4, FS_EmptySet
    <2>6. used_page_cnt' + Cardinality(UsableFrames') =
             hi_page_top' * KB + Cardinality(HeldPages')
      <3>1. hi_page_top * KB \in Int
        BY <1>0 DEF KB
      <3> QED
        BY <2>1, <2>2, <2>3, <2>5, <3>1
    <2> QED
      BY <1>6, <2>1, <2>6
  <1> QED
    BY <1>7, <1>8, <1>9, <1>10, <1>11 DEF Boot

\* A call adds to used_page_cnt, or takes off, the pages its holder gains or
\* gives back; the sum stays below the size of the word.
LEMMA HeldCalls ==
  ASSUME NEW N \in Nat, IsFiniteSet(Holders), TypeInv, HeldInv(N),
         null_frees = 0, NEW h \in Holders, NEW n \in 0 .. N,
         Allocate(h, n) \/ pmm_free(h)
  PROVE  HeldInv(N)'
  <1>0. /\ hi_page_top \in Nat /\ WORD \in Nat
        /\ used_page_cnt \in 0 .. (WORD - 1)
        /\ holds \in [Holders -> [base : Nat, n : 0 .. (WORD - 1)]]
        /\ n \in 0 .. N /\ Cardinality(Holders) \in Nat
    BY WordAssumption, FS_CardinalityType DEF TypeInv, TypeOK
  <1>1. pc = "ready" /\ pc' = "ready" /\ UNCHANGED <<mmap, hi_page_top, i>>
    BY DEF Allocate, pmm_free, bootVars
  <1>2. TopInv' /\ Disjoint(mmap)' /\ UsableFrames' = UsableFrames
    BY <1>1 DEF HeldInv, TopInv, Disjoint, Frames, UsableFrames, UsableEntries
  <1> DEFINE M == Cardinality(Holders) * N
             c == Cardinality(UsableFrames)
             p == Cardinality(PagesOf(holds))
             u == used_page_cnt
             H == hi_page_top
  <1>3. u + c = H * KB + p /\ H * KB + M < WORD
    BY <1>1 DEF HeldInv, HeldPages
  <1>4. IsFiniteSet(PagesOf(holds)) /\ p \in Nat
    BY HeldSum DEF HeldPages
  <1>5. c \in 0 .. H
    BY <1>1, UsableBelowTop DEF HeldInv
  <1>6. \A g \in Holders : holds[g].n \in 0 .. N
    BY DEF HeldInv
  <1>7. ASSUME \A g \in Holders : holds'[g].n \in 0 .. N,
               used_page_cnt' + c = H * KB + Cardinality(PagesOf(holds'))
        PROVE  HeldInv(N)'
    BY <1>1, <1>2, <1>3, <1>7 DEF HeldInv, HeldPages, PagesOf, KB
  <1>8. CASE UNCHANGED <<used_page_cnt, holds>>
    BY <1>3, <1>6, <1>7, <1>8
  <1>9. ASSUME NEW ptr, Allocate(h, n), used_page_cnt' = Wrap(used_page_cnt + n),
               holds' = [holds EXCEPT ![h] = [base |-> ptr, n |-> n]]
        PROVE  HeldInv(N)'
    <2>1. holds[h].n = 0
      BY <1>9 DEF Allocate, NoAlloc
    <2>2. holds'[h].n = n /\ \A g \in Holders : g # h => holds'[g].n = holds[g].n
      BY <1>0, <1>9
    <2>3. \A g \in Holders : holds'[g].n \in 0 .. N
      BY <1>0, <1>6, <2>2
    <2> DEFINE q == Cardinality(PagesOf(holds'))
    <2>4. q = p + n
      BY <1>0, <1>4, <2>1, <2>2, HeldGrows
    <2>5. q <= M
      BY <2>3, HeldBound
    <2>6. M \in Nat
      BY <1>0
    <2> HIDE DEF M, c, p, u, H, q
    <2>7. u \in Nat /\ H \in Nat /\ u' = Wrap(u + n) /\ n \in Nat /\ KB = 1024
      BY <1>0, <1>9 DEF u, H, KB
    <2>8. u + n >= 0 /\ u + n < WORD /\ u + n + c = H * KB + q
      BY <1>0, <1>3, <1>4, <1>5, <2>4, <2>5, <2>6, <2>7
    <2>9. u' = u + n
      BY <1>0, <2>7, <2>8 DEF Wrap
    <2>10. u' + c = H * KB + q
      BY <2>8, <2>9
    <2> QED
      BY <1>7, <2>3, <2>10 DEF u, q
  <1>10. CASE pmm_free(h)
    <2>1. used_page_cnt' = Wrap(used_page_cnt - holds[h].n)
          /\ holds' = [holds EXCEPT ![h] = NoAlloc]
      BY <1>10 DEF pmm_free
    <2>2. holds'[h].n = 0 /\ \A g \in Holders : g # h => holds[g].n = holds'[g].n
      BY <1>0, <2>1 DEF NoAlloc
    <2>3. \A g \in Holders : holds'[g].n \in 0 .. N
      BY <1>0, <1>6, <2>2
    <2> DEFINE q == Cardinality(PagesOf(holds'))
               r == holds[h].n
    <2>4. IsFiniteSet(PagesOf(holds')) /\ q \in Nat
      <3>1. PagesOf(holds') \in SUBSET PagesOf(holds)
        <4>1. 1 .. 0 = {}
          OBVIOUS
        <4> QED
          BY <2>2, <4>1 DEF PagesOf
      <3> QED
        BY <1>4, <3>1, FS_Subset, FS_CardinalityType
    <2>5. r \in Nat
      BY <1>6
    <2>6. p = q + r
      BY <2>2, <2>4, <2>5, HeldGrows
    <2> HIDE DEF M, c, p, u, H, q, r
    <2>7. u \in Nat /\ u < WORD /\ H \in Nat /\ u' = Wrap(u - r) /\ KB = 1024
      BY <1>0, <2>1 DEF u, H, r, KB
    <2>8. u - r >= 0 /\ u - r < WORD /\ u - r + c = H * KB + q
      BY <1>0, <1>3, <1>5, <2>4, <2>5, <2>6, <2>7
    <2>9. u' = u - r
      <3> DEFINE x == u - r
      <3>1. x \in Int /\ x >= 0 /\ x < WORD /\ u' = Wrap(x)
        BY <2>5, <2>7, <2>8
      <3> HIDE DEF x
      <3>2. u' = x
        BY <1>0, <3>1 DEF Wrap
      <3> QED
        BY <3>2 DEF x
    <2>10. u' + c = H * KB + q
      BY <2>8, <2>9
    <2> QED
      BY <1>7, <2>3, <2>10 DEF u, q
  <1> QED
    BY <1>8, <1>9, <1>10 DEF Allocate

\* Once NULL has been freed, only the bounds are left of the invariant.
LEMMA HeldBroken ==
  ASSUME NEW N \in Nat, TypeInv, HeldInv(N), NEW n \in 0 .. N, null_frees' # 0,
         \/ \E h \in Holders : Allocate(h, n) \/ pmm_free(h)
         \/ pmm_free_NULL(n)
  PROVE  HeldInv(N)'
  <1>1. pc = "ready" /\ pc' = "ready" /\ UNCHANGED <<mmap, hi_page_top, i>>
    BY DEF Allocate, pmm_free, pmm_free_NULL, bootVars
  <1>2. TopInv' /\ Disjoint(mmap)'
    BY <1>1 DEF HeldInv, TopInv, Disjoint, Frames
  <1>3. holds \in [Holders -> [base : Nat, n : 0 .. (WORD - 1)]]
    BY DEF TypeInv, TypeOK
  <1>4. \/ UNCHANGED holds
        \/ \E h \in Holders, ptr \in 0 .. hi_page_top :
              holds' = [holds EXCEPT ![h] = [base |-> ptr, n |-> n]]
        \/ \E h \in Holders : holds' = [holds EXCEPT ![h] = NoAlloc]
    BY DEF Allocate, pmm_free, pmm_free_NULL
  <1>5. \A g \in Holders : holds'[g].n \in 0 .. N
    BY <1>3, <1>4 DEF HeldInv, NoAlloc
  <1> QED
    BY <1>1, <1>2, <1>5 DEF HeldInv, KB

\* Every step keeps the count.
LEMMA HeldStep ==
  ASSUME NEW N \in Nat, IsFiniteSet(Holders), Counts \subseteq 0 .. N, FitsWord(N)
  PROVE  TypeInv /\ HeldInv(N) /\ [Next]_vars => HeldInv(N)'
  <1> SUFFICES ASSUME TypeInv, HeldInv(N), [Next]_vars PROVE HeldInv(N)'
    OBVIOUS
  <1>1. CASE Boot
    BY <1>1, HeldBoot
  <1>2. ASSUME NEW h \in Holders, NEW n \in Counts,
               pmm_alloc(h, n) \/ pmm_allocz(h, n)
        PROVE  HeldInv(N)'
    <2>1. Allocate(h, n) /\ null_frees' = null_frees /\ n \in 0 .. N
      BY <1>2 DEF pmm_alloc, pmm_allocz, Allocate
    <2>2. CASE null_frees = 0
      BY <2>1, <2>2, HeldCalls
    <2>3. CASE null_frees # 0
      BY <2>1, <2>3, HeldBroken
    <2> QED
      BY <2>2, <2>3
  <1>3. ASSUME NEW h \in Holders, pmm_free(h) PROVE HeldInv(N)'
    <2>1. 0 \in 0 .. N /\ null_frees' = null_frees
      BY <1>3 DEF pmm_free
    <2>2. CASE null_frees = 0
      BY <1>3, <2>1, <2>2, HeldCalls
    <2>3. CASE null_frees # 0
      BY <1>3, <2>1, <2>3, HeldBroken
    <2> QED
      BY <2>2, <2>3
  <1>5. ASSUME NEW n \in Counts, pmm_free_NULL(n) PROVE HeldInv(N)'
    <2>1. null_frees' = null_frees + 1 /\ null_frees \in Nat /\ n \in 0 .. N
      BY <1>5 DEF pmm_free_NULL, TypeInv, TypeOK
    <2>2. null_frees' # 0
      BY <2>1
    <2> QED
      BY <1>5, <2>1, <2>2, HeldBroken
  <1>4. CASE UNCHANGED vars
    BY <1>4 DEF vars, bootVars, HeldInv, TopInv, Disjoint, Frames, FreedFrames,
                UsableFrames, UsableEntries, HeldPages, PagesOf, NoAlloc, NULL, KB, callVars
  <1> QED
    BY <1>1, <1>2, <1>3, <1>4, <1>5 DEF Next

\* For requests of any length, used_page_cnt is what pmm_init left plus the
\* pages now owned: it never wraps and never reaches 0 while nobody frees NULL,
\* on every memory map and for every number of callers whose requests together
\* fit the word.
THEOREM CountIsHeldPages ==
  ASSUME NEW N \in Nat, IsFiniteSet(Holders), Counts \subseteq 0 .. N, FitsWord(N)
  PROVE  Spec => []UsedCountIsHeldPages
  <1>1. Init => HeldInv(N)
    <2> SUFFICES ASSUME Init PROVE HeldInv(N)
      OBVIOUS
    <2>1. TopInv
      BY CountInit DEF CountInv
    <2>2. Disjoint(mmap) /\ \A h \in Holders : holds[h] = NoAlloc
      BY MemMapAssumption DEF Init
    <2>3. \A h \in Holders : holds[h].n \in 0 .. N
      BY <2>2 DEF NoAlloc
    <2>4. hi_page_top * KB + Cardinality(Holders) * N < WORD
      BY FS_CardinalityType DEF Init, KB, FitsWord
    <2> QED
      BY <2>1, <2>2, <2>3, <2>4 DEF HeldInv, Init
  <1>2. TypeInv /\ HeldInv(N) => UsedCountIsHeldPages
    <2> SUFFICES ASSUME TypeInv, HeldInv(N), pc = "ready", hi_page_top > 0,
                        null_frees = 0
                 PROVE  /\ used_page_cnt = hi_page_top * KB
                              - MapThenSumSet(LAMBDA k : mmap[k].length, UsableEntries)
                              + MapThenSumSet(LAMBDA h : holds[h].n, Holders)
                        /\ used_page_cnt > 0
      BY DEF UsedCountIsHeldPages
    <2> DEFINE c == Cardinality(UsableFrames)
               p == Cardinality(HeldPages)
               u == used_page_cnt
               H == hi_page_top
    <2>1. u + c = H * KB + p
      BY DEF HeldInv
    <2>2. c \in 0 .. H /\ p \in Nat /\ u \in Int /\ H \in Nat /\ H > 0 /\ KB = 1024
      BY UsableBelowTop, HeldSum DEF HeldInv, TypeInv, TypeOK, KB
    <2>3. u = H * KB - c + p /\ u > 0
      <3> HIDE DEF c, p, u, H
      <3> QED
        BY <2>1, <2>2
    <2>4. /\ MapThenSumSet(LAMBDA k : mmap[k].length, UsableEntries) = c
          /\ MapThenSumSet(LAMBDA h : holds[h].n, Holders) = p
      BY UsableSum, HeldSum DEF HeldInv
    <2> QED
      BY <2>3, <2>4
  <1> QED
    BY <1>1, <1>2, TypeInit, TypeStep, HeldStep, PTL DEF Spec
=============================================================================
