------------------------------- MODULE MCPhys -------------------------------
(* Small memory maps for the physical allocator.  PAGE_SIZE is 4 bytes, so *)
(* a page of bitmap covers 32 frames and a request of up to 4 pages probes *)
(* one bit, as a request of up to 4096 pages does in the kernel.           *)
EXTENDS Phys, TLC

E(b, l, t) == [base |-> b, length |-> l, type |-> t]

\* The bitmap takes the front of the first entry, which starts at frame 0:
\* a refused pmm_allocz wipes it.
PlainMap == <<E(0, 3, "USABLE"), E(3, 2, "KERNEL"), E(5, 4, "USABLE"),
              E(9, 3, "RECLAIMABLE"), E(40, 2, "OTHER")>>

\* Two pages of bitmap; frame 0 is usable, its entry too short for them.
SkipMap == <<E(0, 1, "USABLE"), E(1, 4, "USABLE"), E(38, 4, "KERNEL")>>

\* The top entry is usable and listed first; the callers can exhaust it.
OddMap == <<E(5, 3, "USABLE"), E(0, 1, "OTHER"), E(2, 1, "RECLAIMABLE")>>

\* 33 frames need 33 bits; the bitmap has 32.
EdgeMap == <<E(0, 2, "USABLE"), E(31, 2, "USABLE")>>

\* No entry holds the two pages of bitmap, which then has no place of its
\* own: pmm_allocz wipes a page of it, on failure or with frame 1 granted.
CrampedMap == <<E(1, 1, "USABLE"), E(3, 1, "USABLE"), E(40, 2, "KERNEL")>>

\* The bitmap lies beyond the longest request, and nothing usable before it.
\* A range may run over the kernel's frames and back into usable ones.
HighMap == <<E(0, 1, "USABLE"), E(1, 5, "OTHER"), E(6, 3, "USABLE"),
             E(9, 1, "KERNEL"), E(10, 2, "USABLE"), E(38, 2, "KERNEL")>>

\* 33 frames and 32 bits, with the bitmap beyond the longest request and
\* nothing free but the frame the bitmap does not cover.
HighEdgeMap == <<E(6, 1, "USABLE"), E(31, 2, "KERNEL")>>

AllMaps ==
    {PlainMap, SkipMap, OddMap, EdgeMap, CrampedMap, HighMap, HighEdgeMap}
CoveredMaps == {PlainMap, SkipMap, OddMap, CrampedMap, HighMap}

Symmetry == Permutations(Holders)
=============================================================================
