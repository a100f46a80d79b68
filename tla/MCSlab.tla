------------------------------- MODULE MCSlab -------------------------------
(* Flag combinations for the slab cache.                                   *)
EXTENDS Slab

AllFlags == SUBSET {"PANIC", "AUTO_GROW"}
\* What malloc_heap_init and malloc pass.
HeapFlags == {{"PANIC"}, {"PANIC", "AUTO_GROW"}}
=============================================================================
