------------------------------- MODULE MCHeap -------------------------------
(* Buffers of 4, 8 and 16 bytes: too small for a slab_bufctl_t, half of    *)
(* one, and just large enough.                                             *)
EXTENDS Heap

SmallSizes == <<2, 4, 8>>
=============================================================================
