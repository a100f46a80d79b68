------------------------------- MODULE MCVirt -------------------------------
(* Two entries per table, sixteen pages.                                   *)
EXTENDS Virt

M(s, e, o, f) == [op |-> "map", start |-> s, end |-> e, offset |-> o, flags |-> f]
U(s, e) == [op |-> "unmap", start |-> s, end |-> e, offset |-> 0, flags |-> {}]

\* The direct map and the kernel's code, as vmm_init has them: the same
\* frames at two places, the second read-only; then the direct map again,
\* for an entry of the memory map.
KernelRanges == <<M(0, 2, 0, KERNEL_READ_WRITE), M(0, 1, 12, KERNEL_READ),
                  M(0, 1, 0, KERNEL_READ_WRITE)>>

\* Remap with fewer rights, map beside and below existing tables, an empty
\* range, unmap mapped pages, pages beside them, and pages without tables,
\* for which each time new ones are built.
MixedRequests == {M(1, 2, 0, KERNEL_READ), M(1, 3, 12, {"P", "W", "U"}),
                  M(2, 2, 0, KERNEL_READ), U(1, 3), U(3, 5), U(14, 15)}
=============================================================================
