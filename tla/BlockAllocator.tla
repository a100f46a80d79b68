--------------------------- MODULE BlockAllocator ---------------------------
(***************************************************************************)
(* What malloc and free promise: blocks are granted that overlap no block  *)
(* still held, and what a block contains changes by its owner's hand only. *)
(***************************************************************************)
EXTENDS Integers

VARIABLE blocks     \* what each block that is held contains

\* A block is its first cell and its size.
Cells(b) == b.ptr .. (b.ptr + b.size - 1)

\* Every block but those in B contains what it did.
Keeps(B) == \A b \in DOMAIN blocks \ B : b \in DOMAIN blocks' /\ blocks'[b] = blocks[b]

Init == blocks = <<>>

Grant(b) ==
    /\ b \notin DOMAIN blocks
    /\ \A c \in DOMAIN blocks : Cells(b) \cap Cells(c) = {}
    /\ DOMAIN blocks' = DOMAIN blocks \cup {b}
    /\ Keeps({})

Write(b) ==
    /\ b \in DOMAIN blocks
    /\ DOMAIN blocks' = DOMAIN blocks
    /\ Keeps({b})

Release(b) ==
    /\ b \in DOMAIN blocks
    /\ DOMAIN blocks' = DOMAIN blocks \ {b}
    /\ Keeps({b})

Next ==
    \/ \E b \in DOMAIN blocks' : Grant(b)
    \/ \E b \in DOMAIN blocks : Write(b) \/ Release(b)

Spec == Init /\ [][Next]_blocks
=============================================================================
