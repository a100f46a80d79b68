--------------------------- MODULE FrameAllocator ---------------------------
(***************************************************************************)
(* What the physical allocator promises to a caller that asks for one page *)
(* at a time, as every caller in mm/virt.c and mm/slab.c does.  The pool   *)
(* of frames becomes known when the allocator has booted; from then on a   *)
(* frame is either free or owned by one holder, and a request is refused   *)
(* only when the pool is empty, until a caller releases a refusal as if it *)
(* were a frame: from then on every request is refused.                    *)
(***************************************************************************)
EXTENDS Naturals

CONSTANT Holders

VARIABLES
    booted,
    free,       \* the frames of the pool nobody owns
    held,       \* held[h]: the frame h owns, or 0 for none
    ret,        \* the answer to the last request; 0 is a refusal
    broken      \* a refusal has been released

vars == <<booted, free, held, ret, broken>>

Init ==
    /\ booted = FALSE
    /\ free = {}
    /\ held = [h \in Holders |-> 0]
    /\ ret = 0
    /\ broken = FALSE

Boot ==
    /\ ~ booted
    /\ booted' = TRUE
    /\ free' \in SUBSET (Nat \ {0})
    /\ UNCHANGED <<held, ret, broken>>

Grant(h) ==
    /\ booted /\ held[h] = 0 /\ ~ broken
    /\ ret' \in free
    /\ free' = free \ {ret'}
    /\ held' = [held EXCEPT ![h] = ret']
    /\ UNCHANGED <<booted, broken>>

Refuse(h) ==
    /\ booted /\ held[h] = 0
    /\ free = {} \/ broken
    /\ ret' = 0
    /\ UNCHANGED <<booted, free, held, broken>>

Release(h) ==
    /\ booted /\ held[h] # 0
    /\ free' = free \cup {held[h]}
    /\ held' = [held EXCEPT ![h] = 0]
    /\ UNCHANGED <<booted, ret, broken>>

ReleaseNothing ==
    /\ booted
    /\ broken' = TRUE
    /\ UNCHANGED <<booted, free, held, ret>>

Next ==
    \/ Boot
    \/ \E h \in Holders : Grant(h) \/ Refuse(h) \/ Release(h)
    \/ ReleaseNothing

Spec == Init /\ [][Next]_vars
=============================================================================
