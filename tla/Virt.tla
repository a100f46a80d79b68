-------------------------------- MODULE Virt --------------------------------
(***************************************************************************)
(* The four-level page tables of mm/virt.c, the frames they are built      *)
(* from, and the processor's translation lookaside buffer.                 *)
(*                                                                         *)
(* Pages and frames are numbers; a table has N entries (512 in the kernel) *)
(* and an entry is a frame with a set of flags, "P" (PTE_PRESENT), "W"     *)
(* (PTE_READ_WRITE) and "U" (PTE_USER_SUPERVISOR).  Page v of the model is *)
(* reached through the four base-N digits of v, as virt_page is through    *)
(* its four groups of nine bits.  Frame 0 is what a failed pmm_allocz      *)
(* returns; the code goes on with it as a table.  Tables are read and      *)
(* written through their physical addresses.                               *)
(***************************************************************************)
EXTENDS Integers, Sequences, FiniteSets, FiniteSetsExt

CONSTANTS
    N,              \* entries in a table
    Frames,         \* the frames pmm_init left free
    InitRanges,     \* the ranges vmm_init maps, in order
    Requests        \* the ranges the kernel maps and unmaps afterwards

Pages == 0 .. (N * N * N * N - 1)
Flags == {"P", "W", "U"}
KERNEL_READ == {"P"}
KERNEL_READ_WRITE == {"P", "W"}

RangeCall == [op : {"map", "unmap"}, start : Nat, end : Nat, offset : Nat,
              flags : SUBSET Flags]

ASSUME VirtAssumption ==
    /\ N \in Nat \ {0, 1}
    /\ Frames \subseteq Nat \ {0} /\ IsFiniteSet(Frames)
    /\ InitRanges \in Seq(RangeCall) /\ Requests \subseteq RangeCall
    /\ \A k \in DOMAIN InitRanges :
          InitRanges[k].end + InitRanges[k].offset <= N * N * N * N
    /\ \A r \in Requests : r.end + r.offset <= N * N * N * N

VARIABLES
    pc,         \* "off" before vmm_init, "init" in it, "on" after it
    todo,       \* the ranges vmm_init has not started
    task,       \* what is left of the range in progress, or NoTask
    root,       \* root_page_tbl as a frame
    tbl,        \* tbl[f][j]: entry j of the table in frame f
    free,       \* the frames whose bit is clear in the bitmap
    tlb,        \* the translations the processor has cached
    exhausted   \* history: pmm_allocz has returned NULL

vars == <<pc, todo, task, root, tbl, free, tlb, exhausted>>

NULL == 0
NoTask == [op |-> "none"]
Zero == [frame |-> 0, flags |-> {}]
ZeroTable == [j \in 0 .. (N - 1) |-> Zero]
Present(e) == "P" \in e.flags

-----------------------------------------------------------------------------
(* Building tables.  m records the memory: the tables, the free frames and *)
(* whether an allocation has failed.                                       *)

\* pmm_allocz(1): the lowest free frame, or NULL.
pmm_allocz(m) == IF m.free = {} THEN NULL ELSE Min(m.free)

\* Mutant of vmm_get_or_create_pml: the present flag is not looked at.
vmm_get_or_create_pml_Always(m, pml, index, flags) ==
    LET f == pmm_allocz(m)
    IN [tbl |-> [m.tbl EXCEPT ![f] = ZeroTable,
                              ![pml][index] = [frame |-> f, flags |-> flags]],
        free |-> m.free \ {f},
        oom |-> m.oom \/ f = NULL,
        next |-> f]

\* The frame that is returned is cleared, frame 0 included.
vmm_get_or_create_pml(m, pml, index, flags) ==
    LET e == m.tbl[pml][index]
        f == pmm_allocz(m)
    IN IF Present(e)
       THEN [m EXCEPT !.next = e.frame]
       ELSE [tbl |-> [m.tbl EXCEPT ![f] = ZeroTable,
                                   ![pml][index] = [frame |-> f, flags |-> flags]],
             free |-> m.free \ {f},
             oom |-> m.oom \/ f = NULL,
             next |-> f]

\* Mutant of pt_index: shifted by 21 instead of 12.
pt_index_Shifted(v) == (v \div N) % N

\* The indices of virt_page in the pml4, the pdpt, the pd and the pt.
pml4_index(v) == (v \div (N * N * N)) % N
pdpt_index(v) == (v \div (N * N)) % N
pd_index(v) == (v \div N) % N
pt_index(v) == v % N

\* Mutant of vmm_flush_tlb: nothing is flushed.
vmm_flush_tlb_None(v) == tlb' = tlb

\* invlpg makes the processor forget one page.
vmm_flush_tlb(v) == tlb' = {t \in tlb : t.page # v}

\* Mutant of vmm_set_pt_value: the value is written one level too high.
vmm_set_pt_value_ThreeLevels(v, flags, value) ==
    LET mem == [tbl |-> tbl, free |-> free, oom |-> exhausted, next |-> root]
        pdpt == vmm_get_or_create_pml(mem, root, pml4_index(v), flags)
        pd == vmm_get_or_create_pml(pdpt, pdpt.next, pdpt_index(v), flags)
    IN /\ tbl' = [pd.tbl EXCEPT ![pd.next][pd_index(v)] = value]
       /\ free' = pd.free
       /\ exhausted' = pd.oom
       /\ vmm_flush_tlb(v)

vmm_set_pt_value(v, flags, value) ==
    LET mem == [tbl |-> tbl, free |-> free, oom |-> exhausted, next |-> root]
        pdpt == vmm_get_or_create_pml(mem, root, pml4_index(v), flags)
        pd == vmm_get_or_create_pml(pdpt, pdpt.next, pdpt_index(v), flags)
        pt == vmm_get_or_create_pml(pd, pd.next, pd_index(v), flags)
    IN /\ tbl' = [pt.tbl EXCEPT ![pt.next][pt_index(v)] = value]
       /\ free' = pt.free
       /\ exhausted' = pt.oom
       /\ vmm_flush_tlb(v)

vmm_map_page(p, v, flags) ==
    vmm_set_pt_value(v, flags, [frame |-> p, flags |-> flags])

vmm_unmap_page(v) == vmm_set_pt_value(v, {}, Zero)

-----------------------------------------------------------------------------
(* The range functions: one step per iteration of their loops.             *)

\* Mutant of MapStep: the offset is taken from the frame, not added to the page.
MapStep_Backwards ==
    /\ task.op = "map" /\ task.start < task.end
    /\ vmm_map_page(task.start - task.offset, task.start, task.flags)
    /\ task' = [task EXCEPT !.start = @ + 1]
    /\ UNCHANGED <<pc, todo, root>>

MapStep ==
    /\ task.op = "map" /\ task.start < task.end
    /\ vmm_map_page(task.start, task.start + task.offset, task.flags)
    /\ task' = [task EXCEPT !.start = @ + 1]
    /\ UNCHANGED <<pc, todo, root>>

UnmapStep ==
    /\ task.op = "unmap" /\ task.start < task.end
    /\ vmm_unmap_page(task.start)
    /\ task' = [task EXCEPT !.start = @ + 1]
    /\ UNCHANGED <<pc, todo, root>>

RangeDone ==
    /\ task # NoTask /\ task.start >= task.end
    /\ task' = NoTask
    /\ UNCHANGED <<pc, todo, root, tbl, free, tlb, exhausted>>

\* vmm_init allocates the root.  PHYS_TO_HIGHER_HALF_DATA adds an offset to
\* the frame's address before the assertion compares it with NULL, so the
\* assertion holds for frame 0 as well.
InitRoot ==
    /\ pc = "off"
    /\ LET m == [tbl |-> tbl, free |-> free]
           f == pmm_allocz(m)
       IN /\ root' = f
          /\ tbl' = [tbl EXCEPT ![f] = ZeroTable]
          /\ free' = free \ {f}
          /\ exhausted' = (f = NULL)
    /\ pc' = "init"
    /\ UNCHANGED <<todo, task, tlb>>

InitRange ==
    /\ pc = "init" /\ task = NoTask /\ todo # <<>>
    /\ task' = Head(todo) /\ todo' = Tail(todo)
    /\ UNCHANGED <<pc, root, tbl, free, tlb, exhausted>>

\* write_cr(3): the processor starts to use the tables, with an empty TLB.
vmm_load_page_tbl ==
    /\ pc = "init" /\ task = NoTask /\ todo = <<>>
    /\ pc' = "on" /\ tlb' = {}
    /\ UNCHANGED <<todo, task, root, tbl, free, exhausted>>

\* The kernel calls vmm_map_range or vmm_unmap_range.
Call(r) ==
    /\ pc = "on" /\ task = NoTask
    /\ task' = r
    /\ UNCHANGED <<pc, todo, root, tbl, free, tlb, exhausted>>

-----------------------------------------------------------------------------
(* The processor.                                                          *)

NoMap == [frame |-> 0, flags |-> {}]

\* What the tables say of page v: all four entries must be present, and
\* grant only what each of them grants.
Translate(t, v) ==
    LET e4 == t[root][pml4_index(v)]
        e3 == t[e4.frame][pdpt_index(v)]
        e2 == t[e3.frame][pd_index(v)]
        e1 == t[e2.frame][pt_index(v)]
    IN IF Present(e4) /\ Present(e3) /\ Present(e2) /\ Present(e1)
       THEN [frame |-> e1.frame,
             flags |-> e4.flags \cap e3.flags \cap e2.flags \cap e1.flags]
       ELSE NoMap

\* An access to a mapped page, by any code, may cache its translation.
Access(v) ==
    /\ pc = "on" /\ Translate(tbl, v) # NoMap
    /\ tlb' = tlb \cup {[page |-> v, to |-> Translate(tbl, v)]}
    /\ UNCHANGED <<pc, todo, task, root, tbl, free, exhausted>>

Init ==
    /\ pc = "off" /\ todo = InitRanges /\ task = NoTask
    /\ root = NULL
    /\ tbl = [f \in Frames \cup {NULL} |-> ZeroTable]
    /\ free = Frames
    /\ tlb = {} /\ exhausted = FALSE

Next ==
    \/ InitRoot \/ InitRange \/ vmm_load_page_tbl
    \/ MapStep \/ UnmapStep \/ RangeDone
    \/ \E r \in Requests : Call(r)
    \/ \E v \in Pages : Access(v)

Spec == Init /\ [][Next]_vars

-----------------------------------------------------------------------------
(* Properties.                                                             *)

\* The type of the state.
TypeOK ==
    /\ pc \in {"off", "init", "on"}
    /\ task = NoTask \/ task \in RangeCall
    /\ root \in Frames \cup {NULL}
    /\ \A f \in Frames \cup {NULL}, j \in 0 .. (N - 1) :
          tbl[f][j].frame \in Nat /\ tbl[f][j].flags \subseteq Flags
    /\ free \subseteq Frames
    /\ \A t \in tlb : t.page \in Pages
    /\ exhausted \in BOOLEAN

\* The tables of one level, starting from the root.
Entries(T) == {e \in {tbl[f][j] : f \in T, j \in 0 .. (N - 1)} : Present(e)}
Pdpts == {e.frame : e \in Entries({root})}
Pds == {e.frame : e \in Entries(Pdpts)}
Pts == {e.frame : e \in Entries(Pds)}
Tables == {root} \cup Pdpts \cup Pds \cup Pts

\* The entries, as <<table, index>>, that lead to the next level.
Links == {l \in ({root} \cup Pdpts \cup Pds) \X (0 .. (N - 1)) :
             Present(tbl[l[1]][l[2]])}

\* While memory lasts the tables are a tree: no table is reached in two
\* ways or at two levels, and none is free for somebody else to take.
TablesAreTree ==
    pc # "off" /\ ~ exhausted =>
        /\ \A l, k \in Links :
              tbl[l[1]][l[2]].frame = tbl[k[1]][k[2]].frame => l = k
        /\ \A l \in Links : tbl[l[1]][l[2]].frame # root
        /\ Tables \cap free = {}

\* While memory lasts the TLB never disagrees with the tables, although
\* only one page is flushed after the walk may have built several tables.
TlbCoherent ==
    ~ exhausted => \A t \in tlb : t.to = Translate(tbl, t.page)

\* While memory lasts, mapping a page makes it translate to the requested
\* frame with no more than the requested rights, unmapping it makes it
\* fault, and either leaves every other page exactly as it was.
StepsAreExact ==
    [][/\ MapStep /\ ~ exhausted' =>
            LET v == task.start + task.offset
            IN /\ Translate(tbl', v).frame = task.start
               /\ "P" \in Translate(tbl', v).flags
               /\ Translate(tbl', v).flags \subseteq task.flags
               /\ \A w \in Pages \ {v} : Translate(tbl', w) = Translate(tbl, w)
       /\ UnmapStep /\ ~ exhausted' =>
            /\ Translate(tbl', task.start) = NoMap
            /\ \A w \in Pages \ {task.start} :
                  Translate(tbl', w) = Translate(tbl, w)]_vars

\* The frames taken from the allocator that are no table in use.
Lost == Frames \ (free \cup Tables)

\* While memory lasts, mapping a page and unmapping a mapped page lose no
\* frame: all that the walk allocates becomes a table in use and none that
\* was in use is cut off.  (Unmapping a page without tables does lose some.)
NoTableLost ==
    [][pc # "off" /\ ~ exhausted' /\
       (MapStep \/ (UnmapStep /\ Translate(tbl, task.start) # NoMap))
          => Lost' = Lost]_vars
=============================================================================
