----------------------------- MODULE VirtProofs -----------------------------
(***************************************************************************)
(* Theorems about the page tables and the TLB, for every table size, every *)
(* set of frames and every sequence of ranges that is mapped and unmapped. *)
(***************************************************************************)
EXTENDS Virt, NumberSets, SequenceTheorems

-----------------------------------------------------------------------------
(* Page numbers and their four digits.                                     *)

\* A number is determined by its quotient and its remainder.
LEMMA DivideOnce ==
  ASSUME NEW n \in Nat \ {0}, NEW a \in Nat, NEW b \in Nat,
         a \div n = b \div n, a % n = b % n
  PROVE  a = b
  <1>1. a = n * (a \div n) + (a % n) /\ b = n * (b \div n) + (b % n)
    OBVIOUS
  <1> QED
    BY <1>1

\* Dividing twice is dividing by the product.
LEMMA DivideTwice ==
  ASSUME NEW a \in Nat, NEW m \in Nat \ {0}, NEW n \in Nat \ {0}
  PROVE  a \div (m * n) = (a \div m) \div n
  <1> DEFINE q == a \div m
             s == q \div n
             x == a \div (m * n)
  <1>0. q \in Nat /\ s \in Nat /\ x \in Nat /\ m * n \in Nat \ {0}
    OBVIOUS
  <1>1. m * q <= a /\ a < m * q + m
    OBVIOUS
  <1>2. n * s <= q /\ q < n * s + n
    BY <1>0
  <1>3. (m * n) * x <= a /\ a < (m * n) * x + m * n
    <2>1. \A d \in Nat \ {0} : d * (a \div d) <= a /\ a < d * (a \div d) + d
      OBVIOUS
    <2> QED
      BY <1>0, <2>1
  <1> HIDE DEF q, s, x
  <1>4. (m * n) * s <= a /\ a < (m * n) * s + m * n
    BY <1>0, <1>1, <1>2
  <1> QED
    BY <1>0, <1>3, <1>4

\* The four indices of a page determine it.
LEMMA DigitsDetermine ==
  ASSUME NEW v \in Pages, NEW w \in Pages,
         pml4_index(v) = pml4_index(w), pdpt_index(v) = pdpt_index(w),
         pd_index(v) = pd_index(w), pt_index(v) = pt_index(w)
  PROVE  v = w
  <1>0. N \in Nat \ {0} /\ v \in Nat /\ w \in Nat /\ N * N \in Nat \ {0}
    BY VirtAssumption DEF Pages
  <1> DEFINE q(a) == a \div N
             r(a) == q(a) \div N
             s(a) == r(a) \div N
  <1>1. ASSUME NEW a \in Pages
        PROVE  /\ a \in Nat /\ q(a) \in Nat /\ r(a) \in Nat /\ s(a) \in Nat
               /\ a \div (N * N) = r(a) /\ a \div (N * N * N) = s(a) /\ s(a) < N
    <2>1. a \in Nat /\ a < N * N * N * N
      BY <1>0 DEF Pages
    <2>2. q(a) \in Nat /\ r(a) \in Nat /\ s(a) \in Nat
      BY <1>0, <2>1
    <2>3. a \div (N * N) = r(a)
      BY <1>0, <2>1, DivideTwice
    <2>4. a \div (N * N * N) = s(a)
      <3> DEFINE m == N * N
      <3>1. m \in Nat \ {0}
        BY <1>0
      <3> HIDE DEF m
      <3>2. a \div (m * N) = (a \div m) \div N
        BY <1>0, <2>1, <3>1, DivideTwice
      <3> QED
        BY <2>3, <3>2 DEF m
    <2>5. s(a) < N
      <3> DEFINE c == N * N * N
                 x == a \div c
      <3>1. c \in Nat \ {0} /\ a < c * N
        BY <1>0, <2>1
      <3> HIDE DEF c
      <3>2. x \in Nat /\ c * x <= a
        BY <2>1, <3>1
      <3> HIDE DEF x
      <3>3. c * x < c * N
        BY <1>0, <2>1, <3>1, <3>2
      <3>4. x < N
        BY <1>0, <3>1, <3>2, <3>3
      <3> QED
        BY <2>4, <3>4 DEF x, c
    <2> QED
      BY <2>1, <2>2, <2>3, <2>4, <2>5
  <1>2. s(v) = s(w)
    <2>1. s(v) % N = s(w) % N
      BY <1>1 DEF pml4_index
    <2>2. s(v) \in Nat /\ s(w) \in Nat /\ s(v) < N /\ s(w) < N
      BY <1>1
    <2> HIDE DEF s
    <2> QED
      BY <1>0, <2>1, <2>2
  <1>3. r(v) = r(w)
    <2>1. r(v) % N = r(w) % N
      BY <1>1 DEF pdpt_index
    <2>2. r(v) \in Nat /\ r(w) \in Nat /\ r(v) \div N = r(w) \div N
      BY <1>1, <1>2
    <2> HIDE DEF r
    <2> QED
      BY <1>0, <2>1, <2>2, DivideOnce
  <1>4. q(v) = q(w)
    <2>1. q(v) % N = q(w) % N
      BY DEF pd_index
    <2>2. q(v) \in Nat /\ q(w) \in Nat /\ q(v) \div N = q(w) \div N
      BY <1>1, <1>3
    <2> HIDE DEF q
    <2> QED
      BY <1>0, <2>1, <2>2, DivideOnce
  <1>5. v % N = w % N
    BY DEF pt_index
  <1> QED
    BY <1>0, <1>4, <1>5, DivideOnce

\* Each index is that of an entry of a table.
LEMMA IndexInTable ==
  ASSUME NEW v \in Pages
  PROVE  /\ pml4_index(v) \in 0 .. (N - 1) /\ pdpt_index(v) \in 0 .. (N - 1)
         /\ pd_index(v) \in 0 .. (N - 1) /\ pt_index(v) \in 0 .. (N - 1)
  <1>1. N \in Nat \ {0} /\ v \in Nat
    BY VirtAssumption DEF Pages
  <1>2. \A x \in Nat : x % N \in 0 .. (N - 1)
    BY <1>1
  <1>3. \A d \in Nat \ {0} : v \div d \in Nat
    BY <1>1
  <1>4. N * N \in Nat \ {0} /\ N * N * N \in Nat \ {0}
    BY <1>1
  <1> QED
    BY <1>1, <1>2, <1>3, <1>4 DEF pml4_index, pdpt_index, pd_index, pt_index

-----------------------------------------------------------------------------
(* One level of the walk.                                                  *)

AllFrames == Frames \cup {NULL}
Index == 0 .. (N - 1)
PageEntry == [frame : Nat, flags : SUBSET Flags]
Memory == [AllFrames -> [Index -> PageEntry]]

Alloc(F) == IF F = {} THEN NULL ELSE Min(F)

\* t with a new, cleared table f in entry idx of cur.
Grown(t, f, cur, idx, fl) ==
    [t EXCEPT ![f] = ZeroTable, ![cur][idx] = [frame |-> f, flags |-> fl]]

\* What vmm_get_or_create_pml does to the tables t, the free frames F and the
\* record o of failures; nxt is the table it returns.
Descend(t, F, o, cur, idx, fl, t2, F2, o2, nxt) ==
    \/ /\ Present(t[cur][idx])
       /\ t2 = t /\ F2 = F /\ o2 = o /\ nxt = t[cur][idx].frame
    \/ /\ ~ Present(t[cur][idx])
       /\ t2 = Grown(t, Alloc(F), cur, idx, fl)
       /\ F2 = F \ {Alloc(F)}
       /\ o2 = (o \/ Alloc(F) = NULL)
       /\ nxt = Alloc(F)

\* vmm_get_or_create_pml on explicit records.
LEMMA GetOrCreate ==
  ASSUME NEW t, NEW F, NEW o, NEW n, NEW cur, NEW idx, NEW fl
  PROVE  \E t2, F2, o2, nxt :
            /\ vmm_get_or_create_pml([tbl |-> t, free |-> F, oom |-> o, next |-> n],
                                     cur, idx, fl)
                 = [tbl |-> t2, free |-> F2, oom |-> o2, next |-> nxt]
            /\ Descend(t, F, o, cur, idx, fl, t2, F2, o2, nxt)
  <1> DEFINE m == [tbl |-> t, free |-> F, oom |-> o, next |-> n]
             f == Alloc(F)
  <1>0. pmm_allocz(m) = f /\ m.tbl = t /\ m.free = F /\ m.oom = o
    BY DEF pmm_allocz, Alloc
  <1>1. CASE Present(t[cur][idx])
    <2>1. vmm_get_or_create_pml(m, cur, idx, fl) = [m EXCEPT !.next = t[cur][idx].frame]
      BY <1>0, <1>1 DEF vmm_get_or_create_pml
    <2>2. vmm_get_or_create_pml(m, cur, idx, fl)
            = [tbl |-> t, free |-> F, oom |-> o, next |-> t[cur][idx].frame]
      BY <2>1
    <2>3. Descend(t, F, o, cur, idx, fl, t, F, o, t[cur][idx].frame)
      BY <1>1 DEF Descend
    <2> QED
      BY <2>2, <2>3
  <1>2. CASE ~ Present(t[cur][idx])
    <2> DEFINE t2 == Grown(t, f, cur, idx, fl)
               F2 == F \ {f}
               o2 == (o \/ f = NULL)
    <2>1. vmm_get_or_create_pml(m, cur, idx, fl)
            = [tbl |-> t2, free |-> F2, oom |-> o2, next |-> f]
      BY <1>0, <1>2 DEF vmm_get_or_create_pml, Grown
    <2>2. Descend(t, F, o, cur, idx, fl, t2, F2, o2, f)
      BY <1>2 DEF Descend
    <2> HIDE DEF t2, F2, o2, f
    <2> QED
      BY <2>1, <2>2
  <1> QED
    BY <1>1, <1>2

\* vmm_set_pt_value goes down three levels and writes the entry of the fourth.
LEMMA ThreeLevels ==
  ASSUME NEW v, NEW fl, NEW value, vmm_set_pt_value(v, fl, value)
  PROVE  /\ \E t1, F1, o1, c1, t2, F2, o2, c2, t3, F3, o3, c3 :
              /\ Descend(tbl, free, exhausted, root, pml4_index(v), fl, t1, F1, o1, c1)
              /\ Descend(t1, F1, o1, c1, pdpt_index(v), fl, t2, F2, o2, c2)
              /\ Descend(t2, F2, o2, c2, pd_index(v), fl, t3, F3, o3, c3)
              /\ tbl' = [t3 EXCEPT ![c3][pt_index(v)] = value]
              /\ free' = F3 /\ exhausted' = o3
         /\ tlb' = {x \in tlb : x.page # v}
  <1> DEFINE mem == [tbl |-> tbl, free |-> free, oom |-> exhausted, next |-> root]
             pdpt == vmm_get_or_create_pml(mem, root, pml4_index(v), fl)
             pd == vmm_get_or_create_pml(pdpt, pdpt.next, pdpt_index(v), fl)
             pt == vmm_get_or_create_pml(pd, pd.next, pd_index(v), fl)
  <1>0. /\ tbl' = [pt.tbl EXCEPT ![pt.next][pt_index(v)] = value]
        /\ free' = pt.free /\ exhausted' = pt.oom
        /\ tlb' = {x \in tlb : x.page # v}
    BY DEF vmm_set_pt_value, vmm_flush_tlb
  <1>1. PICK t1, F1, o1, c1 :
           /\ pdpt = [tbl |-> t1, free |-> F1, oom |-> o1, next |-> c1]
           /\ Descend(tbl, free, exhausted, root, pml4_index(v), fl, t1, F1, o1, c1)
    BY GetOrCreate
  <1> HIDE DEF pdpt
  <1>2. PICK t2, F2, o2, c2 :
           /\ pd = [tbl |-> t2, free |-> F2, oom |-> o2, next |-> c2]
           /\ Descend(t1, F1, o1, c1, pdpt_index(v), fl, t2, F2, o2, c2)
    <2>1. pdpt.next = c1
      BY <1>1
    <2> QED
      BY <1>1, <2>1, GetOrCreate
  <1> HIDE DEF pd
  <1>3. PICK t3, F3, o3, c3 :
           /\ pt = [tbl |-> t3, free |-> F3, oom |-> o3, next |-> c3]
           /\ Descend(t2, F2, o2, c2, pd_index(v), fl, t3, F3, o3, c3)
    <2>1. pd.next = c2
      BY <1>2
    <2> QED
      BY <1>2, <2>1, GetOrCreate
  <1> HIDE DEF pt
  <1>4. pt.tbl = t3 /\ pt.next = c3 /\ pt.free = F3 /\ pt.oom = o3
    BY <1>3
  <1> QED
    BY <1>0, <1>1, <1>2, <1>3, <1>4

\* The types survive one level, whatever table the walk is at.
LEMMA DescendTypes ==
  ASSUME NEW t \in Memory, NEW F \in SUBSET Frames, NEW o \in BOOLEAN,
         NEW cur, NEW idx, NEW fl \in SUBSET Flags,
         NEW t2, NEW F2, NEW o2, NEW nxt,
         Descend(t, F, o, cur, idx, fl, t2, F2, o2, nxt)
  PROVE  /\ t2 \in Memory /\ F2 \in SUBSET Frames /\ o2 \in BOOLEAN
         /\ ~ o2 => ~ o
  <1>1. CASE Present(t[cur][idx])
    BY <1>1 DEF Descend
  <1>2. CASE ~ Present(t[cur][idx])
    <2> DEFINE f == Alloc(F)
    <2>0. /\ t2 = Grown(t, f, cur, idx, fl) /\ F2 = F \ {f} /\ o2 = (o \/ f = NULL)
      BY <1>2 DEF Descend
    <2>1. f \in AllFrames /\ f \in Nat
      <3>1. F # {} => Min(F) \in F
        <4>1. IsFiniteSet(F) /\ F \in SUBSET Nat
          BY VirtAssumption, FS_Subset
        <4> QED
          BY <4>1, MinIsLeast
      <3> QED
        BY <3>1, VirtAssumption DEF Alloc, AllFrames, NULL
    <2> HIDE DEF f
    <2>2. ZeroTable \in [Index -> PageEntry] /\ [frame |-> f, flags |-> fl] \in PageEntry
      BY <2>1 DEF ZeroTable, Zero, Index, PageEntry
    <2>3. t2 \in Memory
      <3>1. [t EXCEPT ![f] = ZeroTable] \in Memory
        BY <2>1, <2>2 DEF Memory
      <3> DEFINE u == [t EXCEPT ![f] = ZeroTable]
      <3>2. t2 = [u EXCEPT ![cur][idx] = [frame |-> f, flags |-> fl]]
        BY <2>0 DEF Grown
      <3> HIDE DEF u
      <3> QED
        BY <2>2, <3>1, <3>2 DEF u, Memory
    <2>4. o2 \in BOOLEAN /\ (~ o2 => ~ o)
      BY <2>0, Zenon
    <2> QED
      BY <2>0, <2>3, <2>4
  <1> QED
    BY <1>1, <1>2

-----------------------------------------------------------------------------
(* The tree.  lev gives each frame its level: 4 for the root r, 3, 2 and 1 *)
(* for the tables below it, 0 for every other frame.                       *)

Linked(t, p, j) == p \in AllFrames /\ j \in Index /\ Present(t[p][j])

Tree(lev, t, F, r) ==
    /\ t \in Memory /\ F \in SUBSET Frames /\ r \in Frames
    /\ lev \in [AllFrames -> 0 .. 4]
    /\ \A p \in AllFrames : lev[p] = 4 <=> p = r
    /\ lev[NULL] = 0 /\ \A f \in F : lev[f] = 0
    /\ \A p, j : Linked(t, p, j) /\ lev[p] >= 2 =>
          t[p][j].frame \in Frames /\ lev[t[p][j].frame] = lev[p] - 1
    /\ \A p, q, j, k :
          /\ Linked(t, p, j) /\ lev[p] >= 2 /\ Linked(t, q, k) /\ lev[q] >= 2
          /\ t[p][j].frame = t[q][k].frame
          => p = q /\ j = k
    /\ \A g \in AllFrames : lev[g] \in 1 .. 3 =>
          \E p, j : Linked(t, p, j) /\ lev[p] = lev[g] + 1 /\ t[p][j].frame = g

\* Translate, of any tables and root.
Walk(t, r, v) ==
    LET e4 == t[r][pml4_index(v)]
        e3 == t[e4.frame][pdpt_index(v)]
        e2 == t[e3.frame][pd_index(v)]
        e1 == t[e2.frame][pt_index(v)]
    IN IF Present(e4) /\ Present(e3) /\ Present(e2) /\ Present(e1)
       THEN [frame |-> e1.frame,
             flags |-> e4.flags \cap e3.flags \cap e2.flags \cap e1.flags]
       ELSE NoMap

\* The walk is at cur, which is a table of level l of the tree, or a cleared
\* table outside it that the walk has made itself.
At(lev, t, F, cur, l) ==
    /\ cur \in Frames /\ cur \notin F
    /\ lev[cur] = l \/ (lev[cur] = 0 /\ t[cur] = ZeroTable)

\* A cleared table has no entry that is present.
LEMMA ZeroTableEmpty == \A j \in Index : ZeroTable[j] = Zero /\ ~ Present(ZeroTable[j])
  BY DEF ZeroTable, Zero, Present, Index

\* The entries of the tables after one has been added.
LEMMA GrownEntries ==
  ASSUME NEW t \in Memory, NEW f \in AllFrames, NEW cur \in AllFrames, cur # f,
         NEW idx \in Index, NEW fl, NEW t2, t2 = Grown(t, f, cur, idx, fl)
  PROVE  /\ t2[f] = ZeroTable
         /\ t2[cur][idx] = [frame |-> f, flags |-> fl]
         /\ \A j \in Index : j # idx => t2[cur][j] = t[cur][j]
         /\ \A p \in AllFrames : p # f /\ p # cur => t2[p] = t[p]
  <1> DEFINE u == [t EXCEPT ![f] = ZeroTable]
  <1>1. /\ u[f] = ZeroTable /\ \A p \in AllFrames : p # f => u[p] = t[p]
        /\ DOMAIN u = AllFrames /\ DOMAIN u[cur] = Index
    BY DEF Memory
  <1>2. t2 = [u EXCEPT ![cur][idx] = [frame |-> f, flags |-> fl]]
    BY DEF Grown
  <1> HIDE DEF u
  <1> QED
    BY <1>1, <1>2

\* The level of the new table: below cur where cur is in the tree and the new
\* entry is present.
Levels(lev, cur, f, fl) ==
    IF lev[cur] >= 2 /\ "P" \in fl THEN [lev EXCEPT ![f] = lev[cur] - 1] ELSE lev

\* Adding a free frame as a table, below an entry that was not present, keeps
\* the tree.
LEMMA GrownTree ==
  ASSUME NEW lev, NEW t, NEW F, NEW r, Tree(lev, t, F, r),
         NEW f \in F, NEW cur \in Frames, cur \notin F,
         NEW idx \in Index, ~ Present(t[cur][idx]), NEW fl \in SUBSET Flags,
         NEW t2, t2 = Grown(t, f, cur, idx, fl), t2 \in Memory,
         NEW lev2, lev2 = Levels(lev, cur, f, fl)
  PROVE  Tree(lev2, t2, F \ {f}, r)
  <1>0. /\ t \in Memory /\ F \in SUBSET Frames /\ r \in Frames
        /\ lev \in [AllFrames -> 0 .. 4] /\ lev[NULL] = 0 /\ lev[f] = 0
        /\ f \in AllFrames /\ cur \in AllFrames /\ f # cur /\ f # NULL
        /\ \A p \in AllFrames : lev[p] = 4 <=> p = r
        /\ \A g \in F : lev[g] = 0
    BY VirtAssumption DEF Tree, AllFrames, NULL
  <1>1. /\ t2[f] = ZeroTable /\ t2[cur][idx] = [frame |-> f, flags |-> fl]
        /\ \A j \in Index : j # idx => t2[cur][j] = t[cur][j]
        /\ \A p \in AllFrames : p # f /\ p # cur => t2[p] = t[p]
    BY <1>0, GrownEntries
  <1>2. /\ lev2 \in [AllFrames -> 0 .. 4]
        /\ \A p \in AllFrames : p # f => lev2[p] = lev[p]
        /\ lev2[f] \in 0 .. 3
        /\ lev[cur] >= 2 /\ "P" \in fl => lev2[f] = lev[cur] - 1
        /\ ~ (lev[cur] >= 2 /\ "P" \in fl) => lev2[f] = 0
    <2>1. lev[cur] \in 0 .. 4
      BY <1>0
    <2>2. CASE lev[cur] >= 2 /\ "P" \in fl
      <3>1. lev2 = [lev EXCEPT ![f] = lev[cur] - 1]
        BY <2>2 DEF Levels
      <3> QED
        BY <1>0, <2>1, <2>2, <3>1
    <2>3. CASE ~ (lev[cur] >= 2 /\ "P" \in fl)
      <3>1. lev2 = lev
        BY <2>3 DEF Levels
      <3> QED
        BY <1>0, <2>3, <3>1
    <2> QED
      BY <2>2, <2>3
  \* The links of the grown tables are the old ones and the new one.
  <1>3. ASSUME NEW p, NEW j, Linked(t2, p, j), lev2[p] >= 2
        PROVE  /\ p # f /\ lev2[p] = lev[p]
               /\ \/ p = cur /\ j = idx /\ t2[p][j].frame = f /\ lev[cur] >= 2 /\ "P" \in fl
                  \/ Linked(t, p, j) /\ t2[p][j] = t[p][j] /\ (p # cur \/ j # idx)
    <2>1. p \in AllFrames /\ j \in Index /\ Present(t2[p][j])
      BY <1>3 DEF Linked
    <2>2. p # f
      BY <1>1, <2>1, ZeroTableEmpty
    <2>3. lev2[p] = lev[p]
      BY <1>2, <2>1, <2>2
    <2>4. CASE p = cur /\ j = idx
      BY <1>1, <1>3, <2>1, <2>2, <2>3, <2>4 DEF Present
    <2>5. CASE ~ (p = cur /\ j = idx)
      <3>1. t2[p][j] = t[p][j]
        BY <1>1, <2>1, <2>2, <2>5
      <3> QED
        BY <2>1, <2>2, <2>3, <2>5, <3>1 DEF Linked
    <2> QED
      BY <2>4, <2>5
  <1>4. ASSUME NEW p, NEW j, Linked(t, p, j), lev[p] >= 2
        PROVE  /\ t[p][j].frame \in Frames /\ lev[t[p][j].frame] = lev[p] - 1
               /\ lev[p] \in 2 .. 4 /\ t[p][j].frame # f
               /\ Linked(t2, p, j) /\ t2[p][j] = t[p][j] /\ p # f
    <2>1. p \in AllFrames /\ j \in Index /\ Present(t[p][j])
      BY <1>4 DEF Linked
    <2>2. t[p][j].frame \in Frames /\ lev[t[p][j].frame] = lev[p] - 1
      BY <1>4 DEF Tree
    <2>3. lev[p] \in 2 .. 4
      BY <1>0, <1>4, <2>1
    <2>4. t[p][j].frame # f
      BY <1>0, <2>2, <2>3
    <2>5. p # f /\ ~ (p = cur /\ j = idx)
      BY <1>0, <2>1, <2>3
    <2>6. t2[p][j] = t[p][j]
      BY <1>1, <2>1, <2>5
    <2> QED
      BY <2>1, <2>2, <2>3, <2>4, <2>5, <2>6 DEF Linked
  <1>5. \A p, j : Linked(t2, p, j) /\ lev2[p] >= 2 =>
           t2[p][j].frame \in Frames /\ lev2[t2[p][j].frame] = lev2[p] - 1
    <2>1. ASSUME NEW p, NEW j, Linked(t2, p, j), lev2[p] >= 2
          PROVE  t2[p][j].frame \in Frames /\ lev2[t2[p][j].frame] = lev2[p] - 1
      <3>1. CASE p = cur /\ j = idx /\ t2[p][j].frame = f /\ lev[cur] >= 2 /\ "P" \in fl
        BY <1>0, <1>2, <1>3, <2>1, <3>1
      <3>2. CASE Linked(t, p, j) /\ t2[p][j] = t[p][j]
        <4>1. lev[p] >= 2 /\ lev2[p] = lev[p]
          BY <1>3, <2>1
        <4>2. /\ t[p][j].frame \in Frames /\ lev[t[p][j].frame] = lev[p] - 1
              /\ t[p][j].frame # f
          BY <1>4, <3>2, <4>1
        <4> QED
          BY <1>2, <3>2, <4>1, <4>2 DEF AllFrames
      <3> QED
        BY <1>3, <2>1, <3>1, <3>2
    <2> QED
      BY <2>1
  <1>6. \A p, q, j, k :
          /\ Linked(t2, p, j) /\ lev2[p] >= 2 /\ Linked(t2, q, k) /\ lev2[q] >= 2
          /\ t2[p][j].frame = t2[q][k].frame
          => p = q /\ j = k
    <2>1. ASSUME NEW p, NEW q, NEW j, NEW k,
                 Linked(t2, p, j), lev2[p] >= 2, Linked(t2, q, k), lev2[q] >= 2,
                 t2[p][j].frame = t2[q][k].frame
          PROVE  p = q /\ j = k
      <3>1. \/ p = cur /\ j = idx /\ t2[p][j].frame = f
            \/ Linked(t, p, j) /\ t2[p][j] = t[p][j] /\ lev[p] >= 2
        BY <1>3, <2>1
      <3>2. \/ q = cur /\ k = idx /\ t2[q][k].frame = f
            \/ Linked(t, q, k) /\ t2[q][k] = t[q][k] /\ lev[q] >= 2
        BY <1>3, <2>1
      <3>3. CASE p = cur /\ j = idx /\ t2[p][j].frame = f
        BY <1>4, <2>1, <3>2, <3>3
      <3>4. CASE Linked(t, p, j) /\ t2[p][j] = t[p][j] /\ lev[p] >= 2
        <4>1. t2[p][j].frame # f
          BY <1>4, <3>4
        <4>2. Linked(t, q, k) /\ t2[q][k] = t[q][k] /\ lev[q] >= 2
          BY <2>1, <3>2, <4>1
        <4> QED
          BY <2>1, <3>4, <4>2 DEF Tree
      <3> QED
        BY <3>1, <3>3, <3>4
    <2> QED
      BY <2>1
  <1>7. \A g \in AllFrames : lev2[g] \in 1 .. 3 =>
          \E p, j : Linked(t2, p, j) /\ lev2[p] = lev2[g] + 1 /\ t2[p][j].frame = g
    <2>1. ASSUME NEW g \in AllFrames, lev2[g] \in 1 .. 3
          PROVE  \E p, j : Linked(t2, p, j) /\ lev2[p] = lev2[g] + 1 /\ t2[p][j].frame = g
      <3>1. CASE g = f
        <4>1. lev[cur] >= 2 /\ "P" \in fl /\ lev2[f] = lev[cur] - 1
          BY <1>2, <2>1, <3>1
        <4>2. Linked(t2, cur, idx) /\ t2[cur][idx].frame = f
          BY <1>0, <1>1, <4>1 DEF Linked, Present
        <4>3. lev2[cur] = lev2[f] + 1
          BY <1>0, <1>2, <4>1
        <4> QED
          BY <3>1, <4>2, <4>3
      <3>2. CASE g # f
        <4>1. lev[g] = lev2[g]
          BY <1>2, <3>2
        <4>2. PICK p, j : Linked(t, p, j) /\ lev[p] = lev[g] + 1 /\ t[p][j].frame = g
          BY <2>1, <4>1 DEF Tree
        <4>3. lev[p] >= 2
          BY <2>1, <4>1, <4>2
        <4>4. Linked(t2, p, j) /\ t2[p][j] = t[p][j] /\ p # f
          BY <1>4, <4>2, <4>3
        <4>5. lev2[p] = lev[p]
          BY <1>2, <4>4 DEF Linked
        <4> QED
          BY <4>1, <4>2, <4>4, <4>5
      <3> QED
        BY <3>1, <3>2
    <2> QED
      BY <2>1
  <1>8. /\ \A p \in AllFrames : lev2[p] = 4 <=> p = r
        /\ lev2[NULL] = 0 /\ \A g \in F \ {f} : lev2[g] = 0
    <2>1. r # f
      BY <1>0
    <2>2. \A p \in AllFrames : lev2[p] = 4 <=> p = r
      BY <1>0, <1>2, <2>1
    <2>3. lev2[NULL] = 0
      BY <1>0, <1>2 DEF AllFrames
    <2>4. \A g \in F \ {f} : lev2[g] = 0
      BY <1>0, <1>2 DEF AllFrames
    <2> QED
      BY <2>2, <2>3, <2>4
  <1> QED
    BY <1>0, <1>2, <1>5, <1>6, <1>7, <1>8 DEF Tree

\* The table that entry j of p leads to.
Child(t, p, j) == t[p][j].frame

\* A link of the tree leads one level down.
LEMMA LinkLevel ==
  ASSUME NEW lev, NEW t, NEW F, NEW r, Tree(lev, t, F, r),
         NEW p \in AllFrames, NEW j \in Index, Present(t[p][j]), lev[p] \in 2 .. 4,
         NEW c, c = Child(t, p, j)
  PROVE  Linked(t, p, j) /\ c \in Frames /\ c \in AllFrames /\ lev[c] = lev[p] - 1
  <1>1. Linked(t, p, j)
    BY DEF Linked
  <1>2. lev[p] >= 2
    OBVIOUS
  <1> QED
    BY <1>1, <1>2 DEF Tree, AllFrames, Child

\* The tables a walk passes while its entries are present are of levels 4 to 1.
LEMMA WalkLevels ==
  ASSUME NEW lev, NEW t, NEW F, NEW r, Tree(lev, t, F, r),
         NEW i4 \in Index, NEW i3 \in Index, NEW i2 \in Index,
         NEW c3, c3 = Child(t, r, i4),
         NEW c2, c2 = Child(t, c3, i3),
         NEW c1, c1 = Child(t, c2, i2)
  PROVE  /\ r \in AllFrames /\ lev[r] = 4
         /\ Present(t[r][i4]) =>
               Linked(t, r, i4) /\ c3 \in AllFrames /\ lev[c3] = 3
         /\ Present(t[r][i4]) /\ Present(t[c3][i3]) =>
               Linked(t, c3, i3) /\ c2 \in AllFrames /\ lev[c2] = 2
         /\ Present(t[r][i4]) /\ Present(t[c3][i3]) /\ Present(t[c2][i2]) =>
               Linked(t, c2, i2) /\ c1 \in AllFrames /\ lev[c1] = 1
  <1>1. r \in AllFrames /\ lev[r] = 4
    BY DEF Tree, AllFrames
  <1>2. ASSUME Present(t[r][i4])
        PROVE  Linked(t, r, i4) /\ c3 \in AllFrames /\ lev[c3] = 3
    <2>1. lev[r] \in 2 .. 4
      BY <1>1
    <2>2. Linked(t, r, i4) /\ c3 \in AllFrames /\ lev[c3] = lev[r] - 1
      BY <1>1, <1>2, <2>1, LinkLevel
    <2> QED
      BY <1>1, <2>2
  <1>3. ASSUME Present(t[r][i4]), Present(t[c3][i3])
        PROVE  Linked(t, c3, i3) /\ c2 \in AllFrames /\ lev[c2] = 2
    <2>1. c3 \in AllFrames /\ lev[c3] \in 2 .. 4 /\ lev[c3] = 3
      BY <1>2, <1>3
    <2>2. Linked(t, c3, i3) /\ c2 \in AllFrames /\ lev[c2] = lev[c3] - 1
      BY <1>3, <2>1, LinkLevel
    <2> QED
      BY <2>1, <2>2
  <1>4. ASSUME Present(t[r][i4]), Present(t[c3][i3]), Present(t[c2][i2])
        PROVE  Linked(t, c2, i2) /\ c1 \in AllFrames /\ lev[c1] = 1
    <2>1. c2 \in AllFrames /\ lev[c2] \in 2 .. 4 /\ lev[c2] = 2
      BY <1>3, <1>4
    <2>2. Linked(t, c2, i2) /\ c1 \in AllFrames /\ lev[c1] = lev[c2] - 1
      BY <1>4, <2>1, LinkLevel
    <2> QED
      BY <2>1, <2>2
  <1> QED
    BY <1>1, <1>2, <1>3, <1>4

\* What the walk says, from the four entries it reads.
Grant(e4, e3, e2, e1) ==
    IF Present(e4) /\ Present(e3) /\ Present(e2) /\ Present(e1)
    THEN [frame |-> e1.frame,
          flags |-> e4.flags \cap e3.flags \cap e2.flags \cap e1.flags]
    ELSE NoMap

\* A walk, taken apart into the tables it passes.
LEMMA WalkSteps ==
  ASSUME NEW t, NEW r, NEW v
  PROVE  \E c3, c2, c1 :
            /\ c3 = Child(t, r, pml4_index(v))
            /\ c2 = Child(t, c3, pdpt_index(v))
            /\ c1 = Child(t, c2, pd_index(v))
            /\ Walk(t, r, v) = Grant(t[r][pml4_index(v)], t[c3][pdpt_index(v)],
                                     t[c2][pd_index(v)], t[c1][pt_index(v)])
  BY DEF Walk, Grant, Child

\* Adding a table changes no translation: the entry it is put in was not
\* present, and the new table is empty.
LEMMA GrownWalk ==
  ASSUME NEW lev, NEW t, NEW F, NEW r, Tree(lev, t, F, r),
         NEW f \in F, NEW cur \in Frames, cur \notin F, lev[cur] # 1,
         NEW idx \in Index, ~ Present(t[cur][idx]), NEW fl,
         NEW t2, t2 = Grown(t, f, cur, idx, fl), NEW v \in Pages
  PROVE  Walk(t2, r, v) = Walk(t, r, v)
  <1> DEFINE i4 == pml4_index(v)
             i3 == pdpt_index(v)
             i2 == pd_index(v)
             i1 == pt_index(v)
  <1>0. /\ t \in Memory /\ f \in AllFrames /\ cur \in AllFrames /\ f # cur /\ r \in AllFrames
        /\ r # f /\ lev[f] = 0
        /\ i4 \in Index /\ i3 \in Index /\ i2 \in Index /\ i1 \in Index
    BY IndexInTable DEF Tree, AllFrames, Index
  <1>1. /\ t2[f] = ZeroTable /\ t2[cur][idx] = [frame |-> f, flags |-> fl]
        /\ \A j \in Index : j # idx => t2[cur][j] = t[cur][j]
        /\ \A p \in AllFrames : p # f /\ p # cur => t2[p] = t[p]
    BY <1>0, GrownEntries
  \* An entry of a table other than f keeps its value, or is the new one, and
  \* then what follows it is not present.
  <1>2. ASSUME NEW p \in AllFrames, p # f, NEW j \in Index
        PROVE  \/ t2[p][j] = t[p][j] /\ Child(t2, p, j) = Child(t, p, j)
               \/ ~ Present(t[p][j]) /\ Child(t2, p, j) = f
    BY <1>1, <1>2 DEF Child
  <1>3. \A j \in Index : ~ Present(t2[f][j])
    BY <1>1, ZeroTableEmpty
  <1>c. PICK c3, c2, c1 :
            /\ c3 = Child(t, r, i4) /\ c2 = Child(t, c3, i3) /\ c1 = Child(t, c2, i2)
            /\ Walk(t, r, v) = Grant(t[r][i4], t[c3][i3], t[c2][i2], t[c1][i1])
    BY WalkSteps
  <1>b. PICK b3, b2, b1 :
            /\ b3 = Child(t2, r, i4) /\ b2 = Child(t2, b3, i3) /\ b1 = Child(t2, b2, i2)
            /\ Walk(t2, r, v) = Grant(t2[r][i4], t2[b3][i3], t2[b2][i2], t2[b1][i1])
    BY WalkSteps
  <1> HIDE DEF i4, i3, i2, i1
  <1>l. /\ Present(t[r][i4]) => c3 \in AllFrames /\ lev[c3] = 3
        /\ Present(t[r][i4]) /\ Present(t[c3][i3]) => c2 \in AllFrames /\ lev[c2] = 2
        /\ Present(t[r][i4]) /\ Present(t[c3][i3]) /\ Present(t[c2][i2]) =>
              c1 \in AllFrames /\ lev[c1] = 1
    BY <1>0, <1>c, WalkLevels
  <1>4. \/ t2[r][i4] = t[r][i4] /\ b3 = c3
        \/ ~ Present(t[r][i4]) /\ b3 = f
    BY <1>0, <1>2, <1>b, <1>c
  <1>5. ASSUME Present(t[r][i4])
        PROVE  /\ t2[r][i4] = t[r][i4] /\ b3 = c3
               /\ \/ t2[c3][i3] = t[c3][i3] /\ b2 = c2
                  \/ ~ Present(t[c3][i3]) /\ b2 = f
    <2>1. t2[r][i4] = t[r][i4] /\ b3 = c3
      BY <1>4, <1>5, <1>b, <1>c
    <2>2. c3 \in AllFrames /\ c3 # f
      BY <1>0, <1>5, <1>l
    <2> QED
      BY <1>0, <1>2, <1>b, <1>c, <2>1, <2>2
  <1>6. ASSUME Present(t[r][i4]), Present(t[c3][i3])
        PROVE  /\ t2[r][i4] = t[r][i4] /\ b3 = c3 /\ t2[c3][i3] = t[c3][i3] /\ b2 = c2
               /\ \/ t2[c2][i2] = t[c2][i2] /\ b1 = c1
                  \/ ~ Present(t[c2][i2]) /\ b1 = f
    <2>1. t2[r][i4] = t[r][i4] /\ b3 = c3 /\ t2[c3][i3] = t[c3][i3] /\ b2 = c2
      BY <1>5, <1>6, <1>b, <1>c
    <2>2. c2 \in AllFrames /\ c2 # f
      BY <1>0, <1>6, <1>l
    <2> QED
      BY <1>0, <1>2, <1>b, <1>c, <2>1, <2>2
  <1>7. ASSUME Present(t[r][i4]), Present(t[c3][i3]), Present(t[c2][i2])
        PROVE  /\ t2[r][i4] = t[r][i4] /\ b3 = c3 /\ t2[c3][i3] = t[c3][i3] /\ b2 = c2
               /\ t2[c2][i2] = t[c2][i2] /\ b1 = c1 /\ t2[c1][i1] = t[c1][i1]
    <2>1. /\ t2[r][i4] = t[r][i4] /\ b3 = c3 /\ t2[c3][i3] = t[c3][i3] /\ b2 = c2
          /\ t2[c2][i2] = t[c2][i2] /\ b1 = c1
      BY <1>6, <1>7, <1>b, <1>c
    <2>2. c1 \in AllFrames /\ c1 # f /\ c1 # cur
      BY <1>0, <1>7, <1>l
    <2>3. t2[c1][i1] = t[c1][i1]
      BY <1>1, <2>2
    <2> QED
      BY <2>1, <2>3
  <1>8. CASE Present(t[r][i4]) /\ Present(t[c3][i3]) /\ Present(t[c2][i2])
    BY <1>b, <1>c, <1>7, <1>8
  <1>9. CASE ~ (Present(t[r][i4]) /\ Present(t[c3][i3]) /\ Present(t[c2][i2]))
    <2>1. ~ (Present(t2[r][i4]) /\ Present(t2[b3][i3]) /\ Present(t2[b2][i2])
             /\ Present(t2[b1][i1]))
      <3>1. CASE ~ Present(t[r][i4])
        BY <1>0, <1>3, <1>4, <3>1
      <3>2. CASE Present(t[r][i4]) /\ ~ Present(t[c3][i3])
        BY <1>0, <1>3, <1>5, <3>2
      <3>3. CASE Present(t[r][i4]) /\ Present(t[c3][i3]) /\ ~ Present(t[c2][i2])
        BY <1>0, <1>3, <1>6, <3>3
      <3> QED
        BY <1>9, <3>1, <3>2, <3>3
    <2> QED
      BY <1>b, <1>c, <1>9, <2>1 DEF Grant
  <1> QED
    BY <1>8, <1>9

-----------------------------------------------------------------------------
(* A whole step: three levels down and one entry written.                  *)

\* What one level of the walk, from entry idx of cur to nxt, does to the tree.
Stepped(lev, t, F, r, cur, idx, fl, l, lev2, t2, F2, nxt) ==
    /\ Tree(lev2, t2, F2, r) /\ F2 \subseteq F
    /\ At(lev2, t2, F2, nxt, l - 1)
    /\ nxt \in F \/ lev[nxt] = l - 1
    /\ Child(t2, cur, idx) = nxt
    /\ lev2[nxt] = l - 1 => lev2[cur] = l /\ Present(t2[cur][idx])
    /\ \A p \in AllFrames : p \notin F => lev2[p] = lev[p]
    /\ \A p \in AllFrames : p \notin F /\ p # cur => t2[p] = t[p]
    /\ \A v \in Pages : Walk(t2, r, v) = Walk(t, r, v)
    /\ Present(t[cur][idx]) => t2 = t /\ F2 = F /\ lev2 = lev
    /\ "P" \in fl => Present(t2[cur][idx])
    /\ "P" \in fl /\ lev[cur] = l =>
          /\ lev2[nxt] = l - 1
          /\ \A p \in AllFrames : lev2[p] >= 1 \/ p \in F2 <=> lev[p] >= 1 \/ p \in F

\* One level of the walk, while memory lasts, keeps the tree and every
\* translation.
LEMMA DescendTree ==
  ASSUME NEW lev, NEW t, NEW F, NEW r, Tree(lev, t, F, r),
         NEW l \in 2 .. 4, NEW cur, At(lev, t, F, cur, l), NEW idx \in Index,
         NEW fl \in SUBSET Flags, NEW o \in BOOLEAN,
         NEW t2, NEW F2, NEW o2, NEW nxt,
         Descend(t, F, o, cur, idx, fl, t2, F2, o2, nxt), ~ o2
  PROVE  \E lev2 : Stepped(lev, t, F, r, cur, idx, fl, l, lev2, t2, F2, nxt)
  <1>0. /\ t \in Memory /\ F \in SUBSET Frames /\ lev \in [AllFrames -> 0 .. 4]
        /\ cur \in Frames /\ cur \in AllFrames /\ cur \notin F
        /\ lev[cur] = l \/ (lev[cur] = 0 /\ t[cur] = ZeroTable)
        /\ \A f \in F : lev[f] = 0
    BY DEF Tree, At, AllFrames
  <1>1. CASE Present(t[cur][idx])
    <2>1. t2 = t /\ F2 = F /\ nxt = Child(t, cur, idx)
      BY <1>1 DEF Descend, Child
    <2>2. lev[cur] = l
      BY <1>0, <1>1, ZeroTableEmpty
    <2>3. nxt \in Frames /\ lev[nxt] = l - 1
      <3>1. lev[cur] \in 2 .. 4
        BY <2>2
      <3> QED
        BY <1>0, <1>1, <2>1, <2>2, <3>1, LinkLevel
    <2>4. nxt \notin F
      BY <1>0, <2>3
    <2>5. At(lev, t, F, nxt, l - 1)
      BY <2>3, <2>4 DEF At
    <2>6. Stepped(lev, t, F, r, cur, idx, fl, l, lev, t, F, nxt)
      BY <1>1, <2>1, <2>2, <2>3, <2>5 DEF Stepped
    <2> QED
      BY <2>1, <2>6
  <1>2. CASE ~ Present(t[cur][idx])
    <2> DEFINE f == Alloc(F)
               lev2 == Levels(lev, cur, f, fl)
    <2>1. /\ t2 = Grown(t, f, cur, idx, fl) /\ F2 = F \ {f} /\ nxt = f
          /\ f # NULL
      BY <1>2 DEF Descend
    <2>2. f \in F
      <3>1. IsFiniteSet(F) /\ F \in SUBSET Nat
        BY <1>0, VirtAssumption, FS_Subset
      <3>2. F # {} => Min(F) \in F
        BY <3>1, MinIsLeast
      <3> QED
        BY <2>1, <3>2 DEF Alloc
    <2>3. lev2 = Levels(lev, cur, f, fl)
      OBVIOUS
    <2> HIDE DEF f, lev2
    <2>4. t2 \in Memory
      BY <1>0, DescendTypes
    <2>5. Tree(lev2, t2, F2, r)
      BY <1>0, <1>2, <2>1, <2>2, <2>3, <2>4, GrownTree
    <2>6. lev[cur] # 1
      BY <1>0
    <2>7. \A v \in Pages : Walk(t2, r, v) = Walk(t, r, v)
      BY <1>0, <1>2, <2>1, <2>2, <2>6, GrownWalk
    <2>8. /\ t2[f] = ZeroTable /\ t2[cur][idx] = [frame |-> f, flags |-> fl]
          /\ \A p \in AllFrames : p # f /\ p # cur => t2[p] = t[p]
          /\ f \in AllFrames /\ f \in Frames /\ f # cur
      <3>1. f \in AllFrames /\ f \in Frames /\ f # cur
        BY <1>0, <2>2 DEF AllFrames
      <3> QED
        BY <1>0, <2>1, <3>1, GrownEntries
    <2>9. /\ \A p \in AllFrames : p # f => lev2[p] = lev[p]
          /\ lev[cur] = l /\ "P" \in fl => lev2[f] = l - 1
          /\ ~ (lev[cur] = l /\ "P" \in fl) => lev2[f] = 0
      <3>1. CASE lev[cur] >= 2 /\ "P" \in fl
        <4>1. lev2 = [lev EXCEPT ![f] = lev[cur] - 1]
          BY <2>3, <3>1 DEF Levels
        <4> QED
          BY <1>0, <2>8, <3>1, <4>1
      <3>2. CASE ~ (lev[cur] >= 2 /\ "P" \in fl)
        <4>1. lev2 = lev
          BY <2>3, <3>2 DEF Levels
        <4> QED
          BY <1>0, <2>2, <3>2, <4>1
      <3> QED
        BY <3>1, <3>2
    <2>10. At(lev2, t2, F2, nxt, l - 1)
      BY <2>1, <2>8, <2>9 DEF At
    <2>11. Child(t2, cur, idx) = nxt /\ ("P" \in fl => Present(t2[cur][idx]))
      BY <2>1, <2>8 DEF Child, Present
    <2>12. lev2[nxt] = l - 1 => lev2[cur] = l /\ Present(t2[cur][idx])
      BY <1>0, <2>1, <2>8, <2>9, <2>11
    <2>13. "P" \in fl /\ lev[cur] = l =>
             /\ lev2[nxt] = l - 1
             /\ \A p \in AllFrames : lev2[p] >= 1 \/ p \in F2 <=> lev[p] >= 1 \/ p \in F
      BY <2>1, <2>2, <2>9
    <2>14. /\ \A p \in AllFrames : p \notin F => lev2[p] = lev[p]
           /\ \A p \in AllFrames : p \notin F /\ p # cur => t2[p] = t[p]
           /\ F2 \subseteq F /\ nxt \in F
      BY <2>1, <2>2, <2>8, <2>9
    <2>15. Stepped(lev, t, F, r, cur, idx, fl, l, lev2, t2, F2, nxt)
      BY <1>2, <2>5, <2>7, <2>10, <2>11, <2>12, <2>13, <2>14 DEF Stepped
    <2> QED
      BY <2>15
  <1> QED
    BY <1>1, <1>2

\* The walk for page v has gone from r by p3 and p2 to p1.
Path(lev, t, F, r, v, p3, p2, p1) ==
    /\ r \in AllFrames /\ p3 \in AllFrames /\ p2 \in AllFrames /\ p1 \in AllFrames
    /\ p1 # r /\ p1 # p3 /\ p1 # p2 /\ p1 \notin F
    /\ Child(t, r, pml4_index(v)) = p3
    /\ Child(t, p3, pdpt_index(v)) = p2
    /\ Child(t, p2, pd_index(v)) = p1
    /\ lev[p1] \in {0, 1}
    /\ lev[p1] = 1 => lev[p2] = 2 /\ Present(t[p2][pd_index(v)])
    /\ lev[p2] = 2 => lev[p3] = 3 /\ Present(t[p3][pdpt_index(v)])
    /\ lev[p3] = 3 => Present(t[r][pml4_index(v)])

\* What the three levels of the walk do to the tree.
Descended(lev, t, F, r, v, fl, lev3, t3, F3, p3, p2, p1) ==
    /\ Tree(lev3, t3, F3, r)
    /\ Path(lev3, t3, F3, r, v, p3, p2, p1)
    /\ \A w \in Pages : Walk(t3, r, w) = Walk(t, r, w)
    /\ "P" \in fl =>
          /\ Present(t3[r][pml4_index(v)]) /\ Present(t3[p3][pdpt_index(v)])
          /\ Present(t3[p2][pd_index(v)])
          /\ \A p \in AllFrames : lev3[p] >= 1 \/ p \in F3 <=> lev[p] >= 1 \/ p \in F
    /\ Walk(t, r, v) # NoMap => t3 = t /\ F3 = F /\ lev3 = lev

\* Three levels of the walk, while memory lasts, keep the tree and every
\* translation.
LEMMA DescentTree ==
  ASSUME NEW lev, NEW t, NEW F, NEW r, Tree(lev, t, F, r), NEW v \in Pages,
         NEW fl \in SUBSET Flags, NEW o \in BOOLEAN,
         NEW t1, NEW F1, NEW o1, NEW p3, NEW t2, NEW F2, NEW o2, NEW p2,
         NEW t3, NEW F3, NEW o3, NEW p1,
         Descend(t, F, o, r, pml4_index(v), fl, t1, F1, o1, p3),
         Descend(t1, F1, o1, p3, pdpt_index(v), fl, t2, F2, o2, p2),
         Descend(t2, F2, o2, p2, pd_index(v), fl, t3, F3, o3, p1), ~ o3
  PROVE  \E lev3 : Descended(lev, t, F, r, v, fl, lev3, t3, F3, p3, p2, p1)
  <1> DEFINE i4 == pml4_index(v)
             i3 == pdpt_index(v)
             i2 == pd_index(v)
  <1>0. i4 \in Index /\ i3 \in Index /\ i2 \in Index
    BY IndexInTable DEF Index
  <1>1. t \in Memory /\ F \in SUBSET Frames /\ r \in Frames /\ r \in AllFrames /\ lev[r] = 4
    BY DEF Tree, AllFrames
  <1>2. /\ t1 \in Memory /\ F1 \in SUBSET Frames /\ o1 \in BOOLEAN
        /\ t2 \in Memory /\ F2 \in SUBSET Frames /\ o2 \in BOOLEAN
        /\ t3 \in Memory /\ F3 \in SUBSET Frames /\ o3 \in BOOLEAN
        /\ ~ o1 /\ ~ o2
    <2>1. t1 \in Memory /\ F1 \in SUBSET Frames /\ o1 \in BOOLEAN
      BY <1>1, DescendTypes
    <2>2. t2 \in Memory /\ F2 \in SUBSET Frames /\ o2 \in BOOLEAN /\ (~ o2 => ~ o1)
      BY <2>1, DescendTypes
    <2>3. t3 \in Memory /\ F3 \in SUBSET Frames /\ o3 \in BOOLEAN /\ (~ o3 => ~ o2)
      BY <2>2, DescendTypes
    <2> QED
      BY <2>1, <2>2, <2>3, Zenon
  <1> HIDE DEF i4, i3, i2
  <1>3. At(lev, t, F, r, 4)
    BY <1>1 DEF At, Tree
  <1>d. /\ Descend(t, F, o, r, i4, fl, t1, F1, o1, p3)
        /\ Descend(t1, F1, o1, p3, i3, fl, t2, F2, o2, p2)
        /\ Descend(t2, F2, o2, p2, i2, fl, t3, F3, o3, p1)
    BY DEF i4, i3, i2
  <1>4. PICK lev1 : Stepped(lev, t, F, r, r, i4, fl, 4, lev1, t1, F1, p3)
    <2>1. 4 \in 2 .. 4
      OBVIOUS
    <2> QED
      BY <1>0, <1>2, <1>3, <1>d, <2>1, DescendTree
  <1>5. PICK lev2 : Stepped(lev1, t1, F1, r, p3, i3, fl, 3, lev2, t2, F2, p2)
    <2>1. Tree(lev1, t1, F1, r) /\ At(lev1, t1, F1, p3, 3)
      BY <1>4 DEF Stepped
    <2>2. 3 \in 2 .. 4
      OBVIOUS
    <2> QED
      BY <1>0, <1>2, <1>d, <2>1, <2>2, DescendTree
  <1>6. PICK lev3 : Stepped(lev2, t2, F2, r, p2, i2, fl, 2, lev3, t3, F3, p1)
    <2>1. Tree(lev2, t2, F2, r) /\ At(lev2, t2, F2, p2, 2)
      BY <1>5 DEF Stepped
    <2>2. 2 \in 2 .. 4
      OBVIOUS
    <2> QED
      BY <1>0, <1>2, <1>d, <2>1, <2>2, DescendTree
  \* Where the tables of the walk are, and that they are different ones.
  <1>7. /\ F3 \subseteq F2 /\ F2 \subseteq F1 /\ F1 \subseteq F
        /\ r \notin F /\ p3 \notin F1 /\ p2 \notin F2 /\ p1 \notin F3
        /\ p3 \in AllFrames /\ p2 \in AllFrames /\ p1 \in AllFrames
    BY <1>3, <1>4, <1>5, <1>6 DEF Stepped, At, AllFrames
  <1>8. /\ lev1[r] = 4 /\ lev2[r] = 4 /\ lev3[r] = 4
        /\ lev1[p3] \in {0, 3} /\ lev2[p3] = lev1[p3] /\ lev3[p3] = lev1[p3]
        /\ lev2[p2] \in {0, 2} /\ lev3[p2] = lev2[p2]
        /\ lev3[p1] \in {0, 1}
    <2>1. Tree(lev1, t1, F1, r) /\ Tree(lev2, t2, F2, r) /\ Tree(lev3, t3, F3, r)
      BY <1>4, <1>5, <1>6 DEF Stepped
    <2>2. lev1[r] = 4 /\ lev2[r] = 4 /\ lev3[r] = 4
      BY <1>1, <2>1 DEF Tree
    <2>3. lev1[p3] \in {0, 3}
      BY <1>4 DEF Stepped, At
    <2>4. lev2[p2] \in {0, 2}
      BY <1>5 DEF Stepped, At
    <2>5. lev3[p1] \in {0, 1}
      BY <1>6 DEF Stepped, At
    <2>6. lev2[p3] = lev1[p3]
      BY <1>5, <1>7 DEF Stepped
    <2>7. lev3[p3] = lev2[p3] /\ lev3[p2] = lev2[p2]
      <3>1. p3 \notin F2
        BY <1>7
      <3> QED
        BY <1>6, <1>7, <3>1 DEF Stepped
    <2> QED
      BY <2>2, <2>3, <2>4, <2>5, <2>6, <2>7
  <1>9. r # p3 /\ r # p2 /\ p3 # p2 /\ p1 # r /\ p1 # p3 /\ p1 # p2
    <2>1. p3 \in F \/ lev[p3] = 3
      BY <1>4 DEF Stepped
    <2>2. p2 \in F1 \/ lev1[p2] = 2
      BY <1>5 DEF Stepped
    <2>3. p1 \in F2 \/ lev2[p1] = 1
      BY <1>6 DEF Stepped
    <2>4. r # p3
      BY <1>1, <1>7, <2>1
    <2>5. r # p2 /\ p3 # p2
      BY <1>7, <1>8, <2>2
    <2>6. p1 # r /\ p1 # p3 /\ p1 # p2
      <3>1. r \notin F2 /\ p3 \notin F2 /\ p2 \notin F2
        BY <1>7
      <3> QED
        BY <1>8, <2>3, <3>1
    <2> QED
      BY <2>4, <2>5, <2>6
  <1>10. /\ t3[r] = t2[r] /\ t2[r] = t1[r]
         /\ t3[p3] = t2[p3]
    <2>1. r \notin F1 /\ r \notin F2 /\ p3 \notin F2
      BY <1>7
    <2>2. t2[r] = t1[r]
      BY <1>1, <1>5, <1>9, <2>1 DEF Stepped
    <2>3. t3[r] = t2[r] /\ t3[p3] = t2[p3]
      BY <1>1, <1>6, <1>7, <1>9, <2>1 DEF Stepped
    <2> QED
      BY <2>2, <2>3
  <1>11. /\ Child(t3, r, i4) = p3 /\ Child(t3, p3, i3) = p2 /\ Child(t3, p2, i2) = p1
    <2>1. Child(t1, r, i4) = p3 /\ Child(t2, p3, i3) = p2 /\ Child(t3, p2, i2) = p1
      BY <1>4, <1>5, <1>6 DEF Stepped
    <2> QED
      BY <1>10, <2>1 DEF Child
  <1>12. /\ lev3[p1] = 1 => lev3[p2] = 2 /\ Present(t3[p2][i2])
         /\ lev3[p2] = 2 => lev3[p3] = 3 /\ Present(t3[p3][i3])
         /\ lev3[p3] = 3 => Present(t3[r][i4])
    <2>1. lev1[p3] = 4 - 1 => Present(t1[r][i4])
      BY <1>4 DEF Stepped
    <2>2. lev2[p2] = 3 - 1 => lev2[p3] = 3 /\ Present(t2[p3][i3])
      BY <1>5 DEF Stepped
    <2>3. lev3[p1] = 2 - 1 => lev3[p2] = 2 /\ Present(t3[p2][i2])
      BY <1>6 DEF Stepped
    <2> QED
      BY <1>8, <1>10, <2>1, <2>2, <2>3
  <1>13. Path(lev3, t3, F3, r, v, p3, p2, p1)
    BY <1>1, <1>7, <1>8, <1>9, <1>11, <1>12 DEF Path, i4, i3, i2
  <1>14. \A w \in Pages : Walk(t3, r, w) = Walk(t, r, w)
    BY <1>4, <1>5, <1>6 DEF Stepped
  <1>15. ASSUME "P" \in fl
         PROVE  /\ Present(t3[r][i4]) /\ Present(t3[p3][i3]) /\ Present(t3[p2][i2])
                /\ \A p \in AllFrames : lev3[p] >= 1 \/ p \in F3 <=> lev[p] >= 1 \/ p \in F
    <2>1. Present(t1[r][i4]) /\ Present(t2[p3][i3]) /\ Present(t3[p2][i2])
      BY <1>4, <1>5, <1>6, <1>15 DEF Stepped
    <2>2. /\ lev1[p3] = 3
          /\ \A p \in AllFrames : lev1[p] >= 1 \/ p \in F1 <=> lev[p] >= 1 \/ p \in F
      <3>1. lev1[p3] = 4 - 1
        BY <1>1, <1>4, <1>15 DEF Stepped
      <3>2. \A p \in AllFrames : lev1[p] >= 1 \/ p \in F1 <=> lev[p] >= 1 \/ p \in F
        BY <1>1, <1>4, <1>15 DEF Stepped
      <3> QED
        BY <3>1, <3>2
    <2>3. /\ lev2[p2] = 2
          /\ \A p \in AllFrames : lev2[p] >= 1 \/ p \in F2 <=> lev1[p] >= 1 \/ p \in F1
      <3>1. lev2[p2] = 3 - 1
        BY <2>2, <1>5, <1>15 DEF Stepped
      <3>2. \A p \in AllFrames : lev2[p] >= 1 \/ p \in F2 <=> lev1[p] >= 1 \/ p \in F1
        BY <2>2, <1>5, <1>15 DEF Stepped
      <3> QED
        BY <3>1, <3>2
    <2>4. \A p \in AllFrames : lev3[p] >= 1 \/ p \in F3 <=> lev2[p] >= 1 \/ p \in F2
      BY <2>3, <1>6, <1>15 DEF Stepped
    <2> QED
      BY <1>10, <2>1, <2>2, <2>3, <2>4
  <1>16. ASSUME Walk(t, r, v) # NoMap PROVE t3 = t /\ F3 = F /\ lev3 = lev
    <2>1. PICK c3, c2, c1 :
            /\ c3 = Child(t, r, i4) /\ c2 = Child(t, c3, i3) /\ c1 = Child(t, c2, i2)
            /\ Walk(t, r, v) = Grant(t[r][i4], t[c3][i3], t[c2][i2], t[c1][pt_index(v)])
      BY WalkSteps DEF i4, i3, i2
    <2>2. Present(t[r][i4]) /\ Present(t[c3][i3]) /\ Present(t[c2][i2])
      BY <1>16, <2>1 DEF Grant
    <2>3. t1 = t /\ F1 = F /\ lev1 = lev
      BY <1>4, <2>2 DEF Stepped
    <2>4. p3 = c3
      BY <1>4, <2>1, <2>3 DEF Stepped
    <2>5. t2 = t /\ F2 = F /\ lev2 = lev
      BY <1>5, <2>2, <2>3, <2>4 DEF Stepped
    <2>6. p2 = c2
      BY <1>5, <2>1, <2>4, <2>5 DEF Stepped
    <2> QED
      BY <1>6, <2>2, <2>5, <2>6 DEF Stepped
  <1>17. Tree(lev3, t3, F3, r)
    BY <1>6 DEF Stepped
  <1>18. Descended(lev, t, F, r, v, fl, lev3, t3, F3, p3, p2, p1)
    BY <1>13, <1>14, <1>15, <1>16, <1>17 DEF Descended, i4, i3, i2
  <1> QED
    BY <1>18

\* t with value in entry i of p.
Written(t, p, i, value) == [t EXCEPT ![p][i] = value]

\* The entries of the tables after one has been written.
LEMMA WrittenEntries ==
  ASSUME NEW t \in Memory, NEW p \in AllFrames, NEW i \in Index,
         NEW value \in PageEntry, NEW t4, t4 = Written(t, p, i, value)
  PROVE  /\ t4 \in Memory /\ t4[p][i] = value
         /\ \A q \in AllFrames, j \in Index :
              ~ (q = p /\ j = i) => t4[q][j] = t[q][j] /\ Child(t4, q, j) = Child(t, q, j)
  <1>1. t4 \in Memory /\ t4[p][i] = value
    BY DEF Memory, Written
  <1>2. \A q \in AllFrames, j \in Index : ~ (q = p /\ j = i) => t4[q][j] = t[q][j]
    BY DEF Memory, Written
  <1> QED
    BY <1>1, <1>2 DEF Child

\* Writing an entry of a table that is not of level 4, 3 or 2 keeps the tree.
LEMMA WrittenTree ==
  ASSUME NEW lev, NEW t, NEW F, NEW r, Tree(lev, t, F, r),
         NEW p \in AllFrames, lev[p] \in {0, 1}, NEW i \in Index,
         NEW value \in PageEntry, NEW t4, t4 = Written(t, p, i, value)
  PROVE  Tree(lev, t4, F, r)
  <1>1. t \in Memory
    BY DEF Tree
  <1>2. /\ t4 \in Memory
        /\ \A q \in AllFrames, j \in Index : ~ (q = p /\ j = i) => t4[q][j] = t[q][j]
    BY <1>1, WrittenEntries
  <1>3. ASSUME NEW q, lev[q] >= 2, NEW j
        PROVE  /\ Linked(t4, q, j) <=> Linked(t, q, j)
               /\ Linked(t, q, j) => t4[q][j] = t[q][j]
    <2>1. q # p
      BY <1>3
    <2>2. q \in AllFrames /\ j \in Index => t4[q][j] = t[q][j]
      BY <1>2, <2>1
    <2> QED
      BY <2>2 DEF Linked
  <1>4. \A q, j : Linked(t4, q, j) /\ lev[q] >= 2 =>
          t4[q][j].frame \in Frames /\ lev[t4[q][j].frame] = lev[q] - 1
    <2>1. \A q, j : Linked(t, q, j) /\ lev[q] >= 2 =>
            t[q][j].frame \in Frames /\ lev[t[q][j].frame] = lev[q] - 1
      BY DEF Tree
    <2> QED
      BY <1>3, <2>1
  <1>5. \A a, b, j, k :
          /\ Linked(t4, a, j) /\ lev[a] >= 2 /\ Linked(t4, b, k) /\ lev[b] >= 2
          /\ t4[a][j].frame = t4[b][k].frame
          => a = b /\ j = k
    <2>1. \A a, b, j, k :
            /\ Linked(t, a, j) /\ lev[a] >= 2 /\ Linked(t, b, k) /\ lev[b] >= 2
            /\ t[a][j].frame = t[b][k].frame
            => a = b /\ j = k
      BY DEF Tree
    <2> QED
      BY <1>3, <2>1
  <1>6. \A g \in AllFrames : lev[g] \in 1 .. 3 =>
          \E q, j : Linked(t4, q, j) /\ lev[q] = lev[g] + 1 /\ t4[q][j].frame = g
    <2>1. ASSUME NEW g \in AllFrames, lev[g] \in 1 .. 3
          PROVE  \E q, j : Linked(t4, q, j) /\ lev[q] = lev[g] + 1 /\ t4[q][j].frame = g
      <3>1. PICK q, j : Linked(t, q, j) /\ lev[q] = lev[g] + 1 /\ t[q][j].frame = g
        BY <2>1 DEF Tree
      <3>2. lev[q] >= 2
        BY <2>1, <3>1
      <3> QED
        BY <1>3, <3>1, <3>2
    <2> QED
      BY <2>1
  <1> QED
    BY <1>2, <1>4, <1>5, <1>6 DEF Tree

\* Two links of the tree to one table are the same link.
LEMMA OneParent ==
  ASSUME NEW lev, NEW t, NEW F, NEW r, Tree(lev, t, F, r),
         NEW p, NEW j, Linked(t, p, j), lev[p] >= 2,
         NEW q, NEW k, Linked(t, q, k), lev[q] >= 2,
         Child(t, p, j) = Child(t, q, k)
  PROVE  p = q /\ j = k
  BY DEF Tree, Child

\* Writing the entry at the end of the walk for v changes what v translates to
\* and no other translation.
LEMMA WrittenWalk ==
  ASSUME NEW lev, NEW t, NEW F, NEW r, Tree(lev, t, F, r), NEW v \in Pages,
         NEW p3, NEW p2, NEW p1, Path(lev, t, F, r, v, p3, p2, p1),
         NEW value \in PageEntry, NEW t4, t4 = Written(t, p1, pt_index(v), value)
  PROVE  /\ \A w \in Pages : w # v => Walk(t4, r, w) = Walk(t, r, w)
         /\ Walk(t4, r, v) = Grant(t[r][pml4_index(v)], t[p3][pdpt_index(v)],
                                   t[p2][pd_index(v)], value)
  <1>0. /\ pml4_index(v) \in Index /\ pdpt_index(v) \in Index
        /\ pd_index(v) \in Index /\ pt_index(v) \in Index
    BY IndexInTable DEF Index
  <1>1. /\ r \in AllFrames /\ p3 \in AllFrames /\ p2 \in AllFrames /\ p1 \in AllFrames
        /\ p1 # r /\ p1 # p3 /\ p1 # p2 /\ lev[p1] \in {0, 1} /\ lev[r] = 4
    BY DEF Path, Tree
  <1>2. t \in Memory
    BY DEF Tree
  <1>3. /\ t4[p1][pt_index(v)] = value
        /\ \A q \in AllFrames, j \in Index : ~ (q = p1 /\ j = pt_index(v)) =>
              t4[q][j] = t[q][j] /\ Child(t4, q, j) = Child(t, q, j)
    <2> DEFINE i == pt_index(v)
    <2>1. i \in Index /\ t4 = Written(t, p1, i, value)
      BY <1>0
    <2> HIDE DEF i
    <2>2. /\ t4[p1][i] = value
          /\ \A q \in AllFrames, j \in Index : ~ (q = p1 /\ j = i) =>
                t4[q][j] = t[q][j] /\ Child(t4, q, j) = Child(t, q, j)
      BY <1>1, <1>2, <2>1, WrittenEntries
    <2> QED
      BY <2>2 DEF i
  <1>4. Walk(t4, r, v) = Grant(t[r][pml4_index(v)], t[p3][pdpt_index(v)],
                               t[p2][pd_index(v)], value)
    <2>1. PICK b3, b2, b1 :
            /\ b3 = Child(t4, r, pml4_index(v))
            /\ b2 = Child(t4, b3, pdpt_index(v))
            /\ b1 = Child(t4, b2, pd_index(v))
            /\ Walk(t4, r, v) = Grant(t4[r][pml4_index(v)], t4[b3][pdpt_index(v)],
                                      t4[b2][pd_index(v)], t4[b1][pt_index(v)])
      BY WalkSteps
    <2>2. b3 = p3 /\ t4[r][pml4_index(v)] = t[r][pml4_index(v)]
      BY <1>0, <1>1, <1>3, <2>1 DEF Path
    <2>3. b2 = p2 /\ t4[p3][pdpt_index(v)] = t[p3][pdpt_index(v)]
      BY <1>0, <1>1, <1>3, <2>1, <2>2 DEF Path
    <2>4. b1 = p1 /\ t4[p2][pd_index(v)] = t[p2][pd_index(v)]
      BY <1>0, <1>1, <1>3, <2>1, <2>3 DEF Path
    <2> QED
      BY <1>3, <2>1, <2>2, <2>3, <2>4
  <1>5. ASSUME NEW w \in Pages, w # v PROVE Walk(t4, r, w) = Walk(t, r, w)
    <2> DEFINE i4 == pml4_index(w)
               i3 == pdpt_index(w)
               i2 == pd_index(w)
               i1 == pt_index(w)
    <2>0. i4 \in Index /\ i3 \in Index /\ i2 \in Index /\ i1 \in Index
      BY IndexInTable DEF Index
    <2>c. PICK c3, c2, c1 :
            /\ c3 = Child(t, r, i4) /\ c2 = Child(t, c3, i3) /\ c1 = Child(t, c2, i2)
            /\ Walk(t, r, w) = Grant(t[r][i4], t[c3][i3], t[c2][i2], t[c1][i1])
      BY WalkSteps
    <2>b. PICK b3, b2, b1 :
            /\ b3 = Child(t4, r, i4) /\ b2 = Child(t4, b3, i3) /\ b1 = Child(t4, b2, i2)
            /\ Walk(t4, r, w) = Grant(t4[r][i4], t4[b3][i3], t4[b2][i2], t4[b1][i1])
      BY WalkSteps
    <2>i. ~ (i4 = pml4_index(v) /\ i3 = pdpt_index(v) /\ i2 = pd_index(v) /\ i1 = pt_index(v))
      BY <1>5, DigitsDetermine
    <2> HIDE DEF i4, i3, i2, i1
    <2>l. /\ Present(t[r][i4]) => Linked(t, r, i4) /\ c3 \in AllFrames /\ lev[c3] = 3
          /\ Present(t[r][i4]) /\ Present(t[c3][i3]) =>
                Linked(t, c3, i3) /\ c2 \in AllFrames /\ lev[c2] = 2
          /\ Present(t[r][i4]) /\ Present(t[c3][i3]) /\ Present(t[c2][i2]) =>
                Linked(t, c2, i2) /\ c1 \in AllFrames /\ lev[c1] = 1
      BY <2>0, <2>c, WalkLevels
    <2>1. t4[r][i4] = t[r][i4] /\ b3 = c3
      BY <1>1, <1>3, <2>0, <2>b, <2>c
    <2>2. ASSUME Present(t[r][i4]) PROVE t4[c3][i3] = t[c3][i3] /\ b2 = c2
      <3>1. c3 \in AllFrames /\ c3 # p1
        BY <1>1, <2>2, <2>l
      <3> QED
        BY <1>3, <2>0, <2>1, <2>b, <2>c, <3>1
    <2>3. ASSUME Present(t[r][i4]), Present(t[c3][i3])
          PROVE  t4[c2][i2] = t[c2][i2] /\ b1 = c1
      <3>1. c2 \in AllFrames /\ c2 # p1
        BY <1>1, <2>3, <2>l
      <3>2. b2 = c2
        BY <2>2, <2>3
      <3> QED
        BY <1>3, <2>0, <2>b, <2>c, <3>1, <3>2
    <2>4. ASSUME Present(t[r][i4]), Present(t[c3][i3]), Present(t[c2][i2])
          PROVE  t4[c1][i1] = t[c1][i1]
      <3>0. /\ Linked(t, r, i4) /\ Linked(t, c3, i3) /\ Linked(t, c2, i2)
            /\ c1 \in AllFrames /\ lev[c3] = 3 /\ lev[c2] = 2 /\ lev[c1] = 1
        BY <2>4, <2>l
      <3>1. ~ (c1 = p1 /\ i1 = pt_index(v))
        <4>1. SUFFICES ASSUME c1 = p1 PROVE i1 # pt_index(v)
          OBVIOUS
        <4>2. /\ lev[p2] = 2 /\ Linked(t, p2, pd_index(v)) /\ Child(t, p2, pd_index(v)) = p1
              /\ lev[p3] = 3 /\ Linked(t, p3, pdpt_index(v)) /\ Child(t, p3, pdpt_index(v)) = p2
              /\ Linked(t, r, pml4_index(v)) /\ Child(t, r, pml4_index(v)) = p3
          BY <1>0, <1>1, <3>0, <4>1 DEF Path, Linked
        <4>3. c2 = p2 /\ i2 = pd_index(v)
          <5>1. Child(t, c2, i2) = Child(t, p2, pd_index(v)) /\ lev[c2] >= 2 /\ lev[p2] >= 2
            BY <2>c, <3>0, <4>1, <4>2
          <5> QED
            BY <3>0, <4>2, <5>1, OneParent
        <4>4. c3 = p3 /\ i3 = pdpt_index(v)
          <5>1. Child(t, c3, i3) = Child(t, p3, pdpt_index(v)) /\ lev[c3] >= 2 /\ lev[p3] >= 2
            BY <2>c, <3>0, <4>2, <4>3
          <5> QED
            BY <3>0, <4>2, <5>1, OneParent
        <4>5. i4 = pml4_index(v)
          <5>1. Child(t, r, i4) = Child(t, r, pml4_index(v)) /\ lev[r] >= 2
            BY <1>1, <2>c, <4>2, <4>4
          <5> QED
            BY <3>0, <4>2, <5>1, OneParent
        <4> QED
          BY <2>i, <4>3, <4>4, <4>5
      <3> QED
        BY <1>3, <2>0, <3>0, <3>1
    <2>5. CASE Present(t[r][i4]) /\ Present(t[c3][i3]) /\ Present(t[c2][i2])
      <3>1. t4[c3][i3] = t[c3][i3] /\ b2 = c2
        BY <2>2, <2>5
      <3>2. t4[c2][i2] = t[c2][i2] /\ b1 = c1
        BY <2>3, <2>5
      <3>3. t4[c1][i1] = t[c1][i1]
        BY <2>4, <2>5
      <3> QED
        BY <2>1, <2>b, <2>c, <3>1, <3>2, <3>3
    <2>6. CASE ~ (Present(t[r][i4]) /\ Present(t[c3][i3]) /\ Present(t[c2][i2]))
      <3>1. ~ (Present(t4[r][i4]) /\ Present(t4[b3][i3]) /\ Present(t4[b2][i2]))
        BY <2>1, <2>2, <2>3, <2>6
      <3> QED
        BY <2>6, <2>b, <2>c, <3>1 DEF Grant
    <2> QED
      BY <2>5, <2>6
  <1> QED
    BY <1>4, <1>5

-----------------------------------------------------------------------------
(* The tables in use are the frames of levels 4 to 1.                      *)

PresentEntries(t, T) == {e \in {t[f][j] : f \in T, j \in 0 .. (N - 1)} : Present(e)}
Below(t, T) == {e.frame : e \in PresentEntries(t, T)}
TablesOf(t, r) ==
    {r} \cup Below(t, {r}) \cup Below(t, Below(t, {r}))
    \cup Below(t, Below(t, Below(t, {r})))

\* Below the tables of one level are those of the next.
LEMMA BelowLevel ==
  ASSUME NEW lev, NEW t, NEW F, NEW r, Tree(lev, t, F, r), NEW l \in 2 .. 4,
         NEW T, T = {p \in AllFrames : lev[p] = l}
  PROVE  Below(t, T) = {p \in AllFrames : lev[p] = l - 1}
  <1>1. ASSUME NEW g \in Below(t, T) PROVE g \in AllFrames /\ lev[g] = l - 1
    <2>1. PICK e \in PresentEntries(t, T) : g = e.frame
      BY DEF Below
    <2>2. PICK p \in T, j \in 0 .. (N - 1) : e = t[p][j] /\ Present(e)
      BY DEF PresentEntries
    <2>3. p \in AllFrames /\ lev[p] = l /\ lev[p] \in 2 .. 4 /\ j \in Index
      BY DEF Index
    <2>4. g = Child(t, p, j) /\ Present(t[p][j])
      BY <2>1, <2>2 DEF Child
    <2>5. g \in AllFrames /\ lev[g] = lev[p] - 1
      BY <2>3, <2>4, LinkLevel
    <2> QED
      BY <2>3, <2>5
  <1>2. ASSUME NEW g \in AllFrames, lev[g] = l - 1 PROVE g \in Below(t, T)
    <2>1. lev[g] \in 1 .. 3
      BY <1>2
    <2>2. PICK p, j : Linked(t, p, j) /\ lev[p] = lev[g] + 1 /\ t[p][j].frame = g
      BY <2>1 DEF Tree
    <2>3. lev[p] = l
      BY <1>2, <2>2
    <2>4. p \in T /\ j \in 0 .. (N - 1) /\ Present(t[p][j])
      BY <2>2, <2>3 DEF Linked, Index
    <2>5. t[p][j] \in PresentEntries(t, T)
      BY <2>4 DEF PresentEntries
    <2> QED
      BY <2>2, <2>5 DEF Below
  <1> QED
    BY <1>1, <1>2

\* The frames that have a level.
InUse(lev) == {p \in AllFrames : lev[p] >= 1}

\* The tables of a tree are the frames with a level.
LEMMA TablesOfTree ==
  ASSUME NEW lev, NEW t, NEW F, NEW r, Tree(lev, t, F, r)
  PROVE  /\ TablesOf(t, r) = InUse(lev)
         /\ Below(t, {r}) = {p \in AllFrames : lev[p] = 3}
         /\ Below(t, Below(t, {r})) = {p \in AllFrames : lev[p] = 2}
  <1> DEFINE L(l) == {p \in AllFrames : lev[p] = l}
  <1>0. {r} = L(4)
    BY DEF Tree, AllFrames
  <1>1. \A l \in 2 .. 4 : Below(t, L(l)) = L(l - 1)
    BY BelowLevel
  <1>2. Below(t, L(4)) = L(3) /\ Below(t, L(3)) = L(2) /\ Below(t, L(2)) = L(1)
    <2>1. L(4 - 1) = L(3) /\ L(3 - 1) = L(2) /\ L(2 - 1) = L(1)
      OBVIOUS
    <2>2. 4 \in 2 .. 4 /\ 3 \in 2 .. 4 /\ 2 \in 2 .. 4
      OBVIOUS
    <2> HIDE DEF L
    <2> QED
      BY <1>1, <2>1, <2>2
  <1>3. TablesOf(t, r) = L(4) \cup L(3) \cup L(2) \cup L(1)
    <2> HIDE DEF L
    <2> QED
      BY <1>0, <1>2 DEF TablesOf
  <1>4. \A p \in AllFrames : lev[p] \in 0 .. 4
    BY DEF Tree
  <1>5. L(4) \cup L(3) \cup L(2) \cup L(1) = {p \in AllFrames : lev[p] >= 1}
    BY <1>4
  <1>6. Below(t, {r}) = L(3) /\ Below(t, Below(t, {r})) = L(2)
    <2> HIDE DEF L
    <2> QED
      BY <1>0, <1>2
  <1> QED
    BY <1>3, <1>5, <1>6 DEF InUse

-----------------------------------------------------------------------------
(* The invariant.                                                          *)

Calls == {c \in RangeCall : c.end + c.offset <= N * N * N * N}

\* The types, of the range in progress and the ranges to come included.
VirtTypes ==
    /\ pc \in {"off", "init", "on"}
    /\ todo \in Seq(Calls) /\ task \in Calls \cup {NoTask}
    /\ root \in AllFrames /\ tbl \in Memory /\ free \in SUBSET Frames
    /\ exhausted \in BOOLEAN
    /\ \A x \in tlb : x.page \in Pages

\* Before vmm_init there is no table, and before the tables are loaded nothing
\* is cached.
BeforeInit ==
    /\ pc = "off" => /\ tbl = [f \in Frames \cup {NULL} |-> ZeroTable]
                     /\ ~ exhausted /\ task = NoTask
    /\ pc # "on" => tlb = {}

\* From vmm_init on, while memory lasts, the tables are a tree.
HasTree == pc # "off" /\ ~ exhausted => \E lev : Tree(lev, tbl, free, root)

VirtInv == VirtTypes /\ BeforeInit /\ HasTree /\ TlbCoherent

\* What vmm_set_pt_value(v, fl, value) does while memory lasts.
Exact(v, fl, value, lev, lev2) ==
    /\ Tree(lev, tbl, free, root) /\ Tree(lev2, tbl', free', root)
    /\ \A w \in Pages : w # v => Walk(tbl', root, w) = Walk(tbl, root, w)
    /\ value = Zero => Walk(tbl', root, v) = NoMap
    /\ "P" \in fl /\ value.flags = fl =>
          /\ Walk(tbl', root, v).frame = value.frame
          /\ "P" \in Walk(tbl', root, v).flags
          /\ Walk(tbl', root, v).flags \subseteq fl
    /\ "P" \in fl \/ Walk(tbl, root, v) # NoMap =>
          \A p \in AllFrames : lev2[p] >= 1 \/ p \in free' <=> lev[p] >= 1 \/ p \in free

\* vmm_set_pt_value keeps the types, and while memory lasts it keeps the tree
\* and changes the translation of one page.
LEMMA SetValue ==
  ASSUME VirtInv, pc # "off", NEW v \in Pages, NEW fl \in SUBSET Flags,
         NEW value \in PageEntry, vmm_set_pt_value(v, fl, value)
  PROVE  /\ tbl' \in Memory /\ free' \in SUBSET Frames /\ exhausted' \in BOOLEAN
         /\ tlb' = {x \in tlb : x.page # v}
         /\ ~ exhausted' =>
               ~ exhausted /\ \E lev, lev2 : Exact(v, fl, value, lev, lev2)
  <1>0. /\ tbl \in Memory /\ free \in SUBSET Frames /\ exhausted \in BOOLEAN
        /\ root \in AllFrames
    BY DEF VirtInv, VirtTypes
  <1> DEFINE i == pt_index(v)
  <1>i. i \in Index
    BY IndexInTable DEF Index
  <1>1. PICK t1, F1, o1, p3, t2, F2, o2, p2, t3, F3, o3, p1 :
              /\ Descend(tbl, free, exhausted, root, pml4_index(v), fl, t1, F1, o1, p3)
              /\ Descend(t1, F1, o1, p3, pdpt_index(v), fl, t2, F2, o2, p2)
              /\ Descend(t2, F2, o2, p2, pd_index(v), fl, t3, F3, o3, p1)
              /\ tbl' = [t3 EXCEPT ![p1][i] = value]
              /\ free' = F3 /\ exhausted' = o3
    BY ThreeLevels
  <1>2. tlb' = {x \in tlb : x.page # v}
    BY ThreeLevels
  <1>3. /\ t3 \in Memory /\ F3 \in SUBSET Frames /\ o3 \in BOOLEAN
        /\ ~ o3 => ~ exhausted
    <2>1. t1 \in Memory /\ F1 \in SUBSET Frames /\ o1 \in BOOLEAN /\ (~ o1 => ~ exhausted)
      BY <1>0, <1>1, DescendTypes
    <2>2. t2 \in Memory /\ F2 \in SUBSET Frames /\ o2 \in BOOLEAN /\ (~ o2 => ~ o1)
      BY <1>1, <2>1, DescendTypes
    <2>3. t3 \in Memory /\ F3 \in SUBSET Frames /\ o3 \in BOOLEAN /\ (~ o3 => ~ o2)
      BY <1>1, <2>2, DescendTypes
    <2> QED
      BY <2>1, <2>2, <2>3, Zenon
  <1> HIDE DEF i
  <1>4. tbl' \in Memory
    BY <1>1, <1>3 DEF Memory
  <1>5. ASSUME ~ exhausted' PROVE \E lev, lev2 : Exact(v, fl, value, lev, lev2)
    <2>1. ~ o3
      BY <1>1, <1>5
    <2>2. PICK lev : Tree(lev, tbl, free, root)
      <3>1. ~ exhausted
        BY <1>3, <2>1
      <3> QED
        BY <3>1 DEF VirtInv, HasTree
    <2>3. PICK lev3 : Descended(lev, tbl, free, root, v, fl, lev3, t3, F3, p3, p2, p1)
      BY <1>0, <1>1, <2>1, <2>2, DescentTree
    <2>4. /\ Tree(lev3, t3, F3, root)
          /\ Path(lev3, t3, F3, root, v, p3, p2, p1)
          /\ \A w \in Pages : Walk(t3, root, w) = Walk(tbl, root, w)
      BY <2>3 DEF Descended
    <2>5. p1 \in AllFrames /\ lev3[p1] \in {0, 1}
      BY <2>4 DEF Path
    <2> DEFINE t4 == Written(t3, p1, i, value)
    <2>6. tbl' = t4
      BY <1>1 DEF Written
    <2>7. t4 = Written(t3, p1, i, value) /\ t4 = Written(t3, p1, pt_index(v), value)
      BY DEF i
    <2> HIDE DEF t4
    <2>8. Tree(lev3, t4, F3, root)
      BY <1>i, <2>4, <2>5, <2>7, WrittenTree
    <2>9. /\ \A w \in Pages : w # v => Walk(t4, root, w) = Walk(t3, root, w)
          /\ Walk(t4, root, v) = Grant(t3[root][pml4_index(v)], t3[p3][pdpt_index(v)],
                                       t3[p2][pd_index(v)], value)
      BY <2>4, <2>7, WrittenWalk
    <2>10. \A w \in Pages : w # v => Walk(t4, root, w) = Walk(tbl, root, w)
      BY <2>4, <2>9
    <2>11. value = Zero => Walk(t4, root, v) = NoMap
      BY <2>9 DEF Grant, Zero, Present
    <2>12. ASSUME "P" \in fl, value.flags = fl
           PROVE  /\ Walk(t4, root, v).frame = value.frame
                  /\ "P" \in Walk(t4, root, v).flags
                  /\ Walk(t4, root, v).flags \subseteq fl
      <3> DEFINE e4 == t3[root][pml4_index(v)]
                 e3 == t3[p3][pdpt_index(v)]
                 e2 == t3[p2][pd_index(v)]
      <3>1. Present(e4) /\ Present(e3) /\ Present(e2) /\ Present(value)
        BY <2>3, <2>12 DEF Descended, Present
      <3>2. Walk(t4, root, v) = Grant(e4, e3, e2, value)
        BY <2>9
      <3> HIDE DEF e4, e3, e2
      <3>3. Walk(t4, root, v) =
              [frame |-> value.frame,
               flags |-> e4.flags \cap e3.flags \cap e2.flags \cap value.flags]
        BY <3>1, <3>2 DEF Grant
      <3> QED
        BY <2>12, <3>1, <3>3 DEF Present
    <2>13. "P" \in fl \/ Walk(tbl, root, v) # NoMap =>
             \A p \in AllFrames : lev3[p] >= 1 \/ p \in F3 <=> lev[p] >= 1 \/ p \in free
      BY <2>3 DEF Descended
    <2>14. Exact(v, fl, value, lev, lev3)
      BY <1>1, <2>2, <2>6, <2>8, <2>10, <2>11, <2>12, <2>13 DEF Exact
    <2> QED
      BY <2>14
  <1>6. free' \in SUBSET Frames /\ exhausted' \in BOOLEAN
    BY <1>1, <1>3
  <1>7. ~ exhausted' => ~ exhausted
    BY <1>1, <1>3
  <1> QED
    BY <1>2, <1>4, <1>5, <1>6, <1>7

-----------------------------------------------------------------------------
(* The steps.                                                              *)

\* The map step of a typed range, taken apart.
LEMMA MapCall ==
  ASSUME VirtInv, MapStep
  PROVE  /\ task \in Calls /\ pc # "off"
         /\ task.start + task.offset \in Pages /\ task.flags \in SUBSET Flags
         /\ [frame |-> task.start, flags |-> task.flags] \in PageEntry
         /\ vmm_set_pt_value(task.start + task.offset, task.flags,
                             [frame |-> task.start, flags |-> task.flags])
         /\ task' \in Calls /\ task'.op = task.op /\ task'.flags = task.flags
         /\ pc' = pc /\ todo' = todo /\ root' = root
  <1>1. task # NoTask
    BY DEF MapStep, NoTask
  <1>2. task \in Calls
    BY <1>1 DEF VirtInv, VirtTypes
  <1>3. /\ task \in RangeCall /\ task.end + task.offset <= N * N * N * N
        /\ task.start \in Nat /\ task.end \in Nat /\ task.offset \in Nat
        /\ task.flags \in SUBSET Flags
    BY <1>2 DEF Calls, RangeCall
  <1>4. task.start < task.end /\ task' = [task EXCEPT !.start = @ + 1]
    BY DEF MapStep
  <1>5. task.start + task.offset \in Pages
    <2> DEFINE M == N * N * N * N
    <2>1. M \in Nat /\ task.end + task.offset <= M
      BY <1>3, VirtAssumption
    <2> HIDE DEF M
    <2>2. task.start + task.offset \in 0 .. (M - 1)
      BY <1>3, <1>4, <2>1
    <2> QED
      BY <2>2 DEF M, Pages
  <1>6. /\ task' \in RangeCall /\ task'.end = task.end /\ task'.offset = task.offset
        /\ task'.op = task.op /\ task'.flags = task.flags
    BY <1>3, <1>4 DEF RangeCall
  <1>7. task' \in Calls
    BY <1>3, <1>6 DEF Calls
  <1>8. pc # "off"
    BY <1>1 DEF VirtInv, BeforeInit
  <1>9. [frame |-> task.start, flags |-> task.flags] \in PageEntry
    BY <1>3 DEF PageEntry
  <1>10. /\ vmm_set_pt_value(task.start + task.offset, task.flags,
                             [frame |-> task.start, flags |-> task.flags])
         /\ pc' = pc /\ todo' = todo /\ root' = root
    BY DEF MapStep, vmm_map_page
  <1> QED
    BY <1>2, <1>3, <1>5, <1>6, <1>7, <1>8, <1>9, <1>10

\* The unmap step of a typed range, taken apart.
LEMMA UnmapCall ==
  ASSUME VirtInv, UnmapStep
  PROVE  /\ task \in Calls /\ pc # "off" /\ task.start \in Pages
         /\ {} \in SUBSET Flags /\ Zero \in PageEntry
         /\ vmm_set_pt_value(task.start, {}, Zero)
         /\ task' \in Calls /\ task'.op = task.op /\ task'.flags = task.flags
         /\ pc' = pc /\ todo' = todo /\ root' = root
  <1>1. task # NoTask
    BY DEF UnmapStep, NoTask
  <1>2. task \in Calls
    BY <1>1 DEF VirtInv, VirtTypes
  <1>3. /\ task \in RangeCall /\ task.end + task.offset <= N * N * N * N
        /\ task.start \in Nat /\ task.end \in Nat /\ task.offset \in Nat
        /\ task.flags \in SUBSET Flags
    BY <1>2 DEF Calls, RangeCall
  <1>4. task.start < task.end /\ task' = [task EXCEPT !.start = @ + 1]
    BY DEF UnmapStep
  <1>5. task.start \in Pages
    <2> DEFINE M == N * N * N * N
    <2>1. M \in Nat /\ task.end + task.offset <= M
      BY <1>3, VirtAssumption
    <2> HIDE DEF M
    <2>2. task.start \in 0 .. (M - 1)
      BY <1>3, <1>4, <2>1
    <2> QED
      BY <2>2 DEF M, Pages
  <1>6. /\ task' \in RangeCall /\ task'.end = task.end /\ task'.offset = task.offset
        /\ task'.op = task.op /\ task'.flags = task.flags
    BY <1>3, <1>4 DEF RangeCall
  <1>7. task' \in Calls
    BY <1>3, <1>6 DEF Calls
  <1>8. pc # "off"
    BY <1>1 DEF VirtInv, BeforeInit
  <1>9. {} \in SUBSET Flags /\ Zero \in PageEntry
    BY DEF PageEntry, Zero
  <1>10. /\ vmm_set_pt_value(task.start, {}, Zero)
         /\ pc' = pc /\ todo' = todo /\ root' = root
    BY DEF UnmapStep, vmm_unmap_page
  <1> QED
    BY <1>2, <1>5, <1>6, <1>7, <1>8, <1>9, <1>10

\* The processor's walk is that of the tables in use.
LEMMA TranslateIsWalk == \A t, v : Translate(t, v) = Walk(t, root, v)
  BY DEF Translate, Walk

\* A step of vmm_set_pt_value keeps the invariant.
LEMMA SetValueKeeps ==
  ASSUME VirtInv, pc # "off", NEW v \in Pages, NEW fl \in SUBSET Flags,
         NEW value \in PageEntry, vmm_set_pt_value(v, fl, value),
         task' \in Calls, pc' = pc, todo' = todo, root' = root
  PROVE  VirtInv'
  <1>1. /\ tbl' \in Memory /\ free' \in SUBSET Frames /\ exhausted' \in BOOLEAN
        /\ tlb' = {x \in tlb : x.page # v}
        /\ ~ exhausted' =>
              ~ exhausted /\ \E lev, lev2 : Exact(v, fl, value, lev, lev2)
    BY SetValue
  <1>2. VirtTypes'
    BY <1>1 DEF VirtInv, VirtTypes
  <1>3. BeforeInit'
    BY <1>1 DEF VirtInv, BeforeInit
  <1>4. HasTree'
    <2>1. ASSUME ~ exhausted' PROVE \E lev : Tree(lev, tbl', free', root')
      BY <1>1, <2>1 DEF Exact
    <2> QED
      BY <2>1 DEF HasTree
  <1>5. TlbCoherent'
    <2>1. ASSUME ~ exhausted', NEW x \in tlb' PROVE x.to = Walk(tbl', root', x.page)
      <3>1. x \in tlb /\ x.page # v /\ x.page \in Pages
        BY <1>1 DEF VirtInv, VirtTypes
      <3>2. ~ exhausted
        BY <1>1, <2>1
      <3>3. x.to = Walk(tbl, root, x.page)
        BY <3>1, <3>2, TranslateIsWalk DEF VirtInv, TlbCoherent
      <3>4. PICK lev, lev2 : Exact(v, fl, value, lev, lev2)
        BY <1>1, <2>1
      <3>5. Walk(tbl', root, x.page) = Walk(tbl, root, x.page)
        BY <3>1, <3>4 DEF Exact
      <3> QED
        BY <3>3, <3>5
    <2>2. \A x \in tlb' : Walk(tbl', root', x.page) = Translate(tbl, x.page)'
      BY DEF Translate, Walk
    <2> QED
      BY <2>1, <2>2 DEF TlbCoherent
  <1> QED
    BY <1>2, <1>3, <1>4, <1>5 DEF VirtInv

\* The invariant holds before vmm_init.
LEMMA VirtInit == Init => VirtInv
  <1> SUFFICES ASSUME Init PROVE VirtInv
    OBVIOUS
  <1>1. todo \in Seq(Calls)
    <2>1. InitRanges \in Seq(RangeCall)
      BY VirtAssumption
    <2>2. \A k \in 1 .. Len(InitRanges) : InitRanges[k] \in RangeCall
      BY <2>1, ElementOfSeq
    <2>3. \A k \in 1 .. Len(InitRanges) : InitRanges[k] \in Calls
      <3>1. DOMAIN InitRanges = 1 .. Len(InitRanges)
        BY <2>1, LenProperties
      <3> QED
        BY <2>2, <3>1, VirtAssumption DEF Calls
    <2>4. InitRanges \in Seq(Calls)
      BY <2>1, <2>3, LenProperties, IsASeq
    <2> QED
      BY <2>4 DEF Init
  <1>2. tbl \in Memory
    BY DEF Init, Memory, AllFrames, ZeroTable, Zero, PageEntry, Index
  <1>3. VirtTypes
    BY <1>1, <1>2 DEF Init, VirtTypes, AllFrames
  <1>4. BeforeInit /\ HasTree /\ TlbCoherent
    BY DEF Init, BeforeInit, HasTree, TlbCoherent
  <1> QED
    BY <1>3, <1>4 DEF VirtInv

\* vmm_init makes a tree of one table.
LEMMA InitRootKeeps == VirtInv /\ InitRoot => VirtInv'
  <1> SUFFICES ASSUME VirtInv, InitRoot PROVE VirtInv'
    OBVIOUS
  <1> DEFINE f == Alloc(free)
  <1>0. /\ pc = "off" /\ tbl = [p \in Frames \cup {NULL} |-> ZeroTable] /\ ~ exhausted
        /\ task = NoTask /\ tlb = {} /\ free \in SUBSET Frames /\ todo \in Seq(Calls)
    BY DEF VirtInv, VirtTypes, BeforeInit, InitRoot
  <1>1. /\ root' = f /\ tbl' = [tbl EXCEPT ![f] = ZeroTable] /\ free' = free \ {f}
        /\ exhausted' = (f = NULL) /\ pc' = "init"
        /\ todo' = todo /\ task' = task /\ tlb' = tlb
    BY DEF InitRoot, pmm_allocz, Alloc
  <1>2. f \in AllFrames /\ (f # NULL => f \in free)
    <2>1. IsFiniteSet(free) /\ free \in SUBSET Nat
      BY <1>0, VirtAssumption, FS_Subset
    <2>2. free # {} => Min(free) \in free
      BY <2>1, MinIsLeast
    <2> QED
      BY <1>0, <2>2 DEF Alloc, AllFrames
  <1> HIDE DEF f
  <1>3. tbl' = [p \in AllFrames |-> ZeroTable]
    BY <1>0, <1>1 DEF AllFrames
  <1>4. tbl' \in Memory
    BY <1>3 DEF Memory, ZeroTable, Zero, PageEntry, Index
  <1>5. exhausted' \in BOOLEAN
    BY <1>1, Zenon
  <1>6. VirtTypes'
    BY <1>0, <1>1, <1>2, <1>4, <1>5 DEF VirtTypes
  <1>7. BeforeInit'
    BY <1>0, <1>1 DEF BeforeInit
  <1>8. TlbCoherent'
    BY <1>0, <1>1 DEF TlbCoherent
  <1>9. ASSUME ~ exhausted' PROVE \E lev : Tree(lev, tbl', free', root')
    <2> DEFINE lev == [p \in AllFrames |-> IF p = f THEN 4 ELSE 0]
    <2>1. f # NULL /\ f \in Frames /\ f \in AllFrames
      BY <1>0, <1>1, <1>2, <1>9
    <2>2. \A p, j : ~ Linked(tbl', p, j)
      BY <1>3, ZeroTableEmpty DEF Linked
    <2>3. /\ lev \in [AllFrames -> 0 .. 4]
          /\ \A p \in AllFrames : lev[p] = IF p = f THEN 4 ELSE 0
      OBVIOUS
    <2> HIDE DEF lev
    <2>4. /\ \A p \in AllFrames : lev[p] = 4 <=> p = f
          /\ lev[NULL] = 0 /\ \A g \in free' : lev[g] = 0
          /\ \A g \in AllFrames : lev[g] \notin 1 .. 3
      BY <1>0, <1>1, <2>1, <2>3 DEF AllFrames
    <2>5. free' \in SUBSET Frames
      BY <1>0, <1>1
    <2>6. Tree(lev, tbl', free', f)
      BY <1>4, <2>1, <2>2, <2>3, <2>4, <2>5 DEF Tree
    <2> QED
      BY <1>1, <2>6
  <1>10. HasTree'
    BY <1>9 DEF HasTree
  <1> QED
    BY <1>6, <1>7, <1>8, <1>10 DEF VirtInv

\* Every step keeps the invariant.
LEMMA VirtNext == VirtInv /\ [Next]_vars => VirtInv'
  <1> SUFFICES ASSUME VirtInv, [Next]_vars PROVE VirtInv'
    OBVIOUS
  <1>0. VirtTypes /\ BeforeInit /\ HasTree /\ TlbCoherent
    BY DEF VirtInv
  <1>1. CASE InitRoot
    BY <1>1, InitRootKeeps
  \* Steps that leave the tables and what is cached alone.
  <1>t. ASSUME tbl' = tbl, free' = free, root' = root, exhausted' = exhausted,
               tlb' = tlb, pc' = pc, todo' \in Seq(Calls), task' \in Calls \cup {NoTask},
               pc = "off" => task' = task
        PROVE  VirtInv'
    <2>1. VirtTypes'
      BY <1>0, <1>t DEF VirtTypes
    <2>2. BeforeInit'
      BY <1>0, <1>t DEF BeforeInit
    <2>3. HasTree'
      BY <1>0, <1>t DEF HasTree
    <2>4. TlbCoherent'
      BY <1>0, <1>t DEF TlbCoherent, Translate
    <2> QED
      BY <2>1, <2>2, <2>3, <2>4 DEF VirtInv
  <1>2. CASE InitRange
    <2>1. todo \in Seq(Calls) /\ todo # <<>>
      BY <1>0, <1>2 DEF VirtTypes, InitRange
    <2>2. Head(todo) \in Calls /\ Tail(todo) \in Seq(Calls)
      BY <2>1, HeadTailProperties
    <2> QED
      BY <1>2, <1>t, <2>2 DEF InitRange
  <1>3. CASE vmm_load_page_tbl
    <2>1. VirtTypes'
      BY <1>0, <1>3 DEF VirtTypes, vmm_load_page_tbl
    <2>2. BeforeInit' /\ TlbCoherent'
      BY <1>3 DEF BeforeInit, TlbCoherent, vmm_load_page_tbl
    <2>3. HasTree'
      BY <1>0, <1>3 DEF HasTree, vmm_load_page_tbl
    <2> QED
      BY <2>1, <2>2, <2>3 DEF VirtInv
  <1>4. CASE MapStep
    <2> DEFINE v == task.start + task.offset
               value == [frame |-> task.start, flags |-> task.flags]
               fl == task.flags
    <2>1. /\ pc # "off" /\ v \in Pages /\ fl \in SUBSET Flags /\ value \in PageEntry
          /\ vmm_set_pt_value(v, fl, value)
          /\ task' \in Calls /\ pc' = pc /\ todo' = todo /\ root' = root
      BY <1>4, MapCall
    <2> HIDE DEF v, value, fl
    <2> QED
      BY <2>1, SetValueKeeps
  <1>5. CASE UnmapStep
    <2> DEFINE v == task.start
               fl == {}
    <2>1. /\ pc # "off" /\ v \in Pages /\ fl \in SUBSET Flags /\ Zero \in PageEntry
          /\ vmm_set_pt_value(v, fl, Zero)
          /\ task' \in Calls /\ pc' = pc /\ todo' = todo /\ root' = root
      BY <1>5, UnmapCall
    <2> HIDE DEF v, fl
    <2> QED
      BY <2>1, SetValueKeeps
  <1>6. CASE RangeDone
    <2>1. pc # "off"
      BY <1>0, <1>6 DEF RangeDone, BeforeInit
    <2> QED
      BY <1>0, <1>6, <1>t, <2>1 DEF RangeDone, VirtTypes
  <1>7. ASSUME NEW r \in Requests, Call(r) PROVE VirtInv'
    <2>1. r \in Calls
      BY VirtAssumption DEF Calls
    <2> QED
      BY <1>0, <1>7, <1>t, <2>1 DEF Call, VirtTypes
  <1>8. ASSUME NEW v \in Pages, Access(v) PROVE VirtInv'
    <2> DEFINE x == [page |-> v, to |-> Translate(tbl, v)]
    <2>1. /\ pc = "on" /\ tlb' = tlb \cup {x}
          /\ pc' = pc /\ todo' = todo /\ task' = task /\ root' = root /\ tbl' = tbl
          /\ free' = free /\ exhausted' = exhausted
      BY <1>8 DEF Access
    <2>2. x.page = v /\ x.to = Translate(tbl, v)
      OBVIOUS
    <2> HIDE DEF x
    <2>3. VirtTypes'
      BY <1>0, <2>1, <2>2 DEF VirtTypes
    <2>4. BeforeInit'
      BY <1>0, <2>1 DEF BeforeInit
    <2>5. HasTree'
      BY <1>0, <2>1 DEF HasTree
    <2>6. TlbCoherent'
      <3>1. \A w : Translate(tbl, w)' = Translate(tbl, w)
        BY <2>1 DEF Translate
      <3>2. \A y \in tlb' : ~ exhausted => y.to = Translate(tbl, y.page)
        BY <1>0, <2>1, <2>2 DEF TlbCoherent
      <3> QED
        BY <2>1, <3>1, <3>2 DEF TlbCoherent
    <2> QED
      BY <2>3, <2>4, <2>5, <2>6 DEF VirtInv
  <1>9. CASE UNCHANGED vars
    BY <1>0, <1>9, <1>t DEF vars, VirtTypes
  <1> QED
    BY <1>1, <1>2, <1>3, <1>4, <1>5, <1>6, <1>7, <1>8, <1>9 DEF Next

\* The invariant is one of the specification.
LEMMA VirtInvariant == Spec => []VirtInv
  BY VirtInit, VirtNext, PTL DEF Spec

-----------------------------------------------------------------------------
(* The theorems.                                                           *)

\* The state of the page tables keeps its type, also after memory has run out
\* and frame 0 is written as a table.
THEOREM TypeCorrect == Spec => []TypeOK
  <1>1. VirtInv => TypeOK
    <2> SUFFICES ASSUME VirtInv PROVE TypeOK
      OBVIOUS
    <2>1. VirtTypes
      BY DEF VirtInv
    <2>2. \A f \in Frames \cup {NULL}, j \in 0 .. (N - 1) :
            tbl[f][j].frame \in Nat /\ tbl[f][j].flags \subseteq Flags
      <3>1. \A f \in AllFrames, j \in Index : tbl[f][j] \in PageEntry
        BY <2>1 DEF VirtTypes, Memory
      <3> QED
        BY <3>1 DEF AllFrames, Index, PageEntry
    <2> QED
      BY <2>1, <2>2 DEF VirtTypes, TypeOK, AllFrames, Calls
  <1> QED
    BY <1>1, VirtInvariant, PTL

\* While memory lasts the tables vmm_get_or_create_pml builds are a tree, for
\* every table size, set of frames and sequence of ranges: a frame that holds
\* a table is linked once, at one level, and is never free.
THEOREM TablesFormTree == Spec => []TablesAreTree
  <1>1. VirtInv => TablesAreTree
    <2> SUFFICES ASSUME VirtInv, pc # "off", ~ exhausted
                 PROVE  /\ \A l, k \in Links :
                              tbl[l[1]][l[2]].frame = tbl[k[1]][k[2]].frame => l = k
                        /\ \A l \in Links : tbl[l[1]][l[2]].frame # root
                        /\ Tables \cap free = {}
      BY DEF TablesAreTree
    <2>1. PICK lev : Tree(lev, tbl, free, root)
      BY DEF VirtInv, HasTree
    <2>2. /\ Tables = TablesOf(tbl, root)
          /\ Pdpts = Below(tbl, {root}) /\ Pds = Below(tbl, Below(tbl, {root}))
      BY DEF Tables, Pdpts, Pds, Pts, Entries, TablesOf, Below, PresentEntries
    <2>3. /\ Tables = {p \in AllFrames : lev[p] >= 1}
          /\ Pdpts = {p \in AllFrames : lev[p] = 3} /\ Pds = {p \in AllFrames : lev[p] = 2}
      BY <2>1, <2>2, TablesOfTree DEF InUse
    <2>4. root \in AllFrames /\ lev[root] = 4 /\ \A f \in free : f \in AllFrames /\ lev[f] = 0
      BY <2>1 DEF Tree, AllFrames
    <2>5. ASSUME NEW l \in Links
          PROVE  /\ l = <<l[1], l[2]>> /\ Linked(tbl, l[1], l[2]) /\ lev[l[1]] >= 2
                 /\ lev[l[1]] \in 2 .. 4
      <3>1. /\ l \in ({root} \cup Pdpts \cup Pds) \X (0 .. (N - 1))
            /\ Present(tbl[l[1]][l[2]])
        BY DEF Links
      <3>2. /\ l = <<l[1], l[2]>> /\ l[1] \in {root} \cup Pdpts \cup Pds
            /\ l[2] \in 0 .. (N - 1)
        BY <3>1
      <3>3. l[1] \in AllFrames /\ lev[l[1]] \in 2 .. 4 /\ lev[l[1]] >= 2
        BY <2>3, <2>4, <3>2
      <3> QED
        BY <3>1, <3>2, <3>3 DEF Linked, Index
    <2>6. ASSUME NEW l \in Links, NEW k \in Links,
                 tbl[l[1]][l[2]].frame = tbl[k[1]][k[2]].frame
          PROVE  l = k
      <3>1. Child(tbl, l[1], l[2]) = Child(tbl, k[1], k[2])
        BY <2>6 DEF Child
      <3>2. l[1] = k[1] /\ l[2] = k[2]
        BY <2>1, <2>5, <3>1, OneParent
      <3> QED
        BY <2>5, <3>2
    <2>7. ASSUME NEW l \in Links PROVE tbl[l[1]][l[2]].frame # root
      <3>1. tbl[l[1]][l[2]].frame \in Frames /\ lev[tbl[l[1]][l[2]].frame] = lev[l[1]] - 1
        BY <2>1, <2>5 DEF Tree
      <3> QED
        BY <2>4, <2>5, <3>1
    <2>8. Tables \cap free = {}
      BY <2>3, <2>4
    <2> QED
      BY <2>6, <2>7, <2>8
  <1> QED
    BY <1>1, VirtInvariant, PTL

\* While memory lasts the TLB never disagrees with the tables: the one page
\* vmm_set_pt_value flushes is the only one whose translation its walk changed.
THEOREM TlbStaysCoherent == Spec => []TlbCoherent
  <1>1. VirtInv => TlbCoherent
    BY DEF VirtInv
  <1> QED
    BY <1>1, VirtInvariant, PTL

-----------------------------------------------------------------------------
(* What the kernel maps it maps present: KERNEL_READ and KERNEL_READ_WRITE *)
(* are the only flags its callers pass.                                    *)

PresentCalls == {c \in RangeCall : c.op = "map" => "P" \in c.flags}

MapsPresent ==
    /\ \A k \in DOMAIN InitRanges :
          InitRanges[k].op = "map" => "P" \in InitRanges[k].flags
    /\ \A r \in Requests : r.op = "map" => "P" \in r.flags

PresentInv == todo \in Seq(PresentCalls) /\ task \in PresentCalls \cup {NoTask}

\* Every range in progress or to come maps its pages present.
LEMMA PresentInvariant == ASSUME MapsPresent PROVE Spec => []PresentInv
  <1>1. Init => PresentInv
    <2>1. InitRanges \in Seq(RangeCall)
      BY VirtAssumption
    <2>2. \A k \in 1 .. Len(InitRanges) : InitRanges[k] \in RangeCall
      BY <2>1, ElementOfSeq
    <2>3. \A k \in 1 .. Len(InitRanges) : InitRanges[k] \in PresentCalls
      <3>1. DOMAIN InitRanges = 1 .. Len(InitRanges)
        BY <2>1, LenProperties
      <3> QED
        BY <2>2, <3>1 DEF PresentCalls, MapsPresent
    <2>4. InitRanges \in Seq(PresentCalls)
      BY <2>1, <2>3, LenProperties, IsASeq
    <2> QED
      BY <2>4 DEF Init, PresentInv
  <1>2. VirtInv /\ PresentInv /\ [Next]_vars => PresentInv'
    <2> SUFFICES ASSUME VirtInv, PresentInv, [Next]_vars PROVE PresentInv'
      OBVIOUS
    <2>1. CASE InitRange
      <3>1. todo \in Seq(PresentCalls) /\ todo # <<>>
        BY <2>1 DEF PresentInv, InitRange
      <3>2. Head(todo) \in PresentCalls /\ Tail(todo) \in Seq(PresentCalls)
        BY <3>1, HeadTailProperties
      <3> QED
        BY <2>1, <3>2 DEF InitRange, PresentInv
    <2>2. CASE MapStep
      <3>1. task \in Calls /\ task' \in Calls /\ task'.op = task.op /\ task'.flags = task.flags
            /\ todo' = todo
        BY <2>2, MapCall
      <3>2. task # NoTask
        BY <2>2 DEF MapStep, NoTask
      <3> QED
        BY <3>1, <3>2 DEF PresentInv, PresentCalls, Calls
    <2>3. CASE UnmapStep
      <3>1. task \in Calls /\ task' \in Calls /\ task'.op = task.op /\ task'.flags = task.flags
            /\ todo' = todo
        BY <2>3, UnmapCall
      <3>2. task # NoTask
        BY <2>3 DEF UnmapStep, NoTask
      <3> QED
        BY <3>1, <3>2 DEF PresentInv, PresentCalls, Calls
    <2>4. ASSUME NEW r \in Requests, Call(r) PROVE PresentInv'
      <3>1. r \in PresentCalls
        BY VirtAssumption DEF MapsPresent, PresentCalls
      <3> QED
        BY <2>4, <3>1 DEF Call, PresentInv
    <2>5. CASE InitRoot \/ vmm_load_page_tbl \/ (\E v \in Pages : Access(v)) \/ UNCHANGED vars
      BY <2>5 DEF InitRoot, vmm_load_page_tbl, Access, vars, PresentInv
    <2>6. CASE RangeDone
      BY <2>6 DEF RangeDone, PresentInv
    <2> QED
      BY <2>1, <2>2, <2>3, <2>4, <2>5, <2>6 DEF Next
  <1> QED
    BY <1>1, <1>2, VirtInvariant, PTL DEF Spec

\* While memory lasts, mapping a page makes it translate to the frame asked
\* for, with the rights asked for at most, unmapping it makes it fault, and
\* both leave the translation of every other page as it was.
THEOREM StepsExact ==
  ASSUME MapsPresent
  PROVE  Spec => StepsAreExact
  <1>1. ASSUME VirtInv, PresentInv, MapStep, ~ exhausted'
        PROVE  LET v == task.start + task.offset
               IN /\ Translate(tbl', v).frame = task.start
                  /\ "P" \in Translate(tbl', v).flags
                  /\ Translate(tbl', v).flags \subseteq task.flags
                  /\ \A w \in Pages \ {v} : Translate(tbl', w) = Translate(tbl, w)
    <2> DEFINE v == task.start + task.offset
               value == [frame |-> task.start, flags |-> task.flags]
               fl == task.flags
    <2>1. /\ pc # "off" /\ v \in Pages /\ fl \in SUBSET Flags /\ value \in PageEntry
          /\ vmm_set_pt_value(v, fl, value) /\ task \in Calls
      BY <1>1, MapCall
    <2>2. "P" \in fl
      <3>1. task # NoTask /\ task.op = "map"
        BY <1>1 DEF MapStep, NoTask
      <3> QED
        BY <1>1, <3>1 DEF PresentInv, PresentCalls
    <2>3. value.flags = fl /\ value.frame = task.start
      OBVIOUS
    <2> HIDE DEF v, value, fl
    <2>4. PICK lev, lev2 : Exact(v, fl, value, lev, lev2)
      BY <1>1, <2>1, SetValue
    <2>5. /\ Walk(tbl', root, v).frame = task.start
          /\ "P" \in Walk(tbl', root, v).flags
          /\ Walk(tbl', root, v).flags \subseteq fl
          /\ \A w \in Pages : w # v => Walk(tbl', root, w) = Walk(tbl, root, w)
      BY <2>2, <2>3, <2>4 DEF Exact
    <2>6. /\ Translate(tbl', v).frame = task.start
          /\ "P" \in Translate(tbl', v).flags
          /\ Translate(tbl', v).flags \subseteq fl
          /\ \A w \in Pages \ {v} : Translate(tbl', w) = Translate(tbl, w)
      BY <2>5, TranslateIsWalk
    <2> QED
      BY <2>6 DEF v, fl
  <1>2. ASSUME VirtInv, UnmapStep, ~ exhausted'
        PROVE  /\ Translate(tbl', task.start) = NoMap
               /\ \A w \in Pages \ {task.start} : Translate(tbl', w) = Translate(tbl, w)
    <2> DEFINE v == task.start
               fl == {}
    <2>1. /\ pc # "off" /\ v \in Pages /\ fl \in SUBSET Flags /\ Zero \in PageEntry
          /\ vmm_set_pt_value(v, fl, Zero)
      BY <1>2, UnmapCall
    <2> HIDE DEF v, fl
    <2>2. PICK lev, lev2 : Exact(v, fl, Zero, lev, lev2)
      BY <1>2, <2>1, SetValue
    <2>3. /\ Walk(tbl', root, v) = NoMap
          /\ \A w \in Pages : w # v => Walk(tbl', root, w) = Walk(tbl, root, w)
      BY <2>2 DEF Exact
    <2> QED
      BY <2>3, TranslateIsWalk DEF v
  <1> DEFINE A == /\ MapStep /\ ~ exhausted' =>
                       LET v == task.start + task.offset
                       IN /\ Translate(tbl', v).frame = task.start
                          /\ "P" \in Translate(tbl', v).flags
                          /\ Translate(tbl', v).flags \subseteq task.flags
                          /\ \A w \in Pages \ {v} : Translate(tbl', w) = Translate(tbl, w)
                  /\ UnmapStep /\ ~ exhausted' =>
                       /\ Translate(tbl', task.start) = NoMap
                       /\ \A w \in Pages \ {task.start} :
                             Translate(tbl', w) = Translate(tbl, w)
  <1>3. VirtInv /\ PresentInv /\ [Next]_vars => [A]_vars
    BY <1>1, <1>2
  <1> QED
    BY <1>3, VirtInvariant, PresentInvariant, PTL DEF Spec, StepsAreExact

\* While memory lasts, mapping a page and unmapping a mapped page lose no
\* frame: each frame the walk takes becomes a table in use, and no table in use
\* is cut off.
THEOREM NoFrameLost ==
  ASSUME MapsPresent
  PROVE  Spec => NoTableLost
  <1>1. ASSUME VirtInv, root' = root, NEW v, NEW fl, NEW value, NEW lev, NEW lev2,
               Exact(v, fl, value, lev, lev2),
               "P" \in fl \/ Walk(tbl, root, v) # NoMap
        PROVE  Lost' = Lost
    <2>1. /\ Tables = TablesOf(tbl, root)
          /\ Tables' = TablesOf(tbl', root)
      BY <1>1 DEF Tables, Pdpts, Pds, Pts, Entries, TablesOf, Below, PresentEntries
    <2>2. Tree(lev, tbl, free, root) /\ Tree(lev2, tbl', free', root)
      BY <1>1 DEF Exact
    <2>3. /\ Tables = {p \in AllFrames : lev[p] >= 1}
          /\ Tables' = {p \in AllFrames : lev2[p] >= 1}
      <3>1. TablesOf(tbl, root) = InUse(lev)
        BY <2>2, TablesOfTree
      <3>2. TablesOf(tbl', root) = InUse(lev2)
        BY <2>2, TablesOfTree
      <3> QED
        BY <2>1, <3>1, <3>2 DEF InUse
    <2>4. \A p \in AllFrames : lev2[p] >= 1 \/ p \in free' <=> lev[p] >= 1 \/ p \in free
      BY <1>1 DEF Exact
    <2>5. Frames \ (free' \cup Tables') = Frames \ (free \cup Tables)
      BY <2>3, <2>4 DEF AllFrames
    <2> QED
      BY <2>5 DEF Lost
  <1>2. ASSUME VirtInv, PresentInv, MapStep, ~ exhausted' PROVE Lost' = Lost
    <2> DEFINE v == task.start + task.offset
               value == [frame |-> task.start, flags |-> task.flags]
               fl == task.flags
    <2>1. /\ pc # "off" /\ v \in Pages /\ fl \in SUBSET Flags /\ value \in PageEntry
          /\ vmm_set_pt_value(v, fl, value) /\ root' = root
      BY <1>2, MapCall
    <2>2. "P" \in fl
      <3>1. task # NoTask /\ task.op = "map"
        BY <1>2 DEF MapStep, NoTask
      <3> QED
        BY <1>2, <3>1 DEF PresentInv, PresentCalls
    <2> HIDE DEF v, value, fl
    <2>3. PICK lev, lev2 : Exact(v, fl, value, lev, lev2)
      BY <1>2, <2>1, SetValue
    <2> QED
      BY <1>1, <1>2, <2>1, <2>2, <2>3
  <1>3. ASSUME VirtInv, UnmapStep, ~ exhausted', Translate(tbl, task.start) # NoMap
        PROVE  Lost' = Lost
    <2> DEFINE v == task.start
               fl == {}
    <2>1. /\ pc # "off" /\ v \in Pages /\ fl \in SUBSET Flags /\ Zero \in PageEntry
          /\ vmm_set_pt_value(v, fl, Zero) /\ root' = root
      BY <1>3, UnmapCall
    <2>2. Walk(tbl, root, v) # NoMap
      BY <1>3, TranslateIsWalk
    <2> HIDE DEF v, fl
    <2>3. PICK lev, lev2 : Exact(v, fl, Zero, lev, lev2)
      BY <1>3, <2>1, SetValue
    <2> QED
      BY <1>1, <1>3, <2>1, <2>2, <2>3
  <1> DEFINE A == pc # "off" /\ ~ exhausted' /\
                  (MapStep \/ (UnmapStep /\ Translate(tbl, task.start) # NoMap))
                     => Lost' = Lost
  <1>4. VirtInv /\ PresentInv /\ [Next]_vars => [A]_vars
    BY <1>2, <1>3
  <1> QED
    BY <1>4, VirtInvariant, PresentInvariant, PTL DEF Spec, NoTableLost
=============================================================================
