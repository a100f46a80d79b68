----------------------------- MODULE HeapProofs -----------------------------
(***************************************************************************)
(* Theorems about the heap, for every page size, every number of size      *)
(* classes and frames and all requests.                                    *)
(***************************************************************************)
EXTENDS Heap, NumberSets, SequenceTheorems

-----------------------------------------------------------------------------
(* Addresses.                                                              *)

Base(p) == p * PAGE
OnPage(p) == Base(p) .. (Base(p) + PAGE - 1)

\* What HeapAssumption says of the constants one by one.
LEMMA HeapConstants ==
  /\ PAGE \in Nat /\ PAGE > 24 /\ Len(Sizes) \in Nat \ {0}
  /\ Caches = 1 .. Len(Sizes) /\ 1 \in Caches
  /\ \A k \in Caches : k \in Nat /\ Sizes[k] \in Nat \ {0}
  /\ Largest \in Nat
  <1>1. Sizes \in Seq(Nat \ {0}) /\ Sizes # <<>>
    BY HeapAssumption
  <1>2. Len(Sizes) \in Nat /\ DOMAIN Sizes = 1 .. Len(Sizes)
    BY <1>1, LenProperties
  <1>3. Len(Sizes) # 0
    BY <1>1, EmptySeq
  <1>4. \A k \in 1 .. Len(Sizes) : Sizes[k] \in Nat \ {0}
    BY <1>1, ElementOfSeq
  <1>5. PAGE \in Nat /\ PAGE > 24
    BY HeapAssumption DEF SLAB_T, BUFCTL, PTR
  <1> QED
    BY <1>2, <1>3, <1>4, <1>5 DEF Caches, Largest

\* The sizes grow, and there are fewer classes than cells in a page.
LEMMA SizesGrow ==
  /\ \A k \in Caches : k <= Sizes[k] /\ Sizes[k] <= Largest
  /\ \A k \in Caches : PAGE >= 20 + Sizes[k] /\ k < PAGE
  <1> DEFINE n == Len(Sizes)
             S == {j \in 0 .. (n - 1) :
                      \A k \in 1 .. (j + 1) : k <= Sizes[k] /\ Sizes[k] <= Sizes[j + 1]}
  <1>0. n \in Nat \ {0} /\ Caches = 1 .. n /\ \A k \in 1 .. n : Sizes[k] \in Nat \ {0}
    BY HeapConstants
  <1>1. \A k \in 1 .. (n - 1) : Sizes[k + 1] = 2 * Sizes[k]
    BY HeapAssumption
  <1> HIDE DEF n
  <1>2. 0 \in S
    BY <1>0
  <1>3. ASSUME NEW j \in 0 .. ((n - 1) - 1), j \in S PROVE j + 1 \in S
    <2>1. j + 1 \in 1 .. (n - 1) /\ j + 1 \in 1 .. n /\ (j + 1) + 1 \in 1 .. n /\ j \in Nat
          /\ j + 1 \in 1 .. (j + 1) /\ j + 1 \in 0 .. (n - 1)
      BY <1>0
    <2>2. Sizes[(j + 1) + 1] = 2 * Sizes[j + 1] /\ Sizes[j + 1] \in Nat \ {0}
          /\ j + 1 <= Sizes[j + 1]
      BY <1>0, <1>1, <1>3, <2>1
    <2>3. ASSUME NEW k \in 1 .. ((j + 1) + 1)
          PROVE  k <= Sizes[k] /\ Sizes[k] <= Sizes[(j + 1) + 1]
      <3>1. CASE k = (j + 1) + 1
        BY <2>1, <2>2, <3>1
      <3>2. CASE k # (j + 1) + 1
        <4>1. k \in 1 .. (j + 1) /\ k \in 1 .. n
          BY <2>1, <3>2, <1>0
        <4>2. k <= Sizes[k] /\ Sizes[k] <= Sizes[j + 1] /\ Sizes[k] \in Nat
          BY <1>0, <1>3, <4>1
        <4> QED
          BY <2>2, <4>2
      <3> QED
        BY <3>1, <3>2
    <2> QED
      BY <2>1, <2>3
  <1>4. n - 1 \in Nat /\ n - 1 \in 0 .. (n - 1) /\ (n - 1) + 1 = n
    BY <1>0
  <1>5. n - 1 \in S
    <2> HIDE DEF S
    <2>1. \A k \in 0 .. (n - 1) : k \in S
      BY <1>2, <1>3, <1>4, IntervalInduction
    <2> QED
      BY <1>4, <2>1
  <1>6. \A k \in 1 .. n : k <= Sizes[k] /\ Sizes[k] <= Sizes[n]
    BY <1>4, <1>5
  <1>7. PAGE >= 20 + Largest /\ Largest = Sizes[n] /\ PAGE \in Nat
    BY HeapAssumption DEF CACHE_T, PTR, Largest, n
  <1>8. n \in 1 .. n
    BY <1>0
  <1> QED
    BY <1>0, <1>6, <1>7, <1>8

\* Each address is on one page.
LEMMA OnePage ==
  ASSUME NEW p \in Nat, NEW a \in Int
  PROVE  /\ Base(p) \in Nat
         /\ a \in OnPage(p) <=> a \div PAGE = p
         /\ a \in OnPage(p) /\ a % PAGE = 0 => a = Base(p)
         /\ Base(p) \in OnPage(p) /\ Base(p) % PAGE = 0
  <1>0. PAGE \in Nat /\ PAGE > 0
    BY HeapConstants
  <1>1. Base(p) \in Nat
    BY <1>0 DEF Base
  <1> DEFINE q == a \div PAGE
             r == a % PAGE
  <1>2. q \in Int /\ r \in 0 .. (PAGE - 1) /\ a = PAGE * q + r
    BY <1>0
  <1> HIDE DEF q, r
  <1>3. a \in OnPage(p) => q = p
    <2> SUFFICES ASSUME a \in OnPage(p), q # p PROVE FALSE
      OBVIOUS
    <2>1. a >= PAGE * p /\ a < PAGE * p + PAGE
      BY <1>0, <1>1 DEF OnPage, Base
    <2>2. CASE q >= p + 1
      <3>1. PAGE * q >= PAGE * (p + 1)
        BY <1>0, <1>2, <2>2
      <3> QED
        BY <1>0, <1>2, <2>1, <3>1
    <2>3. CASE q + 1 <= p
      <3>1. PAGE * (q + 1) <= PAGE * p
        BY <1>0, <1>2, <2>3
      <3> QED
        BY <1>0, <1>2, <2>1, <3>1
    <2> QED
      BY <1>2, <2>2, <2>3
  <1>4. q = p => a \in OnPage(p)
    BY <1>0, <1>1, <1>2 DEF OnPage, Base
  <1>5. q = p /\ r = 0 => a = Base(p)
    BY <1>0, <1>2 DEF Base
  <1>6. Base(p) \in OnPage(p)
    BY <1>0, <1>1 DEF OnPage
  <1>7. Base(p) % PAGE = 0
    BY <1>0 DEF Base
  <1> QED
    BY <1>1, <1>3, <1>4, <1>5, <1>6, <1>7 DEF q, r

\* The pages of all frames are memory, that of frame 0 too.
LEMMA PagesAreCells ==
  ASSUME NEW p \in Frames \cup {0}
  PROVE  p \in Nat /\ \A a \in OnPage(p) : a \in Cells /\ a \in Nat
  <1> DEFINE m == Max(Frames)
  <1>1. m \in Frames /\ \A q \in Frames : q <= m
    BY HeapAssumption, MaxIsGreatest
  <1>2. Frames \in SUBSET Nat
    BY HeapAssumption
  <1> HIDE DEF m
  <1>3. m \in Nat /\ p \in Nat /\ p <= m
    <2>1. m \in Nat /\ 0 <= m
      BY <1>1, <1>2
    <2>2. CASE p \in Frames
      BY <1>1, <1>2, <2>1, <2>2
    <2>3. CASE p = 0
      BY <2>1, <2>3
    <2> QED
      BY <2>2, <2>3
  <1>4. PAGE \in Nat
    BY HeapConstants
  <1>5. PAGE * (p + 1) <= PAGE * (m + 1)
    BY <1>3, <1>4
  <1>6. \A a \in OnPage(p) : a \in 0 .. (PAGE * (m + 1) - 1)
    BY <1>3, <1>4, <1>5 DEF OnPage, Base
  <1> QED
    BY <1>3, <1>6 DEF Cells, m

\* The buffers of a slab lie one behind another on its page, with room for a
\* slab_cache_t behind the last.
LEMMA BufferFits ==
  ASSUME NEW k \in Caches, NEW p \in Nat
  PROVE  /\ bufctl_count_max(k) \in Nat \ {0}
         /\ Buffer(k, p, 1) = Base(p)
         /\ \A j \in 1 .. bufctl_count_max(k) :
               /\ Buffer(k, p, j) \in Nat /\ Buffer(k, p, j) >= Base(p)
               /\ Buffer(k, p, j) + Sizes[k] + 20 <= Base(p) + PAGE
               /\ Buffer(k, p, j + 1) = Buffer(k, p, j) + Sizes[k]
         /\ \A j, l \in 1 .. bufctl_count_max(k) :
               j < l => Buffer(k, p, j) + Sizes[k] <= Buffer(k, p, l)
  <1> DEFINE s == Sizes[k]
             c == bufctl_count_max(k)
             b == Base(p)
  <1>0. PAGE \in Nat /\ s \in Nat \ {0} /\ PAGE >= 20 + s
    BY HeapConstants, SizesGrow
  <1>1. b \in Nat
    BY OnePage
  <1> HIDE DEF s
  <1>2. c = (PAGE - 20) \div s
    BY DEF bufctl_count_max, CACHE_T, PTR, s
  <1>3. c \in Nat /\ s * c <= PAGE - 20 /\ PAGE - 20 < s * c + s
    BY <1>0, <1>2
  <1>4. c # 0
    <2> SUFFICES ASSUME c = 0 PROVE FALSE
      OBVIOUS
    <2>1. s * c = 0
      BY <1>0, <1>3
    <2> HIDE DEF c
    <2> QED
      BY <1>0, <1>3, <2>1
  <1> HIDE DEF c, b
  <1>5. \A j \in Nat : Buffer(k, p, j) = b + (j - 1) * s
    BY <1>0 DEF Buffer, Base, b, s
  <1>6. \A j \in 1 .. c : Buffer(k, p, j) = b + s * j - s /\ s * j <= s * c /\ s * j >= s /\ j \in Nat
    <2> TAKE j \in 1 .. c
    <2>1. j \in Nat /\ j >= 1 /\ j <= c
      BY <1>3
    <2>2. s * j <= s * c /\ s * j >= s /\ (j - 1) * s = s * j - s
      BY <1>0, <1>3, <2>1
    <2> QED
      BY <1>1, <1>0, <1>5, <2>1, <2>2
  <1>7. \A j \in 1 .. c : /\ Buffer(k, p, j) \in Nat /\ Buffer(k, p, j) >= b
                          /\ Buffer(k, p, j) + s + 20 <= b + PAGE
    <2> TAKE j \in 1 .. c
    <2> DEFINE x == s * j
               y == s * c
    <2>1. x \in Int /\ y \in Int
      BY <1>0, <1>3
    <2>2. Buffer(k, p, j) = b + x - s /\ x <= y /\ x >= s /\ y <= PAGE - 20
      BY <1>3, <1>6
    <2> HIDE DEF x, y
    <2> QED
      BY <1>0, <1>1, <2>1, <2>2
  <1>8. \A j \in 1 .. c : Buffer(k, p, j + 1) = Buffer(k, p, j) + s
    <2> TAKE j \in 1 .. c
    <2>1. j \in Nat /\ j + 1 \in Nat
      BY <1>3
    <2>2. ((j + 1) - 1) * s = (j - 1) * s + s
      BY <1>0, <2>1
    <2>3. (j - 1) * s \in Int
      BY <1>0, <2>1
    <2> QED
      BY <1>0, <1>1, <1>5, <2>1, <2>2, <2>3
  <1>9. ASSUME NEW j \in 1 .. c, NEW l \in 1 .. c, j < l
        PROVE  Buffer(k, p, j) + s <= Buffer(k, p, l)
    <2>1. j \in Nat /\ l \in Nat /\ j + 1 <= l
      BY <1>3, <1>9
    <2>2. s * (j + 1) <= s * l /\ s * (j + 1) = s * j + s
      BY <1>0, <2>1
    <2> DEFINE x == s * j
               y == s * l
    <2>3. x \in Int /\ y \in Int /\ x + s <= y
      BY <1>0, <2>1, <2>2
    <2>4. Buffer(k, p, j) = b + x - s /\ Buffer(k, p, l) = b + y - s
      BY <1>6
    <2> HIDE DEF x, y
    <2> QED
      BY <1>0, <1>1, <2>3, <2>4
  <1>10. Buffer(k, p, 1) = b
    BY <1>0, <1>1, <1>5
  <1> QED
    BY <1>3, <1>4, <1>7, <1>8, <1>9, <1>10 DEF s, c, b

-----------------------------------------------------------------------------
(* The invariant.  Its parts take the state as parameters: m is mem, pg is *)
(* page, F is free, L is live and H the part of live on one page.          *)

Value == Cells \cup {WILD, DATA}
Memory == [Cells -> Value]
Block == [ptr : Nat, size : Nat]

\* The buffers of cache k on page p, and the callers' blocks on it.
Bufs(k, p) == {Buffer(k, p, j) : j \in 1 .. bufctl_count_max(k)}
Here(L, p) == {b \in L : b.ptr \in OnPage(p)}
Ptrs(H) == {b.ptr : b \in H}

\* The pointer v stands at address a.
NextIs(m, a, v) == m[a] = v /\ m[a + 1] = 0 /\ m[a + 2] = 0 /\ m[a + 3] = 0

\* The c nodes of f, from the head h on, are a list of different members of B.
Nodes(f, c) == {f[j] : j \in 0 .. (c - 1)}
Chain(m, f, c, h, B) ==
    /\ c \in Nat
    /\ f \in [0 .. c -> B \cup {NULL}] /\ f[0] = h /\ f[c] = NULL
    /\ \A j \in 0 .. (c - 1) : f[j] \in B /\ NextIs(m, f[j], f[j + 1])
    /\ \A j, l \in 0 .. (c - 1) : f[j] = f[l] => j = l

\* A cache with room for its links: each buffer is either on the list or a
\* caller's, whose metadata names the cache.
ListOK(k, p, m, h, c, H) ==
    \E f : /\ Chain(m, f, c, h, Bufs(k, p))
           /\ Nodes(f, c) \cap Ptrs(H) = {}
           /\ Nodes(f, c) \cup Ptrs(H) = Bufs(k, p)
OwnersOK(k, m, H) ==
    \A b \in H : /\ m[b.ptr] = k - 1 /\ b.size \in 1 .. Sizes[k]
                 /\ \A x \in H : x.ptr = b.ptr => x = b

\* The other caches may be in any disorder, but it does not leave their pages:
\* what can be taken for a pointer there leads to one of them, with room for a
\* slab_bufctl_t, and what can be taken for a cache's index is that of one.
Small == Caches \ SoundCaches
SmallPtrs(pg) ==
    UNION {Base(pg[k]) .. (Base(pg[k]) + PAGE - BUFCTL) : k \in Small}
SmallVals(pg) == SmallPtrs(pg) \cup {WILD, DATA} \cup {k - 1 : k \in Small}
DisorderOK(k, pg, m, H) ==
    /\ \A a \in OnPage(pg[k]) : m[a] \in SmallVals(pg)
    /\ \A b \in H : b.ptr \in SmallPtrs(pg) /\ b.size \in 1 .. (BUFCTL - 1)

\* A block of its own page; the pages at address 0 may be several callers'.
PageOK(p, m, F, H) ==
    \A b \in H : /\ b.ptr = Base(p) /\ b.size \in 1 .. PAGE /\ m[b.ptr] = 1
                 /\ p # 0 => p \notin F /\ \A x \in H : x = b

\* The frames that are no slab's.
Others(pg) == (Frames \cup {0}) \ {pg[k] : k \in Caches}
Layout(pg, F) ==
    /\ pg \in [Caches -> Frames] /\ \A k, l \in Caches : pg[k] = pg[l] => k = l
    /\ F \in SUBSET (Frames \cup {0}) /\ \A k \in Caches : pg[k] \notin F

Run(pg, m, F, h, c, L) ==
    /\ Layout(pg, F)
    /\ h \in [Caches -> Int] /\ c \in [Caches -> Int]
    /\ \A k \in SoundCaches : /\ ListOK(k, pg[k], m, h[k], c[k], Here(L, pg[k]))
                              /\ OwnersOK(k, m, Here(L, pg[k]))
    /\ \A k \in Small : /\ h[k] \in SmallPtrs(pg) \cup {NULL, WILD}
                        /\ DisorderOK(k, pg, m, Here(L, pg[k]))
    /\ \A p \in Others(pg) : PageOK(p, m, F, Here(L, p))
RunInv == Run(page, mem, free, freelist_head, bufctl_count, live)

HeapTypes ==
    /\ mem \in Memory /\ live \in SUBSET Block
    /\ status \in {"boot", "run", "panic", "wild", "corrupt"}
    /\ culprit \in Caches \cup {0}
    /\ \A b \in live : \E p \in Frames \cup {0} :
          b.ptr \in OnPage(p) /\ b.size # 0 /\ b.ptr + b.size - 1 \in OnPage(p)
    /\ status = "corrupt" \/ free \subseteq Frames \cup {0}

HeapInv ==
    /\ HeapTypes
    /\ status = "boot" => free = Frames /\ mem = [a \in Cells |-> 0] /\ live = {}
    /\ status = "run" => RunInv
    /\ status = "wild" => culprit \notin SoundCaches

-----------------------------------------------------------------------------
(* Memory.                                                                 *)

\* Frame 0 is memory.
LEMMA ZeroIsCell == 0 \in Cells /\ 0 \in Value /\ Base(0) = 0
  <1>1. Base(0) = 0
    BY HeapConstants DEF Base
  <1>2. Base(0) \in OnPage(0)
    BY OnePage
  <1> QED
    BY <1>1, <1>2, PagesAreCells DEF Value

\* WithPtr puts a pointer into its four cells and leaves all others alone.
LEMMA WithPtrPuts ==
  ASSUME NEW m \in Memory, NEW a \in Nat, NEW v \in Value,
         a \in Cells, a + 1 \in Cells, a + 2 \in Cells, a + 3 \in Cells
  PROVE  /\ WithPtr(m, a, v) \in Memory
         /\ NextIs(WithPtr(m, a, v), a, v)
         /\ \A x \in Cells : x \notin a .. (a + 3) => WithPtr(m, a, v)[x] = m[x]
  <1> DEFINE m1 == [m EXCEPT ![a] = v]
             m2 == [m1 EXCEPT ![a + 1] = 0]
             m3 == [m2 EXCEPT ![a + 2] = 0]
             m4 == [m3 EXCEPT ![a + 3] = 0]
  <1>1. WithPtr(m, a, v) = m4
    BY DEF WithPtr
  <1>2. 0 \in Value
    BY ZeroIsCell
  <1>3. m1 \in Memory /\ m2 \in Memory /\ m3 \in Memory /\ m4 \in Memory
    BY <1>2 DEF Memory
  <1>4. a # a + 1 /\ a # a + 2 /\ a # a + 3 /\ a + 1 # a + 2 /\ a + 1 # a + 3 /\ a + 2 # a + 3
    OBVIOUS
  <1>5. /\ m4[a + 3] = 0 /\ m4[a + 2] = 0 /\ m4[a + 1] = 0 /\ m4[a] = v
        /\ \A x \in Cells : x # a /\ x # a + 1 /\ x # a + 2 /\ x # a + 3 => m4[x] = m[x]
    <2>1. m4[a + 3] = 0 /\ \A x \in Cells : x # a + 3 => m4[x] = m3[x]
      BY <1>3 DEF Memory
    <2>2. m3[a + 2] = 0 /\ \A x \in Cells : x # a + 2 => m3[x] = m2[x]
      BY <1>3 DEF Memory
    <2>3. m2[a + 1] = 0 /\ \A x \in Cells : x # a + 1 => m2[x] = m1[x]
      BY <1>3 DEF Memory
    <2>4. m1[a] = v /\ \A x \in Cells : x # a => m1[x] = m[x]
      BY <1>3 DEF Memory
    <2> HIDE DEF m1, m2, m3, m4
    <2> QED
      BY <1>4, <2>1, <2>2, <2>3, <2>4
  <1>6. \A x \in Cells : x \notin a .. (a + 3) => x # a /\ x # a + 1 /\ x # a + 2 /\ x # a + 3
    BY DEF Cells
  <1> HIDE DEF m4
  <1> QED
    BY <1>1, <1>3, <1>5, <1>6 DEF NextIs

\* A slab_bufctl_t at address a: the pointer to the next one and its own.
WithBufctl(m, a, v) == WithPtr(WithPtr(m, a, v), a + PTR, a)

\* It takes the eight cells from a on.
LEMMA WithBufctlPuts ==
  ASSUME NEW m \in Memory, NEW a \in Nat, NEW v \in Value,
         \A x \in a .. (a + 7) : x \in Cells
  PROVE  /\ WithBufctl(m, a, v) \in Memory
         /\ NextIs(WithBufctl(m, a, v), a, v)
         /\ \A x \in a .. (a + 7) : WithBufctl(m, a, v)[x] \in {v, 0, a}
         /\ \A x \in Cells : x \notin a .. (a + 7) => WithBufctl(m, a, v)[x] = m[x]
  <1> DEFINE n == WithPtr(m, a, v)
             r == WithPtr(n, a + 4, a)
  <1>0. /\ a \in Cells /\ a + 1 \in Cells /\ a + 2 \in Cells /\ a + 3 \in Cells
        /\ a + 4 \in Cells /\ a + 5 \in Cells /\ a + 6 \in Cells /\ a + 7 \in Cells
    BY Z3
  <1>1. n \in Memory /\ NextIs(n, a, v) /\ \A x \in Cells : x \notin a .. (a + 3) => n[x] = m[x]
    BY <1>0, WithPtrPuts
  <1> DEFINE c == a + 4
  <1>2. /\ c \in Nat /\ c \in Cells /\ c + 1 \in Cells /\ c + 2 \in Cells /\ c + 3 \in Cells
        /\ c + 1 = a + 5 /\ c + 2 = a + 6 /\ c + 3 = a + 7 /\ a \in Value
    BY <1>0 DEF Value
  <1> HIDE DEF n, c
  <1>3. WithPtr(n, c, a) \in Memory /\ NextIs(WithPtr(n, c, a), c, a)
        /\ \A x \in Cells : x \notin c .. (c + 3) => WithPtr(n, c, a)[x] = n[x]
    BY <1>1, <1>2, WithPtrPuts
  <1>4. r \in Memory /\ NextIs(r, c, a) /\ \A x \in Cells : x \notin c .. (c + 3) => r[x] = n[x]
    BY <1>3 DEF c
  <1>5. WithBufctl(m, a, v) = r
    BY DEF WithBufctl, PTR, n
  <1> HIDE DEF r
  <1>6. r[a] = v /\ r[a + 1] = 0 /\ r[a + 2] = 0 /\ r[a + 3] = 0
    <2>1. \A x \in a .. (a + 3) : x \in Cells /\ x \notin c .. (c + 3)
      BY <1>0, <1>2 DEF c
    <2>2. r[a] = n[a] /\ r[a + 1] = n[a + 1] /\ r[a + 2] = n[a + 2] /\ r[a + 3] = n[a + 3]
      BY <1>4, <2>1
    <2> QED
      BY <1>1, <2>2 DEF NextIs
  <1>7. r[a + 4] = a /\ r[a + 5] = 0 /\ r[a + 6] = 0 /\ r[a + 7] = 0
    BY <1>2, <1>4 DEF NextIs, c
  <1>8. \A x \in a .. (a + 7) : x = a \/ x = a + 1 \/ x = a + 2 \/ x = a + 3
           \/ x = a + 4 \/ x = a + 5 \/ x = a + 6 \/ x = a + 7
    OBVIOUS
  <1>9. \A x \in a .. (a + 7) : r[x] \in {v, 0, a}
    BY <1>6, <1>7, <1>8
  <1>10. \A x \in Cells : x \notin a .. (a + 7) => r[x] = m[x]
    <2> SUFFICES ASSUME NEW x \in Cells, x \notin a .. (a + 7) PROVE r[x] = m[x]
      OBVIOUS
    <2>1. x \in Int
      BY DEF Cells
    <2>2. x \notin a .. (a + 3) /\ x \notin c .. (c + 3)
      BY <2>1 DEF c
    <2> QED
      BY <1>1, <1>4, <2>2
  <1> QED
    BY <1>4, <1>5, <1>6, <1>9, <1>10 DEF NextIs

\* The caches with room for their links have at least eight cells to a buffer.
LEMMA SoundSizes ==
  /\ \A k \in SoundCaches : k \in Caches /\ Sizes[k] >= 8
  /\ \A k \in Small : k \in Caches /\ Sizes[k] < 8 /\ k \notin SoundCaches
  /\ \A k \in Caches : k \in SoundCaches \/ k \in Small
  BY HeapConstants DEF SoundCaches, Small, BUFCTL, PTR

\* A buffer lies on its slab's page, is not NULL, and is apart from the others.
LEMMA BufsApart ==
  ASSUME NEW k \in Caches, NEW p \in Frames
  PROVE  /\ \A x \in Bufs(k, p) :
               /\ x \in Nat /\ x # NULL /\ x \in OnPage(p) /\ x + Sizes[k] + 19 \in OnPage(p)
               /\ \A a \in x .. (x + Sizes[k] - 1) : a \in OnPage(p)
         /\ \A x, y \in Bufs(k, p) : x # y => x + Sizes[k] <= y \/ y + Sizes[k] <= x
  <1> DEFINE s == Sizes[k]
             c == bufctl_count_max(k)
             B(j) == Buffer(k, p, j)
  <1>0. p \in Nat /\ p # 0 /\ PAGE \in Nat /\ PAGE > 0 /\ s \in Nat \ {0}
    BY HeapAssumption, HeapConstants
  <1>1. Base(p) \in Nat /\ Base(p) > 0
    BY <1>0 DEF Base
  <1>2. /\ c \in Nat
        /\ \A j \in 1 .. c : B(j) \in Nat /\ B(j) >= Base(p) /\ B(j) + s + 20 <= Base(p) + PAGE
        /\ \A j, l \in 1 .. c : j < l => B(j) + s <= B(l)
    BY <1>0, BufferFits
  <1>3. Bufs(k, p) = {B(j) : j \in 1 .. c}
    BY DEF Bufs
  <1> HIDE DEF B, s, c
  <1>4. ASSUME NEW j \in 1 .. c
        PROVE  /\ B(j) \in Nat /\ B(j) # NULL /\ B(j) \in OnPage(p) /\ B(j) + s + 19 \in OnPage(p)
               /\ \A a \in B(j) .. (B(j) + s - 1) : a \in OnPage(p)
    BY <1>0, <1>1, <1>2 DEF OnPage, NULL
  <1>5. ASSUME NEW j \in 1 .. c, NEW l \in 1 .. c, B(j) # B(l)
        PROVE  B(j) + s <= B(l) \/ B(l) + s <= B(j)
    <2>1. j < l \/ l < j
      BY <1>2, <1>5
    <2> QED
      BY <1>2, <2>1
  <1> QED
    BY <1>3, <1>4, <1>5 DEF s

\* A list stays one while the first four cells of its nodes do.
LEMMA ChainKept ==
  ASSUME NEW m, NEW f, NEW c, NEW h, NEW B \in SUBSET Nat, Chain(m, f, c, h, B), NEW m2,
         \A x \in Nodes(f, c) : \A a \in x .. (x + 3) : m2[a] = m[a]
  PROVE  Chain(m2, f, c, h, B)
  <1>1. ASSUME NEW j \in 0 .. (c - 1) PROVE NextIs(m2, f[j], f[j + 1])
    <2> DEFINE x == f[j]
               v == f[j + 1]
    <2>1. x \in Nat /\ x \in Nodes(f, c) /\ NextIs(m, x, v)
      BY DEF Chain, Nodes
    <2> HIDE DEF x, v
    <2>2. x \in x .. (x + 3) /\ x + 1 \in x .. (x + 3) /\ x + 2 \in x .. (x + 3) /\ x + 3 \in x .. (x + 3)
      BY <2>1
    <2>3. NextIs(m2, x, v)
      BY <2>1, <2>2 DEF NextIs
    <2> QED
      BY <2>3 DEF x, v
  <1> QED
    BY <1>1 DEF Chain

\* What holds of a page holds while the page stays as it is.
LEMMA ListKept ==
  ASSUME NEW k \in SoundCaches, NEW p \in Frames, NEW m, NEW h, NEW c, NEW H,
         ListOK(k, p, m, h, c, H), NEW m2, \A a \in OnPage(p) : m2[a] = m[a]
  PROVE  ListOK(k, p, m2, h, c, H)
  <1>1. PICK f : /\ Chain(m, f, c, h, Bufs(k, p))
                 /\ Nodes(f, c) \cap Ptrs(H) = {}
                 /\ Nodes(f, c) \cup Ptrs(H) = Bufs(k, p)
    BY DEF ListOK
  <1>2. \A x \in Bufs(k, p) : x \in Nat /\ \A a \in x .. (x + 3) : a \in OnPage(p)
    <2> TAKE x \in Bufs(k, p)
    <2>1. k \in Caches /\ Sizes[k] >= 8 /\ Sizes[k] \in Nat
      BY SoundSizes, HeapConstants
    <2>2. x \in Nat /\ \A a \in x .. (x + Sizes[k] - 1) : a \in OnPage(p)
      BY <2>1, BufsApart
    <2> QED
      BY <2>1, <2>2
  <1>3. Chain(m2, f, c, h, Bufs(k, p))
    <2>1. Bufs(k, p) \in SUBSET Nat /\ \A x \in Nodes(f, c) : x \in Bufs(k, p)
      BY <1>1, <1>2
    <2> QED
      BY <1>1, <1>2, <2>1, ChainKept
  <1> QED
    BY <1>1, <1>3 DEF ListOK

\* Only the cells of the buffer y on page p may have changed from m to m2.
OnlyIn(k, p, y, m, m2) == \A a \in OnPage(p) : a \notin y .. (y + Sizes[k] - 1) => m2[a] = m[a]

\* The other buffers' cells are then as they were.
LEMMA OthersKept ==
  ASSUME NEW k \in SoundCaches, NEW p \in Frames, NEW y \in Bufs(k, p), NEW m, NEW m2,
         OnlyIn(k, p, y, m, m2), NEW x \in Bufs(k, p), x # y
  PROVE  \A a \in x .. (x + 3) : m2[a] = m[a]
  <1> DEFINE s == Sizes[k]
  <1>1. k \in Caches /\ s >= 8 /\ s \in Nat
    BY SoundSizes, HeapConstants
  <1>2. /\ x \in Nat /\ y \in Nat /\ (x + s <= y \/ y + s <= x)
        /\ \A a \in x .. (x + s - 1) : a \in OnPage(p)
    BY <1>1, BufsApart
  <1> HIDE DEF s
  <1>3. \A a \in x .. (x + 3) : a \in x .. (x + s - 1) /\ a \notin y .. (y + s - 1)
    BY <1>1, <1>2
  <1> QED
    BY <1>2, <1>3 DEF OnlyIn, s

\* A caller's buffer is not on the list, so what happens in it leaves the list
\* and the other owners alone.
LEMMA BufferIsPrivate ==
  ASSUME NEW k \in SoundCaches, NEW p \in Frames, NEW m, NEW h, NEW c, NEW H,
         ListOK(k, p, m, h, c, H), OwnersOK(k, m, H),
         NEW y \in Ptrs(H), NEW m2, OnlyIn(k, p, y, m, m2), m2[y] = m[y]
  PROVE  ListOK(k, p, m2, h, c, H) /\ OwnersOK(k, m2, H)
  <1>1. PICK f : /\ Chain(m, f, c, h, Bufs(k, p))
                 /\ Nodes(f, c) \cap Ptrs(H) = {}
                 /\ Nodes(f, c) \cup Ptrs(H) = Bufs(k, p)
    BY DEF ListOK
  <1>2. Bufs(k, p) \in SUBSET Nat
    BY SoundSizes, BufsApart
  <1>3. y \in Bufs(k, p)
    BY <1>1
  <1>4. \A z \in Bufs(k, p) : z # y => \A a \in z .. (z + 3) : m2[a] = m[a]
    BY <1>3, OthersKept
  <1>5. Chain(m2, f, c, h, Bufs(k, p))
    <2>1. ASSUME NEW x \in Nodes(f, c) PROVE \A a \in x .. (x + 3) : m2[a] = m[a]
      <3>1. x \in Bufs(k, p) /\ x # y
        BY <1>1
      <3> QED
        BY <1>4, <3>1
    <2> QED
      BY <1>1, <1>2, <2>1, ChainKept
  <1>6. ASSUME NEW b \in H PROVE m2[b.ptr] = m[b.ptr]
    <2>1. b.ptr \in Bufs(k, p)
      BY <1>1 DEF Ptrs
    <2>2. CASE b.ptr # y
      <3> DEFINE x == b.ptr
      <3> HIDE DEF x
      <3>1. x \in Bufs(k, p) /\ x # y /\ x \in Nat
        BY <1>2, <2>1, <2>2 DEF x
      <3>2. \A a \in x .. (x + 3) : m2[a] = m[a]
        BY <1>4, <3>1
      <3>3. x \in x .. (x + 3)
        BY <3>1
      <3> QED
        BY <3>2, <3>3 DEF x
    <2> QED
      BY <2>2
  <1> QED
    BY <1>1, <1>5, <1>6 DEF ListOK, OwnersOK

\* slab_cache_alloc takes the first buffer off the list.
LEMMA Popped ==
  ASSUME NEW k \in SoundCaches, NEW p \in Frames, NEW m, NEW h, NEW c, NEW H,
         ListOK(k, p, m, h, c, H), h # NULL, OwnersOK(k, m, H),
         NEW b, b.ptr = h, b.size \in 1 .. Sizes[k],
         NEW m2, OnlyIn(k, p, h, m, m2), m2[h] = k - 1
  PROVE  /\ h \in Bufs(k, p) /\ \A x \in H : x.ptr # h
         /\ m[h] \in Bufs(k, p) \cup {NULL} /\ NextIs(m, h, m[h])
         /\ ListOK(k, p, m2, m[h], c - 1, H \cup {b})
         /\ OwnersOK(k, m2, H \cup {b})
  <1>1. PICK f : /\ Chain(m, f, c, h, Bufs(k, p))
                 /\ Nodes(f, c) \cap Ptrs(H) = {}
                 /\ Nodes(f, c) \cup Ptrs(H) = Bufs(k, p)
    BY DEF ListOK
  <1>2. Bufs(k, p) \in SUBSET Nat
    BY SoundSizes, BufsApart
  <1>3. c \in Nat /\ c # 0 /\ f[0] = h /\ f[c] = NULL
    BY <1>1 DEF Chain
  <1>4. 0 \in 0 .. (c - 1) /\ c - 1 \in Nat /\ 0 + 1 = 1 /\ 1 \in 0 .. c
    BY <1>3
  <1>5. h \in Bufs(k, p) /\ NextIs(m, h, f[1]) /\ h \in Nodes(f, c)
    BY <1>1, <1>3, <1>4 DEF Chain, Nodes
  <1>6. m[h] = f[1] /\ f[1] \in Bufs(k, p) \cup {NULL}
    BY <1>1, <1>4, <1>5 DEF NextIs, Chain
  <1>7. \A x \in H : x.ptr # h
    BY <1>1, <1>5 DEF Ptrs
  <1> DEFINE g == [j \in 0 .. (c - 1) |-> f[j + 1]]
  <1>8. \A j \in 0 .. (c - 1) : j + 1 \in 0 .. c /\ g[j] = f[j + 1]
    BY <1>3
  <1>9. \A j \in 0 .. ((c - 1) - 1) : j \in 0 .. (c - 1) /\ j + 1 \in 0 .. (c - 1) /\ j + 1 # 0
    BY <1>3
  <1>10. \A j, l \in 0 .. (c - 1) : f[j] = f[l] => j = l
    BY <1>1 DEF Chain
  <1>11. Nodes(g, c - 1) = Nodes(f, c) \ {h}
    <2>1. \A j \in 0 .. ((c - 1) - 1) : g[j] \in Nodes(f, c) \ {h}
      <3> TAKE j \in 0 .. ((c - 1) - 1)
      <3>1. j + 1 \in 0 .. (c - 1) /\ g[j] = f[j + 1] /\ j + 1 # 0
        BY <1>8, <1>9
      <3>2. f[j + 1] # f[0]
        BY <1>4, <1>10, <3>1
      <3> QED
        BY <1>3, <3>1, <3>2 DEF Nodes
    <2>2. \A j \in 0 .. (c - 1) : f[j] # h => \E l \in 0 .. ((c - 1) - 1) : g[l] = f[j]
      <3> SUFFICES ASSUME NEW j \in 0 .. (c - 1), f[j] # h
                   PROVE  \E l \in 0 .. ((c - 1) - 1) : g[l] = f[j]
        OBVIOUS
      <3>1. j # 0
        BY <1>3
      <3>2. j - 1 \in 0 .. ((c - 1) - 1) /\ j - 1 \in 0 .. (c - 1) /\ (j - 1) + 1 = j
        BY <1>3, <3>1
      <3>3. g[j - 1] = f[j]
        BY <1>8, <3>2
      <3> QED
        BY <3>2, <3>3
    <2> HIDE DEF g
    <2> QED
      BY <2>1, <2>2 DEF Nodes
  <1>12. Chain(m, g, c - 1, m[h], Bufs(k, p))
    <2>1. g \in [0 .. (c - 1) -> Bufs(k, p) \cup {NULL}]
      <3>1. \A j \in 0 .. c : f[j] \in Bufs(k, p) \cup {NULL}
        BY <1>1 DEF Chain
      <3> QED
        BY <1>8, <3>1
    <2>2. g[0] = m[h] /\ g[c - 1] = NULL
      <3>1. c - 1 \in 0 .. (c - 1) /\ (c - 1) + 1 = c
        BY <1>3
      <3> QED
        BY <1>3, <1>4, <1>6, <1>8, <3>1
    <2>3. ASSUME NEW j \in 0 .. ((c - 1) - 1)
          PROVE  g[j] \in Bufs(k, p) /\ NextIs(m, g[j], g[j + 1])
      <3>1. j + 1 \in 0 .. (c - 1) /\ g[j] = f[j + 1] /\ g[j + 1] = f[(j + 1) + 1]
        BY <1>8, <1>9
      <3> QED
        BY <1>1, <3>1 DEF Chain
    <2>4. ASSUME NEW j \in 0 .. ((c - 1) - 1), NEW l \in 0 .. ((c - 1) - 1), g[j] = g[l]
          PROVE  j = l
      <3>1. j + 1 \in 0 .. (c - 1) /\ l + 1 \in 0 .. (c - 1) /\ f[j + 1] = f[l + 1]
        BY <1>8, <1>9, <2>4
      <3>2. j + 1 = l + 1
        BY <1>10, <3>1
      <3> QED
        BY <1>3, <3>2
    <2> HIDE DEF g
    <2> QED
      BY <1>4, <2>1, <2>2, <2>3, <2>4 DEF Chain
  <1> HIDE DEF g
  <1>13. Chain(m2, g, c - 1, m[h], Bufs(k, p))
    <2>1. ASSUME NEW x \in Nodes(g, c - 1) PROVE \A a \in x .. (x + 3) : m2[a] = m[a]
      <3>1. x \in Bufs(k, p) /\ x # h
        BY <1>1, <1>11
      <3> QED
        BY <1>5, <3>1, OthersKept
    <2> QED
      BY <1>2, <1>12, <2>1, ChainKept
  <1>14. Ptrs(H \cup {b}) = Ptrs(H) \cup {h}
    BY DEF Ptrs
  <1>15. ListOK(k, p, m2, m[h], c - 1, H \cup {b})
    <2>1. Nodes(g, c - 1) \cap Ptrs(H \cup {b}) = {}
      BY <1>1, <1>11, <1>14
    <2>2. Nodes(g, c - 1) \cup Ptrs(H \cup {b}) = Bufs(k, p)
      BY <1>1, <1>5, <1>11, <1>14
    <2> QED
      BY <1>13, <2>1, <2>2 DEF ListOK
  <1>16. OwnersOK(k, m2, H \cup {b})
    <2>1. ASSUME NEW x \in H PROVE m2[x.ptr] = m[x.ptr] /\ x.ptr # h
      <3> DEFINE y == x.ptr
      <3>1. y \in Bufs(k, p) /\ y # h /\ y \in Nat
        BY <1>1, <1>2, <1>7 DEF Ptrs
      <3> HIDE DEF y
      <3>2. \A a \in y .. (y + 3) : m2[a] = m[a]
        BY <1>5, <3>1, OthersKept
      <3>3. y \in y .. (y + 3)
        BY <3>1
      <3> QED
        BY <3>1, <3>2, <3>3 DEF y
    <2> QED
      BY <2>1 DEF OwnersOK
  <1> QED
    BY <1>5, <1>6, <1>7, <1>15, <1>16

\* slab_cache_free puts a caller's buffer in front of the list.
LEMMA Pushed ==
  ASSUME NEW k \in SoundCaches, NEW p \in Frames, NEW m, NEW h, NEW c, NEW H,
         ListOK(k, p, m, h, c, H), OwnersOK(k, m, H), NEW b \in H,
         NEW m2, OnlyIn(k, p, b.ptr, m, m2), NextIs(m2, b.ptr, h)
  PROVE  /\ ListOK(k, p, m2, b.ptr, c + 1, H \ {b})
         /\ OwnersOK(k, m2, H \ {b})
  <1> DEFINE y == b.ptr
  <1>1. PICK f : /\ Chain(m, f, c, h, Bufs(k, p))
                 /\ Nodes(f, c) \cap Ptrs(H) = {}
                 /\ Nodes(f, c) \cup Ptrs(H) = Bufs(k, p)
    BY DEF ListOK
  <1>2. Bufs(k, p) \in SUBSET Nat
    BY SoundSizes, BufsApart
  <1>3. y \in Bufs(k, p) /\ y \in Ptrs(H)
    BY <1>1 DEF Ptrs
  <1>4. Ptrs(H \ {b}) = Ptrs(H) \ {y}
    BY DEF Ptrs, OwnersOK
  <1>5. OnlyIn(k, p, y, m, m2) /\ NextIs(m2, y, h) /\ \A x \in H : x.ptr = y => x = b
    BY DEF OwnersOK
  <1> HIDE DEF y
  <1>6. \A z \in Bufs(k, p) : z # y => \A a \in z .. (z + 3) : m2[a] = m[a]
    BY <1>3, <1>5, OthersKept
  <1>7. c \in Nat /\ f[0] = h /\ f[c] = NULL /\ f \in [0 .. c -> Bufs(k, p) \cup {NULL}]
    BY <1>1 DEF Chain
  <1> DEFINE g == [j \in 0 .. (c + 1) |-> IF j = 0 THEN y ELSE f[j - 1]]
  <1>8. g[0] = y /\ \A j \in 0 .. c : g[j + 1] = f[j]
    <2>1. 0 \in 0 .. (c + 1)
      BY <1>7
    <2>2. \A j \in 0 .. c : j + 1 \in 0 .. (c + 1) /\ j + 1 # 0 /\ (j + 1) - 1 = j
      BY <1>7
    <2> QED
      BY <2>1, <2>2
  <1>9. g \in [0 .. (c + 1) -> Bufs(k, p) \cup {NULL}]
    <2>1. \A j \in 0 .. (c + 1) : j # 0 => j - 1 \in 0 .. c
      BY <1>7
    <2> QED
      BY <1>3, <1>7, <2>1
  <1> HIDE DEF g
  <1>10. \A j \in 0 .. ((c + 1) - 1) : j = 0 \/ (j - 1 \in 0 .. (c - 1) /\ j - 1 \in 0 .. c
                                                /\ j \in 0 .. c /\ (j - 1) + 1 = j)
    BY <1>7
  <1>11. Nodes(g, c + 1) = Nodes(f, c) \cup {y}
    <2>1. \A j \in 0 .. ((c + 1) - 1) : g[j] \in Nodes(f, c) \cup {y}
      <3> TAKE j \in 0 .. ((c + 1) - 1)
      <3>1. CASE j = 0
        BY <1>8, <3>1
      <3>2. CASE j # 0
        <4>1. j - 1 \in 0 .. (c - 1) /\ g[j] = f[j - 1]
          BY <1>8, <1>10, <3>2
        <4> QED
          BY <4>1 DEF Nodes
      <3> QED
        BY <3>1, <3>2
    <2>2. \A j \in 0 .. (c - 1) : j + 1 \in 0 .. ((c + 1) - 1) /\ g[j + 1] = f[j]
      BY <1>7, <1>8
    <2>3. 0 \in 0 .. ((c + 1) - 1)
      BY <1>7
    <2> QED
      BY <1>8, <2>1, <2>2, <2>3 DEF Nodes
  <1>12. Chain(m2, f, c, h, Bufs(k, p))
    <2>1. ASSUME NEW x \in Nodes(f, c) PROVE \A a \in x .. (x + 3) : m2[a] = m[a]
      <3>1. x \in Bufs(k, p) /\ x # y
        BY <1>1, <1>3
      <3> QED
        BY <1>6, <3>1
    <2> QED
      BY <1>1, <1>2, <2>1, ChainKept
  <1>13. Chain(m2, g, c + 1, y, Bufs(k, p))
    <2>1. g[c + 1] = NULL /\ c + 1 \in Nat
      BY <1>7, <1>8
    <2>2. ASSUME NEW j \in 0 .. ((c + 1) - 1)
          PROVE  g[j] \in Bufs(k, p) /\ NextIs(m2, g[j], g[j + 1])
      <3>1. CASE j = 0
        <4>1. g[j + 1] = h /\ g[j] = y
          BY <1>7, <1>8, <3>1
        <4> QED
          BY <1>3, <1>5, <4>1
      <3>2. CASE j # 0
        <4>1. j - 1 \in 0 .. (c - 1) /\ g[j] = f[j - 1] /\ g[j + 1] = f[j] /\ (j - 1) + 1 = j
          BY <1>8, <1>10, <3>2
        <4>2. f[j - 1] \in Bufs(k, p) /\ NextIs(m2, f[j - 1], f[(j - 1) + 1])
          BY <1>12, <4>1 DEF Chain
        <4> QED
          BY <4>1, <4>2
      <3> QED
        BY <3>1, <3>2
    <2>3. ASSUME NEW j \in 0 .. ((c + 1) - 1), NEW l \in 0 .. ((c + 1) - 1), g[j] = g[l]
          PROVE  j = l
      <3>0. \A i \in 0 .. (c - 1) : f[i] # y
        BY <1>1, <1>3 DEF Nodes
      <3>1. CASE j # 0 /\ l # 0
        <4>1. /\ j - 1 \in 0 .. (c - 1) /\ g[j] = f[j - 1] /\ l - 1 \in 0 .. (c - 1)
              /\ g[l] = f[l - 1]
          BY <1>8, <1>10, <3>1
        <4>2. j - 1 = l - 1
          BY <1>1, <2>3, <4>1 DEF Chain
        <4> QED
          BY <1>7, <4>2
      <3>2. CASE j = 0 /\ l # 0
        <4>1. g[j] = y /\ l - 1 \in 0 .. (c - 1) /\ g[l] = f[l - 1]
          BY <1>8, <1>10, <3>2
        <4> QED
          BY <2>3, <3>0, <4>1
      <3>3. CASE l = 0 /\ j # 0
        <4>1. g[l] = y /\ j - 1 \in 0 .. (c - 1) /\ g[j] = f[j - 1]
          BY <1>8, <1>10, <3>3
        <4> QED
          BY <2>3, <3>0, <4>1
      <3> QED
        BY <3>1, <3>2, <3>3
    <2> QED
      BY <1>8, <1>9, <2>1, <2>2, <2>3 DEF Chain
  <1>14. ListOK(k, p, m2, y, c + 1, H \ {b})
    <2>1. Nodes(g, c + 1) \cap Ptrs(H \ {b}) = {}
      BY <1>1, <1>4, <1>11
    <2>2. Nodes(g, c + 1) \cup Ptrs(H \ {b}) = Bufs(k, p)
      BY <1>1, <1>3, <1>4, <1>11
    <2> QED
      BY <1>13, <2>1, <2>2 DEF ListOK
  <1>15. OwnersOK(k, m2, H \ {b})
    <2>1. ASSUME NEW x \in H, x # b PROVE m2[x.ptr] = m[x.ptr]
      <3> DEFINE z == x.ptr
      <3>1. z \in Bufs(k, p) /\ z # y /\ z \in Nat
        BY <1>1, <1>2, <1>5, <2>1 DEF Ptrs
      <3> HIDE DEF z
      <3>2. z \in z .. (z + 3)
        BY <3>1
      <3>3. m2[z] = m[z]
        BY <1>6, <3>1, <3>2
      <3> QED
        BY <3>3 DEF z
    <2> QED
      BY <2>1 DEF OwnersOK
  <1> QED
    BY <1>14, <1>15 DEF y

-----------------------------------------------------------------------------
(* A step touches one page.                                                *)

\* What a step may do to page q and its blocks: everything else is kept.
Touches(q, m, F, L, m2, F2, L2) ==
    \A p \in (Frames \cup {0}) \ {q} :
        /\ \A a \in OnPage(p) : m2[a] = m[a]
        /\ Here(L2, p) = Here(L, p) /\ (p \in F2 <=> p \in F)

\* If page q is in order after the step then so are all.
LEMMA TouchesOne ==
  ASSUME NEW pg, NEW m, NEW F, NEW h, NEW c, NEW L, Run(pg, m, F, h, c, L),
         NEW q \in Frames \cup {0}, NEW m2, NEW F2, NEW h2, NEW c2, NEW L2,
         Touches(q, m, F, L, m2, F2, L2), Layout(pg, F2),
         h2 \in [Caches -> Int], c2 \in [Caches -> Int],
         \A k \in SoundCaches : pg[k] # q => h2[k] = h[k] /\ c2[k] = c[k],
         \A k \in SoundCaches : pg[k] = q =>
            ListOK(k, q, m2, h2[k], c2[k], Here(L2, q)) /\ OwnersOK(k, m2, Here(L2, q)),
         \A k \in Small : h2[k] \in SmallPtrs(pg) \cup {NULL, WILD},
         \A k \in Small : pg[k] = q => DisorderOK(k, pg, m2, Here(L2, q)),
         q \in Others(pg) => PageOK(q, m2, F2, Here(L2, q))
  PROVE  Run(pg, m2, F2, h2, c2, L2)
  <1>0. \A k \in Caches : pg[k] \in Frames /\ pg[k] \in Frames \cup {0}
    BY DEF Run, Layout
  <1>1. ASSUME NEW k \in SoundCaches, pg[k] # q
        PROVE  /\ ListOK(k, pg[k], m2, h2[k], c2[k], Here(L2, pg[k]))
               /\ OwnersOK(k, m2, Here(L2, pg[k]))
    <2> DEFINE p == pg[k]
               H == Here(L, p)
    <2>1. k \in Caches
      BY SoundSizes
    <2>2. p \in Frames /\ p \in (Frames \cup {0}) \ {q}
      BY <1>0, <1>1, <2>1
    <2>3. /\ \A a \in OnPage(p) : m2[a] = m[a]
          /\ Here(L2, p) = H /\ h2[k] = h[k] /\ c2[k] = c[k]
      BY <1>1, <2>2 DEF Touches
    <2>4. ListOK(k, p, m, h[k], c[k], H) /\ OwnersOK(k, m, H)
      BY DEF Run
    <2>5. \A b \in H : b.ptr \in OnPage(p)
      BY DEF Here
    <2> HIDE DEF p, H
    <2>6. ListOK(k, p, m2, h[k], c[k], H)
      BY <2>2, <2>3, <2>4, ListKept
    <2>7. OwnersOK(k, m2, H)
      BY <2>3, <2>4, <2>5 DEF OwnersOK
    <2> QED
      BY <2>3, <2>6, <2>7 DEF p
  <1>2. ASSUME NEW k \in Small, pg[k] # q
        PROVE  DisorderOK(k, pg, m2, Here(L2, pg[k]))
    <2>1. k \in Caches
      BY SoundSizes
    <2>2. /\ \A a \in OnPage(pg[k]) : m2[a] = m[a]
          /\ Here(L2, pg[k]) = Here(L, pg[k])
      BY <1>0, <1>2, <2>1 DEF Touches
    <2> QED
      BY <2>2 DEF DisorderOK, Run
  <1>3. ASSUME NEW p \in Others(pg), p # q
        PROVE  PageOK(p, m2, F2, Here(L2, p))
    <2>1. p \in (Frames \cup {0}) \ {q}
      BY <1>3 DEF Others
    <2>2. /\ \A a \in OnPage(p) : m2[a] = m[a]
          /\ Here(L2, p) = Here(L, p) /\ (p \in F2 <=> p \in F)
      BY <2>1 DEF Touches
    <2>3. \A b \in Here(L, p) : b.ptr \in OnPage(p)
      BY DEF Here
    <2>4. PageOK(p, m, F, Here(L, p))
      BY DEF Run
    <2> QED
      BY <2>2, <2>3, <2>4 DEF PageOK
  <1> QED
    BY <1>1, <1>2, <1>3 DEF Run

\* L2 has one block more than L, or one less, which is on page q.
AddedAt(q, b, L, L2) ==
    /\ Here(L2, q) = Here(L, q) \cup {b}
    /\ \A p \in (Frames \cup {0}) \ {q} : Here(L2, p) = Here(L, p)
RemovedAt(q, b, L, L2) ==
    /\ Here(L2, q) = Here(L, q) \ {b}
    /\ \A p \in (Frames \cup {0}) \ {q} : Here(L2, p) = Here(L, p)

\* A block more or less on page q changes nothing on the others.
LEMMA BlockIsHere ==
  ASSUME NEW L, NEW q \in Frames \cup {0}, NEW b, b.ptr \in OnPage(q), NEW L2
  PROVE  /\ L2 = L \cup {b} => AddedAt(q, b, L, L2)
         /\ L2 = L \ {b} => RemovedAt(q, b, L, L2)
  <1>1. \A p \in (Frames \cup {0}) \ {q} : b.ptr \notin OnPage(p)
    <2> TAKE p \in (Frames \cup {0}) \ {q}
    <2>1. p \in Nat /\ q \in Nat /\ b.ptr \in Int
      BY PagesAreCells
    <2> DEFINE x == b.ptr
    <2>2. x \in Int /\ x \in OnPage(q)
      BY <2>1
    <2> HIDE DEF x
    <2>3. x \div PAGE = q /\ (x \in OnPage(p) => x \div PAGE = p)
      BY <2>1, <2>2, OnePage
    <2> QED
      BY <2>3 DEF x
  <1> QED
    BY <1>1 DEF Here, AddedAt, RemovedAt

\* Where a pointer of the caches in disorder leads to.
LEMMA SmallPtrRoom ==
  ASSUME NEW pg, NEW F, Layout(pg, F), NEW x \in SmallPtrs(pg)
  PROVE  /\ x \in Nat /\ x >= PAGE /\ x \in Cells
         /\ \E k \in Small : pg[k] \in Frames /\ x \in OnPage(pg[k])
               /\ \A a \in x .. (x + 7) : a \in OnPage(pg[k])
  <1>0. PAGE \in Nat /\ PAGE > 24
    BY HeapConstants
  <1>1. PICK k \in Small : x \in Base(pg[k]) .. (Base(pg[k]) + PAGE - 8)
    BY DEF SmallPtrs, BUFCTL, PTR
  <1>2. pg[k] \in Frames
    BY SoundSizes DEF Layout
  <1> DEFINE p == pg[k]
  <1> HIDE DEF p
  <1>3. p \in Nat /\ p >= 1
    <2>1. p \in Frames /\ Frames \in SUBSET (Nat \ {0})
      BY <1>2, HeapAssumption DEF p
    <2> QED
      BY <2>1
  <1>4. Base(p) \in Nat /\ Base(p) >= PAGE
    BY <1>0, <1>3 DEF Base
  <1>5. x \in Nat /\ x >= PAGE /\ x \in OnPage(p) /\ \A a \in x .. (x + 7) : a \in OnPage(p)
    BY <1>0, <1>1, <1>4 DEF OnPage, p
  <1>6. x \in Cells
    BY <1>2, <1>5, PagesAreCells DEF p
  <1> QED
    BY <1>2, <1>5, <1>6 DEF p

\* The page of an address tells the cache it belongs to.
LEMMA PageTellsCache ==
  ASSUME NEW F, Layout(page, F), NEW x \in Int
  PROVE  /\ \A k \in Caches : x \in OnPage(page[k]) <=> x \div PAGE = page[k]
         /\ \A k, l \in Caches : x \in OnPage(page[k]) /\ x \in OnPage(page[l]) => k = l
  <1>1. \A k \in Caches : page[k] \in Nat
    BY PagesAreCells DEF Layout
  <1>2. \A k \in Caches : x \in OnPage(page[k]) <=> x \div PAGE = page[k]
    BY <1>1, OnePage
  <1> QED
    BY <1>2 DEF Layout

\* CacheOf finds it.
LEMMA CacheOfFinds ==
  ASSUME NEW F, Layout(page, F), NEW b, b.ptr \in Int
  PROVE  /\ CacheOf(b) \in Caches \cup {0}
         /\ \A k \in Caches : CacheOf(b) = k <=> b.ptr \in OnPage(page[k])
         /\ CacheOf(b) = 0 <=> \A k \in Caches : b.ptr \notin OnPage(page[k])
  <1> DEFINE x == b.ptr
  <1>1. /\ \A k \in Caches : x \in OnPage(page[k]) <=> x \div PAGE = page[k]
        /\ \A k, l \in Caches : x \in OnPage(page[k]) /\ x \in OnPage(page[l]) => k = l
    BY PageTellsCache
  <1>2. \A k \in Caches : k # 0
    BY HeapConstants
  <1> DEFINE c == CHOOSE k \in Caches : page[k] = x \div PAGE
  <1>3. CacheOf(b) = IF \E k \in Caches : page[k] = x \div PAGE THEN c ELSE 0
    BY DEF CacheOf
  <1>4. (\E k \in Caches : page[k] = x \div PAGE) => c \in Caches /\ page[c] = x \div PAGE
    OBVIOUS
  <1> HIDE DEF c, x
  <1>5. CASE \E k \in Caches : page[k] = x \div PAGE
    <2>1. CacheOf(b) = c /\ c \in Caches /\ x \in OnPage(page[c])
      BY <1>1, <1>3, <1>4, <1>5
    <2> QED
      BY <1>1, <1>2, <2>1 DEF x
  <1>6. CASE ~ \E k \in Caches : page[k] = x \div PAGE
    BY <1>1, <1>2, <1>3, <1>6 DEF x
  <1> QED
    BY <1>5, <1>6

\* A link of a sound list is read as what it is.
LEMMA LinkIsRead ==
  ASSUME NEW F, Layout(page, F), NEW k \in SoundCaches, NEW a, NEW v,
         NextIs(mem, a, v), v \in Bufs(k, page[k]) \cup {NULL}
  PROVE  PtrAt(a) = v
  <1>1. \A i \in 1 .. (PTR - 1) : mem[a + i] = 0
    <2>1. \A i \in 1 .. (PTR - 1) : i = 1 \/ i = 2 \/ i = 3
      BY DEF PTR
    <2> QED
      BY <2>1 DEF NextIs
  <1>2. mem[a] = v
    BY DEF NextIs
  <1>3. v = NULL \/ \E l \in Caches : v \div PAGE = page[l]
    <2>1. k \in Caches /\ page[k] \in Frames
      BY SoundSizes DEF Layout
    <2>2. v # NULL => v \in Int /\ v \in OnPage(page[k])
      BY <2>1, BufsApart
    <2> QED
      BY <2>1, <2>2, PageTellsCache
  <1> QED
    BY <1>1, <1>2, <1>3 DEF PtrAt

\* Whatever stands in a buffer of a cache in disorder, the list goes on to a
\* buffer of one of these caches, ends, or is found out.
LEMMA DisorderStays ==
  ASSUME NEW F, Layout(page, F), NEW a, mem[a] \in SmallVals(page)
  PROVE  PtrAt(a) \in SmallPtrs(page) \cup {NULL, WILD}
  <1> DEFINE v == mem[a]
  <1> SUFFICES ASSUME v # NULL, NEW k \in Caches, v \div PAGE = page[k],
                      v \notin SmallPtrs(page)
               PROVE  FALSE
    BY DEF PtrAt
  <1>1. v \in {WILD, DATA} \/ \E l \in Small : v = l - 1
    BY DEF SmallVals
  <1> HIDE DEF v
  <1>2. v \in Int /\ v < PAGE
    <2>1. PAGE \in Nat /\ PAGE > 24 /\ \A l \in Caches : l \in Nat /\ l < PAGE
      BY HeapConstants, SizesGrow
    <2>2. \A l \in Small : l \in Caches
      BY SoundSizes
    <2> QED
      BY <1>1, <2>1, <2>2 DEF WILD, DATA
  <1>3. v \in OnPage(page[k])
    BY <1>2, PageTellsCache
  <1> DEFINE p == page[k]
  <1>4. p \in Frames
    BY DEF Layout
  <1> HIDE DEF p
  <1>5. p \in Nat /\ p >= 1
    <2>1. Frames \in SUBSET (Nat \ {0})
      BY HeapAssumption
    <2> QED
      BY <1>4, <2>1
  <1>6. PAGE \in Nat /\ Base(p) >= PAGE /\ Base(p) \in Nat
    BY <1>5, HeapConstants DEF Base
  <1>7. v >= Base(p)
    BY <1>2, <1>3, <1>6 DEF OnPage, p
  <1> QED
    BY <1>2, <1>6, <1>7

-----------------------------------------------------------------------------
(* The actions.                                                            *)

\* The cache of a request holds it together with its metadata.
LEMMA IndexFits ==
  ASSUME NEW n \in Requests, n <= Largest
  PROVE  get_slab_cache_index(n + META) \in Caches
         /\ n + META \in 1 .. Sizes[get_slab_cache_index(n + META)]
  <1> DEFINE K == {k \in Caches : n + 1 <= Sizes[k]}
             L == Len(Sizes)
  <1>0. n \in 1 .. (PAGE - 1) /\ n # Largest
    BY HeapAssumption DEF META
  <1>1. PAGE \in Nat /\ Largest \in Nat /\ L \in Nat \ {0} /\ Caches = 1 .. L
        /\ \A k \in Caches : Sizes[k] \in Nat
    BY HeapConstants
  <1>2. n \in Nat /\ n + 1 <= Largest
    BY <1>0, <1>1
  <1>3. L \in K
    BY <1>1, <1>2 DEF Largest
  <1>4. K \in SUBSET Nat /\ IsFiniteSet(K)
    <2>1. K \in SUBSET (0 .. ((L + 1) - 1)) /\ L + 1 \in Nat
      BY <1>1
    <2> HIDE DEF K, L
    <2> QED
      BY <2>1, BoundedSet
  <1>5. Min(K) \in K
    BY <1>3, <1>4, MinIsLeast
  <1>6. get_slab_cache_index(n + META) = Min(K)
    BY <1>1, <1>2 DEF get_slab_cache_index, META
  <1> HIDE DEF K
  <1> QED
    BY <1>1, <1>2, <1>5, <1>6 DEF K, META

\* The head of a sound list is a buffer that nobody has, and links to the next.
LEMMA HeadIsFree ==
  ASSUME NEW k \in SoundCaches, NEW p, NEW m, NEW h, NEW c, NEW H,
         ListOK(k, p, m, h, c, H), h # NULL
  PROVE  /\ h \in Bufs(k, p) /\ \A x \in H : x.ptr # h
         /\ m[h] \in Bufs(k, p) \cup {NULL} /\ NextIs(m, h, m[h])
  <1>1. PICK f : /\ Chain(m, f, c, h, Bufs(k, p))
                 /\ Nodes(f, c) \cap Ptrs(H) = {}
                 /\ Nodes(f, c) \cup Ptrs(H) = Bufs(k, p)
    BY DEF ListOK
  <1>2. c \in Nat /\ c # 0 /\ f[0] = h
    BY <1>1 DEF Chain
  <1>3. 0 \in 0 .. (c - 1) /\ 0 + 1 = 1 /\ 1 \in 0 .. c
    BY <1>2
  <1>4. h \in Bufs(k, p) /\ NextIs(m, h, f[1]) /\ h \in Nodes(f, c)
    BY <1>1, <1>2, <1>3 DEF Chain, Nodes
  <1>5. m[h] = f[1] /\ f[1] \in Bufs(k, p) \cup {NULL}
    BY <1>1, <1>3, <1>4 DEF NextIs, Chain
  <1> QED
    BY <1>1, <1>4, <1>5 DEF Ptrs

\* The head of a sound list is a buffer or NULL.
LEMMA HeadType ==
  ASSUME NEW k, NEW p, NEW m, NEW h, NEW c, NEW H, ListOK(k, p, m, h, c, H)
  PROVE  h \in Bufs(k, p) \cup {NULL} /\ c \in Nat
  <1>1. PICK f : Chain(m, f, c, h, Bufs(k, p))
    BY DEF ListOK
  <1>2. c \in Nat /\ f \in [0 .. c -> Bufs(k, p) \cup {NULL}] /\ f[0] = h
    BY <1>1 DEF Chain
  <1>3. 0 \in 0 .. c
    BY <1>2
  <1> QED
    BY <1>2, <1>3

\* The invariant of a running heap, put together.
LEMMA StillRuns ==
  ASSUME HeapInv, status = "run", status' = "run", culprit' = culprit,
         Run(page', mem', free', freelist_head', bufctl_count', live'),
         mem' \in Memory, live' \in SUBSET Block,
         \A b \in live' : b \in live \/ \E p \in Frames \cup {0} :
            b.ptr \in OnPage(p) /\ b.size # 0 /\ b.ptr + b.size - 1 \in OnPage(p)
  PROVE  HeapInv'
  <1>1. free' \subseteq Frames \cup {0}
    BY DEF Run, Layout
  <1>2. \A b \in live' : \E p \in Frames \cup {0} :
            b.ptr \in OnPage(p) /\ b.size # 0 /\ b.ptr + b.size - 1 \in OnPage(p)
    BY DEF HeapInv, HeapTypes
  <1>3. HeapTypes'
    BY <1>1, <1>2 DEF HeapTypes, HeapInv
  <1> QED
    BY <1>3 DEF HeapInv, RunInv

\* And of one that has stopped.
LEMMA HasStopped ==
  ASSUME HeapInv, NEW why \in {"panic", "wild", "corrupt"}, NEW k \in Caches \cup {0},
         Stop(why, k), mem' = mem, live' \in SUBSET live,
         why = "wild" => k \notin SoundCaches,
         why = "corrupt" \/ (free' = free /\ status # "corrupt")
  PROVE  HeapInv'
  <1>1. status' = why /\ culprit' = k
    BY DEF Stop
  <1>2. HeapTypes'
    BY <1>1 DEF HeapTypes, HeapInv
  <1> QED
    BY <1>1, <1>2 DEF HeapInv

\* A block from a slab: the buffer comes off the list, or the kernel stops.
LEMMA MallocSmallKeeps ==
  ASSUME HeapInv, NEW n \in Requests, malloc_small(n)
  PROVE  HeapInv'
  <1> DEFINE k == get_slab_cache_index(n + META)
             ptr == freelist_head[k]
             b == [ptr |-> ptr, size |-> n + META]
  <1>0. status = "run" /\ n <= Largest /\ UNCHANGED <<free, page>> /\ RunInv /\ mem \in Memory
        /\ live \in SUBSET Block
    BY DEF malloc_small, HeapInv, HeapTypes
  <1>1. k \in Caches /\ n + META \in 1 .. Sizes[k] /\ Sizes[k] \in Nat
    BY <1>0, IndexFits, HeapConstants
  <1>2. IF ptr \in {NULL, WILD} \/ \E x \in live : x.ptr = ptr
        THEN /\ Stop(IF ptr = NULL THEN "panic" ELSE "wild", k)
             /\ UNCHANGED <<mem, freelist_head, bufctl_count, live>>
        ELSE /\ freelist_head' = [freelist_head EXCEPT ![k] = PtrAt(ptr)]
             /\ mem' = [mem EXCEPT ![ptr] = k - 1]
             /\ bufctl_count' = [bufctl_count EXCEPT ![k] = @ - 1]
             /\ live' = live \cup {b}
             /\ UNCHANGED <<status, culprit>>
    BY DEF malloc_small
  <1> HIDE DEF k
  <1>3. Layout(page, free)
    BY <1>0 DEF RunInv, Run
  <1>4. freelist_head \in [Caches -> Int] /\ bufctl_count \in [Caches -> Int]
    BY <1>0 DEF RunInv, Run
  <1>5. page[k] \in Frames
    BY <1>1, <1>3 DEF Layout
  <1>6. ASSUME k \in SoundCaches
        PROVE  /\ ListOK(k, page[k], mem, ptr, bufctl_count[k], Here(live, page[k]))
               /\ OwnersOK(k, mem, Here(live, page[k]))
    BY <1>0, <1>6 DEF RunInv, Run
  <1> HIDE DEF ptr
  <1>7. CASE ptr \in {NULL, WILD} \/ \E x \in live : x.ptr = ptr
    <2>1. /\ Stop(IF ptr = NULL THEN "panic" ELSE "wild", k)
          /\ mem' = mem /\ live' = live
      BY <1>2, <1>7
    <2>2. ptr # NULL => k \notin SoundCaches
      <3> SUFFICES ASSUME ptr # NULL, k \in SoundCaches PROVE FALSE
        OBVIOUS
      <3>1. ptr \in Bufs(k, page[k]) /\ \A x \in Here(live, page[k]) : x.ptr # ptr
        BY <1>6, HeadIsFree
      <3>2. ptr \in Nat /\ ptr \in OnPage(page[k])
        BY <1>1, <1>5, <3>1, BufsApart
      <3>3. ptr # WILD
        BY <3>2 DEF WILD
      <3> QED
        BY <1>7, <3>1, <3>2, <3>3 DEF Here
    <2> QED
      BY <1>0, <1>1, <2>1, <2>2, HasStopped
  <1>8. CASE ~ (ptr \in {NULL, WILD} \/ \E x \in live : x.ptr = ptr)
    <2>0. /\ freelist_head' = [freelist_head EXCEPT ![k] = PtrAt(ptr)]
          /\ mem' = [mem EXCEPT ![ptr] = k - 1]
          /\ bufctl_count' = [bufctl_count EXCEPT ![k] = @ - 1]
          /\ live' = live \cup {b} /\ status' = status /\ culprit' = culprit
          /\ page' = page /\ free' = free
      BY <1>0, <1>2, <1>8
    <2>a. b.ptr = ptr /\ b.size = n + META /\ n + META \in Nat \ {0}
      BY <1>1
    <2>1. ASSUME NEW q \in Frames, ptr \in OnPage(q), ptr + (n + META) - 1 \in OnPage(q),
                 PtrAt(ptr) \in Int,
                 \A l \in SoundCaches : page[l] # q => l # k,
                 \A l \in SoundCaches : page[l] = q => l = k
                    /\ ListOK(l, q, mem', PtrAt(ptr), bufctl_count[l] - 1, Here(live, q) \cup {b})
                    /\ OwnersOK(l, mem', Here(live, q) \cup {b}),
                 k \in Small => PtrAt(ptr) \in SmallPtrs(page) \cup {NULL, WILD},
                 \A l \in Small : page[l] = q => DisorderOK(l, page, mem', Here(live, q) \cup {b}),
                 \E l \in Caches : page[l] = q
          PROVE  HeapInv'
      <3>1. q \in Frames \cup {0} /\ ptr \in Nat /\ ptr \in Cells
        BY <2>1, PagesAreCells
      <3>2. mem' \in Memory
        <4>1. k - 1 \in Value
          <5>1. k \in Nat /\ k - 1 \in Nat /\ k < PAGE /\ PAGE \in Nat
            BY <1>1, HeapConstants, SizesGrow
          <5>2. k - 1 \in OnPage(0)
            BY <5>1, ZeroIsCell DEF OnPage
          <5> QED
            BY <5>2, PagesAreCells DEF Value
        <4> QED
          BY <1>0, <2>0, <3>1, <4>1 DEF Memory
      <3>a. b.ptr \in OnPage(q)
        BY <2>1, <2>a
      <3>b. b \in Block
        BY <2>a, <3>1 DEF Block
      <3> HIDE DEF b
      <3>c. live' = live \cup {b}
        BY <2>0
      <3>d. AddedAt(q, b, live, live')
        BY <3>a, <3>c, <3>1, BlockIsHere
      <3>3. Here(live', q) = Here(live, q) \cup {b}
        BY <3>d DEF AddedAt
      <3>4. Touches(q, mem, free, live, mem', free', live')
        <4> SUFFICES ASSUME NEW p \in (Frames \cup {0}) \ {q}
                     PROVE  /\ \A a \in OnPage(p) : mem'[a] = mem[a]
                            /\ Here(live', p) = Here(live, p)
          BY <2>0 DEF Touches
        <4>1. Here(live', p) = Here(live, p)
          BY <3>d DEF AddedAt
        <4>2. p \in Nat /\ q \in Nat /\ \A a \in OnPage(p) : a \in Cells /\ a \in Nat
          BY <3>1, PagesAreCells
        <4>3. ptr \notin OnPage(p)
          BY <2>1, <3>1, <4>2, OnePage
        <4>4. \A a \in Cells : a # ptr => mem'[a] = mem[a]
          BY <1>0, <2>0 DEF Memory
        <4> QED
          BY <4>1, <4>2, <4>3, <4>4
      <3>5. freelist_head' \in [Caches -> Int] /\ bufctl_count' \in [Caches -> Int]
        BY <1>1, <1>4, <2>0, <2>1
      <3>6. /\ freelist_head'[k] = PtrAt(ptr) /\ bufctl_count'[k] = bufctl_count[k] - 1
            /\ \A l \in Caches : l # k => freelist_head'[l] = freelist_head[l]
                                          /\ bufctl_count'[l] = bufctl_count[l]
        BY <1>1, <1>4, <2>0
      <3>7. \A l \in SoundCaches : page[l] # q => freelist_head'[l] = freelist_head[l]
                                                  /\ bufctl_count'[l] = bufctl_count[l]
        BY <2>1, <3>6, SoundSizes
      <3>8. \A l \in SoundCaches : page[l] = q =>
              ListOK(l, q, mem', freelist_head'[l], bufctl_count'[l], Here(live', q))
              /\ OwnersOK(l, mem', Here(live', q))
        BY <2>1, <3>3, <3>6
      <3>9. \A l \in Small : freelist_head'[l] \in SmallPtrs(page) \cup {NULL, WILD}
        <4>1. \A l \in Small : l \in Caches
                /\ freelist_head[l] \in SmallPtrs(page) \cup {NULL, WILD}
          BY <1>0, SoundSizes DEF RunInv, Run
        <4> QED
          BY <2>1, <3>6, <4>1
      <3>10. \A l \in Small : page[l] = q => DisorderOK(l, page, mem', Here(live', q))
        BY <2>1, <3>3
      <3>11. q \notin Others(page)
        BY <2>1 DEF Others
      <3>12. Run(page, mem', free, freelist_head', bufctl_count', live')
        <4>1. Run(page, mem, free, freelist_head, bufctl_count, live)
          BY <1>0 DEF RunInv
        <4>2. Touches(q, mem, free, live, mem', free, live')
          BY <2>0, <3>4
        <4> QED
          BY <1>3, <3>1, <3>5, <3>7, <3>8, <3>9, <3>10, <3>11, <4>1, <4>2, TouchesOne
      <3> QED
        BY <1>0, <2>0, <2>1, <2>a, <3>1, <3>2, <3>12, <3>b, StillRuns
    <2>2. CASE k \in SoundCaches
      <3> DEFINE q == page[k]
                 H == Here(live, q)
                 s == Sizes[k]
      <3>1. ListOK(k, q, mem, ptr, bufctl_count[k], H) /\ OwnersOK(k, mem, H) /\ ptr # NULL
        BY <1>6, <1>8, <2>2
      <3>2. ptr \in Bufs(k, q) /\ mem[ptr] \in Bufs(k, q) \cup {NULL} /\ NextIs(mem, ptr, mem[ptr])
        BY <2>2, <3>1, HeadIsFree
      <3>3. PtrAt(ptr) = mem[ptr]
        BY <1>3, <2>2, <3>2, LinkIsRead
      <3>4. /\ ptr \in Nat /\ ptr \in OnPage(q) /\ \A a \in ptr .. (ptr + s - 1) : a \in OnPage(q)
            /\ Bufs(k, q) \in SUBSET Nat
        BY <1>1, <1>5, <3>2, BufsApart
      <3>5. mem'[ptr] = k - 1 /\ OnlyIn(k, q, ptr, mem, mem')
        <4>1. \A a \in OnPage(q) : a \in Cells
          BY <1>5, PagesAreCells
        <4>2. ptr \in ptr .. (ptr + s - 1)
          BY <1>1, <3>4
        <4>3. mem'[ptr] = k - 1 /\ \A a \in Cells : a # ptr => mem'[a] = mem[a]
          BY <1>0, <2>0, <3>4, <4>1 DEF Memory
        <4> QED
          BY <4>1, <4>2, <4>3 DEF OnlyIn
      <3>6. /\ ListOK(k, q, mem', mem[ptr], bufctl_count[k] - 1, H \cup {b})
            /\ OwnersOK(k, mem', H \cup {b})
        <4> HIDE DEF q, H, b
        <4> QED
          BY <1>1, <1>5, <2>2, <2>a, <3>1, <3>5, Popped DEF q
      <3>7. ptr + (n + META) - 1 \in OnPage(q) /\ mem[ptr] \in Int /\ NULL \in Int
        <4>1. ptr + (n + META) - 1 \in ptr .. (ptr + s - 1)
          BY <1>1, <3>4
        <4> QED
          BY <3>2, <3>4, <4>1 DEF NULL
      <3>8. \A l \in Caches : page[l] = q => l = k
        BY <1>1, <1>3 DEF Layout
      <3>9. k \notin Small /\ \A l \in SoundCaches : l \in Caches
        BY <2>2, SoundSizes
      <3>10. \A l \in Small : page[l] = q => FALSE
        BY <3>8, <3>9, SoundSizes
      <3>11. q \in Frames /\ \E l \in Caches : page[l] = q
        BY <1>1, <1>5
      <3>12. \A l \in SoundCaches : page[l] # q => l # k
        OBVIOUS
      <3> HIDE DEF q, H, b
      <3>13. \A l \in SoundCaches : page[l] = q => l = k
                    /\ ListOK(l, q, mem', PtrAt(ptr), bufctl_count[l] - 1, Here(live, q) \cup {b})
                    /\ OwnersOK(l, mem', Here(live, q) \cup {b})
        BY <3>3, <3>6, <3>8, <3>9 DEF H
      <3> QED
        BY <2>1, <3>3, <3>4, <3>7, <3>9, <3>10, <3>11, <3>12, <3>13
    <2>3. CASE k \in Small
      <3>1. ptr \in SmallPtrs(page)
        BY <1>0, <1>8, <2>3 DEF RunInv, Run, ptr
      <3>2. PICK l \in Small : page[l] \in Frames /\ ptr \in OnPage(page[l])
               /\ \A a \in ptr .. (ptr + 7) : a \in OnPage(page[l])
        BY <1>3, <3>1, SmallPtrRoom
      <3>3. ptr \in Nat
        BY <1>3, <3>1, SmallPtrRoom
      <3> DEFINE q == page[l]
      <3>4. DisorderOK(l, page, mem, Here(live, q))
        BY <1>0 DEF RunInv, Run
      <3>5. mem[ptr] \in SmallVals(page)
        BY <3>2, <3>4 DEF DisorderOK
      <3>6. PtrAt(ptr) \in SmallPtrs(page) \cup {NULL, WILD}
        BY <1>3, <3>5, DisorderStays
      <3>7. PtrAt(ptr) \in Int
        <4>1. \A x \in SmallPtrs(page) : x \in Int
          BY <1>3, SmallPtrRoom
        <4> QED
          BY <3>6, <4>1 DEF NULL, WILD
      <3>8. n + META \in 1 .. 7
        BY <1>1, <2>3, SoundSizes
      <3>9. ptr + (n + META) - 1 \in OnPage(q)
        <4>1. ptr + (n + META) - 1 \in ptr .. (ptr + 7)
          BY <3>3, <3>8
        <4> QED
          BY <3>2, <4>1
      <3>10. l \in Caches /\ \A j \in Caches : page[j] = q => j = l
        BY <1>3, SoundSizes DEF Layout
      <3>11. DisorderOK(l, page, mem', Here(live, q) \cup {b})
        <4>1. \A a \in OnPage(q) : mem'[a] \in SmallVals(page)
          <5>1. k - 1 \in SmallVals(page)
            BY <2>3 DEF SmallVals
          <5>2. \A a \in OnPage(q) : a \in Cells
            BY <3>2, PagesAreCells
          <5>3. \A a \in Cells : mem'[a] = IF a = ptr THEN k - 1 ELSE mem[a]
            BY <1>0, <2>0 DEF Memory
          <5>4. \A a \in OnPage(q) : mem[a] \in SmallVals(page)
            BY <3>4 DEF DisorderOK
          <5> HIDE DEF q
          <5> QED
            BY <5>1, <5>2, <5>3, <5>4
        <4>2. b.ptr \in SmallPtrs(page) /\ b.size \in 1 .. (BUFCTL - 1)
          BY <2>a, <3>1, <3>8 DEF BUFCTL, PTR
        <4> QED
          BY <3>4, <4>1, <4>2 DEF DisorderOK
      <3>12. \A j \in SoundCaches : page[j] # q /\ j # k
        <4>1. l \notin SoundCaches /\ k \notin SoundCaches /\ \A j \in SoundCaches : j \in Caches
          BY <2>3, SoundSizes
        <4> QED
          BY <3>10, <4>1
      <3>13. \A j \in Small : page[j] = q => DisorderOK(j, page, mem', Here(live, q) \cup {b})
        BY <3>10, <3>11, SoundSizes
      <3>14. q \in Frames /\ ptr \in OnPage(q) /\ \E j \in Caches : page[j] = q
        BY <3>2, <3>10
      <3> HIDE DEF q, b
      <3> QED
        BY <2>1, <3>6, <3>7, <3>9, <3>12, <3>13, <3>14
    <2> QED
      BY <1>1, <2>2, <2>3, SoundSizes
  <1> QED
    BY <1>7, <1>8

\* The frame malloc takes is free, or frame 0, and so no slab's.
LEMMA FrameTaken ==
  ASSUME Layout(page, free)
  PROVE  LET p == IF free = {} THEN 0 ELSE Min(free)
         IN p \in Frames \cup {0} /\ (p = 0 \/ p \in free) /\ p \in Others(page)
  <1> DEFINE p == IF free = {} THEN 0 ELSE Min(free)
  <1>1. free \in SUBSET (Frames \cup {0}) /\ Frames \in SUBSET Nat /\ IsFiniteSet(Frames)
        /\ 0 \notin Frames
    BY HeapAssumption DEF Layout
  <1>2. free \in SUBSET Nat /\ IsFiniteSet(free)
    <2>1. IsFiniteSet(Frames \cup {0})
      BY <1>1, FS_AddElement
    <2>2. IsFiniteSet(free)
      BY <1>1, <2>1, FS_Subset
    <2>3. \A x \in Frames \cup {0} : x \in Nat
      BY <1>1
    <2> QED
      BY <1>1, <2>2, <2>3
  <1>3. free # {} => Min(free) \in free
    BY <1>2, MinIsLeast
  <1>4. p \in Frames \cup {0} /\ (p = 0 \/ p \in free)
    BY <1>1, <1>3
  <1> HIDE DEF p
  <1>5. p \in Others(page)
    BY <1>1, <1>4 DEF Layout, Others
  <1> QED
    BY <1>4, <1>5 DEF p

\* A block of its own page takes one that is nobody's, or frame 0.
LEMMA MallocLargeKeeps ==
  ASSUME HeapInv, NEW n \in Requests, malloc_large(n)
  PROVE  HeapInv'
  <1> DEFINE p == IF free = {} THEN 0 ELSE Min(free)
             b == [ptr |-> p * PAGE, size |-> n + META]
  <1>0. /\ status = "run" /\ RunInv /\ mem \in Memory /\ live \in SUBSET Block
        /\ free' = free \ ({p} \ {0})
        /\ mem' = [a \in Cells |-> IF a = p * PAGE THEN 1
                                   ELSE IF a \div PAGE = p THEN 0 ELSE mem[a]]
        /\ live' = live \cup {b}
        /\ UNCHANGED <<page, freelist_head, bufctl_count, status, culprit>>
    BY DEF malloc_large, HeapInv, HeapTypes, NULL
  <1>1. Run(page, mem, free, freelist_head, bufctl_count, live) /\ Layout(page, free)
    BY <1>0 DEF RunInv, Run
  <1>2. p \in Frames \cup {0} /\ (p = 0 \/ p \in free) /\ p \in Others(page)
    BY <1>1, FrameTaken
  <1> HIDE DEF p
  <1>3. p \in Others(page)
    BY <1>2
  <1>4. p \in Nat /\ Base(p) \in Nat /\ Base(p) \in OnPage(p) /\ p * PAGE = Base(p)
        /\ \A a \in OnPage(p) : a \in Cells
    BY <1>2, PagesAreCells, OnePage DEF Base
  <1>5. n + META \in 1 .. PAGE /\ PAGE \in Nat
    BY HeapAssumption DEF META
  <1>6. b.ptr = Base(p) /\ b.size = n + META
    BY <1>4
  <1>7. b \in Block /\ b.ptr \in OnPage(p) /\ b.size # 0 /\ b.ptr + b.size - 1 \in OnPage(p)
    <2>1. Base(p) + (n + META) - 1 \in OnPage(p)
      BY <1>4, <1>5 DEF OnPage
    <2> QED
      BY <1>4, <1>5, <1>6, <2>1 DEF Block
  <1> HIDE DEF b
  <1>8. AddedAt(p, b, live, live')
    BY <1>0, <1>2, <1>7, BlockIsHere
  <1>9. \A a \in Cells : a \in Int /\ (a \div PAGE = p <=> a \in OnPage(p))
    <2>1. \A a \in Cells : a \in Int
      BY DEF Cells
    <2> QED
      BY <1>4, <2>1, OnePage
  <1>10. mem' \in Memory
    <2>1. 0 \in Value /\ 1 \in Value
      <3>1. 1 \in OnPage(0)
        BY ZeroIsCell, HeapConstants DEF OnPage
      <3> QED
        BY <3>1, ZeroIsCell, PagesAreCells DEF Value
    <2>2. \A a \in Cells : mem[a] \in Value
      BY <1>0 DEF Memory
    <2> QED
      BY <1>0, <2>1, <2>2 DEF Memory
  <1>11. mem'[Base(p)] = 1 /\ \A a \in Cells : a \notin OnPage(p) => mem'[a] = mem[a]
    BY <1>0, <1>4, <1>9
  <1>12. Touches(p, mem, free, live, mem', free', live')
    <2> SUFFICES ASSUME NEW r \in (Frames \cup {0}) \ {p}
                 PROVE  /\ \A a \in OnPage(r) : mem'[a] = mem[a]
                        /\ Here(live', r) = Here(live, r) /\ (r \in free' <=> r \in free)
      BY DEF Touches
    <2>1. r \in Nat /\ \A a \in OnPage(r) : a \in Cells /\ a \in Int
      BY PagesAreCells
    <2>2. \A a \in OnPage(r) : a \notin OnPage(p)
      BY <1>4, <2>1, OnePage
    <2> QED
      BY <1>0, <1>8, <1>11, <2>1, <2>2 DEF AddedAt
  <1>13. PageOK(p, mem', free', Here(live', p))
    <2>1. Here(live', p) = Here(live, p) \cup {b}
      BY <1>8 DEF AddedAt
    <2>2. PageOK(p, mem, free, Here(live, p))
      BY <1>1, <1>3 DEF Run
    <2>3. p # 0 => Here(live, p) = {}
      BY <1>2, <2>2 DEF PageOK
    <2>4. \A x \in Here(live', p) : x.ptr = Base(p) /\ x.size \in 1 .. PAGE /\ mem'[x.ptr] = 1
      BY <1>5, <1>6, <1>11, <2>1, <2>2 DEF PageOK
    <2>5. p # 0 => p \notin free'
      BY <1>0
    <2> QED
      BY <2>1, <2>3, <2>4, <2>5 DEF PageOK
  <1>14. Layout(page, free')
    BY <1>0, <1>1 DEF Layout
  <1>15. \A k \in Caches : page[k] # p
    BY <1>3 DEF Others
  <1>16. Run(page, mem', free', freelist_head, bufctl_count, live')
    <2>1. /\ freelist_head \in [Caches -> Int] /\ bufctl_count \in [Caches -> Int]
          /\ \A k \in Small : freelist_head[k] \in SmallPtrs(page) \cup {NULL, WILD}
      BY <1>1 DEF Run
    <2>2. /\ \A k \in SoundCaches : page[k] # p
          /\ \A k \in Small : page[k] # p
      BY <1>15, SoundSizes
    <2> QED
      BY <1>1, <1>2, <1>12, <1>13, <1>14, <2>1, <2>2, TouchesOne
  <1> QED
    BY <1>0, <1>2, <1>7, <1>10, <1>16, StillRuns

\* An owner writes within its block.
LEMMA UseKeeps ==
  ASSUME HeapInv, NEW b \in live, Use(b)
  PROVE  HeapInv'
  <1> DEFINE W == (b.ptr + META) .. (b.ptr + b.size - 1)
  <1>0. /\ status = "run" /\ RunInv /\ mem \in Memory /\ live \in SUBSET Block
        /\ mem' = [a \in Cells |-> IF a \in W THEN DATA ELSE mem[a]]
        /\ UNCHANGED <<free, page, freelist_head, bufctl_count, live, status, culprit>>
    BY DEF Use, HeapInv, HeapTypes
  <1>1. Run(page, mem, free, freelist_head, bufctl_count, live) /\ Layout(page, free)
    BY <1>0 DEF RunInv, Run
  <1>2. PICK q \in Frames \cup {0} :
           b.ptr \in OnPage(q) /\ b.size # 0 /\ b.ptr + b.size - 1 \in OnPage(q)
    BY DEF HeapInv, HeapTypes
  <1> DEFINE y == b.ptr
             s == b.size
  <1>3. y \in Nat /\ s \in Nat \ {0} /\ y \in OnPage(q) /\ y + s - 1 \in OnPage(q)
        /\ W = (y + 1) .. (y + s - 1)
    BY <1>0, <1>2 DEF Block, META
  <1>4. q \in Nat /\ Base(q) \in Nat /\ PAGE \in Nat /\ \A a \in OnPage(q) : a \in Cells /\ a \in Nat
    BY PagesAreCells, OnePage, HeapConstants
  <1>5. mem' \in Memory /\ \A a \in Cells : mem'[a] = IF a \in W THEN DATA ELSE mem[a]
    <2>1. DATA \in Value /\ \A a \in Cells : mem[a] \in Value
      BY <1>0 DEF Memory, Value
    <2> HIDE DEF W
    <2> QED
      BY <1>0, <2>1 DEF Memory
  <1> HIDE DEF W, y, s
  <1>6. \A a \in W : a \in OnPage(q) /\ a # y
    BY <1>3, <1>4 DEF OnPage
  <1>7. y \notin W
    BY <1>6
  <1>8. Touches(q, mem, free, live, mem', free', live')
    <2> SUFFICES ASSUME NEW r \in (Frames \cup {0}) \ {q}
                 PROVE  \A a \in OnPage(r) : mem'[a] = mem[a]
      BY <1>0 DEF Touches
    <2>1. r \in Nat /\ \A a \in OnPage(r) : a \in Cells /\ a \in Int
      BY PagesAreCells
    <2>2. \A a \in OnPage(r) : a \notin OnPage(q)
      BY <1>4, <2>1, OnePage
    <2> QED
      BY <1>5, <1>6, <2>1, <2>2
  <1> DEFINE H == Here(live, q)
  <1>9. b \in H /\ y = b.ptr /\ s = b.size
    BY <1>2 DEF Here, y, s
  <1>10. mem'[y] = mem[y]
    BY <1>3, <1>4, <1>5, <1>7
  <1>11. ASSUME NEW k \in SoundCaches, page[k] = q
         PROVE  ListOK(k, q, mem', freelist_head[k], bufctl_count[k], H) /\ OwnersOK(k, mem', H)
    <2>1. k \in Caches /\ q \in Frames /\ Sizes[k] \in Nat
      BY <1>1, <1>11, SoundSizes, HeapConstants DEF Layout
    <2>2. ListOK(k, q, mem, freelist_head[k], bufctl_count[k], H) /\ OwnersOK(k, mem, H)
      BY <1>1, <1>11 DEF Run
    <2>3. y \in Ptrs(H) /\ s \in 1 .. Sizes[k]
      BY <1>9, <2>2 DEF Ptrs, OwnersOK
    <2>4. \A a \in W : a \in y .. (y + Sizes[k] - 1)
      BY <1>3, <2>1, <2>3
    <2>5. OnlyIn(k, q, y, mem, mem')
      BY <1>4, <1>5, <2>4 DEF OnlyIn
    <2> HIDE DEF H
    <2> QED
      BY <1>10, <2>1, <2>2, <2>3, <2>5, BufferIsPrivate
  <1>12. ASSUME NEW k \in Small, page[k] = q PROVE DisorderOK(k, page, mem', H)
    <2>1. DisorderOK(k, page, mem, H)
      BY <1>1, <1>12 DEF Run
    <2>2. DATA \in SmallVals(page)
      BY DEF SmallVals
    <2>3. \A a \in OnPage(q) : mem'[a] \in SmallVals(page)
      BY <1>4, <1>5, <1>12, <2>1, <2>2 DEF DisorderOK
    <2> QED
      BY <1>12, <2>1, <2>3 DEF DisorderOK
  <1>13. ASSUME q \in Others(page) PROVE PageOK(q, mem', free, H)
    <2>1. PageOK(q, mem, free, H)
      BY <1>1, <1>13 DEF Run
    <2>2. \A x \in H : x.ptr = Base(q)
      BY <2>1 DEF PageOK
    <2>3. \A x \in H : mem'[x.ptr] = mem[x.ptr]
      BY <1>9, <1>10, <2>2
    <2> QED
      BY <2>1, <2>3 DEF PageOK
  <1>14. Run(page, mem', free, freelist_head, bufctl_count, live)
    <2>1. /\ freelist_head \in [Caches -> Int] /\ bufctl_count \in [Caches -> Int]
          /\ \A k \in Small : freelist_head[k] \in SmallPtrs(page) \cup {NULL, WILD}
      BY <1>1 DEF Run
    <2>2. Touches(q, mem, free, live, mem', free, live)
      BY <1>0, <1>8
    <2> QED
      BY <1>1, <1>2, <1>11, <1>12, <1>13, <2>1, <2>2, TouchesOne
  <1> QED
    BY <1>0, <1>5, <1>14, StillRuns

\* What changes from m to m2 is on the page of y, and in y's buffer where that
\* is one with room for its links.
Confined(y, pg, m, m2) ==
    \A q \in Frames \cup {0} : y \in OnPage(q) =>
        /\ \A a \in Cells : a \notin OnPage(q) => m2[a] = m[a]
        /\ \A k \in SoundCaches : pg[k] = q => OnlyIn(k, q, y, m, m2)

\* free puts a block of a slab back on the list its metadata names, which is
\* its own unless its cache is one of those in disorder.
LEMMA FreeSmallKeeps ==
  ASSUME HeapInv, 1 \in Small, NEW b \in live, free_small(b)
  PROVE  HeapInv' /\ Confined(b.ptr, page, mem, mem')
  <1> DEFINE x == b.ptr
             k == mem[x] + 1
  <1>0. /\ status = "run" /\ RunInv /\ mem \in Memory /\ live \in SUBSET Block
        /\ x % PAGE # 0 /\ x \in Nat
        /\ live' = live \ {b} /\ free' = free /\ page' = page
    BY DEF free_small, HeapInv, HeapTypes, Block
  <1>1. Run(page, mem, free, freelist_head, bufctl_count, live) /\ Layout(page, free)
    BY <1>0 DEF RunInv, Run
  <1>2. PICK q \in Frames \cup {0} : x \in OnPage(q)
    BY DEF HeapInv, HeapTypes
  <1>3. q \in Nat /\ \A a \in OnPage(q) : a \in Cells /\ a \in Nat
    BY PagesAreCells
  <1> DEFINE H == Here(live, q)
  <1>4. b \in H
    BY <1>2 DEF Here
  <1>5. PICK j \in Caches : page[j] = q
    <2>1. q \notin Others(page)
      <3> SUFFICES ASSUME q \in Others(page) PROVE FALSE
        OBVIOUS
      <3>1. PageOK(q, mem, free, H)
        BY <1>1 DEF Run
      <3>2. x = Base(q)
        BY <1>4, <3>1 DEF PageOK
      <3> QED
        BY <1>0, <1>3, <3>2, OnePage
    <2> QED
      BY <2>1 DEF Others
  <1>6. q \in Frames /\ \A l \in Caches : page[l] = q => l = j
    BY <1>1, <1>5 DEF Layout
  <1>7. CacheOf(b) = j
    BY <1>0, <1>1, <1>2, <1>5, CacheOfFinds
  <1>8. IF k \notin Caches \/ bufctl_count[k] = bufctl_count_max(k)
        THEN /\ Stop(IF k \in Caches THEN "panic" ELSE "wild", j)
             /\ UNCHANGED <<mem, freelist_head, bufctl_count>>
        ELSE /\ mem' = WithBufctl(mem, x, freelist_head[k])
             /\ freelist_head' = [freelist_head EXCEPT ![k] = x]
             /\ bufctl_count' = [bufctl_count EXCEPT ![k] = @ + 1]
             /\ UNCHANGED <<status, culprit>>
    BY <1>7 DEF free_small, WithBufctl
  <1>9. ASSUME j \in SoundCaches
        PROVE  /\ k = j /\ x \in Bufs(j, q)
               /\ ListOK(j, q, mem, freelist_head[j], bufctl_count[j], H) /\ OwnersOK(j, mem, H)
    <2>1. ListOK(j, q, mem, freelist_head[j], bufctl_count[j], H) /\ OwnersOK(j, mem, H)
      BY <1>1, <1>5, <1>9 DEF Run
    <2>2. mem[x] = j - 1 /\ j \in Nat
      BY <1>4, <2>1, HeapConstants DEF OwnersOK
    <2>3. x \in Ptrs(H)
      BY <1>4 DEF Ptrs
    <2>4. x \in Bufs(j, q)
      BY <2>1, <2>3 DEF ListOK
    <2> QED
      BY <2>1, <2>2, <2>4
  <1>10. ASSUME j \in Small, k \in Caches
         PROVE  k \in Small
    <2>1. DisorderOK(j, page, mem, H)
      BY <1>1, <1>5, <1>10 DEF Run
    <2>2. mem[x] \in SmallVals(page)
      BY <1>2, <1>5, <2>1 DEF DisorderOK
    <2>3. k \in Nat /\ 1 <= k /\ k < PAGE /\ PAGE \in Nat
      BY <1>10, HeapConstants, SizesGrow
    <2>4. mem[x] \in Int
      <3>1. \A z \in SmallPtrs(page) : z \in Int
        BY <1>1, SmallPtrRoom
      <3>2. \A z \in Small : z - 1 \in Int
        BY HeapConstants, SoundSizes
      <3> QED
        BY <2>2, <3>1, <3>2 DEF SmallVals, WILD, DATA
    <2> DEFINE v == mem[x]
    <2> HIDE DEF v
    <2>5. v \in Int /\ k = v + 1 /\ v \in SmallVals(page)
      BY <2>2, <2>4 DEF v
    <2>6. v \notin SmallPtrs(page) /\ v # WILD /\ v # DATA
      <3>1. \A z \in SmallPtrs(page) : z >= PAGE
        BY <1>1, SmallPtrRoom
      <3> HIDE DEF k
      <3> QED
        BY <2>3, <2>5, <3>1 DEF WILD, DATA
    <2>7. PICK l \in Small : v = l - 1
      BY <2>5, <2>6 DEF SmallVals
    <2>8. l \in Nat
      BY HeapConstants, SoundSizes
    <2>9. k = l
      BY <2>5, <2>7, <2>8
    <2> QED
      BY <2>9
  <1> HIDE DEF k, x, H
  <1>11. CASE k \notin Caches \/ bufctl_count[k] = bufctl_count_max(k)
    <2>1. /\ Stop(IF k \in Caches THEN "panic" ELSE "wild", j)
          /\ mem' = mem /\ live' \in SUBSET live /\ free' = free
      BY <1>0, <1>8, <1>11
    <2>2. k \notin Caches => j \notin SoundCaches
      BY <1>9, <1>5
    <2>3. Confined(x, page, mem, mem')
      BY <2>1 DEF Confined, OnlyIn
    <2> QED
      BY <1>0, <1>5, <2>1, <2>2, <2>3, HasStopped DEF x
  <1>12. CASE ~ (k \notin Caches \/ bufctl_count[k] = bufctl_count_max(k))
    <2> DEFINE h == freelist_head[k]
    <2>0. /\ mem' = WithBufctl(mem, x, h)
          /\ freelist_head' = [freelist_head EXCEPT ![k] = x]
          /\ bufctl_count' = [bufctl_count EXCEPT ![k] = @ + 1]
          /\ status' = status /\ culprit' = culprit /\ k \in Caches
      BY <1>8, <1>12
    <2>1. freelist_head \in [Caches -> Int] /\ bufctl_count \in [Caches -> Int]
      BY <1>1 DEF Run
    <2>2. j \in SoundCaches => k = j
      BY <1>9
    <2>3. j \in Small => k \in Small /\ h \in SmallPtrs(page) \cup {NULL, WILD}
                         /\ x \in SmallPtrs(page)
      <3> SUFFICES ASSUME j \in Small PROVE k \in Small /\ h \in SmallPtrs(page) \cup {NULL, WILD}
                                            /\ x \in SmallPtrs(page)
        OBVIOUS
      <3>1. k \in Small
        BY <1>10, <2>0
      <3>2. DisorderOK(j, page, mem, H) /\ h \in SmallPtrs(page) \cup {NULL, WILD}
        BY <1>1, <1>5, <3>1 DEF Run, H
      <3>3. x \in SmallPtrs(page)
        BY <1>4, <3>2 DEF DisorderOK, x
      <3> QED
        BY <3>1, <3>2, <3>3
    <2>4. h \in Value
      <3>1. CASE j \in SoundCaches
        <4>1. h \in Bufs(j, q) \cup {NULL}
          BY <1>9, <2>2, <3>1, HeadType
        <4>2. \A z \in Bufs(j, q) : z \in OnPage(q)
          BY <1>5, <1>6, BufsApart
        <4> QED
          BY <1>3, <4>1, <4>2, ZeroIsCell DEF Value, NULL
      <3>2. CASE j \in Small
        <4>1. \A z \in SmallPtrs(page) : z \in Cells
          BY <1>1, SmallPtrRoom
        <4> QED
          BY <2>3, <3>2, <4>1, ZeroIsCell DEF Value, NULL
      <3> QED
        BY <1>5, <3>1, <3>2, SoundSizes
    <2>5. \A a \in x .. (x + 7) : a \in OnPage(q)
      <3>1. CASE j \in SoundCaches
        <4>1. \A a \in x .. (x + Sizes[j] - 1) : a \in OnPage(q)
          BY <1>5, <1>6, <1>9, <3>1, BufsApart
        <4>2. Sizes[j] \in Nat /\ Sizes[j] >= 8
          BY <3>1, SoundSizes, HeapConstants
        <4> QED
          BY <1>0, <4>1, <4>2
      <3>2. CASE j \in Small
        <4>1. PICK l \in Small : page[l] \in Frames /\ x \in OnPage(page[l])
                 /\ \A a \in x .. (x + 7) : a \in OnPage(page[l])
          BY <1>1, <2>3, <3>2, SmallPtrRoom
        <4>2. page[l] \in Nat
          BY <4>1, PagesAreCells
        <4>3. x \in Int
          BY <1>0
        <4>4. page[l] = q
          BY <1>2, <1>3, <4>1, <4>2, <4>3, OnePage
        <4> QED
          BY <4>1, <4>4
      <3> QED
        BY <1>5, <3>1, <3>2, SoundSizes
    <2> HIDE DEF h
    <2>6. /\ mem' \in Memory /\ NextIs(mem', x, h)
          /\ \A a \in x .. (x + 7) : mem'[a] \in {h, 0, x}
          /\ \A a \in Cells : a \notin x .. (x + 7) => mem'[a] = mem[a]
      <3>1. \A a \in x .. (x + 7) : a \in Cells
        BY <1>3, <2>5
      <3> QED
        BY <1>0, <2>0, <2>4, <3>1, WithBufctlPuts
    <2>7. RemovedAt(q, b, live, live')
      BY <1>0, <1>2, BlockIsHere DEF x
    <2>8. Here(live', q) = H \ {b}
      BY <2>7 DEF RemovedAt, H
    <2>9. Touches(q, mem, free, live, mem', free, live')
      <3> SUFFICES ASSUME NEW r \in (Frames \cup {0}) \ {q}
                   PROVE  /\ \A a \in OnPage(r) : mem'[a] = mem[a]
                          /\ Here(live', r) = Here(live, r)
        BY DEF Touches
      <3>1. r \in Nat /\ \A a \in OnPage(r) : a \in Cells /\ a \in Int
        BY PagesAreCells
      <3>2. \A a \in OnPage(r) : a \notin OnPage(q)
        BY <1>3, <3>1, OnePage
      <3> QED
        BY <2>5, <2>6, <2>7, <3>1, <3>2 DEF RemovedAt
    <2>10. freelist_head' \in [Caches -> Int] /\ bufctl_count' \in [Caches -> Int]
      BY <1>0, <2>0, <2>1
    <2>11. /\ freelist_head'[k] = x /\ bufctl_count'[k] = bufctl_count[k] + 1
           /\ \A l \in Caches : l # k => freelist_head'[l] = freelist_head[l]
                                         /\ bufctl_count'[l] = bufctl_count[l]
      BY <2>0, <2>1
    <2>12. \A l \in SoundCaches : page[l] # q => freelist_head'[l] = freelist_head[l]
                                                 /\ bufctl_count'[l] = bufctl_count[l]
      <3>1. ASSUME NEW l \in SoundCaches, page[l] # q PROVE l # k /\ l \in Caches
        <4>1. l \in Caches /\ l # j
          BY <1>5, <3>1, SoundSizes
        <4>2. j \in Small => l # k
          BY <2>3, SoundSizes
        <4> QED
          BY <1>5, <2>2, <4>1, <4>2, SoundSizes
      <3> QED
        BY <2>11, <3>1
    <2>13. ASSUME NEW l \in SoundCaches, page[l] = q
           PROVE  /\ ListOK(l, q, mem', freelist_head'[l], bufctl_count'[l], Here(live', q))
                  /\ OwnersOK(l, mem', Here(live', q))
      <3>1. l = j /\ k = j /\ j \in SoundCaches
        BY <1>6, <2>13, <2>2, SoundSizes
      <3>2. ListOK(j, q, mem, h, bufctl_count[j], H) /\ OwnersOK(j, mem, H)
        BY <1>9, <3>1 DEF h
      <3>3. OnlyIn(j, q, b.ptr, mem, mem')
        <4>1. Sizes[j] \in Nat /\ Sizes[j] >= 8
          BY <3>1, SoundSizes, HeapConstants
        <4>2. \A a \in OnPage(q) : a \notin x .. (x + Sizes[j] - 1) => a \notin x .. (x + 7)
          BY <1>0, <1>3, <4>1
        <4> QED
          BY <1>3, <2>6, <4>2 DEF OnlyIn, x
      <3>4. NextIs(mem', b.ptr, h)
        BY <2>6 DEF x
      <3>5. ListOK(j, q, mem', b.ptr, bufctl_count[j] + 1, H \ {b}) /\ OwnersOK(j, mem', H \ {b})
        BY <1>4, <1>6, <3>1, <3>2, <3>3, <3>4, Pushed
      <3> QED
        BY <2>8, <2>11, <3>1, <3>5 DEF x
    <2>14. \A l \in Small : freelist_head'[l] \in SmallPtrs(page) \cup {NULL, WILD}
      <3> TAKE l \in Small
      <3>1. l \in Caches /\ l \notin SoundCaches
            /\ freelist_head[l] \in SmallPtrs(page) \cup {NULL, WILD}
        BY <1>1, SoundSizes DEF Run
      <3>2. CASE l = k
        <4>1. j \in Small
          BY <1>5, <2>2, <3>1, <3>2, SoundSizes
        <4> QED
          BY <2>3, <2>11, <3>2, <4>1
      <3> QED
        BY <2>11, <3>1, <3>2
    <2>15. ASSUME NEW l \in Small, page[l] = q PROVE DisorderOK(l, page, mem', Here(live', q))
      <3>1. l = j /\ DisorderOK(j, page, mem, H)
        BY <1>1, <1>5, <1>6, <2>15, SoundSizes DEF Run, H
      <3>2. h \in SmallVals(page) /\ x \in SmallVals(page) /\ 0 \in SmallVals(page)
        <4>1. 0 = 1 - 1
          OBVIOUS
        <4>2. 0 \in SmallVals(page)
          BY <4>1 DEF SmallVals
        <4> QED
          BY <2>3, <2>15, <3>1, <4>2 DEF SmallVals, NULL
      <3>3. \A a \in OnPage(q) : mem[a] \in SmallVals(page)
        BY <1>5, <3>1 DEF DisorderOK
      <3>4. \A a \in OnPage(q) : mem'[a] \in SmallVals(page)
        BY <1>3, <2>6, <3>2, <3>3
      <3>5. \A z \in H \ {b} : z.ptr \in SmallPtrs(page) /\ z.size \in 1 .. (BUFCTL - 1)
        BY <3>1 DEF DisorderOK
      <3> QED
        BY <2>8, <2>15, <3>4, <3>5 DEF DisorderOK
    <2>16. q \notin Others(page)
      BY <1>5 DEF Others
    <2>17. Run(page, mem', free, freelist_head', bufctl_count', live')
      BY <1>1, <2>9, <2>10, <2>12, <2>13, <2>14, <2>15, <2>16, TouchesOne
    <2>18. Confined(x, page, mem, mem')
      <3>1. \A r \in Frames \cup {0} : x \in OnPage(r) => r = q
        <4> SUFFICES ASSUME NEW r \in Frames \cup {0}, x \in OnPage(r) PROVE r = q
          OBVIOUS
        <4>1. r \in Nat /\ x \in Int
          BY <1>0, PagesAreCells
        <4> QED
          BY <1>2, <1>3, <4>1, OnePage
      <3>2. \A a \in Cells : a \notin OnPage(q) => mem'[a] = mem[a]
        BY <2>5, <2>6
      <3>3. \A l \in SoundCaches : page[l] = q => OnlyIn(l, q, x, mem, mem')
        <4> SUFFICES ASSUME NEW l \in SoundCaches PROVE OnlyIn(l, q, x, mem, mem')
          OBVIOUS
        <4>1. Sizes[l] \in Nat /\ Sizes[l] >= 8
          BY SoundSizes, HeapConstants
        <4>2. \A a \in OnPage(q) : a \notin x .. (x + Sizes[l] - 1) => a \notin x .. (x + 7)
          BY <1>0, <1>3, <4>1
        <4> QED
          BY <1>3, <2>6, <4>2 DEF OnlyIn
      <3> QED
        BY <3>1, <3>2, <3>3 DEF Confined
    <2> QED
      BY <1>0, <2>0, <2>6, <2>17, <2>18, StillRuns DEF x
  <1> QED
    BY <1>11, <1>12

\* free gives a page back to the physical allocator.  The first buffer of a
\* slab is taken for one, which the model notices unless the number of pages
\* read from it is none.
LEMMA FreeLargeKeeps ==
  ASSUME HeapInv, 1 \in Small, NEW b \in live, free_large(b)
  PROVE  HeapInv'
  <1> DEFINE x == b.ptr
             freed == (x \div PAGE) .. ((x \div PAGE) + mem[x] - 1)
  <1>0. /\ status = "run" /\ RunInv /\ mem \in Memory /\ live \in SUBSET Block
        /\ x % PAGE = 0 /\ x \in Nat /\ mem' = mem /\ page' = page
        /\ freelist_head' = freelist_head /\ bufctl_count' = bufctl_count
        /\ live' = live \ {b} /\ free' = free \cup freed
    BY DEF free_large, HeapInv, HeapTypes, Block
  <1>1. Run(page, mem, free, freelist_head, bufctl_count, live) /\ Layout(page, free)
    BY <1>0 DEF RunInv, Run
  <1>2. PICK q \in Frames \cup {0} : x \in OnPage(q)
    BY DEF HeapInv, HeapTypes
  <1>3. q \in Nat /\ x = Base(q) /\ x \div PAGE = q
    BY <1>0, <1>2, OnePage, PagesAreCells
  <1> DEFINE H == Here(live, q)
             v == mem[x]
  <1>4. b \in H
    BY <1>2 DEF Here
  <1>5. freed = q .. (q + v - 1)
    BY <1>3
  <1>6. IF freed \cap ToSet(page) # {} THEN Stop("corrupt", CacheOf(b))
                                       ELSE UNCHANGED <<status, culprit>>
    BY DEF free_large
  <1>7. ToSet(page) = {page[l] : l \in Caches}
    BY <1>1 DEF ToSet, Layout
  <1>8. RemovedAt(q, b, live, live')
    BY <1>0, <1>2, BlockIsHere
  <1>9. CacheOf(b) \in Caches \cup {0}
    BY <1>0, <1>1, CacheOfFinds
  <1> HIDE DEF freed, x, H, v
  <1>10. CASE freed \cap ToSet(page) # {}
    <2>1. Stop("corrupt", CacheOf(b)) /\ live' \in SUBSET live
      BY <1>0, <1>6, <1>10
    <2> QED
      BY <1>0, <1>9, <2>1, HasStopped
  <1>11. CASE freed \cap ToSet(page) = {}
    <2>1. status' = status /\ culprit' = culprit
      BY <1>6, <1>11
    <2>2. /\ freelist_head \in [Caches -> Int] /\ bufctl_count \in [Caches -> Int]
          /\ \A k \in Small : freelist_head[k] \in SmallPtrs(page) \cup {NULL, WILD}
      BY <1>1 DEF Run
    <2>3. Here(live', q) = H \ {b}
      BY <1>8 DEF RemovedAt, H
    <2>4. ASSUME Layout(page, free'), \A r \in (Frames \cup {0}) \ {q} : r \in free' <=> r \in free,
                 \A k \in SoundCaches : page[k] # q,
                 \A k \in Small : page[k] = q => DisorderOK(k, page, mem, H \ {b}),
                 q \in Others(page) => PageOK(q, mem, free', H \ {b})
          PROVE  HeapInv'
      <3>1. Touches(q, mem, free, live, mem, free', live')
        BY <1>8, <2>4 DEF Touches, RemovedAt
      <3>2. /\ \A k \in Small : page[k] = q => DisorderOK(k, page, mem, Here(live', q))
            /\ q \in Others(page) => PageOK(q, mem, free', Here(live', q))
        BY <2>3, <2>4
      <3>3. Run(page, mem, free', freelist_head, bufctl_count, live')
        BY <1>1, <2>2, <2>4, <3>1, <3>2, TouchesOne
      <3> QED
        BY <1>0, <2>1, <3>3, StillRuns
    <2>5. CASE q \in Others(page)
      <3>1. PageOK(q, mem, free, H) /\ v = 1
        BY <1>1, <1>4, <2>5 DEF Run, PageOK, H, v, x
      <3>2. freed = {q}
        BY <1>3, <1>5, <3>1
      <3>3. \A k \in Caches : page[k] # q
        BY <2>5 DEF Others
      <3>4. Layout(page, free')
        BY <1>0, <1>1, <3>2, <3>3 DEF Layout
      <3>5. PageOK(q, mem, free', H \ {b})
        BY <1>4, <3>1 DEF PageOK
      <3>6. /\ \A k \in SoundCaches : page[k] # q
            /\ \A k \in Small : page[k] # q
        BY <3>3, SoundSizes
      <3> QED
        BY <1>0, <2>4, <3>2, <3>4, <3>5, <3>6
    <2>6. CASE q \notin Others(page)
      <3>1. PICK j \in Caches : page[j] = q
        BY <2>6 DEF Others
      <3>2. \A l \in Caches : page[l] = q => l = j
        BY <1>1, <3>1 DEF Layout
      <3>3. q \notin freed
        BY <1>7, <1>11, <3>1
      <3>4. j \in Small
        <4> SUFFICES ASSUME j \in SoundCaches PROVE FALSE
          BY <3>1, SoundSizes
        <4>1. OwnersOK(j, mem, H)
          BY <1>1, <3>1 DEF Run, H
        <4>2. v = j - 1 /\ j \in Nat /\ j # 1 /\ j # 0
          BY <1>4, <4>1, HeapConstants, SoundSizes DEF OwnersOK, v, x
        <4> QED
          BY <1>3, <1>5, <3>3, <4>2
      <3>5. DisorderOK(j, page, mem, H)
        BY <1>1, <3>1, <3>4 DEF Run, H
      <3>6. v \in Int
        <4>1. v \in SmallVals(page)
          BY <1>2, <3>1, <3>5 DEF DisorderOK, v
        <4>2. \A z \in SmallPtrs(page) : z \in Int
          BY <1>1, SmallPtrRoom
        <4>3. \A z \in Small : z - 1 \in Int
          BY HeapConstants, SoundSizes
        <4> QED
          BY <4>1, <4>2, <4>3 DEF SmallVals, WILD, DATA
      <3>7. freed = {}
        BY <1>3, <1>5, <3>3, <3>6
      <3>8. free' = free
        BY <1>0, <3>7
      <3>9. DisorderOK(j, page, mem, H \ {b})
        BY <3>5 DEF DisorderOK
      <3>10. /\ \A k \in SoundCaches : page[k] # q
             /\ \A k \in Small : page[k] = q => k = j
        BY <3>2, <3>4, SoundSizes
      <3> QED
        BY <1>1, <2>4, <2>6, <3>8, <3>9, <3>10
    <2> QED
      BY <2>5, <2>6
  <1> QED
    BY <1>10, <1>11

-----------------------------------------------------------------------------
(* malloc_heap_init.                                                       *)

\* What slab_init_bufctls does for the buffer j of page p.
InitStep(k, p, j, m) ==
    LET put == WithPtr(m, Buffer(k, p, j) + PTR, Buffer(k, p, j))
    IN IF j = 1 THEN put ELSE WithPtr(put, Buffer(k, p, j - 1), Buffer(k, p, j))

\* It changes the second half of the buffer's slab_bufctl_t and the first of
\* the one before it.
LEMMA InitStepPuts ==
  ASSUME NEW k \in Caches, NEW p \in Frames, NEW j \in 1 .. bufctl_count_max(k), NEW m \in Memory
  PROVE  LET r == InitStep(k, p, j, m)
             x == Buffer(k, p, j)
             y == Buffer(k, p, j - 1)
         IN /\ r \in Memory
            /\ \A a \in Cells : /\ r[a] = m[a] \/ r[a] = 0 \/ r[a] = x
                                /\ a \notin OnPage(p) => r[a] = m[a]
                                /\ a \notin (x + 4) .. (x + 7) /\ (j # 1 => a \notin y .. (y + 3))
                                      => r[a] = m[a]
            /\ j # 1 => NextIs(r, y, x) /\ j - 1 \in 1 .. bufctl_count_max(k)
  <1> DEFINE r == InitStep(k, p, j, m)
             x == Buffer(k, p, j)
             y == Buffer(k, p, j - 1)
             c == bufctl_count_max(k)
             b == Base(p)
             z == x + 4
             put == WithPtr(m, z, x)
  <1>0. p \in Nat /\ PAGE \in Nat /\ \A a \in OnPage(p) : a \in Cells
    BY PagesAreCells, HeapConstants
  <1>1. b \in Nat /\ OnPage(p) = b .. (b + PAGE - 1)
    BY <1>0, OnePage DEF OnPage
  <1>2. c \in Nat /\ Sizes[k] \in Nat \ {0}
    BY <1>0, BufferFits, HeapConstants
  <1>3. x \in Nat /\ x >= b /\ x + 21 <= b + PAGE
    <2>1. x \in Nat /\ x >= b /\ x + Sizes[k] + 20 <= b + PAGE
      BY <1>0, BufferFits
    <2> HIDE DEF x, b
    <2> QED
      BY <1>0, <1>1, <1>2, <2>1
  <1>4. ASSUME j # 1 PROVE y \in Nat /\ y >= b /\ y + 21 <= b + PAGE /\ j - 1 \in 1 .. c
    <2>0. j - 1 \in 1 .. c
      BY <1>2, <1>4
    <2>1. y \in Nat /\ y >= b /\ y + Sizes[k] + 20 <= b + PAGE
      BY <1>0, <2>0, BufferFits
    <2> HIDE DEF y, b
    <2> QED
      BY <1>0, <1>1, <1>2, <2>0, <2>1
  <1>5. r = IF j = 1 THEN put ELSE WithPtr(put, y, x)
    BY DEF InitStep, PTR
  <1> HIDE DEF r, x, y, b, c, put
  <1>6. \A a \in x .. (x + 7) : a \in OnPage(p)
    BY <1>0, <1>1, <1>3
  <1>7. x \in OnPage(p) /\ z \in Nat /\ z \in OnPage(p) /\ z + 1 \in OnPage(p)
        /\ z + 2 \in OnPage(p) /\ z + 3 \in OnPage(p)
    BY <1>3, <1>0, <1>1
  <1>8. x \in Value
    BY <1>0, <1>7 DEF Value
  <1> HIDE DEF z
  <1>9. /\ put \in Memory /\ NextIs(put, z, x)
        /\ \A a \in Cells : a \notin z .. (z + 3) => put[a] = m[a]
    BY <1>0, <1>7, <1>8, WithPtrPuts DEF put
  <1>10. \A a \in z .. (z + 3) : put[a] \in {x, 0}
    <2>1. \A a \in z .. (z + 3) : a = z \/ a = z + 1 \/ a = z + 2 \/ a = z + 3
      BY <1>7
    <2> QED
      BY <1>9, <2>1 DEF NextIs
  <1>11. z .. (z + 3) = (x + 4) .. (x + 7) /\ \A a \in z .. (z + 3) : a \in OnPage(p)
    BY <1>3, <1>6 DEF z
  <1> DEFINE Done ==
             /\ r \in Memory
             /\ \A a \in Cells : /\ r[a] = m[a] \/ r[a] = 0 \/ r[a] = x
                                 /\ a \notin OnPage(p) => r[a] = m[a]
                                 /\ a \notin (x + 4) .. (x + 7) /\ (j # 1 => a \notin y .. (y + 3))
                                       => r[a] = m[a]
             /\ j # 1 => NextIs(r, y, x) /\ j - 1 \in 1 .. c
  <1>12. CASE j = 1
    <2>1. Done
      BY <1>5, <1>9, <1>10, <1>11, <1>12
    <2> QED
      BY <2>1 DEF r, x, y, c
  <1>13. CASE j # 1
    <2>1. y \in Nat /\ y \in OnPage(p) /\ y + 1 \in OnPage(p) /\ y + 2 \in OnPage(p)
          /\ y + 3 \in OnPage(p) /\ \A a \in y .. (y + 3) : a \in OnPage(p)
      BY <1>4, <1>0, <1>1, <1>13
    <2>2. /\ r \in Memory /\ NextIs(r, y, x)
          /\ \A a \in Cells : a \notin y .. (y + 3) => r[a] = put[a]
      <3>1. r = WithPtr(put, y, x)
        BY <1>5, <1>13
      <3> QED
        BY <1>0, <1>8, <1>9, <2>1, <3>1, WithPtrPuts
    <2>3. \A a \in y .. (y + 3) : r[a] \in {x, 0}
      <3>1. \A a \in y .. (y + 3) : a = y \/ a = y + 1 \/ a = y + 2 \/ a = y + 3
        BY <2>1
      <3> QED
        BY <2>2, <3>1 DEF NextIs
    <2>4. Done
      BY <1>4, <1>9, <1>10, <1>11, <1>13, <2>1, <2>2, <2>3
    <2> QED
      BY <2>4 DEF r, x, y, c
  <1> QED
    BY <1>12, <1>13

\* Of the buffers of page p, which was clear in m0, the first i are linked.
Linked(k, p, m0, i, m) ==
    /\ m \in Memory
    /\ \A a \in Cells : a \notin OnPage(p) => m[a] = m0[a]
    /\ \A a \in OnPage(p) : m[a] \in Bufs(k, p) \cup {NULL}
    /\ k \in SoundCaches => \A l \in 1 .. bufctl_count_max(k) :
          NextIs(m, Buffer(k, p, l), IF l < i THEN Buffer(k, p, l + 1) ELSE NULL)

\* The next one is linked.
LEMMA OneMoreLinked ==
  ASSUME NEW k \in Caches, NEW p \in Frames, NEW m0, NEW m,
         NEW i \in 0 .. (bufctl_count_max(k) - 1), Linked(k, p, m0, i, m)
  PROVE  Linked(k, p, m0, i + 1, InitStep(k, p, i + 1, m))
  <1> DEFINE j == i + 1
             r == InitStep(k, p, j, m)
             x == Buffer(k, p, j)
             y == Buffer(k, p, j - 1)
             c == bufctl_count_max(k)
  <1>0. p \in Nat /\ c \in Nat /\ i \in Nat /\ j \in 1 .. c /\ j - 1 = i /\ m \in Memory
    BY BufferFits, PagesAreCells DEF Linked
  <1> HIDE DEF j
  <1>1. /\ r \in Memory
        /\ \A a \in Cells : /\ r[a] = m[a] \/ r[a] = 0 \/ r[a] = x
                            /\ a \notin OnPage(p) => r[a] = m[a]
                            /\ a \notin (x + 4) .. (x + 7) /\ (j # 1 => a \notin y .. (y + 3))
                                  => r[a] = m[a]
        /\ j # 1 => NextIs(r, y, x) /\ j - 1 \in 1 .. c
    BY <1>0, InitStepPuts
  <1> HIDE DEF r
  <1>2. x \in Bufs(k, p)
    BY <1>0 DEF Bufs
  <1>3. \A a \in OnPage(p) : r[a] \in Bufs(k, p) \cup {NULL}
    BY <1>1, <1>2, PagesAreCells DEF Linked, NULL
  <1>4. ASSUME k \in SoundCaches, NEW l \in 1 .. c
        PROVE  NextIs(r, Buffer(k, p, l), IF l < j THEN Buffer(k, p, l + 1) ELSE NULL)
    <2> DEFINE w == Buffer(k, p, l)
               s == Sizes[k]
    <2>0. s \in Nat /\ s >= 8 /\ w \in Nat /\ x \in Nat
      BY <1>0, <1>4, SoundSizes, HeapConstants, BufferFits
    <2>1. CASE l = i
      <3>1. l < j /\ l + 1 = j /\ j # 1 /\ w = y /\ Buffer(k, p, l + 1) = x
        BY <1>0, <2>1 DEF j
      <3> QED
        BY <1>1, <3>1
    <2>2. CASE l # i
      <3>1. (l < j <=> l < i)
        BY <1>0, <2>2 DEF j
      <3>2. NextIs(m, w, IF l < i THEN Buffer(k, p, l + 1) ELSE NULL)
        BY <1>4 DEF Linked
      <3>3. l # j => w + s <= x \/ x + s <= w
        BY <1>0, BufferFits
      <3>4. j # 1 => y \in Nat /\ (w + s <= y \/ y + s <= w)
        <4>1. j # 1 => j - 1 \in 1 .. c /\ l # j - 1
          BY <1>0, <1>1, <2>2
        <4> QED
          BY <1>0, <4>1, BufferFits
      <3>5. \A a \in w .. (w + 3) : a \in Cells
        <4>1. w \in Bufs(k, p)
          BY DEF Bufs
        <4>2. \A a \in w .. (w + s - 1) : a \in OnPage(p)
          BY <4>1, BufsApart
        <4> HIDE DEF w, s
        <4>3. \A a \in w .. (w + 3) : a \in w .. (w + s - 1)
          BY <2>0
        <4> QED
          BY <4>2, <4>3, PagesAreCells
      <3>6. w \in w .. (w + 3) /\ w + 1 \in w .. (w + 3) /\ w + 2 \in w .. (w + 3)
            /\ w + 3 \in w .. (w + 3)
        BY <2>0
      <3>7. l = j => w = x
        OBVIOUS
      <3> HIDE DEF w, s, x, y
      <3>8. \A a \in w .. (w + 3) : a \notin (x + 4) .. (x + 7)
        BY <2>0, <3>3, <3>7
      <3>9. \A a \in w .. (w + 3) : j # 1 => a \notin y .. (y + 3)
        BY <2>0, <3>4
      <3>10. \A a \in w .. (w + 3) : r[a] = m[a]
        BY <1>1, <3>5, <3>8, <3>9
      <3>11. NextIs(r, w, IF l < i THEN Buffer(k, p, l + 1) ELSE NULL)
        BY <3>2, <3>6, <3>10 DEF NextIs
      <3> QED
        BY <3>1, <3>11 DEF w
    <2> QED
      BY <2>1, <2>2
  <1>5. Linked(k, p, m0, j, r)
    BY <1>1, <1>3, <1>4 DEF Linked
  <1> QED
    BY <1>5 DEF j, r

\* These steps one after another, from m on.
InitRun(k, p, m, g) ==
    /\ g[0] = m
    /\ \A i \in 0 .. (bufctl_count_max(k) - 1) :
          g[i] \in Memory /\ g[i + 1] = InitStep(k, p, i + 1, g[i])

\* slab_init_bufctls takes them.
LEMMA BufctlsIterate ==
  ASSUME NEW k \in Caches, NEW p \in Frames, NEW m \in Memory
  PROVE  /\ slab_init_bufctls(m, k, p) \in Memory
         /\ \E g : InitRun(k, p, m, g) /\ slab_init_bufctls(m, k, p) = g[bufctl_count_max(k)]
  <1> DEFINE c == bufctl_count_max(k)
             g == CHOOSE h : h = [j \in 0 .. c |->
                     IF j = 0 THEN m ELSE InitStep(k, p, j, h[j - 1])]
             step == [z \in (1 .. c) \X Memory |-> InitStep(k, p, z[1], z[2])]
  <1>0. p \in Nat /\ c \in Nat
    BY BufferFits, PagesAreCells
  <1>1. slab_init_bufctls(m, k, p) = g[c]
    BY DEF slab_init_bufctls, InitStep
  <1>2. \A j \in 1 .. c : \A n \in Memory : InitStep(k, p, j, n) \in Memory
    BY InitStepPuts
  <1>3. g = [j \in 0 .. c |-> IF j = 0 THEN m ELSE InitStep(k, p, j, g[j - 1])]
    <2> HIDE DEF c
    <2>1. step \in [(1 .. c) \X Memory -> Memory]
      BY <1>2
    <2>2. PICK f \in [0 .. c -> Memory] : Iterates(f, c, m, step)
      <3> HIDE DEF step
      <3> QED
        BY <1>0, <2>1, RecursionExists
    <2>3. f[0] = m /\ \A j \in 1 .. c : f[j] = InitStep(k, p, j, f[j - 1])
      <3>1. f[0] = m
        BY <2>2 DEF Iterates
      <3>2. ASSUME NEW j \in 1 .. c PROVE f[j] = InitStep(k, p, j, f[j - 1])
        <4>1. j - 1 \in 0 .. c
          BY <1>0
        <4>2. <<j, f[j - 1]>> \in (1 .. c) \X Memory
          BY <4>1
        <4>3. f[j] = step[<<j, f[j - 1]>>]
          BY <2>2 DEF Iterates
        <4> QED
          BY <4>2, <4>3
      <3> QED
        BY <3>1, <3>2
    <2>4. f = [j \in 0 .. c |-> IF j = 0 THEN m ELSE InitStep(k, p, j, f[j - 1])]
      <3>1. \A j \in 0 .. c : j # 0 => j \in 1 .. c
        BY <1>0
      <3>2. \A j \in 0 .. c : f[j] = IF j = 0 THEN m ELSE InitStep(k, p, j, f[j - 1])
        BY <2>3, <3>1
      <3> QED
        BY <3>2
    <2> QED
      BY <2>4, Zenon
  <1> HIDE DEF g, c
  <1>4. g[0] = m /\ \A i \in 0 .. (c - 1) : g[i + 1] = InitStep(k, p, i + 1, g[i])
    <2>1. 0 \in 0 .. c /\ \A i \in 0 .. (c - 1) : i + 1 \in 0 .. c /\ i + 1 # 0 /\ (i + 1) - 1 = i
      BY <1>0
    <2>2. \A j \in 0 .. c : g[j] = IF j = 0 THEN m ELSE InitStep(k, p, j, g[j - 1])
      BY <1>3
    <2> QED
      BY <2>1, <2>2
  <1> DEFINE S == {i \in 0 .. c : g[i] \in Memory}
  <1>5. 0 \in S /\ \A i \in 0 .. (c - 1) : i \in S => i + 1 \in S
    <2>1. \A i \in 0 .. (c - 1) : i + 1 \in 1 .. c /\ i + 1 \in 0 .. c
      BY <1>0
    <2> QED
      BY <1>0, <1>2, <1>4, <2>1
  <1>6. \A i \in 0 .. c : i \in S
    <2> HIDE DEF S
    <2> QED
      BY <1>0, <1>5, IntervalInduction
  <1>7. g[c] \in Memory /\ \A i \in 0 .. (c - 1) : g[i] \in Memory
    <2>1. c \in 0 .. c /\ \A i \in 0 .. (c - 1) : i \in 0 .. c
      BY <1>0
    <2> QED
      BY <1>6, <2>1
  <1>8. InitRun(k, p, m, g)
    BY <1>4, <1>7 DEF InitRun, c
  <1> QED
    BY <1>1, <1>7, <1>8 DEF c

\* slab_init_bufctls links all buffers of a page that is clear.
LEMMA BufctlsLinked ==
  ASSUME NEW k \in Caches, NEW p \in Frames, NEW m \in Memory, \A a \in OnPage(p) : m[a] = 0
  PROVE  Linked(k, p, m, bufctl_count_max(k), slab_init_bufctls(m, k, p))
  <1> DEFINE c == bufctl_count_max(k)
  <1>0. p \in Nat /\ c \in Nat
    BY BufferFits, PagesAreCells
  <1>1. PICK g : InitRun(k, p, m, g) /\ slab_init_bufctls(m, k, p) = g[c]
    BY BufctlsIterate
  <1>2. g[0] = m /\ \A i \in 0 .. (c - 1) : g[i + 1] = InitStep(k, p, i + 1, g[i])
    BY <1>1 DEF InitRun
  <1> HIDE DEF c
  <1> DEFINE S == {i \in 0 .. c : Linked(k, p, m, i, g[i])}
  <1>3. 0 \in S
    <2>1. ASSUME k \in SoundCaches, NEW l \in 1 .. c PROVE NextIs(m, Buffer(k, p, l), NULL)
      <3> DEFINE x == Buffer(k, p, l)
      <3>1. x \in Bufs(k, p)
        BY DEF Bufs, c
      <3>2. x \in Nat /\ \A a \in x .. (x + Sizes[k] - 1) : a \in OnPage(p)
        BY <3>1, BufsApart
      <3>3. Sizes[k] \in Nat /\ Sizes[k] >= 8
        BY <2>1, SoundSizes, HeapConstants
      <3> HIDE DEF x
      <3>4. x \in OnPage(p) /\ x + 1 \in OnPage(p) /\ x + 2 \in OnPage(p) /\ x + 3 \in OnPage(p)
        BY <3>2, <3>3
      <3> QED
        BY <3>4 DEF NextIs, NULL, x
    <2>2. \A l \in 1 .. c : ~ (l < 0)
      BY <1>0
    <2>3. Linked(k, p, m, 0, m)
      BY <2>1, <2>2 DEF Linked, NULL, c
    <2> QED
      BY <1>0, <1>2, <2>3
  <1>4. \A i \in 0 .. (c - 1) : i \in S => i + 1 \in S
    <2> SUFFICES ASSUME NEW i \in 0 .. (c - 1), Linked(k, p, m, i, g[i])
                 PROVE  i + 1 \in S
      OBVIOUS
    <2>1. Linked(k, p, m, i + 1, InitStep(k, p, i + 1, g[i]))
      BY OneMoreLinked DEF c
    <2>2. i + 1 \in 0 .. c
      BY <1>0
    <2> QED
      BY <1>2, <2>1, <2>2
  <1>5. \A i \in 0 .. c : i \in S
    <2> HIDE DEF S
    <2> QED
      BY <1>0, <1>3, <1>4, IntervalInduction
  <1>6. c \in S
    BY <1>0, <1>5
  <1> QED
    BY <1>1, <1>6 DEF c

\* Linked buffers stay so while their page does.
LEMMA LinkedKept ==
  ASSUME NEW k \in Caches, NEW p \in Frames, NEW m0, NEW m, NEW i, Linked(k, p, m0, i, m),
         NEW m2 \in Memory, \A a \in OnPage(p) : m2[a] = m[a]
  PROVE  Linked(k, p, m2, i, m2)
  <1>1. ASSUME k \in SoundCaches, NEW l \in 1 .. bufctl_count_max(k)
        PROVE  NextIs(m2, Buffer(k, p, l), IF l < i THEN Buffer(k, p, l + 1) ELSE NULL)
    <2> DEFINE x == Buffer(k, p, l)
               v == IF l < i THEN Buffer(k, p, l + 1) ELSE NULL
    <2>1. x \in Bufs(k, p)
      BY DEF Bufs
    <2>2. x \in Nat /\ \A a \in x .. (x + Sizes[k] - 1) : a \in OnPage(p)
      BY <2>1, BufsApart
    <2>3. Sizes[k] \in Nat /\ Sizes[k] >= 8
      BY <1>1, SoundSizes, HeapConstants
    <2>4. NextIs(m, x, v)
      BY <1>1 DEF Linked
    <2> HIDE DEF x, v
    <2>5. x \in OnPage(p) /\ x + 1 \in OnPage(p) /\ x + 2 \in OnPage(p) /\ x + 3 \in OnPage(p)
      BY <2>2, <2>3
    <2>6. NextIs(m2, x, v)
      BY <2>4, <2>5 DEF NextIs
    <2> QED
      BY <2>6 DEF x, v
  <1> QED
    BY <1>1 DEF Linked

\* The pages of the first k slabs are linked and all else is clear.
MadeTo(sl, k, m) ==
    /\ m \in Memory
    /\ \A l \in 1 .. k : Linked(l, sl[l], m, bufctl_count_max(l), m)
    /\ \A a \in Cells : m[a] = 0 \/ \E l \in 1 .. k : a \in OnPage(sl[l])

\* The next slab is made.
LEMMA OneMoreMade ==
  ASSUME NEW sl \in [Caches -> Frames], \A k, l \in Caches : sl[k] = sl[l] => k = l,
         NEW k \in 0 .. (Len(Sizes) - 1), NEW m, MadeTo(sl, k, m)
  PROVE  MadeTo(sl, k + 1, slab_init_bufctls(m, k + 1, sl[k + 1]))
  <1> DEFINE j == k + 1
             p == sl[j]
             r == slab_init_bufctls(m, j, p)
  <1>0. k \in Nat /\ j \in Caches /\ p \in Frames /\ m \in Memory
        /\ \A l \in 1 .. k : l \in Caches /\ l # j
    BY HeapConstants DEF MadeTo
  <1>1. ASSUME NEW l \in 1 .. k
        PROVE  /\ sl[l] \in Frames /\ l \in Caches /\ sl[l] # p
               /\ \A a \in OnPage(sl[l]) : a \in Cells /\ a \notin OnPage(p)
    <2>1. sl[l] \in Frames /\ l \in Caches /\ sl[l] # p
      BY <1>0
    <2> HIDE DEF p
    <2>2. sl[l] \in Nat /\ p \in Nat /\ \A a \in OnPage(sl[l]) : a \in Cells /\ a \in Int
      BY <1>0, <2>1, PagesAreCells
    <2> QED
      BY <2>1, <2>2, OnePage
  <1>2. \A a \in OnPage(p) : a \in Cells /\ m[a] = 0
    BY <1>0, <1>1, PagesAreCells DEF MadeTo
  <1>3. Linked(j, p, m, bufctl_count_max(j), r)
    <2> HIDE DEF j, p
    <2> QED
      BY <1>0, <1>2, BufctlsLinked
  <1>4. 1 .. j = (1 .. k) \cup {j}
    BY <1>0
  <1> HIDE DEF r, p, j
  <1>5. r \in Memory /\ \A a \in Cells : a \notin OnPage(p) => r[a] = m[a]
    BY <1>3 DEF Linked
  <1>6. Linked(j, p, r, bufctl_count_max(j), r)
    BY <1>0, <1>3, <1>5, LinkedKept
  <1>7. ASSUME NEW l \in 1 .. k PROVE Linked(l, sl[l], r, bufctl_count_max(l), r)
    <2>1. Linked(l, sl[l], m, bufctl_count_max(l), m)
      BY DEF MadeTo
    <2>2. \A a \in OnPage(sl[l]) : r[a] = m[a]
      BY <1>1, <1>5
    <2> QED
      BY <1>1, <1>5, <2>1, <2>2, LinkedKept
  <1>8. \A l \in 1 .. j : Linked(l, sl[l], r, bufctl_count_max(l), r)
    BY <1>4, <1>6, <1>7 DEF p
  <1>9. \A a \in Cells : r[a] = 0 \/ \E l \in 1 .. j : a \in OnPage(sl[l])
    <2> TAKE a \in Cells
    <2>1. CASE a \in OnPage(p)
      BY <1>4, <2>1 DEF p
    <2>2. CASE a \notin OnPage(p)
      BY <1>4, <1>5, <2>2 DEF MadeTo
    <2> QED
      BY <2>1, <2>2
  <1>10. MadeTo(sl, j, r)
    BY <1>5, <1>8, <1>9 DEF MadeTo
  <1> QED
    BY <1>10 DEF j, p, r

\* malloc_heap_init makes one slab after another, in memory that is clear.
LEMMA AllMade ==
  ASSUME NEW sl \in [Caches -> Frames], \A k, l \in Caches : sl[k] = sl[l] => k = l,
         NEW m \in Memory, \A a \in Cells : m[a] = 0
  PROVE  LET made[k \in 0 .. Len(Sizes)] ==
                 IF k = 0 THEN m ELSE slab_init_bufctls(made[k - 1], k, sl[k])
         IN MadeTo(sl, Len(Sizes), made[Len(Sizes)])
  <1> DEFINE n == Len(Sizes)
             g == CHOOSE h : h = [k \in 0 .. n |->
                     IF k = 0 THEN m ELSE slab_init_bufctls(h[k - 1], k, sl[k])]
             step == [z \in (1 .. n) \X Memory |-> slab_init_bufctls(z[2], z[1], sl[z[1]])]
  <1>0. n \in Nat /\ Caches = 1 .. n
    BY HeapConstants
  <1>1. SUFFICES MadeTo(sl, n, g[n])
    OBVIOUS
  <1>2. \A k \in 1 .. n : \A r \in Memory : slab_init_bufctls(r, k, sl[k]) \in Memory
    <2> SUFFICES ASSUME NEW k \in 1 .. n, NEW r \in Memory
                 PROVE  slab_init_bufctls(r, k, sl[k]) \in Memory
      OBVIOUS
    <2>1. k \in Caches /\ sl[k] \in Frames
      BY <1>0
    <2> QED
      BY <2>1, BufctlsIterate
  <1>3. g = [k \in 0 .. n |-> IF k = 0 THEN m ELSE slab_init_bufctls(g[k - 1], k, sl[k])]
    <2> HIDE DEF n
    <2>1. step \in [(1 .. n) \X Memory -> Memory]
      BY <1>2
    <2>2. PICK f \in [0 .. n -> Memory] : Iterates(f, n, m, step)
      <3> HIDE DEF step
      <3> QED
        BY <1>0, <2>1, RecursionExists
    <2>3. f[0] = m /\ \A k \in 1 .. n : f[k] = slab_init_bufctls(f[k - 1], k, sl[k])
      <3>1. f[0] = m
        BY <2>2 DEF Iterates
      <3>2. ASSUME NEW k \in 1 .. n PROVE f[k] = slab_init_bufctls(f[k - 1], k, sl[k])
        <4>1. k - 1 \in 0 .. n
          BY <1>0
        <4>2. <<k, f[k - 1]>> \in (1 .. n) \X Memory
          BY <4>1
        <4>3. f[k] = step[<<k, f[k - 1]>>]
          BY <2>2 DEF Iterates
        <4> QED
          BY <4>2, <4>3
      <3> QED
        BY <3>1, <3>2
    <2>4. f = [k \in 0 .. n |-> IF k = 0 THEN m ELSE slab_init_bufctls(f[k - 1], k, sl[k])]
      <3>1. \A k \in 0 .. n : k # 0 => k \in 1 .. n
        BY <1>0
      <3>2. \A k \in 0 .. n : f[k] = IF k = 0 THEN m ELSE slab_init_bufctls(f[k - 1], k, sl[k])
        BY <2>3, <3>1
      <3> QED
        BY <3>2
    <2> QED
      BY <2>4, Zenon
  <1> HIDE DEF g, n
  <1>4. g[0] = m /\ \A k \in 0 .. (n - 1) : g[k + 1] = slab_init_bufctls(g[k], k + 1, sl[k + 1])
    <2>1. 0 \in 0 .. n /\ \A k \in 0 .. (n - 1) : k + 1 \in 0 .. n /\ k + 1 # 0 /\ (k + 1) - 1 = k
      BY <1>0
    <2>2. \A k \in 0 .. n : g[k] = IF k = 0 THEN m ELSE slab_init_bufctls(g[k - 1], k, sl[k])
      BY <1>3
    <2> QED
      BY <2>1, <2>2
  <1> DEFINE S == {k \in 0 .. n : MadeTo(sl, k, g[k])}
  <1>5. 0 \in S
    <2>1. \A l \in 1 .. 0 : FALSE
      OBVIOUS
    <2>2. MadeTo(sl, 0, m)
      BY <2>1 DEF MadeTo
    <2> QED
      BY <1>0, <1>4, <2>2
  <1>6. \A k \in 0 .. (n - 1) : k \in S => k + 1 \in S
    <2> SUFFICES ASSUME NEW k \in 0 .. (n - 1), MadeTo(sl, k, g[k]) PROVE k + 1 \in S
      OBVIOUS
    <2>1. MadeTo(sl, k + 1, slab_init_bufctls(g[k], k + 1, sl[k + 1]))
      BY OneMoreMade DEF n
    <2>2. k + 1 \in 0 .. n
      BY <1>0
    <2> QED
      BY <1>4, <2>1, <2>2
  <1>7. \A k \in 0 .. n : k \in S
    <2> HIDE DEF S
    <2> QED
      BY <1>0, <1>5, <1>6, IntervalInduction
  <1> QED
    BY <1>0, <1>7

\* A slab that was just made has all its buffers on its list, in order.
LEMMA FreshList ==
  ASSUME NEW k \in SoundCaches, NEW p \in Frames, NEW m,
         Linked(k, p, m, bufctl_count_max(k), m)
  PROVE  ListOK(k, p, m, Buffer(k, p, 1), bufctl_count_max(k), {}) /\ OwnersOK(k, m, {})
  <1> DEFINE c == bufctl_count_max(k)
             B == Bufs(k, p)
             f == [j \in 0 .. c |-> IF j < c THEN Buffer(k, p, j + 1) ELSE NULL]
  <1>0. k \in Caches /\ p \in Nat /\ c \in Nat /\ c > 0
    BY SoundSizes, BufferFits, PagesAreCells
  <1>1. \A l \in 1 .. c : /\ Buffer(k, p, l) \in B
                          /\ NextIs(m, Buffer(k, p, l), IF l < c THEN Buffer(k, p, l + 1) ELSE NULL)
    BY DEF Linked, Bufs
  <1> HIDE DEF c, B
  <1>2. \A j \in 0 .. (c - 1) : /\ j + 1 \in 1 .. c /\ f[j] = Buffer(k, p, j + 1)
                                /\ f[j + 1] = IF j + 1 < c THEN Buffer(k, p, (j + 1) + 1) ELSE NULL
    BY <1>0
  <1>3. f \in [0 .. c -> B \cup {NULL}] /\ f[c] = NULL /\ f[0] = Buffer(k, p, 1)
    <2>1. \A j \in 0 .. c : j < c => j + 1 \in 1 .. c
      BY <1>0
    <2>2. 0 < c /\ ~ (c < c) /\ 0 \in 0 .. c /\ c \in 0 .. c /\ 0 + 1 = 1
      BY <1>0
    <2>3. \A j \in 0 .. c : (IF j < c THEN Buffer(k, p, j + 1) ELSE NULL) \in B \cup {NULL}
      BY <1>1, <2>1
    <2> QED
      BY <2>2, <2>3
  <1> HIDE DEF f
  <1>4. \A j \in 0 .. (c - 1) : f[j] \in B /\ NextIs(m, f[j], f[j + 1])
    BY <1>1, <1>2
  <1>5. \A j, l \in 0 .. (c - 1) : f[j] = f[l] => j = l
    <2> SUFFICES ASSUME NEW j \in 0 .. (c - 1), NEW l \in 0 .. (c - 1), f[j] = f[l], j # l
                 PROVE  FALSE
      OBVIOUS
    <2>1. /\ j + 1 \in 1 .. c /\ l + 1 \in 1 .. c
          /\ Buffer(k, p, j + 1) = Buffer(k, p, l + 1)
      BY <1>2
    <2> DEFINE u == j + 1
               v == l + 1
    <2>2. u < v \/ v < u
      BY <1>0
    <2>3. u \in 1 .. c /\ v \in 1 .. c /\ Buffer(k, p, u) = Buffer(k, p, v)
      BY <2>1
    <2> HIDE DEF u, v
    <2>4. /\ u < v => Buffer(k, p, u) + Sizes[k] <= Buffer(k, p, v)
          /\ v < u => Buffer(k, p, v) + Sizes[k] <= Buffer(k, p, u)
          /\ Buffer(k, p, u) \in Nat
      BY <1>0, <2>3, BufferFits DEF c
    <2>5. Sizes[k] \in Nat \ {0}
      BY <1>0, HeapConstants
    <2> QED
      BY <2>2, <2>3, <2>4, <2>5
  <1>6. Chain(m, f, c, Buffer(k, p, 1), B)
    BY <1>0, <1>3, <1>4, <1>5 DEF Chain
  <1>7. Nodes(f, c) = B
    <2>1. \A x \in B : \E j \in 0 .. (c - 1) : f[j] = x
      <3> SUFFICES ASSUME NEW x \in B PROVE \E j \in 0 .. (c - 1) : f[j] = x
        OBVIOUS
      <3>1. PICK l \in 1 .. c : x = Buffer(k, p, l)
        BY DEF B, Bufs, c
      <3>2. l - 1 \in 0 .. (c - 1) /\ (l - 1) + 1 = l
        BY <1>0
      <3> QED
        BY <1>2, <3>1, <3>2
    <2> QED
      BY <1>4, <2>1 DEF Nodes
  <1>8. Ptrs({}) = {}
    BY DEF Ptrs
  <1>9. ListOK(k, p, m, Buffer(k, p, 1), c, {})
    BY <1>6, <1>7, <1>8 DEF ListOK, B
  <1> QED
    BY <1>9 DEF OwnersOK, c

\* The frames of the slabs, and what is left of the free ones.
Frame == [j \in 1 .. Cardinality(free) |->
             CHOOSE p \in free : Cardinality({q \in free : q <= p}) = j]
SlabOf == [k \in Caches |-> Frame[2 * k]]
Left == free \ {Frame[j] : j \in 1 .. (2 * Len(Sizes))}

\* The physical allocator hands out different frames.
LEMMA FramesDiffer ==
  ASSUME free = Frames
  PROVE  /\ Len(Frame) = Cardinality(Frames) /\ Cardinality(Frames) \in Nat
         /\ \A j \in 1 .. Cardinality(Frames) : Frame[j] \in Frames
         /\ \A j, l \in 1 .. Cardinality(Frames) : Frame[j] = Frame[l] => j = l
  <1> DEFINE n == Cardinality(Frames)
  <1>0. Frames \in SUBSET Nat /\ IsFiniteSet(Frames)
    BY HeapAssumption
  <1>1. n \in Nat
    BY <1>0, FS_CardinalityType
  <1> HIDE DEF n
  <1>2. Frame = [j \in 1 .. n |-> CHOOSE p \in Frames : Rank(Frames, p) = j]
    BY DEF Frame, Rank, n
  <1>3. \A j \in 1 .. n : \E p \in Frames : Rank(Frames, p) = j
    BY <1>0, RankUnique DEF n
  <1>4. \A j \in 1 .. n : Frame[j] \in Frames /\ Rank(Frames, Frame[j]) = j
    <2> SUFFICES ASSUME NEW j \in 1 .. n PROVE Frame[j] \in Frames /\ Rank(Frames, Frame[j]) = j
      OBVIOUS
    <2>1. Frame[j] = CHOOSE p \in Frames : Rank(Frames, p) = j
      BY <1>2
    <2> QED
      BY <1>3, <2>1
  <1>5. Frame \in Seq(Frames) /\ Len(Frame) = n
    <2>1. Frame \in [1 .. n -> Frames]
      BY <1>2, <1>4
    <2> HIDE DEF Frame
    <2> QED
      BY <1>1, <2>1
  <1> QED
    BY <1>1, <1>4, <1>5 DEF n

\* malloc_heap_init puts the heap into order, or the kernel panics.
LEMMA HeapInitMakes ==
  ASSUME HeapInv, 1 \in Small, malloc_heap_init
  PROVE  HeapInv'
  <1> DEFINE n == Len(Sizes)
             m == mem'
  <1>0. /\ status = "boot" /\ free = Frames /\ mem = [a \in Cells |-> 0] /\ live = {}
        /\ live' = live /\ mem \in Memory
    BY DEF malloc_heap_init, HeapInv, HeapTypes
  <1>1. IF Len(Frame) < 2 * n
        THEN Stop("panic", 0) /\ UNCHANGED <<free, mem, page, freelist_head, bufctl_count>>
        ELSE /\ page' = SlabOf
             /\ freelist_head' = [k \in Caches |-> Buffer(k, SlabOf[k], 1)]
             /\ bufctl_count' = [k \in Caches |-> bufctl_count_max(k)]
             /\ free' = Left
             /\ Stop("run", 0)
    BY DEF malloc_heap_init, Frame, SlabOf, Left
  <1>2. CASE Len(Frame) < 2 * n
    <2>1. Stop("panic", 0) /\ mem' = mem /\ free' = free
      BY <1>1, <1>2
    <2> QED
      BY <1>0, <2>1, HasStopped
  <1>3. CASE ~ (Len(Frame) < 2 * n)
    <2>0. /\ page' = SlabOf /\ free' = Left /\ status' = "run" /\ culprit' = 0
          /\ freelist_head' = [k \in Caches |-> Buffer(k, SlabOf[k], 1)]
          /\ bufctl_count' = [k \in Caches |-> bufctl_count_max(k)]
      BY <1>1, <1>3 DEF Stop
    <2> DEFINE N == Cardinality(Frames)
    <2>1. /\ Len(Frame) = N /\ N \in Nat
          /\ \A j \in 1 .. N : Frame[j] \in Frames
          /\ \A j, l \in 1 .. N : Frame[j] = Frame[l] => j = l
      BY <1>0, FramesDiffer
    <2>2. n \in Nat /\ Caches = 1 .. n /\ 2 * n <= N
      BY <1>3, <2>1, HeapConstants
    <2> HIDE DEF n, N
    <2>3. \A k \in Caches : /\ k \in Nat /\ 2 * k \in 1 .. N /\ 2 * k \in 1 .. (2 * n)
                            /\ SlabOf[k] = Frame[2 * k]
      BY <2>1, <2>2 DEF SlabOf
    <2>4. SlabOf \in [Caches -> Frames] /\ \A k, l \in Caches : SlabOf[k] = SlabOf[l] => k = l
      <3>1. \A k \in Caches : Frame[2 * k] \in Frames
        BY <2>1, <2>3
      <3>2. SlabOf \in [Caches -> Frames]
        BY <3>1 DEF SlabOf
      <3>3. \A k, l \in Caches : Frame[2 * k] = Frame[2 * l] => 2 * k = 2 * l
        BY <2>1, <2>3
      <3>4. \A k, l \in Caches : SlabOf[k] = SlabOf[l] => k = l
        BY <2>3, <3>3
      <3> QED
        BY <3>2, <3>4
    <2>5. MadeTo(SlabOf, n, m)
      <3>1. mem' = LET made[k \in 0 .. Len(Sizes)] ==
                           IF k = 0 THEN mem ELSE slab_init_bufctls(made[k - 1], k, SlabOf[k])
                   IN made[Len(Sizes)]
        BY <1>3 DEF malloc_heap_init, Frame, SlabOf, n
      <3>2. \A a \in Cells : mem[a] = 0
        BY <1>0
      <3> HIDE DEF SlabOf
      <3> QED
        BY <1>0, <2>4, <3>1, <3>2, AllMade DEF n
    <2>6. Layout(SlabOf, Left)
      <3>1. Left \in SUBSET Frames
        BY <1>0 DEF Left
      <3>2. \A k \in Caches : SlabOf[k] \notin Left
        BY <2>3 DEF Left, n
      <3> HIDE DEF SlabOf, Left
      <3> QED
        BY <2>4, <3>1, <3>2 DEF Layout
    <2> DEFINE sl == SlabOf
    <2>7. sl \in [Caches -> Frames] /\ MadeTo(sl, n, m) /\ Layout(sl, Left)
      BY <2>4, <2>5, <2>6
    <2> HIDE DEF sl, m
    <2>8. \A k \in Caches : Linked(k, sl[k], m, bufctl_count_max(k), m) /\ sl[k] \in Frames
      BY <2>2, <2>7 DEF MadeTo
    <2>9. freelist_head' = [k \in Caches |-> Buffer(k, sl[k], 1)]
      BY <2>0 DEF sl
    <2>10. freelist_head' \in [Caches -> Int] /\ bufctl_count' \in [Caches -> Int]
      <3>1. ASSUME NEW k \in Caches
            PROVE  Buffer(k, sl[k], 1) \in Int /\ bufctl_count_max(k) \in Int
        <4>1. sl[k] \in Nat
          BY <2>8, PagesAreCells
        <4>2. bufctl_count_max(k) \in Nat \ {0}
          BY <4>1, BufferFits
        <4>3. 1 \in 1 .. bufctl_count_max(k)
          BY <4>2
        <4> QED
          BY <4>1, <4>2, <4>3, BufferFits
      <3> QED
        BY <2>0, <2>9, <3>1
    <2>11. \A p : Here(live', p) = {}
      BY <1>0 DEF Here
    <2>12. ASSUME NEW k \in SoundCaches
           PROVE  /\ ListOK(k, sl[k], m, freelist_head'[k], bufctl_count'[k], Here(live', sl[k]))
                  /\ OwnersOK(k, m, Here(live', sl[k]))
      <3>1. k \in Caches
        BY SoundSizes
      <3>2. freelist_head'[k] = Buffer(k, sl[k], 1) /\ bufctl_count'[k] = bufctl_count_max(k)
        BY <2>0, <2>9, <3>1
      <3>3. /\ ListOK(k, sl[k], m, Buffer(k, sl[k], 1), bufctl_count_max(k), {})
            /\ OwnersOK(k, m, {})
        BY <2>8, <3>1, FreshList
      <3> QED
        BY <2>11, <3>2, <3>3
    <2>13. ASSUME NEW k \in Small
           PROVE  /\ freelist_head'[k] \in SmallPtrs(sl)
                  /\ DisorderOK(k, sl, m, Here(live', sl[k]))
      <3> DEFINE p == sl[k]
                 b == Base(p)
      <3>0. k \in Caches /\ p \in Frames /\ p \in Nat /\ b \in Nat /\ PAGE \in Nat
            /\ Sizes[k] \in Nat \ {0}
        <4>1. k \in Caches /\ p \in Frames
          BY <2>8, SoundSizes
        <4>2. p \in Nat
          BY <4>1, PagesAreCells
        <4>3. b \in Nat
          BY <4>2, OnePage
        <4> QED
          BY <4>1, <4>2, <4>3, HeapConstants
      <3>1. \A x \in Bufs(k, p) : x \in SmallPtrs(sl)
        <4> SUFFICES ASSUME NEW x \in Bufs(k, p) PROVE x \in b .. (b + PAGE - BUFCTL)
          BY DEF SmallPtrs
        <4>1. PICK j \in 1 .. bufctl_count_max(k) : x = Buffer(k, p, j)
          BY DEF Bufs
        <4>2. x \in Nat /\ x >= b /\ x + Sizes[k] + 20 <= b + PAGE
          BY <3>0, <4>1, BufferFits
        <4> HIDE DEF b
        <4> QED
          BY <3>0, <4>2 DEF BUFCTL, PTR
      <3>2. Buffer(k, p, 1) \in Bufs(k, p)
        <4>1. bufctl_count_max(k) \in Nat \ {0}
          BY <3>0, BufferFits
        <4>2. 1 \in 1 .. bufctl_count_max(k)
          BY <4>1
        <4> QED
          BY <4>2 DEF Bufs
      <3>3. freelist_head'[k] = Buffer(k, p, 1)
        BY <2>9, <3>0
      <3>4. 0 \in SmallVals(sl)
        <4>1. 0 = 1 - 1
          OBVIOUS
        <4> QED
          BY <4>1 DEF SmallVals
      <3>5. \A a \in OnPage(p) : m[a] \in Bufs(k, p) \cup {NULL}
        BY <2>8, <3>0 DEF Linked
      <3>6. \A a \in OnPage(p) : m[a] \in SmallVals(sl)
        BY <3>1, <3>4, <3>5 DEF SmallVals, NULL
      <3> QED
        BY <2>11, <3>1, <3>2, <3>3, <3>6 DEF DisorderOK
    <2>14. \A p \in Others(sl) : PageOK(p, m, Left, Here(live', p))
      BY <2>11 DEF PageOK
    <2>15. Run(sl, m, Left, freelist_head', bufctl_count', live')
      BY <2>7, <2>10, <2>12, <2>13, <2>14 DEF Run
    <2>16. RunInv'
      BY <2>0, <2>15 DEF RunInv, sl, m
    <2>17. mem' \in Memory
      BY <2>7 DEF MadeTo, m
    <2>18. free' \subseteq Frames \cup {0}
      BY <1>0, <2>0 DEF Left
    <2> QED
      BY <1>0, <2>0, <2>16, <2>17, <2>18 DEF HeapInv, HeapTypes
  <1> QED
    BY <1>2, <1>3

-----------------------------------------------------------------------------
(* The theorems.                                                           *)

\* Every state of the heap is in order, or the kernel has stopped.
LEMMA HeapInvHolds ==
  ASSUME Sizes[1] < BUFCTL
  PROVE  Spec => []HeapInv
  <1>0. 1 \in Small
    BY HeapConstants DEF Small, SoundCaches, BUFCTL, PTR
  <1>1. Init => HeapInv
    <2> SUFFICES ASSUME Init PROVE HeapInv
      OBVIOUS
    <2>1. mem \in Memory
      BY ZeroIsCell DEF Init, Memory
    <2> QED
      BY <2>1 DEF Init, HeapInv, HeapTypes
  <1>2. HeapInv /\ [Next]_vars => HeapInv'
    <2> SUFFICES ASSUME HeapInv, [Next]_vars PROVE HeapInv'
      OBVIOUS
    <2>1. CASE malloc_heap_init
      BY <1>0, <2>1, HeapInitMakes
    <2>2. CASE Cardinality(live) < MaxLive /\ \E n \in Requests : malloc_small(n) \/ malloc_large(n)
      BY <2>2, MallocSmallKeeps, MallocLargeKeeps
    <2>3. CASE \E b \in live : Use(b) \/ free_small(b) \/ free_large(b)
      BY <1>0, <2>3, UseKeeps, FreeSmallKeeps, FreeLargeKeeps
    <2>4. CASE UNCHANGED vars
      BY <2>4 DEF vars, HeapInv, HeapTypes, RunInv
    <2> QED
      BY <2>1, <2>2, <2>3, <2>4 DEF Next
  <1> QED
    BY <1>1, <1>2, PTL DEF Spec

\* The heap's state keeps its types: malloc.c never writes or grants memory
\* that does not exist, and free returns none of it to the physical allocator,
\* until a slab's page is given back.  The first size class has no room for a
\* slab_bufctl_t, as in the kernel.
THEOREM TypeCorrect ==
  ASSUME Sizes[1] < BUFCTL
  PROVE  Spec => []TypeOK
  <1>1. HeapInv => TypeOK
    <2> SUFFICES ASSUME HeapInv PROVE TypeOK
      OBVIOUS
    <2>1. \A b \in live : b.ptr \in Cells /\ b.ptr + b.size - 1 \in Cells
      BY PagesAreCells DEF HeapInv, HeapTypes
    <2> QED
      BY <2>1 DEF HeapInv, HeapTypes, TypeOK, Memory, Value
  <1> QED
    BY <1>1, HeapInvHolds, PTL

\* A list has as many different nodes as it has links.
LEMMA NodesCount ==
  ASSUME NEW m, NEW f, NEW c, NEW h, NEW B, Chain(m, f, c, h, B)
  PROVE  Cardinality(Nodes(f, c)) = c
  <1> DEFINE I == 0 .. (c - 1)
             g == [j \in I |-> f[j]]
  <1>0. c \in Nat
    BY DEF Chain
  <1>1. IsFiniteSet(I) /\ Cardinality(I) = c
    <2>1. 0 \in Int /\ c - 1 \in Int
      BY <1>0
    <2>2. IsFiniteSet(I) /\ Cardinality(I) = IF 0 > c - 1 THEN 0 ELSE (c - 1) - 0 + 1
      BY <2>1, FS_Interval
    <2> QED
      BY <1>0, <2>2
  <1>2. \A j, l \in I : f[j] = f[l] => j = l
    BY DEF Chain
  <1> HIDE DEF I
  <1>3. Nodes(f, c) = {f[j] : j \in I}
    BY DEF Nodes, I
  <1>4. g \in Injection(I, Nodes(f, c)) /\ g \in Surjection(I, Nodes(f, c))
    <2>1. g \in [I -> Nodes(f, c)] /\ \A j \in I : g[j] = f[j]
      BY <1>3
    <2>2. DOMAIN g = I
      OBVIOUS
    <2> HIDE DEF g
    <2> QED
      BY <1>2, <1>3, <2>1, <2>2 DEF Injection, Surjection, IsInjective
  <1>5. ExistsBijection(I, Nodes(f, c))
    BY <1>4 DEF ExistsBijection, Bijection
  <1> QED
    BY <1>1, <1>5, FS_Bijection

\* The pointers followed from h on, as slab_cache_alloc would.
Followed(h, c) ==
    LET node[i \in 0 .. c] == IF i = 0 THEN h ELSE PtrAt(node[i - 1]) IN node

\* They lead along the list.
LEMMA PointersFollowed ==
  ASSUME NEW F, Layout(page, F), NEW k \in SoundCaches, NEW f, NEW c, NEW h,
         Chain(mem, f, c, h, Bufs(k, page[k]))
  PROVE  \A i \in 0 .. c : Followed(h, c)[i] = f[i]
  <1> DEFINE g == CHOOSE n : n = [i \in 0 .. c |-> IF i = 0 THEN h ELSE PtrAt(n[i - 1])]
  <1>0. c \in Nat /\ f[0] = h
    BY DEF Chain
  <1>1. SUFFICES \A i \in 0 .. c : g[i] = f[i]
    BY DEF Followed
  <1>2. \A i \in 0 .. (c - 1) : PtrAt(f[i]) = f[i + 1]
    <2> SUFFICES ASSUME NEW i \in 0 .. (c - 1) PROVE PtrAt(f[i]) = f[i + 1]
      OBVIOUS
    <2>1. NextIs(mem, f[i], f[i + 1])
      BY DEF Chain
    <2>2. i + 1 \in 0 .. c
      BY <1>0
    <2>3. f[i + 1] \in Bufs(k, page[k]) \cup {NULL}
      BY <2>2 DEF Chain
    <2> QED
      BY <2>1, <2>3, LinkIsRead
  <1>3. g = [i \in 0 .. c |-> IF i = 0 THEN h ELSE PtrAt(g[i - 1])]
    <2>1. \A i \in 0 .. c : i # 0 => i - 1 \in 0 .. (c - 1) /\ (i - 1) + 1 = i
      BY <1>0
    <2>2. \A i \in 0 .. c : f[i] = IF i = 0 THEN h ELSE PtrAt(f[i - 1])
      BY <1>0, <1>2, <2>1
    <2>3. f \in [0 .. c -> Bufs(k, page[k]) \cup {NULL}]
      BY DEF Chain
    <2>4. f = [i \in 0 .. c |-> IF i = 0 THEN h ELSE PtrAt(f[i - 1])]
      BY <2>2, <2>3
    <2> QED
      BY <2>4, Zenon
  <1> HIDE DEF g
  <1> DEFINE S == {i \in 0 .. c : g[i] = f[i]}
  <1>4. \A i \in 0 .. c : g[i] = IF i = 0 THEN h ELSE PtrAt(g[i - 1])
    BY <1>3
  <1>5. 0 \in S /\ \A i \in 0 .. (c - 1) : i \in S => i + 1 \in S
    <2>1. 0 \in 0 .. c /\ \A i \in 0 .. (c - 1) : i + 1 \in 0 .. c /\ i + 1 # 0 /\ (i + 1) - 1 = i
      BY <1>0
    <2> QED
      BY <1>0, <1>2, <1>4, <2>1
  <1>6. \A i \in 0 .. c : i \in S
    <2> HIDE DEF S
    <2> QED
      BY <1>0, <1>5, IntervalInduction
  <1> QED
    BY <1>6

\* The freelist of every cache whose buffers have room for a slab_bufctl_t is
\* what malloc and free need it to be, for every heap: bufctl_count buffers
\* that nobody has, linked to the end, and with those in use they are all; no
\* such cache is ever found with a pointer or an index that is none.
THEOREM FreelistsSound ==
  ASSUME Sizes[1] < BUFCTL
  PROVE  Spec => []FreelistSound
  <1>1. HeapInv => FreelistSound
    <2> SUFFICES ASSUME HeapInv, status = "run", NEW k \in SoundCaches
                 PROVE  LET node[i \in 0 .. bufctl_count[k]] ==
                                IF i = 0 THEN freelist_head[k] ELSE PtrAt(node[i - 1])
                            listed == {node[i] : i \in 0 .. (bufctl_count[k] - 1)}
                            used == {b.ptr : b \in {c \in live : CacheOf(c) = k}}
                        IN /\ node[bufctl_count[k]] = NULL
                           /\ Cardinality(listed) = bufctl_count[k]
                           /\ listed \cap used = {}
                           /\ listed \cup used
                                = {Buffer(k, page[k], j) : j \in 1 .. bufctl_count_max(k)}
      <3>1. HeapInv => (status = "wild" => culprit \notin SoundCaches)
        BY DEF HeapInv
      <3> QED
        BY <3>1 DEF FreelistSound
    <2> DEFINE c == bufctl_count[k]
               h == freelist_head[k]
               p == page[k]
               H == Here(live, p)
               node == CHOOSE n : n = [i \in 0 .. c |-> IF i = 0 THEN h ELSE PtrAt(n[i - 1])]
               listed == {node[i] : i \in 0 .. (c - 1)}
               used == {b.ptr : b \in {d \in live : CacheOf(d) = k}}
    <2>1. /\ node[c] = NULL /\ Cardinality(listed) = c
          /\ listed \cap used = {} /\ listed \cup used = Bufs(k, p)
      <3>1. Layout(page, free) /\ ListOK(k, p, mem, h, c, H) /\ live \in SUBSET Block
        BY DEF HeapInv, HeapTypes, RunInv, Run
      <3>2. PICK f : /\ Chain(mem, f, c, h, Bufs(k, p))
                     /\ Nodes(f, c) \cap Ptrs(H) = {} /\ Nodes(f, c) \cup Ptrs(H) = Bufs(k, p)
        BY <3>1 DEF ListOK
      <3>3. \A i \in 0 .. c : node[i] = f[i]
        <4>1. node = Followed(h, c)
          BY DEF Followed
        <4> HIDE DEF c, h, node
        <4> QED
          BY <3>1, <3>2, <4>1, PointersFollowed
      <3> HIDE DEF node, c, h
      <3>4. c \in Nat /\ f[c] = NULL
        BY <3>2 DEF Chain
      <3>5. node[c] = NULL
        BY <3>3, <3>4
      <3>6. listed = Nodes(f, c)
        <4>1. \A i \in 0 .. (c - 1) : i \in 0 .. c
          BY <3>4
        <4> QED
          BY <3>3, <4>1 DEF Nodes
      <3>7. used = Ptrs(H)
        <4>1. \A d \in live : d.ptr \in Int
          BY <3>1 DEF Block
        <4>2. \A d \in live : CacheOf(d) = k <=> d.ptr \in OnPage(p)
          <5> TAKE d \in live
          <5>1. k \in Caches /\ d.ptr \in Int
            BY <4>1, SoundSizes
          <5> QED
            BY <3>1, <5>1, CacheOfFinds
        <4>3. {d \in live : CacheOf(d) = k} = H
          BY <4>2 DEF Here
        <4> QED
          BY <4>3 DEF Ptrs
      <3>8. Cardinality(Nodes(f, c)) = c
        BY <3>2, NodesCount
      <3> HIDE DEF listed, used
      <3> QED
        BY <3>2, <3>5, <3>6, <3>7, <3>8
    <2> QED
      BY <2>1 DEF Bufs
  <1> QED
    BY <1>1, HeapInvHolds, PTL

-----------------------------------------------------------------------------
(* The abstract allocator.                                                 *)

\* The blocks malloc promises something of, the cells of a block and what is
\* in them.
Held == {b \in live : Sound(b)}
Cover(b) == b.ptr .. (b.ptr + b.size - 1)
Content(m, b) == [i \in 0 .. (b.size - 1) |-> m[b.ptr + i]]

\* What a block contains is what its cells do.
LEMMA ContentKept ==
  ASSUME NEW m, NEW m2, NEW b \in Block, \A a \in Cover(b) : m2[a] = m[a]
  PROVE  Content(m2, b) = Content(m, b)
  <1>1. b.ptr \in Nat /\ b.size \in Nat
    BY DEF Block
  <1>2. \A i \in 0 .. (b.size - 1) : b.ptr + i \in Cover(b)
    BY <1>1 DEF Cover
  <1>3. \A i \in 0 .. (b.size - 1) : m2[b.ptr + i] = m[b.ptr + i]
    BY <1>2
  <1> QED
    BY <1>3 DEF Content

\* Where such a block is: alone on a page of its own, or in one buffer of a
\* cache with room for its links.
LEMMA HeldPlace ==
  ASSUME RunInv, live \in SUBSET Block, NEW b \in Held,
         NEW q \in Frames \cup {0}, b.ptr \in OnPage(q)
  PROVE  /\ b \in Block /\ \A x \in live : x.ptr = b.ptr => x = b
         /\ \A k \in Small : page[k] # q
         /\ q \in Others(page) => q # 0 /\ b.ptr = Base(q)
         /\ \A k \in SoundCaches : page[k] = q => b.ptr \in Bufs(k, q) /\ b.size \in 1 .. Sizes[k]
  <1>0. b \in live /\ b \in Block /\ Sound(b) /\ b.ptr \in Nat /\ b.ptr \in Int /\ b \in Here(live, q)
    BY DEF Held, Block, Here
  <1>1. Run(page, mem, free, freelist_head, bufctl_count, live) /\ Layout(page, free)
    BY DEF RunInv, Run
  <1>2. /\ CacheOf(b) \in Caches \cup {0}
        /\ \A k \in Caches : CacheOf(b) = k <=> b.ptr \in OnPage(page[k])
        /\ CacheOf(b) = 0 <=> \A k \in Caches : b.ptr \notin OnPage(page[k])
    BY <1>0, <1>1, CacheOfFinds
  <1>3. q \in Nat /\ \A k \in Caches : page[k] \in Nat /\ page[k] \in Frames
    BY <1>1, PagesAreCells DEF Layout
  <1>4. \A k \in Caches : b.ptr \in OnPage(page[k]) => page[k] = q
    BY <1>0, <1>3, OnePage
  <1>5. 0 \notin Caches
    BY HeapConstants
  <1>6. \A x \in live : x.ptr = b.ptr => x \in Here(live, q)
    BY DEF Here
  <1>7. CASE q \in Others(page)
    <2>1. \A k \in Caches : page[k] # q
      BY <1>7 DEF Others
    <2>2. CacheOf(b) = 0
      BY <1>2, <1>4, <2>1
    <2>3. b.ptr # 0
      BY <1>0, <2>2 DEF Sound
    <2>4. PageOK(q, mem, free, Here(live, q))
      BY <1>1, <1>7 DEF Run
    <2>5. b.ptr = Base(q)
      BY <1>0, <2>4 DEF PageOK
    <2>6. q # 0
      BY <2>3, <2>5, ZeroIsCell
    <2>7. \A x \in Here(live, q) : x = b
      BY <1>0, <2>4, <2>6 DEF PageOK
    <2>8. /\ \A k \in SoundCaches : page[k] # q
          /\ \A k \in Small : page[k] # q
      BY <2>1, SoundSizes
    <2> QED
      BY <1>0, <1>6, <2>5, <2>6, <2>7, <2>8
  <1>8. CASE q \notin Others(page)
    <2>1. PICK j \in Caches : page[j] = q
      BY <1>8 DEF Others
    <2>2. CacheOf(b) = j
      BY <1>2, <2>1
    <2>3. j \in SoundCaches
      BY <1>0, <1>5, <2>2 DEF Sound
    <2>4. \A k \in Caches : page[k] = q => k = j
      BY <1>1, <2>1 DEF Layout
    <2>5. /\ ListOK(j, q, mem, freelist_head[j], bufctl_count[j], Here(live, q))
          /\ OwnersOK(j, mem, Here(live, q))
      BY <1>1, <2>1, <2>3 DEF Run
    <2>6. b.ptr \in Bufs(j, q)
      <3>1. b.ptr \in Ptrs(Here(live, q))
        BY <1>0 DEF Ptrs
      <3> QED
        BY <2>5, <3>1 DEF ListOK
    <2>7. b.size \in 1 .. Sizes[j] /\ \A x \in Here(live, q) : x.ptr = b.ptr => x = b
      BY <1>0, <2>5 DEF OwnersOK
    <2>8. \A k \in Small : page[k] # q
      BY <2>3, <2>4, SoundSizes
    <2>9. \A k \in SoundCaches : page[k] = q => k = j
      BY <2>4, SoundSizes
    <2> QED
      BY <1>0, <1>6, <1>8, <2>6, <2>7, <2>8, <2>9
  <1> QED
    BY <1>7, <1>8

\* Cells of page q, in the buffer y where that is one with room for its links,
\* are not those of a promised block that starts elsewhere.
LEMMA HeldApart ==
  ASSUME RunInv, HeapTypes, NEW b \in Held, NEW q \in Frames \cup {0}, NEW y \in OnPage(q),
         b.ptr # y, q \in Others(page) => y = Base(q), NEW W \in SUBSET OnPage(q),
         \A k \in SoundCaches : page[k] = q =>
            y \in Bufs(k, q) /\ \A a \in W : a \in y .. (y + Sizes[k] - 1)
  PROVE  \A a \in Cover(b) : a \notin W
  <1>0. live \in SUBSET Block /\ b \in live
    BY DEF HeapTypes, Held
  <1>1. PICK r \in Frames \cup {0} :
           b.ptr \in OnPage(r) /\ b.size # 0 /\ b.ptr + b.size - 1 \in OnPage(r)
    BY <1>0 DEF HeapTypes
  <1>2. /\ b \in Block
        /\ \A k \in Small : page[k] # r
        /\ r \in Others(page) => r # 0 /\ b.ptr = Base(r)
        /\ \A k \in SoundCaches : page[k] = r => b.ptr \in Bufs(k, r) /\ b.size \in 1 .. Sizes[k]
    BY <1>0, <1>1, HeldPlace
  <1>3. b.ptr \in Nat /\ b.size \in Nat
    BY <1>2 DEF Block
  <1>4. \A a \in Cover(b) : a \in OnPage(r) /\ a \in Int
    <2>1. Base(r) \in Nat /\ PAGE \in Nat
      BY <1>1, PagesAreCells, OnePage, HeapConstants
    <2> QED
      BY <1>1, <1>3, <2>1 DEF Cover, OnPage
  <1>5. r \in Nat /\ q \in Nat
    BY <1>1, PagesAreCells
  <1>6. CASE r # q
    BY <1>4, <1>5, <1>6, OnePage
  <1>7. CASE r = q
    <2>1. r \notin Others(page)
      BY <1>2, <1>7
    <2>2. PICK j \in Caches : page[j] = r
      BY <2>1 DEF Others
    <2>3. j \in SoundCaches
      BY <1>2, <2>2, SoundSizes
    <2>4. /\ y \in Bufs(j, q) /\ \A a \in W : a \in y .. (y + Sizes[j] - 1)
          /\ b.ptr \in Bufs(j, q) /\ b.size \in 1 .. Sizes[j]
      BY <1>2, <1>7, <2>2, <2>3
    <2>5. q \in Frames
      <3>1. Layout(page, free)
        BY DEF RunInv, Run
      <3> QED
        BY <1>7, <2>2, <3>1 DEF Layout
    <2> DEFINE s == Sizes[j]
               x == b.ptr
               n == b.size
    <2>6. (x + s <= y \/ y + s <= x) /\ y \in Nat
      BY <2>4, <2>5, BufsApart
    <2>7. s \in Nat
      BY HeapConstants
    <2>8. x \in Nat /\ n \in 1 .. s /\ Cover(b) = x .. (x + n - 1)
      BY <1>3, <2>4 DEF Cover
    <2> HIDE DEF s, x, n
    <2>9. \A a \in x .. (x + n - 1) : a \notin y .. (y + s - 1)
      BY <2>6, <2>7, <2>8
    <2> QED
      BY <2>4, <2>8, <2>9 DEF s
  <1> QED
    BY <1>6, <1>7

\* The contents of all promised blocks but those in B stay.
Unharmed(B) == \A c \in Held \ B : Content(mem', c) = Content(mem, c)

\* What a step does to the promised blocks, as steps of the abstract allocator.
LEMMA AbstractSteps ==
  ASSUME NEW b
  PROVE  /\ /\ Held' = Held \cup {b} /\ b \notin Held /\ Unharmed({})
            /\ \A c \in Held : \A a \in Cover(c) : a \notin Cover(b)
            => Promise!Next
         /\ Held' = Held /\ b \in Held /\ Unharmed({b}) => Promise!Next
         /\ Held' = Held \ {b} /\ b \in Held /\ Unharmed({b}) => Promise!Next
  <1> DEFINE new == [c \in Held' |-> Content(mem', c)]
             old == [c \in Held |-> Content(mem, c)]
  <1>1. DOMAIN new = Held' /\ DOMAIN old = Held
    OBVIOUS
  <1>2. ASSUME NEW B, Held \ B \in SUBSET Held', Unharmed(B)
        PROVE  \A c \in Held \ B : c \in Held' /\ new[c] = old[c]
    BY <1>2 DEF Unharmed
  <1>3. ASSUME NEW B PROVE Promise!Keeps(B) <=> \A c \in Held \ B : c \in Held' /\ new[c] = old[c]
    BY DEF Promise!Keeps, Held, Content
  <1>4. ASSUME Held' = Held \cup {b}, b \notin Held, Unharmed({}),
               \A c \in Held : \A a \in Cover(c) : a \notin Cover(b)
        PROVE  Promise!Next
    <2>1. Promise!Keeps({})
      BY <1>2, <1>3, <1>4
    <2>2. \A c \in Held : Promise!Cells(b) \cap Promise!Cells(c) = {}
      BY <1>4 DEF Promise!Cells, Cover
    <2>3. Promise!Grant(b)
      BY <1>4, <2>1, <2>2 DEF Promise!Grant, Held
    <2> QED
      BY <1>4, <2>3 DEF Promise!Next, Held
  <1>5. ASSUME Held' = Held, b \in Held, Unharmed({b}) PROVE Promise!Next
    <2>1. Promise!Keeps({b})
      BY <1>2, <1>3, <1>5
    <2>2. Promise!Write(b)
      BY <1>5, <2>1 DEF Promise!Write, Held
    <2> QED
      BY <1>5, <2>2 DEF Promise!Next, Held
  <1>6. ASSUME Held' = Held \ {b}, b \in Held, Unharmed({b}) PROVE Promise!Next
    <2>1. Promise!Keeps({b})
      BY <1>2, <1>3, <1>6
    <2>2. Promise!Release(b)
      BY <1>6, <2>1 DEF Promise!Release, Held
    <2> QED
      BY <1>6, <2>2 DEF Promise!Next, Held
  <1> QED
    BY <1>4, <1>5, <1>6

\* What the abstract allocator sees.
Seen == [b \in {c \in live : Sound(c)} |-> [i \in 0 .. (b.size - 1) |-> mem[b.ptr + i]]]

\* A step that leaves the promised blocks alone is none of it.
LEMMA AbstractStutter ==
  ASSUME Held' = Held, Unharmed({})
  PROVE  Seen' = Seen
  <1>1. \A c \in Held : Content(mem', c) = Content(mem, c)
    BY DEF Unharmed
  <1>2. [c \in Held' |-> Content(mem', c)] = [c \in Held |-> Content(mem, c)]
    BY <1>1
  <1> QED
    BY <1>2 DEF Seen, Held, Content

\* While the slabs stay where they are, which blocks are promised does too.
LEMMA HeldStable ==
  ASSUME page' = page
  PROVE  Held' = {b \in live' : Sound(b)}
  BY DEF Held, Sound, CacheOf

\* Changes confined to where y is harm no promised block that starts elsewhere.
LEMMA ConfinedIsHarmless ==
  ASSUME RunInv, HeapTypes, NEW q \in Frames \cup {0}, NEW y \in OnPage(q),
         q \in Others(page) => y = Base(q),
         \A k \in SoundCaches : page[k] = q => y \in Bufs(k, q),
         Confined(y, page, mem, mem'), NEW B, \A c \in Held \ B : c.ptr # y
  PROVE  Unharmed(B)
  <1> SUFFICES ASSUME NEW c \in Held, c.ptr # y PROVE Content(mem', c) = Content(mem, c)
    BY DEF Unharmed
  <1> DEFINE W == {a \in OnPage(q) : mem'[a] # mem[a]}
  <1>1. \A a \in Cells : a \notin OnPage(q) => mem'[a] = mem[a]
    BY DEF Confined
  <1>2. \A k \in SoundCaches : page[k] = q =>
           y \in Bufs(k, q) /\ \A a \in W : a \in y .. (y + Sizes[k] - 1)
    BY DEF Confined, OnlyIn
  <1>3. W \in SUBSET OnPage(q) /\ \A a \in OnPage(q) : a \notin W => mem'[a] = mem[a]
    OBVIOUS
  <1> HIDE DEF W
  <1>4. \A a \in Cover(c) : a \notin W
    BY <1>2, <1>3, HeldApart
  <1>5. c \in Block /\ \A a \in Cover(c) : a \in Cells
    <2>1. c \in live /\ c \in Block
      BY DEF Held, HeapTypes
    <2>2. PICK r \in Frames \cup {0} : c.ptr \in OnPage(r) /\ c.ptr + c.size - 1 \in OnPage(r)
      BY <2>1 DEF HeapTypes
    <2>3. Base(r) \in Nat /\ PAGE \in Nat /\ c.ptr \in Nat /\ c.size \in Nat
      <3>1. r \in Nat
        BY PagesAreCells
      <3>2. Base(r) \in Nat
        BY <3>1, OnePage
      <3> QED
        BY <2>1, <3>2, HeapConstants DEF Block
    <2>4. \A a \in Cover(c) : a \in OnPage(r)
      BY <2>2, <2>3 DEF Cover, OnPage
    <2> QED
      BY <2>1, <2>4, PagesAreCells
  <1>6. \A a \in Cover(c) : mem'[a] = mem[a]
    BY <1>1, <1>3, <1>4, <1>5
  <1> QED
    BY <1>5, <1>6, ContentKept

\* Where a caller's block is.
LEMMA LivePlace ==
  ASSUME RunInv, NEW b \in live, NEW q \in Frames \cup {0}, b.ptr \in OnPage(q)
  PROVE  /\ q \in Others(page) => b.ptr = Base(q)
         /\ \A k \in SoundCaches : page[k] = q => b.ptr \in Bufs(k, q) /\ b.size \in 1 .. Sizes[k]
  <1>1. Run(page, mem, free, freelist_head, bufctl_count, live)
    BY DEF RunInv
  <1>2. b \in Here(live, q)
    BY DEF Here
  <1>3. b.ptr \in Ptrs(Here(live, q))
    BY <1>2 DEF Ptrs
  <1>4. ASSUME q \in Others(page) PROVE b.ptr = Base(q)
    <2>1. PageOK(q, mem, free, Here(live, q))
      BY <1>1, <1>4 DEF Run
    <2> QED
      BY <1>2, <2>1 DEF PageOK
  <1>5. ASSUME NEW k \in SoundCaches, page[k] = q
        PROVE  b.ptr \in Bufs(k, q) /\ b.size \in 1 .. Sizes[k]
    <2>1. /\ ListOK(k, q, mem, freelist_head[k], bufctl_count[k], Here(live, q))
          /\ OwnersOK(k, mem, Here(live, q))
      BY <1>1, <1>5 DEF Run
    <2> QED
      BY <1>2, <1>3, <2>1 DEF ListOK, OwnersOK
  <1> QED
    BY <1>4, <1>5

\* What is confined to a caller's block harms no other.
LEMMA OwnerIsHarmless ==
  ASSUME RunInv, HeapTypes, NEW b \in live, Confined(b.ptr, page, mem, mem')
  PROVE  Unharmed({b}) /\ (b \notin Held => Unharmed({}))
  <1>1. PICK q \in Frames \cup {0} : b.ptr \in OnPage(q)
    BY DEF HeapTypes
  <1>2. /\ q \in Others(page) => b.ptr = Base(q)
        /\ \A k \in SoundCaches : page[k] = q => b.ptr \in Bufs(k, q)
    BY <1>1, LivePlace
  <1>3. \A c \in Held \ {b} : c.ptr # b.ptr
    <2> SUFFICES ASSUME NEW c \in Held, c.ptr = b.ptr PROVE c = b
      OBVIOUS
    <2>1. c.ptr \in OnPage(q) /\ live \in SUBSET Block
      BY <1>1 DEF HeapTypes
    <2>2. \A x \in live : x.ptr = c.ptr => x = c
      BY <2>1, HeldPlace
    <2> QED
      BY <2>2
  <1> DEFINE y == b.ptr
             B == {b}
  <1>4. y \in OnPage(q) /\ Confined(y, page, mem, mem') /\ (\A c \in Held \ B : c.ptr # y)
        /\ (q \in Others(page) => y = Base(q))
        /\ \A k \in SoundCaches : page[k] = q => y \in Bufs(k, q)
    BY <1>1, <1>2, <1>3
  <1> HIDE DEF y, B
  <1>5. Unharmed(B)
    BY <1>1, <1>4, ConfinedIsHarmless
  <1> QED
    BY <1>5 DEF Unharmed, B

\* An owner writes: a step of the abstract allocator or none.
LEMMA UseRefines ==
  ASSUME HeapInv, NEW b \in live, Use(b)
  PROVE  Promise!Next \/ Seen' = Seen
  <1> DEFINE W == (b.ptr + META) .. (b.ptr + b.size - 1)
  <1>0. /\ RunInv /\ HeapTypes /\ page' = page /\ live' = live /\ mem \in Memory
        /\ mem' = [a \in Cells |-> IF a \in W THEN DATA ELSE mem[a]]
    BY DEF Use, HeapInv, HeapTypes
  <1>1. b.ptr \in Nat /\ b.size \in Nat
    BY <1>0 DEF HeapTypes, Block
  <1>2. \A a \in Cells : a \notin W => mem'[a] = mem[a]
    BY <1>0
  <1>3. Confined(b.ptr, page, mem, mem')
    <2> SUFFICES ASSUME NEW q \in Frames \cup {0}, b.ptr \in OnPage(q)
                 PROVE  /\ \A a \in Cells : a \notin OnPage(q) => mem'[a] = mem[a]
                        /\ \A k \in SoundCaches : page[k] = q => OnlyIn(k, q, b.ptr, mem, mem')
      BY DEF Confined
    <2>1. PICK r \in Frames \cup {0} : b.ptr \in OnPage(r) /\ b.ptr + b.size - 1 \in OnPage(r)
      BY <1>0 DEF HeapTypes
    <2>2. r \in Nat /\ q \in Nat /\ b.ptr \in Int
      BY <1>1, PagesAreCells
    <2>3. r = q
      BY <2>1, <2>2, OnePage
    <2>4. Base(q) \in Nat /\ PAGE \in Nat /\ \A a \in OnPage(q) : a \in Cells
      BY <2>2, OnePage, HeapConstants, PagesAreCells
    <2>5. \A a \in W : a \in OnPage(q)
      BY <1>1, <2>1, <2>3, <2>4 DEF OnPage, META
    <2>6. \A a \in Cells : a \notin OnPage(q) => mem'[a] = mem[a]
      BY <1>2, <2>5
    <2>7. ASSUME NEW k \in SoundCaches, page[k] = q PROVE OnlyIn(k, q, b.ptr, mem, mem')
      <3>1. b.size \in 1 .. Sizes[k] /\ Sizes[k] \in Nat
        BY <1>0, <2>7, LivePlace, SoundSizes, HeapConstants
      <3>2. \A a \in W : a \in b.ptr .. (b.ptr + Sizes[k] - 1)
        BY <1>1, <3>1 DEF META
      <3> HIDE DEF W
      <3> QED
        BY <1>2, <2>4, <3>2 DEF OnlyIn
    <2> QED
      BY <2>6, <2>7
  <1>4. Held' = Held
    BY <1>0, HeldStable DEF Held
  <1>5. Unharmed({b}) /\ (b \notin Held => Unharmed({}))
    BY <1>0, <1>3, OwnerIsHarmless
  <1> QED
    BY <1>4, <1>5, AbstractSteps, AbstractStutter

\* free releases a promised block, and another one unnoticed.
LEMMA FreeRefines ==
  ASSUME HeapInv, 1 \in Small, NEW b \in live, free_small(b) \/ free_large(b)
  PROVE  Promise!Next \/ Seen' = Seen
  <1>1. RunInv /\ HeapTypes /\ page' = page /\ live' = live \ {b}
    BY DEF free_small, free_large, HeapInv
  <1>2. Confined(b.ptr, page, mem, mem')
    <2>1. CASE free_small(b)
      BY <2>1, FreeSmallKeeps
    <2>2. CASE free_large(b)
      BY <2>2 DEF free_large, Confined, OnlyIn
    <2> QED
      BY <2>1, <2>2
  <1>3. Unharmed({b}) /\ (b \notin Held => Unharmed({}))
    BY <1>1, <1>2, OwnerIsHarmless
  <1>4. Held' = Held \ {b}
    BY <1>1, HeldStable DEF Held
  <1>5. CASE b \in Held
    BY <1>3, <1>4, <1>5, AbstractSteps
  <1>6. CASE b \notin Held
    <2>1. Held' = Held
      BY <1>4, <1>6
    <2> QED
      BY <1>3, <1>6, <2>1, AbstractStutter
  <1> QED
    BY <1>5, <1>6

\* A block from a slab is granted, unless its cache has no room for its links.
LEMMA MallocSmallRefines ==
  ASSUME HeapInv, NEW n \in Requests, malloc_small(n)
  PROVE  Promise!Next \/ Seen' = Seen
  <1> DEFINE k == get_slab_cache_index(n + META)
             y == freelist_head[k]
             b == [ptr |-> y, size |-> n + META]
  <1>0. RunInv /\ HeapTypes /\ page' = page /\ n <= Largest /\ Layout(page, free)
        /\ live \in SUBSET Block /\ mem \in Memory
    BY DEF malloc_small, HeapInv, HeapTypes, RunInv, Run
  <1>1. k \in Caches /\ n + META \in 1 .. Sizes[k] /\ Sizes[k] \in Nat
    BY <1>0, IndexFits, HeapConstants
  <1>2. IF y \in {NULL, WILD} \/ \E x \in live : x.ptr = y
        THEN mem' = mem /\ live' = live
        ELSE mem' = [mem EXCEPT ![y] = k - 1] /\ live' = live \cup {b}
    BY DEF malloc_small
  <1>3. page[k] \in Frames
    BY <1>0, <1>1 DEF Layout
  <1>4. k \in SoundCaches => ListOK(k, page[k], mem, y, bufctl_count[k], Here(live, page[k]))
    BY <1>0 DEF RunInv, Run
  <1>5. k \in Small => y \in SmallPtrs(page) \cup {NULL, WILD}
    BY <1>0 DEF RunInv, Run
  <1>6. b.ptr = y /\ b.size = n + META
    OBVIOUS
  <1> HIDE DEF k, y, b
  <1>7. CASE y \in {NULL, WILD} \/ \E x \in live : x.ptr = y
    <2>1. mem' = mem /\ live' = live
      BY <1>2, <1>7
    <2>2. Held' = Held /\ Unharmed({})
      BY <1>0, <2>1, HeldStable DEF Held, Unharmed
    <2> QED
      BY <2>2, AbstractStutter
  <1>8. CASE ~ (y \in {NULL, WILD} \/ \E x \in live : x.ptr = y)
    <2>0. /\ mem' = [mem EXCEPT ![y] = k - 1] /\ live' = live \cup {b}
          /\ y # NULL /\ y # WILD /\ \A x \in live : x.ptr # y
      BY <1>2, <1>8
    <2>1. b \notin live /\ \A c \in Held : c.ptr # y
      BY <1>6, <2>0 DEF Held
    <2>2. \A a \in Cells : a # y => mem'[a] = mem[a]
      BY <1>0, <2>0 DEF Memory
    <2>3. Confined(y, page, mem, mem')
      <3> SUFFICES ASSUME NEW q \in Frames \cup {0}, y \in OnPage(q)
                   PROVE  /\ \A a \in Cells : a \notin OnPage(q) => mem'[a] = mem[a]
                          /\ \A l \in SoundCaches : page[l] = q => OnlyIn(l, q, y, mem, mem')
        BY DEF Confined
      <3>1. \A a \in OnPage(q) : a \in Cells /\ a \in Nat
        BY PagesAreCells
      <3>2. \A l \in SoundCaches : Sizes[l] \in Nat \ {0}
        BY SoundSizes, HeapConstants
      <3>3. \A l \in SoundCaches : y \in y .. (y + Sizes[l] - 1)
        BY <3>1, <3>2
      <3> QED
        BY <2>2, <3>1, <3>3 DEF OnlyIn
    <2>4. CASE k \in SoundCaches
      <3> DEFINE q == page[k]
      <3>1. y \in Bufs(k, q)
        BY <1>4, <2>0, <2>4, HeadIsFree
      <3>2. y \in Nat /\ y \in OnPage(q) /\ \A a \in y .. (y + Sizes[k] - 1) : a \in OnPage(q)
        BY <1>1, <1>3, <3>1, BufsApart
      <3>3. \A l \in SoundCaches : page[l] = q => l = k
        BY <1>0, <1>1, SoundSizes DEF Layout
      <3>4. q \in Frames \cup {0} /\ q \notin Others(page)
        BY <1>1, <1>3 DEF Others
      <3>5. CacheOf(b) = k
        BY <1>0, <1>1, <1>6, <3>2, CacheOfFinds
      <3>6. Sound(b)
        BY <1>1, <2>4, <3>5, HeapConstants DEF Sound
      <3> DEFINE W == Cover(b)
      <3>7. \A a \in W : a \in y .. (y + Sizes[k] - 1) /\ a \in OnPage(q)
        BY <1>1, <1>6, <3>2 DEF Cover
      <3>8. \A c \in Held : \A a \in Cover(c) : a \notin W
        <4>1. \A l \in SoundCaches : page[l] = q =>
                 y \in Bufs(l, q) /\ \A a \in W : a \in y .. (y + Sizes[l] - 1)
          BY <3>1, <3>3, <3>7
        <4>2. W \in SUBSET OnPage(q)
          BY <3>7
        <4> HIDE DEF W, q
        <4> QED
          BY <1>0, <2>1, <3>2, <3>4, <4>1, <4>2, HeldApart
      <3>9. Unharmed({})
        <4>1. \A l \in SoundCaches : page[l] = q => y \in Bufs(l, q)
          BY <3>1, <3>3
        <4>2. \A c \in Held \ {} : c.ptr # y
          BY <2>1
        <4> HIDE DEF q
        <4> QED
          BY <1>0, <2>3, <3>2, <3>4, <4>1, <4>2, ConfinedIsHarmless
      <3>10. Held' = Held \cup {b} /\ b \notin Held
        BY <1>0, <2>0, <2>1, <3>6, HeldStable DEF Held
      <3> QED
        BY <3>8, <3>9, <3>10, AbstractSteps
    <2>5. CASE k \in Small
      <3>1. y \in SmallPtrs(page)
        BY <1>5, <2>0, <2>5
      <3>2. PICK l \in Small : page[l] \in Frames /\ y \in OnPage(page[l])
        BY <1>0, <3>1, SmallPtrRoom
      <3>3. y \in Nat
        BY <1>0, <3>1, SmallPtrRoom
      <3> DEFINE q == page[l]
      <3>4. l \in Caches /\ l \notin SoundCaches
        BY SoundSizes
      <3>5. \A j \in SoundCaches : page[j] # q
        BY <1>0, <3>4, SoundSizes DEF Layout
      <3>6. q \in Frames \cup {0} /\ y \in OnPage(q) /\ q \notin Others(page)
        BY <3>2, <3>4 DEF Others
      <3>7. CacheOf(b) = l
        BY <1>0, <1>6, <3>2, <3>3, <3>4, CacheOfFinds
      <3>8. ~ Sound(b)
        BY <3>4, <3>7, HeapConstants DEF Sound
      <3>9. Unharmed({})
        <4>1. \A c \in Held \ {} : c.ptr # y
          BY <2>1
        <4> HIDE DEF q
        <4> QED
          BY <1>0, <2>3, <3>5, <3>6, <4>1, ConfinedIsHarmless
      <3>10. Held' = Held
        BY <1>0, <2>0, <3>8, HeldStable DEF Held
      <3> QED
        BY <3>9, <3>10, AbstractStutter
    <2> QED
      BY <1>1, <2>4, <2>5, SoundSizes
  <1> QED
    BY <1>7, <1>8

\* A block of its own page is granted; the one at address 0 is none.
LEMMA MallocLargeRefines ==
  ASSUME HeapInv, NEW n \in Requests, malloc_large(n)
  PROVE  Promise!Next \/ Seen' = Seen
  <1> DEFINE p == IF free = {} THEN 0 ELSE Min(free)
             y == p * PAGE
             b == [ptr |-> y, size |-> n + META]
  <1>0. /\ RunInv /\ HeapTypes /\ page' = page /\ Layout(page, free)
        /\ live \in SUBSET Block /\ mem \in Memory /\ live' = live \cup {b}
        /\ mem' = [a \in Cells |-> IF a = p * PAGE THEN 1
                                   ELSE IF a \div PAGE = p THEN 0 ELSE mem[a]]
    BY DEF malloc_large, HeapInv, HeapTypes, RunInv, Run
  <1>1. p \in Frames \cup {0} /\ (p = 0 \/ p \in free) /\ p \in Others(page)
    BY <1>0, FrameTaken
  <1> HIDE DEF p
  <1>2. p \in Nat /\ y = Base(p) /\ y \in Nat /\ y \in OnPage(p)
    <2>1. p \in Nat
      BY <1>1, PagesAreCells
    <2> QED
      BY <2>1, OnePage DEF Base
  <1>3. \A k \in Caches : page[k] # p
    BY <1>1 DEF Others
  <1>4. \A k \in SoundCaches : page[k] # p
    BY <1>3, SoundSizes
  <1>5. b.ptr = y /\ b.size = n + META /\ n + META \in 1 .. PAGE /\ PAGE \in Nat
    BY HeapAssumption DEF META
  <1> HIDE DEF b, y
  <1>6. Confined(y, page, mem, mem')
    <2> SUFFICES ASSUME NEW q \in Frames \cup {0}, y \in OnPage(q)
                 PROVE  /\ \A a \in Cells : a \notin OnPage(q) => mem'[a] = mem[a]
                        /\ \A k \in SoundCaches : page[k] = q => OnlyIn(k, q, y, mem, mem')
      BY DEF Confined
    <2>1. q \in Nat /\ y \in Int
      BY <1>2, PagesAreCells
    <2>2. q = p
      BY <1>2, <2>1, OnePage
    <2>3. \A a \in Cells : a \in Int /\ (a \div PAGE = p <=> a \in OnPage(p))
      <3>1. \A a \in Cells : a \in Int
        BY DEF Cells
      <3> QED
        BY <1>2, <3>1, OnePage
    <2>4. \A a \in Cells : a \notin OnPage(p) => mem'[a] = mem[a]
      BY <1>0, <1>2, <2>3 DEF y
    <2> QED
      BY <1>4, <2>2, <2>4
  <1>7. \A c \in Held : c.ptr # y
    <2> SUFFICES ASSUME NEW c \in Held, c.ptr = y PROVE FALSE
      OBVIOUS
    <2>1. p # 0
      BY <1>0, <1>1, <1>2, HeldPlace
    <2>2. PageOK(p, mem, free, Here(live, p)) /\ c \in Here(live, p)
      BY <1>0, <1>1, <1>2 DEF RunInv, Run, Here, Held
    <2> QED
      BY <1>1, <2>1, <2>2 DEF PageOK
  <1>8. Unharmed({})
    <2>1. \A c \in Held \ {} : c.ptr # y
      BY <1>7
    <2> QED
      BY <1>0, <1>1, <1>2, <1>4, <1>6, <2>1, ConfinedIsHarmless
  <1>9. CacheOf(b) = 0
    <2>1. \A k \in Caches : y \notin OnPage(page[k])
      <3> SUFFICES ASSUME NEW k \in Caches, y \in OnPage(page[k]) PROVE FALSE
        OBVIOUS
      <3>1. page[k] \in Frames \cup {0}
        BY <1>0 DEF Layout
      <3>2. page[k] \in Nat
        BY <3>1, PagesAreCells
      <3> QED
        BY <1>2, <1>3, <3>2, OnePage
    <2>2. b.ptr \in Int
      BY <1>2, <1>5
    <2> QED
      BY <1>0, <1>5, <2>1, <2>2, CacheOfFinds
  <1>10. CASE y = 0
    <2>1. ~ Sound(b)
      BY <1>5, <1>9, <1>10 DEF Sound
    <2>2. Held' = Held
      BY <1>0, <2>1, HeldStable DEF Held
    <2> QED
      BY <1>8, <2>2, AbstractStutter
  <1>11. CASE y # 0
    <2>1. Sound(b)
      BY <1>5, <1>9, <1>11 DEF Sound
    <2>2. b \notin Held /\ Held' = Held \cup {b}
      BY <1>0, <1>5, <1>7, <2>1, HeldStable DEF Held
    <2> DEFINE W == Cover(b)
    <2>3. W \in SUBSET OnPage(p)
      BY <1>2, <1>5 DEF Cover, OnPage
    <2>4. \A c \in Held : \A a \in Cover(c) : a \notin W
      <3> HIDE DEF W
      <3> QED
        BY <1>0, <1>1, <1>2, <1>4, <1>7, <2>3, HeldApart
    <2> QED
      BY <1>8, <2>2, <2>4, AbstractSteps
  <1> QED
    BY <1>10, <1>11

\* malloc and free keep their promise on every heap: blocks from caches with
\* room for their links and blocks of pages overlap no other, and what they
\* contain changes by their owners' hands only.
THEOREM ImplementsBlockAllocator ==
  ASSUME Sizes[1] < BUFCTL
  PROVE  Spec => BlocksPrivate
  <1>0. 1 \in Small
    BY HeapConstants DEF Small, SoundCaches, BUFCTL, PTR
  <1>1. Init => Promise!Init
    <2> SUFFICES ASSUME live = {} PROVE Promise!Init
      BY DEF Init
    <2> QED
      BY DEF Promise!Init
  <1>2. HeapInv /\ [Next]_vars => Promise!Next \/ Seen' = Seen
    <2> SUFFICES ASSUME HeapInv, [Next]_vars PROVE Promise!Next \/ Seen' = Seen
      OBVIOUS
    <2>1. CASE malloc_heap_init
      <3>1. live = {} /\ live' = {}
        BY <2>1 DEF malloc_heap_init, HeapInv
      <3>2. Held = {} /\ Held' = {}
        BY <3>1 DEF Held
      <3> QED
        BY <3>2, AbstractStutter DEF Unharmed
    <2>2. CASE Cardinality(live) < MaxLive /\ \E n \in Requests : malloc_small(n) \/ malloc_large(n)
      BY <2>2, MallocSmallRefines, MallocLargeRefines
    <2>3. CASE \E b \in live : Use(b) \/ free_small(b) \/ free_large(b)
      BY <1>0, <2>3, UseRefines, FreeRefines
    <2>4. CASE UNCHANGED vars
      BY <2>4 DEF vars, Seen, Sound, CacheOf
    <2> QED
      BY <2>1, <2>2, <2>3, <2>4 DEF Next
  <1>3. HeapInv /\ [Next]_vars => [Promise!Next]_Seen
    BY <1>2
  <1>4. Spec => []HeapInv
    BY HeapInvHolds
  <1> QED
    BY <1>1, <1>3, <1>4, PTL DEF Spec, BlocksPrivate, Promise!Spec, Seen
=============================================================================
