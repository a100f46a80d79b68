----------------------------- MODULE SlabProofs -----------------------------
(***************************************************************************)
(* Theorems about a slab cache, for every number of frames, every number   *)
(* of buffers in a slab and every way its callers mix the calls.           *)
(***************************************************************************)
EXTENDS Slab, NumberSets, SequenceTheorems

\* b is on a freelist of ch.
OnList(b, ch) ==
    \E k \in DOMAIN ch : \E m \in DOMAIN ch[k].freelist : ch[k].freelist[m] = b

\* No buffer is on the freelists of ch twice.
NoneTwice(ch) ==
    \A j, k \in DOMAIN ch :
        \A m \in DOMAIN ch[j].freelist, n \in DOMAIN ch[k].freelist :
            ch[j].freelist[m] = ch[k].freelist[n] => j = k /\ m = n

\* A sequence of slabs whose counts are the lengths of their freelists.
Counted(ch) ==
    /\ ch \in Seq(Slabs)
    /\ \A k \in DOMAIN ch : /\ ch[k].bufctl_count = Len(ch[k].freelist)
                            /\ ch[k].bufctl_count <= bufctl_count_max

\* The fields of a slab.
LEMMA SlabFields ==
  ASSUME NEW ch \in Seq(Slabs), NEW k \in DOMAIN ch
  PROVE  /\ ch[k] \in Slabs
         /\ ch[k].page \in Frames
         /\ ch[k].bufctl_count \in Nat
         /\ ch[k].freelist \in Seq(Buffers)
         /\ Len(ch[k].freelist) \in Nat
         /\ DOMAIN ch[k].freelist = 1 .. Len(ch[k].freelist)
         /\ \A m \in DOMAIN ch[k].freelist : ch[k].freelist[m] \in Buffers
  <1>1. ch[k] \in Slabs
    OBVIOUS
  <1>2. /\ ch[k].page \in Frames
        /\ ch[k].bufctl_count \in Nat
        /\ ch[k].freelist \in Seq(Buffers)
    BY <1>1 DEF Slabs
  <1> QED
    BY <1>1, <1>2

\* The buffers of a chain's freelists are those on a list.
LEMMA ListsOfChain ==
  ASSUME NEW ch
  PROVE  \A b : b \in UNION {ToSet(ch[k].freelist) : k \in DOMAIN ch} <=> OnList(b, ch)
  <1>1. \A k \in DOMAIN ch : \A b :
           b \in ToSet(ch[k].freelist) <=>
              \E m \in DOMAIN ch[k].freelist : ch[k].freelist[m] = b
    BY DEF ToSet
  <1> QED
    BY <1>1 DEF OnList

\* So the buffers that are available are those on a list, now and after a step.
LEMMA AvailableOnList ==
  /\ \A b : b \in Available <=> OnList(b, chain)
  /\ \A b : b \in Available' <=> OnList(b, chain')
  BY ListsOfChain DEF Available

\* InOrder numbers the members of a finite set: each at one place.
LEMMA InOrderIsNumbering ==
  ASSUME NEW F \in SUBSET Nat, IsFiniteSet(F)
  PROVE  /\ Cardinality(F) \in Nat
         /\ DOMAIN InOrder(F) = 1 .. Cardinality(F)
         /\ \A j \in DOMAIN InOrder(F) : InOrder(F)[j] \in F
         /\ \A j, k \in DOMAIN InOrder(F) :
               InOrder(F)[j] = InOrder(F)[k] => j = k
         /\ \A p \in F : \E j \in DOMAIN InOrder(F) : InOrder(F)[j] = p
  <1>0. Cardinality(F) \in Nat
    BY FS_CardinalityType
  <1>1. DOMAIN InOrder(F) = 1 .. Cardinality(F)
    BY DEF InOrder
  <1>2. \A j \in 1 .. Cardinality(F) :
           InOrder(F)[j] \in F /\ Rank(F, InOrder(F)[j]) = j
    <2> TAKE j \in 1 .. Cardinality(F)
    <2>1. InOrder(F)[j] = CHOOSE p \in F : Rank(F, p) = j
      BY DEF InOrder, Rank
    <2>2. \E p \in F : Rank(F, p) = j
      BY RankUnique
    <2> QED
      BY <2>1, <2>2
  <1>3. ASSUME NEW p \in F
        PROVE  \E j \in DOMAIN InOrder(F) : InOrder(F)[j] = p
    <2>1. Rank(F, p) \in 1 .. Cardinality(F)
      BY RankGrows
    <2> DEFINE q == InOrder(F)[Rank(F, p)]
    <2>2. q \in F /\ Rank(F, q) = Rank(F, p)
      BY <1>2, <2>1
    <2> HIDE DEF q
    <2>3. q = p
      BY <2>2, RankUnique
    <2> USE DEF q
    <2> QED
      BY <1>1, <2>1, <2>3
  <1> QED
    BY <1>0, <1>1, <1>2, <1>3

\* The frames taken are distinct free ones: as many as were asked for, or all.
LEMMA TakenFrames ==
  ASSUME NEW F \in SUBSET Frames, NEW n \in Nat
  PROVE  /\ Taken(n, F) \in Seq(F)
         /\ Taken(n, F) \in Seq(Frames)
         /\ \A j, k \in DOMAIN Taken(n, F) :
               Taken(n, F)[j] = Taken(n, F)[k] => j = k
         /\ n # 0 /\ F # {} => Taken(n, F) # <<>>
         /\ F = {} => Taken(n, F) = <<>>
         /\ ToSet(Taken(n, F)) \subseteq F
  <1> DEFINE c == Cardinality(F)
             len == IF n <= c THEN n ELSE c
             t == Taken(n, F)
  <1>1. F \in SUBSET Nat /\ IsFiniteSet(F)
    BY SlabAssumption, FS_Subset
  <1>2. c \in Nat /\ (c = 0 <=> F = {})
    BY <1>1, FS_CardinalityType, FS_EmptySet
  <1>3. len \in Nat /\ 1 .. len \subseteq 1 .. c
    BY <1>2
  <1>4. t = [j \in 1 .. len |-> InOrder(F)[j]]
    BY DEF Taken
  <1>5. \A j \in 1 .. len : j \in DOMAIN InOrder(F) /\ t[j] = InOrder(F)[j]
    BY <1>1, <1>3, <1>4, InOrderIsNumbering
  <1>6. t \in [1 .. len -> F]
    BY <1>1, <1>4, <1>5, InOrderIsNumbering
  <1>7. t \in Seq(F) /\ t \in Seq(Frames) /\ Len(t) = len
    BY <1>3, <1>6
  <1>8. \A j, k \in DOMAIN t : t[j] = t[k] => j = k
    BY <1>1, <1>5, <1>6, InOrderIsNumbering
  <1>9. n # 0 /\ F # {} => t # <<>>
    BY <1>2, <1>7
  <1>10. F = {} => t = <<>>
    BY <1>2, <1>7
  <1>11. ToSet(t) \subseteq F
    BY <1>6 DEF ToSet
  <1> HIDE DEF t
  <1> QED
    BY <1>7, <1>8, <1>9, <1>10, <1>11 DEF t

\* A new slab has all its buffers on its freelist, each once.
LEMMA NewSlabFields ==
  ASSUME NEW p \in Frames
  PROVE  /\ NewSlab(p) \in Slabs
         /\ NewSlab(p).page = p
         /\ NewSlab(p).bufctl_count = bufctl_count_max
         /\ Len(NewSlab(p).freelist) = bufctl_count_max
         /\ DOMAIN NewSlab(p).freelist = 1 .. bufctl_count_max
         /\ \A m \in 1 .. bufctl_count_max : NewSlab(p).freelist[m] = <<p, m>>
         /\ NewSlab(p).freelist # <<>>
  <1> DEFINE fl == [j \in 1 .. bufctl_count_max |-> <<p, j>>]
  <1>1. bufctl_count_max \in Nat \ {0}
    BY SlabAssumption
  <1>2. fl \in [1 .. bufctl_count_max -> Buffers]
    BY DEF Buffers
  <1>3. fl \in Seq(Buffers) /\ Len(fl) = bufctl_count_max /\ fl # <<>>
    BY <1>1, <1>2
  <1>4. /\ NewSlab(p).page = p
        /\ NewSlab(p).bufctl_count = bufctl_count_max
        /\ NewSlab(p).freelist = fl
    BY DEF NewSlab
  <1>5. NewSlab(p) \in Slabs
    BY <1>1, <1>3 DEF NewSlab, Slabs
  <1> QED
    BY <1>3, <1>4, <1>5

\* A slab of the grown chain is the old first one or a new one; the rest of
\* the old chain is no longer reached.
LEMMA GrownShape ==
  ASSUME NEW ch \in Seq(Slabs), NEW pages \in Seq(Frames), pages # <<>>
  PROVE  \E d \in {0, 1} :
           /\ d = 1 <=> ch # <<>>
           /\ Grown(ch, pages) \in Seq(Slabs)
           /\ DOMAIN Grown(ch, pages) = 1 .. (d + Len(pages))
           /\ d = 1 => Grown(ch, pages)[1] = ch[1] /\ 1 \in DOMAIN ch
           /\ \A k \in DOMAIN Grown(ch, pages) :
                 k > d => /\ k - d \in DOMAIN pages
                          /\ Grown(ch, pages)[k] = NewSlab(pages[k - d])
  <1> DEFINE old == IF ch = <<>> THEN <<>> ELSE <<Head(ch)>>
             new == [j \in DOMAIN pages |-> NewSlab(pages[j])]
             d == IF ch = <<>> THEN 0 ELSE 1
  <1>1. /\ Len(pages) \in Nat /\ DOMAIN pages = 1 .. Len(pages)
        /\ \A j \in DOMAIN pages : pages[j] \in Frames
    OBVIOUS
  <1>2. new \in [1 .. Len(pages) -> Slabs]
    BY <1>1, NewSlabFields
  <1>3. new \in Seq(Slabs) /\ Len(new) = Len(pages)
    BY <1>1, <1>2
  <1>4. /\ old \in Seq(Slabs) /\ Len(old) = d
        /\ d = 1 => old[1] = ch[1] /\ 1 \in DOMAIN ch
    OBVIOUS
  <1>5. Grown(ch, pages) = old \o new
    BY DEF Grown
  <1>b. \A j \in DOMAIN pages : new[j] = NewSlab(pages[j])
    OBVIOUS
  <1>7. d \in {0, 1} /\ (d = 1 <=> ch # <<>>)
    OBVIOUS
  <1> HIDE DEF old, new, d
  <1>6. /\ old \o new \in Seq(Slabs)
        /\ Len(old \o new) = d + Len(pages)
        /\ \A k \in 1 .. (d + Len(pages)) :
              (old \o new)[k] = IF k <= d THEN old[k] ELSE new[k - d]
    <2>1. old \in Seq(Slabs) /\ new \in Seq(Slabs)
      BY <1>3, <1>4
    <2>2. /\ old \o new \in Seq(Slabs)
          /\ Len(old \o new) = Len(old) + Len(new)
          /\ \A k \in 1 .. (Len(old) + Len(new)) :
                (old \o new)[k] = IF k <= Len(old) THEN old[k]
                                                  ELSE new[k - Len(old)]
      BY <2>1, ConcatProperties
    <2> QED
      BY <1>3, <1>4, <2>2
  <1>8. \A k \in 1 .. (d + Len(pages)) :
           k > d => k - d \in DOMAIN pages /\ (old \o new)[k] = NewSlab(pages[k - d])
    <2> SUFFICES ASSUME NEW k \in 1 .. (d + Len(pages)), k > d
                 PROVE  /\ k - d \in DOMAIN pages
                        /\ (old \o new)[k] = NewSlab(pages[k - d])
      OBVIOUS
    <2>1. k - d \in 1 .. Len(pages) /\ ~ k <= d
      BY <1>1, <1>7
    <2> QED
      BY <1>1, <1>b, <1>6, <2>1
  <1>9. d = 1 => (old \o new)[1] = ch[1] /\ 1 \in DOMAIN ch
    BY <1>1, <1>4, <1>6, <1>7
  <1>10. DOMAIN (old \o new) = 1 .. (d + Len(pages))
    BY <1>6
  <1> QED
    BY <1>5, <1>6, <1>7, <1>8, <1>9, <1>10

\* Growing with frames that hold no buffer of the chain keeps the counts
\* exact and the buffers distinct, and adds only buffers of those frames.
LEMMA GrownChain ==
  ASSUME NEW ch, Counted(ch), NoneTwice(ch),
         NEW pages \in Seq(Frames),
         \A j, k \in DOMAIN pages : pages[j] = pages[k] => j = k,
         \A b : OnList(b, ch) => Page(b) \notin ToSet(pages)
  PROVE  /\ Counted(Grown(ch, pages)) /\ NoneTwice(Grown(ch, pages))
         /\ \A b : OnList(b, Grown(ch, pages)) =>
               b \in Buffers /\ (OnList(b, ch) \/ Page(b) \in ToSet(pages))
         /\ \A k \in DOMAIN Grown(ch, pages) :
               \/ \E j \in DOMAIN ch : Grown(ch, pages)[k].page = ch[j].page
               \/ Grown(ch, pages)[k].page \in ToSet(pages)
         /\ pages # <<>> => \E k \in DOMAIN Grown(ch, pages) :
                               Grown(ch, pages)[k].freelist # <<>>
  <1> DEFINE g == Grown(ch, pages)
  <1>0. ch \in Seq(Slabs)
    BY DEF Counted
  <1>a. ASSUME NEW c \in Seq(Slabs), NEW b, OnList(b, c) PROVE b \in Buffers
    BY <1>a, SlabFields DEF OnList
  <1>1. CASE pages = <<>>
    <2>1. g = ch
      BY <1>1 DEF Grown
    <2>2. \A b : OnList(b, ch) => b \in Buffers
      BY <1>0, <1>a
    <2> HIDE DEF g
    <2> QED
      BY <1>1, <2>1, <2>2 DEF g
  <1>2. CASE pages # <<>>
    <2>1. PICK d \in {0, 1} :
           /\ d = 1 <=> ch # <<>>
           /\ g \in Seq(Slabs)
           /\ DOMAIN g = 1 .. (d + Len(pages))
           /\ d = 1 => g[1] = ch[1] /\ 1 \in DOMAIN ch
           /\ \A k \in DOMAIN g :
                 k > d => /\ k - d \in DOMAIN pages
                          /\ g[k] = NewSlab(pages[k - d])
      BY <1>0, <1>2, GrownShape
    <2> HIDE DEF g
    <2>2. Len(pages) \in Nat /\ Len(pages) # 0 /\ DOMAIN pages = 1 .. Len(pages)
      BY <1>2
    <2>3. \A j \in DOMAIN pages : pages[j] \in Frames /\ pages[j] \in ToSet(pages)
      BY <2>2 DEF ToSet
    <2>4. ASSUME NEW k \in DOMAIN g, ~ k > d
          PROVE  d = 1 /\ k = 1 /\ g[k] = ch[1] /\ 1 \in DOMAIN ch
      BY <2>1, <2>2, <2>4
    <2>5. ASSUME NEW k \in DOMAIN g, k > d
          PROVE  /\ k - d \in DOMAIN pages
                 /\ g[k].page = pages[k - d]
                 /\ g[k].page \in ToSet(pages)
                 /\ g[k].bufctl_count = bufctl_count_max
                 /\ Len(g[k].freelist) = bufctl_count_max
                 /\ g[k].freelist # <<>>
                 /\ DOMAIN g[k].freelist = 1 .. bufctl_count_max
                 /\ \A m \in DOMAIN g[k].freelist :
                       g[k].freelist[m] = <<pages[k - d], m>>
      <3>1. k - d \in DOMAIN pages /\ g[k] = NewSlab(pages[k - d])
        BY <2>1, <2>5
      <3>2. pages[k - d] \in Frames /\ pages[k - d] \in ToSet(pages)
        BY <2>3, <3>1
      <3> QED
        BY <3>1, <3>2, NewSlabFields
    <2>6. Counted(g)
      <3> SUFFICES ASSUME NEW k \in DOMAIN g
                   PROVE  /\ g[k].bufctl_count = Len(g[k].freelist)
                          /\ g[k].bufctl_count <= bufctl_count_max
        BY <2>1 DEF Counted
      <3>1. CASE k > d
        BY <2>5, <3>1, SlabAssumption
      <3>2. CASE ~ k > d
        BY <2>4, <3>2 DEF Counted
      <3> QED
        BY <3>1, <3>2
    <2>7. \A b : OnList(b, g) => b \in Buffers
      BY <1>a, <2>1
    <2>8. \A b : OnList(b, g) => OnList(b, ch) \/ Page(b) \in ToSet(pages)
      <3> SUFFICES ASSUME NEW k \in DOMAIN g, NEW m \in DOMAIN g[k].freelist
                   PROVE  \/ OnList(g[k].freelist[m], ch)
                          \/ Page(g[k].freelist[m]) \in ToSet(pages)
        BY DEF OnList
      <3>1. CASE k > d
        BY <2>3, <2>5, <3>1 DEF Page
      <3>2. CASE ~ k > d
        BY <2>4, <3>2 DEF OnList
      <3> QED
        BY <3>1, <3>2
    <2>9. NoneTwice(g)
      <3> SUFFICES ASSUME NEW j \in DOMAIN g, NEW k \in DOMAIN g,
                          NEW m \in DOMAIN g[j].freelist,
                          NEW n \in DOMAIN g[k].freelist,
                          g[j].freelist[m] = g[k].freelist[n]
                   PROVE  j = k /\ m = n
        BY DEF NoneTwice
      <3>1. CASE j > d /\ k > d
        <4>1. <<pages[j - d], m>> = <<pages[k - d], n>>
          BY <2>5, <3>1
        <4>2. j - d = k - d /\ m = n
          BY <2>5, <3>1, <4>1
        <4>3. j \in Int /\ k \in Int /\ d \in Int
          BY <2>1, <2>2
        <4> QED
          BY <4>2, <4>3
      <3>2. CASE ~ j > d /\ ~ k > d
        <4>1. j = 1 /\ k = 1 /\ g[j] = ch[1] /\ g[k] = ch[1] /\ 1 \in DOMAIN ch
          BY <2>4, <3>2
        <4>2. m = n
          BY <4>1 DEF NoneTwice
        <4> QED
          BY <4>1, <4>2
      <3>3. ASSUME NEW u \in DOMAIN g, NEW v \in DOMAIN g, u > d, ~ v > d,
                   NEW s \in DOMAIN g[u].freelist,
                   NEW t \in DOMAIN g[v].freelist,
                   g[u].freelist[s] = g[v].freelist[t]
            PROVE  FALSE
        <4>1. Page(g[u].freelist[s]) \in ToSet(pages)
          BY <2>3, <2>5, <3>3 DEF Page
        <4>2. OnList(g[v].freelist[t], ch)
          BY <2>4, <3>3 DEF OnList
        <4> QED
          BY <3>3, <4>1, <4>2
      <3> QED
        BY <3>1, <3>2, <3>3
    <2>10. \A k \in DOMAIN g : \/ \E j \in DOMAIN ch : g[k].page = ch[j].page
                               \/ g[k].page \in ToSet(pages)
      BY <2>4, <2>5
    <2>11. \E k \in DOMAIN g : g[k].freelist # <<>>
      <3>1. d + 1 \in DOMAIN g /\ d + 1 > d
        BY <2>1, <2>2
      <3> QED
        BY <2>5, <3>1
    <2> QED
      BY <2>6, <2>7, <2>8, <2>9, <2>10, <2>11 DEF g
  <1> QED
    BY <1>1, <1>2

\* The chain with the first buffer of slab k's freelist taken, and with b
\* put first on it.
Popped(ch, k) == [ch EXCEPT ![k].freelist = Tail(@), ![k].bufctl_count = @ - 1]
Pushed(ch, k, b) ==
    [ch EXCEPT ![k].freelist = <<b>> \o @, ![k].bufctl_count = @ + 1]

\* Taking the first buffer of a freelist: it is on no list afterwards, every
\* other one still is, and the counts stay exact.
LEMMA PopChain ==
  ASSUME NEW ch, Counted(ch), NoneTwice(ch),
         NEW k \in DOMAIN ch, ch[k].freelist # <<>>,
         NEW c2, c2 = Popped(ch, k), NEW h, h = Head(ch[k].freelist)
  PROVE  /\ Counted(c2) /\ NoneTwice(c2)
         /\ h \in Buffers /\ OnList(h, ch)
         /\ \A b : OnList(b, c2) => OnList(b, ch) /\ b # h
         /\ \A b : OnList(b, ch) => OnList(b, c2) \/ b = h
         /\ DOMAIN c2 = DOMAIN ch /\ \A j \in DOMAIN ch : c2[j].page = ch[j].page
  <1> DEFINE fl == ch[k].freelist
             tl == Tail(fl)
  <1>0. ch \in Seq(Slabs) /\ k \in 1 .. Len(ch) /\ DOMAIN ch = 1 .. Len(ch)
    BY DEF Counted
  <1>1. /\ ch[k].page \in Frames /\ ch[k].bufctl_count \in Nat
        /\ fl \in Seq(Buffers) /\ fl # <<>>
        /\ ch[k].bufctl_count = Len(fl) /\ Len(fl) <= bufctl_count_max
        /\ DOMAIN fl = 1 .. Len(fl)
    BY <1>0, SlabFields DEF Counted
  <1>2. /\ h \in Buffers /\ h = fl[1] /\ Len(fl) \in Nat \ {0}
        /\ tl \in Seq(Buffers) /\ Len(tl) = Len(fl) - 1
        /\ DOMAIN tl = 1 .. (Len(fl) - 1)
        /\ \A m \in DOMAIN tl : tl[m] = fl[m + 1] /\ m + 1 \in DOMAIN fl
    BY <1>1
  <1>3. /\ DOMAIN c2 = DOMAIN ch
        /\ \A j \in DOMAIN ch \ {k} : c2[j] = ch[j]
        /\ c2[k].page = ch[k].page
        /\ c2[k].bufctl_count = ch[k].bufctl_count - 1
        /\ c2[k].freelist = tl
    BY <1>0, <1>1, SlabFields DEF Slabs, Popped
  <1>4. c2 \in Seq(Slabs)
    <2>1. c2[k] = [page |-> ch[k].page, bufctl_count |-> ch[k].bufctl_count - 1,
                   freelist |-> tl]
      <3>1. c2[k] = [ch[k] EXCEPT !.freelist = Tail(@), !.bufctl_count = @ - 1]
        BY <1>0 DEF Popped
      <3>2. ch[k] \in Slabs
        BY <1>0
      <3>3. ch[k] \in [page : Frames, bufctl_count : Nat, freelist : Seq(Buffers)]
        BY <3>2 DEF Slabs
      <3> QED
        BY <3>1, <3>3
    <2>2. ch[k].bufctl_count - 1 \in Nat
      BY <1>1, <1>2
    <2>3. c2[k] \in Slabs
      BY <1>1, <1>2, <2>1, <2>2 DEF Slabs
    <2>4. c2 = [ch EXCEPT ![k] = c2[k]]
      BY <1>0, <1>3 DEF Popped
    <2> QED
      BY <1>0, <2>3, <2>4, ExceptSeq
  <1> HIDE DEF fl, tl
  <1>5. Counted(c2)
    <2> SUFFICES ASSUME NEW j \in DOMAIN c2
                 PROVE  /\ c2[j].bufctl_count = Len(c2[j].freelist)
                        /\ c2[j].bufctl_count <= bufctl_count_max
      BY <1>4 DEF Counted
    <2>1. CASE j = k
      BY <1>1, <1>2, <1>3, <2>1, SlabAssumption DEF fl
    <2>2. CASE j # k
      BY <1>3, <2>2 DEF Counted
    <2> QED
      BY <2>1, <2>2
  <1>6. \A j \in DOMAIN c2 : \A m \in DOMAIN c2[j].freelist :
           \E n \in DOMAIN ch[j].freelist :
              /\ c2[j].freelist[m] = ch[j].freelist[n]
              /\ n = (IF j = k THEN m + 1 ELSE m)
    BY <1>2, <1>3 DEF fl
  <1>7. \A j \in DOMAIN c2 : \A m \in DOMAIN c2[j].freelist : m \in Nat
    BY <1>4, SlabFields
  <1>8. NoneTwice(c2)
    <2> SUFFICES ASSUME NEW i \in DOMAIN c2, NEW j \in DOMAIN c2,
                        NEW m \in DOMAIN c2[i].freelist,
                        NEW n \in DOMAIN c2[j].freelist,
                        c2[i].freelist[m] = c2[j].freelist[n]
                 PROVE  i = j /\ m = n
      BY DEF NoneTwice
    <2>1. PICK m1 \in DOMAIN ch[i].freelist :
             /\ c2[i].freelist[m] = ch[i].freelist[m1]
             /\ m1 = (IF i = k THEN m + 1 ELSE m)
      BY <1>6
    <2>2. PICK n1 \in DOMAIN ch[j].freelist :
             /\ c2[j].freelist[n] = ch[j].freelist[n1]
             /\ n1 = (IF j = k THEN n + 1 ELSE n)
      BY <1>6
    <2>3. i = j /\ m1 = n1
      <3>1. i \in DOMAIN ch /\ j \in DOMAIN ch
        BY <1>3
      <3>2. ch[i].freelist[m1] = ch[j].freelist[n1]
        BY <2>1, <2>2
      <3> QED
        BY <3>1, <3>2 DEF NoneTwice
    <2> QED
      BY <1>7, <2>1, <2>2, <2>3
  <1>9. OnList(h, ch)
    BY <1>1, <1>2 DEF OnList, fl
  <1>10. ASSUME NEW b, OnList(b, c2) PROVE OnList(b, ch) /\ b # h
    <2>1. PICK j \in DOMAIN c2 : \E m \in DOMAIN c2[j].freelist : c2[j].freelist[m] = b
      BY <1>10 DEF OnList
    <2>2. PICK m \in DOMAIN c2[j].freelist : c2[j].freelist[m] = b
      BY <2>1
    <2>3. PICK n \in DOMAIN ch[j].freelist :
             /\ b = ch[j].freelist[n]
             /\ n = (IF j = k THEN m + 1 ELSE m)
      BY <1>6, <2>2
    <2>4. OnList(b, ch)
      BY <1>3, <2>3 DEF OnList
    <2>5. ASSUME b = h PROVE FALSE
      <3>1. ch[j].freelist[n] = ch[k].freelist[1] /\ 1 \in DOMAIN ch[k].freelist
        BY <1>1, <1>2, <2>3, <2>5 DEF fl
      <3>2. j = k /\ n = 1
        BY <1>3, <3>1 DEF NoneTwice
      <3>3. m \in Nat \ {0}
        BY <1>4, SlabFields
      <3> QED
        BY <2>3, <3>2, <3>3
    <2> QED
      BY <2>4, <2>5
  <1>11. ASSUME NEW b, OnList(b, ch), b # h PROVE OnList(b, c2)
    <2>1. PICK j \in DOMAIN ch : \E m \in DOMAIN ch[j].freelist : ch[j].freelist[m] = b
      BY <1>11 DEF OnList
    <2>2. PICK m \in DOMAIN ch[j].freelist : ch[j].freelist[m] = b
      BY <2>1
    <2>3. CASE j # k
      BY <1>3, <2>2, <2>3 DEF OnList
    <2>4. CASE j = k
      <3>1. m \in 2 .. Len(fl)
        BY <1>1, <1>2, <1>11, <2>2, <2>4 DEF fl
      <3>2. m - 1 \in DOMAIN tl /\ tl[m - 1] = b
        BY <1>2, <2>2, <2>4, <3>1 DEF fl
      <3> QED
        BY <1>3, <3>2 DEF OnList
    <2> QED
      BY <2>3, <2>4
  <1> QED
    BY <1>2, <1>3, <1>5, <1>8, <1>9, <1>10, <1>11

\* Putting back a buffer that is on no list, on that of a slab with room.
LEMMA PushChain ==
  ASSUME NEW ch, Counted(ch), NoneTwice(ch), NEW b \in Buffers, ~ OnList(b, ch),
         NEW k \in DOMAIN ch, ch[k].bufctl_count < bufctl_count_max,
         NEW c2, c2 = Pushed(ch, k, b)
  PROVE  /\ Counted(c2) /\ NoneTwice(c2)
         /\ \A c : OnList(c, c2) => OnList(c, ch) \/ c = b
         /\ DOMAIN c2 = DOMAIN ch /\ \A j \in DOMAIN ch : c2[j].page = ch[j].page
  <1> DEFINE fl == ch[k].freelist
             nl == <<b>> \o fl
  <1>0. ch \in Seq(Slabs) /\ k \in 1 .. Len(ch) /\ DOMAIN ch = 1 .. Len(ch)
    BY DEF Counted
  <1>1. /\ ch[k].page \in Frames /\ ch[k].bufctl_count \in Nat
        /\ fl \in Seq(Buffers) /\ Len(fl) \in Nat
        /\ ch[k].bufctl_count = Len(fl) /\ Len(fl) < bufctl_count_max
        /\ DOMAIN fl = 1 .. Len(fl)
    BY <1>0, SlabFields DEF Counted
  <1>2. /\ nl \in Seq(Buffers) /\ Len(nl) = Len(fl) + 1
        /\ DOMAIN nl = 1 .. (Len(fl) + 1)
        /\ \A m \in DOMAIN nl : \/ m = 1 /\ nl[m] = b
                                \/ m # 1 /\ m - 1 \in DOMAIN fl /\ nl[m] = fl[m - 1]
    <2>1. <<b>> \in Seq(Buffers) /\ Len(<<b>>) = 1 /\ <<b>>[1] = b
      OBVIOUS
    <2>2. /\ nl \in Seq(Buffers) /\ Len(nl) = 1 + Len(fl)
          /\ \A m \in 1 .. (1 + Len(fl)) :
                nl[m] = IF m <= 1 THEN <<b>>[m] ELSE fl[m - 1]
      BY <1>1, <2>1, ConcatProperties
    <2> HIDE DEF nl, fl
    <2>3. DOMAIN nl = 1 .. (Len(fl) + 1)
      BY <1>1, <2>2
    <2> QED
      BY <1>1, <2>1, <2>2, <2>3
  <1>3. /\ DOMAIN c2 = DOMAIN ch
        /\ \A j \in DOMAIN ch \ {k} : c2[j] = ch[j]
        /\ c2[k].page = ch[k].page
        /\ c2[k].bufctl_count = ch[k].bufctl_count + 1
        /\ c2[k].freelist = nl
    BY <1>0, <1>1, SlabFields DEF Slabs, Pushed
  <1>4. c2 \in Seq(Slabs)
    <2>1. c2[k] = [page |-> ch[k].page, bufctl_count |-> ch[k].bufctl_count + 1,
                   freelist |-> nl]
      <3>1. c2[k] = [ch[k] EXCEPT !.freelist = <<b>> \o @, !.bufctl_count = @ + 1]
        BY <1>0 DEF Pushed
      <3>2. ch[k] \in Slabs
        BY <1>0
      <3>3. ch[k] \in [page : Frames, bufctl_count : Nat, freelist : Seq(Buffers)]
        BY <3>2 DEF Slabs
      <3> QED
        BY <3>1, <3>3
    <2>2. ch[k].bufctl_count + 1 \in Nat
      BY <1>1
    <2>3. c2[k] \in Slabs
      BY <1>1, <1>2, <2>1, <2>2 DEF Slabs
    <2>4. c2 = [ch EXCEPT ![k] = c2[k]]
      BY <1>0, <1>3 DEF Pushed
    <2> QED
      BY <1>0, <2>3, <2>4, ExceptSeq
  <1> HIDE DEF fl, nl
  <1>5. Counted(c2)
    <2> SUFFICES ASSUME NEW j \in DOMAIN c2
                 PROVE  /\ c2[j].bufctl_count = Len(c2[j].freelist)
                        /\ c2[j].bufctl_count <= bufctl_count_max
      BY <1>4 DEF Counted
    <2>1. CASE j = k
      BY <1>1, <1>2, <1>3, <2>1, SlabAssumption DEF fl
    <2>2. CASE j # k
      BY <1>3, <2>2 DEF Counted
    <2> QED
      BY <2>1, <2>2
  <1>6. \A j \in DOMAIN c2 : \A m \in DOMAIN c2[j].freelist :
           \/ j = k /\ m = 1 /\ c2[j].freelist[m] = b
           \/ j = k /\ m - 1 \in DOMAIN ch[j].freelist
                    /\ c2[j].freelist[m] = ch[j].freelist[m - 1]
           \/ j # k /\ m \in DOMAIN ch[j].freelist
                    /\ c2[j].freelist[m] = ch[j].freelist[m]
    BY <1>2, <1>3 DEF fl
  <1>7. \A j \in DOMAIN c2 : \A m \in DOMAIN c2[j].freelist : m \in Nat
    BY <1>4, SlabFields
  <1>8. \A j \in DOMAIN ch : \A m \in DOMAIN ch[j].freelist : ch[j].freelist[m] # b
    BY DEF OnList
  <1>9. NoneTwice(c2)
    <2> SUFFICES ASSUME NEW i \in DOMAIN c2, NEW j \in DOMAIN c2,
                        NEW m \in DOMAIN c2[i].freelist,
                        NEW n \in DOMAIN c2[j].freelist,
                        c2[i].freelist[m] = c2[j].freelist[n]
                 PROVE  i = j /\ m = n
      BY DEF NoneTwice
    <2>0. i \in DOMAIN ch /\ j \in DOMAIN ch /\ m \in Nat /\ n \in Nat
      BY <1>3, <1>7
    <2>1. CASE c2[i].freelist[m] = b
      <3>1. i = k /\ m = 1
        BY <1>6, <1>8, <2>0, <2>1
      <3>2. j = k /\ n = 1
        <4>1. c2[j].freelist[n] = b
          BY <2>1
        <4> QED
          BY <1>6, <1>8, <2>0, <4>1
      <3> QED
        BY <3>1, <3>2
    <2>2. CASE c2[i].freelist[m] # b
      <3>1. PICK m1 \in DOMAIN ch[i].freelist :
               c2[i].freelist[m] = ch[i].freelist[m1]
               /\ m1 = (IF i = k THEN m - 1 ELSE m)
        BY <1>6, <2>2
      <3>2. PICK n1 \in DOMAIN ch[j].freelist :
               c2[j].freelist[n] = ch[j].freelist[n1]
               /\ n1 = (IF j = k THEN n - 1 ELSE n)
        BY <1>6, <2>2
      <3>3. i = j /\ m1 = n1
        <4>1. ch[i].freelist[m1] = ch[j].freelist[n1]
          BY <3>1, <3>2
        <4> QED
          BY <2>0, <4>1 DEF NoneTwice
      <3> QED
        BY <2>0, <3>1, <3>2, <3>3
    <2> QED
      BY <2>1, <2>2
  <1>10. \A c : OnList(c, c2) => OnList(c, ch) \/ c = b
    BY <1>3, <1>6 DEF OnList
  <1> QED
    BY <1>3, <1>5, <1>9, <1>10

\* Dropping slabs from a chain keeps the counts exact and the buffers
\* distinct.
LEMMA KeptChain ==
  ASSUME NEW ch, Counted(ch), NoneTwice(ch),
         NEW n \in Nat, NEW kept \in [1 .. n -> DOMAIN ch],
         \A j, k \in 1 .. n : kept[j] = kept[k] => j = k,
         NEW left, left = [j \in 1 .. n |-> ch[kept[j]]]
  PROVE  /\ Counted(left) /\ NoneTwice(left)
         /\ \A b : OnList(b, left) => OnList(b, ch)
         /\ \A k \in DOMAIN left : \E j \in DOMAIN ch : left[k] = ch[j]
  <1>0. ch \in Seq(Slabs)
    BY DEF Counted
  <1>1. left \in [1 .. n -> Slabs]
    BY <1>0
  <1>2. left \in Seq(Slabs) /\ DOMAIN left = 1 .. n
    BY <1>1
  <1>3. \A k \in DOMAIN left : kept[k] \in DOMAIN ch /\ left[k] = ch[kept[k]]
    BY <1>2
  <1>4. Counted(left)
    BY <1>2, <1>3 DEF Counted
  <1>5. NoneTwice(left)
    <2> SUFFICES ASSUME NEW i \in DOMAIN left, NEW j \in DOMAIN left,
                        NEW m \in DOMAIN left[i].freelist,
                        NEW r \in DOMAIN left[j].freelist,
                        left[i].freelist[m] = left[j].freelist[r]
                 PROVE  i = j /\ m = r
      BY DEF NoneTwice
    <2>1. kept[i] = kept[j] /\ m = r
      BY <1>3 DEF NoneTwice
    <2> QED
      BY <1>2, <2>1
  <1>6. \A b : OnList(b, left) => OnList(b, ch)
    BY <1>3 DEF OnList
  <1> QED
    BY <1>3, <1>4, <1>5, <1>6

\* SelectInSeq's set of positions has a first member unless it is empty.
LEMMA FirstPosition ==
  ASSUME NEW I, NEW n \in Nat, I \subseteq 1 .. n, I # {}
  PROVE  Min(I) \in I /\ \A j \in I : Min(I) <= j
  <1>1. IsFiniteSet(1 .. n)
    BY FS_Interval
  <1>2. I \in SUBSET (1 .. n) /\ I \in SUBSET Nat
    OBVIOUS
  <1>3. IsFiniteSet(I)
    BY <1>1, <1>2, FS_Subset
  <1> QED
    BY <1>2, <1>3, MinIsLeast

\* FirstFree is the position of a slab with a free buffer, or there is none.
LEMMA FirstFreeFound ==
  ASSUME NEW ch \in Seq(Slabs)
  PROVE  \/ /\ FirstFree(ch) # 0 /\ FirstFree(ch) \in DOMAIN ch
            /\ ch[FirstFree(ch)].freelist # <<>>
         \/ /\ FirstFree(ch) = 0
            /\ \A k \in DOMAIN ch : ch[k].freelist = <<>>
  <1> DEFINE I == {k \in 1 .. Len(ch) : ch[k].freelist # <<>>}
  <1>1. FirstFree(ch) = IF I # {} THEN Min(I) ELSE 0
    BY DEF FirstFree, SelectInSeq
  <1>2. DOMAIN ch = 1 .. Len(ch) /\ Len(ch) \in Nat
    OBVIOUS
  <1>3. I # {} => Min(I) \in I
    BY <1>2, FirstPosition
  <1> QED
    BY <1>1, <1>2, <1>3

\* So is the slab slab_cache_free puts a buffer back to.
LEMMA FirstRoomFound ==
  ASSUME NEW ch \in Seq(Slabs), NEW k,
         k = SelectInSeq(ch, LAMBDA s : s.bufctl_count < bufctl_count_max)
  PROVE  k # 0 => k \in DOMAIN ch /\ ch[k].bufctl_count < bufctl_count_max
  <1> DEFINE I == {j \in 1 .. Len(ch) : ch[j].bufctl_count < bufctl_count_max}
  <1>1. k = IF I # {} THEN Min(I) ELSE 0
    BY DEF SelectInSeq
  <1>2. DOMAIN ch = 1 .. Len(ch) /\ Len(ch) \in Nat
    OBVIOUS
  <1>3. I # {} => Min(I) \in I
    BY <1>2, FirstPosition
  <1> QED
    BY <1>1, <1>2, <1>3

\* And the slab at which slab_cache_destroy gives up.
FirstInUse(ch) == SelectInSeq(ch, LAMBDA s : ~ Full(s))

\* It is the first slab that is not full, or 0 when every slab is full.
LEMMA FirstInUseFound ==
  ASSUME NEW ch \in Seq(Slabs), NEW k, k = FirstInUse(ch)
  PROVE  \/ /\ k \in 1 .. Len(ch) /\ ~ Full(ch[k])
            /\ \A j \in 1 .. (k - 1) : Full(ch[j])
         \/ k = 0 /\ \A j \in DOMAIN ch : Full(ch[j])
  <1> DEFINE I == {j \in 1 .. Len(ch) : ~ Full(ch[j])}
  <1>1. k = IF I # {} THEN Min(I) ELSE 0
    BY DEF FirstInUse, SelectInSeq
  <1>2. DOMAIN ch = 1 .. Len(ch) /\ Len(ch) \in Nat
    OBVIOUS
  <1>3. I # {} => Min(I) \in I /\ \A j \in I : Min(I) <= j
    BY <1>2, FirstPosition
  <1>4. CASE I = {}
    BY <1>1, <1>2, <1>4
  <1>5. CASE I # {}
    <2>1. k \in I /\ \A j \in I : k <= j
      BY <1>1, <1>3, <1>5
    <2>2. \A j \in 1 .. (k - 1) : j \in 1 .. Len(ch) /\ ~ k <= j
      BY <1>2, <2>1
    <2> QED
      BY <2>1, <2>2
  <1> QED
    BY <1>4, <1>5

-----------------------------------------------------------------------------
(* The inductive invariant.                                                *)

\* While nothing has been given back too early, a frame has one role: free,
\* another part's, the cache descriptor, or a slab that is still reached.
FramesHaveOneRole ==
    status # "corrupt" =>
        /\ free \cap other = {}
        /\ cache \notin free \cup other
        /\ \A k \in DOMAIN chain : chain[k].page \notin free \cup other \cup {cache}

\* BufferExclusive alone is not inductive: that a new slab brings no buffer
\* that is already out rests on the frames it is made of.
SlabInv ==
    /\ TypeOK
    /\ BufferExclusive
    /\ BufctlCountExact
    /\ BuffersBacked
    /\ FramesHaveOneRole

\* The invariant in terms of OnList, which the lemmas about chains use.
ListInv ==
    /\ free \subseteq Frames /\ other \subseteq Frames
    /\ cache \in Frames \cup {NULL}
    /\ slabs \in BOOLEAN
    /\ live \subseteq Buffers
    /\ status \in {"run", "panic", "hung", "corrupt"}
    /\ Counted(chain) /\ NoneTwice(chain)
    /\ \A b \in live : ~ OnList(b, chain)
    /\ status # "corrupt" =>
          /\ \A b : b \in live \/ OnList(b, chain) =>
                Page(b) \notin free \cup other \cup {cache}
          /\ free \cap other = {} /\ cache \notin free \cup other
          /\ \A k \in DOMAIN chain : chain[k].page \notin free \cup other \cup {cache}

\* The list form says the same as the inductive invariant.
LEMMA ListForm == SlabInv <=> ListInv
  <1>1. ASSUME chain \in Seq(Slabs)
        PROVE  /\ Available \cap live = {} <=> \A b \in live : ~ OnList(b, chain)
               /\ BuffersBacked <=>
                    (status # "corrupt" =>
                      \A b : b \in live \/ OnList(b, chain) =>
                         Page(b) \notin free \cup other \cup {cache})
    <2>1. \A b : b \in Available <=> OnList(b, chain)
      BY AvailableOnList
    <2>2. BuffersBacked <=>
             (status # "corrupt" =>
               \A b : b \in live \/ b \in Available =>
                  Page(b) \notin free \cup other \cup {cache})
      BY DEF BuffersBacked
    <2> QED
      BY <2>1, <2>2
  <1>2. chain \in Seq(Slabs) /\ BufctlCountExact <=> Counted(chain)
    BY DEF BufctlCountExact, Counted
  <1>3. BufferExclusive <=> NoneTwice(chain) /\ Available \cap live = {}
    BY DEF BufferExclusive, NoneTwice
  <1>4. Counted(chain) => chain \in Seq(Slabs)
    BY DEF Counted
  <1>5. ASSUME SlabInv PROVE ListInv
    <2>1. chain \in Seq(Slabs)
      BY <1>5 DEF SlabInv, TypeOK
    <2> QED
      BY <1>1, <1>2, <1>3, <1>5, <2>1 DEF SlabInv, TypeOK, ListInv, FramesHaveOneRole
  <1>6. ASSUME ListInv PROVE SlabInv
    <2>1. chain \in Seq(Slabs)
      BY <1>4, <1>6 DEF ListInv
    <2> QED
      BY <1>1, <1>2, <1>3, <1>6, <2>1 DEF SlabInv, TypeOK, ListInv, FramesHaveOneRole
  <1> QED
    BY <1>5, <1>6

\* Initially there is no cache and no buffer.
LEMMA ListInit == Init => ListInv
  <1> SUFFICES ASSUME Init PROVE ListInv
    OBVIOUS
  <1>1. chain = <<>> /\ live = {} /\ cache = NULL /\ other = {} /\ free = Frames
    BY DEF Init
  <1>2. Counted(chain) /\ NoneTwice(chain) /\ \A b : ~ OnList(b, chain)
    BY <1>1 DEF Counted, NoneTwice, OnList
  <1>3. NULL \notin Frames
    BY SlabAssumption DEF NULL
  <1>4. slabs \in BOOLEAN /\ status \in {"run", "panic", "hung", "corrupt"}
    BY DEF Init
  <1>5. DOMAIN chain = {}
    BY <1>1
  <1>6. /\ \A b \in live : ~ OnList(b, chain)
        /\ \A b : b \in live \/ OnList(b, chain) =>
              Page(b) \notin free \cup other \cup {cache}
    BY <1>1, <1>2
  <1>7. free \cap other = {} /\ cache \notin free \cup other
    BY <1>1, <1>3
  <1>8. free \subseteq Frames /\ other \subseteq Frames /\ cache \in Frames \cup {NULL}
        /\ live \subseteq Buffers
    BY <1>1
  <1> QED
    BY <1>2, <1>4, <1>5, <1>6, <1>7, <1>8 DEF ListInv

\* A call that fails either panics or returns NULL.
LEMMA FailStatus ==
  ASSUME NEW fl, status = "run", Fail(fl) PROVE status' \in {"run", "panic"}
  BY DEF Fail

\* What growing ch by frames of F gives: a chain g with exact counts and
\* distinct buffers, none of them live or in a frame with another role.
GoodGrowth(g, ch, pages, F) ==
    /\ Counted(g) /\ NoneTwice(g)
    /\ pages \in Seq(Frames) /\ ToSet(pages) \subseteq F
    /\ \A b : OnList(b, g) =>
          /\ b \in Buffers /\ b \notin live
          /\ Page(b) \notin (free \ ToSet(pages)) \cup other
          /\ OnList(b, ch) \/ Page(b) \in ToSet(pages)
    /\ \A k \in DOMAIN g :
          /\ g[k].page \notin (free \ ToSet(pages)) \cup other
          /\ \/ g[k].page \in ToSet(pages)
             \/ \E j \in DOMAIN ch : g[k].page = ch[j].page
    /\ pages # <<>> => \E k \in DOMAIN g : g[k].freelist # <<>>

\* Growing from a state with the invariant: the chain and the frames.
LEMMA GrowStep ==
  ASSUME ListInv, status = "run", NEW F \in SUBSET free, NEW n \in Nat,
         NEW ch, ch = chain \/ ch = <<>>
  PROVE  GoodGrowth(Grown(ch, Taken(n, F)), ch, Taken(n, F), F)
  <1> DEFINE pages == Taken(n, F)
             g == Grown(ch, pages)
  <1>1. F \subseteq Frames
    BY DEF ListInv
  <1>2. /\ pages \in Seq(Frames) /\ ToSet(pages) \subseteq F
        /\ \A j, k \in DOMAIN pages : pages[j] = pages[k] => j = k
    BY <1>1, TakenFrames
  <1> HIDE DEF pages
  <1>3. /\ Counted(ch) /\ NoneTwice(ch)
        /\ \A b : OnList(b, ch) => OnList(b, chain)
        /\ \A j \in DOMAIN ch : j \in DOMAIN chain /\ ch[j].page = chain[j].page
    <2>1. CASE ch = chain
      BY <2>1 DEF ListInv
    <2>2. CASE ch = <<>>
      BY <2>2 DEF Counted, NoneTwice, OnList
    <2> QED
      BY <2>1, <2>2
  <1>4. /\ \A b : b \in live \/ OnList(b, chain) => Page(b) \notin free \cup other
        /\ free \cap other = {}
        /\ \A k \in DOMAIN chain : chain[k].page \notin free \cup other
        /\ \A b \in live : ~ OnList(b, chain)
    BY DEF ListInv
  <1>5. \A b : OnList(b, ch) => Page(b) \notin ToSet(pages)
    BY <1>2, <1>3, <1>4
  <1>6. /\ Counted(g) /\ NoneTwice(g)
        /\ \A b : OnList(b, g) =>
               b \in Buffers /\ (OnList(b, ch) \/ Page(b) \in ToSet(pages))
        /\ \A k \in DOMAIN g : \/ \E j \in DOMAIN ch : g[k].page = ch[j].page
                               \/ g[k].page \in ToSet(pages)
        /\ pages # <<>> => \E k \in DOMAIN g : g[k].freelist # <<>>
    BY <1>2, <1>3, <1>5, GrownChain
  <1> HIDE DEF g
  <1>7. ASSUME NEW b, OnList(b, g)
        PROVE  b \notin live /\ Page(b) \notin (free \ ToSet(pages)) \cup other
    BY <1>2, <1>3, <1>4, <1>6, <1>7
  <1>8. \A k \in DOMAIN g : g[k].page \notin (free \ ToSet(pages)) \cup other
    BY <1>2, <1>3, <1>4, <1>6
  <1> QED
    BY <1>2, <1>6, <1>7, <1>8 DEF g, pages, GoodGrowth

\* slab_cache_create takes the frame of the cache off the free ones and grows
\* an empty chain, so nothing it puts on a freelist is in use already.
LEMMA CreateStep ==
  ASSUME ListInv, NEW fl, slab_cache_create(fl) PROVE ListInv'
  <1>0. status = "run" /\ cache = NULL /\ UNCHANGED <<other, live>>
    BY DEF slab_cache_create
  <1>1. CASE free = {}
    <2>1. UNCHANGED <<free, cache, chain, slabs>> /\ Fail(fl)
      BY <1>1 DEF slab_cache_create
    <2>2. status' \in {"run", "panic"}
      BY <1>0, <2>1, FailStatus
    <2> QED
      BY <1>0, <2>1, <2>2 DEF ListInv
  <1>2. CASE free # {}
    <2> DEFINE page == Min(free)
               F == free \ {page}
               pages == Taken(1, F)
    <2>1. /\ cache' = page /\ chain' = Grown(<<>>, pages)
          /\ slabs' = (chain' # <<>>)
          /\ free' = free \ ({page} \cup ToSet(pages))
          /\ IF pages = <<>> THEN Fail(fl) ELSE UNCHANGED status
      BY <1>2 DEF slab_cache_create
    <2>2. free \in SUBSET Frames
      BY DEF ListInv
    <2>3. free \in SUBSET Nat /\ IsFiniteSet(free)
      BY <2>2, SlabAssumption, FS_Subset
    <2>4. page \in free
      BY <1>2, <2>3, MinIsLeast
    <2>5. status' \in {"run", "panic"}
      BY <1>0, <2>1, FailStatus
    <2> HIDE DEF page
    <2>6. F \in SUBSET free /\ page \notin F
      OBVIOUS
    <2> HIDE DEF F, pages
    <2>7. GoodGrowth(chain', <<>>, pages, F)
      BY <1>0, <2>1, <2>6, GrowStep DEF pages
    <2>8. /\ \A b : ~ OnList(b, <<>>)
          /\ \A k \in DOMAIN chain' : chain'[k].page \in ToSet(pages)
      BY <2>7 DEF OnList, GoodGrowth
    <2>9. /\ \A b : b \in live' \/ OnList(b, chain') =>
               Page(b) \notin free' \cup other' \cup {cache'}
          /\ free' \cap other' = {} /\ cache' \notin free' \cup other'
          /\ \A k \in DOMAIN chain' :
                chain'[k].page \notin free' \cup other' \cup {cache'}
      <3>1. /\ \A b \in live : Page(b) \notin free \cup other
            /\ free \cap other = {}
        BY <1>0 DEF ListInv
      <3>2. ASSUME NEW b, OnList(b, chain')
            PROVE  Page(b) \notin free' \cup other' \cup {cache'}
        BY <1>0, <2>1, <2>6, <2>7, <2>8, <3>2 DEF GoodGrowth
      <3>3. ASSUME NEW b \in live'
            PROVE  Page(b) \notin free' \cup other' \cup {cache'}
        BY <1>0, <2>1, <2>4, <3>1
      <3>4. free' \cap other' = {} /\ cache' \notin free' \cup other'
        BY <1>0, <2>1, <2>4, <3>1
      <3>5. ASSUME NEW k \in DOMAIN chain'
            PROVE  chain'[k].page \notin free' \cup other' \cup {cache'}
        BY <1>0, <2>1, <2>6, <2>7, <2>8 DEF GoodGrowth
      <3> QED
        BY <3>2, <3>3, <3>4, <3>5
    <2>10. /\ free' \subseteq Frames /\ other' \subseteq Frames
           /\ cache' \in Frames /\ slabs' \in BOOLEAN /\ live' \subseteq Buffers
      BY <1>0, <2>1, <2>2, <2>4 DEF ListInv
    <2>11. \A b \in live' : ~ OnList(b, chain')
      BY <1>0, <2>7 DEF GoodGrowth
    <2> QED
      BY <2>5, <2>7, <2>9, <2>10, <2>11 DEF ListInv, GoodGrowth
  <1> QED
    BY <1>1, <1>2

\* slab_cache_grow adds slabs whose pages were free until now.
LEMMA GrowCallStep ==
  ASSUME ListInv, NEW fl, NEW n \in Nat, slab_cache_grow(n, fl) PROVE ListInv'
  <1> DEFINE pages == Taken(n, free)
  <1>0. /\ status = "run" /\ UNCHANGED <<other, cache, live>>
        /\ chain' = Grown(chain, pages) /\ slabs' = (chain' # <<>>)
        /\ free' = free \ ToSet(pages)
        /\ IF Len(pages) < n THEN Fail(fl) ELSE UNCHANGED status
    BY DEF slab_cache_grow
  <1>1. status' \in {"run", "panic"}
    BY <1>0, FailStatus
  <1>2. GoodGrowth(chain', chain, pages, free)
    BY <1>0, GrowStep
  <1> HIDE DEF pages
  <1>3. /\ \A b : b \in live \/ OnList(b, chain) =>
             Page(b) \notin free \cup other \cup {cache}
        /\ free \cap other = {} /\ cache \notin free \cup other
        /\ \A k \in DOMAIN chain : chain[k].page \notin free \cup other \cup {cache}
    BY <1>0 DEF ListInv
  <1>4. \A b : b \in live' \/ OnList(b, chain') =>
           Page(b) \notin free' \cup other' \cup {cache'}
    BY <1>0, <1>2, <1>3 DEF GoodGrowth
  <1>5. free' \cap other' = {} /\ cache' \notin free' \cup other'
    BY <1>0, <1>3
  <1>6. \A k \in DOMAIN chain' : chain'[k].page \notin free' \cup other' \cup {cache'}
    BY <1>0, <1>2, <1>3 DEF GoodGrowth
  <1>7. \A b \in live' : ~ OnList(b, chain')
    BY <1>0, <1>2 DEF GoodGrowth
  <1>8. Counted(chain') /\ NoneTwice(chain')
    BY <1>2 DEF GoodGrowth
  <1>9. /\ free' \subseteq Frames /\ other' \subseteq Frames
        /\ cache' \in Frames \cup {NULL} /\ slabs' \in BOOLEAN
        /\ live' \subseteq Buffers
    BY <1>0 DEF ListInv
  <1> QED
    BY <1>1, <1>4, <1>5, <1>6, <1>7, <1>8, <1>9 DEF ListInv

\* The freelist a buffer is taken from has one, and the chain it leaves has
\* exact counts, distinct buffers and none of the live ones.
LEMMA PopStep ==
  ASSUME NEW ch, Counted(ch), NoneTwice(ch), FirstFree(ch) # 0,
         Pop(ch, FirstFree(ch)),
         live \subseteq Buffers, \A b \in live : ~ OnList(b, ch)
  PROVE  /\ Counted(chain') /\ NoneTwice(chain')
         /\ live' \subseteq Buffers /\ slabs' = TRUE
         /\ \A b \in live' : ~ OnList(b, chain')
         /\ \A b : OnList(b, ch) <=> OnList(b, chain') \/ b \in live' \ live
         /\ \A b \in live' : b \in live \/ OnList(b, ch)
         /\ DOMAIN chain' = DOMAIN ch
         /\ \A j \in DOMAIN ch : chain'[j].page = ch[j].page
  <1> DEFINE k == FirstFree(ch)
             h == Head(ch[k].freelist)
  <1>1. ch \in Seq(Slabs)
    BY DEF Counted
  <1>2. k \in DOMAIN ch /\ ch[k].freelist # <<>>
    BY <1>1, FirstFreeFound
  <1>3. /\ chain' = Popped(ch, k)
        /\ live' = live \cup {h} /\ slabs' = TRUE
    BY DEF Pop, Popped
  <1> HIDE DEF k
  <1>4. /\ Counted(chain') /\ NoneTwice(chain')
        /\ h \in Buffers /\ OnList(h, ch)
        /\ \A b : OnList(b, chain') => OnList(b, ch) /\ b # h
        /\ \A b : OnList(b, ch) => OnList(b, chain') \/ b = h
        /\ DOMAIN chain' = DOMAIN ch
        /\ \A j \in DOMAIN ch : chain'[j].page = ch[j].page
    BY <1>2, <1>3, PopChain
  <1> HIDE DEF h
  <1>5. h \notin live
    BY <1>4
  <1> QED
    BY <1>3, <1>4, <1>5

\* slab_cache_alloc moves one buffer from a freelist to the caller, after
\* growing the chain where every freelist is empty.
LEMMA AllocStep ==
  ASSUME ListInv, NEW fl, slab_cache_alloc(fl) PROVE ListInv'
  <1> DEFINE k == FirstFree(chain)
             pages == Taken(1, free)
             grown == Grown(chain, pages)
  <1>0. status = "run" /\ UNCHANGED <<other, cache>>
    BY DEF slab_cache_alloc
  <1>1. /\ Counted(chain) /\ NoneTwice(chain) /\ live \subseteq Buffers
        /\ free \subseteq Frames /\ other \subseteq Frames
        /\ cache \in Frames \cup {NULL} /\ slabs \in BOOLEAN
        /\ \A b \in live : ~ OnList(b, chain)
        /\ \A b : b \in live \/ OnList(b, chain) =>
             Page(b) \notin free \cup other \cup {cache}
        /\ free \cap other = {} /\ cache \notin free \cup other
        /\ \A j \in DOMAIN chain : chain[j].page \notin free \cup other \cup {cache}
    BY <1>0 DEF ListInv
  <1>2. CASE k # 0 /\ Pop(chain, k) /\ UNCHANGED <<free, status>>
    <2>1. /\ Counted(chain') /\ NoneTwice(chain')
          /\ live' \subseteq Buffers /\ slabs' = TRUE
          /\ \A b \in live' : ~ OnList(b, chain')
          /\ \A b : OnList(b, chain) <=> OnList(b, chain') \/ b \in live' \ live
          /\ \A b \in live' : b \in live \/ OnList(b, chain)
          /\ DOMAIN chain' = DOMAIN chain
          /\ \A j \in DOMAIN chain : chain'[j].page = chain[j].page
      BY <1>1, <1>2, PopStep
    <2> HIDE DEF k
    <2>2. \A b : b \in live' \/ OnList(b, chain') =>
              Page(b) \notin free' \cup other' \cup {cache'}
      BY <1>0, <1>1, <1>2, <2>1
    <2>3. \A j \in DOMAIN chain' : chain'[j].page \notin free' \cup other' \cup {cache'}
      BY <1>0, <1>1, <1>2, <2>1
    <2> QED
      BY <1>0, <1>1, <1>2, <2>1, <2>2, <2>3 DEF ListInv
  <1>3. CASE /\ FirstFree(grown) # 0 /\ Pop(grown, FirstFree(grown))
             /\ free' = free \ ToSet(pages) /\ UNCHANGED status
    <2>1. GoodGrowth(grown, chain, pages, free)
      BY <1>0, GrowStep
    <2> HIDE DEF pages, grown
    <2>2. /\ Counted(grown) /\ NoneTwice(grown)
          /\ \A b \in live : ~ OnList(b, grown)
      BY <2>1 DEF GoodGrowth
    <2>3. /\ Counted(chain') /\ NoneTwice(chain')
          /\ live' \subseteq Buffers /\ slabs' = TRUE
          /\ \A b \in live' : ~ OnList(b, chain')
          /\ \A b : OnList(b, grown) <=> OnList(b, chain') \/ b \in live' \ live
          /\ \A b \in live' : b \in live \/ OnList(b, grown)
          /\ DOMAIN chain' = DOMAIN grown
          /\ \A j \in DOMAIN grown : chain'[j].page = grown[j].page
      BY <1>1, <1>3, <2>2, PopStep
    <2>4. \A b : OnList(b, grown) => Page(b) \notin free' \cup other \cup {cache}
      BY <1>1, <1>3, <2>1 DEF GoodGrowth
    <2>5. \A b : b \in live' \/ OnList(b, chain') =>
              Page(b) \notin free' \cup other' \cup {cache'}
      <3>1. \A b : b \in live' \/ OnList(b, chain') => b \in live \/ OnList(b, grown)
        BY <2>3
      <3> QED
        BY <1>0, <1>1, <1>3, <2>4, <3>1
    <2>6. \A j \in DOMAIN grown : grown[j].page \notin free' \cup other \cup {cache}
      BY <1>1, <1>3, <2>1 DEF GoodGrowth
    <2>7. \A j \in DOMAIN chain' : chain'[j].page \notin free' \cup other' \cup {cache'}
      BY <1>0, <2>3, <2>6
    <2> QED
      BY <1>0, <1>1, <1>3, <2>3, <2>5, <2>7 DEF ListInv
  <1>4. CASE /\ status' = IF "PANIC" \in fl THEN "panic" ELSE "hung"
             /\ UNCHANGED <<free, chain, slabs, live>>
    BY <1>0, <1>1, <1>4 DEF ListInv
  <1>5. CASE slabs' = FALSE /\ Fail(fl) /\ UNCHANGED <<free, chain, live>>
    <2>1. status' \in {"run", "panic"}
      BY <1>0, <1>5, FailStatus
    <2> QED
      BY <1>0, <1>1, <1>5, <2>1 DEF ListInv
  <1> QED
    BY <1>2, <1>3, <1>4, <1>5 DEF slab_cache_alloc

\* slab_cache_free puts the buffer on the freelist of the first slab with
\* room, which need not be its own; it is on no freelist before.
LEMMA FreeStep ==
  ASSUME ListInv, NEW fl, NEW b \in live, slab_cache_free(b, fl) PROVE ListInv'
  <1> DEFINE k == SelectInSeq(chain, LAMBDA s : s.bufctl_count < bufctl_count_max)
  <1>0. /\ status = "run" /\ live' = live \ {b} /\ UNCHANGED <<free, other, cache>>
        /\ slabs' = (k # 0)
        /\ IF k # 0
           THEN chain' = Pushed(chain, k, b) /\ UNCHANGED status
           ELSE Fail(fl) /\ UNCHANGED chain
    BY DEF slab_cache_free, Pushed
  <1>1. /\ Counted(chain) /\ NoneTwice(chain) /\ live \subseteq Buffers
        /\ free \subseteq Frames /\ other \subseteq Frames
        /\ cache \in Frames \cup {NULL}
        /\ \A c \in live : ~ OnList(c, chain)
        /\ \A c : c \in live \/ OnList(c, chain) =>
             Page(c) \notin free \cup other \cup {cache}
        /\ free \cap other = {} /\ cache \notin free \cup other
        /\ \A j \in DOMAIN chain : chain[j].page \notin free \cup other \cup {cache}
    BY <1>0 DEF ListInv
  <1>2. chain \in Seq(Slabs)
    BY <1>1 DEF Counted
  <1>3. k # 0 => k \in DOMAIN chain /\ chain[k].bufctl_count < bufctl_count_max
    BY <1>2, FirstRoomFound
  <1> HIDE DEF k
  <1>4. CASE k = 0
    <2>1. status' \in {"run", "panic"} /\ UNCHANGED chain
      BY <1>0, <1>4, FailStatus
    <2> QED
      BY <1>0, <1>1, <2>1 DEF ListInv
  <1>5. CASE k # 0
    <2>1. /\ Counted(chain') /\ NoneTwice(chain')
          /\ \A c : OnList(c, chain') => OnList(c, chain) \/ c = b
          /\ DOMAIN chain' = DOMAIN chain
          /\ \A j \in DOMAIN chain : chain'[j].page = chain[j].page
      BY <1>0, <1>1, <1>3, <1>5, PushChain
    <2>2. \A c \in live' : ~ OnList(c, chain')
      BY <1>0, <1>1, <2>1
    <2>3. \A c : c \in live' \/ OnList(c, chain') =>
              Page(c) \notin free' \cup other' \cup {cache'}
      BY <1>0, <1>1, <2>1
    <2>4. \A j \in DOMAIN chain' : chain'[j].page \notin free' \cup other' \cup {cache'}
      BY <1>0, <1>1, <2>1
    <2> QED
      BY <1>0, <1>1, <1>5, <2>1, <2>2, <2>3, <2>4 DEF ListInv
  <1> QED
    BY <1>4, <1>5

\* When nothing points into the pages P, no buffer and no slab is in them.
LEMMA UnusedPages ==
  ASSUME NEW P, NEW ch, ~ StillUsed(P, ch)
  PROVE  /\ \A b : b \in live \/ OnList(b, ch) => Page(b) \notin P
         /\ \A k \in DOMAIN ch : ch[k].page \notin P
  <1>1. \A k \in DOMAIN ch : \A m \in DOMAIN ch[k].freelist :
           ch[k].freelist[m] \in ToSet(ch[k].freelist)
    BY DEF ToSet
  <1>2. \A b \in live : Page(b) \notin P
    BY DEF StillUsed
  <1>3. \A k \in DOMAIN ch : /\ ch[k].page \notin P
                             /\ \A b \in ToSet(ch[k].freelist) : Page(b) \notin P
    BY DEF StillUsed
  <1>4. \A b : OnList(b, ch) => Page(b) \notin P
    BY <1>1, <1>3 DEF OnList
  <1> QED
    BY <1>2, <1>3, <1>4

\* The slabs slab_cache_reap leaves: those that are not full, in order.
Kept(ch) == InOrder({k \in DOMAIN ch : ~ Full(ch[k])})
Left(ch) == [j \in DOMAIN Kept(ch) |-> ch[Kept(ch)[j]]]

\* They are slabs of the chain, none of them full, and they stay counted and
\* without a repeated buffer.
LEMMA ReapLeft ==
  ASSUME Counted(chain), NoneTwice(chain),
         NEW kept, kept = Kept(chain), NEW left, left = Left(chain)
  PROVE  /\ Counted(left) /\ NoneTwice(left)
         /\ \A b : OnList(b, left) => OnList(b, chain)
         /\ \A k \in DOMAIN left : \E j \in DOMAIN chain : left[k] = chain[j]
         /\ \A k \in DOMAIN left : ~ Full(left[k])
  <1> DEFINE K == {k \in DOMAIN chain : ~ Full(chain[k])}
             n == Cardinality(K)
  <1>1. chain \in Seq(Slabs) /\ Len(chain) \in Nat /\ DOMAIN chain = 1 .. Len(chain)
    BY DEF Counted
  <1>2. K \in SUBSET (1 .. Len(chain)) /\ K \in SUBSET Nat
    BY <1>1
  <1>a. kept = InOrder(K)
    BY DEF Kept
  <1>b. \A k \in K : k \in DOMAIN chain /\ ~ Full(chain[k])
    OBVIOUS
  <1> HIDE DEF K
  <1>3. IsFiniteSet(K)
    <2>1. IsFiniteSet(1 .. Len(chain))
      BY <1>1, FS_Interval
    <2> QED
      BY <1>2, <2>1, FS_Subset
  <1>4. /\ n \in Nat /\ DOMAIN kept = 1 .. n
        /\ \A j \in 1 .. n : kept[j] \in K
        /\ \A j, k \in 1 .. n : kept[j] = kept[k] => j = k
    BY <1>2, <1>3, <1>a, InOrderIsNumbering
  <1>5. kept = [j \in 1 .. n |-> kept[j]]
    BY <1>a DEF InOrder
  <1>6. kept \in [1 .. n -> DOMAIN chain]
    BY <1>4, <1>5, <1>b
  <1>7. left = [j \in 1 .. n |-> chain[kept[j]]]
    BY <1>4 DEF Left
  <1> HIDE DEF n
  <1>8. /\ Counted(left) /\ NoneTwice(left)
        /\ \A b : OnList(b, left) => OnList(b, chain)
        /\ \A k \in DOMAIN left : \E j \in DOMAIN chain : left[k] = chain[j]
    BY <1>4, <1>6, <1>7, KeptChain
  <1>9. \A k \in DOMAIN left : ~ Full(left[k])
    BY <1>4, <1>7, <1>b
  <1> QED
    BY <1>8, <1>9

\* slab_cache_reap gives back pages; where a buffer of one of them is still
\* held or listed the state is corrupt, and is not claimed to be backed.
LEMMA ReapStep == ASSUME ListInv, slab_cache_reap PROVE ListInv'
  <1> DEFINE left == Left(chain)
             freed == {s.page : s \in {t \in ToSet(chain) : Full(t)}}
  <1>0. /\ status = "run" /\ UNCHANGED <<other, cache, live>>
        /\ chain' = left /\ slabs' = (left # <<>>)
        /\ free' = free \cup freed
        /\ status' = IF StillUsed(freed, left) THEN "corrupt" ELSE status
    BY DEF slab_cache_reap, Left, Kept
  <1>1. /\ Counted(chain) /\ NoneTwice(chain) /\ live \subseteq Buffers
        /\ free \subseteq Frames /\ other \subseteq Frames
        /\ cache \in Frames \cup {NULL}
        /\ \A c \in live : ~ OnList(c, chain)
        /\ \A c : c \in live \/ OnList(c, chain) =>
             Page(c) \notin free \cup other \cup {cache}
        /\ free \cap other = {} /\ cache \notin free \cup other
        /\ \A j \in DOMAIN chain : chain[j].page \notin free \cup other \cup {cache}
    BY <1>0 DEF ListInv
  <1>2. /\ Counted(left) /\ NoneTwice(left)
        /\ \A b : OnList(b, left) => OnList(b, chain)
        /\ \A k \in DOMAIN left : \E j \in DOMAIN chain : left[k] = chain[j]
    BY <1>1, ReapLeft
  <1>3. \A p \in freed : p \in Frames /\ \E j \in DOMAIN chain : p = chain[j].page
    <2>1. \A s \in ToSet(chain) : \E j \in DOMAIN chain : s = chain[j]
      BY DEF ToSet
    <2>2. \A j \in DOMAIN chain : chain[j].page \in Frames
      BY <1>1, SlabFields DEF Counted
    <2> QED
      BY <2>1, <2>2
  <1> HIDE DEF left, freed
  <1>4. free' \subseteq Frames /\ \A b \in live' : ~ OnList(b, chain')
    BY <1>0, <1>1, <1>2, <1>3
  <1>5. free' \cap other' = {} /\ cache' \notin free' \cup other'
    BY <1>0, <1>1, <1>3
  <1>6. CASE StillUsed(freed, left)
    BY <1>0, <1>1, <1>2, <1>4, <1>6 DEF ListInv
  <1>7. CASE ~ StillUsed(freed, left)
    <2>1. /\ \A b : b \in live \/ OnList(b, left) => Page(b) \notin freed
          /\ \A k \in DOMAIN left : left[k].page \notin freed
      BY <1>7, UnusedPages
    <2>2. \A b : b \in live' \/ OnList(b, chain') =>
              Page(b) \notin free' \cup other' \cup {cache'}
      BY <1>0, <1>1, <1>2, <2>1
    <2>3. \A k \in DOMAIN chain' : chain'[k].page \notin free' \cup other' \cup {cache'}
      BY <1>0, <1>1, <1>2, <2>1
    <2> QED
      BY <1>0, <1>1, <1>2, <1>4, <1>5, <1>7, <2>2, <2>3 DEF ListInv
  <1> QED
    BY <1>6, <1>7

\* The pages slab_cache_destroy gives back are pages of buffers that are on a
\* freelist: a full slab has a first free buffer.
GivenBack(ch) ==
    LET k == FirstInUse(ch)
        done == IF k = 0 THEN ch ELSE SubSeq(ch, 1, k - 1)
    IN {Page(Head(s.freelist)) : s \in ToSet(done)}

\* Each page given back is the page of a listed buffer.
LEMMA DestroyFreed ==
  ASSUME Counted(chain),
         NEW k, k = FirstInUse(chain),
         NEW freed, freed = GivenBack(chain)
  PROVE  \A p \in freed : p \in Frames /\ \E b : OnList(b, chain) /\ Page(b) = p
  <1> DEFINE done == IF k = 0 THEN chain ELSE SubSeq(chain, 1, k - 1)
  <1>a. freed = {Page(Head(s.freelist)) : s \in ToSet(done)}
    BY DEF GivenBack
  <1>0. chain \in Seq(Slabs) /\ Len(chain) \in Nat /\ DOMAIN chain = 1 .. Len(chain)
    BY DEF Counted
  <1>1. \/ /\ k \in 1 .. Len(chain) /\ ~ Full(chain[k])
           /\ \A j \in 1 .. (k - 1) : Full(chain[j])
        \/ k = 0 /\ \A j \in DOMAIN chain : Full(chain[j])
    BY <1>0, FirstInUseFound
  <1>2. \A s \in ToSet(done) : \E j \in DOMAIN chain : s = chain[j] /\ Full(chain[j])
    <2>1. CASE k = 0
      <3>1. done = chain
        BY <2>1
      <3> HIDE DEF done
      <3> QED
        BY <1>0, <1>1, <2>1, <3>1 DEF ToSet
    <2>2. CASE k # 0
      <3>1. k \in 1 .. Len(chain) /\ \A j \in 1 .. (k - 1) : Full(chain[j])
        BY <1>1, <2>2
      <3>2. done = SubSeq(chain, 1, k - 1)
        BY <2>2
      <3> HIDE DEF done
      <3>a. k \in Nat /\ k - 1 \in Nat /\ k - 1 <= Len(chain)
        BY <1>0, <3>1
      <3>3. DOMAIN done = 1 .. (k - 1) /\ \A j \in 1 .. (k - 1) : done[j] = chain[j]
        BY <1>0, <3>a, <3>2
      <3>4. \A j \in 1 .. (k - 1) : j \in DOMAIN chain
        BY <1>0, <3>1
      <3> QED
        BY <3>1, <3>3, <3>4 DEF ToSet
    <2> QED
      BY <2>1, <2>2
  <1>3. ASSUME NEW j \in DOMAIN chain, Full(chain[j])
        PROVE  /\ OnList(Head(chain[j].freelist), chain)
               /\ Page(Head(chain[j].freelist)) \in Frames
    <2> DEFINE fl == chain[j].freelist
    <2>1. Len(fl) = bufctl_count_max /\ fl \in Seq(Buffers)
      BY <1>0, <1>3, SlabFields DEF Counted, Full
    <2>2. 1 \in DOMAIN fl /\ Head(fl) = fl[1] /\ fl[1] \in Buffers
      BY <2>1, SlabAssumption
    <2>3. Page(fl[1]) \in Frames
      BY <2>2 DEF Buffers, Page
    <2> QED
      BY <2>2, <2>3 DEF OnList
  <1> HIDE DEF done
  <1> QED
    BY <1>a, <1>2, <1>3

\* slab_cache_destroy gives back the pages of the full slabs it meets before
\* the first one in use, whether or not it gets to the end of the chain.
LEMMA DestroyStep ==
  ASSUME ListInv, NEW fl, slab_cache_destroy(fl) PROVE ListInv'
  <1> DEFINE k == FirstInUse(chain)
             freed == GivenBack(chain)
  <1>0. /\ status = "run" /\ cache # NULL /\ UNCHANGED <<other, live>>
        /\ slabs' = (k # 0)
        /\ IF k = 0
           THEN /\ cache' = NULL /\ chain' = <<>>
                /\ free' = free \cup freed \cup {cache}
                /\ status' = IF StillUsed(freed, <<>>) THEN "corrupt" ELSE status
           ELSE /\ UNCHANGED <<cache, chain>>
                /\ free' = free \cup freed
                /\ IF StillUsed(freed, chain) THEN status' = "corrupt"
                                              ELSE Fail(fl)
    BY DEF slab_cache_destroy, FirstInUse, GivenBack
  <1>1. /\ Counted(chain) /\ NoneTwice(chain) /\ live \subseteq Buffers
        /\ free \subseteq Frames /\ other \subseteq Frames
        /\ cache \in Frames \cup {NULL}
        /\ \A c \in live : ~ OnList(c, chain)
        /\ \A c : c \in live \/ OnList(c, chain) =>
             Page(c) \notin free \cup other \cup {cache}
        /\ free \cap other = {} /\ cache \notin free \cup other
        /\ \A j \in DOMAIN chain : chain[j].page \notin free \cup other \cup {cache}
    BY <1>0 DEF ListInv
  <1>2. \A p \in freed : p \in Frames /\ \E b : OnList(b, chain) /\ Page(b) = p
    BY <1>1, DestroyFreed
  <1> HIDE DEF k, freed
  <1>3. \A p \in freed : p \in Frames /\ p \notin free \cup other \cup {cache}
    BY <1>1, <1>2
  <1>4. CASE k = 0
    <2>1. Counted(<<>>) /\ NoneTwice(<<>>) /\ \A b : ~ OnList(b, <<>>)
      BY DEF Counted, NoneTwice, OnList
    <2>2. NULL \notin Frames
      BY SlabAssumption DEF NULL
    <2>3. /\ chain' = <<>> /\ cache' = NULL /\ free' = free \cup freed \cup {cache}
          /\ free' \subseteq Frames /\ other' = other /\ live' = live
          /\ slabs' = FALSE
      BY <1>0, <1>1, <1>3, <1>4
    <2>4. free' \cap other' = {} /\ cache' \notin free' \cup other'
      BY <1>1, <1>3, <2>2, <2>3
    <2>5. \A j \in DOMAIN chain' : FALSE
      BY <2>3
    <2>6. CASE StillUsed(freed, <<>>)
      BY <1>0, <1>1, <1>4, <2>1, <2>3, <2>6 DEF ListInv
    <2>7. CASE ~ StillUsed(freed, <<>>)
      <3>1. \A b \in live : Page(b) \notin freed /\ Page(b) \in Frames
        <4>1. \A b \in Buffers : Page(b) \in Frames
          BY DEF Buffers, Page
        <4> QED
          BY <1>1, <2>7, <4>1, UnusedPages
      <3>2. \A b : b \in live' \/ OnList(b, chain') =>
               Page(b) \notin free' \cup other' \cup {cache'}
        BY <1>1, <2>1, <2>2, <2>3, <3>1
      <3> QED
        BY <1>0, <1>1, <1>4, <2>1, <2>3, <2>4, <2>5, <2>7, <3>2 DEF ListInv
    <2> QED
      BY <2>6, <2>7
  <1>5. CASE k # 0
    <2>1. /\ UNCHANGED <<cache, chain, other, live>> /\ free' = free \cup freed
          /\ free' \subseteq Frames /\ slabs' = TRUE
      BY <1>0, <1>1, <1>3, <1>5
    <2>2. free' \cap other' = {} /\ cache' \notin free' \cup other'
      BY <1>1, <1>3, <2>1
    <2>3. CASE StillUsed(freed, chain)
      BY <1>0, <1>1, <1>5, <2>1, <2>3 DEF ListInv
    <2>4. CASE ~ StillUsed(freed, chain)
      <3>1. status' \in {"run", "panic"}
        BY <1>0, <1>5, <2>4, FailStatus
      <3>2. /\ \A b : b \in live \/ OnList(b, chain) => Page(b) \notin freed
            /\ \A j \in DOMAIN chain : chain[j].page \notin freed
        BY <2>4, UnusedPages
      <3>3. /\ \A b : b \in live' \/ OnList(b, chain') =>
                  Page(b) \notin free' \cup other' \cup {cache'}
            /\ \A j \in DOMAIN chain' :
                  chain'[j].page \notin free' \cup other' \cup {cache'}
        BY <1>1, <2>1, <3>2
      <3> QED
        BY <1>1, <2>1, <2>2, <3>1, <3>3 DEF ListInv
    <2> QED
      BY <2>3, <2>4
  <1> QED
    BY <1>4, <1>5

\* Other parts of the kernel take and give back frames of their own.
LEMMA OtherSteps ==
  ASSUME ListInv, OtherAlloc \/ \E p \in other : OtherFree(p)
  PROVE  ListInv'
  <1>0. /\ status = "run" /\ UNCHANGED <<cache, chain, slabs, live, status>>
    BY DEF OtherAlloc, OtherFree
  <1>1. PICK p \in free \cup other :
           \/ free' = free \ {p} /\ other' = other \cup {p}
           \/ free' = free \cup {p} /\ other' = other \ {p}
    <2>1. CASE OtherAlloc
      <3>1. free # {} /\ free \in SUBSET Frames
        BY <2>1 DEF OtherAlloc, ListInv
      <3>2. free \in SUBSET Nat /\ IsFiniteSet(free)
        BY <3>1, SlabAssumption, FS_Subset
      <3>3. Min(free) \in free
        BY <3>1, <3>2, MinIsLeast
      <3> QED
        BY <2>1, <3>3 DEF OtherAlloc
    <2>2. CASE \E p \in other : OtherFree(p)
      BY <2>2 DEF OtherFree
    <2> QED
      BY <2>1, <2>2
  <1>2. /\ Counted(chain) /\ NoneTwice(chain) /\ live \subseteq Buffers
        /\ free \subseteq Frames /\ other \subseteq Frames
        /\ cache \in Frames \cup {NULL} /\ slabs \in BOOLEAN
        /\ \A c \in live : ~ OnList(c, chain)
        /\ \A c : c \in live \/ OnList(c, chain) =>
             Page(c) \notin free \cup other \cup {cache}
        /\ free \cap other = {} /\ cache \notin free \cup other
        /\ \A j \in DOMAIN chain : chain[j].page \notin free \cup other \cup {cache}
    BY <1>0 DEF ListInv
  <1>3. /\ free' \cup other' = free \cup other /\ free' \cap other' = {}
        /\ free' \subseteq Frames /\ other' \subseteq Frames
    BY <1>1, <1>2
  <1> QED
    BY <1>0, <1>2, <1>3 DEF ListInv

\* Every step keeps the invariant.
LEMMA ListStep == ListInv /\ [Next]_vars => ListInv'
  <1> SUFFICES ASSUME ListInv, [Next]_vars PROVE ListInv'
    OBVIOUS
  <1>1. ASSUME NEW fl \in FlagSets, slab_cache_create(fl) PROVE ListInv'
    BY <1>1, CreateStep
  <1>2. ASSUME NEW fl \in FlagSets, slab_cache_alloc(fl) PROVE ListInv'
    BY <1>2, AllocStep
  <1>3. ASSUME NEW fl \in FlagSets, slab_cache_dump(fl) PROVE ListInv'
    <2>1. /\ status = "run" /\ slabs' = FALSE
          /\ UNCHANGED <<free, other, cache, chain, live>>
      BY <1>3 DEF slab_cache_dump
    <2>2. status' \in {"run", "panic"}
      BY <1>3, FailStatus DEF slab_cache_dump
    <2> QED
      BY <2>1, <2>2 DEF ListInv
  <1>4. ASSUME NEW fl \in FlagSets, NoCache(fl) PROVE ListInv'
    <2>1. status = "run" /\ UNCHANGED <<free, other, cache, chain, slabs, live>>
      BY <1>4 DEF NoCache
    <2>2. status' \in {"run", "panic"}
      BY <1>4, FailStatus DEF NoCache
    <2> QED
      BY <2>1, <2>2 DEF ListInv
  <1>5. ASSUME NEW fl \in FlagSets, NEW b \in live, slab_cache_free(b, fl)
        PROVE  ListInv'
    BY <1>5, FreeStep
  <1>6. ASSUME NEW fl \in FlagSets, NEW n \in GrowCounts, slab_cache_grow(n, fl)
        PROVE  ListInv'
    BY <1>6, GrowCallStep, SlabAssumption
  <1>7. ASSUME NEW fl \in FlagSets, slab_cache_destroy(fl) PROVE ListInv'
    BY <1>7, DestroyStep
  <1>8. CASE slab_cache_reap
    BY <1>8, ReapStep
  <1>9. CASE OtherAlloc \/ \E p \in other : OtherFree(p)
    BY <1>9, OtherSteps
  <1>10. CASE UNCHANGED vars
    BY <1>10 DEF vars, ListInv
  <1> QED
    BY <1>1, <1>2, <1>3, <1>4, <1>5, <1>6, <1>7, <1>8, <1>9, <1>10 DEF Next

\* The invariant holds in every reachable state.
LEMMA Invariance == Spec => []SlabInv
  <1>1. Spec => []ListInv
    BY ListInit, ListStep, PTL DEF Spec
  <1> QED
    BY <1>1, ListForm, PTL

\* The types of the state: the counts never leave the naturals, although
\* slab_cache_alloc decrements them without a test, and every buffer named
\* by a freelist or a caller is one of a frame.
THEOREM TypeCorrect == Spec => []TypeOK
  <1>1. SlabInv => TypeOK
    BY DEF SlabInv
  <1> QED
    BY <1>1, Invariance, PTL

\* No buffer is handed out twice, for every mix of calls, although free puts
\* a buffer on the list of a slab that need not be its own, grow drops slabs
\* whose buffers are still out and reap gives back pages by count.
THEOREM BuffersExclusive == Spec => []BufferExclusive
  <1>1. SlabInv => BufferExclusive
    BY DEF SlabInv
  <1> QED
    BY <1>1, Invariance, PTL

\* bufctl_count, which slab_cache_free, reap and destroy decide by, is always
\* the length of the slab's freelist.
THEOREM CountsExact == Spec => []BufctlCountExact
  <1>1. SlabInv => BufctlCountExact
    BY DEF SlabInv
  <1> QED
    BY <1>1, Invariance, PTL

\* Until a page is given back too early, no page of a buffer that is out or
\* may be handed out is free, another part's or the cache descriptor.
THEOREM PagesBacked == Spec => []BuffersBacked
  <1>1. SlabInv => BuffersBacked
    BY DEF SlabInv
  <1> QED
    BY <1>1, Invariance, PTL

-----------------------------------------------------------------------------
(* When slab_cache_alloc calls itself again without end.                   *)

\* When no slab of a chain has a free buffer none is available.
LEMMA NoneFree ==
  ASSUME chain \in Seq(Slabs), FirstFree(chain) = 0
  PROVE  Available = {}
  <1>1. \A k \in DOMAIN chain : chain[k].freelist = <<>>
    BY FirstFreeFound
  <1>2. \A b : ~ OnList(b, chain)
    BY <1>1 DEF OnList
  <1> QED
    BY <1>2, AvailableOnList

\* slab_cache_alloc loops only when there is neither a frame nor a buffer
\* left: a slab it has just grown serves it.
THEOREM AllocTerminates == Spec => []AllocEnds
  <1>1. Init => AllocEnds
    BY DEF Init, AllocEnds
  <1>2. SlabInv /\ AllocEnds /\ [Next]_vars => AllocEnds'
    <2> SUFFICES ASSUME SlabInv, AllocEnds, [Next]_vars, status' = "hung"
                 PROVE  free' = {} /\ Available' = {}
      BY DEF AllocEnds
    <2>0. ListInv
      BY ListForm
    <2>1. CASE UNCHANGED vars
      BY <2>1 DEF vars, AllocEnds, Available
    <2>2. ASSUME NEW fl \in FlagSets, slab_cache_alloc(fl)
          PROVE  free' = {} /\ Available' = {}
      <3> DEFINE pages == Taken(1, free)
                 grown == Grown(chain, pages)
      <3>0. status = "run" /\ chain \in Seq(Slabs) /\ free \subseteq Frames
        BY <2>0, <2>2 DEF slab_cache_alloc, ListInv, Counted
      <3>1. /\ FirstFree(chain) = 0 /\ FirstFree(grown) = 0
            /\ UNCHANGED <<free, chain>>
        BY <2>2, <3>0 DEF slab_cache_alloc, Fail
      <3>2. GoodGrowth(grown, chain, pages, free)
        BY <2>0, <3>0, GrowStep
      <3>3. free # {} => pages # <<>>
        <4>1. free \in SUBSET Frames /\ 1 \in Nat /\ 1 # 0
          BY <3>0
        <4> QED
          BY <4>1, TakenFrames
      <3> HIDE DEF pages, grown
      <3>4. grown \in Seq(Slabs)
        BY <3>2 DEF GoodGrowth, Counted
      <3>5. \A k \in DOMAIN grown : grown[k].freelist = <<>>
        BY <3>1, <3>4, FirstFreeFound
      <3>6. free = {}
        BY <3>2, <3>3, <3>5 DEF GoodGrowth
      <3>7. Available = {}
        BY <3>0, <3>1, NoneFree
      <3> QED
        BY <3>1, <3>6, <3>7 DEF Available
    <2>3. CASE ~ UNCHANGED vars /\ ~ \E fl \in FlagSets : slab_cache_alloc(fl)
      BY <2>3 DEF Next, slab_cache_create, slab_cache_dump, NoCache,
                  slab_cache_free, slab_cache_grow, slab_cache_destroy,
                  slab_cache_reap, OtherAlloc, OtherFree, Fail
    <2> QED
      BY <2>1, <2>2, <2>3
  <1> QED
    BY <1>1, <1>2, Invariance, PTL DEF Spec

-----------------------------------------------------------------------------
(* What steps may never do.                                                *)

\* When a buffer is handed out, every other one that was available still is,
\* even when the call grows the cache and drops slabs from the chain.
THEOREM NothingStranded == Spec => AllocStrandsNothing
  <1> DEFINE Keeps == live' \ live # {} => Available \subseteq Available' \cup live'
  <1>1. SlabInv /\ [Next]_vars => [Keeps]_vars
    <2> SUFFICES ASSUME SlabInv, Next, live' \ live # {}
                 PROVE  Available \subseteq Available' \cup live'
      OBVIOUS
    <2>0. ListInv /\ ListInv'
      BY ListForm, ListStep
    <2>1. PICK fl \in FlagSets : slab_cache_alloc(fl)
      BY DEF Next, slab_cache_create, slab_cache_dump, NoCache,
             slab_cache_free, slab_cache_grow, slab_cache_destroy,
             slab_cache_reap, OtherAlloc, OtherFree
    <2>2. /\ Counted(chain) /\ NoneTwice(chain) /\ live \subseteq Buffers
          /\ \A b \in live : ~ OnList(b, chain)
          /\ chain \in Seq(Slabs) /\ chain' \in Seq(Slabs)
      BY <2>0 DEF ListInv, Counted
    <2>3. CASE FirstFree(chain) # 0 /\ Pop(chain, FirstFree(chain))
      <3>1. \A b : OnList(b, chain) => OnList(b, chain') \/ b \in live'
        BY <2>2, <2>3, PopStep
      <3> QED
        BY <3>1, AvailableOnList
    <2>4. CASE FirstFree(chain) = 0
      BY <2>2, <2>4, NoneFree
    <2> QED
      BY <2>1, <2>3, <2>4 DEF slab_cache_alloc
  <1> QED
    BY <1>1, Invariance, PTL DEF Spec, AllocStrandsNothing

\* A full slab whose freelist holds only buffers of one page holds all of
\* them: as many distinct buffers as the page has.
LEMMA FullHoldsPage ==
  ASSUME NEW p \in Frames, NEW fl \in Seq(Buffers),
         Len(fl) = bufctl_count_max,
         \A m \in DOMAIN fl : Page(fl[m]) = p,
         \A m, n \in DOMAIN fl : fl[m] = fl[n] => m = n
  PROVE  \A b \in Buffers : Page(b) = p => \E m \in DOMAIN fl : fl[m] = b
  <1> DEFINE I == 1 .. bufctl_count_max
             B == {p} \X I
             idx == [m \in I |-> fl[m][2]]
  <1>0. bufctl_count_max \in Nat /\ DOMAIN fl = I
    BY SlabAssumption
  <1>1. \A b \in Buffers : b = <<Page(b), b[2]>> /\ b[2] \in I
    BY DEF Buffers, Page
  <1>2. \A m \in I : fl[m] \in Buffers /\ fl[m] = <<p, fl[m][2]>> /\ fl[m][2] \in I
    BY <1>0, <1>1
  <1>3. idx \in [I -> I] /\ \A m, n \in I : idx[m] = idx[n] => m = n
    <2>1. idx \in [I -> I]
      BY <1>2
    <2>2. ASSUME NEW m \in I, NEW n \in I, idx[m] = idx[n] PROVE m = n
      <3>1. fl[m][2] = fl[n][2]
        BY <2>2
      <3>2. fl[m] = <<p, fl[m][2]>> /\ fl[n] = <<p, fl[n][2]>>
        BY <1>2
      <3>3. fl[m] = fl[n]
        BY <3>1, <3>2
      <3> QED
        BY <1>0, <3>3
    <2> QED
      BY <2>1, <2>2
  <1>4. idx \in Injection(I, I)
    BY <1>3 DEF Injection, IsInjective
  <1>5. IsFiniteSet(I)
    BY <1>0, FS_Interval
  <1>6. idx \in Surjection(I, I)
    BY <1>4, <1>5, FS_Injection
  <1>7. \A j \in I : \E m \in I : fl[m][2] = j
    BY <1>6 DEF Surjection
  <1>8. ASSUME NEW b \in Buffers, Page(b) = p PROVE \E m \in DOMAIN fl : fl[m] = b
    <2>1. b = <<p, b[2]>> /\ b[2] \in I
      BY <1>1, <1>8
    <2>2. PICK m \in I : fl[m][2] = b[2]
      BY <1>7, <2>1
    <2>3. fl[m] = <<p, fl[m][2]>>
      BY <1>2
    <2>4. fl[m] = b
      BY <2>1, <2>2, <2>3
    <2> QED
      BY <1>0, <2>4
  <1> QED
    BY <1>8

\* With at most one slab in the chain, and no buffer of another page about, a
\* slab that counts as full has no buffer out.
LEMMA LoneFullSlab ==
  ASSUME ListInv, Len(chain) <= 1,
         \A b \in live \cup Available : Page(b) \in Reached,
         NEW j \in DOMAIN chain, Full(chain[j])
  PROVE  live = {} /\ DOMAIN chain = {j}
  <1> DEFINE fl == chain[j].freelist
             p == chain[j].page
  <1>a. chain \in Seq(Slabs) /\ Len(chain) \in Nat /\ DOMAIN chain = 1 .. Len(chain)
    BY DEF ListInv, Counted
  <1>b. Len(chain) = 1 /\ j = 1
    BY <1>a
  <1>0. /\ chain \in Seq(Slabs) /\ DOMAIN chain = {j} /\ live \subseteq Buffers
        /\ \A b \in live : ~ OnList(b, chain)
    BY <1>a, <1>b DEF ListInv
  <1>1. Reached = {p}
    BY <1>0 DEF Reached, ToSet
  <1>2. p \in Frames /\ fl \in Seq(Buffers) /\ Len(fl) = bufctl_count_max
    BY <1>0, SlabFields DEF ListInv, Counted, Full
  <1>3. \A m \in DOMAIN fl : OnList(fl[m], chain)
    BY DEF OnList
  <1>4. \A m \in DOMAIN fl : Page(fl[m]) = p
    BY <1>0, <1>1, <1>3, AvailableOnList
  <1>5. \A m, n \in DOMAIN fl : fl[m] = fl[n] => m = n
    BY DEF ListInv, NoneTwice
  <1> HIDE DEF fl, p
  <1>6. \A b \in Buffers : Page(b) = p => \E m \in DOMAIN fl : fl[m] = b
    BY <1>2, <1>4, <1>5, FullHoldsPage
  <1>7. \A b \in live : FALSE
    BY <1>0, <1>1, <1>3, <1>6
  <1> QED
    BY <1>0, <1>7

\* reap and destroy give back no page in use while the cache has at most one
\* slab and no buffer of another.
THEOREM ShrinkIsSafe == Spec => ShrinkSafe
  <1> DEFINE Alone == /\ Len(chain) <= 1
                      /\ \A b \in live \cup Available : Page(b) \in Reached
  <1>1. SlabInv /\ [Next]_vars => [Alone => status' # "corrupt"]_vars
    <2> SUFFICES ASSUME SlabInv, Next, Alone
                 PROVE  status' # "corrupt"
      OBVIOUS
    <2>0. ListInv
      BY ListForm
    <2>1. chain \in Seq(Slabs) /\ Len(chain) \in Nat /\ DOMAIN chain = 1 .. Len(chain)
      BY <2>0 DEF ListInv, Counted
    <2>2. \A j \in DOMAIN chain : Full(chain[j]) => live = {} /\ DOMAIN chain = {j}
      BY <2>0, LoneFullSlab
    <2>3. CASE slab_cache_reap
      <3> DEFINE left == Left(chain)
                 freed == {s.page : s \in {t \in ToSet(chain) : Full(t)}}
      <3>1. status = "run" /\ (status' = "corrupt" => StillUsed(freed, left))
        BY <2>3 DEF slab_cache_reap, Left, Kept
      <3>2. CASE \A j \in DOMAIN chain : ~ Full(chain[j])
        <4>1. freed = {}
          BY <3>2 DEF ToSet
        <4> HIDE DEF freed, left
        <4> QED
          BY <3>1, <4>1 DEF StillUsed
      <3>3. CASE \E j \in DOMAIN chain : Full(chain[j])
        <4>1. PICK j \in DOMAIN chain : Full(chain[j])
          BY <3>3
        <4>2. live = {} /\ DOMAIN chain = {j}
          BY <2>2, <4>1
        <4>3. /\ \A k \in DOMAIN left : \E i \in DOMAIN chain : left[k] = chain[i]
              /\ \A k \in DOMAIN left : ~ Full(left[k])
          BY <2>0, ReapLeft DEF ListInv
        <4>4. DOMAIN left = {}
          BY <4>1, <4>2, <4>3
        <4> HIDE DEF freed, left
        <4> QED
          BY <3>1, <4>2, <4>4 DEF StillUsed
      <3> QED
        BY <3>2, <3>3
    <2>4. ASSUME NEW fl \in FlagSets, slab_cache_destroy(fl)
          PROVE  status' # "corrupt"
      <3> DEFINE k == FirstInUse(chain)
                 freed == GivenBack(chain)
      <3>1. /\ status = "run"
            /\ status' = "corrupt" =>
                  IF k = 0 THEN StillUsed(freed, <<>>) ELSE StillUsed(freed, chain)
        BY <2>4 DEF slab_cache_destroy, FirstInUse, GivenBack, Fail
      <3>2. \/ /\ k \in 1 .. Len(chain) /\ ~ Full(chain[k])
               /\ \A j \in 1 .. (k - 1) : Full(chain[j])
            \/ k = 0 /\ \A j \in DOMAIN chain : Full(chain[j])
        BY <2>1, FirstInUseFound
      <3>3. freed = {Page(Head(s.freelist)) :
                        s \in ToSet(IF k = 0 THEN chain ELSE SubSeq(chain, 1, k - 1))}
        BY DEF GivenBack
      <3> HIDE DEF k, freed
      <3>4. CASE k = 0
        <4>1. CASE DOMAIN chain = {}
          <5>1. freed = {}
            BY <3>3, <3>4, <4>1 DEF ToSet
          <5> QED
            BY <3>1, <3>4, <5>1 DEF StillUsed
        <4>2. CASE DOMAIN chain # {}
          <5>0. PICK j \in DOMAIN chain : Full(chain[j])
            BY <3>2, <3>4, <4>2
          <5>1. live = {}
            BY <2>2, <5>0
          <5> QED
            BY <3>1, <3>4, <5>1 DEF StillUsed
        <4> QED
          BY <4>1, <4>2
      <3>5. CASE k # 0
        <4>1. k = 1
          BY <2>1, <3>2, <3>5
        <4>2. SubSeq(chain, 1, k - 1) = <<>>
          BY <4>1, SubSeqEmpty
        <4>3. ToSet(<<>>) = {}
          BY DEF ToSet
        <4>4. freed = {}
          BY <3>3, <3>5, <4>2, <4>3
        <4> QED
          BY <3>1, <3>5, <4>4 DEF StillUsed
      <3> QED
        BY <3>4, <3>5
    <2>5. CASE ~ slab_cache_reap /\ ~ \E fl \in FlagSets : slab_cache_destroy(fl)
      BY <2>5 DEF Next, slab_cache_create, slab_cache_dump, NoCache,
                  slab_cache_free, slab_cache_grow, slab_cache_alloc,
                  OtherAlloc, OtherFree, Fail
    <2> QED
      BY <2>3, <2>4, <2>5
  <1> QED
    BY <1>1, Invariance, PTL DEF Spec, ShrinkSafe
=============================================================================
