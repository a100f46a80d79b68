---------------------------- MODULE OutputProofs ----------------------------
(***************************************************************************)
(* Theorems about the kernel's output.  The serial log: for every kernel   *)
(* program, every length of its texts and any number of interrupts at any  *)
(* of its steps.  vsnprintf and its relatives: for every format, arguments *)
(* of the types that it names, and every count.                            *)
(***************************************************************************)
EXTENDS Serial, Printf, NumberSets

-----------------------------------------------------------------------------
(* Values.                                                                 *)

Who == {"main", "log", "irq", "exception"} \X Nat
Letter == Who \X (Parts \cup {"line"}) \X Nat
Deed == {"send", "format", "name_irq", "send_buf", "halt", "iret", "sti"}
Operation == [do : Deed, text : Seq(Letter)]
CallStates == [who : Who, todo : Seq(Operation), i : Nat, c : Letter \cup {None},
          ready : BOOLEAN]
Sending == [by : Who, c : Letter]
Buffers == {b \in [0 .. (BUF - 1) -> Letter \cup {Terminator}] : b[BUF - 1] = Terminator}

\* The main thread, and the handlers of the n-th interrupt.
MainThread == <<"main", 0>>
IrqCall(n) == <<"irq", n>>
ExceptionCall(n) == <<"exception", n>>

\* The terminator and the absence of a character are not characters, and an
\* empty holding register is not a character in it.
LEMMA NoLetter ==
  /\ Terminator \notin Letter /\ None \notin Letter /\ None \notin Sending
  <1>1. \A x \in Letter : DOMAIN x = 1 .. 3
    BY DEF Letter
  <1>2. DOMAIN Terminator = 1 .. 1 /\ DOMAIN None = 1 .. 0
    BY DEF Terminator, None
  <1>3. 1 .. 3 # 1 .. 1 /\ 1 .. 3 # 1 .. 0
    <2>1. 2 \in 1 .. 3 /\ 2 \notin 1 .. 1 /\ 2 \notin 1 .. 0
      OBVIOUS
    <2> QED
      BY <2>1
  <1>4. \A x \in Sending : DOMAIN x = {"by", "c"}
    BY DEF Sending
  <1>5. "by" \in {"by", "c"} /\ "by" \notin 1 .. 0
    OBVIOUS
  <1> QED
    BY <1>1, <1>2, <1>3, <1>4, <1>5

\* What SerialAssumption says of the lengths.
LEMMA Lengths ==
  /\ BUF \in Nat \ {0} /\ MaxIrqs \in Nat
  /\ \A p \in Parts : Size[p] \in 0 .. (BUF - 1)
  <1>1. "colour" \in Parts
    BY DEF Parts
  <1> QED
    BY <1>1, SerialAssumption

\* A text is a sequence of letters of its own.
LEMMA TextType ==
  ASSUME NEW w \in Who, NEW p \in Parts \cup {"line"}, NEW n \in Nat
  PROVE  /\ Text(w, p, n) \in Seq(Letter) /\ Len(Text(w, p, n)) = n
         /\ \A j \in 1 .. n : Text(w, p, n)[j] = <<w, p, j>>
  <1>1. \A j \in 1 .. n : <<w, p, j>> \in Letter
    BY DEF Letter
  <1> QED
    BY <1>1 DEF Text

-----------------------------------------------------------------------------
(* Sequences.                                                              *)

\* Putting an element in front.
LEMMA InFront ==
  ASSUME NEW S, NEW s \in Seq(S), NEW x \in S
  PROVE  /\ <<x>> \o s \in Seq(S) /\ Len(<<x>> \o s) = Len(s) + 1
         /\ <<x>> \o s # <<>> /\ Head(<<x>> \o s) = x /\ Tail(<<x>> \o s) = s
         /\ (<<x>> \o s)[1] = x /\ \A k \in 1 .. Len(s) : (<<x>> \o s)[k + 1] = s[k]
  <1> DEFINE t == <<x>> \o s
  <1>0. Len(s) \in Nat
    BY LenProperties
  <1>1. <<x>> \in Seq(S) /\ Len(<<x>>) = 1 /\ <<x>>[1] = x
    OBVIOUS
  <1>2. /\ t \in Seq(S) /\ Len(t) = 1 + Len(s)
        /\ \A i \in 1 .. 1 + Len(s) : t[i] = IF i <= 1 THEN <<x>>[i] ELSE s[i - 1]
    BY <1>1, ConcatProperties
  <1> HIDE DEF t
  <1>3. Len(t) = Len(s) + 1 /\ t[1] = x /\ \A k \in 1 .. Len(s) : t[k + 1] = s[k]
    BY <1>0, <1>1, <1>2
  <1>4. t # <<>>
    BY <1>0, <1>3, EmptySeq
  <1>5. /\ Tail(t) \in Seq(S) /\ Len(Tail(t)) = Len(s)
        /\ \A k \in 1 .. Len(s) : Tail(t)[k] = s[k]
    BY <1>0, <1>2, <1>3, <1>4, HeadTailProperties
  <1>6. Tail(t) = s
    BY <1>5, SeqEqual
  <1>7. Head(t) = x
    BY <1>2, <1>3, <1>4
  <1> QED
    BY <1>2, <1>3, <1>4, <1>6, <1>7 DEF t

\* A sequence that is not empty is its head in front of its tail.
LEMMA HeadAndTail ==
  ASSUME NEW S, NEW s \in Seq(S), s # <<>>
  PROVE  /\ Head(s) = s[1] /\ Head(s) \in S /\ Len(s) \in Nat \ {0}
         /\ Tail(s) \in Seq(S) /\ Len(Tail(s)) = Len(s) - 1
         /\ \A k \in 1 .. (Len(s) - 1) : Tail(s)[k] = s[k + 1]
         /\ s = <<Head(s)>> \o Tail(s)
  <1>1. Len(s) \in Nat \ {0}
    BY EmptySeq
  <1>2. /\ Head(s) = s[1] /\ Head(s) \in S /\ Tail(s) \in Seq(S)
        /\ Len(Tail(s)) = Len(s) - 1
        /\ \A k \in 1 .. Len(Tail(s)) : Tail(s)[k] = s[k + 1]
    BY HeadTailProperties
  <1> DEFINE t == <<Head(s)>> \o Tail(s)
  <1>3. /\ t \in Seq(S) /\ Len(t) = Len(Tail(s)) + 1 /\ t[1] = Head(s)
        /\ \A k \in 1 .. Len(Tail(s)) : t[k + 1] = Tail(s)[k]
    BY <1>2, InFront
  <1> HIDE DEF t
  <1>4. ASSUME NEW k \in 1 .. Len(s) PROVE s[k] = t[k]
    <2>1. CASE k = 1
      BY <1>2, <1>3, <2>1
    <2>2. CASE k # 1
      <3>1. k - 1 \in 1 .. Len(Tail(s)) /\ (k - 1) + 1 = k
        BY <1>1, <1>2, <2>2
      <3> QED
        BY <1>2, <1>3, <3>1
    <2> QED
      BY <2>1, <2>2
  <1>5. s = t
    BY <1>1, <1>2, <1>3, <1>4, SeqEqual
  <1> QED
    BY <1>1, <1>2, <1>5 DEF t

\* FlattenSeq(s) is the last of the partial concatenations of s.
Partial(g, s, S) ==
    /\ g \in [1 .. Len(s) -> Seq(S)] /\ g[1] = s[1]
    /\ \A k \in 2 .. Len(s) : g[k] = g[k - 1] \o s[k]

\* The partial concatenations exist.
LEMMA Flattened ==
  ASSUME NEW S, NEW s \in Seq(Seq(S)), s # <<>>
  PROVE  \E g : Partial(g, s, S) /\ FlattenSeq(s) = g[Len(s)]
  <1> DEFINE n == Len(s)
             step == [x \in (1 .. n) \X Seq(S) |-> x[2] \o s[x[1]]]
             g == CHOOSE h : h = [k \in 1 .. n |-> IF k = 1 THEN s[k] ELSE h[k - 1] \o s[k]]
  <1>0. n \in Nat \ {0} /\ \A k \in 1 .. n : s[k] \in Seq(S)
    BY HeadAndTail, ElementOfSeq
  <1>1. FlattenSeq(s) = g[n]
    BY <1>0 DEF FlattenSeq
  <1> HIDE DEF n
  <1>2. step \in [(1 .. n) \X Seq(S) -> Seq(S)]
    <2>1. \A x \in (1 .. n) \X Seq(S) : x[2] \o s[x[1]] \in Seq(S)
      BY <1>0, ConcatProperties
    <2> QED
      BY <2>1
  <1>3. <<>> \in Seq(S)
    BY EmptySeq
  <1> HIDE DEF step
  <1>4. PICK acc \in [0 .. n -> Seq(S)] : Iterates(acc, n, <<>>, step)
    BY <1>0, <1>2, <1>3, RecursionExists
  <1>5. \A k \in 1 .. n : acc[k] = acc[k - 1] \o s[k]
    <2> TAKE k \in 1 .. n
    <2>1. k - 1 \in 0 .. n /\ acc[k - 1] \in Seq(S)
      BY <1>0
    <2>2. step[<<k, acc[k - 1]>>] = acc[k - 1] \o s[k]
      BY <2>1 DEF step
    <2> QED
      BY <1>4, <2>2 DEF Iterates
  <1>6. acc[1] = s[1]
    <2>1. 1 \in 1 .. n /\ 1 - 1 = 0 /\ acc[0] = <<>> /\ s[1] \in Seq(S)
      BY <1>0, <1>4 DEF Iterates
    <2>2. acc[1] = acc[0] \o s[1]
      BY <1>5, <2>1
    <2>3. <<>> \o s[1] = s[1]
      BY <2>1, ConcatEmptySeq
    <2> QED
      BY <2>1, <2>2, <2>3
  <1> DEFINE G == [k \in 1 .. n |-> acc[k]]
  <1>7. G = [k \in 1 .. n |-> IF k = 1 THEN s[k] ELSE G[k - 1] \o s[k]]
    <2>1. ASSUME NEW k \in 1 .. n
          PROVE  acc[k] = IF k = 1 THEN s[k] ELSE G[k - 1] \o s[k]
      <3>1. CASE k = 1
        BY <1>6, <3>1
      <3>2. CASE k # 1
        <4>1. k - 1 \in 1 .. n
          BY <1>0, <3>2
        <4> QED
          BY <1>5, <3>2, <4>1
      <3> QED
        BY <3>1, <3>2
    <2> QED
      BY <2>1
  <1> HIDE DEF G
  <1>8. g = [k \in 1 .. n |-> IF k = 1 THEN s[k] ELSE g[k - 1] \o s[k]]
    BY <1>7
  <1> HIDE DEF g
  <1>9. g[1] = s[1] /\ \A k \in 2 .. n : g[k] = g[k - 1] \o s[k]
    <2>1. \A k \in 1 .. n : g[k] = IF k = 1 THEN s[k] ELSE g[k - 1] \o s[k]
      BY <1>8
    <2>2. 1 \in 1 .. n /\ \A k \in 2 .. n : k \in 1 .. n /\ k # 1
      BY <1>0
    <2> QED
      BY <2>1, <2>2
  <1> DEFINE T == {k \in 0 .. (n - 1) : g[k + 1] \in Seq(S)}
  <1>10. 0 \in T
    BY <1>0, <1>9
  <1>11. ASSUME NEW k \in 0 .. ((n - 1) - 1), k \in T PROVE k + 1 \in T
    <2>1. k + 1 \in 0 .. (n - 1) /\ (k + 1) + 1 \in 2 .. n /\ ((k + 1) + 1) - 1 = k + 1
          /\ (k + 1) + 1 \in 1 .. n
      BY <1>0
    <2>2. g[(k + 1) + 1] = g[k + 1] \o s[(k + 1) + 1] /\ g[k + 1] \in Seq(S)
      BY <1>9, <1>11, <2>1
    <2>3. g[(k + 1) + 1] \in Seq(S)
      BY <1>0, <2>1, <2>2, ConcatProperties
    <2> QED
      BY <2>1, <2>3
  <1>12. \A k \in 0 .. (n - 1) : k \in T
    <2> HIDE DEF T
    <2>1. n - 1 \in Nat
      BY <1>0
    <2> QED
      BY <1>10, <1>11, <2>1, IntervalInduction
  <1>13. g \in [1 .. n -> Seq(S)]
    <2>1. ASSUME NEW k \in 1 .. n PROVE g[k] \in Seq(S)
      <3>1. k - 1 \in 0 .. (n - 1) /\ (k - 1) + 1 = k
        BY <1>0
      <3> QED
        BY <1>12, <3>1
    <2> QED
      BY <1>8, <2>1
  <1> QED
    BY <1>1, <1>9, <1>13 DEF Partial, n

\* Flattening takes the first sequence and then the others.
LEMMA FlattenFirst ==
  ASSUME NEW S, NEW s \in Seq(Seq(S)), s # <<>>
  PROVE  /\ FlattenSeq(s) \in Seq(S)
         /\ FlattenSeq(s) = Head(s) \o FlattenSeq(Tail(s))
  <1> DEFINE n == Len(s)
             t == Tail(s)
  <1>0. /\ n \in Nat \ {0} /\ Head(s) = s[1] /\ Head(s) \in Seq(S)
        /\ t \in Seq(Seq(S)) /\ Len(t) = n - 1
        /\ \A k \in 1 .. (n - 1) : t[k] = s[k + 1]
    BY HeadAndTail
  <1>1. PICK g : Partial(g, s, S) /\ FlattenSeq(s) = g[n]
    BY Flattened
  <1>2. /\ g \in [1 .. n -> Seq(S)] /\ g[1] = s[1]
        /\ \A k \in 2 .. n : g[k] = g[k - 1] \o s[k]
    BY <1>1 DEF Partial
  <1> HIDE DEF n, t
  <1>3. FlattenSeq(s) \in Seq(S)
    BY <1>0, <1>1, <1>2
  <1>4. CASE t = <<>>
    <2>1. n = 1 /\ FlattenSeq(t) = <<>>
      BY <1>0, <1>4, EmptySeq DEF FlattenSeq
    <2>2. FlattenSeq(s) = Head(s)
      BY <1>0, <1>1, <1>2, <2>1
    <2> QED
      BY <1>0, <1>3, <2>1, <2>2, ConcatEmptySeq DEF t
  <1>5. CASE t # <<>>
    <2>0. Len(t) \in Nat \ {0}
      BY <1>0, <1>5, HeadAndTail
    <2>1. PICK h : Partial(h, t, S) /\ FlattenSeq(t) = h[Len(t)]
      BY <1>0, <1>5, Flattened
    <2>2. /\ h \in [1 .. (n - 1) -> Seq(S)] /\ h[1] = t[1]
          /\ \A k \in 2 .. (n - 1) : h[k] = h[k - 1] \o t[k]
      BY <1>0, <2>1 DEF Partial
    <2>3. n \in Nat /\ n - 1 \in Nat /\ n - 2 \in Nat
      BY <1>0, <2>0
    <2> DEFINE T == {k \in 0 .. (n - 2) : g[k + 2] = Head(s) \o h[k + 1]}
    <2>4. 0 \in T
      <3>1. 2 \in 2 .. n /\ 2 - 1 = 1 /\ 1 \in 1 .. (n - 1) /\ 1 + 1 = 2
            /\ 0 + 2 = 2 /\ 0 + 1 = 1
        BY <2>3
      <3>2. g[2] = g[1] \o s[2] /\ h[1] = s[2]
        BY <1>0, <1>2, <2>2, <3>1
      <3>3. g[2] = Head(s) \o h[1]
        BY <1>0, <1>2, <3>2
      <3>5. 0 \in 0 .. (n - 2)
        BY <2>3
      <3>4. g[0 + 2] = Head(s) \o h[0 + 1]
        BY <3>1, <3>3
      <3> QED
        BY <3>4, <3>5
    <2>5. ASSUME NEW k \in 0 .. ((n - 2) - 1), k \in T PROVE k + 1 \in T
      <3>1. /\ k + 1 \in 0 .. (n - 2) /\ (k + 1) + 2 \in 2 .. n /\ k + 2 \in 2 .. (n - 1)
            /\ ((k + 1) + 2) - 1 = k + 2 /\ (k + 1) + 1 = k + 2 /\ (k + 2) - 1 = k + 1
            /\ k + 2 \in 1 .. (n - 1) /\ (k + 2) + 1 = (k + 1) + 2 /\ k + 1 \in 1 .. (n - 1)
        BY <2>3
      <3>2. g[(k + 1) + 2] = g[k + 2] \o s[(k + 1) + 2]
        BY <1>2, <3>1
      <3>3. g[k + 2] = Head(s) \o h[k + 1]
        BY <2>5
      <3>4. h[k + 2] = h[k + 1] \o s[(k + 1) + 2]
        BY <1>0, <2>2, <3>1
      <3>5. h[k + 1] \in Seq(S) /\ s[(k + 1) + 2] \in Seq(S)
        <4>1. (k + 1) + 2 \in 1 .. n
          BY <3>1
        <4> QED
          BY <2>2, <3>1, <4>1, ElementOfSeq DEF n
      <3>6. (Head(s) \o h[k + 1]) \o s[(k + 1) + 2] = Head(s) \o (h[k + 1] \o s[(k + 1) + 2])
        <4> DEFINE a == Head(s)
                   b == h[k + 1]
                   c == s[(k + 1) + 2]
        <4>1. a \in Seq(S) /\ b \in Seq(S) /\ c \in Seq(S)
          BY <1>0, <3>5
        <4> HIDE DEF a, b, c
        <4>2. (a \o b) \o c = a \o (b \o c)
          <5>1. \A x, y, z \in Seq(S) : (x \o y) \o z = x \o (y \o z)
            BY ConcatAssociative
          <5> QED
            BY <4>1, <5>1
        <4> QED
          BY <4>2 DEF a, b, c
      <3> QED
        BY <3>1, <3>2, <3>3, <3>4, <3>6
    <2>6. \A k \in 0 .. (n - 2) : k \in T
      <3> HIDE DEF T
      <3> QED
        BY <2>3, <2>4, <2>5, IntervalInduction
    <2>7. n - 2 \in 0 .. (n - 2) /\ (n - 2) + 2 = n /\ (n - 2) + 1 = Len(t)
      BY <1>0, <2>3
    <2>8. g[(n - 2) + 2] = Head(s) \o h[(n - 2) + 1]
      BY <2>6, <2>7
    <2> QED
      BY <1>1, <1>3, <2>1, <2>7, <2>8 DEF t
  <1> QED
    BY <1>4, <1>5

-----------------------------------------------------------------------------
(* What a program says.                                                    *)

Voice(op) == IF op.do \in {"send", "send_buf"} THEN op.text ELSE <<>>

\* Nothing says nothing, and a program says what its operations do, in order.
LEMMA SaidFirst ==
  /\ Said(<<>>) = <<>>
  /\ \A p \in Seq(Operation) :
        /\ Said(p) \in Seq(Letter)
        /\ p # <<>> => Said(p) = Voice(Head(p)) \o Said(Tail(p))
  <1>1. Said(<<>>) = <<>>
    <2>1. [m \in DOMAIN <<>> |-> Voice(<<>>[m])] = <<>>
      OBVIOUS
    <2>2. FlattenSeq(<<>>) = <<>>
      BY EmptySeq DEF FlattenSeq
    <2> QED
      BY <2>1, <2>2 DEF Said, Voice
  <1>2. ASSUME NEW p \in Seq(Operation), p # <<>>
        PROVE  Said(p) \in Seq(Letter) /\ Said(p) = Voice(Head(p)) \o Said(Tail(p))
    <2> DEFINE v == [m \in DOMAIN p |-> Voice(p[m])]
               w == [m \in DOMAIN Tail(p) |-> Voice(Tail(p)[m])]
    <2>0. Said(p) = FlattenSeq(v) /\ Said(Tail(p)) = FlattenSeq(w)
      BY DEF Said, Voice
    <2>1. \A op \in Operation : Voice(op) \in Seq(Letter)
      BY EmptySeq DEF Voice, Operation
    <2>2. /\ Head(p) = p[1] /\ Len(p) \in Nat \ {0} /\ Tail(p) \in Seq(Operation)
          /\ Len(Tail(p)) = Len(p) - 1
          /\ \A k \in 1 .. (Len(p) - 1) : Tail(p)[k] = p[k + 1]
      BY <1>2, HeadAndTail
    <2>3. DOMAIN p = 1 .. Len(p) /\ DOMAIN Tail(p) = 1 .. (Len(p) - 1)
      BY <2>2, LenProperties
    <2>4. \A m \in 1 .. Len(p) : p[m] \in Operation
      BY ElementOfSeq
    <2>5. v \in Seq(Seq(Letter)) /\ Len(v) = Len(p)
      BY <2>1, <2>2, <2>3, <2>4
    <2>6. w \in Seq(Seq(Letter)) /\ Len(w) = Len(p) - 1
      <3>1. \A m \in 1 .. (Len(p) - 1) : m + 1 \in 1 .. Len(p) /\ Tail(p)[m] = p[m + 1]
        BY <2>2
      <3>2. \A m \in 1 .. (Len(p) - 1) : Voice(Tail(p)[m]) \in Seq(Letter)
        BY <2>1, <2>4, <3>1
      <3>3. Len(p) - 1 \in Nat
        BY <2>2
      <3> QED
        BY <2>3, <3>2, <3>3
    <2>7. \A m \in 1 .. Len(p) : v[m] = Voice(p[m])
      BY <2>3
    <2>8. \A m \in 1 .. (Len(p) - 1) : w[m] = v[m + 1]
      <3> TAKE m \in 1 .. (Len(p) - 1)
      <3>1. m + 1 \in 1 .. Len(p) /\ Tail(p)[m] = p[m + 1]
        BY <2>2
      <3> QED
        BY <2>3, <2>7, <3>1
    <2> HIDE DEF v, w
    <2>9. v # <<>> /\ Head(v) = Voice(Head(p))
      <3>1. v # <<>>
        BY <2>2, <2>5, EmptySeq
      <3> QED
        BY <2>2, <2>5, <2>7, <3>1, HeadAndTail
    <2>10. Tail(v) = w
      <3>1. /\ Tail(v) \in Seq(Seq(Letter)) /\ Len(Tail(v)) = Len(v) - 1
            /\ \A k \in 1 .. (Len(v) - 1) : Tail(v)[k] = v[k + 1]
        BY <2>5, <2>9, HeadAndTail
      <3> QED
        BY <2>5, <2>6, <2>8, <3>1, SeqEqual
    <2> QED
      BY <2>0, <2>5, <2>9, <2>10, FlattenFirst
  <1>3. <<>> \in Seq(Letter)
    BY EmptySeq
  <1> QED
    BY <1>1, <1>2, <1>3

-----------------------------------------------------------------------------
(* Programs.  Whatever is formatted fits the buffer and is sent next, and  *)
(* the buffer is only sent after something was formatted.                  *)

Buffered(op) == op.do \in {"format", "name_irq"}

Program(p) ==
    /\ p \in Seq(Operation)
    /\ \A k \in 1 .. Len(p) :
          /\ Buffered(p[k]) \/ p[k].do = "send_buf" => Len(p[k].text) < BUF
          /\ Buffered(p[k]) =>
                k < Len(p) /\ p[k + 1].do = "send_buf" /\ p[k + 1].text = p[k].text
          /\ p[k].do = "send_buf" =>
                k = 1 \/ (Buffered(p[k - 1]) /\ p[k - 1].text = p[k].text)

\* A program from its start, made of operations of Ds.
Piece(p, Ds) ==
    /\ Program(p) /\ \A k \in 1 .. Len(p) : p[k].do \in Ds
    /\ p # <<>> => p[1].do # "send_buf"

\* Only at the end of a handler the processor halts or returns.
Ends(p) == \A k \in 1 .. Len(p) : p[k].do \in {"halt", "iret"} => k = Len(p)

\* Only what debug formats is the text of a line.
LinesOnly(p) ==
    \A k \in 1 .. Len(p) : p[k].do \notin {"format", "send_buf"} =>
        \A j \in 1 .. Len(p[k].text) : p[k].text[j][2] # "line"

\* One program after another is a program.
LEMMA PieceConcat ==
  ASSUME NEW Ds, NEW p, NEW q, Piece(p, Ds), Piece(q, Ds)
  PROVE  Piece(p \o q, Ds)
  <1> DEFINE r == p \o q
             m == Len(p)
             n == Len(q)
  <1>0. p \in Seq(Operation) /\ q \in Seq(Operation) /\ m \in Nat /\ n \in Nat
    BY LenProperties DEF Piece, Program
  <1>1. /\ r \in Seq(Operation) /\ Len(r) = m + n
        /\ \A k \in 1 .. (m + n) : r[k] = IF k <= m THEN p[k] ELSE q[k - m]
    BY <1>0, ConcatProperties
  <1> HIDE DEF r, m, n
  <1>2. \A k \in 1 .. m : k \in 1 .. (m + n) /\ r[k] = p[k]
    BY <1>0, <1>1
  <1>3. \A k \in 1 .. n : k + m \in 1 .. (m + n) /\ r[k + m] = q[k]
    BY <1>0, <1>1
  <1>4. \A k \in 1 .. (m + n) : k \in 1 .. m \/ (k - m \in 1 .. n /\ (k - m) + m = k)
    BY <1>0
  <1>5. ASSUME NEW k \in 1 .. m
        PROVE  /\ r[k].do \in Ds
               /\ Buffered(r[k]) \/ r[k].do = "send_buf" => Len(r[k].text) < BUF
               /\ Buffered(r[k]) =>
                     k < m + n /\ r[k + 1].do = "send_buf" /\ r[k + 1].text = r[k].text
               /\ r[k].do = "send_buf" =>
                     k = 1 \/ (Buffered(r[k - 1]) /\ r[k - 1].text = r[k].text)
    <2>1. r[k] = p[k]
      BY <1>2
    <2>2. k < m => r[k + 1] = p[k + 1]
      BY <1>0, <1>2
    <2>3. k # 1 => r[k - 1] = p[k - 1]
      BY <1>0, <1>2
    <2>4. k < m => k < m + n
      BY <1>0
    <2> QED
      BY <2>1, <2>2, <2>3, <2>4 DEF Piece, Program, m
  <1>6. ASSUME NEW k \in 1 .. n
        PROVE  /\ r[k + m].do \in Ds
               /\ Buffered(r[k + m]) \/ r[k + m].do = "send_buf" => Len(r[k + m].text) < BUF
               /\ Buffered(r[k + m]) =>
                     /\ k + m < m + n /\ r[(k + m) + 1].do = "send_buf"
                     /\ r[(k + m) + 1].text = r[k + m].text
               /\ r[k + m].do = "send_buf" =>
                     Buffered(r[(k + m) - 1]) /\ r[(k + m) - 1].text = r[k + m].text
    <2>1. r[k + m] = q[k]
      BY <1>3
    <2>2. k < n => r[(k + m) + 1] = q[k + 1] /\ k + m < m + n
      <3>1. k < n => k + 1 \in 1 .. n /\ (k + m) + 1 = (k + 1) + m /\ k + m < m + n
        BY <1>0
      <3> QED
        BY <1>3, <3>1
    <2>3. k # 1 => r[(k + m) - 1] = q[k - 1]
      <3>1. k # 1 => k - 1 \in 1 .. n /\ (k + m) - 1 = (k - 1) + m
        BY <1>0
      <3> QED
        BY <1>3, <3>1
    <2>4. q[k].do = "send_buf" => k # 1
      BY <1>0, EmptySeq DEF Piece, n
    <2> QED
      BY <2>1, <2>2, <2>3, <2>4 DEF Piece, Program, n
  <1>7. Program(r)
    <2> SUFFICES ASSUME NEW k \in 1 .. (m + n)
                 PROVE  /\ Buffered(r[k]) \/ r[k].do = "send_buf" => Len(r[k].text) < BUF
                        /\ Buffered(r[k]) =>
                              /\ k < m + n /\ r[k + 1].do = "send_buf"
                              /\ r[k + 1].text = r[k].text
                        /\ r[k].do = "send_buf" =>
                              k = 1 \/ (Buffered(r[k - 1]) /\ r[k - 1].text = r[k].text)
      BY <1>1 DEF Program
    <2>1. CASE k \in 1 .. m
      BY <1>5, <2>1
    <2>2. CASE k \notin 1 .. m
      <3> DEFINE j == k - m
      <3>1. j \in 1 .. n /\ j + m = k
        BY <1>4, <2>2
      <3> HIDE DEF j
      <3> QED
        BY <1>6, <3>1
    <2> QED
      BY <2>1, <2>2
  <1>8. ASSUME NEW k \in 1 .. (m + n) PROVE r[k].do \in Ds
    <2>1. CASE k \in 1 .. m
      BY <1>5, <2>1
    <2>2. CASE k \notin 1 .. m
      <3> DEFINE j == k - m
      <3>1. j \in 1 .. n /\ j + m = k
        BY <1>4, <2>2
      <3> HIDE DEF j
      <3> QED
        BY <1>6, <3>1
    <2> QED
      BY <2>1, <2>2
  <1>9. ASSUME r # <<>> PROVE r[1].do # "send_buf"
    <2>1. CASE m = 0
      <3>1. p = <<>> /\ r = q
        BY <1>0, <2>1, EmptySeq, ConcatEmptySeq DEF m, r
      <3> QED
        BY <1>9, <3>1 DEF Piece
    <2>2. CASE m # 0
      <3>1. 1 \in 1 .. m /\ p # <<>>
        BY <1>0, <2>2, EmptySeq DEF m
      <3> QED
        BY <1>2, <3>1 DEF Piece
    <2> QED
      BY <2>1, <2>2
  <1> QED
    BY <1>1, <1>7, <1>8, <1>9 DEF Piece, r

\* What is left of a program after its first operation.
LEMMA AfterFirst ==
  ASSUME NEW p, Program(p), p # <<>>
  PROVE  /\ Program(Tail(p)) /\ Head(p) = p[1] /\ Head(p) \in Operation
         /\ 1 \in 1 .. Len(p) /\ Len(Tail(p)) = Len(p) - 1 /\ Len(p) \in Nat
         /\ \A k \in 1 .. Len(Tail(p)) : k + 1 \in 1 .. Len(p) /\ Tail(p)[k] = p[k + 1]
         /\ Ends(p) => Ends(Tail(p))
         /\ LinesOnly(p) => LinesOnly(Tail(p))
  <1> DEFINE q == Tail(p)
             n == Len(p)
  <1>1. /\ p \in Seq(Operation) /\ Head(p) = p[1] /\ Head(p) \in Operation
        /\ n \in Nat \ {0} /\ q \in Seq(Operation) /\ Len(q) = n - 1
        /\ \A k \in 1 .. (n - 1) : q[k] = p[k + 1]
    BY HeadAndTail DEF Program
  <1>2. \A k \in 1 .. (n - 1) : k + 1 \in 1 .. n
    BY <1>1
  <1>3. /\ \A k \in 1 .. n :
              /\ Buffered(p[k]) \/ p[k].do = "send_buf" => Len(p[k].text) < BUF
              /\ Buffered(p[k]) =>
                    k < n /\ p[k + 1].do = "send_buf" /\ p[k + 1].text = p[k].text
              /\ p[k].do = "send_buf" =>
                    k = 1 \/ (Buffered(p[k - 1]) /\ p[k - 1].text = p[k].text)
    BY DEF Program
  <1> HIDE DEF q, n
  <1>4. ASSUME NEW k \in 1 .. (n - 1)
        PROVE  /\ Buffered(q[k]) \/ q[k].do = "send_buf" => Len(q[k].text) < BUF
               /\ Buffered(q[k]) =>
                     k < n - 1 /\ q[k + 1].do = "send_buf" /\ q[k + 1].text = q[k].text
               /\ q[k].do = "send_buf" =>
                     k = 1 \/ (Buffered(q[k - 1]) /\ q[k - 1].text = q[k].text)
    <2>1. q[k] = p[k + 1] /\ k + 1 \in 1 .. n
      BY <1>1, <1>2
    <2>2. k + 1 < n => q[k + 1] = p[(k + 1) + 1] /\ k < n - 1
      BY <1>1
    <2>3. k # 1 => q[k - 1] = p[(k + 1) - 1]
      <3>1. k # 1 => k - 1 \in 1 .. (n - 1) /\ (k - 1) + 1 = (k + 1) - 1
        BY <1>1
      <3> QED
        BY <1>1, <3>1
    <2>4. k + 1 # 1
      BY <1>1
    <2> QED
      BY <1>3, <2>1, <2>2, <2>3, <2>4
  <1>5. Program(q)
    BY <1>1, <1>4 DEF Program
  <1>6. Ends(p) => Ends(q)
    <2> SUFFICES ASSUME Ends(p), NEW k \in 1 .. (n - 1), q[k].do \in {"halt", "iret"}
                 PROVE  k = n - 1
      BY <1>1 DEF Ends
    <2>1. k + 1 = n
      BY <1>1, <1>2 DEF Ends, n
    <2> QED
      BY <1>1, <2>1
  <1>7. LinesOnly(p) => LinesOnly(q)
    BY <1>1, <1>2 DEF LinesOnly, n
  <1>8. 1 \in 1 .. n
    BY <1>1
  <1> QED
    BY <1>1, <1>2, <1>5, <1>6, <1>7, <1>8 DEF q, n

\* An operation that does not use the buffer is a program.
LEMMA PieceOne ==
  ASSUME NEW Ds, NEW op \in Operation, op.do \in Ds,
         op.do \notin {"format", "name_irq", "send_buf"}
  PROVE  Piece(<<op>>, Ds)
  <1>1. <<op>> \in Seq(Operation) /\ Len(<<op>>) = 1 /\ <<op>>[1] = op /\ \A k \in 1 .. 1 : k = 1
    OBVIOUS
  <1> QED
    BY <1>1 DEF Piece, Program, Buffered

\* So is what debug does with a text that fits the buffer.
LEMMA PieceDebug ==
  ASSUME NEW Ds, NEW how \in {"format", "name_irq"}, NEW t \in Seq(Letter), Len(t) < BUF,
         how \in Ds, "send_buf" \in Ds
  PROVE  Piece(Debug(how, t), Ds)
  <1> DEFINE a == [do |-> how, text |-> t]
             b == [do |-> "send_buf", text |-> t]
             p == <<a, b>>
  <1>1. a \in Operation /\ b \in Operation
    BY DEF Operation, Deed
  <1>2. p \in Seq(Operation) /\ Len(p) = 2 /\ p[1] = a /\ p[2] = b
    BY <1>1
  <1>3. /\ a.do = how /\ a.text = t /\ b.do = "send_buf" /\ b.text = t
        /\ Buffered(a) /\ ~ Buffered(b)
    BY DEF Buffered
  <1>4. Debug(how, t) = p
    BY DEF Debug
  <1> HIDE DEF a, b, p
  <1>5. ASSUME NEW k \in 1 .. 2
        PROVE  /\ p[k].do \in Ds
               /\ Len(p[k].text) < BUF
               /\ Buffered(p[k]) =>
                     k < 2 /\ p[k + 1].do = "send_buf" /\ p[k + 1].text = p[k].text
               /\ p[k].do = "send_buf" =>
                     k = 1 \/ (Buffered(p[k - 1]) /\ p[k - 1].text = p[k].text)
    <2>1. CASE k = 1
      <3>1. k + 1 = 2 /\ k < 2
        BY <2>1
      <3> QED
        BY <1>2, <1>3, <2>1, <3>1
    <2>2. CASE k = 2
      <3>1. k - 1 = 1
        BY <2>2
      <3> QED
        BY <1>2, <1>3, <2>2, <3>1
    <2> QED
      BY <2>1, <2>2
  <1> QED
    BY <1>2, <1>3, <1>4, <1>5 DEF Piece, Program

\* And a string that is sent at once.
LEMMA PieceColour ==
  ASSUME NEW Ds, "send" \in Ds, NEW w \in Who, NEW part \in Parts
  PROVE  Piece(debug_set_col(w, part), Ds)
  <1> DEFINE op == Send(Text(w, part, Size[part]))
  <1>1. Size[part] \in Nat
    BY Lengths
  <1>2. op \in Operation /\ op.do = "send"
    BY <1>1, TextType DEF Send, Operation, Deed
  <1>3. debug_set_col(w, part) = <<op>>
    BY DEF debug_set_col
  <1> HIDE DEF op
  <1> QED
    BY <1>2, <1>3, PieceOne

\* The texts of the parts of a report fit the buffer.
LEMMA PartType ==
  ASSUME NEW w \in Who, NEW part \in Parts
  PROVE  /\ Text(w, part, Size[part]) \in Seq(Letter)
         /\ Len(Text(w, part, Size[part])) < BUF
  <1>1. Size[part] \in 0 .. (BUF - 1) /\ BUF \in Nat
    BY Lengths
  <1>2. Size[part] \in Nat /\ Size[part] < BUF
    BY <1>1
  <1> QED
    BY <1>2, TextType

\* A report is a program.
LEMMA ReportPiece ==
  ASSUME NEW Ds, {"send", "format", "send_buf"} \subseteq Ds, NEW w \in Who,
         NEW name \in {"format", "name_irq"}, name \in Ds
  PROVE  Piece(Report(w, name), Ds)
  <1>0. /\ {"colour", "banner", "name", "dump", "reset"} \subseteq Parts
        /\ "send" \in Ds /\ "format" \in Ds /\ "send_buf" \in Ds
    BY DEF Parts
  <1> DEFINE a == debug_set_col(w, "colour")
             b == debug(Text(w, "banner", Size["banner"]))
             c == Debug(name, Text(w, "name", Size["name"]))
             d == debug(Text(w, "dump", Size["dump"]))
             e == debug_set_col(w, "reset")
  <1>1. Piece(a, Ds) /\ Piece(e, Ds)
    BY <1>0, PieceColour
  <1>2. Piece(b, Ds)
    BY <1>0, PartType, PieceDebug DEF debug
  <1>3. Piece(c, Ds)
    BY <1>0, PartType, PieceDebug
  <1>4. Piece(d, Ds)
    BY <1>0, PartType, PieceDebug DEF debug
  <1>5. Report(w, name) = ((((a \o b) \o c) \o a) \o d) \o e
    BY DEF Report
  <1> HIDE DEF a, b, c, d, e
  <1> QED
    BY <1>1, <1>2, <1>3, <1>4, <1>5, PieceConcat

\* A concatenation has the elements of both sequences and no others.
LEMMA ConcatElements ==
  ASSUME NEW S, NEW p \in Seq(S), NEW q \in Seq(S)
  PROVE  /\ p \o q \in Seq(S) /\ Len(p \o q) = Len(p) + Len(q)
         /\ \A k \in 1 .. Len(p) : k \in 1 .. Len(p \o q) /\ (p \o q)[k] = p[k]
         /\ \A k \in 1 .. Len(q) :
               k + Len(p) \in 1 .. Len(p \o q) /\ (p \o q)[k + Len(p)] = q[k]
         /\ \A k \in 1 .. Len(p \o q) :
               \/ k \in 1 .. Len(p)
               \/ k - Len(p) \in 1 .. Len(q) /\ (p \o q)[k] = q[k - Len(p)]
  <1> DEFINE r == p \o q
             m == Len(p)
             n == Len(q)
  <1>0. m \in Nat /\ n \in Nat
    BY LenProperties
  <1>1. /\ r \in Seq(S) /\ Len(r) = m + n
        /\ \A k \in 1 .. (m + n) : r[k] = IF k <= m THEN p[k] ELSE q[k - m]
    BY <1>0, ConcatProperties
  <1> HIDE DEF r, m, n
  <1>2. \A k \in 1 .. m : k \in 1 .. (m + n) /\ r[k] = p[k]
    BY <1>0, <1>1
  <1>3. \A k \in 1 .. n : k + m \in 1 .. (m + n) /\ r[k + m] = q[k]
    BY <1>0, <1>1
  <1>4. \A k \in 1 .. (m + n) : k \in 1 .. m \/ (k - m \in 1 .. n /\ r[k] = q[k - m])
    BY <1>0, <1>1
  <1> QED
    BY <1>1, <1>2, <1>3, <1>4 DEF r, m, n

\* A program that neither halts nor returns, and then does.
LEMMA EndsLast ==
  ASSUME NEW p \in Seq(Operation), NEW op \in Operation,
         \A k \in 1 .. Len(p) : p[k].do \notin {"halt", "iret"}
  PROVE  Ends(p \o <<op>>)
  <1>1. <<op>> \in Seq(Operation) /\ Len(<<op>>) = 1 /\ Len(p) \in Nat
    BY LenProperties
  <1>2. /\ Len(p \o <<op>>) = Len(p) + 1
        /\ \A k \in 1 .. Len(p) : (p \o <<op>>)[k] = p[k]
    BY <1>1, ConcatElements
  <1>3. \A k \in 1 .. (Len(p) + 1) : k \in 1 .. Len(p) \/ k = Len(p) + 1
    BY <1>1
  <1> QED
    BY <1>2, <1>3 DEF Ends

\* The handlers.
IrqDeeds == {"send", "format", "name_irq", "send_buf", "iret"}
PlainDeeds == {"send", "format", "send_buf", "halt"}

\* They are programs that halt or return only at their end.
LEMMA HandlerPrograms ==
  ASSUME NEW n \in Nat
  PROVE  /\ IrqCall(n) \in Who /\ Piece(Irq(n), IrqDeeds) /\ Ends(Irq(n))
         /\ ExceptionCall(n) \in Who /\ Piece(Exception(n), PlainDeeds) /\ Ends(Exception(n))
  <1>0. IrqCall(n) \in Who /\ ExceptionCall(n) \in Who
    BY DEF IrqCall, ExceptionCall, Who
  <1>1. Op("iret") \in Operation /\ Op("iret").do = "iret"
        /\ Op("halt") \in Operation /\ Op("halt").do = "halt"
    BY EmptySeq DEF Op, Operation, Deed
  <1>2. Piece(Irq(n), IrqDeeds) /\ Ends(Irq(n))
    <2> DEFINE r == Report(IrqCall(n), "name_irq")
               Ds == IrqDeeds \ {"iret"}
    <2>1. Piece(r, Ds) /\ Piece(r, IrqDeeds)
      BY <1>0, ReportPiece DEF IrqDeeds
    <2>2. Irq(n) = r \o <<Op("iret")>>
      BY DEF Irq, IrqCall
    <2> HIDE DEF r
    <2>3. Piece(<<Op("iret")>>, IrqDeeds)
      BY <1>1, PieceOne DEF IrqDeeds
    <2>4. r \in Seq(Operation) /\ \A k \in 1 .. Len(r) : r[k].do \notin {"halt", "iret"}
      BY <2>1 DEF Piece, Program, IrqDeeds
    <2> QED
      BY <1>1, <2>1, <2>2, <2>3, <2>4, PieceConcat, EndsLast
  <1>3. Piece(Exception(n), PlainDeeds) /\ Ends(Exception(n))
    <2> DEFINE w == ExceptionCall(n)
               r == Report(w, "format") \o debug(Text(w, "halting", Size["halting"]))
               Ds == PlainDeeds \ {"halt"}
    <2>0. "halting" \in Parts /\ w \in Who
      BY <1>0 DEF Parts
    <2>5. Exception(n) = r \o <<Op("halt")>>
      BY DEF Exception, ExceptionCall
    <2> HIDE DEF w
    <2>1. Piece(Report(w, "format"), Ds) /\ Piece(Report(w, "format"), PlainDeeds)
      BY <2>0, ReportPiece DEF PlainDeeds
    <2>2. /\ Piece(debug(Text(w, "halting", Size["halting"])), Ds)
          /\ Piece(debug(Text(w, "halting", Size["halting"])), PlainDeeds)
      BY <2>0, PartType, PieceDebug DEF debug, PlainDeeds
    <2>3. Piece(r, Ds) /\ Piece(r, PlainDeeds)
      BY <2>1, <2>2, PieceConcat
    <2> HIDE DEF r
    <2>4. r \in Seq(Operation) /\ \A k \in 1 .. Len(r) : r[k].do \notin {"halt", "iret"}
      BY <2>3 DEF Piece, Program, PlainDeeds
    <2>6. Piece(<<Op("halt")>>, PlainDeeds)
      BY <1>1, PieceOne DEF PlainDeeds
    <2> QED
      BY <1>1, <2>3, <2>4, <2>5, <2>6, PieceConcat, EndsLast
  <1> QED
    BY <1>0, <1>2, <1>3

-----------------------------------------------------------------------------
(* The main thread's program.                                              *)

Has(p, t) == \E k \in 1 .. Len(p) : p[k].text = t
MainDeeds == PlainDeeds \cup {"sti"}
MainPiece(p) == Piece(p, MainDeeds) /\ LinesOnly(p)

\* What holds of two programs of the main thread holds of both in a row.
LEMMA MainConcat ==
  ASSUME NEW p, NEW q, MainPiece(p), MainPiece(q)
  PROVE  /\ MainPiece(p \o q)
         /\ \A t : Has(p, t) \/ Has(q, t) => Has(p \o q, t)
  <1> DEFINE r == p \o q
  <1>0. p \in Seq(Operation) /\ q \in Seq(Operation)
    BY DEF MainPiece, Piece, Program
  <1>1. /\ r \in Seq(Operation) /\ Len(r) = Len(p) + Len(q)
        /\ \A k \in 1 .. Len(p) : k \in 1 .. Len(r) /\ r[k] = p[k]
        /\ \A k \in 1 .. Len(q) : k + Len(p) \in 1 .. Len(r) /\ r[k + Len(p)] = q[k]
        /\ \A k \in 1 .. Len(r) :
              k \in 1 .. Len(p) \/ (k - Len(p) \in 1 .. Len(q) /\ r[k] = q[k - Len(p)])
    BY <1>0, ConcatElements
  <1>2. Piece(r, MainDeeds)
    BY PieceConcat DEF MainPiece
  <1> HIDE DEF r
  <1>3. LinesOnly(r)
    <2>1. /\ \A k \in 1 .. Len(p) : p[k].do \notin {"format", "send_buf"} =>
                \A j \in 1 .. Len(p[k].text) : p[k].text[j][2] # "line"
          /\ \A k \in 1 .. Len(q) : q[k].do \notin {"format", "send_buf"} =>
                \A j \in 1 .. Len(q[k].text) : q[k].text[j][2] # "line"
      BY DEF MainPiece, LinesOnly
    <2> SUFFICES ASSUME NEW k \in 1 .. Len(r), r[k].do \notin {"format", "send_buf"},
                        NEW j \in 1 .. Len(r[k].text)
                 PROVE  r[k].text[j][2] # "line"
      BY DEF LinesOnly
    <2>2. CASE k \in 1 .. Len(p)
      BY <1>1, <2>1, <2>2
    <2>3. CASE k - Len(p) \in 1 .. Len(q) /\ r[k] = q[k - Len(p)]
      BY <2>1, <2>3
    <2> QED
      BY <1>1, <2>2, <2>3
  <1>4. \A t : Has(p, t) \/ Has(q, t) => Has(r, t)
    BY <1>1 DEF Has
  <1> QED
    BY <1>2, <1>3, <1>4 DEF MainPiece, r

LogCalls == [do : {"log"}, status : Statuses, size : 0 .. (BUF - 1)]
Enables == [do : {"sti"}]

\* A log call: its line is sent by debug.
LEMMA LogPiece ==
  ASSUME NEW n \in Nat, NEW status \in Statuses, NEW size \in 0 .. (BUF - 1)
  PROVE  /\ MainPiece(log_impl(<<"log", n>>, status, size))
         /\ Has(log_impl(<<"log", n>>, status, size), Text(<<"log", n>>, "line", size))
  <1> DEFINE w == <<"log", n>>
             line == Text(w, "line", size)
  <1>0. /\ w \in Who /\ "colour" \in Parts /\ "reset" \in Parts /\ BUF \in Nat
        /\ Size["colour"] \in Nat /\ Size["reset"] \in Nat
    BY Lengths DEF Who, Parts
  <1> HIDE DEF w
  <1>9. size \in Nat /\ size < BUF
    BY <1>0
  <1>1. line \in Seq(Letter) /\ Len(line) = size /\ size \in Nat /\ size < BUF
    BY <1>0, <1>9, TextType
  <1> DEFINE a == debug_set_col(w, "colour")
             b == debug(line)
             e == IF status = "PANIC" THEN <<Op("halt")>> ELSE debug_set_col(w, "reset")
  <1>2. ASSUME NEW part \in {"colour", "reset"}
        PROVE  MainPiece(debug_set_col(w, part))
    <2>1. Piece(debug_set_col(w, part), MainDeeds)
      BY <1>0, PieceColour DEF MainDeeds, PlainDeeds
    <2>2. \A j \in 1 .. Size[part] : Text(w, part, Size[part])[j][2] # "line"
      <3>1. \A j \in 1 .. Size[part] : Text(w, part, Size[part])[j] = <<w, part, j>>
        BY <1>0, TextType
      <3>2. \A j \in 1 .. Size[part] : <<w, part, j>>[2] = part
        OBVIOUS
      <3>3. part # "line"
        OBVIOUS
      <3> QED
        BY <3>1, <3>2, <3>3
    <2>3. Len(Text(w, part, Size[part])) = Size[part]
      <3>1. part \in Parts \cup {"line"} /\ Size[part] \in Nat
        BY <1>0
      <3> QED
        BY <1>0, <3>1, TextType
    <2>4. LinesOnly(debug_set_col(w, part))
      <3> DEFINE t == Text(w, part, Size[part])
                 op == [do |-> "send", text |-> t]
      <3> HIDE DEF t
      <3>1. debug_set_col(w, part) = <<op>>
        BY DEF debug_set_col, Send, t
      <3>2. op.text = t /\ Len(<<op>>) = 1 /\ <<op>>[1] = op /\ \A k \in 1 .. 1 : k = 1
        OBVIOUS
      <3> HIDE DEF op
      <3> QED
        BY <2>2, <2>3, <3>1, <3>2 DEF LinesOnly, t
    <2> QED
      BY <2>1, <2>4 DEF MainPiece
  <1>3. MainPiece(b) /\ Has(b, line)
    <2> HIDE DEF line
    <2>1. Piece(b, MainDeeds)
      BY <1>1, PieceDebug DEF debug, MainDeeds, PlainDeeds
    <2>2. /\ Len(b) = 2 /\ b[1].do = "format" /\ b[2].do = "send_buf" /\ b[1].text = line
          /\ \A k \in 1 .. 2 : k = 1 \/ k = 2
      BY DEF debug, Debug
    <2> HIDE DEF b
    <2>3. \A k \in 1 .. 2 : b[k].do \in {"format", "send_buf"}
      BY <2>2
    <2> QED
      BY <2>1, <2>2, <2>3 DEF MainPiece, LinesOnly, Has
  <1>4. MainPiece(e)
    <2>1. CASE status = "PANIC"
      <3> DEFINE op == Op("halt")
      <3>1. op \in Operation /\ op.do = "halt" /\ Len(op.text) = 0
        BY EmptySeq DEF Op, Operation, Deed
      <3> HIDE DEF op
      <3>2. Len(<<op>>) = 1 /\ <<op>>[1] = op /\ \A k \in 1 .. 1 : k = 1
        OBVIOUS
      <3>3. Piece(<<op>>, MainDeeds)
        BY <3>1, PieceOne DEF MainDeeds, PlainDeeds
      <3>4. LinesOnly(<<op>>)
        BY <3>1, <3>2 DEF LinesOnly
      <3>5. e = <<op>>
        BY <2>1 DEF op
      <3> QED
        BY <3>3, <3>4, <3>5 DEF MainPiece
    <2>2. CASE status # "PANIC"
      BY <1>2, <2>2
    <2> QED
      BY <2>1, <2>2
  <1>5. MainPiece(a)
    BY <1>2
  <1>6. log_impl(w, status, size) = (a \o b) \o e
    BY DEF log_impl
  <1> HIDE DEF a, b, e, line, w
  <1>7. MainPiece(a \o b) /\ Has(a \o b, line)
    BY <1>3, <1>5, MainConcat
  <1>8. MainPiece((a \o b) \o e) /\ Has((a \o b) \o e, line)
    BY <1>4, <1>7, MainConcat
  <1> QED
    BY <1>6, <1>8 DEF line, w

\* The whole of it: every log call's line is sent by debug.
LEMMA MainProgram ==
  ASSUME NEW b \in Boots
  PROVE  /\ MainPiece(Main(b))
         /\ \A n \in DOMAIN b : b[n].do = "log" =>
               /\ b[n].size \in Nat
               /\ Has(Main(b), Text(<<"log", n>>, "line", b[n].size))
  <1> DEFINE s == [n \in DOMAIN b |-> IF b[n].do = "sti" THEN <<Op("sti")>>
                                      ELSE log_impl(<<"log", n>>, b[n].status, b[n].size)]
             L == Len(b)
             line(n) == Text(<<"log", n>>, "line", b[n].size)
             islog(n) == b[n].do = "log"
  <1>1. b \in Seq(LogCalls \cup Enables) /\ L \in Nat /\ DOMAIN b = 1 .. L
    BY SerialAssumption, LenProperties DEF LogCalls, Enables
  <1>2. \A n \in 1 .. L : b[n] \in LogCalls \/ b[n] \in Enables
    BY <1>1, ElementOfSeq
  <1>3. \A n \in 1 .. L :
           \/ b[n].do = "sti" /\ ~ islog(n)
           \/ /\ b[n].do # "sti" /\ b[n].status \in Statuses /\ b[n].size \in 0 .. (BUF - 1)
              /\ b[n].size \in Nat
    <2> TAKE n \in 1 .. L
    <2>1. CASE b[n] \in Enables
      BY <2>1 DEF Enables
    <2>2. CASE b[n] \in LogCalls
      BY <2>2 DEF LogCalls
    <2> QED
      BY <1>2, <2>1, <2>2
  <1>4. Main(b) = FlattenSeq(s)
    BY DEF Main
  <1>5. \A n \in 1 .. L : s[n] = IF b[n].do = "sti" THEN <<Op("sti")>>
                                 ELSE log_impl(<<"log", n>>, b[n].status, b[n].size)
    BY <1>1
  <1> HIDE DEF s, L, line
  <1>6. MainPiece(<<Op("sti")>>)
    <2> DEFINE op == Op("sti")
    <2>1. op \in Operation /\ op.do = "sti" /\ Len(op.text) = 0
      BY EmptySeq DEF Op, Operation, Deed
    <2> HIDE DEF op
    <2>2. Len(<<op>>) = 1 /\ <<op>>[1] = op /\ \A k \in 1 .. 1 : k = 1
      OBVIOUS
    <2>3. Piece(<<op>>, MainDeeds)
      BY <2>1, PieceOne DEF MainDeeds, PlainDeeds
    <2>4. LinesOnly(<<op>>)
      BY <2>1, <2>2 DEF LinesOnly
    <2> QED
      BY <2>3, <2>4 DEF MainPiece, op
  <1>7. ASSUME NEW n \in 1 .. L
        PROVE  MainPiece(s[n]) /\ (islog(n) => Has(s[n], line(n)))
    <2>1. CASE b[n].do = "sti"
      BY <1>3, <1>5, <1>6, <2>1
    <2>2. CASE b[n].do # "sti"
      <3>1. s[n] = log_impl(<<"log", n>>, b[n].status, b[n].size) /\ n \in Nat
        BY <1>5, <2>2
      <3> QED
        BY <1>3, <2>2, <3>1, LogPiece DEF line
    <2> QED
      BY <2>1, <2>2
  <1>8. s \in Seq(Seq(Operation)) /\ Len(s) = L
    <2>1. \A n \in 1 .. L : s[n] \in Seq(Operation)
      BY <1>7 DEF MainPiece, Piece, Program
    <2>2. DOMAIN s = 1 .. L /\ s = [n \in 1 .. L |-> s[n]]
      BY <1>1 DEF s
    <2> QED
      BY <1>1, <2>1, <2>2
  <1>9. CASE L = 0
    <2>1. s = <<>>
      BY <1>8, <1>9, EmptySeq
    <2>2. Main(b) = <<>>
      BY <1>4, <2>1, EmptySeq DEF FlattenSeq
    <2>3. <<>> \in Seq(Operation) /\ Len(<<>>) = 0 /\ 1 .. 0 = {} /\ 1 .. L = {}
      BY <1>9, EmptySeq
    <2> QED
      BY <1>1, <2>2, <2>3 DEF MainPiece, Piece, Program, LinesOnly
  <1>10. CASE L # 0
    <2>1. s # <<>>
      BY <1>1, <1>8, <1>10, EmptySeq
    <2>2. PICK g : Partial(g, s, Operation) /\ FlattenSeq(s) = g[L]
      BY <1>8, <2>1, Flattened
    <2>3. g[1] = s[1] /\ \A k \in 2 .. L : g[k] = g[k - 1] \o s[k]
      BY <1>8, <2>2 DEF Partial
    <2> DEFINE Good(k) == MainPiece(g[k]) /\ \A n \in 1 .. k : islog(n) => Has(g[k], line(n))
               T == {k \in 0 .. (L - 1) : Good(k + 1)}
    <2>4. L \in Nat /\ L - 1 \in Nat /\ 1 \in 1 .. L
      BY <1>1, <1>10
    <2>5. 0 \in T
      <3>1. 0 + 1 = 1 /\ 0 \in 0 .. (L - 1) /\ \A n \in 1 .. 1 : n = 1
        BY <2>4
      <3>2. Good(1)
        BY <1>7, <2>3, <2>4, <3>1
      <3> QED
        BY <3>1, <3>2
    <2>6. ASSUME NEW k \in 0 .. ((L - 1) - 1), k \in T PROVE k + 1 \in T
      <3> DEFINE m == k + 1
      <3>1. m + 1 \in 2 .. L /\ (m + 1) - 1 = m /\ m \in 0 .. (L - 1) /\ m + 1 \in 1 .. L
        BY <2>4
      <3>2. Good(m)
        BY <2>6
      <3>5. \A n \in 1 .. (m + 1) : n \in 1 .. m \/ n = m + 1
        BY <2>4
      <3> HIDE DEF m
      <3>3. g[m + 1] = g[m] \o s[m + 1]
        BY <2>3, <3>1
      <3>4. MainPiece(s[m + 1]) /\ (islog(m + 1) => Has(s[m + 1], line(m + 1)))
        BY <1>7, <3>1
      <3>6. MainPiece(g[m + 1]) /\ \A t : Has(g[m], t) \/ Has(s[m + 1], t) => Has(g[m + 1], t)
        BY <3>2, <3>3, <3>4, MainConcat
      <3>7. Good(m + 1)
        BY <3>2, <3>4, <3>5, <3>6
      <3> QED
        BY <3>1, <3>7 DEF m
    <2>7. \A k \in 0 .. (L - 1) : k \in T
      <3> HIDE DEF T
      <3> QED
        BY <2>4, <2>5, <2>6, IntervalInduction
    <2>8. L - 1 \in 0 .. (L - 1) /\ (L - 1) + 1 = L
      BY <2>4
    <2>9. Good(L)
      BY <2>7, <2>8
    <2>10. \A n \in 1 .. L : islog(n) => b[n].size \in Nat
      BY <1>3
    <2> QED
      BY <1>1, <1>4, <2>2, <2>9, <2>10 DEF line
  <1> QED
    BY <1>9, <1>10

-----------------------------------------------------------------------------
(* A call under way.                                                       *)

\* What is left of a text, and what a call has still to send if the buffer
\* holds what it put there.
Suffix(t, i) == SubSeq(t, i + 1, Len(t))
Speaks(op) == op.do \in {"send", "send_buf"}
Rest(h) ==
    IF h.todo # <<>> /\ Speaks(Head(h.todo))
    THEN Suffix(Head(h.todo).text, h.i) \o Said(Tail(h.todo)) ELSE Said(h.todo)

\* Its position is within the text and within the buffer, and it has read a
\* character only while it sends one.
Place(h) ==
    /\ h.ready => h.c # None
    /\ h.c # None => h.todo # <<>> /\ Speaks(Head(h.todo))
    /\ h.todo # <<>> =>
          LET op == Head(h.todo)
          IN /\ Buffered(op) \/ op.do = "send" => h.i <= Len(op.text)
             /\ op.do = "send" /\ h.c # None => h.i < Len(op.text) /\ h.c = op.text[h.i + 1]
             /\ op.do = "send_buf" => h.i < BUF /\ (h.c # None => h.i + 1 < BUF)

Sound(h) == h \in CallStates /\ Program(h.todo) /\ Place(h)

\* The buffer holds what the call has formatted so far, and what it sends.
Loaded(h, buf) ==
    h.todo # <<>> =>
       LET op == Head(h.todo)
       IN /\ Buffered(op) => \A j \in 0 .. (h.i - 1) : buf[j] = op.text[j + 1]
          /\ op.do = "send_buf" =>
                /\ \A j \in 0 .. (Len(op.text) - 1) : buf[j] = op.text[j + 1]
                /\ buf[Len(op.text)] = Terminator
                /\ h.i <= Len(op.text)
                /\ h.c # None => h.i < Len(op.text) /\ h.c = op.text[h.i + 1]

\* The call at its next operation.
After(h) == [h EXCEPT !.todo = Tail(@), !.i = 0]

\* The rest of a text.
LEMMA SuffixFirst ==
  ASSUME NEW S, NEW t \in Seq(S)
  PROVE  /\ Len(t) \in Nat
         /\ Suffix(t, 0) = t /\ Suffix(t, Len(t)) = <<>>
         /\ \A i \in 0 .. Len(t) : Suffix(t, i) \in Seq(S)
         /\ \A i \in 0 .. (Len(t) - 1) :
               t[i + 1] \in S /\ Suffix(t, i) = <<t[i + 1]>> \o Suffix(t, i + 1)
  <1> DEFINE n == Len(t)
  <1>0. n \in Nat /\ DOMAIN t = 1 .. n
    BY LenProperties
  <1>1. ASSUME NEW i \in 0 .. n
        PROVE  /\ Suffix(t, i) \in Seq(S) /\ Len(Suffix(t, i)) = n - i
               /\ \A k \in 1 .. (n - i) : Suffix(t, i)[k] = t[i + k]
    <2> DEFINE u == Suffix(t, i)
    <2>1. \A k \in (i + 1) .. n : t[k] \in S
      BY <1>0, ElementOfSeq
    <2>2. u = [k \in 1 .. (n - i) |-> t[(k + (i + 1)) - 1]]
      BY <1>0 DEF Suffix
    <2>3. \A k \in 1 .. (n - i) : (k + (i + 1)) - 1 = i + k /\ i + k \in (i + 1) .. n
      BY <1>0
    <2>4. n - i \in Nat
      BY <1>0
    <2>5. \A k \in 1 .. (n - i) : t[(k + (i + 1)) - 1] = t[i + k] /\ t[i + k] \in S
      BY <2>1, <2>3
    <2> HIDE DEF n
    <2>6. u = [k \in 1 .. (n - i) |-> t[i + k]]
      BY <2>2, <2>5
    <2> QED
      BY <2>4, <2>5, <2>6
  <1> HIDE DEF n
  <1>2. Suffix(t, 0) = t
    <2>1. 0 \in 0 .. n /\ n - 0 = n /\ \A k \in 1 .. n : 0 + k = k
      BY <1>0
    <2>2. /\ Suffix(t, 0) \in Seq(S) /\ Len(Suffix(t, 0)) = n
          /\ \A k \in 1 .. n : Suffix(t, 0)[k] = t[k]
      BY <1>1, <2>1
    <2> QED
      BY <2>2, SeqEqual DEF n
  <1>3. Suffix(t, n) = <<>>
    <2>1. n \in 0 .. n /\ n - n = 0
      BY <1>0
    <2> QED
      BY <1>1, <2>1, EmptySeq
  <1>4. ASSUME NEW i \in 0 .. (n - 1)
        PROVE  t[i + 1] \in S /\ Suffix(t, i) = <<t[i + 1]>> \o Suffix(t, i + 1)
    <2>1. /\ i \in 0 .. n /\ i + 1 \in 0 .. n /\ i + 1 \in 1 .. n
          /\ n - (i + 1) \in Nat /\ (n - (i + 1)) + 1 = n - i /\ n - i \in Nat
      BY <1>0
    <2>2. t[i + 1] \in S
      BY <1>0, <2>1, ElementOfSeq DEF n
    <2> DEFINE u == Suffix(t, i + 1)
               v == <<t[i + 1]>> \o u
    <2>3. /\ u \in Seq(S) /\ Len(u) = n - (i + 1)
          /\ \A k \in 1 .. (n - (i + 1)) : u[k] = t[(i + 1) + k]
      BY <1>1, <2>1
    <2> HIDE DEF u
    <2>4. /\ v \in Seq(S) /\ Len(v) = Len(u) + 1 /\ v[1] = t[i + 1]
          /\ \A k \in 1 .. Len(u) : v[k + 1] = u[k]
      BY <2>2, <2>3, InFront
    <2> HIDE DEF v
    <2>5. ASSUME NEW k \in 1 .. (n - i) PROVE v[k] = t[i + k]
      <3>1. CASE k = 1
        BY <2>4, <3>1
      <3>2. CASE k # 1
        <4>1. k - 1 \in 1 .. (n - (i + 1)) /\ (k - 1) + 1 = k /\ (i + 1) + (k - 1) = i + k
          BY <1>0, <3>2
        <4> QED
          BY <2>3, <2>4, <4>1
      <3> QED
        BY <3>1, <3>2
    <2>6. Suffix(t, i) = v
      <3>1. /\ Suffix(t, i) \in Seq(S) /\ Len(Suffix(t, i)) = n - i
            /\ \A k \in 1 .. (n - i) : Suffix(t, i)[k] = t[i + k]
        BY <1>1, <2>1
      <3>2. Len(v) = n - i
        BY <2>1, <2>3, <2>4
      <3> QED
        BY <2>4, <2>5, <3>1, <3>2, SeqEqual
    <2> QED
      BY <2>2, <2>6 DEF v, u
  <1> QED
    BY <1>0, <1>1, <1>2, <1>3, <1>4 DEF n

\* A call at the beginning of an operation has all of it ahead.
LEMMA RestFresh ==
  ASSUME NEW h, h.todo \in Seq(Operation), h.i = 0
  PROVE  Rest(h) = Said(h.todo) /\ Rest(h) \in Seq(Letter)
  <1>1. CASE h.todo # <<>> /\ Speaks(Head(h.todo))
    <2> DEFINE op == Head(h.todo)
    <2>1. op \in Operation
      BY <1>1, HeadAndTail
    <2>2. Suffix(op.text, 0) = op.text
      BY <2>1, SuffixFirst DEF Operation
    <2>3. Said(h.todo) = op.text \o Said(Tail(h.todo))
      BY <1>1, SaidFirst DEF Voice, Speaks
    <2> QED
      BY <1>1, <2>2, <2>3, SaidFirst DEF Rest
  <1>2. CASE ~ (h.todo # <<>> /\ Speaks(Head(h.todo)))
    BY <1>2, SaidFirst DEF Rest
  <1> QED
    BY <1>1, <1>2

\* At its next operation it has that one's text ahead.
LEMMA Advances ==
  ASSUME NEW h, Sound(h), h.todo # <<>>, h.c = None
  PROVE  /\ Sound(After(h)) /\ Rest(After(h)) = Said(Tail(h.todo))
         /\ After(h).todo = Tail(h.todo) /\ After(h).who = h.who /\ After(h).i = 0
         /\ After(h).c = None /\ ~ After(h).ready
         /\ \A buf : ~ Buffered(Head(h.todo)) => Loaded(After(h), buf)
  <1> DEFINE g == After(h)
             p == h.todo
             q == Tail(p)
  <1>1. h \in CallStates /\ Program(p) /\ ~ h.ready
    BY DEF Sound, Place
  <1>2. /\ g.todo = q /\ g.i = 0 /\ g.c = None /\ ~ g.ready /\ g.who = h.who
    BY <1>1 DEF After, CallStates
  <1>3. /\ Program(q) /\ Head(p) = p[1] /\ Len(q) = Len(p) - 1 /\ Len(p) \in Nat
        /\ \A k \in 1 .. Len(q) : k + 1 \in 1 .. Len(p) /\ q[k] = p[k + 1]
    BY <1>1, AfterFirst
  <1>4. g \in CallStates
    <2>1. q \in Seq(Operation) /\ 0 \in Nat
      BY <1>3 DEF Program
    <2> QED
      BY <1>1, <2>1 DEF After, CallStates
  <1> HIDE DEF g
  <1>5. q # <<>> => Len(Head(q).text) \in Nat /\ Head(q) = q[1] /\ 1 \in 1 .. Len(q)
    <2>1. q # <<>> => Head(q) \in Operation /\ Head(q) = q[1] /\ 1 \in 1 .. Len(q)
      BY <1>3, AfterFirst
    <2> QED
      BY <2>1, LenProperties DEF Operation
  <1>6. 0 < BUF
    BY Lengths
  <1>7. Place(g)
    BY <1>2, <1>5, <1>6 DEF Place
  <1>8. Rest(g) = Said(q)
    BY <1>2, <1>4, RestFresh DEF CallStates
  <1>9. ASSUME ~ Buffered(Head(p)), NEW buf PROVE Loaded(g, buf)
    <2>1. q # <<>> => Head(q).do # "send_buf"
      <3> SUFFICES ASSUME q # <<>>, Head(q).do = "send_buf" PROVE FALSE
        OBVIOUS
      <3>1. 1 + 1 \in 1 .. Len(p) /\ p[1 + 1].do = "send_buf" /\ 1 + 1 # 1 /\ (1 + 1) - 1 = 1
        BY <1>3, <1>5
      <3> QED
        BY <1>1, <1>3, <1>9, <3>1 DEF Program
    <2>2. 0 .. (0 - 1) = {}
      OBVIOUS
    <2> QED
      BY <1>2, <2>1, <2>2 DEF Loaded
  <1> QED
    BY <1>2, <1>3, <1>4, <1>7, <1>8, <1>9 DEF g, Sound

\* vsnprintf writes within the buffer, and what it writes stays there.
LEMMA Formats ==
  ASSUME NEW h, Sound(h), h.todo # <<>>, Buffered(Head(h.todo)), NEW buf \in Buffers
  PROVE  /\ h.c = None /\ h.i \in 0 .. (BUF - 1)
         /\ h.i < Len(Head(h.todo).text) =>
               LET g == [h EXCEPT !.i = @ + 1]
                   b == [buf EXCEPT ![h.i] = Head(h.todo).text[h.i + 1]]
               IN /\ Sound(g) /\ b \in Buffers /\ Rest(g) = Rest(h)
                  /\ g.todo = h.todo /\ g.who = h.who /\ g.c = None /\ ~ g.ready
                  /\ Loaded(h, buf) => Loaded(g, b)
         /\ ~ (h.i < Len(Head(h.todo).text)) =>
               LET b == [buf EXCEPT ![h.i] = Terminator]
               IN /\ b \in Buffers /\ Rest(After(h)) = Rest(h)
                  /\ Loaded(h, buf) => Loaded(After(h), b)
  <1> DEFINE p == h.todo
             op == Head(p)
             t == op.text
             n == Len(t)
             i == h.i
  <1>0. BUF \in Nat \ {0}
    BY Lengths
  <1>1. /\ h \in CallStates /\ Program(p) /\ op = p[1] /\ op \in Operation
        /\ 1 \in 1 .. Len(p) /\ Len(p) \in Nat
    BY AfterFirst DEF Sound
  <1>2. t \in Seq(Letter) /\ n \in Nat /\ i \in Nat
    BY <1>1, LenProperties DEF Operation, CallStates
  <1>3. h.c = None /\ ~ h.ready /\ i <= n /\ n < BUF
    <2>1. ~ Speaks(op) /\ (op.do = "send_buf" => FALSE)
      BY DEF Buffered, Speaks
    <2> QED
      BY <1>1, <2>1 DEF Sound, Place, Program
  <1>4. i \in 0 .. (BUF - 1)
    BY <1>0, <1>2, <1>3
  <1>5. buf \in [0 .. (BUF - 1) -> Letter \cup {Terminator}] /\ buf[BUF - 1] = Terminator
    BY DEF Buffers
  <1>6. ~ Speaks(op) /\ op.do # "send_buf"
    BY DEF Buffered, Speaks
  <1>7. Rest(h) = Said(p)
    BY <1>6 DEF Rest
  <1>8. ASSUME i < n
        PROVE  LET g == [h EXCEPT !.i = @ + 1]
                   b == [buf EXCEPT ![i] = t[i + 1]]
               IN /\ Sound(g) /\ b \in Buffers /\ Rest(g) = Rest(h)
                  /\ g.todo = p /\ g.who = h.who /\ g.c = None /\ ~ g.ready
                  /\ Loaded(h, buf) => Loaded(g, b)
    <2> DEFINE g == [h EXCEPT !.i = @ + 1]
               b == [buf EXCEPT ![i] = t[i + 1]]
    <2>1. /\ g \in CallStates /\ g.todo = p /\ g.i = i + 1 /\ g.c = None /\ ~ g.ready
          /\ g.who = h.who
      BY <1>1, <1>2, <1>3 DEF CallStates
    <2>2. t[i + 1] \in Letter
      <3>1. i + 1 \in 1 .. n
        BY <1>2, <1>8
      <3> QED
        BY <1>2, <3>1, ElementOfSeq
    <2>3. /\ b \in [0 .. (BUF - 1) -> Letter \cup {Terminator}] /\ b[i] = t[i + 1]
          /\ \A j \in 0 .. (BUF - 1) : j # i => b[j] = buf[j]
      BY <1>4, <1>5, <2>2
    <2>4. BUF - 1 \in 0 .. (BUF - 1) /\ BUF - 1 # i
      BY <1>0, <1>2, <1>3, <1>8
    <2> HIDE DEF g, b
    <2>5. b \in Buffers
      BY <1>5, <2>3, <2>4 DEF Buffers
    <2>6. i + 1 <= n
      BY <1>2, <1>8
    <2>7. Place(g)
      BY <1>6, <2>1, <2>6 DEF Place
    <2>8. Rest(g) = Rest(h)
      BY <1>6, <1>7, <2>1 DEF Rest
    <2>9. ASSUME Loaded(h, buf) PROVE Loaded(g, b)
      <3>1. \A j \in 0 .. (i - 1) : buf[j] = t[j + 1]
        BY <2>9 DEF Loaded
      <3>2. ASSUME NEW j \in 0 .. ((i + 1) - 1) PROVE b[j] = t[j + 1]
        <4>1. CASE j = i
          BY <2>3, <4>1
        <4>2. CASE j # i
          <5>1. j \in 0 .. (i - 1) /\ j \in 0 .. (BUF - 1)
            BY <1>0, <1>2, <1>3, <4>2
          <5> QED
            BY <2>3, <3>1, <4>2, <5>1
        <4> QED
          BY <4>1, <4>2
      <3> QED
        BY <1>6, <2>1, <3>2 DEF Loaded
    <2>10. Sound(g)
      BY <1>1, <2>1, <2>7 DEF Sound
    <2> QED
      BY <2>1, <2>5, <2>8, <2>9, <2>10 DEF g, b
  <1>9. ASSUME ~ (i < n)
        PROVE  LET b == [buf EXCEPT ![i] = Terminator]
               IN /\ b \in Buffers /\ Rest(After(h)) = Rest(h)
                  /\ Loaded(h, buf) => Loaded(After(h), b)
    <2> DEFINE b == [buf EXCEPT ![i] = Terminator]
               g == After(h)
               q == Tail(p)
    <2>1. /\ b \in [0 .. (BUF - 1) -> Letter \cup {Terminator}] /\ b[i] = Terminator
          /\ \A j \in 0 .. (BUF - 1) : j # i => b[j] = buf[j]
      BY <1>4, <1>5
    <2> HIDE DEF b
    <2>2. i = n
      BY <1>2, <1>3, <1>9
    <2>3. b \in Buffers
      <3>1. BUF - 1 \in 0 .. (BUF - 1)
        BY <1>0
      <3> QED
        BY <1>5, <2>1, <3>1 DEF Buffers
    <2>4. Rest(g) = Said(q) /\ g.todo = q /\ g.i = 0 /\ g.c = None
      BY <1>3, Advances
    <2>5. Said(p) = Said(q)
      <3>1. Said(p) = Voice(op) \o Said(q) /\ Said(q) \in Seq(Letter)
        BY <1>1, SaidFirst, AfterFirst DEF Program
      <3>2. Voice(op) = <<>>
        BY <1>6 DEF Voice, Speaks
      <3> QED
        BY <3>1, <3>2, ConcatEmptySeq
    <2>6. ASSUME Loaded(h, buf) PROVE Loaded(g, b)
      <3>1. \A j \in 0 .. (n - 1) : buf[j] = t[j + 1]
        BY <2>2, <2>6 DEF Loaded
      <3>2. \A j \in 0 .. (n - 1) : b[j] = t[j + 1]
        <4> TAKE j \in 0 .. (n - 1)
        <4>1. j # i /\ j \in 0 .. (BUF - 1)
          BY <1>0, <1>2, <1>3, <2>2
        <4> QED
          BY <2>1, <3>1, <4>1
      <3>3. /\ Program(q) /\ Len(q) = Len(p) - 1
            /\ \A k \in 1 .. Len(q) : q[k] = p[k + 1]
            /\ 1 < Len(p) /\ p[1 + 1].do = "send_buf" /\ p[1 + 1].text = t
        <4>1. /\ 1 < Len(p) /\ p[1 + 1].do = "send_buf" /\ p[1 + 1].text = t
          BY <1>1 DEF Program
        <4> QED
          BY <1>1, <4>1, AfterFirst
      <3>8. Len(q) \in Nat /\ Len(q) # 0
        BY <1>1, <3>3
      <3>4. 1 \in 1 .. Len(q) /\ q # <<>>
        <4>1. 1 \in 1 .. Len(q)
          BY <3>8
        <4>2. Len(<<>>) = 0
          OBVIOUS
        <4> QED
          BY <3>8, <4>1, <4>2
      <3>5. Head(q) = q[1]
        BY <3>3, <3>4, AfterFirst
      <3>6. Head(q).do = "send_buf" /\ Head(q).text = t
        BY <3>3, <3>4, <3>5
      <3>9. 0 <= n
        BY <1>2
      <3>7. ~ Buffered(Head(q)) /\ 0 <= n
        BY <3>6, <3>9 DEF Buffered
      <3> QED
        BY <2>1, <2>2, <2>4, <3>2, <3>4, <3>6, <3>7 DEF Loaded
    <2> QED
      BY <1>7, <2>3, <2>4, <2>5, <2>6 DEF b
  <1> QED
    BY <1>3, <1>4, <1>8, <1>9

\* com_send_string reads a character of the text, or has come to its end.
Reading(h, buf) ==
    IF Head(h.todo).do = "send_buf" THEN buf[h.i]
    ELSE IF h.i < Len(Head(h.todo).text) THEN Head(h.todo).text[h.i + 1] ELSE Terminator

\* What it reads is in the text or ends it, and it stays within the buffer.
LEMMA Reads ==
  ASSUME NEW h, Sound(h), h.todo # <<>>, Speaks(Head(h.todo)), h.c = None, NEW buf \in Buffers
  PROVE  /\ Reading(h, buf) = Terminator =>
               /\ Loaded(h, buf) => Rest(After(h)) = Rest(h)
               /\ Loaded(h, buf) /\ Head(h.todo).do = "send_buf" => h.i = Len(Head(h.todo).text)
         /\ Reading(h, buf) # Terminator =>
               LET g == [h EXCEPT !.c = Reading(h, buf)]
               IN /\ Sound(g) /\ Rest(g) = Rest(h)
                  /\ g.todo = h.todo /\ g.who = h.who /\ g.i = h.i /\ ~ g.ready
                  /\ Loaded(h, buf) => Loaded(g, buf)
  <1> DEFINE p == h.todo
             op == Head(p)
             t == op.text
             n == Len(t)
             i == h.i
             x == Reading(h, buf)
  <1>0. BUF \in Nat \ {0}
    BY Lengths
  <1>1. /\ h \in CallStates /\ Program(p) /\ op = p[1] /\ op \in Operation /\ Place(h)
        /\ 1 \in 1 .. Len(p) /\ Len(p) \in Nat
    BY AfterFirst DEF Sound
  <1>2. t \in Seq(Letter) /\ n \in Nat /\ i \in Nat
    BY <1>1, LenProperties DEF Operation, CallStates
  <1>3. \A j \in 0 .. (n - 1) : t[j + 1] \in Letter /\ t[j + 1] # Terminator
    BY <1>2, SuffixFirst, NoLetter
  <1>4. buf \in [0 .. (BUF - 1) -> Letter \cup {Terminator}] /\ buf[BUF - 1] = Terminator
    BY DEF Buffers
  <1>5. op.do = "send" \/ op.do = "send_buf"
    BY DEF Speaks
  <1>6. ~ h.ready
    BY <1>1 DEF Place
  <1>7. ASSUME x = Terminator, Loaded(h, buf) PROVE i = n
    <2>1. CASE op.do = "send"
      <3>1. i <= n
        BY <1>1, <2>1 DEF Place
      <3>2. i < n => i \in 0 .. (n - 1) /\ x = t[i + 1]
        BY <1>2, <2>1 DEF Reading
      <3> QED
        BY <1>2, <1>3, <1>7, <3>1, <3>2
    <2>2. CASE op.do = "send_buf"
      <3>1. i <= n /\ \A j \in 0 .. (n - 1) : buf[j] = t[j + 1]
        BY <1>7, <2>2 DEF Loaded
      <3>2. buf[i] = Terminator
        BY <1>7, <2>2 DEF Reading
      <3>3. i < n => i \in 0 .. (n - 1)
        BY <1>2
      <3> QED
        BY <1>2, <1>3, <3>1, <3>2, <3>3
    <2> QED
      BY <1>5, <2>1, <2>2
  <1>8. ASSUME i = n PROVE Rest(After(h)) = Rest(h)
    <2>1. Rest(h) = Suffix(t, n) \o Said(Tail(p))
      BY <1>8 DEF Rest
    <2>2. Suffix(t, n) = <<>>
      BY <1>2, SuffixFirst
    <2>3. Said(Tail(p)) \in Seq(Letter)
      BY <1>1, AfterFirst, SaidFirst DEF Program
    <2>4. Rest(After(h)) = Said(Tail(p))
      BY Advances
    <2> QED
      BY <2>1, <2>2, <2>3, <2>4, ConcatEmptySeq
  <1>9. ASSUME x # Terminator
        PROVE  LET g == [h EXCEPT !.c = x]
               IN /\ Sound(g) /\ Rest(g) = Rest(h)
                  /\ g.todo = p /\ g.who = h.who /\ g.i = i /\ ~ g.ready
                  /\ Loaded(h, buf) => Loaded(g, buf)
    <2> DEFINE g == [h EXCEPT !.c = x]
    <2>1. CASE op.do = "send"
      <3>1. i < n /\ x = t[i + 1] /\ i \in 0 .. (n - 1)
        BY <1>2, <1>9, <2>1 DEF Reading
      <3>2. x \in Letter
        BY <1>3, <3>1
      <3> HIDE DEF x
      <3>3. /\ g \in CallStates /\ g.todo = p /\ g.i = i /\ g.c = x /\ ~ g.ready /\ g.who = h.who
        BY <1>1, <1>6, <3>2 DEF CallStates
      <3> HIDE DEF g
      <3>4. i <= n
        BY <1>2, <3>1
      <3>5. Place(g)
        BY <2>1, <3>1, <3>3, <3>4 DEF Place, Speaks
      <3>6. Rest(g) = Rest(h)
        BY <3>3 DEF Rest
      <3>7. Loaded(g, buf)
        BY <2>1, <3>3 DEF Loaded, Buffered
      <3> QED
        BY <1>1, <3>3, <3>5, <3>6, <3>7 DEF Sound, g
    <2>2. CASE op.do = "send_buf"
      <3>1. x = buf[i]
        BY <2>2 DEF Reading
      <3>2. i < BUF
        BY <1>1, <2>2 DEF Place
      <3>3. i \in 0 .. (BUF - 1) /\ i # BUF - 1
        BY <1>0, <1>2, <1>4, <1>9, <3>1, <3>2
      <3>4. x \in Letter
        BY <1>4, <1>9, <3>1, <3>3
      <3>5. i + 1 < BUF
        BY <1>0, <3>3
      <3> HIDE DEF x
      <3>6. /\ g \in CallStates /\ g.todo = p /\ g.i = i /\ g.c = x /\ ~ g.ready /\ g.who = h.who
        BY <1>1, <1>6, <3>4 DEF CallStates
      <3> HIDE DEF g
      <3>7. Place(g)
        BY <2>2, <3>2, <3>5, <3>6 DEF Place, Speaks, Buffered
      <3>8. Rest(g) = Rest(h)
        BY <3>6 DEF Rest
      <3>9. ASSUME Loaded(h, buf) PROVE Loaded(g, buf)
        <4>1. /\ \A j \in 0 .. (n - 1) : buf[j] = t[j + 1]
              /\ buf[n] = Terminator /\ i <= n
          BY <2>2, <3>9 DEF Loaded
        <4>2. i # n
          BY <1>9, <3>1, <4>1
        <4>3. i < n /\ i \in 0 .. (n - 1)
          BY <1>2, <4>1, <4>2
        <4>4. x = t[i + 1]
          BY <3>1, <4>1, <4>3
        <4> QED
          BY <2>2, <3>6, <4>1, <4>3, <4>4 DEF Loaded, Buffered
      <3> QED
        BY <1>1, <3>6, <3>7, <3>8, <3>9 DEF Sound, g
    <2> QED
      BY <1>5, <2>1, <2>2
  <1> QED
    BY <1>7, <1>8, <1>9

\* com_send_char writes the next character of the text.
LEMMA Writes ==
  ASSUME NEW h, Sound(h), h.ready
  PROVE  LET g == [h EXCEPT !.i = @ + 1, !.c = None, !.ready = FALSE]
         IN /\ Sound(g) /\ h.c \in Letter /\ h.todo # <<>> /\ Speaks(Head(h.todo))
            /\ g.todo = h.todo /\ g.who = h.who /\ g.i = h.i + 1 /\ g.c = None /\ ~ g.ready
            /\ \A buf : Loaded(h, buf) =>
                  /\ Loaded(g, buf) /\ Rest(g) \in Seq(Letter)
                  /\ Rest(h) = <<h.c>> \o Rest(g)
                  /\ Head(h.todo).do = "send_buf" => h.c = Head(h.todo).text[h.i + 1]
  <1> DEFINE g == [h EXCEPT !.i = @ + 1, !.c = None, !.ready = FALSE]
             p == h.todo
             op == Head(p)
             t == op.text
             n == Len(t)
             i == h.i
  <1>0. BUF \in Nat \ {0}
    BY Lengths
  <1>1. h \in CallStates /\ Program(p) /\ Place(h) /\ h.c # None /\ p # <<>> /\ Speaks(op)
    BY DEF Sound, Place
  <1>2. op \in Operation
    BY <1>1, AfterFirst
  <1>3. t \in Seq(Letter) /\ n \in Nat /\ i \in Nat /\ h.c \in Letter
    BY <1>1, <1>2, LenProperties DEF Operation, CallStates
  <1>4. /\ g \in CallStates /\ g.todo = p /\ g.i = i + 1 /\ g.c = None /\ ~ g.ready
        /\ g.who = h.who
    <2>1. i + 1 \in Nat /\ None \in Letter \cup {None} /\ FALSE \in BOOLEAN
      BY <1>3
    <2> DEFINE g1 == [h EXCEPT !.i = i + 1]
               g2 == [g1 EXCEPT !.c = None]
               g3 == [g2 EXCEPT !.ready = FALSE]
    <2>2. g1 \in CallStates /\ g1.todo = p /\ g1.i = i + 1 /\ g1.who = h.who
      BY <1>1, <2>1 DEF CallStates
    <2>3. g = g3
      OBVIOUS
    <2> HIDE DEF g1
    <2>4. g2 \in CallStates /\ g2.todo = p /\ g2.i = i + 1 /\ g2.who = h.who /\ g2.c = None
      BY <2>1, <2>2 DEF CallStates
    <2> HIDE DEF g2, g
    <2>5. /\ g3 \in CallStates /\ g3.todo = p /\ g3.i = i + 1 /\ g3.who = h.who /\ g3.c = None
          /\ ~ g3.ready
      BY <2>4 DEF CallStates
    <2> QED
      BY <2>3, <2>5
  <1> HIDE DEF g
  <1>5. op.do = "send" \/ op.do = "send_buf"
    BY <1>1 DEF Speaks
  <1>6. Place(g)
    <2>1. CASE op.do = "send"
      <3>1. i < n
        BY <1>1, <2>1 DEF Place
      <3>2. i + 1 <= n
        BY <1>3, <3>1
      <3> QED
        BY <1>4, <2>1, <3>2 DEF Place
    <2>2. CASE op.do = "send_buf"
      <3>1. i + 1 < BUF
        BY <1>1, <2>2 DEF Place
      <3> QED
        BY <1>4, <2>2, <3>1 DEF Place, Buffered
    <2> QED
      BY <1>5, <2>1, <2>2
  <1>7. ASSUME NEW buf, Loaded(h, buf)
        PROVE  /\ Loaded(g, buf) /\ Rest(g) \in Seq(Letter) /\ Rest(h) = <<h.c>> \o Rest(g)
               /\ op.do = "send_buf" => h.c = t[i + 1]
    <2>1. i < n /\ h.c = t[i + 1]
      BY <1>1, <1>5, <1>7 DEF Place, Loaded
    <2>2. i \in 0 .. (n - 1) /\ i + 1 \in 0 .. n /\ i + 1 <= n
      BY <1>3, <2>1
    <2>3. Loaded(g, buf)
      BY <1>4, <1>5, <1>7, <2>2 DEF Loaded, Buffered
    <2> DEFINE a == <<t[i + 1]>>
               b == Suffix(t, i + 1)
               c == Said(Tail(p))
    <2>4. Suffix(t, i) = a \o b /\ a \in Seq(Letter) /\ b \in Seq(Letter)
      <3>1. t[i + 1] \in Letter /\ Suffix(t, i) = <<t[i + 1]>> \o Suffix(t, i + 1)
        BY <1>3, <2>2, SuffixFirst
      <3>2. Suffix(t, i + 1) \in Seq(Letter)
        BY <1>3, <2>2, SuffixFirst
      <3> QED
        BY <3>1, <3>2
    <2>5. c \in Seq(Letter)
      BY <1>1, AfterFirst, SaidFirst DEF Program
    <2>6. Rest(h) = Suffix(t, i) \o c /\ Rest(g) = b \o c
      BY <1>1, <1>4 DEF Rest
    <2>7. a = <<h.c>>
      BY <2>1
    <2> HIDE DEF a, b, c
    <2>8. (a \o b) \o c = a \o (b \o c)
      <3>1. \A x, y, z \in Seq(Letter) : (x \o y) \o z = x \o (y \o z)
        BY ConcatAssociative
      <3> QED
        BY <2>4, <2>5, <3>1
    <2>9. b \o c \in Seq(Letter)
      BY <2>4, <2>5, ConcatProperties
    <2> QED
      BY <2>1, <2>3, <2>4, <2>6, <2>7, <2>8, <2>9
  <1> QED
    BY <1>1, <1>3, <1>4, <1>6, <1>7 DEF g, Sound

-----------------------------------------------------------------------------
(* What a call has sent.                                                   *)

Letters(s) == [m \in DOMAIN s |-> s[m].c]
Own(s, w) == {m \in DOMAIN s : s[m].by = w}
By(s, w) ==
    [j \in 1 .. Cardinality(Own(s, w)) |->
        s[CHOOSE m \in Own(s, w) : Cardinality({q \in Own(s, w) : q <= m}) = j].c]

\* It is the letters at its own places, in order.
LEMMA ByLetters ==
  ASSUME NEW s \in Seq(Sending), NEW w
  PROVE  /\ Len(s) \in Nat /\ Letters(s) \in Seq(Letter) /\ Len(Letters(s)) = Len(s)
         /\ \A m \in 1 .. Len(s) : Letters(s)[m] = s[m].c
         /\ Own(s, w) \in SUBSET (1 .. Len(s)) /\ By(s, w) = Selected(Letters(s), Own(s, w))
         /\ By(s, w) \in Seq(Letter)
  <1> DEFINE n == Len(s)
             I == Own(s, w)
             l == Letters(s)
  <1>1. n \in Nat /\ DOMAIN s = 1 .. n
    BY LenProperties
  <1>2. \A m \in 1 .. n : s[m].c \in Letter
    <2>1. \A m \in 1 .. n : s[m] \in Sending
      BY ElementOfSeq
    <2> QED
      BY <2>1 DEF Sending
  <1>3. I \in SUBSET (1 .. n)
    BY <1>1 DEF Own
  <1>4. l = [m \in 1 .. n |-> s[m].c]
    BY <1>1 DEF Letters
  <1> HIDE DEF n
  <1>5. l \in Seq(Letter) /\ Len(l) = n /\ \A m \in 1 .. n : l[m] = s[m].c
    BY <1>1, <1>2, <1>4
  <1> HIDE DEF l, I
  <1>6. I \in SUBSET Nat /\ IsFiniteSet(I)
    BY <1>1, <1>3, PlacesFinite
  <1>7. ASSUME NEW j \in 1 .. Cardinality(I)
        PROVE  /\ s[CHOOSE m \in I : Cardinality({q \in I : q <= m}) = j].c
                     = l[CHOOSE m \in I : Rank(I, m) = j]
    <2> DEFINE c == CHOOSE k \in I : Rank(I, k) = j
    <2>1. c \in I
      BY <1>6, RankUnique
    <2>2. (CHOOSE m \in I : Cardinality({q \in I : q <= m}) = j) = c
      BY DEF Rank
    <2> HIDE DEF c
    <2>3. s[c].c = l[c]
      BY <1>3, <1>5, <2>1
    <2> QED
      BY <2>2, <2>3 DEF c
  <1>8. By(s, w) = Selected(l, I)
    <2> DEFINE a(j) == s[CHOOSE m \in I : Cardinality({q \in I : q <= m}) = j].c
               b(j) == l[CHOOSE m \in I : Rank(I, m) = j]
    <2>1. By(s, w) = [j \in 1 .. Cardinality(I) |-> a(j)]
      BY DEF By, I
    <2>2. Selected(l, I) = [j \in 1 .. Cardinality(I) |-> b(j)]
      BY DEF Selected
    <2>3. \A j \in 1 .. Cardinality(I) : a(j) = b(j)
      BY <1>7
    <2> HIDE DEF a, b
    <2> QED
      BY <2>1, <2>2, <2>3
  <1>9. Selected(l, I) \in Seq(Letter)
    BY <1>3, <1>5, SelectedIsSeq
  <1> QED
    BY <1>1, <1>3, <1>5, <1>8, <1>9 DEF n, l, I

\* One more character is the last of the call that sent it.
LEMMA ByGrows ==
  ASSUME NEW s \in Seq(Sending), NEW e \in Sending, NEW w
  PROVE  By(Append(s, e), w) = IF e.by = w THEN Append(By(s, w), e.c) ELSE By(s, w)
  <1> DEFINE n == Len(s)
             t == Append(s, e)
             I == Own(s, w)
             l == Letters(s)
             x == e.c
  <1>1. /\ n \in Nat /\ l \in Seq(Letter) /\ Len(l) = n /\ I \in SUBSET (1 .. n)
        /\ By(s, w) = Selected(l, I) /\ DOMAIN s = 1 .. n
        /\ \A m \in 1 .. n : l[m] = s[m].c
    BY ByLetters, LenProperties
  <1>2. /\ t \in Seq(Sending) /\ Len(t) = n + 1 /\ DOMAIN t = 1 .. (n + 1)
        /\ t[n + 1] = e /\ \A m \in 1 .. n : t[m] = s[m]
    BY AppendProperties, LenProperties
  <1>3. x \in Letter
    BY DEF Sending
  <1>4. By(t, w) = Selected(Letters(t), Own(t, w)) /\ Letters(t) \in Seq(Letter)
        /\ Len(Letters(t)) = n + 1 /\ \A m \in 1 .. (n + 1) : Letters(t)[m] = t[m].c
    BY <1>2, ByLetters
  <1>5. \A m \in 1 .. (n + 1) : m \in 1 .. n \/ m = n + 1
    BY <1>1
  <1>6. n + 1 \in 1 .. (n + 1) /\ (\A m \in 1 .. n : m \in 1 .. (n + 1))
    BY <1>1
  <1>7. Own(t, w) = IF e.by = w THEN I \cup {n + 1} ELSE I
    <2>1. Own(t, w) = {m \in 1 .. (n + 1) : t[m].by = w} /\ I = {m \in 1 .. n : s[m].by = w}
      BY <1>1, <1>2 DEF Own
    <2> HIDE DEF t, n, I
    <2> QED
      BY <1>2, <1>5, <1>6, <2>1
  <1> HIDE DEF t, n, I, l, x
  <1>8. /\ Append(l, x) \in Seq(Letter) /\ Len(Append(l, x)) = n + 1
        /\ Append(l, x)[n + 1] = x /\ \A m \in 1 .. n : Append(l, x)[m] = l[m]
    BY <1>1, <1>3, AppendProperties
  <1>9. Letters(t) = Append(l, x)
    <2>1. ASSUME NEW m \in 1 .. (n + 1) PROVE Letters(t)[m] = Append(l, x)[m]
      <3>1. CASE m \in 1 .. n
        BY <1>1, <1>2, <1>4, <1>8, <3>1
      <3>2. CASE m = n + 1
        BY <1>2, <1>4, <1>8, <3>2 DEF x
      <3> QED
        BY <1>5, <3>1, <3>2
    <2> QED
      BY <1>4, <1>8, <2>1, SeqEqual
  <1>10. Selected(Append(l, x), I) = Selected(l, I)
    BY <1>1, <1>3, SelectedOfAppend
  <1>11. Selected(Append(l, x), I \cup {n + 1}) = Append(Selected(Append(l, x), I), x)
    <2>1. n + 1 \in 1 .. Len(Append(l, x))
      BY <1>6, <1>8
    <2> DEFINE v == Append(l, x)
    <2>2. v \in Seq(Letter) /\ n + 1 \in 1 .. Len(v) /\ v[n + 1] = x
      BY <1>8, <2>1
    <2> HIDE DEF v
    <2>3. Selected(v, I \cup {n + 1}) = Append(Selected(v, I), v[n + 1])
      BY <1>1, <2>2, SelectedGrows
    <2> QED
      BY <2>2, <2>3 DEF v
  <1>12. By(t, w) = IF e.by = w THEN Append(By(s, w), x) ELSE By(s, w)
    BY <1>1, <1>4, <1>7, <1>9, <1>10, <1>11
  <1> QED
    BY <1>12 DEF t, x

\* Nothing was sent at first.
LEMMA ByNone ==
  ASSUME NEW w
  PROVE  By(<<>>, w) = <<>>
  <1>1. Own(<<>>, w) = {}
    BY DEF Own
  <1>2. Cardinality({}) = 0
    BY FS_EmptySet
  <1> QED
    BY <1>1, <1>2 DEF By

\* One character more, one character less to come.
LEMMA Moved ==
  ASSUME NEW o \in Seq(Letter), NEW x \in Letter, NEW r \in Seq(Letter)
  PROVE  o \o (<<x>> \o r) = Append(o, x) \o r
  <1> DEFINE a == <<x>>
  <1>1. a \in Seq(Letter) /\ Append(o, x) = o \o a
    OBVIOUS
  <1> HIDE DEF a
  <1>2. \A u, v, z \in Seq(Letter) : (u \o v) \o z = u \o (v \o z)
    BY ConcatAssociative
  <1>3. (o \o a) \o r = o \o (a \o r)
    BY <1>1, <1>2
  <1> QED
    BY <1>1, <1>3 DEF a

\* What was sent and what is to come make the whole.
LEMMA PrefixOf ==
  ASSUME NEW o \in Seq(Letter), NEW r \in Seq(Letter)
  PROVE  IsPrefix(o, o \o r)
  <1> DEFINE t == o \o r
             n == Len(o)
  <1>1. n \in Nat /\ Len(r) \in Nat
    BY LenProperties
  <1>2. /\ t \in Seq(Letter) /\ Len(t) = n + Len(r)
        /\ \A k \in 1 .. n : k \in 1 .. Len(t) /\ t[k] = o[k]
    BY ConcatElements
  <1> HIDE DEF t
  <1>3. n <= Len(t)
    BY <1>1, <1>2
  <1>4. SubSeq(o, 1, n) = [k \in 1 .. n |-> o[k]] /\ SubSeq(t, 1, n) = [k \in 1 .. n |-> t[k]]
    <2>1. n \in 0 .. Len(o) /\ n \in 0 .. Len(t) /\ n = (n - 1) + 1
      BY <1>1, <1>3
    <2>2. \A k \in 1 .. n : (1 + k) - 1 = k
      BY <1>1
    <2> HIDE DEF n
    <2> QED
      BY <1>1, <1>3, <2>1, <2>2
  <1>5. [k \in 1 .. n |-> o[k]] = [k \in 1 .. n |-> t[k]]
    BY <1>2
  <1> QED
    BY <1>3, <1>4, <1>5 DEF IsPrefix, t

-----------------------------------------------------------------------------
(* The inductive invariant.                                                *)

MainCall == calls[Len(calls)]
Handler == calls[Len(calls) - 1]

SerialTypes ==
    /\ boot \in Boots /\ irqs \in 0 .. MaxIrqs /\ dbg_buf \in Buffers
    /\ calls \in Seq(CallStates) /\ Len(calls) \in 1 .. 3
    /\ thr \in Sending \cup {None} /\ wire \in Seq(Sending)

\* The main thread, an interrupt on top of it and an exception on top of
\* that, which stopped the interrupt's handler for good.
StackInv ==
    /\ \A k \in 1 .. Len(calls) : Sound(calls[k])
    /\ MainCall.who = MainThread
    /\ Len(calls) > 1 => irqs > 0 /\ Handler.who = IrqCall(irqs)
    /\ Len(calls) = 3 =>
          /\ calls[1].who = ExceptionCall(irqs)
          /\ \A k \in 1 .. Len(calls[1].todo) : calls[1].todo[k].do \in PlainDeeds
          /\ Handler.i = 0 /\ Handler.c = None
          /\ Handler.todo # <<>> /\ Buffered(Head(Handler.todo))

\* A handler finds in the buffer what it put there, and the transmitter as
\* it saw it.
HandlerInv ==
    \A k \in 1 .. (Len(calls) - 1) :
        /\ Ends(calls[k].todo) /\ Loaded(calls[k], dbg_buf)
        /\ calls[k].ready => thr = None

\* The first i characters of a text of the main thread are at the end of
\* what was sent.
Trails(s, t, i) ==
    i <= Len(s) /\ \A j \in 1 .. i : s[(Len(s) - i) + j] = [by |-> MainThread, c |-> t[j]]

\* So does the main thread, as long as its line was not hit.
Unhit(m) ==
    /\ m.todo # <<>> /\ Head(m.todo).do \in {"format", "send_buf"}
    /\ Head(m.todo).text \notin hit

MainInv ==
    /\ \A k \in 1 .. Len(MainCall.todo) : MainCall.todo[k].do \in MainDeeds
    /\ LinesOnly(MainCall.todo)
    /\ MainCall.ready => thr = None \/ thr.by # MainThread
    /\ Unhit(MainCall) =>
          /\ Len(calls) = 1 /\ Loaded(MainCall, dbg_buf)
          /\ MainCall.ready => thr = None
          /\ Head(MainCall.todo).do = "send_buf" =>
                Trails(Sent, Head(MainCall.todo).text, MainCall.i)

\* Who wrote the character in the holding register.
WriterInv ==
    thr # None =>
       \/ thr.by = MainThread
       \/ \E n \in 1 .. irqs : thr.by = IrqCall(n)
       \/ Len(calls) = 3 /\ thr.by = ExceptionCall(irqs)

\* A handler that has returned sent its report, of which the main thread may
\* have overwritten the last character.
HandlerRuns(n) == Len(calls) > 1 /\ n = irqs
ExceptionRuns(n) == Len(calls) = 3 /\ n = irqs
Reported(n) ==
    \/ Output(IrqCall(n)) = Said(Irq(n))
    \/ /\ thr = None \/ thr.by # IrqCall(n)
       /\ Said(Irq(n)) = Append(Output(IrqCall(n)), Last(Said(Irq(n))))
ReportInv ==
    \A n \in 1 .. MaxIrqs :
        /\ n > irqs => Output(IrqCall(n)) = <<>>
        /\ n <= irqs /\ ~ HandlerRuns(n) => Reported(n)
        /\ HandlerRuns(n) => Output(IrqCall(n)) \o Rest(Handler) = Said(Irq(n))
        /\ ~ ExceptionRuns(n) => Output(ExceptionCall(n)) = <<>>
        /\ ExceptionRuns(n) => Output(ExceptionCall(n)) \o Rest(calls[1]) = Said(Exception(n))

LostInv ==
    \A x \in lost : \E n \in 1 .. irqs : x = [by |-> IrqCall(n), c |-> Last(Said(Irq(n)))]

\* A line is hit, still ahead, or sent in one piece.
Whole(s, t) == \E k \in 0 .. (Len(s) - Len(t)) : \A j \in 1 .. Len(t) :
                   s[k + j] = [by |-> MainThread, c |-> t[j]]
LineInv ==
    \A n \in DOMAIN boot : boot[n].do = "log" =>
        LET line == Text(<<"log", n>>, "line", boot[n].size)
        IN line \in hit \/ Has(MainCall.todo, line) \/ Whole(Sent, line)

SerialInv ==
    /\ SerialTypes /\ StackInv /\ HandlerInv /\ MainInv
    /\ WriterInv /\ ReportInv /\ LostInv /\ LineInv

-----------------------------------------------------------------------------
(* The steps.                                                              *)

SentOf(t, w) == IF t = None THEN w ELSE Append(w, t)

\* What was sent is a sequence of characters, and it grows by what is put
\* into an empty holding register.
LEMMA SentGrows ==
  ASSUME NEW w \in Seq(Sending), NEW t \in Sending \cup {None}
  PROVE  /\ SentOf(t, w) \in Seq(Sending)
         /\ t = None => SentOf(t, w) = w
         /\ t # None => t \in Sending /\ SentOf(t, w) = Append(w, t)
         /\ \A e \in Sending : e # None /\ SentOf(e, w) = Append(w, e)
  BY NoLetter, AppendProperties DEF SentOf

\* The stack.
LEMMA Stack ==
  ASSUME SerialTypes
  PROVE  /\ calls # <<>> /\ Top = calls[1] /\ Top \in CallStates
         /\ \/ Len(calls) = 1 /\ MainCall = calls[1]
            \/ Len(calls) = 2 /\ MainCall = calls[2] /\ Handler = calls[1]
            \/ Len(calls) = 3 /\ MainCall = calls[3] /\ Handler = calls[2]
  <1>1. calls \in Seq(CallStates) /\ (Len(calls) = 1 \/ Len(calls) = 2 \/ Len(calls) = 3)
    BY DEF SerialTypes
  <1>2. calls # <<>>
    <2>1. Len(<<>>) = 0 /\ Len(calls) # 0
      BY <1>1
    <2> QED
      BY <2>1
  <1>3. Top = calls[1] /\ Top \in CallStates
    BY <1>1, <1>2, HeadAndTail DEF Top
  <1>4. 3 - 1 = 2 /\ 2 - 1 = 1
    OBVIOUS
  <1> QED
    BY <1>1, <1>2, <1>3, <1>4 DEF MainCall, Handler

\* The running call is replaced.
LEMMA Replaced ==
  ASSUME NEW cs \in Seq(CallStates), cs # <<>>, NEW d \in CallStates
  PROVE  /\ <<d>> \o Tail(cs) \in Seq(CallStates) /\ Len(<<d>> \o Tail(cs)) = Len(cs)
         /\ (<<d>> \o Tail(cs))[1] = d
         /\ \A k \in 2 .. Len(cs) : (<<d>> \o Tail(cs))[k] = cs[k]
  <1> DEFINE t == Tail(cs)
             r == <<d>> \o t
  <1>1. /\ Len(cs) \in Nat \ {0} /\ t \in Seq(CallStates) /\ Len(t) = Len(cs) - 1
        /\ \A k \in 1 .. (Len(cs) - 1) : t[k] = cs[k + 1]
    BY HeadAndTail
  <1> HIDE DEF t
  <1>2. /\ r \in Seq(CallStates) /\ Len(r) = Len(t) + 1 /\ r[1] = d
        /\ \A k \in 1 .. Len(t) : r[k + 1] = t[k]
    BY <1>1, InFront
  <1> HIDE DEF r
  <1>3. ASSUME NEW k \in 2 .. Len(cs) PROVE r[k] = cs[k]
    <2>1. k - 1 \in 1 .. (Len(cs) - 1) /\ (k - 1) + 1 = k
      BY <1>1
    <2> QED
      BY <1>1, <1>2, <2>1
  <1>4. Len(r) = Len(cs)
    BY <1>1, <1>2
  <1> QED
    BY <1>2, <1>3, <1>4 DEF r, t

\* In a program the buffer is sent just after it was filled.
LEMMA FormatThenSend ==
  ASSUME NEW p, Program(p), p # <<>>
  PROVE  /\ Buffered(Head(p)) =>
               /\ Tail(p) # <<>> /\ Head(Tail(p)).do = "send_buf"
               /\ Head(Tail(p)).text = Head(p).text
         /\ Tail(p) # <<>> /\ Head(Tail(p)).do = "send_buf" =>
               Buffered(Head(p)) /\ Head(Tail(p)).text = Head(p).text
  <1> DEFINE q == Tail(p)
  <1>1. /\ Program(q) /\ Head(p) = p[1] /\ 1 \in 1 .. Len(p) /\ Len(q) = Len(p) - 1
        /\ Len(p) \in Nat
        /\ \A k \in 1 .. Len(q) : k + 1 \in 1 .. Len(p) /\ q[k] = p[k + 1]
    BY AfterFirst
  <1>2. q # <<>> => Head(q) = q[1] /\ 1 \in 1 .. Len(q)
    BY <1>1, AfterFirst
  <1> HIDE DEF q
  <1>3. ASSUME Buffered(p[1])
        PROVE  q # <<>> /\ Head(q).do = "send_buf" /\ Head(q).text = p[1].text
    <2>1. 1 < Len(p) /\ p[1 + 1].do = "send_buf" /\ p[1 + 1].text = p[1].text
      BY <1>1, <1>3 DEF Program
    <2>2. Len(q) # 0
      BY <1>1, <2>1
    <2>3. q # <<>>
      BY <2>2, EmptySeq
    <2> QED
      BY <1>1, <1>2, <2>1, <2>3
  <1>4. ASSUME q # <<>>, Head(q).do = "send_buf"
        PROVE  Buffered(p[1]) /\ Head(q).text = p[1].text
    <2>1. 1 + 1 \in 1 .. Len(p) /\ q[1] = p[1 + 1] /\ 1 + 1 # 1 /\ (1 + 1) - 1 = 1
      BY <1>1, <1>2, <1>4
    <2> QED
      BY <1>1, <1>2, <1>4, <2>1 DEF Program
  <1> QED
    BY <1>1, <1>3, <1>4 DEF q

\* A text whose characters are all at the end was sent in one piece.
LEMMA TrailsWhole ==
  ASSUME NEW s \in Seq(Sending), NEW t \in Seq(Letter)
  PROVE  /\ Trails(s, t, 0)
         /\ Trails(s, t, Len(t)) => Whole(s, t)
         /\ t = <<>> => Whole(s, t)
  <1>1. Len(s) \in Nat /\ Len(t) \in Nat
    BY LenProperties
  <1>2. Trails(s, t, 0)
    <2>1. 0 <= Len(s) /\ 1 .. 0 = {}
      BY <1>1
    <2> QED
      BY <2>1 DEF Trails
  <1>3. ASSUME Trails(s, t, Len(t)) PROVE Whole(s, t)
    <2>1. Len(s) - Len(t) \in 0 .. (Len(s) - Len(t))
      BY <1>1, <1>3 DEF Trails
    <2> QED
      BY <1>3, <2>1 DEF Trails, Whole
  <1>4. ASSUME t = <<>> PROVE Whole(s, t)
    <2>1. Len(t) = 0 /\ 0 \in 0 .. (Len(s) - 0) /\ 1 .. 0 = {}
      BY <1>1, <1>4
    <2> QED
      BY <2>1 DEF Whole
  <1> QED
    BY <1>2, <1>3, <1>4

\* The running call goes on, within its operation or to the next.
Goes(d) ==
    /\ Sound(d) /\ d.who = Top.who /\ Becomes(d) /\ dbg_buf' \in Buffers /\ irqs' = irqs
    /\ d.ready => thr' = None
    /\ Loaded(Top, dbg_buf) => Loaded(d, dbg_buf')
    /\ d.todo = Top.todo \/ (Top.todo # <<>> /\ d.todo = Tail(Top.todo))

\* The other calls stay as they are.
LEMMA GoesStack ==
  ASSUME SerialInv, NEW d, Goes(d)
  PROVE  /\ Len(calls') = Len(calls) /\ calls'[1] = d /\ calls' \in Seq(CallStates)
         /\ \A k \in 2 .. Len(calls) : calls'[k] = calls[k]
         /\ Top = calls[1]
  <1>1. SerialTypes /\ calls \in Seq(CallStates) /\ d \in CallStates /\ calls' = <<d>> \o Tail(calls)
    BY DEF SerialInv, SerialTypes, Goes, Sound, Becomes
  <1>2. calls # <<>> /\ Top = calls[1]
    BY <1>1, Stack
  <1> QED
    BY <1>1, <1>2, Replaced

\* Such a step keeps the stack.
LEMMA GoesStackInv ==
  ASSUME SerialInv, NEW d, Goes(d)
  PROVE  StackInv' /\ HandlerInv'
  <1> DEFINE L == Len(calls)
  <1>1. /\ Len(calls') = L /\ calls'[1] = d
        /\ \A k \in 2 .. L : calls'[k] = calls[k]
        /\ Top = calls[1]
    BY GoesStack
  <1>2. /\ SerialTypes /\ StackInv /\ HandlerInv /\ irqs' = irqs
        /\ Sound(d) /\ d.who = calls[1].who
    BY <1>1 DEF SerialInv, Goes
  <1>3. \/ L = 1 /\ MainCall = calls[1]
        \/ L = 2 /\ MainCall = calls[2] /\ Handler = calls[1]
        \/ L = 3 /\ MainCall = calls[3] /\ Handler = calls[2]
    BY <1>2, Stack
  <1>4. MainCall' = calls'[L] /\ Handler' = calls'[L - 1]
    BY <1>1 DEF MainCall, Handler
  <1>5. \A k \in 1 .. L : k = 1 \/ k \in 2 .. L
    BY <1>3
  <1>6. \A k \in 1 .. L : Sound(calls'[k])
    <2> TAKE k \in 1 .. L
    <2>1. CASE k = 1
      BY <1>1, <1>2, <2>1
    <2>2. CASE k \in 2 .. L
      BY <1>1, <1>2, <2>2 DEF StackInv
    <2> QED
      BY <1>5, <2>1, <2>2
  <1>7. ASSUME NEW p, Program(p), p # <<>>, \A k \in 1 .. Len(p) : p[k].do \in PlainDeeds
        PROVE  \A k \in 1 .. Len(Tail(p)) : Tail(p)[k].do \in PlainDeeds
    BY <1>7, AfterFirst
  <1>8. ASSUME L > 1 PROVE Loaded(calls[1], dbg_buf) /\ Ends(calls[1].todo) /\ 1 \in 1 .. (L - 1)
    BY <1>2, <1>3, <1>8 DEF HandlerInv
  <1>9. ASSUME L > 1 PROVE Ends(d.todo) /\ Loaded(d, dbg_buf') /\ (d.ready => thr' = None)
    <2>1. d.todo = calls[1].todo \/ (calls[1].todo # <<>> /\ d.todo = Tail(calls[1].todo))
      BY <1>1 DEF Goes
    <2>2. Program(calls[1].todo)
      BY <1>2, <1>8, <1>9, <1>3 DEF StackInv, Sound
    <2>3. Ends(d.todo)
      BY <1>8, <1>9, <2>1, <2>2, AfterFirst
    <2> QED
      BY <1>1, <1>8, <1>9, <2>3 DEF Goes
  <1>10. CASE L = 1
    <2>1. 1 .. (L - 1) = {} /\ ~ (L > 1) /\ L # 3
      BY <1>10
    <2>2. MainCall'.who = MainThread
      BY <1>1, <1>2, <1>3, <1>4, <1>10 DEF StackInv
    <2> QED
      BY <1>1, <1>6, <2>1, <2>2 DEF StackInv, HandlerInv
  <1>11. CASE L = 2
    <2>1. /\ \A k \in 1 .. (L - 1) : k = 1
          /\ L # 3 /\ 2 \in 2 .. L /\ L > 1 /\ L - 1 = 1
      BY <1>11
    <2>2. MainCall' = MainCall /\ Handler' = d
      BY <1>1, <1>3, <1>4, <1>11, <2>1
    <2>3. irqs > 0 /\ Handler.who = IrqCall(irqs) /\ MainCall.who = MainThread
      BY <1>2, <2>1 DEF StackInv
    <2>4. StackInv'
      BY <1>1, <1>2, <1>3, <1>6, <1>11, <2>1, <2>2, <2>3 DEF StackInv
    <2>5. HandlerInv'
      BY <1>1, <1>2, <1>9, <2>1 DEF HandlerInv
    <2> QED
      BY <2>4, <2>5
  <1>12. CASE L = 3
    <2>1. /\ \A k \in 1 .. (L - 1) : k = 1 \/ k = 2
          /\ 2 \in 2 .. L /\ 3 \in 2 .. L /\ L > 1 /\ L - 1 = 2
      BY <1>12
    <2>2. MainCall' = MainCall /\ Handler' = Handler /\ calls'[2] = Handler
      BY <1>1, <1>3, <1>4, <1>12, <2>1
    <2>3. /\ irqs > 0 /\ Handler.who = IrqCall(irqs) /\ MainCall.who = MainThread
          /\ calls[1].who = ExceptionCall(irqs)
          /\ \A k \in 1 .. Len(calls[1].todo) : calls[1].todo[k].do \in PlainDeeds
          /\ Handler.i = 0 /\ Handler.c = None
          /\ Handler.todo # <<>> /\ Buffered(Head(Handler.todo))
      BY <1>2, <1>12, <2>1 DEF StackInv
    <2>4. \A k \in 1 .. Len(d.todo) : d.todo[k].do \in PlainDeeds
      <3>1. d.todo = calls[1].todo \/ (calls[1].todo # <<>> /\ d.todo = Tail(calls[1].todo))
        BY <1>1 DEF Goes
      <3>2. 1 \in 1 .. L
        BY <1>12
      <3>3. Program(calls[1].todo)
        BY <1>2, <3>2 DEF StackInv, Sound
      <3> QED
        BY <1>7, <2>3, <3>1, <3>3
    <2>5. StackInv'
      BY <1>1, <1>2, <1>6, <1>12, <2>1, <2>2, <2>3, <2>4 DEF StackInv
    <2>6. Loaded(Handler, dbg_buf')
      <3>1. 0 .. (0 - 1) = {} /\ Head(Handler.todo).do # "send_buf"
        BY <2>3 DEF Buffered
      <3> QED
        BY <2>3, <3>1 DEF Loaded
    <2>7. 2 \in 1 .. (L - 1) /\ calls[2] = Handler
      BY <1>3, <1>12
    <2>8. Ends(Handler.todo) /\ ~ Handler.ready
      <3>1. 2 \in 1 .. L
        BY <1>12
      <3> QED
        BY <1>2, <2>3, <2>7, <3>1 DEF HandlerInv, StackInv, Sound, Place
    <2>9. HandlerInv'
      BY <1>1, <1>2, <1>9, <2>1, <2>2, <2>6, <2>8 DEF HandlerInv
    <2> QED
      BY <2>5, <2>9
  <1> QED
    BY <1>3, <1>10, <1>11, <1>12

\* The running call goes on without sending anything.
Quiet(d) ==
    /\ Sound(d) /\ d.who = Top.who /\ Becomes(d) /\ dbg_buf' \in Buffers
    /\ d.ready => thr = None
    /\ Loaded(Top, dbg_buf) => Loaded(d, dbg_buf') /\ Rest(d) = Rest(Top)
    /\ \/ /\ d.todo = Top.todo
          /\ Top.todo # <<>> /\ Head(Top.todo).do = "send_buf" => d.i = Top.i
       \/ /\ Top.todo # <<>> /\ d.todo = Tail(Top.todo) /\ d.i = 0
          /\ Loaded(Top, dbg_buf) /\ Head(Top.todo).do = "send_buf" =>
                Top.i = Len(Head(Top.todo).text)
    /\ UNCHANGED <<boot, thr, wire, lost, irqs, hit>>

\* It changes neither the other calls nor what was sent.
LEMMA QuietStack ==
  ASSUME SerialInv, NEW d, Quiet(d)
  PROVE  /\ SerialTypes' /\ Len(calls') = Len(calls) /\ calls'[1] = d
         /\ \A k \in 2 .. Len(calls) : calls'[k] = calls[k]
         /\ Top = calls[1] /\ Sent' = Sent /\ Sent \in Seq(Sending)
         /\ \A w : Output(w)' = Output(w)
  <1>1. SerialTypes /\ calls \in Seq(CallStates) /\ d \in CallStates /\ calls' = <<d>> \o Tail(calls)
    BY DEF SerialInv, SerialTypes, Quiet, Sound, Becomes
  <1>2. calls # <<>> /\ Top = calls[1]
    BY <1>1, Stack
  <1>3. /\ calls' \in Seq(CallStates) /\ Len(calls') = Len(calls) /\ calls'[1] = d
        /\ \A k \in 2 .. Len(calls) : calls'[k] = calls[k]
    BY <1>1, <1>2, Replaced
  <1>4. SerialTypes'
    BY <1>1, <1>3 DEF SerialTypes, Quiet
  <1>5. thr' = thr /\ wire' = wire
    BY DEF Quiet
  <1>6. Sent = SentOf(thr, wire)
    BY DEF Sent, SentOf
  <1>7. Sent \in Seq(Sending)
    BY <1>1, <1>6, SentGrows DEF SerialTypes
  <1>8. Sent' = Sent
    BY <1>5 DEF Sent
  <1>9. \A w : Output(w)' = Output(w)
    BY <1>8 DEF Output
  <1> QED
    BY <1>2, <1>3, <1>4, <1>7, <1>8, <1>9

\* Such a step keeps the stack, ...
LEMMA QuietStackInv ==
  ASSUME SerialInv, NEW d, Quiet(d)
  PROVE  StackInv' /\ HandlerInv'
  <1>1. Goes(d)
    BY DEF Quiet, Goes
  <1> QED
    BY <1>1, GoesStackInv

\* ... the main thread ...
LEMMA QuietMainInv ==
  ASSUME SerialInv, NEW d, Quiet(d)
  PROVE  MainInv'
  <1> DEFINE L == Len(calls)
             m == MainCall
  <1>1. /\ SerialTypes' /\ Len(calls') = L /\ calls'[1] = d
        /\ \A k \in 2 .. L : calls'[k] = calls[k]
        /\ Top = calls[1] /\ Sent' = Sent /\ Sent \in Seq(Sending)
    BY QuietStack
  <1>2. SerialTypes /\ StackInv /\ MainInv /\ hit' = hit /\ thr' = thr
    BY DEF SerialInv, Quiet
  <1>3. \/ L = 1 /\ MainCall = calls[1]
        \/ L = 2 /\ MainCall = calls[2] /\ Handler = calls[1]
        \/ L = 3 /\ MainCall = calls[3] /\ Handler = calls[2]
    BY <1>2, Stack
  <1>4. CASE L # 1
    <2>1. MainCall' = m
      <3>1. L \in 2 .. L
        BY <1>3, <1>4
      <3> QED
        BY <1>1, <3>1 DEF MainCall
    <2>2. ~ Unhit(m)
      BY <1>2, <1>4 DEF MainInv
    <2>3. Unhit(m)' = (Unhit(m))
      BY <1>2, <2>1 DEF Unhit
    <2> QED
      BY <1>1, <1>2, <2>1, <2>2, <2>3 DEF MainInv
  <1>5. CASE L = 1
    <2>1. MainCall' = d /\ m = calls[1] /\ Top = m /\ 1 \in 1 .. L
      BY <1>1, <1>3, <1>5 DEF MainCall
    <2>2. Program(m.todo) /\ Sound(d)
      BY <1>2, <2>1 DEF StackInv, Sound, Quiet
    <2>3. d.todo = m.todo \/ (m.todo # <<>> /\ d.todo = Tail(m.todo))
      BY <2>1 DEF Quiet
    <2>4. \A k \in 1 .. Len(d.todo) : d.todo[k].do \in MainDeeds
      <3>1. \A k \in 1 .. Len(m.todo) : m.todo[k].do \in MainDeeds
        BY <1>2 DEF MainInv
      <3>2. CASE d.todo = m.todo
        BY <3>1, <3>2
      <3>3. CASE m.todo # <<>> /\ d.todo = Tail(m.todo)
        BY <2>2, <3>1, <3>3, AfterFirst
      <3> QED
        BY <2>3, <3>2, <3>3
    <2>5. LinesOnly(d.todo)
      <3>1. LinesOnly(m.todo)
        BY <1>2 DEF MainInv
      <3> QED
        BY <2>2, <2>3, <3>1, AfterFirst
    <2>6. d.ready => thr = None
      BY DEF Quiet
    <2>7. ASSUME Unhit(d)'
          PROVE  /\ Loaded(d, dbg_buf')
                 /\ Head(d.todo).do = "send_buf" => Trails(Sent, Head(d.todo).text, d.i)
      <3>1. d.todo # <<>> /\ Head(d.todo).do \in {"format", "send_buf"} /\ Head(d.todo).text \notin hit
        BY <1>2, <2>7 DEF Unhit
      <3>2. Unhit(m) => Loaded(m, dbg_buf) /\ Loaded(d, dbg_buf')
        BY <1>2, <2>1 DEF MainInv, Quiet
      <3>3. CASE d.todo = m.todo
        <4>1. Unhit(m)
          BY <3>1, <3>3 DEF Unhit
        <4>2. Head(m.todo).do = "send_buf" => Trails(Sent, Head(m.todo).text, m.i)
          BY <1>2, <4>1 DEF MainInv
        <4>3. Head(m.todo).do = "send_buf" => d.i = m.i
          <5>1. \/ m.todo # <<>> /\ Head(m.todo).do = "send_buf" => d.i = m.i
                \/ m.todo # <<>> /\ d.todo = Tail(m.todo) /\ d.i = 0
            BY <2>1 DEF Quiet
          <5>2. ~ (m.todo # <<>> /\ d.todo = Tail(m.todo))
            <6> SUFFICES ASSUME m.todo # <<>>, d.todo = Tail(m.todo) PROVE FALSE
              OBVIOUS
            <6>1. Len(Tail(m.todo)) = Len(m.todo) - 1 /\ Len(m.todo) \in Nat
              BY <2>2, AfterFirst
            <6>2. Len(Tail(m.todo)) = Len(m.todo)
              BY <3>3
            <6> HIDE DEF m
            <6> QED
              BY <6>1, <6>2
          <5> QED
            BY <3>1, <3>3, <5>1, <5>2
        <4> QED
          BY <3>2, <3>3, <4>1, <4>2, <4>3
      <3>4. CASE d.todo # m.todo
        <4>1. m.todo # <<>> /\ d.todo = Tail(m.todo) /\ d.i = 0
          BY <2>1, <3>4 DEF Quiet
        <4>2. Trails(Sent, Head(d.todo).text, 0)
          <5>1. Head(d.todo).text \in Seq(Letter)
            BY <2>2, <3>1, AfterFirst DEF Sound, Operation
          <5> QED
            BY <1>1, <5>1, TrailsWhole
        <4>3. Loaded(d, dbg_buf')
          <5>1. CASE Head(d.todo).do = "format"
            <6>1. 0 .. (0 - 1) = {} /\ Head(d.todo).do # "send_buf"
              BY <5>1
            <6> QED
              BY <4>1, <6>1 DEF Loaded
          <5>2. CASE Head(d.todo).do = "send_buf"
            <6>1. Buffered(Head(m.todo)) /\ Head(m.todo).text = Head(d.todo).text
              BY <2>2, <3>1, <4>1, <5>2, FormatThenSend
            <6>2. Head(m.todo).do # "name_irq"
              <7>1. Head(m.todo).do \in MainDeeds
                BY <1>2, <2>2, <4>1, AfterFirst DEF MainInv
              <7> QED
                BY <7>1 DEF MainDeeds, PlainDeeds
            <6>3. Unhit(m)
              BY <3>1, <4>1, <6>1, <6>2 DEF Unhit, Buffered
            <6> QED
              BY <3>2, <6>3
          <5> QED
            BY <3>1, <5>1, <5>2
        <4> QED
          BY <4>1, <4>2, <4>3
      <3> QED
        BY <3>3, <3>4
    <2>8. Unhit(MainCall)' => Unhit(d)'
      BY <2>1 DEF Unhit
    <2> QED
      BY <1>1, <1>2, <1>5, <2>1, <2>4, <2>5, <2>6, <2>7, <2>8 DEF MainInv
  <1> QED
    BY <1>4, <1>5

\* ... the lines ...
LEMMA QuietLineInv ==
  ASSUME SerialInv, NEW d, Quiet(d)
  PROVE  LineInv'
  <1> DEFINE L == Len(calls)
             m == MainCall
  <1>1. /\ SerialTypes' /\ Len(calls') = L /\ calls'[1] = d
        /\ \A k \in 2 .. L : calls'[k] = calls[k]
        /\ Top = calls[1] /\ Sent' = Sent /\ Sent \in Seq(Sending)
    BY QuietStack
  <1>2. /\ SerialTypes /\ StackInv /\ MainInv /\ LineInv
        /\ hit' = hit /\ boot' = boot /\ boot \in Boots
    BY DEF SerialInv, SerialTypes, Quiet
  <1>3. \/ L = 1 /\ MainCall = calls[1]
        \/ L = 2 /\ MainCall = calls[2] /\ Handler = calls[1]
        \/ L = 3 /\ MainCall = calls[3] /\ Handler = calls[2]
    BY <1>2, Stack
  <1>4. CASE MainCall'.todo = m.todo
    BY <1>1, <1>2, <1>4 DEF LineInv
  <1>5. CASE MainCall'.todo # m.todo
    <2>1. L = 1
      <3> SUFFICES ASSUME L # 1 PROVE FALSE
        OBVIOUS
      <3>1. L \in 2 .. L
        BY <1>3
      <3>2. MainCall' = m
        BY <1>1, <3>1 DEF MainCall
      <3> QED
        BY <1>5, <3>2
    <2>2. MainCall' = d /\ m = calls[1] /\ Top = m /\ 1 \in 1 .. L
      BY <1>1, <1>3, <2>1 DEF MainCall
    <2>3. Program(m.todo)
      BY <1>2, <2>2 DEF StackInv, Sound
    <2> DEFINE p == m.todo
               q == Tail(p)
               op == Head(p)
    <2>4. /\ p # <<>> /\ d.todo = q
          /\ Loaded(m, dbg_buf) /\ op.do = "send_buf" => m.i = Len(op.text)
      BY <1>5, <2>2 DEF Quiet
    <2>5. /\ Len(q) = Len(p) - 1 /\ Len(p) \in Nat /\ op = p[1] /\ op \in Operation
          /\ \A k \in 1 .. Len(q) : q[k] = p[k + 1]
          /\ 1 \in 1 .. Len(p) /\ Program(q)
      BY <2>3, <2>4, AfterFirst
    <2>6. ASSUME NEW n \in DOMAIN boot, boot[n].do = "log"
          PROVE  LET line == Text(<<"log", n>>, "line", boot[n].size)
                 IN line \in hit \/ Has(q, line) \/ Whole(Sent, line)
      <3> DEFINE line == Text(<<"log", n>>, "line", boot[n].size)
      <3>1. line \in hit \/ Has(p, line) \/ Whole(Sent, line)
        BY <1>2, <2>6 DEF LineInv
      <3>2. boot[n].size \in Nat /\ n \in Nat
        <4>1. boot[n].size \in Nat
          BY <1>2, <2>6, MainProgram
        <4>2. n \in Nat
          <5>1. boot \in Seq(LogCalls \cup Enables)
            BY <1>2, SerialAssumption DEF LogCalls, Enables
          <5>2. DOMAIN boot = 1 .. Len(boot)
            BY <5>1, LenProperties
          <5> QED
            BY <5>2
        <4> QED
          BY <4>1, <4>2
      <3>3. /\ line \in Seq(Letter) /\ Len(line) \in Nat
            /\ \A j \in 1 .. Len(line) : line[j][2] = "line"
        <4> DEFINE w == <<"log", n>>
                   s == boot[n].size
        <4>1. w \in Who
          BY <3>2 DEF Who
        <4>2. s \in Nat
          BY <3>2
        <4> HIDE DEF w, s
        <4>3. /\ Text(w, "line", s) \in Seq(Letter) /\ Len(Text(w, "line", s)) = s
              /\ \A j \in 1 .. s : Text(w, "line", s)[j] = <<w, "line", j>>
          BY <4>1, <4>2, TextType
        <4>4. \A j \in 1 .. s : <<w, "line", j>>[2] = "line"
          OBVIOUS
        <4>5. \A j \in 1 .. s : Text(w, "line", s)[j][2] = "line"
          BY <4>3, <4>4
        <4> QED
          BY <4>2, <4>3, <4>5 DEF w, s
      <3> HIDE DEF line
      <3>4. CASE Has(p, line) /\ line # op.text
        <4>1. PICK k \in 1 .. Len(p) : p[k].text = line
          BY <3>4 DEF Has
        <4>2. k # 1
          BY <2>5, <3>4, <4>1
        <4>3. k - 1 \in 1 .. Len(q) /\ (k - 1) + 1 = k
          BY <2>5, <4>2
        <4>4. q[k - 1].text = line
          BY <2>5, <4>1, <4>3
        <4> QED
          BY <4>3, <4>4 DEF Has, line
      <3>5. CASE line = op.text
        <4>1. CASE line = <<>>
          BY <1>1, <3>3, <4>1, TrailsWhole DEF line
        <4>2. CASE line # <<>>
          <5>1. op.do \in {"format", "send_buf"}
            <6>1. 1 \in 1 .. Len(line)
              BY <3>3, <4>2, EmptySeq
            <6>2. line[1][2] = "line"
              BY <3>3, <6>1
            <6>3. LinesOnly(p)
              BY <1>2 DEF MainInv
            <6>4. op.do \notin {"format", "send_buf"} =>
                     \A j \in 1 .. Len(op.text) : op.text[j][2] # "line"
              BY <2>5, <6>3 DEF LinesOnly
            <6> QED
              BY <3>5, <6>1, <6>2, <6>4
          <5>2. CASE op.do = "format"
            <6>1. q # <<>> /\ Head(q).text = line
              BY <2>3, <2>4, <3>5, <5>2, FormatThenSend DEF Buffered
            <6>2. 1 \in 1 .. Len(q) /\ Head(q) = q[1]
              BY <2>5, <6>1, AfterFirst
            <6> QED
              BY <6>1, <6>2 DEF Has, line
          <5>3. CASE op.do = "send_buf"
            <6>1. CASE line \in hit
              BY <6>1 DEF line
            <6>2. CASE line \notin hit
              <7>1. Unhit(m)
                BY <2>4, <3>5, <5>3, <6>2 DEF Unhit
              <7>2. Loaded(m, dbg_buf) /\ Trails(Sent, op.text, m.i)
                BY <1>2, <5>3, <7>1 DEF MainInv
              <7>3. Trails(Sent, line, Len(line))
                BY <2>4, <3>5, <5>3, <7>2
              <7> QED
                BY <1>1, <3>3, <7>3, TrailsWhole DEF line
            <6> QED
              BY <6>1, <6>2
          <5> QED
            BY <5>1, <5>2, <5>3
        <4> QED
          BY <4>1, <4>2
      <3> QED
        BY <3>1, <3>4, <3>5 DEF line
    <2> QED
      BY <1>1, <1>2, <2>2, <2>4, <2>6 DEF LineInv
  <1> QED
    BY <1>4, <1>5

\* ... and the reports.
LEMMA QuietReportInv ==
  ASSUME SerialInv, NEW d, Quiet(d)
  PROVE  WriterInv' /\ ReportInv' /\ LostInv'
  <1> DEFINE L == Len(calls)
  <1>1. /\ Len(calls') = L /\ calls'[1] = d
        /\ \A k \in 2 .. L : calls'[k] = calls[k]
        /\ Top = calls[1] /\ Sent' = Sent /\ \A w : Output(w)' = Output(w)
    BY QuietStack
  <1>2. /\ SerialTypes /\ HandlerInv /\ WriterInv /\ ReportInv /\ LostInv
        /\ irqs' = irqs /\ thr' = thr /\ lost' = lost
    BY DEF SerialInv, SerialTypes, Quiet
  <1>3. \/ L = 1 /\ MainCall = calls[1]
        \/ L = 2 /\ MainCall = calls[2] /\ Handler = calls[1]
        \/ L = 3 /\ MainCall = calls[3] /\ Handler = calls[2]
    BY <1>2, Stack
  <1>4. WriterInv'
    BY <1>1, <1>2 DEF WriterInv
  <1>5. LostInv'
    BY <1>2 DEF LostInv
  <1>6. ASSUME L > 1 PROVE Rest(d) = Rest(calls[1])
    <2>1. 1 \in 1 .. (L - 1)
      BY <1>3, <1>6
    <2>2. Loaded(calls[1], dbg_buf)
      BY <1>2, <2>1 DEF HandlerInv
    <2> QED
      BY <1>1, <2>2 DEF Quiet
  <1>7. ASSUME L > 1 PROVE Rest(Handler') = Rest(Handler)
    <2>1. CASE L = 2
      <3>1. Handler' = d
        <4>1. L - 1 = 1
          BY <2>1
        <4> QED
          BY <1>1, <4>1 DEF Handler
      <3> QED
        BY <1>3, <1>6, <1>7, <2>1, <3>1
    <2>2. CASE L = 3
      <3>1. Handler' = Handler
        <4>1. L - 1 = 2 /\ 2 \in 2 .. L
          BY <2>2
        <4> QED
          BY <1>1, <4>1 DEF Handler
      <3> QED
        BY <3>1
    <2> HIDE DEF L
    <2>3. L # 1
      <3>1. L \in {1, 2, 3}
        BY <1>3
      <3> QED
        BY <1>7, <3>1
    <2> QED
      BY <1>3, <2>1, <2>2, <2>3
  <1>8. ASSUME NEW n \in 1 .. MaxIrqs
        PROVE  /\ HandlerRuns(n)' = HandlerRuns(n) /\ ExceptionRuns(n)' = ExceptionRuns(n)
               /\ Reported(n)' = Reported(n)
    BY <1>1, <1>2 DEF HandlerRuns, ExceptionRuns, Reported
  <1>9. ReportInv'
    <2> SUFFICES ASSUME NEW n \in 1 .. MaxIrqs
                 PROVE  /\ n > irqs => Output(IrqCall(n)) = <<>>
                        /\ n <= irqs /\ ~ HandlerRuns(n) => Reported(n)
                        /\ HandlerRuns(n) => Output(IrqCall(n)) \o Rest(Handler') = Said(Irq(n))
                        /\ ~ ExceptionRuns(n) => Output(ExceptionCall(n)) = <<>>
                        /\ ExceptionRuns(n) =>
                              Output(ExceptionCall(n)) \o Rest(d) = Said(Exception(n))
      BY <1>1, <1>2, <1>8 DEF ReportInv
    <2>1. HandlerRuns(n) => L > 1
      BY DEF HandlerRuns
    <2>2. ExceptionRuns(n) => L > 1
      BY <1>3 DEF ExceptionRuns
    <2> QED
      BY <1>2, <1>6, <1>7, <2>1, <2>2 DEF ReportInv
  <1> QED
    BY <1>4, <1>5, <1>9

\* So it keeps the invariant.
LEMMA QuietStep ==
  ASSUME SerialInv, NEW d, Quiet(d)
  PROVE  SerialInv'
  BY QuietStack, QuietStackInv, QuietMainInv, QuietLineInv, QuietReportInv DEF SerialInv

\* The call that runs.
LEMMA TopSound ==
  ASSUME SerialInv
  PROVE  /\ Sound(Top) /\ Top \in CallStates /\ Top = calls[1]
         /\ dbg_buf \in Buffers /\ calls \in Seq(CallStates) /\ calls # <<>>
  <1>1. SerialTypes /\ StackInv
    BY DEF SerialInv
  <1>2. Top = calls[1] /\ Top \in CallStates /\ calls # <<>>
    BY <1>1, Stack
  <1>3. 1 \in 1 .. Len(calls)
    <2> DEFINE n == Len(calls)
    <2>1. n \in 1 .. 3
      BY <1>1 DEF SerialTypes
    <2> HIDE DEF n
    <2>2. 1 \in 1 .. n
      BY <2>1
    <2> QED
      BY <2>2 DEF n
  <1> QED
    BY <1>1, <1>2, <1>3 DEF StackInv, SerialTypes

\* vsnprintf.
LEMMA FormatStep ==
  ASSUME SerialInv, Format
  PROVE  SerialInv'
  <1> DEFINE h == Top
  <1>1. Sound(h) /\ dbg_buf \in Buffers
    BY TopSound
  <1>2. h.todo # <<>> /\ Buffered(Head(h.todo)) /\ Now = Head(h.todo)
    BY DEF Format, Runs, Now, Buffered
  <1>3. h.c = None /\ Head(h.todo).do # "send_buf"
    BY <1>1, <1>2, Formats DEF Buffered
  <1>4. UNCHANGED <<boot, thr, wire, lost, irqs, hit>>
    BY DEF Format
  <1>5. CASE h.i < Len(Head(h.todo).text)
    <2> DEFINE g == [h EXCEPT !.i = @ + 1]
    <2>1. dbg_buf' = [dbg_buf EXCEPT ![h.i] = Head(h.todo).text[h.i + 1]] /\ Becomes(g)
      BY <1>2, <1>5 DEF Format
    <2>2. /\ Sound(g) /\ dbg_buf' \in Buffers /\ Rest(g) = Rest(h)
          /\ g.todo = h.todo /\ g.who = h.who /\ g.c = None /\ ~ g.ready
          /\ Loaded(h, dbg_buf) => Loaded(g, dbg_buf')
      BY <1>1, <1>2, <1>5, <2>1, Formats
    <2> HIDE DEF g
    <2>3. Quiet(g)
      BY <1>3, <1>4, <2>1, <2>2 DEF Quiet
    <2> QED
      BY <2>3, QuietStep
  <1>6. CASE ~ (h.i < Len(Head(h.todo).text))
    <2> DEFINE g == After(h)
    <2>1. dbg_buf' = [dbg_buf EXCEPT ![h.i] = Terminator] /\ Becomes(g)
      BY <1>2, <1>6 DEF Format, NextOp, After
    <2>2. /\ dbg_buf' \in Buffers /\ Rest(g) = Rest(h)
          /\ Loaded(h, dbg_buf) => Loaded(g, dbg_buf')
      BY <1>1, <1>2, <1>6, <2>1, Formats
    <2>3. Sound(g) /\ g.todo = Tail(h.todo) /\ g.who = h.who /\ g.i = 0 /\ ~ g.ready
      BY <1>1, <1>2, <1>3, Advances
    <2> HIDE DEF g
    <2>4. Quiet(g)
      BY <1>2, <1>3, <1>4, <2>1, <2>2, <2>3 DEF Quiet
    <2> QED
      BY <2>4, QuietStep
  <1> QED
    BY <1>5, <1>6

\* Reading the next character.
LEMMA ReadStep ==
  ASSUME SerialInv, com_send_string
  PROVE  SerialInv'
  <1> DEFINE h == Top
             x == Reading(h, dbg_buf)
  <1>1. Sound(h) /\ dbg_buf \in Buffers
    BY TopSound
  <1>2. h.todo # <<>> /\ Speaks(Head(h.todo)) /\ h.c = None
    BY DEF com_send_string, Runs, Now, Speaks
  <1>3. Char = x
    BY DEF Char, Reading, Now
  <1>4. UNCHANGED <<boot, dbg_buf, thr, wire, lost, irqs, hit>>
    BY DEF com_send_string
  <1>5. CASE x = Terminator
    <2> DEFINE g == After(h)
    <2>1. Becomes(g)
      BY <1>3, <1>5 DEF com_send_string, NextOp, After
    <2>2. /\ Loaded(h, dbg_buf) => Rest(g) = Rest(h)
          /\ Loaded(h, dbg_buf) /\ Head(h.todo).do = "send_buf" => h.i = Len(Head(h.todo).text)
      BY <1>1, <1>2, <1>5, Reads
    <2>3. /\ Sound(g) /\ g.todo = Tail(h.todo) /\ g.who = h.who /\ g.i = 0 /\ ~ g.ready
          /\ ~ Buffered(Head(h.todo)) => Loaded(g, dbg_buf)
      BY <1>1, <1>2, Advances
    <2>4. ~ Buffered(Head(h.todo))
      BY <1>2 DEF Speaks, Buffered
    <2> HIDE DEF g
    <2>5. Quiet(g)
      BY <1>1, <1>2, <1>4, <2>1, <2>2, <2>3, <2>4 DEF Quiet
    <2> QED
      BY <2>5, QuietStep
  <1>6. CASE x # Terminator
    <2> DEFINE g == [h EXCEPT !.c = x]
    <2>1. Becomes(g)
      BY <1>3, <1>6 DEF com_send_string
    <2>2. /\ Sound(g) /\ Rest(g) = Rest(h)
          /\ g.todo = h.todo /\ g.who = h.who /\ g.i = h.i /\ ~ g.ready
          /\ Loaded(h, dbg_buf) => Loaded(g, dbg_buf)
      BY <1>1, <1>2, <1>6, Reads
    <2> HIDE DEF g
    <2>3. Quiet(g)
      BY <1>1, <1>4, <2>1, <2>2 DEF Quiet
    <2> QED
      BY <2>3, QuietStep
  <1> QED
    BY <1>5, <1>6

\* The transmitter was found ready.
LEMMA PollStep ==
  ASSUME SerialInv, Poll
  PROVE  SerialInv'
  <1> DEFINE h == Top
             g == [h EXCEPT !.ready = TRUE]
  <1>1. Sound(h) /\ dbg_buf \in Buffers /\ h \in CallStates
    BY TopSound
  <1>2. h.c # None /\ thr = None /\ Becomes(g) /\ UNCHANGED <<boot, dbg_buf, thr, wire, lost, irqs, hit>>
    BY DEF Poll, com_is_transmit_empty
  <1>3. g \in CallStates /\ g.todo = h.todo /\ g.who = h.who /\ g.i = h.i /\ g.c = h.c /\ g.ready
    BY <1>1 DEF CallStates
  <1> HIDE DEF h, g
  <1>4. Sound(g)
    BY <1>1, <1>2, <1>3 DEF Sound, Place
  <1>5. Rest(g) = Rest(h)
    BY <1>3 DEF Rest
  <1>6. Loaded(h, dbg_buf) => Loaded(g, dbg_buf)
    BY <1>3 DEF Loaded
  <1>7. Quiet(g)
    BY <1>1, <1>2, <1>3, <1>4, <1>5, <1>6 DEF Quiet, h
  <1> QED
    BY <1>7, QuietStep

\* Interrupts are enabled.
LEMMA StiStep ==
  ASSUME SerialInv, Sti
  PROVE  SerialInv'
  <1> DEFINE h == Top
             g == After(h)
  <1>1. Sound(h) /\ dbg_buf \in Buffers
    BY TopSound
  <1>2. h.todo # <<>> /\ Head(h.todo).do = "sti"
    BY DEF Sti, Runs, Now
  <1>3. ~ Speaks(Head(h.todo)) /\ ~ Buffered(Head(h.todo)) /\ Head(h.todo).do # "send_buf"
    BY <1>2 DEF Speaks, Buffered
  <1>4. h.c = None /\ h.todo \in Seq(Operation)
    BY <1>1, <1>3 DEF Sound, Place, Program
  <1>5. Becomes(g) /\ UNCHANGED <<boot, dbg_buf, thr, wire, lost, irqs, hit>>
    BY DEF Sti, NextOp, After
  <1>6. /\ Sound(g) /\ g.todo = Tail(h.todo) /\ g.who = h.who /\ g.i = 0 /\ ~ g.ready
        /\ Loaded(g, dbg_buf) /\ Rest(g) = Said(Tail(h.todo))
    BY <1>1, <1>2, <1>3, <1>4, Advances
  <1>7. Rest(h) = Said(Tail(h.todo))
    <2>1. Rest(h) = Said(h.todo)
      BY <1>3 DEF Rest
    <2>2. Said(h.todo) = Voice(Head(h.todo)) \o Said(Tail(h.todo))
      BY <1>2, <1>4, SaidFirst
    <2>3. Voice(Head(h.todo)) = <<>>
      BY <1>3 DEF Voice, Speaks
    <2>4. Said(Tail(h.todo)) \in Seq(Letter)
      BY <1>2, <1>4, HeadAndTail, SaidFirst
    <2> QED
      BY <2>1, <2>2, <2>3, <2>4, ConcatEmptySeq
  <1> HIDE DEF g
  <1>8. Quiet(g)
    BY <1>1, <1>2, <1>3, <1>5, <1>6, <1>7 DEF Quiet
  <1> QED
    BY <1>8, QuietStep

\* CallStates have different names.
LEMMA WhoDiffer ==
  /\ \A n : IrqCall(n) # MainThread /\ ExceptionCall(n) # MainThread
  /\ \A n, k : IrqCall(n) # ExceptionCall(k)
  /\ \A n, k : IrqCall(n) = IrqCall(k) => n = k
  /\ \A n, k : ExceptionCall(n) = ExceptionCall(k) => n = k
  <1>1. /\ \A n : IrqCall(n)[1] = "irq" /\ IrqCall(n)[2] = n
        /\ \A n : ExceptionCall(n)[1] = "exception" /\ ExceptionCall(n)[2] = n
        /\ MainThread[1] = "main"
    BY DEF IrqCall, ExceptionCall, MainThread
  <1> QED
    BY <1>1

\* One more character of the main thread at the end.
LEMMA TrailsGrow ==
  ASSUME NEW s \in Seq(Sending), NEW t \in Seq(Letter), NEW i \in Nat, Trails(s, t, i),
         NEW e \in Sending, e = [by |-> MainThread, c |-> t[i + 1]]
  PROVE  Trails(Append(s, e), t, i + 1)
  <1> DEFINE r == Append(s, e)
             n == Len(s)
  <1>1. /\ n \in Nat /\ Len(r) = n + 1 /\ r[n + 1] = e /\ \A k \in 1 .. n : r[k] = s[k]
    BY AppendProperties, LenProperties
  <1>2. i <= n /\ \A j \in 1 .. i : s[(n - i) + j] = [by |-> MainThread, c |-> t[j]]
    BY DEF Trails
  <1> HIDE DEF r, n
  <1>3. i + 1 <= n + 1 /\ (n + 1) - (i + 1) = n - i
    BY <1>1, <1>2
  <1>4. ASSUME NEW j \in 1 .. (i + 1)
        PROVE  r[(n - i) + j] = [by |-> MainThread, c |-> t[j]]
    <2>1. CASE j = i + 1
      <3>1. (n - i) + j = n + 1
        BY <1>1, <2>1
      <3> QED
        BY <1>1, <2>1, <3>1
    <2>2. CASE j # i + 1
      <3>1. j \in 1 .. i /\ (n - i) + j \in 1 .. n
        BY <1>1, <1>2, <2>2
      <3> QED
        BY <1>1, <1>2, <3>1
    <2> QED
      BY <2>1, <2>2
  <1>5. Trails(r, t, i + 1)
    BY <1>1, <1>3, <1>4 DEF Trails
  <1> QED
    BY <1>5 DEF r

\* A piece stays whole when something is sent after it, and does not depend
\* on a character of another call at the end.
LEMMA WholeGrows ==
  ASSUME NEW s \in Seq(Sending), NEW t \in Seq(Letter), NEW e \in Sending
  PROVE  /\ Whole(s, t) => Whole(Append(s, e), t)
         /\ Whole(Append(s, e), t) /\ e.by # MainThread => Whole(s, t)
  <1> DEFINE r == Append(s, e)
             n == Len(s)
             m == Len(t)
  <1>1. /\ n \in Nat /\ m \in Nat /\ Len(r) = n + 1 /\ r[n + 1] = e
        /\ \A k \in 1 .. n : r[k] = s[k]
    BY AppendProperties, LenProperties
  <1> HIDE DEF r, n, m
  <1>2. ASSUME Whole(s, t) PROVE Whole(r, t)
    <2>1. PICK k \in 0 .. (n - m) :
             \A j \in 1 .. m : s[k + j] = [by |-> MainThread, c |-> t[j]]
      BY <1>2 DEF Whole, n, m
    <2>2. k \in 0 .. ((n + 1) - m) /\ \A j \in 1 .. m : k + j \in 1 .. n
      BY <1>1
    <2>3. \A j \in 1 .. m : r[k + j] = [by |-> MainThread, c |-> t[j]]
      BY <1>1, <2>1, <2>2
    <2> QED
      BY <1>1, <2>2, <2>3 DEF Whole, m
  <1>3. ASSUME Whole(r, t), e.by # MainThread PROVE Whole(s, t)
    <2>1. PICK k \in 0 .. ((n + 1) - m) :
             \A j \in 1 .. m : r[k + j] = [by |-> MainThread, c |-> t[j]]
      BY <1>1, <1>3 DEF Whole, m
    <2>2. CASE m = 0
      <3>1. 0 \in 0 .. (n - m) /\ 1 .. m = {}
        BY <1>1, <2>2
      <3> QED
        BY <3>1 DEF Whole, n, m
    <2>3. CASE m # 0
      <3>1. k # (n + 1) - m
        <4> SUFFICES ASSUME k = (n + 1) - m PROVE FALSE
          OBVIOUS
        <4>1. m \in 1 .. m /\ k + m = n + 1
          BY <1>1, <2>3
        <4>2. e = [by |-> MainThread, c |-> t[m]]
          BY <1>1, <2>1, <4>1
        <4> QED
          BY <1>3, <4>2
      <3>2. k \in 0 .. (n - m) /\ \A j \in 1 .. m : k + j \in 1 .. n
        BY <1>1, <3>1
      <3>3. \A j \in 1 .. m : s[k + j] = [by |-> MainThread, c |-> t[j]]
        BY <1>1, <2>1, <3>2
      <3> QED
        BY <3>2, <3>3 DEF Whole, n, m
    <2> QED
      BY <2>2, <2>3
  <1> QED
    BY <1>2, <1>3 DEF r

\* The lines of the log are texts.
LEMMA LineType ==
  ASSUME NEW b \in Boots, NEW n \in DOMAIN b, b[n].do = "log"
  PROVE  Text(<<"log", n>>, "line", b[n].size) \in Seq(Letter)
  <1> DEFINE w == <<"log", n>>
             s == b[n].size
  <1>1. s \in Nat
    BY MainProgram
  <1>2. b \in Seq(LogCalls \cup Enables)
    BY SerialAssumption DEF LogCalls, Enables
  <1>3. DOMAIN b = 1 .. Len(b)
    BY <1>2, LenProperties
  <1>4. w \in Who
    BY <1>3 DEF Who
  <1> HIDE DEF w, s
  <1>5. Text(w, "line", s) \in Seq(Letter)
    BY <1>1, <1>4, TextType
  <1> QED
    BY <1>5 DEF w, s

\* com_send_char puts the character into the holding register.  A handler
\* finds it empty; the main thread may overwrite a character of a handler.
Written(g, e) ==
    /\ g = [Top EXCEPT !.i = @ + 1, !.c = None, !.ready = FALSE]
    /\ e = [by |-> Top.who, c |-> Top.c]

\* What it does to the call, to the register and to what was sent.
LEMMA OutbFacts ==
  ASSUME SerialInv, Outb, NEW g, NEW e, Written(g, e)
  PROVE  /\ Goes(g) /\ ~ g.ready /\ g.todo = Top.todo /\ g.i = Top.i + 1 /\ Top.i \in Nat
         /\ Top.todo # <<>> /\ Speaks(Head(Top.todo)) /\ Head(Top.todo).text \in Seq(Letter)
         /\ Top.c \in Letter /\ e \in Sending /\ e.by = Top.who /\ e.c = Top.c
         /\ thr' = e /\ wire' = wire /\ Sent' = Append(wire, e)
         /\ Loaded(Top, dbg_buf) =>
               /\ Loaded(g, dbg_buf) /\ Rest(g) \in Seq(Letter)
               /\ Rest(Top) = <<Top.c>> \o Rest(g)
               /\ Head(Top.todo).do = "send_buf" => Top.c = Head(Top.todo).text[Top.i + 1]
         /\ UNCHANGED <<boot, dbg_buf, irqs, hit>>
         /\ lost' = IF thr = None THEN lost ELSE lost \cup {thr}
  <1> DEFINE h == Top
  <1>1. Sound(h) /\ h \in CallStates /\ dbg_buf \in Buffers
    BY TopSound
  <1>2. h.ready
    BY DEF Outb
  <1>3. /\ Becomes(g) /\ thr' = e /\ UNCHANGED <<boot, dbg_buf, wire, irqs, hit>>
        /\ lost' = IF thr = None THEN lost ELSE lost \cup {thr}
    BY DEF Outb, Written
  <1>4. /\ Sound(g) /\ h.c \in Letter /\ h.todo # <<>> /\ Speaks(Head(h.todo))
        /\ g.todo = h.todo /\ g.who = h.who /\ g.i = h.i + 1 /\ g.c = None /\ ~ g.ready
        /\ \A buf : Loaded(h, buf) =>
              /\ Loaded(g, buf) /\ Rest(g) \in Seq(Letter) /\ Rest(h) = <<h.c>> \o Rest(g)
              /\ Head(h.todo).do = "send_buf" => h.c = Head(h.todo).text[h.i + 1]
    BY <1>1, <1>2, Writes DEF Written
  <1>5. e \in Sending /\ e.by = h.who /\ e.c = h.c
    BY <1>1, <1>4 DEF Written, Sending, CallStates
  <1>6. h.i \in Nat
    BY <1>1 DEF CallStates
  <1>7. Goes(g)
    BY <1>1, <1>3, <1>4 DEF Goes
  <1>8. Head(h.todo).text \in Seq(Letter)
    BY <1>1, <1>4, AfterFirst DEF Sound, Operation
  <1>9. Sent' = Append(wire, e)
    BY <1>3, <1>5, NoLetter DEF Sent
  <1> QED
    BY <1>1, <1>3, <1>4, <1>5, <1>6, <1>7, <1>8, <1>9

\* It keeps the main thread ...
LEMMA OutbMainInv ==
  ASSUME SerialInv, Outb, NEW g, NEW e, Written(g, e)
  PROVE  MainInv' /\ LineInv' /\ SerialTypes'
  <1> DEFINE L == Len(calls)
             m == MainCall
  <1>1. Goes(g) /\ ~ g.ready /\ g.todo = Top.todo /\ g.i = Top.i + 1 /\ Top.i \in Nat
    BY OutbFacts
  <1>2. /\ Top.todo # <<>> /\ Speaks(Head(Top.todo)) /\ Head(Top.todo).text \in Seq(Letter)
        /\ e \in Sending /\ e.by = Top.who /\ e.c = Top.c /\ thr' = e
        /\ wire' = wire /\ Sent' = Append(wire, e)
    BY OutbFacts
  <1>3. /\ Loaded(Top, dbg_buf) =>
              /\ Loaded(g, dbg_buf)
              /\ Head(Top.todo).do = "send_buf" => Top.c = Head(Top.todo).text[Top.i + 1]
        /\ UNCHANGED <<boot, dbg_buf, irqs, hit>>
    BY OutbFacts
  <1>4. /\ Len(calls') = L /\ calls'[1] = g /\ calls' \in Seq(CallStates)
        /\ \A k \in 2 .. L : calls'[k] = calls[k]
        /\ Top = calls[1]
    BY <1>1, GoesStack
  <1>5. /\ SerialTypes /\ StackInv /\ HandlerInv /\ MainInv /\ LineInv
        /\ wire \in Seq(Sending) /\ thr \in Sending \cup {None} /\ boot \in Boots
    BY DEF SerialInv, SerialTypes
  <1>6. \/ L = 1 /\ MainCall = calls[1]
        \/ L = 2 /\ MainCall = calls[2] /\ Handler = calls[1]
        \/ L = 3 /\ MainCall = calls[3] /\ Handler = calls[2]
    BY <1>5, Stack
  <1>7. SerialTypes'
    BY <1>2, <1>3, <1>4, <1>5 DEF SerialTypes
  <1>8. Top.ready
    BY DEF Outb
  <1>9. Sent = SentOf(thr, wire)
    BY DEF Sent, SentOf
  <1>10. Sent \in Seq(Sending) /\ (thr = None => Sent = wire) /\
         (thr # None => thr \in Sending /\ Sent = Append(wire, thr))
    BY <1>5, <1>9, SentGrows
  <1>11. CASE L = 1
    <2>1. MainCall' = g /\ m = Top /\ Top.who = MainThread
      BY <1>4, <1>5, <1>6, <1>11 DEF MainCall, StackInv
    <2>2. thr = None \/ thr.by # MainThread
      BY <1>5, <1>8, <2>1 DEF MainInv
    <2>3. /\ \A k \in 1 .. Len(g.todo) : g.todo[k].do \in MainDeeds
          /\ LinesOnly(g.todo)
      BY <1>1, <1>5, <2>1 DEF MainInv
    <2>4. ASSUME Unhit(g)'
          PROVE  /\ Loaded(g, dbg_buf)
                 /\ Head(g.todo).do = "send_buf" => Trails(Sent', Head(g.todo).text, g.i)
      <3>1. Unhit(m)
        BY <1>1, <1>3, <2>1, <2>4 DEF Unhit
      <3>2. /\ Loaded(m, dbg_buf) /\ thr = None
            /\ Head(m.todo).do = "send_buf" => Trails(Sent, Head(m.todo).text, m.i)
        BY <1>5, <1>8, <2>1, <3>1 DEF MainInv
      <3>3. ASSUME Head(g.todo).do = "send_buf"
            PROVE  Trails(Sent', Head(g.todo).text, g.i)
        <4> DEFINE t == Head(m.todo).text
                   i == m.i
        <4>1. Trails(Sent, t, i) /\ t \in Seq(Letter) /\ i \in Nat /\ Sent' = Append(Sent, e)
          BY <1>1, <1>2, <1>10, <2>1, <3>2, <3>3
        <4>2. e = [by |-> MainThread, c |-> t[i + 1]]
          BY <1>1, <1>3, <2>1, <3>2, <3>3 DEF Written
        <4>3. g.i = i + 1 /\ Head(g.todo).text = t
          BY <1>1, <2>1
        <4> HIDE DEF t, i
        <4>4. Trails(Append(Sent, e), t, i + 1)
          BY <1>2, <1>10, <4>1, <4>2, TrailsGrow
        <4> QED
          BY <4>1, <4>3, <4>4
      <3> QED
        BY <1>3, <2>1, <3>2, <3>3
    <2>5. Unhit(MainCall)' => Unhit(g)'
      BY <2>1 DEF Unhit
    <2>6. MainInv'
      BY <1>1, <1>3, <1>4, <1>11, <2>1, <2>3, <2>4, <2>5 DEF MainInv
    <2>7. MainCall'.todo = m.todo
      BY <1>1, <2>1
    <2>8. ASSUME NEW t \in Seq(Letter), Whole(Sent, t) PROVE Whole(Sent', t)
      <3>1. CASE thr = None
        <4>1. Whole(Append(Sent, e), t)
          BY <1>2, <1>10, <2>8, WholeGrows
        <4> QED
          BY <1>2, <1>10, <3>1, <4>1
      <3>2. CASE thr # None
        <4>1. Whole(wire, t)
          BY <1>5, <1>10, <2>2, <2>8, <3>2, WholeGrows
        <4> QED
          BY <1>2, <1>5, <4>1, WholeGrows
      <3> QED
        BY <3>1, <3>2
    <2>9. LineInv'
      <3> SUFFICES ASSUME NEW n \in DOMAIN boot, boot[n].do = "log"
                   PROVE  LET line == Text(<<"log", n>>, "line", boot[n].size)
                          IN line \in hit \/ Has(m.todo, line) \/ Whole(Sent', line)
        BY <1>3, <2>7 DEF LineInv
      <3> DEFINE line == Text(<<"log", n>>, "line", boot[n].size)
      <3>1. line \in hit \/ Has(m.todo, line) \/ Whole(Sent, line)
        BY <1>5 DEF LineInv
      <3>2. line \in Seq(Letter)
        BY <1>5, LineType
      <3> HIDE DEF line
      <3>3. line \in hit \/ Has(m.todo, line) \/ Whole(Sent', line)
        BY <2>8, <3>1, <3>2
      <3> QED
        BY <3>3 DEF line
    <2> QED
      BY <1>7, <2>6, <2>9
  <1>12. CASE L # 1
    <2>1. 1 \in 1 .. (L - 1) /\ L \in 2 .. L
      BY <1>6, <1>12
    <2>2. MainCall' = m
      BY <1>4, <2>1 DEF MainCall
    <2>3. thr = None
      BY <1>4, <1>5, <1>8, <2>1 DEF HandlerInv
    <2>4. Top.who # MainThread
      <3>1. \/ Top.who = IrqCall(irqs)
            \/ Top.who = ExceptionCall(irqs)
        <4>1. CASE L = 2
          BY <1>4, <1>5, <1>6, <4>1 DEF StackInv
        <4>2. CASE L = 3
          BY <1>4, <1>5, <4>2 DEF StackInv
        <4> QED
          BY <1>6, <1>12, <4>1, <4>2
      <3> QED
        BY <3>1, WhoDiffer
    <2>5. ~ Unhit(m) /\ ~ Unhit(MainCall)'
      <3>1. ~ Unhit(m)
        BY <1>5, <1>12 DEF MainInv
      <3> QED
        BY <1>3, <2>2, <3>1 DEF Unhit
    <2>6. MainInv'
      BY <1>2, <1>5, <2>2, <2>4, <2>5 DEF MainInv
    <2>7. ASSUME NEW n \in DOMAIN boot, boot[n].do = "log",
                 Whole(Sent, Text(<<"log", n>>, "line", boot[n].size))
          PROVE  Whole(Sent', Text(<<"log", n>>, "line", boot[n].size))
      <3> DEFINE line == Text(<<"log", n>>, "line", boot[n].size)
      <3>1. line \in Seq(Letter) /\ Whole(Sent, line)
        BY <1>5, <2>7, LineType
      <3> HIDE DEF line
      <3>2. Whole(Append(Sent, e), line)
        BY <1>2, <1>10, <3>1, WholeGrows
      <3> QED
        BY <1>2, <1>10, <2>3, <3>2 DEF line
    <2>8. LineInv'
      BY <1>3, <1>5, <2>2, <2>7 DEF LineInv
    <2> QED
      BY <1>7, <2>6, <2>8
  <1> QED
    BY <1>11, <1>12

\* ... and the reports: a handler's grows by the character; when the main
\* thread writes, a report may lose its last character.
LEMMA OutbReportInv ==
  ASSUME SerialInv, Outb, NEW g, NEW e, Written(g, e)
  PROVE  WriterInv' /\ ReportInv' /\ LostInv'
  <1> DEFINE L == Len(calls)
             h == Top
  <1>1. Goes(g) /\ g.todo = h.todo /\ h.c \in Letter
    BY OutbFacts
  <1>2. /\ e \in Sending /\ e.by = h.who /\ e.c = h.c /\ thr' = e
        /\ Sent' = Append(wire, e)
    BY OutbFacts
  <1>3. /\ Loaded(h, dbg_buf) => Rest(g) \in Seq(Letter) /\ Rest(h) = <<h.c>> \o Rest(g)
        /\ irqs' = irqs /\ lost' = IF thr = None THEN lost ELSE lost \cup {thr}
    BY OutbFacts
  <1>4. /\ Len(calls') = L /\ calls'[1] = g
        /\ \A k \in 2 .. L : calls'[k] = calls[k]
        /\ h = calls[1]
    BY <1>1, GoesStack
  <1>5. /\ SerialTypes /\ StackInv /\ HandlerInv /\ MainInv
        /\ WriterInv /\ ReportInv /\ LostInv
        /\ wire \in Seq(Sending) /\ thr \in Sending \cup {None} /\ irqs \in 0 .. MaxIrqs
        /\ MaxIrqs \in Nat
    BY Lengths DEF SerialInv, SerialTypes
  <1>6. \/ L = 1 /\ MainCall = calls[1]
        \/ L = 2 /\ MainCall = calls[2] /\ Handler = calls[1]
        \/ L = 3 /\ MainCall = calls[3] /\ Handler = calls[2]
    BY <1>5, Stack
  <1>7. h.ready /\ e # None
    BY <1>2, NoLetter DEF Outb
  <1>8. Sent = SentOf(thr, wire) /\ (\A w : Output(w) = By(Sent, w)) /\ (\A w : Output(w)' = By(Sent', w))
    BY DEF Sent, SentOf, Output, By, Own
  <1>9. Sent \in Seq(Sending) /\ (thr = None => Sent = wire) /\
         (thr # None => thr \in Sending /\ Sent = Append(wire, thr))
    BY <1>5, <1>8, SentGrows
  <1>10. \A w : Output(w) \in Seq(Letter)
    BY <1>8, <1>9, ByLetters
  <1>11. \A n : HandlerRuns(n)' = HandlerRuns(n) /\ ExceptionRuns(n)' = ExceptionRuns(n)
    BY <1>3, <1>4 DEF HandlerRuns, ExceptionRuns
  <1>12. Handler' = calls'[L - 1]
    BY <1>4 DEF Handler
  <1>13. CASE thr = None
    <2>1. \A w : Output(w)' = IF h.who = w THEN Append(Output(w), h.c) ELSE Output(w)
      <3> TAKE w
      <3>1. By(Append(wire, e), w) = IF e.by = w THEN Append(By(wire, w), e.c) ELSE By(wire, w)
        BY <1>2, <1>5, ByGrows
      <3> QED
        BY <1>2, <1>8, <1>9, <1>13, <3>1
    <2>2. LostInv'
      BY <1>3, <1>5, <1>13 DEF LostInv
    <2>3. \A n : h.who # IrqCall(n) /\ Reported(n) => Reported(n)'
      BY <1>2, <1>7, <2>1 DEF Reported
    <2>4. CASE L = 1
      <3>1. h.who = MainThread
        BY <1>4, <1>5, <1>6, <2>4 DEF StackInv
      <3>2. WriterInv'
        BY <1>2, <3>1 DEF WriterInv
      <3>3. \A n : Output(IrqCall(n))' = Output(IrqCall(n))
                   /\ Output(ExceptionCall(n))' = Output(ExceptionCall(n))
        BY <2>1, <3>1, WhoDiffer
      <3>4. \A n : ~ HandlerRuns(n) /\ ~ ExceptionRuns(n) /\ h.who # IrqCall(n)
        BY <2>4, <3>1, WhoDiffer DEF HandlerRuns, ExceptionRuns
      <3>5. ReportInv'
        BY <1>3, <1>5, <1>11, <2>3, <3>3, <3>4 DEF ReportInv
      <3> QED
        BY <2>2, <3>2, <3>5
    <2>5. CASE L = 2
      <3>0. L > 1 /\ L # 3 /\ L - 1 = 1 /\ 1 \in 1 .. (L - 1)
        BY <2>5
      <3>1. h.who = IrqCall(irqs) /\ irqs > 0 /\ Handler = h /\ Handler' = g
        BY <1>4, <1>5, <1>6, <1>12, <2>5, <3>0 DEF StackInv
      <3>2. irqs \in 1 .. irqs
        BY <1>5, <3>1
      <3>3. WriterInv'
        BY <1>2, <1>3, <3>1, <3>2 DEF WriterInv
      <3>4. \A n : Output(ExceptionCall(n))' = Output(ExceptionCall(n))
        BY <2>1, <3>1, WhoDiffer
      <3>5. \A n : n # irqs => Output(IrqCall(n))' = Output(IrqCall(n)) /\ h.who # IrqCall(n)
        BY <2>1, <3>1, WhoDiffer
      <3>6. \A n : ~ ExceptionRuns(n) /\ (HandlerRuns(n) <=> n = irqs)
        BY <3>0 DEF HandlerRuns, ExceptionRuns
      <3>7. ASSUME NEW n, n = irqs
            PROVE  Output(IrqCall(n))' \o Rest(g) = Output(IrqCall(n)) \o Rest(h)
        <4>1. Loaded(h, dbg_buf)
          BY <1>4, <1>5, <3>0 DEF HandlerInv
        <4>2. Output(IrqCall(n))' = Append(Output(IrqCall(n)), h.c)
          BY <2>1, <3>1, <3>7
        <4> DEFINE o == Output(IrqCall(n))
                   x == h.c
                   r == Rest(g)
        <4>3. /\ o \in Seq(Letter) /\ x \in Letter /\ r \in Seq(Letter)
              /\ Rest(h) = <<x>> \o r
          BY <1>1, <1>3, <1>10, <4>1
        <4> HIDE DEF o, x, r
        <4>4. o \o (<<x>> \o r) = Append(o, x) \o r
          BY <4>3, Moved
        <4> QED
          BY <4>2, <4>3, <4>4 DEF o, x, r
      <3>8. ReportInv'
        <4> SUFFICES ASSUME NEW n \in 1 .. MaxIrqs
                     PROVE  /\ n > irqs => Output(IrqCall(n))' = <<>>
                            /\ n <= irqs /\ ~ HandlerRuns(n) => Reported(n)'
                            /\ HandlerRuns(n) => Output(IrqCall(n))' \o Rest(g) = Said(Irq(n))
                            /\ Output(ExceptionCall(n))' = <<>>
          BY <1>3, <1>11, <3>1, <3>6 DEF ReportInv
        <4>1. /\ n > irqs => Output(IrqCall(n)) = <<>>
              /\ n <= irqs /\ ~ HandlerRuns(n) => Reported(n)
              /\ HandlerRuns(n) => Output(IrqCall(n)) \o Rest(h) = Said(Irq(n))
              /\ Output(ExceptionCall(n)) = <<>>
          BY <1>5, <3>1, <3>6 DEF ReportInv
        <4>2. n > irqs => n # irqs
          BY <1>5
        <4>3. n > irqs => Output(IrqCall(n))' = <<>>
          BY <3>5, <4>1, <4>2
        <4>4. n <= irqs /\ ~ HandlerRuns(n) => Reported(n)'
          BY <2>3, <3>5, <3>6, <4>1
        <4>5. HandlerRuns(n) => Output(IrqCall(n))' \o Rest(g) = Said(Irq(n))
          BY <3>6, <3>7, <4>1
        <4> QED
          BY <3>4, <4>1, <4>3, <4>4, <4>5
      <3> QED
        BY <2>2, <3>3, <3>8
    <2>6. CASE L = 3
      <3>0. L > 1 /\ L - 1 = 2 /\ 1 \in 1 .. (L - 1) /\ 2 \in 2 .. L
        BY <2>6
      <3>1. h.who = ExceptionCall(irqs) /\ irqs > 0 /\ Handler' = Handler
        BY <1>4, <1>5, <1>6, <1>12, <2>6, <3>0 DEF StackInv
      <3>3. WriterInv'
        BY <1>2, <1>3, <1>4, <2>6, <3>1 DEF WriterInv
      <3>4. \A n : Output(IrqCall(n))' = Output(IrqCall(n)) /\ h.who # IrqCall(n)
        BY <2>1, <3>1, WhoDiffer
      <3>5. \A n : n # irqs => Output(ExceptionCall(n))' = Output(ExceptionCall(n))
        BY <2>1, <3>1, WhoDiffer
      <3>6. \A n : (ExceptionRuns(n) <=> n = irqs) /\ (HandlerRuns(n) <=> n = irqs)
        BY <2>6, <3>0 DEF HandlerRuns, ExceptionRuns
      <3>7. ASSUME NEW n, n = irqs
            PROVE  Output(ExceptionCall(n))' \o Rest(g) = Output(ExceptionCall(n)) \o Rest(h)
        <4>1. Loaded(h, dbg_buf)
          BY <1>4, <1>5, <3>0 DEF HandlerInv
        <4>2. Output(ExceptionCall(n))' = Append(Output(ExceptionCall(n)), h.c)
          BY <2>1, <3>1, <3>7
        <4> DEFINE o == Output(ExceptionCall(n))
                   x == h.c
                   r == Rest(g)
        <4>3. /\ o \in Seq(Letter) /\ x \in Letter /\ r \in Seq(Letter)
              /\ Rest(h) = <<x>> \o r
          BY <1>1, <1>3, <1>10, <4>1
        <4> HIDE DEF o, x, r
        <4>4. o \o (<<x>> \o r) = Append(o, x) \o r
          BY <4>3, Moved
        <4> QED
          BY <4>2, <4>3, <4>4 DEF o, x, r
      <3>8. ReportInv'
        <4> SUFFICES ASSUME NEW n \in 1 .. MaxIrqs
                     PROVE  /\ n > irqs => Output(IrqCall(n))' = <<>>
                            /\ n <= irqs /\ ~ HandlerRuns(n) => Reported(n)'
                            /\ HandlerRuns(n) => Output(IrqCall(n))' \o Rest(Handler) = Said(Irq(n))
                            /\ ~ ExceptionRuns(n) => Output(ExceptionCall(n))' = <<>>
                            /\ ExceptionRuns(n) =>
                                  Output(ExceptionCall(n))' \o Rest(g) = Said(Exception(n))
          BY <1>3, <1>4, <1>11, <3>1 DEF ReportInv
        <4>1. /\ n > irqs => Output(IrqCall(n)) = <<>>
              /\ n <= irqs /\ ~ HandlerRuns(n) => Reported(n)
              /\ HandlerRuns(n) => Output(IrqCall(n)) \o Rest(Handler) = Said(Irq(n))
              /\ ~ ExceptionRuns(n) => Output(ExceptionCall(n)) = <<>>
              /\ ExceptionRuns(n) => Output(ExceptionCall(n)) \o Rest(h) = Said(Exception(n))
          BY <1>4, <1>5 DEF ReportInv
        <4> QED
          BY <2>3, <3>4, <3>5, <3>6, <3>7, <4>1
      <3> QED
        BY <2>2, <3>3, <3>8
    <2> QED
      BY <1>6, <2>4, <2>5, <2>6
  <1>14. CASE thr # None
    <2>1. L = 1
      <3> SUFFICES ASSUME L # 1 PROVE FALSE
        OBVIOUS
      <3>1. 1 \in 1 .. (L - 1)
        BY <1>6
      <3> QED
        BY <1>4, <1>5, <1>7, <1>14, <3>1 DEF HandlerInv
    <2>2. h.who = MainThread /\ thr.by # MainThread
      BY <1>4, <1>5, <1>6, <1>7, <1>14, <2>1 DEF StackInv, MainInv
    <2>3. PICK k \in 1 .. irqs : thr.by = IrqCall(k)
      BY <1>5, <1>14, <2>1, <2>2 DEF WriterInv
    <2>4. k \in 1 .. MaxIrqs /\ k <= irqs /\ k \in Nat
      BY <1>5
    <2>5. WriterInv'
      BY <1>2, <2>2 DEF WriterInv
    <2>6. \A w : w # MainThread => Output(w)' = By(wire, w)
      <3> TAKE w
      <3>1. By(Append(wire, e), w) = IF e.by = w THEN Append(By(wire, w), e.c) ELSE By(wire, w)
        BY <1>2, <1>5, ByGrows
      <3> QED
        BY <1>2, <1>8, <2>2, <3>1
    <2>7. \A w : Output(w) = IF thr.by = w THEN Append(By(wire, w), thr.c) ELSE By(wire, w)
      <3> TAKE w
      <3>1. By(Append(wire, thr), w) = IF thr.by = w THEN Append(By(wire, w), thr.c) ELSE By(wire, w)
        BY <1>5, <1>9, <1>14, ByGrows
      <3> QED
        BY <1>8, <1>9, <1>14, <3>1
    <2>8. /\ \A n : Output(ExceptionCall(n))' = Output(ExceptionCall(n))
          /\ \A n : n # k => Output(IrqCall(n))' = Output(IrqCall(n))
          /\ Output(IrqCall(k)) = Append(Output(IrqCall(k))', thr.c)
      BY <2>3, <2>6, <2>7, WhoDiffer
    <2>9. \A n : ~ HandlerRuns(n) /\ ~ ExceptionRuns(n)
      BY <2>1 DEF HandlerRuns, ExceptionRuns
    <2>10. Output(IrqCall(k)) = Said(Irq(k))
      <3>1. Reported(k)
        BY <1>5, <2>4, <2>9 DEF ReportInv
      <3> QED
        BY <1>14, <2>3, <3>1 DEF Reported
    <2>11. Last(Said(Irq(k))) = thr.c
      <3> DEFINE o == By(wire, IrqCall(k))
                 x == thr.c
      <3>1. o \in Seq(Letter)
        BY <1>5, ByLetters
      <3>2. Said(Irq(k)) = Append(o, x)
        BY <2>3, <2>7, <2>10
      <3> HIDE DEF o, x
      <3>3. Len(Append(o, x)) = Len(o) + 1 /\ Append(o, x)[Len(o) + 1] = x
        BY <3>1
      <3> QED
        BY <3>2, <3>3 DEF Last, x
    <2>12. LostInv'
      <3>1. thr = [by |-> IrqCall(k), c |-> Last(Said(Irq(k)))]
        BY <1>9, <1>14, <2>3, <2>11 DEF Sending
      <3> QED
        BY <1>3, <1>5, <1>14, <3>1 DEF LostInv
    <2>13. Reported(k)'
      <3>1. e.by # IrqCall(k)
        BY <1>2, <2>2, WhoDiffer
      <3> QED
        BY <1>2, <2>8, <2>10, <2>11, <3>1 DEF Reported
    <2>14. \A n : n # k /\ Reported(n) => Reported(n)'
      <3>1. \A n : e.by # IrqCall(n)
        BY <1>2, <2>2, WhoDiffer
      <3> QED
        BY <1>2, <2>8, <3>1 DEF Reported
    <2>15. ReportInv'
      <3> SUFFICES ASSUME NEW n \in 1 .. MaxIrqs
                   PROVE  /\ n > irqs => Output(IrqCall(n))' = <<>>
                          /\ n <= irqs => Reported(n)'
                          /\ Output(ExceptionCall(n))' = <<>>
        BY <1>3, <1>11, <2>9 DEF ReportInv
      <3>1. /\ n > irqs => Output(IrqCall(n)) = <<>>
            /\ n <= irqs => Reported(n)
            /\ Output(ExceptionCall(n)) = <<>>
        BY <1>5, <2>9 DEF ReportInv
      <3>2. n > irqs => n # k
        BY <1>5, <2>4
      <3> QED
        BY <2>8, <2>13, <2>14, <3>1, <3>2
    <2> QED
      BY <2>5, <2>12, <2>15
  <1> QED
    BY <1>13, <1>14

\* So it keeps the invariant.
LEMMA OutbStep ==
  ASSUME SerialInv, Outb
  PROVE  SerialInv'
  <1> DEFINE g == [Top EXCEPT !.i = @ + 1, !.c = None, !.ready = FALSE]
             e == [by |-> Top.who, c |-> Top.c]
  <1>1. Written(g, e)
    BY DEF Written
  <1> HIDE DEF g, e
  <1>2. StackInv' /\ HandlerInv'
    BY <1>1, OutbFacts, GoesStackInv
  <1> QED
    BY <1>1, <1>2, OutbMainInv, OutbReportInv DEF SerialInv

\* A call that starts has everything ahead and nothing in the buffer.
LEMMA Starts ==
  ASSUME NEW w \in Who, NEW Ds, NEW p, Piece(p, Ds)
  PROVE  /\ Sound(Call(w, p)) /\ Call(w, p).who = w /\ Call(w, p).todo = p
         /\ Call(w, p).i = 0 /\ Call(w, p).c = None /\ ~ Call(w, p).ready
         /\ Rest(Call(w, p)) = Said(p) /\ \A buf : Loaded(Call(w, p), buf)
  <1> DEFINE d == Call(w, p)
  <1>1. /\ d.who = w /\ d.todo = p /\ d.i = 0 /\ d.c = None /\ ~ d.ready
        /\ p \in Seq(Operation) /\ Program(p)
    BY DEF Call, Piece, Program
  <1>2. d \in CallStates
    BY <1>1 DEF Call, CallStates
  <1> HIDE DEF d
  <1>3. p # <<>> => Head(p) = p[1] /\ Head(p).do # "send_buf" /\ Len(Head(p).text) \in Nat
    <2>1. p # <<>> => Head(p) = p[1] /\ Head(p) \in Operation
      BY <1>1, AfterFirst
    <2> QED
      BY <2>1, LenProperties DEF Piece, Operation
  <1>4. Place(d)
    BY <1>1, <1>3 DEF Place
  <1>5. Rest(d) = Said(p)
    BY <1>1, RestFresh
  <1>6. ASSUME NEW buf PROVE Loaded(d, buf)
    <2>1. 0 .. (0 - 1) = {}
      OBVIOUS
    <2> QED
      BY <1>1, <1>3, <2>1 DEF Loaded
  <1> QED
    BY <1>1, <1>2, <1>4, <1>5, <1>6 DEF d, Sound

\* The transmitter takes a character: what was sent stays.
LEMMA TransmitStep ==
  ASSUME SerialInv, Transmit
  PROVE  SerialInv'
  <1>1. /\ thr # None /\ wire' = Append(wire, thr) /\ thr' = None
        /\ UNCHANGED <<boot, calls, dbg_buf, lost, irqs, hit>>
    BY DEF Transmit
  <1>2. /\ SerialTypes /\ StackInv /\ HandlerInv /\ MainInv
        /\ WriterInv /\ ReportInv /\ LostInv /\ LineInv
    BY DEF SerialInv
  <1>3. Sent' = Sent
    BY <1>1 DEF Sent
  <1>4. \A w : Output(w)' = Output(w)
    BY <1>3 DEF Output
  <1>5. SerialTypes'
    <2>1. Append(wire, thr) \in Seq(Sending)
      BY <1>1, <1>2, AppendProperties DEF SerialTypes
    <2> QED
      BY <1>1, <1>2, <2>1 DEF SerialTypes
  <1>6. MainCall' = MainCall /\ Handler' = Handler
    BY <1>1 DEF MainCall, Handler
  <1>7. StackInv'
    BY <1>1, <1>2, <1>6 DEF StackInv
  <1>8. HandlerInv'
    BY <1>1, <1>2 DEF HandlerInv
  <1>9. MainInv'
    <2>1. Unhit(MainCall)' => Unhit(MainCall)
      BY <1>1, <1>6 DEF Unhit
    <2> QED
      BY <1>1, <1>2, <1>3, <1>6, <2>1 DEF MainInv
  <1>10. WriterInv'
    BY <1>1 DEF WriterInv
  <1>11. ReportInv'
    <2>1. \A n : HandlerRuns(n)' = HandlerRuns(n) /\ ExceptionRuns(n)' = ExceptionRuns(n)
      BY <1>1 DEF HandlerRuns, ExceptionRuns
    <2>2. \A n : Reported(n) => Reported(n)'
      BY <1>1, <1>4 DEF Reported
    <2> QED
      BY <1>1, <1>2, <1>4, <1>6, <2>1, <2>2 DEF ReportInv
  <1>12. LostInv'
    BY <1>1, <1>2 DEF LostInv
  <1>13. LineInv'
    BY <1>1, <1>2, <1>3, <1>6 DEF LineInv
  <1> QED
    BY <1>5, <1>7, <1>8, <1>9, <1>10, <1>11, <1>12, <1>13 DEF SerialInv

\* A call is put on top of the stack.
LEMMA Pushed ==
  ASSUME SerialTypes, NEW d \in CallStates, calls' = <<d>> \o calls, Len(calls) < 3
  PROVE  /\ calls' \in Seq(CallStates) /\ Len(calls') = Len(calls) + 1 /\ Len(calls') \in 1 .. 3
         /\ calls'[1] = d /\ \A k \in 1 .. Len(calls) : calls'[k + 1] = calls[k]
         /\ MainCall' = MainCall
  <1>1. calls \in Seq(CallStates) /\ Len(calls) \in 1 .. 3
    BY DEF SerialTypes
  <1>2. /\ calls' \in Seq(CallStates) /\ Len(calls') = Len(calls) + 1 /\ calls'[1] = d
        /\ \A k \in 1 .. Len(calls) : calls'[k + 1] = calls[k]
    BY <1>1, InFront
  <1>3. Len(calls) \in 1 .. Len(calls) /\ Len(calls) + 1 \in 1 .. 3
    BY <1>1
  <1>4. MainCall' = MainCall
    BY <1>2, <1>3 DEF MainCall
  <1> QED
    BY <1>2, <1>3, <1>4

\* An interrupt hits the line that is being written, and only the main thread.
LEMMA InterruptStep ==
  ASSUME SerialInv, Interrupt
  PROVE  SerialInv'
  <1> DEFINE n0 == irqs + 1
             d == Call(IrqCall(n0), Irq(n0))
             m == MainCall
  <1>1. /\ Len(calls) = 1 /\ irqs < MaxIrqs /\ irqs' = n0 /\ calls' = <<d>> \o calls
        /\ hit' = (IF Top.todo # <<>> /\ Now.do \in {"format", "send_buf"}
                   THEN hit \cup {Now.text} ELSE hit)
        /\ UNCHANGED <<boot, dbg_buf, thr, wire, lost>>
    BY DEF Interrupt, IrqCall
  <1>2. /\ SerialTypes /\ StackInv /\ HandlerInv /\ MainInv
        /\ WriterInv /\ ReportInv /\ LostInv /\ LineInv /\ irqs \in 0 .. MaxIrqs
        /\ MaxIrqs \in Nat
    BY Lengths DEF SerialInv, SerialTypes
  <1>3. n0 \in Nat /\ n0 \in 1 .. MaxIrqs /\ n0 > irqs /\ n0 \in 0 .. MaxIrqs
    BY <1>1, <1>2
  <1>4. /\ IrqCall(n0) \in Who /\ Piece(Irq(n0), IrqDeeds) /\ Ends(Irq(n0))
    BY <1>3, HandlerPrograms
  <1>5. /\ Sound(d) /\ d.who = IrqCall(n0) /\ d.todo = Irq(n0) /\ ~ d.ready
        /\ Rest(d) = Said(Irq(n0)) /\ Loaded(d, dbg_buf)
    BY <1>4, Starts
  <1>14. n0 > 0 /\ n0 = irqs + 1
    BY <1>3, <1>2
  <1> HIDE DEF d, n0
  <1>6. /\ calls' \in Seq(CallStates) /\ Len(calls') = 2 /\ calls'[1] = d /\ calls'[2] = calls[1]
        /\ MainCall' = m /\ m = calls[1] /\ Top = m /\ Handler' = d
    <2>1. d \in CallStates /\ Len(calls) < 3
      BY <1>1, <1>5 DEF Sound
    <2>2. /\ calls' \in Seq(CallStates) /\ Len(calls') = Len(calls) + 1
          /\ calls'[1] = d /\ \A k \in 1 .. Len(calls) : calls'[k + 1] = calls[k]
          /\ MainCall' = MainCall
      BY <1>1, <1>2, <2>1, Pushed
    <2>3. Top = calls[1]
      BY <1>2, Stack
    <2>4. 1 + 1 = 2 /\ 1 \in 1 .. 1 /\ 2 - 1 = 1
      OBVIOUS
    <2>5. Len(calls') = 2 /\ calls'[2] = calls[1] /\ m = calls[1]
      BY <1>1, <2>2, <2>4 DEF MainCall
    <2>6. Handler' = d
      BY <2>2, <2>4, <2>5 DEF Handler
    <2> QED
      BY <2>2, <2>3, <2>5, <2>6
  <1>7. Sent' = Sent /\ \A w : Output(w)' = Output(w)
    BY <1>1 DEF Sent, Output
  <1>8. SerialTypes'
    BY <1>1, <1>2, <1>3, <1>6 DEF SerialTypes
  <1>9. StackInv'
    <2>1. \A k \in 1 .. 2 : Sound(calls'[k])
      <3>1. Sound(calls[1])
        BY <1>1, <1>2 DEF StackInv
      <3>2. \A k \in 1 .. 2 : k = 1 \/ k = 2
        OBVIOUS
      <3> QED
        BY <1>5, <1>6, <3>1, <3>2
    <2>2. m.who = MainThread
      BY <1>2 DEF StackInv
    <2> QED
      BY <1>1, <1>5, <1>6, <1>14, <2>1, <2>2 DEF StackInv
  <1>10. HandlerInv'
    <2>1. \A k \in 1 .. (2 - 1) : k = 1
      OBVIOUS
    <2> QED
      BY <1>1, <1>4, <1>5, <1>6, <2>1 DEF HandlerInv
  <1>11. MainInv'
    <2>1. ~ Unhit(MainCall)'
      BY <1>1, <1>6 DEF Unhit, Now
    <2> QED
      BY <1>1, <1>2, <1>6, <2>1 DEF MainInv
  <1>12. \A n \in 1 .. irqs : n \in 1 .. n0
    BY <1>2, <1>14
  <1>13. WriterInv' /\ LostInv'
    BY <1>1, <1>2, <1>12 DEF WriterInv, LostInv
  <1>15. ReportInv'
    <2>1. \A n : ~ HandlerRuns(n) /\ ~ ExceptionRuns(n)
      BY <1>1 DEF HandlerRuns, ExceptionRuns
    <2>2. \A n : ~ ExceptionRuns(n)' /\ (HandlerRuns(n)' <=> n = n0)
      BY <1>1, <1>6 DEF HandlerRuns, ExceptionRuns
    <2>3. \A n : Reported(n)' = Reported(n)
      BY <1>1, <1>7 DEF Reported
    <2> SUFFICES ASSUME NEW n \in 1 .. MaxIrqs
                 PROVE  /\ n > n0 => Output(IrqCall(n)) = <<>>
                        /\ n <= n0 /\ n # n0 => Reported(n)
                        /\ n = n0 => Output(IrqCall(n)) \o Rest(d) = Said(Irq(n))
                        /\ Output(ExceptionCall(n)) = <<>>
      BY <1>1, <1>6, <1>7, <2>2, <2>3 DEF ReportInv
    <2>4. /\ n > irqs => Output(IrqCall(n)) = <<>>
          /\ n <= irqs => Reported(n)
          /\ Output(ExceptionCall(n)) = <<>>
      BY <1>2, <2>1 DEF ReportInv
    <2>5. (n > n0 => n > irqs) /\ (n <= n0 /\ n # n0 => n <= irqs) /\ (n = n0 => n > irqs)
      BY <1>2, <1>14
    <2>6. Said(Irq(n0)) \in Seq(Letter)
      BY <1>4, SaidFirst DEF Piece, Program
    <2>7. <<>> \o Said(Irq(n0)) = Said(Irq(n0))
      BY <2>6, ConcatEmptySeq
    <2> QED
      BY <1>5, <2>4, <2>5, <2>7
  <1>16. LineInv'
    <2>1. \A t \in hit : t \in hit'
      BY <1>1
    <2> QED
      BY <1>1, <1>2, <1>6, <1>7, <2>1 DEF LineInv
  <1> QED
    BY <1>8, <1>9, <1>10, <1>11, <1>13, <1>15, <1>16 DEF SerialInv

\* Only a handler of an interrupt returns or looks for a name beyond the
\* table of exceptions, and no other call runs on top of it then.
LEMMA OnlyIrq ==
  ASSUME SerialInv, Top.todo # <<>>, Now.do \in {"iret", "name_irq"}
  PROVE  Len(calls) = 2
  <1>1. SerialTypes /\ StackInv /\ MainInv
    BY DEF SerialInv
  <1>2. Sound(Top) /\ Top = calls[1]
    BY TopSound
  <1>3. Now = Top.todo[1] /\ 1 \in 1 .. Len(Top.todo)
    BY <1>2, AfterFirst DEF Now, Sound
  <1>4. \/ Len(calls) = 1 /\ MainCall = calls[1]
        \/ Len(calls) = 2
        \/ Len(calls) = 3
    BY <1>1, Stack
  <1>5. Now.do \notin MainDeeds /\ Now.do \notin PlainDeeds
    BY DEF MainDeeds, PlainDeeds
  <1>6. Len(calls) # 1
    BY <1>1, <1>2, <1>3, <1>4, <1>5 DEF MainInv
  <1>7. Len(calls) # 3
    BY <1>1, <1>2, <1>3, <1>5 DEF StackInv
  <1> QED
    BY <1>4, <1>6, <1>7

\* A handler that is about to halt or to return has said everything.
LEMMA AtEnd ==
  ASSUME NEW p, Program(p), Ends(p), p # <<>>, Head(p).do \in {"halt", "iret"}
  PROVE  Said(p) = <<>>
  <1>1. /\ p \in Seq(Operation) /\ Head(p) = p[1] /\ 1 \in 1 .. Len(p) /\ Len(p) \in Nat
        /\ Len(Tail(p)) = Len(p) - 1 /\ Tail(p) \in Seq(Operation)
    BY AfterFirst DEF Program
  <1>2. 1 = Len(p)
    BY <1>1 DEF Ends
  <1>3. Len(Tail(p)) = 0
    <2> DEFINE n == Len(p)
               k == Len(Tail(p))
    <2>1. k = n - 1 /\ n = 1
      BY <1>1, <1>2
    <2> HIDE DEF n, k
    <2>2. k = 0
      BY <2>1
    <2> QED
      BY <2>2 DEF k
  <1>4. Tail(p) = <<>>
    BY <1>1, <1>3, EmptySeq
  <1>5. Voice(Head(p)) = <<>>
    BY DEF Voice
  <1>6. Said(p) = <<>> \o <<>>
    BY <1>1, <1>4, <1>5, SaidFirst
  <1> QED
    BY <1>6

\* A handler returns when its report is out.
LEMMA IretStep ==
  ASSUME SerialInv, Iret
  PROVE  SerialInv'
  <1> DEFINE h == Top
             m == MainCall
  <1>1. /\ h.todo # <<>> /\ Now.do = "iret" /\ calls' = Tail(calls)
        /\ UNCHANGED <<boot, dbg_buf, thr, wire, lost, irqs, hit>>
    BY DEF Iret, Runs
  <1>2. /\ SerialTypes /\ StackInv /\ HandlerInv /\ MainInv
        /\ WriterInv /\ ReportInv /\ LostInv /\ LineInv /\ calls \in Seq(CallStates)
    BY DEF SerialInv, SerialTypes
  <1>3. Len(calls) = 2
    BY <1>1, OnlyIrq
  <1>4. Sound(h) /\ h = calls[1] /\ calls # <<>>
    BY TopSound
  <1>5. m = calls[2] /\ Handler = h
    BY <1>2, <1>3, <1>4, Stack
  <1>6. /\ calls' \in Seq(CallStates) /\ Len(calls') = 1 /\ calls'[1] = m /\ MainCall' = m
    <2>1. /\ Tail(calls) \in Seq(CallStates) /\ Len(Tail(calls)) = Len(calls) - 1
          /\ \A k \in 1 .. (Len(calls) - 1) : Tail(calls)[k] = calls[k + 1]
      BY <1>2, <1>4, HeadAndTail
    <2>2. 2 - 1 = 1 /\ 1 \in 1 .. 1 /\ 1 + 1 = 2
      OBVIOUS
    <2>3. calls' \in Seq(CallStates) /\ Len(calls') = 1 /\ calls'[1] = m
      BY <1>1, <1>3, <1>5, <2>1, <2>2
    <2> QED
      BY <2>3 DEF MainCall
  <1>7. Sent' = Sent /\ \A w : Output(w)' = Output(w)
    BY <1>1 DEF Sent, Output
  <1>8. Rest(h) = <<>>
    <2>1. Head(h.todo).do = "iret" /\ ~ Speaks(Head(h.todo))
      BY <1>1 DEF Now, Speaks
    <2>2. Ends(h.todo)
      <3>1. 1 \in 1 .. (2 - 1)
        OBVIOUS
      <3> QED
        BY <1>2, <1>3, <1>4, <3>1 DEF HandlerInv
    <2>3. Said(h.todo) = <<>>
      BY <1>1, <1>4, <2>1, <2>2, AtEnd DEF Sound
    <2> QED
      BY <2>1, <2>3 DEF Rest
  <1>9. SerialTypes'
    BY <1>1, <1>2, <1>6 DEF SerialTypes
  <1>10. StackInv'
    <2>1. Sound(m) /\ m.who = MainThread
      <3>1. 2 \in 1 .. 2
        OBVIOUS
      <3> QED
        BY <1>2, <1>3, <1>5, <3>1 DEF StackInv
    <2>2. ~ (1 > 1) /\ 1 # 3 /\ \A k \in 1 .. 1 : k = 1
      OBVIOUS
    <2> QED
      BY <1>6, <2>1, <2>2 DEF StackInv
  <1>11. HandlerInv'
    <2>1. 1 .. (1 - 1) = {}
      OBVIOUS
    <2> QED
      BY <1>6, <2>1 DEF HandlerInv
  <1>12. MainInv'
    <2>1. ~ Unhit(m)
      BY <1>2, <1>3 DEF MainInv
    <2>2. ~ Unhit(MainCall)'
      BY <1>1, <1>6, <2>1 DEF Unhit
    <2> QED
      BY <1>1, <1>2, <1>6, <2>2 DEF MainInv
  <1>13. WriterInv' /\ LostInv'
    BY <1>1, <1>2, <1>3 DEF WriterInv, LostInv
  <1>14. ReportInv'
    <2>1. \A n : ~ ExceptionRuns(n) /\ (HandlerRuns(n) <=> n = irqs)
      BY <1>3 DEF HandlerRuns, ExceptionRuns
    <2>2. \A n : ~ ExceptionRuns(n)' /\ ~ HandlerRuns(n)'
      BY <1>6 DEF HandlerRuns, ExceptionRuns
    <2>3. \A n : Reported(n)' = Reported(n)
      BY <1>1, <1>7 DEF Reported
    <2> SUFFICES ASSUME NEW n \in 1 .. MaxIrqs
                 PROVE  /\ n > irqs => Output(IrqCall(n)) = <<>>
                        /\ n <= irqs => Reported(n)
                        /\ Output(ExceptionCall(n)) = <<>>
      BY <1>1, <1>6, <1>7, <2>2, <2>3 DEF ReportInv
    <2>4. /\ n > irqs => Output(IrqCall(n)) = <<>>
          /\ n <= irqs /\ n # irqs => Reported(n)
          /\ n = irqs => Output(IrqCall(n)) \o <<>> = Said(Irq(n))
          /\ Output(ExceptionCall(n)) = <<>>
      BY <1>2, <1>5, <1>8, <2>1 DEF ReportInv
    <2>5. n = irqs => Reported(n)
      <3> SUFFICES ASSUME n = irqs PROVE Reported(n)
        OBVIOUS
      <3> DEFINE o == Output(IrqCall(n))
      <3>1. o \in Seq(Letter)
        <4>1. Sent = SentOf(thr, wire) /\ o = By(Sent, IrqCall(n))
          BY DEF Sent, SentOf, Output, By, Own
        <4>2. Sent \in Seq(Sending)
          BY <1>2, <4>1, SentGrows DEF SerialTypes
        <4> QED
          BY <4>1, <4>2, ByLetters
      <3>2. o \o <<>> = Said(Irq(n))
        BY <2>4
      <3> HIDE DEF o
      <3>3. o = Said(Irq(n))
        BY <3>1, <3>2, ConcatEmptySeq
      <3> QED
        BY <3>3 DEF Reported, o
    <2> QED
      BY <2>4, <2>5
  <1>15. LineInv'
    BY <1>1, <1>2, <1>6, <1>7 DEF LineInv
  <1> QED
    BY <1>9, <1>10, <1>11, <1>12, <1>13, <1>14, <1>15 DEF SerialInv

\* A fault in the handler of an interrupt.
LEMMA FaultStep ==
  ASSUME SerialInv, Fault
  PROVE  SerialInv'
  <1> DEFINE h == Top
             m == MainCall
             d == Call(ExceptionCall(irqs), Exception(irqs))
  <1>1. /\ h.todo # <<>> /\ Now.do = "name_irq" /\ h.i = 0 /\ calls' = <<d>> \o calls
        /\ UNCHANGED <<boot, dbg_buf, thr, wire, lost, irqs, hit>>
    BY DEF Fault, Runs, ExceptionCall
  <1>2. /\ SerialTypes /\ StackInv /\ HandlerInv /\ MainInv
        /\ WriterInv /\ ReportInv /\ LostInv /\ LineInv /\ irqs \in 0 .. MaxIrqs
        /\ MaxIrqs \in Nat /\ irqs \in Nat
    BY Lengths DEF SerialInv, SerialTypes
  <1>3. Len(calls) = 2
    BY <1>1, OnlyIrq
  <1>4. Sound(h) /\ h = calls[1]
    BY TopSound
  <1>5. m = calls[2] /\ Handler = h
    BY <1>2, <1>3, <1>4, Stack
  <1>6. /\ ExceptionCall(irqs) \in Who /\ Piece(Exception(irqs), PlainDeeds)
        /\ Ends(Exception(irqs))
    BY <1>2, HandlerPrograms
  <1>7. /\ Sound(d) /\ d.who = ExceptionCall(irqs) /\ d.todo = Exception(irqs) /\ ~ d.ready
        /\ Rest(d) = Said(Exception(irqs)) /\ Loaded(d, dbg_buf)
    BY <1>6, Starts
  <1> HIDE DEF d
  <1>8. /\ calls' \in Seq(CallStates) /\ Len(calls') = 3 /\ calls'[1] = d /\ calls'[2] = h
        /\ calls'[3] = m /\ MainCall' = m /\ Handler' = h
    <2>1. d \in CallStates /\ Len(calls) < 3
      BY <1>3, <1>7 DEF Sound
    <2>2. /\ calls' \in Seq(CallStates) /\ Len(calls') = Len(calls) + 1
          /\ calls'[1] = d /\ \A k \in 1 .. Len(calls) : calls'[k + 1] = calls[k]
          /\ MainCall' = MainCall
      BY <1>1, <1>2, <2>1, Pushed
    <2>4. 1 + 1 = 2 /\ 2 + 1 = 3 /\ 1 \in 1 .. 2 /\ 2 \in 1 .. 2 /\ 3 - 1 = 2
      OBVIOUS
    <2>5. Len(calls') = 3 /\ calls'[2] = h /\ calls'[3] = m
      BY <1>3, <1>4, <1>5, <2>2, <2>4
    <2>6. Handler' = h
      BY <2>4, <2>5 DEF Handler
    <2> QED
      BY <2>2, <2>5, <2>6
  <1>9. Sent' = Sent /\ \A w : Output(w)' = Output(w)
    BY <1>1 DEF Sent, Output
  <1>10. SerialTypes'
    BY <1>1, <1>2, <1>8 DEF SerialTypes
  <1>11. h.c = None /\ Buffered(Head(h.todo)) /\ ~ h.ready
    <2>1. Buffered(Head(h.todo)) /\ ~ Speaks(Head(h.todo))
      BY <1>1 DEF Now, Buffered, Speaks
    <2> QED
      BY <1>4, <2>1 DEF Sound, Place
  <1>12. StackInv'
    <2>1. \A k \in 1 .. 3 : Sound(calls'[k])
      <3>1. Sound(m)
        <4>1. 2 \in 1 .. 2
          OBVIOUS
        <4> QED
          BY <1>2, <1>3, <1>5, <4>1 DEF StackInv
      <3>2. \A k \in 1 .. 3 : k = 1 \/ k = 2 \/ k = 3
        OBVIOUS
      <3> QED
        BY <1>4, <1>7, <1>8, <3>1, <3>2
    <2>2. m.who = MainThread /\ irqs > 0 /\ h.who = IrqCall(irqs)
      <3>1. 2 > 1
        OBVIOUS
      <3> QED
        BY <1>2, <1>3, <1>5, <3>1 DEF StackInv
    <2>3. \A k \in 1 .. Len(d.todo) : d.todo[k].do \in PlainDeeds
      BY <1>6, <1>7 DEF Piece
    <2> QED
      BY <1>1, <1>7, <1>8, <1>11, <2>1, <2>2, <2>3 DEF StackInv
  <1>13. HandlerInv'
    <2>1. \A k \in 1 .. (3 - 1) : k = 1 \/ k = 2
      OBVIOUS
    <2>2. Ends(h.todo) /\ Loaded(h, dbg_buf)
      <3>1. 1 \in 1 .. (2 - 1)
        OBVIOUS
      <3> QED
        BY <1>2, <1>3, <1>4, <3>1 DEF HandlerInv
    <2> QED
      BY <1>1, <1>6, <1>7, <1>8, <1>11, <2>1, <2>2 DEF HandlerInv
  <1>14. MainInv'
    <2>1. ~ Unhit(m)
      BY <1>2, <1>3 DEF MainInv
    <2>2. ~ Unhit(MainCall)'
      BY <1>1, <1>8, <2>1 DEF Unhit
    <2> QED
      BY <1>1, <1>2, <1>8, <2>2 DEF MainInv
  <1>15. WriterInv' /\ LostInv'
    BY <1>1, <1>2, <1>3 DEF WriterInv, LostInv
  <1>16. ReportInv'
    <2>1. \A n : ~ ExceptionRuns(n) /\ (HandlerRuns(n) <=> n = irqs)
      BY <1>3 DEF HandlerRuns, ExceptionRuns
    <2>2. \A n : (ExceptionRuns(n)' <=> n = irqs) /\ (HandlerRuns(n)' <=> n = irqs)
      BY <1>1, <1>8 DEF HandlerRuns, ExceptionRuns
    <2>3. \A n : Reported(n)' = Reported(n)
      BY <1>1, <1>9 DEF Reported
    <2> SUFFICES ASSUME NEW n \in 1 .. MaxIrqs
                 PROVE  /\ n > irqs => Output(IrqCall(n)) = <<>>
                        /\ n <= irqs /\ n # irqs => Reported(n)
                        /\ n = irqs => Output(IrqCall(n)) \o Rest(h) = Said(Irq(n))
                        /\ Output(ExceptionCall(n)) = <<>>
                        /\ n = irqs => <<>> \o Rest(d) = Said(Exception(n))
      BY <1>1, <1>8, <1>9, <2>2, <2>3 DEF ReportInv
    <2>4. /\ n > irqs => Output(IrqCall(n)) = <<>>
          /\ n <= irqs /\ n # irqs => Reported(n)
          /\ n = irqs => Output(IrqCall(n)) \o Rest(h) = Said(Irq(n))
          /\ Output(ExceptionCall(n)) = <<>>
      BY <1>2, <1>5, <2>1 DEF ReportInv
    <2>5. Said(Exception(irqs)) \in Seq(Letter)
      BY <1>6, SaidFirst DEF Piece, Program
    <2>6. <<>> \o Said(Exception(irqs)) = Said(Exception(irqs))
      BY <2>5, ConcatEmptySeq
    <2> QED
      BY <1>7, <2>4, <2>6
  <1>17. LineInv'
    BY <1>1, <1>2, <1>8, <1>9 DEF LineInv
  <1> QED
    BY <1>10, <1>12, <1>13, <1>14, <1>15, <1>16, <1>17 DEF SerialInv

\* At first nothing has happened.
LEMMA SerialInit ==
  ASSUME Init
  PROVE  SerialInv
  <1> DEFINE d == Call(MainThread, Main(boot))
  <1>1. /\ boot \in Boots /\ calls = <<d>> /\ dbg_buf = [j \in 0 .. (BUF - 1) |-> Terminator]
        /\ thr = None /\ wire = <<>> /\ lost = {} /\ irqs = 0 /\ hit = {}
    BY DEF Init, MainThread
  <1>2. MainThread \in Who
    BY DEF MainThread, Who
  <1>3. MainPiece(Main(boot))
    BY <1>1, MainProgram
  <1>4. /\ Sound(d) /\ d.who = MainThread /\ d.todo = Main(boot) /\ d.i = 0 /\ ~ d.ready
        /\ \A buf : Loaded(d, buf)
    BY <1>2, <1>3, Starts DEF MainPiece
  <1> HIDE DEF d
  <1>5. /\ calls \in Seq(CallStates) /\ Len(calls) = 1 /\ calls[1] = d /\ MainCall = d
    <2>1. d \in CallStates
      BY <1>4 DEF Sound
    <2> QED
      BY <1>1, <2>1 DEF MainCall
  <1>6. dbg_buf \in Buffers
    <2>1. BUF - 1 \in 0 .. (BUF - 1)
      BY Lengths
    <2> QED
      BY <1>1, <2>1 DEF Buffers
  <1>7. Sent = <<>> /\ \A w : Output(w) = <<>>
    <2>1. Sent = <<>>
      BY <1>1 DEF Sent
    <2>2. \A w : Output(w) = By(Sent, w)
      BY DEF Output, By, Own
    <2> QED
      BY <2>1, <2>2, ByNone
  <1>8. SerialTypes
    <2>1. <<>> \in Seq(Sending) /\ 0 \in 0 .. MaxIrqs
      BY Lengths, EmptySeq
    <2> QED
      BY <1>1, <1>5, <1>6, <2>1 DEF SerialTypes
  <1>9. StackInv
    <2>1. ~ (1 > 1) /\ 1 # 3 /\ \A k \in 1 .. 1 : k = 1
      OBVIOUS
    <2> QED
      BY <1>4, <1>5, <2>1 DEF StackInv
  <1>10. HandlerInv
    <2>1. 1 .. (1 - 1) = {}
      OBVIOUS
    <2> QED
      BY <1>5, <2>1 DEF HandlerInv
  <1>11. MainInv
    <2>1. /\ \A k \in 1 .. Len(d.todo) : d.todo[k].do \in MainDeeds
          /\ LinesOnly(d.todo)
      BY <1>3, <1>4 DEF MainPiece, Piece
    <2>2. d.todo # <<>> => Head(d.todo).do # "send_buf"
      <3>1. d.todo # <<>> => Head(d.todo) = d.todo[1]
        BY <1>4, AfterFirst DEF Sound
      <3> QED
        BY <1>3, <1>4, <3>1 DEF MainPiece, Piece
    <2> QED
      BY <1>1, <1>4, <1>5, <2>1, <2>2 DEF MainInv, Unhit
  <1>12. WriterInv /\ LostInv
    BY <1>1 DEF WriterInv, LostInv
  <1>13. ReportInv
    <2>1. \A n : ~ HandlerRuns(n) /\ ~ ExceptionRuns(n)
      BY <1>5 DEF HandlerRuns, ExceptionRuns
    <2>2. \A n \in 1 .. MaxIrqs : ~ (n <= irqs)
      BY <1>1, Lengths
    <2> QED
      BY <1>7, <2>1, <2>2 DEF ReportInv
  <1>14. LineInv
    BY <1>1, <1>4, <1>5, MainProgram DEF LineInv
  <1> QED
    BY <1>8, <1>9, <1>10, <1>11, <1>12, <1>13, <1>14 DEF SerialInv

\* Nothing is done, or nothing of this.
LEMMA SerialStutter ==
  ASSUME SerialInv, UNCHANGED vars
  PROVE  SerialInv'
  <1>1. UNCHANGED <<boot, calls, dbg_buf, thr, wire, lost, irqs, hit>>
    BY DEF vars
  <1>2. Sent' = Sent /\ MainCall' = MainCall /\ Handler' = Handler
    BY <1>1 DEF Sent, MainCall, Handler
  <1>3. \A w : Output(w)' = Output(w)
    BY <1>2 DEF Output
  <1>4. \A n : HandlerRuns(n)' = HandlerRuns(n) /\ ExceptionRuns(n)' = ExceptionRuns(n)
               /\ Reported(n)' = Reported(n)
    BY <1>1, <1>3 DEF HandlerRuns, ExceptionRuns, Reported
  <1>5. SerialTypes' /\ StackInv' /\ HandlerInv' /\ WriterInv' /\ LostInv' /\ LineInv'
    BY <1>1, <1>2 DEF SerialInv, SerialTypes, StackInv, HandlerInv, WriterInv, LostInv, LineInv
  <1>6. MainInv'
    <2>1. Unhit(MainCall)' = Unhit(MainCall)
      BY <1>1, <1>2 DEF Unhit
    <2> QED
      BY <1>1, <1>2, <2>1 DEF SerialInv, MainInv
  <1>7. ReportInv'
    BY <1>1, <1>2, <1>3, <1>4 DEF SerialInv, ReportInv
  <1> QED
    BY <1>5, <1>6, <1>7 DEF SerialInv

\* SerialInv holds in every state, for every program of the kernel, every
\* length of the texts and interrupts at any point.
THEOREM SerialSafe == Spec => []SerialInv
  <1>1. Init => SerialInv
    BY SerialInit
  <1>2. SerialInv /\ [Next]_vars => SerialInv'
    <2> SUFFICES ASSUME SerialInv, [Next]_vars PROVE SerialInv'
      OBVIOUS
    <2>1. CASE Processor
      BY <2>1, FormatStep, FaultStep, ReadStep, PollStep, OutbStep, StiStep, IretStep
      DEF Processor
    <2>2. CASE Interrupt
      BY <2>2, InterruptStep
    <2>3. CASE Transmit
      BY <2>3, TransmitStep
    <2>4. CASE UNCHANGED vars
      BY <2>4, SerialStutter
    <2> QED
      BY <2>1, <2>2, <2>3, <2>4 DEF Next
  <1> QED
    BY <1>1, <1>2, PTL DEF Spec

-----------------------------------------------------------------------------
(* What follows.                                                           *)

\* What a handler has still to send is a text.
LEMMA RestType ==
  ASSUME NEW h, Sound(h), NEW buf, Loaded(h, buf)
  PROVE  Rest(h) \in Seq(Letter)
  <1>1. h \in CallStates /\ h.todo \in Seq(Operation) /\ Program(h.todo)
    BY DEF Sound, Program
  <1>2. CASE h.todo # <<>> /\ Speaks(Head(h.todo))
    <2> DEFINE t == Head(h.todo).text
               r == Said(Tail(h.todo))
    <2>1. t \in Seq(Letter) /\ h.i \in Nat /\ Len(t) \in Nat
      BY <1>1, <1>2, AfterFirst, LenProperties DEF Operation, CallStates
    <2>2. h.i <= Len(t)
      BY <1>2 DEF Sound, Place, Loaded, Speaks
    <2>3. h.i \in 0 .. Len(t)
      BY <2>1, <2>2
    <2>4. Suffix(t, h.i) \in Seq(Letter)
      BY <2>1, <2>3, SuffixFirst
    <2>5. r \in Seq(Letter)
      BY <1>1, <1>2, HeadAndTail, SaidFirst
    <2>6. Rest(h) = Suffix(t, h.i) \o r
      BY <1>2 DEF Rest
    <2> HIDE DEF t, r
    <2> QED
      BY <2>4, <2>5, <2>6, ConcatProperties
  <1>3. CASE ~ (h.todo # <<>> /\ Speaks(Head(h.todo)))
    BY <1>1, <1>3, SaidFirst DEF Rest
  <1> QED
    BY <1>2, <1>3

\* The beginnings of a text.
LEMMA PrefixCases ==
  ASSUME NEW s \in Seq(Letter)
  PROVE  /\ IsPrefix(s, s) /\ IsPrefix(<<>>, s)
         /\ \A o \in Seq(Letter) : s = Append(o, Last(s)) => IsPrefix(o, s)
  <1>1. <<>> \in Seq(Letter) /\ <<>> \o s = s /\ s \o <<>> = s
    BY ConcatEmptySeq, EmptySeq
  <1>2. IsPrefix(s, s) /\ IsPrefix(<<>>, s)
    <2>1. IsPrefix(s, s \o <<>>)
      BY <1>1, PrefixOf
    <2>2. IsPrefix(<<>>, <<>> \o s)
      BY <1>1, PrefixOf
    <2> QED
      BY <1>1, <2>1, <2>2
  <1>3. ASSUME NEW o \in Seq(Letter), s = Append(o, Last(s)) PROVE IsPrefix(o, s)
    <2> DEFINE x == Last(s)
    <2>1. Len(s) \in Nat /\ Len(o) \in Nat
      BY LenProperties
    <2>2. Len(s) # 0
      <3>1. Len(Append(o, x)) = Len(o) + 1
        OBVIOUS
      <3> QED
        BY <1>3, <2>1, <3>1
    <2>3. x \in Letter
      <3>1. Len(s) \in 1 .. Len(s)
        BY <2>1, <2>2
      <3> QED
        BY <3>1, ElementOfSeq DEF Last
    <2> HIDE DEF x
    <2>4. Append(o, x) = o \o <<x>> /\ <<x>> \in Seq(Letter)
      BY <2>3
    <2>5. IsPrefix(o, o \o <<x>>)
      BY <2>4, PrefixOf
    <2> QED
      BY <1>3, <2>4, <2>5 DEF x
  <1> QED
    BY <1>2, <1>3

\* The invariant says of the reports what ReportsWhole does ...
LEMMA InvReports == SerialInv => ReportsWhole
  <1> SUFFICES ASSUME SerialInv PROVE ReportsWhole
    OBVIOUS
  <1> DEFINE L == Len(calls)
  <1>1. /\ SerialTypes /\ StackInv /\ HandlerInv /\ ReportInv /\ LostInv
        /\ irqs \in 0 .. MaxIrqs /\ MaxIrqs \in Nat /\ irqs \in Nat
    BY Lengths DEF SerialInv, SerialTypes
  <1>2. \/ L = 1 /\ MainCall = calls[1]
        \/ L = 2 /\ MainCall = calls[2] /\ Handler = calls[1]
        \/ L = 3 /\ MainCall = calls[3] /\ Handler = calls[2]
    BY <1>1, Stack
  <1>3. \A w : Output(w) \in Seq(Letter)
    <2>1. Sent = SentOf(thr, wire) /\ \A w : Output(w) = By(Sent, w)
      BY DEF Sent, SentOf, Output, By, Own
    <2>2. Sent \in Seq(Sending)
      BY <1>1, <2>1, SentGrows DEF SerialTypes
    <2> QED
      BY <2>1, <2>2, ByLetters
  <1>4. ASSUME NEW k \in 1 .. (L - 1) PROVE Rest(calls[k]) \in Seq(Letter)
    <2>1. k \in 1 .. L
      BY <1>2
    <2>2. Sound(calls[k]) /\ Loaded(calls[k], dbg_buf)
      BY <1>1, <2>1 DEF StackInv, HandlerInv
    <2> QED
      BY <2>2, RestType
  <1>5. ASSUME L > 1 PROVE Rest(Handler) \in Seq(Letter) /\ Rest(calls[1]) \in Seq(Letter)
    <2>1. L - 1 \in 1 .. (L - 1) /\ 1 \in 1 .. (L - 1)
      BY <1>2, <1>5
    <2> QED
      BY <1>4, <2>1 DEF Handler
  <1>6. ASSUME NEW n \in 1 .. irqs
        PROVE  /\ IsPrefix(Output(IrqCall(n)), Said(Irq(n)))
               /\ IsPrefix(Output(ExceptionCall(n)), Said(Exception(n)))
               /\ Halted /\ Top.who = ExceptionCall(n) =>
                     Output(ExceptionCall(n)) = Said(Exception(n))
    <2>1. n \in 1 .. MaxIrqs /\ n \in Nat /\ n <= irqs
      BY <1>1
    <2>2. Said(Irq(n)) \in Seq(Letter) /\ Said(Exception(n)) \in Seq(Letter)
      BY <2>1, HandlerPrograms, SaidFirst DEF Piece, Program
    <2>3. IsPrefix(Output(IrqCall(n)), Said(Irq(n)))
      <3>1. CASE HandlerRuns(n)
        <4>1. Output(IrqCall(n)) \o Rest(Handler) = Said(Irq(n))
          BY <1>1, <2>1, <3>1 DEF ReportInv
        <4>2. Rest(Handler) \in Seq(Letter)
          BY <1>5, <3>1 DEF HandlerRuns
        <4>3. IsPrefix(Output(IrqCall(n)), Output(IrqCall(n)) \o Rest(Handler))
          BY <1>3, <4>2, PrefixOf
        <4> QED
          BY <4>1, <4>3
      <3>2. CASE ~ HandlerRuns(n)
        <4>1. Reported(n)
          BY <1>1, <2>1, <3>2 DEF ReportInv
        <4> DEFINE s == Said(Irq(n))
                   o == Output(IrqCall(n))
        <4>2. s \in Seq(Letter) /\ o \in Seq(Letter) /\ (o = s \/ s = Append(o, Last(s)))
          BY <1>3, <2>2, <4>1 DEF Reported
        <4> HIDE DEF s, o
        <4>3. IsPrefix(o, s)
          <5>1. \A t \in Seq(Letter) : /\ IsPrefix(t, t)
                                       /\ \A u \in Seq(Letter) : t = Append(u, Last(t)) => IsPrefix(u, t)
            BY PrefixCases
          <5> QED
            BY <4>2, <5>1
        <4> QED
          BY <4>3 DEF s, o
      <3> QED
        BY <3>1, <3>2
    <2>4. IsPrefix(Output(ExceptionCall(n)), Said(Exception(n)))
      <3>1. CASE ExceptionRuns(n)
        <4>1. Output(ExceptionCall(n)) \o Rest(calls[1]) = Said(Exception(n))
          BY <1>1, <2>1, <3>1 DEF ReportInv
        <4>2. Rest(calls[1]) \in Seq(Letter)
          <5>1. L = 3
            BY <3>1 DEF ExceptionRuns
          <5>2. 1 \in 1 .. (L - 1)
            BY <5>1
          <5> QED
            BY <1>4, <5>2
        <4>3. IsPrefix(Output(ExceptionCall(n)), Output(ExceptionCall(n)) \o Rest(calls[1]))
          BY <1>3, <4>2, PrefixOf
        <4> QED
          BY <4>1, <4>3
      <3>2. CASE ~ ExceptionRuns(n)
        <4>1. Output(ExceptionCall(n)) = <<>>
          BY <1>1, <2>1, <3>2 DEF ReportInv
        <4> DEFINE s == Said(Exception(n))
        <4>2. s \in Seq(Letter)
          BY <2>2
        <4> HIDE DEF s
        <4>3. IsPrefix(<<>>, s)
          <5>1. \A t \in Seq(Letter) : IsPrefix(<<>>, t)
            BY PrefixCases
          <5> QED
            BY <4>2, <5>1
        <4> QED
          BY <4>1, <4>3 DEF s
      <3> QED
        BY <3>1, <3>2
    <2>5. ASSUME Halted, Top.who = ExceptionCall(n)
          PROVE  Output(ExceptionCall(n)) = Said(Exception(n))
      <3>1. Top = calls[1]
        BY <1>1, Stack
      <3>2. L = 3
        <4>1. L # 1
          BY <1>1, <1>2, <2>5, <3>1, WhoDiffer DEF StackInv
        <4>2. L # 2
          <5> SUFFICES ASSUME L = 2 PROVE FALSE
            OBVIOUS
          <5>1. L > 1
            OBVIOUS
          <5> QED
            BY <1>1, <1>2, <2>5, <3>1, <5>1, WhoDiffer DEF StackInv
        <4> QED
          BY <1>2, <4>1, <4>2
      <3>3. n = irqs
        BY <1>1, <2>5, <3>1, <3>2, WhoDiffer DEF StackInv
      <3>4. Output(ExceptionCall(n)) \o Rest(calls[1]) = Said(Exception(n))
        BY <1>1, <2>1, <3>2, <3>3 DEF ReportInv, ExceptionRuns
      <3>5. Rest(calls[1]) = <<>>
        <4> DEFINE p == calls[1].todo
        <4>1. p # <<>> /\ Head(p).do = "halt" /\ ~ Speaks(Head(p))
          BY <2>5, <3>1 DEF Halted, Now, Speaks
        <4>2. 1 \in 1 .. L /\ 1 \in 1 .. (L - 1)
          BY <3>2
        <4>3. Program(p) /\ Ends(p)
          BY <1>1, <4>2 DEF StackInv, HandlerInv, Sound
        <4>4. Said(p) = <<>>
          BY <4>1, <4>3, AtEnd
        <4> QED
          BY <4>1, <4>4 DEF Rest
      <3> QED
        BY <1>3, <3>4, <3>5, ConcatEmptySeq
    <2> QED
      BY <2>3, <2>4, <2>5
  <1>7. \A x \in lost : \E n \in 1 .. irqs : x = [by |-> IrqCall(n), c |-> Last(Said(Irq(n)))]
    BY <1>1 DEF LostInv
  <1> QED
    BY <1>6, <1>7 DEF ReportsWhole, IrqCall, ExceptionCall

\* ... and of the lines what LinesIntact does.
LEMMA InvLines == SerialInv => LinesIntact
  <1> SUFFICES ASSUME SerialInv PROVE LinesIntact
    OBVIOUS
  <1>1. SerialTypes /\ LineInv /\ StackInv /\ boot \in Boots
    BY DEF SerialInv, SerialTypes
  <1>2. Last(calls) = MainCall
    BY DEF Last, MainCall
  <1>3. MainCall.todo \in Seq(Operation)
    <2>1. Len(calls) \in 1 .. Len(calls)
      <3> DEFINE n == Len(calls)
      <3>1. n \in 1 .. 3
        BY <1>1 DEF SerialTypes
      <3> HIDE DEF n
      <3>2. n \in 1 .. n
        BY <3>1
      <3> QED
        BY <3>2 DEF n
    <2> QED
      BY <1>1, <2>1 DEF StackInv, Sound, Program, MainCall
  <1> DEFINE p == MainCall.todo
             ahead == {op.text : op \in ToSet(p)}
  <1>4. \A t : Has(p, t) => t \in ahead
    <2> SUFFICES ASSUME NEW t, Has(p, t) PROVE t \in ahead
      OBVIOUS
    <2>1. PICK k \in 1 .. Len(p) : p[k].text = t
      BY DEF Has
    <2>2. p[k] \in ToSet(p)
      BY <1>3, LenProperties DEF ToSet
    <2> QED
      BY <2>1, <2>2
  <1> HIDE DEF ahead
  <1>5. ASSUME NEW n \in DOMAIN boot, boot[n].do = "log"
        PROVE  LET line == Text(<<"log", n>>, "line", boot[n].size)
               IN line \notin hit \cup ahead =>
                     \E k \in 0 .. (Len(Sent) - Len(line)) : \A j \in DOMAIN line :
                         Sent[k + j] = [by |-> <<"main", 0>>, c |-> line[j]]
    <2> DEFINE line == Text(<<"log", n>>, "line", boot[n].size)
    <2>1. line \in hit \/ Has(p, line) \/ Whole(Sent, line)
      BY <1>1, <1>5 DEF LineInv
    <2>2. line \in Seq(Letter)
      BY <1>1, <1>5, LineType
    <2> HIDE DEF line
    <2>3. DOMAIN line = 1 .. Len(line)
      BY <2>2, LenProperties
    <2>4. line \notin hit \cup ahead => Whole(Sent, line)
      BY <1>4, <2>1
    <2>5. line \notin hit \cup ahead =>
             \E k \in 0 .. (Len(Sent) - Len(line)) : \A j \in DOMAIN line :
                 Sent[k + j] = [by |-> <<"main", 0>>, c |-> line[j]]
      BY <2>3, <2>4 DEF Whole, MainThread
    <2> QED
      BY <2>5 DEF line
  <1> QED
    BY <1>2, <1>5 DEF LinesIntact, ahead

\* isr_handler's report of an interrupt or of an exception comes out whole
\* but for a last character that the main thread overwrites, and nothing
\* else that com_send_char sends is ever lost.
THEOREM ReportsAreWhole == Spec => []ReportsWhole
  BY SerialSafe, InvReports, PTL

\* The line of a log call is sent in one piece unless an interrupt hits it
\* while debug has it in dbg_buf.
THEOREM LinesStayIntact == Spec => []LinesIntact
  BY SerialSafe, InvLines, PTL

\* Whatever interrupts do to dbg_buf, it stays terminated, and neither
\* vsnprintf nor com_send_string ever leaves it: a line that is continued
\* after an interrupt ends within the buffer as well.
BufferBounds ==
    /\ dbg_buf[BUF - 1] = Terminator
    /\ \A k \in 1 .. Len(calls) :
          LET h == calls[k]
          IN h.todo # <<>> /\ Head(h.todo).do \in {"format", "name_irq", "send_buf"} =>
                h.i \in 0 .. (BUF - 1)

\* It follows from the invariant.
LEMMA InvBuffer == SerialInv => BufferBounds
  <1> SUFFICES ASSUME SerialInv PROVE BufferBounds
    OBVIOUS
  <1>1. dbg_buf[BUF - 1] = Terminator /\ dbg_buf \in Buffers
    BY DEF SerialInv, SerialTypes, Buffers
  <1>2. ASSUME NEW k \in 1 .. Len(calls), calls[k].todo # <<>>,
               Head(calls[k].todo).do \in {"format", "name_irq", "send_buf"}
        PROVE  calls[k].i \in 0 .. (BUF - 1)
    <2>1. Sound(calls[k])
      BY DEF SerialInv, StackInv
    <2>2. CASE Buffered(Head(calls[k].todo))
      BY <1>1, <1>2, <2>1, <2>2, Formats
    <2>3. CASE Head(calls[k].todo).do = "send_buf"
      <3>1. calls[k].i < BUF /\ calls[k].i \in Nat /\ BUF \in Nat
        BY <1>2, <2>1, <2>3, Lengths DEF Sound, Place, CallStates
      <3> QED
        BY <3>1
    <2> QED
      BY <1>2, <2>2, <2>3 DEF Buffered
  <1> QED
    BY <1>1, <1>2 DEF BufferBounds

\* The theorem about the bounds.
THEOREM BufferInBounds == Spec => []BufferBounds
  BY SerialSafe, InvBuffer, PTL

-----------------------------------------------------------------------------
(* Formatted output.                                                       *)

\* What a power is, which the provers do not know.
PowerLaw == \A b \in {2, 8, 10, 16} : b^0 = 1 /\ \A k \in Nat : b^(k + 1) = b * b^k

\* Powers are positive and grow with the exponent.
LEMMA PowersGrow ==
  ASSUME PowerLaw, NEW b \in {2, 8, 10, 16}
  PROVE  /\ \A k \in Nat : b^k \in Int /\ b^k > 0
         /\ \A j, k \in Nat : j < k => b^j < b^k
  <1>1. \A k \in Nat : b^k \in Int
    OBVIOUS
  <1>2. ASSUME NEW k \in Nat, b^k > 0 PROVE b^(k + 1) > b^k
    <2> DEFINE p == b^k
    <2>1. p \in Int /\ p > 0
      BY <1>1, <1>2
    <2>2. b^(k + 1) = b * p
      BY DEF PowerLaw
    <2> HIDE DEF p
    <2>3. b * p > p
      BY <2>1
    <2> QED
      BY <2>2, <2>3 DEF p
  <1>3. \A n \in Nat : b^n > 0
    <2> TAKE n \in Nat
    <2> DEFINE S == {k \in Nat : b^k > 0}
    <2>1. 0 \in S
      <3>1. b^0 = 1
        BY DEF PowerLaw
      <3> QED
        BY <3>1
    <2>2. ASSUME NEW k \in 0 .. (n - 1), k \in S PROVE k + 1 \in S
      <3>1. k \in Nat /\ k + 1 \in Nat /\ b^k > 0
        BY <2>2
      <3> DEFINE p == b^k
                 r == b^(k + 1)
      <3>2. p \in Int /\ r \in Int /\ p > 0 /\ r > p
        BY <1>1, <1>2, <3>1
      <3> HIDE DEF p, r
      <3>3. r > 0
        BY <3>2
      <3> QED
        BY <3>1, <3>3 DEF r
    <2>3. n \in 0 .. n
      OBVIOUS
    <2>4. n \in S
      <3> HIDE DEF S
      <3> QED
        BY <2>1, <2>2, <2>3, IntervalInduction
    <2> QED
      BY <2>4
  <1>4. ASSUME NEW j \in Nat, NEW k \in Nat, j < k PROVE b^j < b^k
    <2> DEFINE S == {m \in Nat : b^j < b^((j + 1) + m)}
               n == k - (j + 1)
    <2>1. 0 \in S
      BY <1>2, <1>3
    <2>2. ASSUME NEW m \in 0 .. (n - 1), m \in S PROVE m + 1 \in S
      <3> DEFINE i == (j + 1) + m
                 p == b^j
                 r == b^i
                 u == b^(i + 1)
      <3>1. i \in Nat /\ i + 1 = (j + 1) + (m + 1) /\ m + 1 \in Nat
        BY <2>2
      <3>2. p < r
        BY <2>2
      <3> HIDE DEF i
      <3>3. p \in Int /\ r \in Int /\ u \in Int /\ u > r
        BY <1>1, <1>2, <1>3, <3>1
      <3> HIDE DEF p, r, u
      <3>4. p < u
        BY <3>2, <3>3
      <3> QED
        BY <3>1, <3>4 DEF p, u
    <2>3. n \in Nat /\ n \in 0 .. n /\ (j + 1) + n = k
      BY <1>4
    <2>4. n \in S
      <3> HIDE DEF S, n
      <3> QED
        BY <2>1, <2>2, <2>3, IntervalInduction
    <2> QED
      BY <2>3, <2>4
  <1> QED
    BY <1>1, <1>3, <1>4

\* The characters that numbers are written with.
Plain == {"0", "1", "2", "3", "4", "5", "6", "7", "8", "9",
          "a", "b", "c", "d", "e", "f", "A", "B", "C", "D", "E", "F",
          "x", "X", "+", "-", " "}

\* A run of one character is a sequence, empty for a negative length.
LEMMA CopiesSeq ==
  ASSUME NEW C, NEW c \in C, NEW n \in Int
  PROVE  Copies(c, n) \in Seq(C)
  <1>1. CASE n >= 0
    <2>1. n \in Nat /\ Copies(c, n) \in [1 .. n -> C]
      BY <1>1 DEF Copies
    <2> QED
      BY <2>1
  <1>2. CASE n < 0
    <2>1. 1 .. n = 1 .. 0
      BY <1>2
    <2>2. Copies(c, n) \in [1 .. 0 -> C]
      BY <2>1 DEF Copies
    <2> QED
      BY <2>2
  <1> QED
    BY <1>1, <1>2

\* A sequence reversed is one.
LEMMA ReverseSeq ==
  ASSUME NEW C, NEW s \in Seq(C)
  PROVE  Reverse(s) \in Seq(C)
  <1>1. Len(s) \in Nat /\ \A j \in 1 .. Len(s) : s[j] \in C
    BY ElementOfSeq, LenProperties
  <1>2. \A j \in 1 .. Len(s) : s[(Len(s) - j) + 1] \in C
    BY <1>1
  <1>3. Reverse(s) \in [1 .. Len(s) -> C]
    BY <1>2 DEF Reverse
  <1> QED
    BY <1>1, <1>3

\* Adding a character, zeros, or the padding of a number.
LEMMA NumberParts ==
  ASSUME NEW C, Plain \subseteq C, NEW s \in Seq(C), NEW n \in Int
  PROVE  /\ \A c \in Plain : Put(s, c) \in Seq(C)
         /\ FillTo(s, n) \in Seq(C)
         /\ \A flags : out_rev(s, n, flags) \in Seq(C)
  <1>1. Len(s) \in Nat /\ NTOA \in Nat
    BY LenProperties, PrintfAssumption
  <1>2. "0" \in C /\ " " \in C
    BY DEF Plain
  <1>3. \A c \in Plain : Put(s, c) \in Seq(C)
    BY DEF Put
  <1>4. FillTo(s, n) \in Seq(C)
    <2> DEFINE m == (IF n < NTOA THEN n ELSE NTOA) - Len(s)
    <2>1. m \in Int
      BY <1>1
    <2>2. Copies("0", m) \in Seq(C)
      <3> HIDE DEF m
      <3> QED
        BY <1>2, <2>1, CopiesSeq
    <2>3. FillTo(s, n) = s \o Copies("0", m)
      BY DEF FillTo
    <2> HIDE DEF m
    <2> QED
      BY <2>2, <2>3, ConcatProperties
  <1>5. \A flags : out_rev(s, n, flags) \in Seq(C)
    <2> TAKE flags
    <2> DEFINE m == n - Len(s)
               pad == Copies(" ", m)
               r == Reverse(s)
    <2>1. m \in Int
      BY <1>1
    <2>2. pad \in Seq(C)
      <3> HIDE DEF m
      <3> QED
        BY <1>2, <2>1, CopiesSeq
    <2>3. r \in Seq(C)
      BY ReverseSeq
    <2>4. out_rev(s, n, flags) = IF "-" \in flags THEN r \o pad
                                 ELSE IF "0" \in flags THEN r ELSE pad \o r
      BY DEF out_rev
    <2> HIDE DEF pad, r
    <2>5. r \o pad \in Seq(C) /\ pad \o r \in Seq(C)
      BY <2>2, <2>3, ConcatProperties
    <2> QED
      BY <2>3, <2>4, <2>5
  <1> QED
    BY <1>3, <1>4, <1>5

\* A number with its zeros, prefix and sign is a text.
LEMMA FormatSeq ==
  ASSUME NEW C, Plain \subseteq C, NEW digits \in Seq(C), NEW negative \in BOOLEAN,
         NEW base, NEW upper \in BOOLEAN, NEW prec \in Int, NEW width \in Int, NEW flags
  PROVE  ntoa_format(digits, negative, base, upper, prec, width, flags) \in Seq(C)
  <1> DEFINE left == "-" \in flags
             sign == negative \/ {"+", " "} \cap flags # {}
             w == IF ~ left /\ "0" \in flags /\ sign /\ width > 0 THEN width - 1 ELSE width
             padded == IF left THEN digits
                       ELSE FillTo(FillTo(digits, prec), IF "0" \in flags THEN w ELSE 0)
             n == Len(padded)
             cut == IF "." \in flags \/ n = 0 \/ n \notin {prec, w} THEN 0
                    ELSE IF base = 16 /\ n > 1 THEN 2 ELSE 1
             room == SubSeq(padded, 1, n - cut)
             letter == CASE base = 16 -> Put(room, IF upper THEN "X" ELSE "x")
                         [] base = 2 -> Put(room, "b")
                         [] OTHER -> room
             hashed == IF "#" \in flags THEN Put(letter, "0") ELSE padded
             signed == CASE negative -> Put(hashed, "-")
                         [] ~ negative /\ "+" \in flags -> Put(hashed, "+")
                         [] ~ negative /\ "+" \notin flags /\ " " \in flags -> Put(hashed, " ")
                         [] OTHER -> hashed
  <1>1. {"X", "x", "b", "0", "-", "+", " "} \subseteq Plain
    BY DEF Plain
  <1>2. w \in Int /\ (IF "0" \in flags THEN w ELSE 0) \in Int
    OBVIOUS
  <1>3. padded \in Seq(C)
    <2> DEFINE z == IF "0" \in flags THEN w ELSE 0
               p == FillTo(digits, prec)
    <2>1. p \in Seq(C)
      BY NumberParts
    <2> HIDE DEF p, w
    <2>2. FillTo(p, z) \in Seq(C)
      <3>1. z \in Int
        BY <1>2
      <3> HIDE DEF z
      <3> QED
        BY <2>1, <3>1, NumberParts
    <2> QED
      BY <2>2 DEF p
  <1> HIDE DEF padded
  <1>4. n \in Nat
    BY <1>3, LenProperties
  <1>5. cut \in 0 .. n
    <2> HIDE DEF w
    <2>1. cut \in 0 .. 2 /\ (n = 0 => cut = 0) /\ (cut = 2 => n > 1)
      OBVIOUS
    <2> HIDE DEF cut, n
    <2> QED
      BY <1>4, <2>1
  <1>6. room \in Seq(C)
    <2> DEFINE m == n - cut
    <2>1. m \in Int /\ m <= n
      <3> HIDE DEF n, cut
      <3> QED
        BY <1>4, <1>5
    <2>2. \A j \in 1 .. n : padded[j] \in C
      BY <1>3, ElementOfSeq
    <2> HIDE DEF n, m
    <2>3. \A j \in 1 .. m : padded[j] \in C
      BY <1>4, <2>1, <2>2
    <2>4. SubSeq(padded, 1, m) \in Seq(C)
      BY <2>1, <2>3, SubSeqProperties
    <2> QED
      BY <2>4 DEF m
  <1> HIDE DEF room
  <1>7. letter \in Seq(C)
    <2>1. \A c \in Plain : Put(room, c) \in Seq(C)
      BY <1>6, NumberParts
    <2> QED
      BY <1>1, <1>6, <2>1
  <1> HIDE DEF letter
  <1>8. hashed \in Seq(C)
    <2>1. \A c \in Plain : Put(letter, c) \in Seq(C)
      BY <1>7, NumberParts
    <2> QED
      BY <1>1, <1>3, <2>1
  <1> HIDE DEF hashed
  <1>9. signed \in Seq(C)
    <2>1. \A c \in Plain : Put(hashed, c) \in Seq(C)
      BY <1>8, NumberParts
    <2> QED
      BY <1>1, <1>8, <2>1
  <1>10. ntoa_format(digits, negative, base, upper, prec, width, flags) = out_rev(signed, w, flags)
    BY DEF ntoa_format, hashed, letter, room, padded
  <1> HIDE DEF signed, w
  <1>11. out_rev(signed, w, flags) \in Seq(C)
    BY <1>2, <1>9, NumberParts
  <1> QED
    BY <1>10, <1>11

\* The digits of every base are characters.
LEMMA GlyphsPlain ==
  \A m \in 1 .. 16 : Glyphs[m] \in Plain /\ GLYPHS[m] \in Plain
  <1> TAKE m \in 1 .. 16
  <1>1. m \in {1, 2, 3, 4, 5, 6, 7, 8, 9, 10, 11, 12, 13, 14, 15, 16}
    OBVIOUS
  <1>2. /\ Glyphs[1] = "0" /\ Glyphs[2] = "1" /\ Glyphs[3] = "2" /\ Glyphs[4] = "3"
        /\ Glyphs[5] = "4" /\ Glyphs[6] = "5" /\ Glyphs[7] = "6" /\ Glyphs[8] = "7"
        /\ Glyphs[9] = "8" /\ Glyphs[10] = "9" /\ Glyphs[11] = "a" /\ Glyphs[12] = "b"
        /\ Glyphs[13] = "c" /\ Glyphs[14] = "d" /\ Glyphs[15] = "e" /\ Glyphs[16] = "f"
    BY DEF Glyphs
  <1>3. /\ GLYPHS[1] = "0" /\ GLYPHS[2] = "1" /\ GLYPHS[3] = "2" /\ GLYPHS[4] = "3"
        /\ GLYPHS[5] = "4" /\ GLYPHS[6] = "5" /\ GLYPHS[7] = "6" /\ GLYPHS[8] = "7"
        /\ GLYPHS[9] = "8" /\ GLYPHS[10] = "9" /\ GLYPHS[11] = "A" /\ GLYPHS[12] = "B"
        /\ GLYPHS[13] = "C" /\ GLYPHS[14] = "D" /\ GLYPHS[15] = "E" /\ GLYPHS[16] = "F"
    BY DEF GLYPHS
  <1>4. /\ "0" \in Plain /\ "1" \in Plain /\ "2" \in Plain
        /\ "3" \in Plain /\ "4" \in Plain /\ "5" \in Plain
        /\ "6" \in Plain /\ "7" \in Plain /\ "8" \in Plain
        /\ "9" \in Plain /\ "a" \in Plain /\ "b" \in Plain
        /\ "c" \in Plain /\ "d" \in Plain /\ "e" \in Plain
        /\ "f" \in Plain /\ "A" \in Plain /\ "B" \in Plain
        /\ "C" \in Plain /\ "D" \in Plain /\ "E" \in Plain /\ "F" \in Plain
    BY DEF Plain
  <1> QED
    BY <1>1, <1>2, <1>3, <1>4

\* A number has a number of digits, and they are characters.
LEMMA NumeralSeq ==
  ASSUME PowerLaw, NEW C, Plain \subseteq C, NEW v \in Nat, NEW base \in {2, 8, 10, 16},
         NEW upper \in BOOLEAN, NEW flags
  PROVE  Numeral(v, base, upper, flags) \in Seq(C)
  <1> DEFINE Q(k) == /\ k = NTOA \/ v < base^k
                     /\ k = 1 \/ v >= base^(k - 1)
             n == CHOOSE k \in 1 .. NTOA : Q(k)
             G == IF upper THEN GLYPHS ELSE Glyphs
             num == [j \in 1 .. n |-> G[1 + ((v \div base^(j - 1)) % base)]]
  <1>0. NTOA \in Nat /\ NTOA # 0
    BY PrintfAssumption
  <1>1. \A k \in 0 .. NTOA : base^k \in Int /\ base^k > 0
    BY <1>0, PowersGrow
  <1>2. \E k \in 1 .. NTOA : Q(k)
    <2> DEFINE K == {k \in 1 .. NTOA : k = NTOA \/ v < base^k}
    <2>1. K \in SUBSET Nat /\ NTOA \in K /\ K \in SUBSET (0 .. ((NTOA + 1) - 1))
      BY <1>0
    <2>2. IsFiniteSet(K)
      <3> HIDE DEF K
      <3> QED
        BY <1>0, <2>1, BoundedSet
    <2> DEFINE m == Min(K)
    <2>3. m \in K /\ \A k \in K : m <= k
      <3> HIDE DEF K
      <3> QED
        BY <2>1, <2>2, MinIsLeast
    <2> HIDE DEF m
    <2>4. m \in 1 .. NTOA /\ (m = NTOA \/ v < base^m)
      BY <2>3
    <2>5. CASE m # 1
      <3>1. m - 1 \in 1 .. NTOA /\ m - 1 \in 0 .. NTOA /\ ~ (m <= m - 1)
        BY <1>0, <2>4, <2>5
      <3>2. m - 1 \notin K
        <4> HIDE DEF K
        <4> QED
          BY <2>3, <3>1
      <3>3. ~ (v < base^(m - 1))
        BY <3>1, <3>2
      <3>4. v >= base^(m - 1)
        <4> DEFINE b == base^(m - 1)
        <4>1. b \in Int /\ ~ (v < b)
          BY <1>1, <3>1, <3>3
        <4> HIDE DEF b
        <4>2. v >= b
          BY <4>1
        <4> QED
          BY <4>2 DEF b
      <3> QED
        BY <2>4, <3>4
    <2> QED
      BY <2>4, <2>5
  <1>3. n \in 1 .. NTOA
    <2> HIDE DEF Q
    <2> QED
      BY <1>2
  <1> HIDE DEF n
  <1>4. \A j \in 1 .. n : G[1 + ((v \div base^(j - 1)) % base)] \in C
    <2> TAKE j \in 1 .. n
    <2> DEFINE b == base^(j - 1)
               e == v \div b
               r == e % base
    <2>1. b \in Int /\ b > 0
      <3>1. j - 1 \in 0 .. NTOA
        BY <1>0, <1>3
      <3> QED
        BY <1>1, <3>1
    <2> HIDE DEF b
    <2>2. e \in Int
      BY <2>1
    <2> HIDE DEF e
    <2>3. r \in 0 .. (base - 1)
      BY <2>2
    <2> HIDE DEF r
    <2>4. 1 + r \in 1 .. 16
      BY <2>3
    <2>5. G[1 + r] \in C
      BY <2>4, GlyphsPlain
    <2> QED
      BY <2>5 DEF r, e, b
  <1>5. num \in Seq(C)
    <2>1. num \in [1 .. n -> C]
      BY <1>4
    <2>2. n \in Nat
      BY <1>0, <1>3
    <2> HIDE DEF num
    <2> QED
      BY <2>1, <2>2
  <1>6. Numeral(v, base, upper, flags) = IF v = 0 /\ "." \in flags THEN <<>> ELSE num
    BY DEF Numeral, n
  <1> HIDE DEF num
  <1>7. <<>> \in Seq(C)
    BY EmptySeq
  <1> QED
    BY <1>5, <1>6, <1>7

\* So is the text of a number.
LEMMA LongSeq ==
  ASSUME PowerLaw, NEW C, Plain \subseteq C, NEW v \in Nat, NEW negative \in BOOLEAN,
         NEW base \in {2, 8, 10, 16}, NEW upper \in BOOLEAN, NEW prec \in Int, NEW width \in Int,
         NEW flags
  PROVE  ntoa_long(v, negative, base, upper, prec, width, flags) \in Seq(C)
  <1> DEFINE digits == Numeral(v, base, upper, flags)
             fl == IF v = 0 THEN flags \ {"#"} ELSE flags
  <1>1. digits \in Seq(C)
    BY NumeralSeq
  <1>2. ntoa_long(v, negative, base, upper, prec, width, flags) =
           ntoa_format(digits, negative, base, upper, prec, width, fl)
    BY DEF ntoa_long
  <1> HIDE DEF digits, fl
  <1>3. ntoa_format(digits, negative, base, upper, prec, width, fl) \in Seq(C)
    BY <1>1, FormatSeq
  <1> QED
    BY <1>2, <1>3

\* What an argument becomes in its type is a number of that type.
LEMMA ArgumentValue ==
  ASSUME PowerLaw, NEW arg \in Int, NEW t \in Types
  PROVE  /\ Unsigned(arg, t) \in Nat /\ Signed(arg, t) \in Int
         /\ \A v \in Int : Magnitude(v) \in Nat
  <1> DEFINE p == 2^Bits[t]
             u == arg % p
  <1>1. p \in Int /\ p > 0
    <2>1. Bits[t] \in Nat
      BY PrintfAssumption
    <2> QED
      BY <2>1, PowersGrow
  <1>2. u \in Nat
    <2> HIDE DEF p
    <2> QED
      BY <1>1
  <1>3. Unsigned(arg, t) = u /\ Signed(arg, t) = IF 2 * u < p THEN u ELSE u - p
    BY DEF Unsigned, Signed
  <1> HIDE DEF p, u
  <1>4. Signed(arg, t) \in Int
    BY <1>1, <1>2, <1>3
  <1>5. \A v \in Int : Magnitude(v) \in Nat
    BY DEF Magnitude
  <1> QED
    BY <1>2, <1>3, <1>4, <1>5

\* The text of an integer, and of a pointer, is a text.
LEMMA IntegerSeq ==
  ASSUME PowerLaw, NEW C, Plain \subseteq C, NEW d, d.type \in Types, d.prec \in Int,
         d.width \in Int, NEW arg \in Int
  PROVE  IntegerText(d, arg) \in Seq(C) /\ PointerText(d, arg) \in Seq(C)
  <1> DEFINE signed == d.conv \in {"d", "i"}
             v == IF signed THEN Signed(arg, d.type) ELSE Unsigned(arg, d.type)
             base == Base(d.conv)
             m == Magnitude(v)
             neg == v < 0
             upper == d.conv = "X"
             flags == d.flags \ ((IF base = 10 THEN {"#"} ELSE {})
                             \cup (IF signed THEN {} ELSE {"+", " "})
                             \cup (IF "." \in d.flags THEN {"0"} ELSE {}))
  <1>a. "long" \in Types
    BY DEF Types
  <1>1. v \in Int /\ Unsigned(arg, "long") \in Nat
    <2>1. Signed(arg, d.type) \in Int /\ Unsigned(arg, d.type) \in Nat
      BY ArgumentValue
    <2>2. Unsigned(arg, "long") \in Nat
      BY <1>a, ArgumentValue
    <2> QED
      BY <2>1, <2>2
  <1>2. m \in Nat
    <2> HIDE DEF v
    <2> QED
      BY <1>1, ArgumentValue
  <1>3. base \in {2, 8, 10, 16}
    BY DEF Base
  <1>4. neg \in BOOLEAN /\ upper \in BOOLEAN
    OBVIOUS
  <1>5. IntegerText(d, arg) = ntoa_long(m, neg, base, upper, d.prec, d.width, flags)
    BY DEF IntegerText
  <1> HIDE DEF v, base, m, neg, upper, flags
  <1>6. ntoa_long(m, neg, base, upper, d.prec, d.width, flags) \in Seq(C)
    BY <1>2, <1>3, <1>4, LongSeq
  <1> DEFINE u == Unsigned(arg, "long")
             b == Bits["long"] \div 4
             fl == d.flags \cup {"0"}
  <1>7. b \in Int /\ u \in Nat
    BY <1>1, PrintfAssumption DEF Types
  <1>8. PointerText(d, arg) = ntoa_long(u, FALSE, 16, TRUE, d.prec, b, fl)
    BY DEF PointerText
  <1> HIDE DEF u, b, fl
  <1>9. ntoa_long(u, FALSE, 16, TRUE, d.prec, b, fl) \in Seq(C)
    BY <1>7, LongSeq
  <1> QED
    BY <1>5, <1>6, <1>8, <1>9

\* So is a character or a string in its field.
LEMMA FieldSeq ==
  ASSUME NEW C, Plain \subseteq C, NEW d, d.prec \in Nat, d.width \in Int, NEW s \in Seq(C)
  PROVE  InField(s, d) \in Seq(C) /\ StringText(d, s) \in Seq(C)
  <1>1. ASSUME NEW t \in Seq(C) PROVE InField(t, d) \in Seq(C)
    <2> DEFINE m == d.width - Len(t)
               pad == Copies(" ", m)
    <2>0. Len(t) \in Nat
      BY <1>1, LenProperties
    <2>a. " " \in C
      BY DEF Plain
    <2>b. m \in Int
      BY <2>0
    <2>1. m \in Int /\ " " \in C
      BY <2>a, <2>b
    <2>2. pad \in Seq(C)
      <3> HIDE DEF m
      <3> QED
        BY <2>1, CopiesSeq
    <2>3. InField(t, d) = IF "-" \in d.flags THEN t \o pad ELSE pad \o t
      BY DEF InField
    <2> HIDE DEF pad
    <2>4. t \o pad \in Seq(C) /\ pad \o t \in Seq(C)
      BY <2>2, ConcatProperties
    <2> QED
      BY <2>3, <2>4
  <1> DEFINE t == IF "." \in d.flags /\ d.prec < Len(s) THEN SubSeq(s, 1, d.prec) ELSE s
  <1>2. t \in Seq(C)
    <2>1. Len(s) \in Nat /\ \A j \in 1 .. Len(s) : s[j] \in C
      BY LenProperties, ElementOfSeq
    <2>2. CASE d.prec < Len(s)
      <3> DEFINE p == d.prec
      <3>1. p \in Int /\ 1 \in Int /\ \A j \in 1 .. p : s[j] \in C
        BY <2>1, <2>2
      <3> HIDE DEF p
      <3>2. SubSeq(s, 1, p) \in Seq(C)
        BY <3>1, SubSeqProperties
      <3> QED
        BY <3>2 DEF p
    <2> QED
      BY <2>2
  <1>3. StringText(d, s) = InField(t, d)
    BY DEF StringText
  <1> HIDE DEF t
  <1>4. InField(t, d) \in Seq(C)
    BY <1>1, <1>2
  <1> QED
    BY <1>1, <1>3, <1>4

-----------------------------------------------------------------------------
(* Reading a directive.                                                    *)

\* Reading a string gives its characters, and NUL only at its end.
LEMMA AtString ==
  ASSUME NEW A, NUL \notin A, NEW s \in Seq(A), NEW j \in Int
  PROVE  /\ At(s, j) \in A \cup {NUL}
         /\ At(s, j) # NUL <=> j \in 1 .. Len(s)
         /\ j \in 1 .. Len(s) => At(s, j) = s[j]
  <1>1. DOMAIN s = 1 .. Len(s) /\ \A k \in 1 .. Len(s) : s[k] \in A
    BY LenProperties, ElementOfSeq
  <1> QED
    BY <1>1 DEF At

\* Skipping characters stops at the first other one, at the latest at the
\* terminator.
LEMMA PastStops ==
  ASSUME NEW A, NUL \notin A, NEW s \in Seq(A), NEW j \in 1 .. (Len(s) + 1),
         NEW K, NUL \notin K
  PROVE  /\ Past(s, j, K) \in j .. (Len(s) + 1)
         /\ \A r \in j .. (Past(s, j, K) - 1) : s[r] \in K
  <1>0. Len(s) \in Nat
    BY LenProperties
  <1> DEFINE L == Len(s) + 1
             B == {q \in j .. L : At(s, q) \notin K}
             m == Min(B)
             Q(q) == At(s, q) \notin K /\ \A r \in j .. (q - 1) : s[r] \in K
  <1>1. L \in Nat /\ j \in Nat /\ L \notin 1 .. Len(s) /\ j \in 1 .. L
    BY <1>0
  <1>2. L \in B
    <2>1. At(s, L) = NUL
      <3> HIDE DEF L
      <3> QED
        BY <1>1, AtString
    <2> QED
      BY <1>1, <2>1
  <1>3. B \in SUBSET Nat /\ B \in SUBSET (0 .. ((L + 1) - 1)) /\ L + 1 \in Nat
    BY <1>1
  <1>4. IsFiniteSet(B)
    <2> HIDE DEF B, L
    <2> QED
      BY <1>3, BoundedSet
  <1>5. m \in B /\ \A q \in B : m <= q
    <2> HIDE DEF B
    <2> QED
      BY <1>2, <1>3, <1>4, MinIsLeast
  <1> HIDE DEF m
  <1>6. m \in j .. L /\ Q(m)
    <2>1. m \in j .. L /\ At(s, m) \notin K
      BY <1>5
    <2>2. ASSUME NEW r \in j .. (m - 1) PROVE s[r] \in K
      <3>1. r \in j .. L /\ ~ (m <= r) /\ r \in 1 .. Len(s)
        BY <1>0, <1>1, <2>1
      <3>2. r \notin B
        <4> HIDE DEF B
        <4> QED
          BY <1>5, <3>1
      <3>3. At(s, r) \in K
        BY <3>1, <3>2
      <3>4. At(s, r) = s[r]
        BY <3>1, AtString
      <3> QED
        BY <3>3, <3>4
    <2> QED
      BY <2>1, <2>2
  <1>7. Past(s, j, K) = CHOOSE q \in j .. L : Q(q)
    BY DEF Past
  <1>8. Past(s, j, K) \in j .. L /\ Q(Past(s, j, K))
    <2> DEFINE p == CHOOSE q \in j .. L : Q(q)
    <2>1. p \in j .. L /\ Q(p)
      <3> HIDE DEF Q, L
      <3> QED
        BY <1>6
    <2> HIDE DEF p
    <2>2. Past(s, j, K) = p
      BY <1>7 DEF p
    <2> HIDE DEF Q
    <2> QED
      BY <2>1, <2>2
  <1> QED
    BY <1>8

\* The value of a digit.
LEMMA DigitValue ==
  ASSUME NEW c \in Digit
  PROVE  ValueOf(c) \in Nat
  <1>1. /\ Glyphs[1] = "0" /\ Glyphs[2] = "1" /\ Glyphs[3] = "2" /\ Glyphs[4] = "3"
        /\ Glyphs[5] = "4" /\ Glyphs[6] = "5" /\ Glyphs[7] = "6" /\ Glyphs[8] = "7"
        /\ Glyphs[9] = "8" /\ Glyphs[10] = "9" /\ DOMAIN Glyphs = 1 .. 16
    BY DEF Glyphs
  <1>2. \E j \in 1 .. 16 : Glyphs[j] = c
    <2>1. /\ 1 \in 1 .. 16 /\ 2 \in 1 .. 16 /\ 3 \in 1 .. 16 /\ 4 \in 1 .. 16 /\ 5 \in 1 .. 16
          /\ 6 \in 1 .. 16 /\ 7 \in 1 .. 16 /\ 8 \in 1 .. 16 /\ 9 \in 1 .. 16 /\ 10 \in 1 .. 16
      OBVIOUS
    <2>2. \/ c = "0" \/ c = "1" \/ c = "2" \/ c = "3" \/ c = "4"
          \/ c = "5" \/ c = "6" \/ c = "7" \/ c = "8" \/ c = "9"
      BY DEF Digit
    <2> QED
      BY <1>1, <2>1, <2>2
  <1> DEFINE k == CHOOSE j \in DOMAIN Glyphs : Glyphs[j] = c
  <1>3. k \in 1 .. 16
    BY <1>1, <1>2
  <1>4. ValueOf(c) = k - 1
    BY DEF ValueOf
  <1> HIDE DEF k
  <1> QED
    BY <1>3, <1>4

\* A width or precision in the format is an unsigned number.
LEMMA AtoiNat ==
  ASSUME PowerLaw, NEW A, NUL \notin A, NEW s \in Seq(A), NEW j \in 1 .. (Len(s) + 1)
  PROVE  atoi(s, j) \in Nat
  <1>a. NUL \notin Digit
    BY DEF NUL, Digit
  <1> DEFINE e == Past(s, j, Digit) - 1
             t == SubSeq(s, j, e)
             S == DOMAIN t
             P == 2^Bits["int"]
             Step(g) == [z \in SUBSET S |->
                           IF z = {} THEN 0
                           ELSE (10 * g[z \ {Max(z)}] + ValueOf(t[Max(z)])) % P]
             G == CHOOSE g : g = Step(g)
  <1>1. j \in Int /\ e \in Int /\ \A r \in j .. e : s[r] \in Digit
    <2>1. Len(s) \in Nat
      BY LenProperties
    <2>2. /\ Past(s, j, Digit) \in j .. (Len(s) + 1)
          /\ \A r \in j .. (Past(s, j, Digit) - 1) : s[r] \in Digit
      BY <1>a, PastStops
    <2> QED
      BY <2>1, <2>2
  <1>2. t \in Seq(Digit)
    <2> HIDE DEF e
    <2> QED
      BY <1>1, SubSeqProperties
  <1>3. P \in Int /\ P > 0
    <2>1. Bits["int"] \in Nat
      BY PrintfAssumption DEF Types
    <2> QED
      BY <2>1, PowersGrow
  <1>4. atoi(s, j) = G[S]
    BY Zenon DEF atoi, FoldLeft, MapThenFoldSet
  <1> HIDE DEF t, P, e
  <1>5. S = 1 .. Len(t) /\ Len(t) \in Nat /\ \A x \in S : ValueOf(t[x]) \in Nat
    BY <1>2, LenProperties, ElementOfSeq, DigitValue
  <1>6. IsFiniteSet(S) /\ S \in SUBSET Nat
    BY <1>5, PlacesFinite
  <1> DEFINE ch == [z \in SUBSET S |-> Max(z)]
             q == [p \in S \X Nat |-> (10 * p[2] + ValueOf(t[p[1]])) % P]
  <1>7. \A x \in S, n \in Nat : (10 * n + ValueOf(t[x])) % P \in Nat
    <2> TAKE x \in S, n \in Nat
    <2> DEFINE y == 10 * n + ValueOf(t[x])
    <2>1. y \in Int
      BY <1>5
    <2> HIDE DEF y
    <2>2. y % P \in Nat
      BY <1>3, <2>1
    <2> QED
      BY <2>2 DEF y
  <1> HIDE DEF S
  <1>8. \A z \in SUBSET S :
           z # {} => /\ ch[z] \in z /\ ch[z] = Max(z) /\ ch[z] \in S
                     /\ z \ {ch[z]} \in SUBSET S
    <2> TAKE z \in SUBSET S
    <2> HAVE z # {}
    <2>1. z \in SUBSET Nat /\ IsFiniteSet(z)
      BY <1>6, FS_Subset
    <2>2. Max(z) \in z
      BY <2>1, MaxIsGreatest
    <2> QED
      BY <2>2
  <1>9. q \in [S \X Nat -> Nat]
    BY <1>7
  <1>10. \A x \in S, n \in Nat : q[<<x, n>>] = (10 * n + ValueOf(t[x])) % P
    OBVIOUS
  <1> HIDE DEF ch, q
  <1>11. PICK h \in [SUBSET S -> Nat] : Folds(h, S, 0, ch, q)
    BY <1>6, <1>8, <1>9, FoldExists
  <1>12. h = Step(h)
    <2>1. ASSUME NEW z \in SUBSET S
          PROVE  h[z] = IF z = {} THEN 0 ELSE (10 * h[z \ {Max(z)}] + ValueOf(t[Max(z)])) % P
      <3>1. CASE z = {}
        BY <1>11, <3>1 DEF Folds
      <3>2. CASE z # {}
        <4>1. h[z] = q[<<ch[z], h[z \ {ch[z]}]>>]
          BY <1>11, <3>2 DEF Folds
        <4>2. ch[z] = Max(z) /\ ch[z] \in S /\ h[z \ {ch[z]}] \in Nat
          BY <1>8, <3>2
        <4>3. q[<<ch[z], h[z \ {ch[z]}]>>] = (10 * h[z \ {ch[z]}] + ValueOf(t[ch[z]])) % P
          BY <1>10, <4>2
        <4> QED
          BY <3>2, <4>1, <4>2, <4>3
      <3> QED
        BY <3>1, <3>2
    <2>2. h = [z \in SUBSET S |-> h[z]]
      OBVIOUS
    <2> QED
      BY <2>1, <2>2
  <1>13. G = Step(G)
    <2> HIDE DEF Step
    <2> QED
      BY <1>12, Zenon
  <1> HIDE DEF G
  <1>14. \A z \in SUBSET S :
            G[z] = IF z = {} THEN 0 ELSE (10 * G[z \ {Max(z)}] + ValueOf(t[Max(z)])) % P
    <2>1. \A g : \A z \in SUBSET S :
             Step(g)[z] = IF z = {} THEN 0
                          ELSE (10 * g[z \ {Max(z)}] + ValueOf(t[Max(z)])) % P
      OBVIOUS
    <2> HIDE DEF Step
    <2> QED
      BY <1>13, <2>1
  <1>15. G[{}] \in Nat
    <2>1. {} \in SUBSET S
      OBVIOUS
    <2>2. G[{}] = 0
      BY <1>14, <2>1, Zenon
    <2> QED
      BY <2>2
  <1>16. \A z \in SUBSET S : z # {} => ch[z] \in z /\ (G[z \ {ch[z]}] \in Nat => G[z] \in Nat)
    <2> TAKE z \in SUBSET S
    <2> HAVE z # {}
    <2>1. ch[z] \in z /\ ch[z] = Max(z) /\ ch[z] \in S
      BY <1>8
    <2>2. ASSUME G[z \ {ch[z]}] \in Nat PROVE G[z] \in Nat
      <3>1. G[z] = (10 * G[z \ {ch[z]}] + ValueOf(t[ch[z]])) % P
        BY <1>14, <2>1
      <3> QED
        BY <1>7, <2>1, <2>2, <3>1
    <2> QED
      BY <2>1, <2>2
  <1>17. G[S] \in Nat
    BY <1>6, <1>15, <1>16, FoldInduction
  <1> QED
    BY <1>4, <1>17

\* Width and precision are numbers, and end within the format.
LEMMA FieldRead ==
  ASSUME PowerLaw, NEW A, NUL \notin A, NEW s \in Seq(A), NEW j \in 1 .. (Len(s) + 1),
         NEW args, At(s, j) = "*" => Head(args) \in Int
  PROVE  Field(s, j, args).n \in Int /\ Field(s, j, args).next \in j .. (Len(s) + 1)
  <1>0. Len(s) \in Nat /\ j \in Int
    BY LenProperties
  <1>1. CASE At(s, j) = "*"
    <2>1. j \in 1 .. Len(s)
      <3>1. At(s, j) # NUL
        BY <1>1 DEF NUL
      <3> QED
        BY <1>0, <3>1, AtString
    <2>2. Field(s, j, args).n = Head(args) /\ Field(s, j, args).next = j + 1
      BY <1>1 DEF Field
    <2> QED
      BY <1>0, <1>1, <2>1, <2>2
  <1>2. CASE At(s, j) # "*"
    <2>1. Field(s, j, args).n = atoi(s, j) /\ Field(s, j, args).next = Past(s, j, Digit)
      BY <1>2 DEF Field
    <2>2. NUL \notin Digit
      BY DEF NUL, Digit
    <2>3. Past(s, j, Digit) \in j .. (Len(s) + 1)
      BY <2>2, PastStops
    <2>4. atoi(s, j) \in Nat
      BY AtoiNat
    <2> QED
      BY <2>1, <2>3, <2>4
  <1> QED
    BY <1>1, <1>2

\* A length field names a type, and ends within the format.
LEMMA LengthRead ==
  ASSUME NEW A, NUL \notin A, NEW s \in Seq(A), NEW j \in 1 .. (Len(s) + 1)
  PROVE  Length(s, j).type \in Types /\ Length(s, j).next \in j .. (Len(s) + 1)
  <1>0. Len(s) \in Nat /\ j \in Int /\ j + 1 \in Int
    BY LenProperties
  <1>1. /\ At(s, j) # NUL => j <= Len(s)
        /\ At(s, j + 1) # NUL => j + 1 <= Len(s)
    <2>1. At(s, j) # NUL => j \in 1 .. Len(s)
      BY <1>0, AtString
    <2>2. At(s, j + 1) # NUL => j + 1 \in 1 .. Len(s)
      BY <1>0, AtString
    <2> QED
      BY <1>0, <2>1, <2>2
  <1>2. /\ j + 1 \in j .. (j + 1) /\ j + 2 \in j .. (j + 2)
        /\ j <= Len(s) => j + 1 \in j .. (Len(s) + 1)
        /\ j + 1 <= Len(s) => j + 2 \in j .. (Len(s) + 1)
        /\ j \in j .. (Len(s) + 1)
    BY <1>0
  <1>3. NUL \notin {"l", "h", "t", "j", "z"}
    BY DEF NUL
  <1>4. "long" \in Types /\ "char" \in Types /\ "short" \in Types /\ "int" \in Types
    BY DEF Types
  <1> DEFINE c == At(s, j)
             d == At(s, j + 1)
  <1>5. CASE c = "l"
    <2>1. Length(s, j) = [type |-> "long", next |-> IF d = "l" THEN j + 2 ELSE j + 1]
      BY <1>5 DEF Length
    <2>2. j <= Len(s) /\ (d = "l" => j + 1 <= Len(s))
      BY <1>1, <1>3, <1>5
    <2> QED
      BY <1>2, <1>4, <2>1, <2>2
  <1>6. CASE c = "h"
    <2>1. Length(s, j) = IF d = "h" THEN [type |-> "char", next |-> j + 2]
                                    ELSE [type |-> "short", next |-> j + 1]
      BY <1>6 DEF Length
    <2>2. j <= Len(s) /\ (d = "h" => j + 1 <= Len(s))
      BY <1>1, <1>3, <1>6
    <2> QED
      BY <1>2, <1>4, <2>1, <2>2
  <1>7. CASE c \in {"t", "j", "z"}
    <2>1. Length(s, j) = [type |-> "long", next |-> j + 1]
      BY <1>7 DEF Length
    <2>2. j <= Len(s)
      BY <1>1, <1>3, <1>7
    <2> QED
      BY <1>2, <1>4, <2>1, <2>2
  <1>8. CASE c \notin {"l", "h", "t", "j", "z"}
    <2>1. Length(s, j) = [type |-> "int", next |-> j]
      BY <1>8 DEF Length
    <2> QED
      BY <1>2, <1>4, <2>1
  <1> QED
    BY <1>5, <1>6, <1>7, <1>8

Flags == {"0", "-", "+", " ", "#"}

\* The arguments that stand for the width and the precision of the directive
\* at j are numbers.
StarsFit(s, j, args) ==
    LET a == Past(s, j + 1, Flags)
        w == Field(s, a, args)
    IN /\ At(s, a) = "*" => Head(args) \in Int
       /\ At(s, w.next) = "." /\ At(s, w.next + 1) = "*" => Head(w.va) \in Int

\* A directive has a width, a precision and a type, and only one that the end
\* of the format cuts off leads beyond it.
LEMMA DirectiveRead ==
  ASSUME PowerLaw, NEW A, NUL \notin A, NEW s \in Seq(A), NEW j \in 1 .. Len(s),
         NEW args, StarsFit(s, j, args)
  PROVE  /\ Directive(s, j, args).width \in Nat
         /\ Directive(s, j, args).prec \in Nat
         /\ "." \notin Directive(s, j, args).flags => Directive(s, j, args).prec = 0
         /\ Directive(s, j, args).type \in Types
         /\ Directive(s, j, args).conv \in A \cup {NUL}
         /\ Directive(s, j, args).conv # NUL =>
               Directive(s, j, args).next \in 1 .. (Len(s) + 1)
  <1>0. Len(s) \in Nat /\ j + 1 \in 1 .. (Len(s) + 1) /\ j \in Int
    BY LenProperties
  <1> DEFINE L == Len(s) + 1
             a == Past(s, j + 1, Flags)
             w == Field(s, a, args)
             dot == At(s, w.next) = "."
             p == IF dot THEN Field(s, w.next + 1, w.va)
                         ELSE [n |-> 0, next |-> w.next, va |-> w.va]
             l == Length(s, p.next)
  <1>1. a \in 1 .. L
    <2>1. NUL \notin Flags
      BY DEF NUL, Flags
    <2>2. a \in (j + 1) .. L
      BY <1>0, <2>1, PastStops
    <2> HIDE DEF a
    <2> QED
      BY <1>0, <2>2
  <1>2. /\ At(s, a) = "*" => Head(args) \in Int
        /\ dot /\ At(s, w.next + 1) = "*" => Head(w.va) \in Int
    BY DEF StarsFit
  <1> HIDE DEF a
  <1>3. w.n \in Int /\ w.next \in 1 .. L
    <2>1. w.n \in Int /\ w.next \in a .. L
      BY <1>1, <1>2, FieldRead
    <2> HIDE DEF w
    <2> QED
      BY <1>0, <1>1, <2>1
  <1> HIDE DEF w
  <1>4. p.n \in Int /\ p.next \in 1 .. L
    <2>1. CASE dot
      <3> DEFINE k == w.next + 1
      <3>1. w.next \in 1 .. Len(s)
        <4>1. w.next \in Int /\ At(s, w.next) # NUL
          BY <1>0, <1>3, <2>1 DEF NUL
        <4> QED
          BY <4>1, AtString
      <3>2. k \in 1 .. L
        BY <1>0, <3>1
      <3>3. p = Field(s, k, w.va) /\ (At(s, k) = "*" => Head(w.va) \in Int)
        BY <1>2, <2>1
      <3> HIDE DEF k, p
      <3>4. p.n \in Int /\ p.next \in k .. L
        BY <3>2, <3>3, FieldRead
      <3> QED
        BY <1>0, <3>2, <3>4
    <2>2. CASE ~ dot
      <3>1. p.n = 0 /\ p.next = w.next
        BY <2>2
      <3> QED
        BY <1>3, <3>1
    <2> QED
      BY <2>1, <2>2
  <1> HIDE DEF p
  <1>5. l.type \in Types /\ l.next \in 1 .. L
    <2>1. l.type \in Types /\ l.next \in p.next .. L
      BY <1>4, LengthRead
    <2> HIDE DEF l
    <2> QED
      BY <1>0, <1>4, <2>1
  <1>6. /\ Directive(s, j, args).width = IF w.n < 0 THEN -w.n ELSE w.n
        /\ Directive(s, j, args).prec = IF p.n > 0 THEN p.n ELSE 0
        /\ Directive(s, j, args).type = l.type
        /\ Directive(s, j, args).conv = At(s, l.next)
        /\ Directive(s, j, args).next = l.next + 1
        /\ Directive(s, j, args).flags = {s[q] : q \in (j + 1) .. (a - 1)}
                                           \cup (IF w.n < 0 THEN {"-"} ELSE {})
                                           \cup (IF dot THEN {"."} ELSE {})
    BY Zenon DEF Directive, a, w, p, Flags
  <1>9. "." \notin Directive(s, j, args).flags => p.n = 0
    <2>1. dot => "." \in Directive(s, j, args).flags
      BY <1>6
    <2>2. ~ dot => p.n = 0
      BY DEF p
    <2> QED
      BY <2>1, <2>2
  <1> HIDE DEF l, dot
  <1>7. /\ (IF w.n < 0 THEN -w.n ELSE w.n) \in Nat
        /\ (IF p.n > 0 THEN p.n ELSE 0) \in Nat
        /\ p.n = 0 => (IF p.n > 0 THEN p.n ELSE 0) = 0
    BY <1>3, <1>4
  <1>8. /\ At(s, l.next) \in A \cup {NUL}
        /\ At(s, l.next) # NUL => l.next + 1 \in 1 .. L
    <2>1. l.next \in Int
      BY <1>0, <1>5
    <2>2. At(s, l.next) \in A \cup {NUL} /\ (At(s, l.next) # NUL => l.next \in 1 .. Len(s))
      BY <2>1, AtString
    <2> QED
      BY <1>0, <2>1, <2>2
  <1> QED
    BY <1>5, <1>6, <1>7, <1>8, <1>9

-----------------------------------------------------------------------------
(* The text and the buffer.                                                *)

\* What may be put out: an output function is not called for a NUL.
Printable(c, A) == IF c.sink = "fct" THEN A ELSE A \cup {NUL}

\* The arguments of the next directive are of the types it names.
ArgumentsFit(A) ==
    pc = "run" /\ Here = "%" =>
        /\ StarsFit(call.format, f, va)
        /\ D.conv \in {"d", "i", "u", "x", "X", "o", "b", "p"} => Head(D.va) \in Int
        /\ D.conv = "c" => Head(D.va) \in Printable(call, A)
        /\ D.conv = "s" => Head(D.va) \in Seq(A)

\* What the output function of the call c keeps: the character ch for
\* position j.
Kept(c, j, ch) == (c.sink = "buffer" /\ j < c.count) \/ (c.sink = "fct" /\ ch # NUL)

\* The buffer b has the characters of the text t that the call c keeps.
BufferHas(c, t, b) ==
    /\ DOMAIN b = 0 .. (OUT - 1)
    /\ \A j \in 0 .. (OUT - 1) :
          b[j] = IF j < Len(t) /\ Kept(c, j, t[j + 1]) THEN t[j + 1] ELSE Untouched

\* The inductive invariant: until the call returns, the buffer is the text so
\* far, cut off at count.
TextInv(A) ==
    /\ call \in Calls
    /\ pc \in {"run", "done", "overread"}
    /\ pc = "run" => /\ f \in 1 .. (Len(call.format) + 1)
                     /\ text \in Seq(Printable(call, A))
                     /\ idx = Len(text)
                     /\ BufferHas(call, text, buffer)
    /\ Delivered

\* The output functions, in one formula.
LEMMA StoresKept ==
  ASSUME call \in Calls, NEW j, NEW ch
  PROVE  Stores(j, ch) <=> Kept(call, j, ch)
  <1>1. call.sink = "buffer" \/ call.sink = "null" \/ call.sink = "fct"
    BY PrintfAssumption DEF Sinks
  <1> QED
    BY <1>1 DEF Stores, Kept

\* Writing a text at the end of what is written.
LEMMA OutKeeps ==
  ASSUME call \in Calls, NEW C, text \in Seq(C), idx = Len(text),
         BufferHas(call, text, buffer), NEW s \in Seq(C), Out(s)
  PROVE  /\ text' \in Seq(C) /\ idx' = Len(text') /\ BufferHas(call, text', buffer')
  <1>0. Len(text) \in Nat /\ Len(s) \in Nat /\ OUT \in Nat
    BY LenProperties, PrintfAssumption
  <1>1. text' = text \o s /\ idx' = idx + Len(s)
    BY DEF Out
  <1>2. /\ text' \in Seq(C) /\ Len(text') = Len(text) + Len(s)
        /\ \A k \in 1 .. Len(text) + Len(s) :
              text'[k] = IF k <= Len(text) THEN text[k] ELSE s[k - Len(text)]
    BY <1>1, ConcatProperties
  <1>3. /\ DOMAIN buffer' = 0 .. (OUT - 1)
        /\ \A j \in 0 .. (OUT - 1) :
              buffer'[j] = IF j \in idx .. (idx + Len(s) - 1) /\ Kept(call, j, s[j - idx + 1])
                           THEN s[j - idx + 1] ELSE buffer[j]
    <2>1. \A j, ch : Stores(j, ch) <=> Kept(call, j, ch)
      BY StoresKept
    <2> QED
      BY <2>1 DEF Out, BufferHas
  <1>5. ASSUME NEW j \in 0 .. (OUT - 1)
        PROVE  buffer'[j] = IF j < Len(text') /\ Kept(call, j, text'[j + 1])
                            THEN text'[j + 1] ELSE Untouched
    <2>0. j \in Nat
      BY <1>0
    <2>1. buffer[j] = IF j < Len(text) /\ Kept(call, j, text[j + 1]) THEN text[j + 1] ELSE Untouched
      BY DEF BufferHas
    <2>2. CASE j < Len(text)
      <3>1. j \notin idx .. (idx + Len(s) - 1) /\ j < Len(text')
            /\ j + 1 \in 1 .. Len(text) + Len(s) /\ j + 1 <= Len(text)
        BY <1>0, <1>2, <2>0, <2>2
      <3>2. buffer'[j] = buffer[j] /\ text'[j + 1] = text[j + 1]
        BY <1>2, <1>3, <3>1
      <3> QED
        BY <2>1, <2>2, <3>1, <3>2
    <2>3. CASE j >= Len(text) /\ j < Len(text')
      <3>1. /\ j \in idx .. (idx + Len(s) - 1) /\ j + 1 \in 1 .. Len(text) + Len(s)
            /\ ~ (j + 1 <= Len(text)) /\ ~ (j < Len(text))
            /\ (j + 1) - Len(text) = j - idx + 1
        BY <1>0, <1>2, <2>0, <2>3
      <3>2. text'[j + 1] = s[j - idx + 1]
        BY <1>2, <3>1
      <3>3. buffer[j] = Untouched
        BY <2>1, <3>1
      <3>4. buffer'[j] = IF Kept(call, j, s[j - idx + 1]) THEN s[j - idx + 1] ELSE Untouched
        BY <1>3, <3>1, <3>3
      <3> QED
        BY <2>3, <3>2, <3>4
    <2>4. CASE j >= Len(text')
      <3>1. ~ (j < Len(text)) /\ ~ (j < Len(text')) /\ j \notin idx .. (idx + Len(s) - 1)
        BY <1>0, <1>2, <2>0, <2>4
      <3> QED
        BY <1>3, <2>1, <3>1
    <2>5. \/ j < Len(text) \/ (j >= Len(text) /\ j < Len(text')) \/ j >= Len(text')
      BY <1>0, <1>2, <2>0
    <2> QED
      BY <2>2, <2>3, <2>4, <2>5
  <1>6. BufferHas(call, text', buffer')
    BY <1>3, <1>5 DEF BufferHas
  <1>7. idx' = Len(text')
    BY <1>0, <1>1, <1>2
  <1> QED
    BY <1>2, <1>6, <1>7

\* A step of the loop that writes a text and goes on, or runs beyond the
\* terminator of the format.
LEMMA TurnKeeps ==
  ASSUME NEW A, TextInv(A), pc = "run",
         NEW s \in Seq(Printable(call, A)), Out(s), call' = call,
         pc' \in {"run", "overread"},
         pc' = "run" => f' \in 1 .. (Len(call.format) + 1)
  PROVE  TextInv(A)'
  <1> DEFINE C == Printable(call, A)
  <1>1. /\ call \in Calls /\ text \in Seq(C) /\ idx = Len(text)
        /\ BufferHas(call, text, buffer)
    BY DEF TextInv
  <1>2. text' \in Seq(C) /\ idx' = Len(text') /\ BufferHas(call, text', buffer')
    <2> HIDE DEF C
    <2>1. s \in Seq(C)
      BY DEF C
    <2> QED
      BY <1>1, <2>1, OutKeeps
  <1>3. BufferHas(call', text', buffer') /\ text' \in Seq(Printable(call', A))
        /\ call' \in Calls
    BY <1>1, <1>2
  <1>4. pc' = "run" => f' \in 1 .. (Len(call'.format) + 1)
    OBVIOUS
  <1>5. Delivered'
    BY DEF Delivered
  <1> QED
    BY <1>2, <1>3, <1>4, <1>5 DEF TextInv

\* The end of the loop: the terminator is stored behind the last character
\* that fits, and what was promised is there.
LEMMA TerminateDelivers ==
  ASSUME NEW A, NUL \notin A, TextInv(A), Terminate
  PROVE  TextInv(A)'
  <1> DEFINE c == call.count
             e == IF idx < c THEN idx ELSE IF c = 0 THEN SIZE_MAX ELSE c - 1
  <1>1. /\ call \in Calls /\ text \in Seq(Printable(call, A)) /\ idx = Len(text)
        /\ DOMAIN buffer = 0 .. (OUT - 1)
        /\ \A j \in 0 .. (OUT - 1) :
              buffer[j] = IF j < idx /\ Kept(call, j, text[j + 1])
                          THEN text[j + 1] ELSE Untouched
    BY DEF TextInv, BufferHas, Terminate
  <1>2. idx \in Nat /\ OUT \in Nat /\ c \in Nat /\ call.sink \in Sinks
    BY <1>1, LenProperties, PrintfAssumption
  <1>3. /\ DOMAIN buffer' = 0 .. (OUT - 1)
        /\ \A j \in 0 .. (OUT - 1) :
              buffer'[j] = IF j = e /\ Kept(call, j, NUL) THEN NUL ELSE buffer[j]
    <2>1. \A j, ch : Stores(j, ch) <=> Kept(call, j, ch)
      BY <1>1, StoresKept
    <2> QED
      BY <1>1, <2>1 DEF Terminate
  <1>4. /\ pc' = "done" /\ call' = call /\ idx' = idx /\ text' = text
    BY DEF Terminate
  <1> DEFINE kept == CASE call.sink = "fct" -> text
                       [] call.sink = "null" -> <<>>
                       [] call.sink = "buffer" /\ c = 0 -> <<>>
                       [] OTHER -> SubSeq(text, 1, Min({idx, c - 1})) \o <<NUL>>
  <1>5. \A j \in 0 .. (OUT - 1) :
           buffer'[j] = IF j < Len(kept) THEN kept[j + 1] ELSE Untouched
    <2>1. CASE call.sink = "fct"
      <3>1. kept = text /\ Len(kept) = idx
        BY <1>1, <2>1
      <3>2. text \in Seq(A)
        BY <1>1, <2>1 DEF Printable
      <3>3. \A j \in 0 .. (OUT - 1) : j < idx => text[j + 1] # NUL
        <4>1. \A k \in 1 .. idx : text[k] \in A
          BY <1>1, <3>2, ElementOfSeq
        <4> QED
          BY <1>2, <4>1
      <3> HIDE DEF kept
      <3> QED
        BY <1>1, <1>3, <2>1, <3>1, <3>3 DEF Kept
    <2>2. CASE call.sink = "null"
      <3>1. kept = <<>>
        BY <2>2
      <3>2. Len(kept) = 0
        BY <3>1
      <3>3. \A j \in 0 .. (OUT - 1) : buffer'[j] = Untouched
        BY <1>1, <1>3, <2>2 DEF Kept
      <3> HIDE DEF kept
      <3> QED
        BY <1>2, <3>2, <3>3
    <2>3. CASE call.sink = "buffer" /\ c = 0
      <3>1. kept = <<>>
        BY <2>3
      <3>2. Len(kept) = 0
        BY <3>1
      <3>3. \A j \in 0 .. (OUT - 1) : buffer'[j] = Untouched
        BY <1>1, <1>2, <1>3, <2>3 DEF Kept
      <3> HIDE DEF kept
      <3> QED
        BY <1>2, <3>2, <3>3
    <2>4. CASE call.sink = "buffer" /\ c > 0
      <3> DEFINE m == IF idx < c THEN idx ELSE c - 1
                 front == SubSeq(text, 1, m)
      <3>1. m = e /\ m \in Nat /\ m <= idx /\ m < c /\ (m = idx \/ m = c - 1)
        BY <1>2, <2>4
      <3>2. Min({idx, c - 1}) = m
        <4>1. \A x \in {idx, c - 1} : m <= x
          BY <1>2, <2>4
        <4>2. m \in {idx, c - 1}
          BY <1>2, <2>4
        <4>3. \A x \in {idx, c - 1} : (\A y \in {idx, c - 1} : x <= y) => x = m
          BY <1>2, <2>4, <4>1, <4>2
        <4> HIDE DEF m
        <4> QED
          BY <4>1, <4>2, <4>3 DEF Min
      <3>3. kept = front \o <<NUL>>
        <4>1. /\ call.sink # "fct" /\ call.sink # "null"
              /\ ~ (call.sink = "buffer" /\ c = 0)
          BY <1>2, <2>4
        <4>2. kept = SubSeq(text, 1, Min({idx, c - 1})) \o <<NUL>>
          <5> HIDE DEF c
          <5> QED
            BY <4>1, Zenon
        <4> HIDE DEF m, c, kept
        <4> QED
          BY <3>2, <4>2
      <3> HIDE DEF m, kept
      <3>4. /\ front \in Seq(Printable(call, A)) /\ Len(front) = m
            /\ \A k \in 1 .. m : front[k] = text[k]
        BY <1>1, <1>2, <3>1, SubSeqProperties
      <3>5. /\ Len(kept) = m + 1
            /\ \A k \in 1 .. m + 1 : kept[k] = IF k <= m THEN text[k] ELSE NUL
        <4> DEFINE Q == Printable(call, A) \cup {NUL}
        <4>1. <<NUL>> \in Seq(Q) /\ Len(<<NUL>>) = 1 /\ <<NUL>>[1] = NUL
          OBVIOUS
        <4>2. front \in Seq(Q)
          <5>1. Printable(call, A) \subseteq Q
            OBVIOUS
          <5> HIDE DEF front, Q
          <5> QED
            BY <3>4, <5>1
        <4> HIDE DEF front, Q
        <4>3. /\ Len(kept) = m + 1
              /\ \A k \in 1 .. m + 1 : kept[k] = IF k <= m THEN front[k] ELSE <<NUL>>[k - m]
          BY <3>3, <3>4, <4>1, <4>2, ConcatProperties
        <4>4. ASSUME NEW k \in 1 .. m + 1
              PROVE  kept[k] = IF k <= m THEN text[k] ELSE NUL
          <5>1. CASE k <= m
            BY <3>1, <3>4, <4>3, <5>1
          <5>2. CASE ~ (k <= m)
            <6>1. k - m = 1
              BY <3>1, <5>2
            <6> QED
              BY <4>1, <4>3, <5>2, <6>1
          <5> QED
            BY <5>1, <5>2
        <4> QED
          BY <4>3, <4>4
      <3> HIDE DEF e
      <3> QED
        <4> SUFFICES ASSUME NEW j \in 0 .. (OUT - 1)
                     PROVE  buffer'[j] = IF j < Len(kept) THEN kept[j + 1] ELSE Untouched
          OBVIOUS
        <4>0. j \in Nat /\ (\A ch : Kept(call, j, ch) <=> j < c)
          BY <1>2, <2>4 DEF Kept
        <4>1. CASE j < m
          <5>1. j < idx /\ j < c /\ j + 1 \in 1 .. m + 1 /\ j + 1 <= m /\ j # e /\ j < Len(kept)
            BY <1>2, <3>1, <3>5, <4>0, <4>1
          <5> QED
            BY <1>1, <1>3, <3>5, <4>0, <5>1
        <4>2. CASE j = m
          <5>1. j < c /\ j + 1 \in 1 .. m + 1 /\ ~ (j + 1 <= m) /\ j = e /\ j < Len(kept)
            BY <1>2, <3>1, <3>5, <4>0, <4>2
          <5> QED
            BY <1>3, <3>5, <4>0, <5>1
        <4>3. CASE j > m
          <5>1. ~ (j < idx /\ j < c) /\ j # e /\ ~ (j < Len(kept))
            BY <1>2, <3>1, <3>5, <4>0, <4>3
          <5> QED
            BY <1>1, <1>3, <4>0, <5>1
        <4> QED
          BY <3>1, <4>0, <4>1, <4>2, <4>3
    <2>5. \/ call.sink = "fct" \/ call.sink = "null"
          \/ (call.sink = "buffer" /\ c = 0) \/ (call.sink = "buffer" /\ c > 0)
      <3>1. c = 0 \/ c > 0
        BY <1>2
      <3>2. call.sink = "fct" \/ call.sink = "null" \/ call.sink = "buffer"
        BY <1>2 DEF Sinks
      <3> QED
        BY <3>1, <3>2
    <2> QED
      BY <2>1, <2>2, <2>3, <2>4, <2>5
  <1>6. Delivered'
    BY <1>1, <1>3, <1>4, <1>5 DEF Delivered
  <1> QED
    BY <1>1, <1>4, <1>6 DEF TextInv

\* Every turn of the loop keeps the invariant.
LEMMA TextStep ==
  ASSUME PowerLaw, NEW A, NUL \notin A, Plain \subseteq A,
         \A c \in Calls : c.format \in Seq(A),
         TextInv(A), ArgumentsFit(A), [PrintfNext]_printfVars
  PROVE  TextInv(A)'
  <1> DEFINE C == Printable(call, A)
             s == call.format
  <1>1. CASE UNCHANGED printfVars
    BY <1>1 DEF printfVars, TextInv, Delivered
  <1>2. ASSUME pc = "run" PROVE /\ s \in Seq(A) /\ f \in 1 .. (Len(s) + 1)
                                /\ A \subseteq C /\ Len(s) \in Nat
    BY <1>2, LenProperties DEF TextInv, Printable
  <1>3. ASSUME Literal PROVE TextInv(A)'
    <2>1. pc = "run" /\ Here # NUL /\ Out(<<Here>>) /\ f' = f + 1 /\ call' = call /\ pc' = pc
      BY <1>3 DEF Literal
    <2>2. Here \in A /\ f \in 1 .. Len(s)
      <3>1. f \in Int /\ Here = At(s, f)
        BY <1>2, <2>1 DEF Here
      <3> HIDE DEF s
      <3> QED
        BY <1>2, <2>1, <3>1, AtString
    <2>3. f' \in 1 .. (Len(s) + 1)
      <3> HIDE DEF s
      <3> QED
        BY <1>2, <2>1, <2>2
    <2>4. <<Here>> \in Seq(C)
      <3> HIDE DEF C
      <3> QED
        BY <1>2, <2>1, <2>2
    <2> QED
      BY <2>1, <2>3, <2>4, TurnKeeps
  \* The directives.
  <1>4. ASSUME pc = "run", Here = "%"
        PROVE  /\ D.width \in Int /\ D.prec \in Nat /\ D.type \in Types
               /\ D.conv \in A \cup {NUL}
               /\ D.conv # NUL => D.next \in 1 .. (Len(s) + 1)
    <2>1. f \in 1 .. Len(s)
      <3>1. f \in Int /\ At(s, f) # NUL
        BY <1>2, <1>4 DEF Here, NUL
      <3> HIDE DEF s
      <3> QED
        BY <1>2, <1>4, <3>1, AtString
    <2>2. StarsFit(s, f, va)
      BY <1>4 DEF ArgumentsFit
    <2>3. D = Directive(s, f, va)
      BY DEF D
    <2>4. s \in Seq(A)
      BY <1>2, <1>4
    <2> HIDE DEF s
    <2> QED
      BY <2>1, <2>2, <2>3, <2>4, DirectiveRead
  <1>5. ASSUME NEW t \in Seq(C), pc = "run", Here = "%", Convert(t), D.conv # NUL
        PROVE  TextInv(A)'
    <2>1. Out(t) /\ f' = D.next /\ call' = call /\ pc' = "run"
      BY <1>5 DEF Convert
    <2>2. f' \in 1 .. (Len(s) + 1)
      BY <1>4, <1>5, <2>1
    <2> QED
      BY <1>5, <2>1, <2>2, TurnKeeps
  <1>6. ASSUME pc = "run", Here = "%", D.conv \in {"d", "i", "u", "x", "X", "o", "b", "p"}
        PROVE  /\ IntegerText(D, Head(D.va)) \in Seq(C)
               /\ PointerText(D, Head(D.va)) \in Seq(C)
    <2>1. Head(D.va) \in Int
      BY <1>6 DEF ArgumentsFit
    <2>2. Plain \subseteq C
      BY <1>2, <1>6
    <2>3. D.type \in Types /\ D.prec \in Int /\ D.width \in Int
      BY <1>4, <1>6
    <2> HIDE DEF C
    <2> QED
      BY <2>1, <2>2, <2>3, IntegerSeq
  <1>7. ASSUME Integer PROVE TextInv(A)'
    <2>1. /\ pc = "run" /\ Here = "%" /\ D.conv \in {"d", "i", "u", "x", "X", "o", "b"}
          /\ Convert(IntegerText(D, Head(D.va)))
      BY <1>7 DEF Integer
    <2>2. D.conv \in {"d", "i", "u", "x", "X", "o", "b", "p"} /\ D.conv # NUL
      BY <2>1 DEF NUL
    <2> QED
      BY <1>5, <1>6, <2>1, <2>2
  <1>8. ASSUME Pointer PROVE TextInv(A)'
    <2>1. /\ pc = "run" /\ Here = "%" /\ D.conv = "p"
          /\ Convert(PointerText(D, Head(D.va)))
      BY <1>8 DEF Pointer
    <2>2. D.conv \in {"d", "i", "u", "x", "X", "o", "b", "p"} /\ D.conv # NUL
      BY <2>1 DEF NUL
    <2> QED
      BY <1>5, <1>6, <2>1, <2>2
  <1>9. ASSUME Character PROVE TextInv(A)'
    <2>1. /\ pc = "run" /\ Here = "%" /\ D.conv = "c"
          /\ Convert(InField(<<Head(D.va)>>, D))
      BY <1>9 DEF Character
    <2>2. Head(D.va) \in C /\ D.conv # NUL /\ Plain \subseteq C
      BY <1>2, <2>1 DEF ArgumentsFit, NUL
    <2> HIDE DEF C
    <2>3. <<Head(D.va)>> \in Seq(C)
      BY <2>2
    <2>4. InField(<<Head(D.va)>>, D) \in Seq(C)
      BY <1>4, <2>1, <2>2, <2>3, FieldSeq
    <2> QED
      BY <1>5, <2>1, <2>2, <2>4
  <1>10. ASSUME String PROVE TextInv(A)'
    <2>1. /\ pc = "run" /\ Here = "%" /\ D.conv = "s"
          /\ Convert(StringText(D, Head(D.va)))
      BY <1>10 DEF String
    <2>2. Head(D.va) \in Seq(A) /\ D.conv # NUL /\ Plain \subseteq C /\ A \subseteq C
      BY <1>2, <2>1 DEF ArgumentsFit, NUL
    <2> HIDE DEF C
    <2>3. Head(D.va) \in Seq(C)
      BY <2>2
    <2>4. StringText(D, Head(D.va)) \in Seq(C)
      BY <1>4, <2>1, <2>2, <2>3, FieldSeq
    <2> QED
      BY <1>5, <2>1, <2>2, <2>4
  <1>11. ASSUME Other PROVE TextInv(A)'
    <2>1. /\ pc = "run" /\ Here = "%" /\ Out(<<D.conv>>) /\ f' = D.next /\ call' = call
          /\ pc' = IF D.conv = NUL THEN "overread" ELSE "run"
      BY <1>11 DEF Other
    <2>2. CASE D.conv # NUL
      <3>1. D.conv \in C /\ f' \in 1 .. (Len(s) + 1) /\ pc' = "run"
        BY <1>2, <1>4, <2>1, <2>2
      <3>2. <<D.conv>> \in Seq(C)
        <4> HIDE DEF C
        <4> QED
          BY <3>1
      <3> QED
        BY <2>1, <3>1, <3>2, TurnKeeps
    <2>3. CASE D.conv = NUL
      <3>1. pc' = "overread"
        BY <2>1, <2>3
      <3> QED
        BY <2>1, <3>1 DEF TextInv, Delivered
    <2> QED
      BY <2>2, <2>3
  <1>12. ASSUME Terminate PROVE TextInv(A)'
    BY <1>12, TerminateDelivers
  <1> QED
    BY <1>1, <1>3, <1>7, <1>8, <1>9, <1>10, <1>11, <1>12 DEF PrintfNext

\* It holds when the call starts.
LEMMA TextInit ==
  ASSUME NEW A, \A c \in Calls : c.format \in Seq(A), PrintfInit
  PROVE  TextInv(A)
  <1>1. /\ call \in Calls /\ f = 1 /\ idx = 0 /\ text = <<>> /\ pc = "run"
        /\ buffer = [j \in 0 .. (OUT - 1) |-> Untouched]
    BY DEF PrintfInit
  <1>2. Len(call.format) \in Nat
    BY <1>1, LenProperties
  <1>3. f \in 1 .. (Len(call.format) + 1)
    BY <1>1, <1>2
  <1>4. text \in Seq(Printable(call, A)) /\ idx = Len(text)
    BY <1>1
  <1>5. BufferHas(call, text, buffer)
    <2>1. \A j \in 0 .. (OUT - 1) : ~ (j < Len(text))
      BY <1>1, PrintfAssumption
    <2> QED
      BY <1>1, <2>1 DEF BufferHas
  <1>6. Delivered
    BY <1>1 DEF Delivered
  <1> QED
    BY <1>1, <1>3, <1>4, <1>5, <1>6 DEF TextInv

\* Whatever calls are made, with formats over the characters A and
\* arguments of the types that the formats name, the text is delivered as the
\* callers of vsnprintf, snprintf, sprintf and fctprintf rely on: within
\* count, terminated, and cut off rather than written past the buffer.
THEOREM TextDelivered ==
  ASSUME PowerLaw, NEW A, NUL \notin A, Plain \subseteq A,
         \A c \in Calls : c.format \in Seq(A)
  PROVE  PrintfSpec /\ []ArgumentsFit(A) => []Delivered
  <1>1. PrintfInit => TextInv(A)
    BY TextInit
  <1>2. TextInv(A) /\ ArgumentsFit(A) /\ [PrintfNext]_printfVars => TextInv(A)'
    BY TextStep
  <1>3. TextInv(A) => Delivered
    BY DEF TextInv
  <1> QED
    BY <1>1, <1>2, <1>3, PTL DEF PrintfSpec

-----------------------------------------------------------------------------
(* The arguments.                                                          *)

\* The letters that take an argument.
Converting == {"d", "i", "u", "x", "X", "o", "b", "c", "s", "p"}

\* A directive but for its arguments: its letter and where it ends.
Shape(s, j) == Directive(s, j, <<>>)

\* How many of the two fields of the directive at j are a *.
WidthEnd(s, j) ==
    LET a == Past(s, j + 1, Flags)
    IN IF At(s, a) = "*" THEN a + 1 ELSE Past(s, a, Digit)
WidthStar(s, j) == At(s, Past(s, j + 1, Flags)) = "*"
PrecisionStar(s, j) == At(s, WidthEnd(s, j)) = "." /\ At(s, WidthEnd(s, j) + 1) = "*"
Stars(s, j) == (IF WidthStar(s, j) THEN 1 ELSE 0) + (IF PrecisionStar(s, j) THEN 1 ELSE 0)

\* How many arguments the format names at j, and where it goes on.
Names(s, j) ==
    IF At(s, j) # "%" THEN 0
    ELSE Stars(s, j) + (IF Shape(s, j).conv \in Converting THEN 1 ELSE 0)
Onward(s, j) == IF At(s, j) # "%" THEN j + 1 ELSE Shape(s, j).next

\* due[j] is the number of arguments that the format names from j on.
Due(due, s) ==
    /\ due \in [1 .. (Len(s) + 1) -> Nat]
    /\ due[Len(s) + 1] = 0
    /\ \A j \in 1 .. Len(s) :
          Onward(s, j) \in 1 .. (Len(s) + 1) => due[j] = Names(s, j) + due[Onward(s, j)]

\* The call has as many arguments as its format names.
Named(c) == \E due : Due(due, c.format) /\ Len(c.args) = due[1]

\* Where a field ends does not depend on the arguments.
LEMMA FieldShape ==
  ASSUME NEW s, NEW j, NEW args
  PROVE  /\ Field(s, j, args).next = IF At(s, j) = "*" THEN j + 1 ELSE Past(s, j, Digit)
         /\ Field(s, j, args).va = IF At(s, j) = "*" THEN Tail(args) ELSE args
  <1>1. CASE At(s, j) = "*"
    <2>1. Field(s, j, args) = [n |-> Head(args), next |-> j + 1, va |-> Tail(args)]
      BY <1>1 DEF Field
    <2> QED
      BY <1>1, <2>1
  <1>2. CASE At(s, j) # "*"
    <2>1. Field(s, j, args) = [n |-> atoi(s, j), next |-> Past(s, j, Digit), va |-> args]
      BY <1>2 DEF Field
    <2> QED
      BY <1>2, <2>1
  <1> QED
    BY <1>1, <1>2

\* A field ends within the format.
LEMMA FieldEnds ==
  ASSUME NEW A, NUL \notin A, NEW s \in Seq(A), NEW j \in 1 .. (Len(s) + 1), NEW args
  PROVE  Field(s, j, args).next \in j .. (Len(s) + 1)
  <1>0. Len(s) \in Nat /\ j \in Int
    BY LenProperties
  <1>1. CASE At(s, j) = "*"
    <2>1. At(s, j) # NUL
      BY <1>1 DEF NUL
    <2>2. j \in 1 .. Len(s)
      BY <1>0, <2>1, AtString
    <2>3. Field(s, j, args).next = j + 1
      BY <1>1, FieldShape
    <2> QED
      BY <1>0, <2>2, <2>3
  <1>2. CASE At(s, j) # "*"
    <2>1. NUL \notin Digit
      BY DEF NUL, Digit
    <2>2. Field(s, j, args).next = Past(s, j, Digit)
      BY <1>2, FieldShape
    <2> QED
      BY <2>1, <2>2, PastStops
  <1> QED
    BY <1>1, <1>2

\* The arguments decide the numbers in a directive, not its shape; it takes
\* one for each *.
LEMMA DirectiveShape ==
  ASSUME NEW s, NEW j, NEW args
  PROVE  /\ Directive(s, j, args).next = Shape(s, j).next
         /\ Directive(s, j, args).conv = Shape(s, j).conv
         /\ Directive(s, j, args).va =
               LET v == IF WidthStar(s, j) THEN Tail(args) ELSE args
               IN IF PrecisionStar(s, j) THEN Tail(v) ELSE v
  <1> DEFINE a == Past(s, j + 1, Flags)
             e == WidthEnd(s, j)
             w(v) == Field(s, a, v)
             p(v) == IF At(s, e) = "." THEN Field(s, e + 1, w(v).va)
                     ELSE [n |-> 0, next |-> e, va |-> w(v).va]
             l(v) == Length(s, p(v).next)
             k == IF At(s, e) # "." THEN e
                  ELSE IF At(s, e + 1) = "*" THEN e + 2 ELSE Past(s, e + 1, Digit)
  <1>1. ASSUME NEW v PROVE w(v).next = e
    BY FieldShape DEF WidthEnd
  <1>2. ASSUME NEW v
        PROVE  /\ Directive(s, j, v).conv = At(s, l(v).next)
               /\ Directive(s, j, v).next = l(v).next + 1
               /\ Directive(s, j, v).va = p(v).va
    <2>1. w(v).next = e
      BY <1>1
    <2> HIDE DEF e
    <2> QED
      BY <2>1, Zenon DEF Directive, Flags
  <1>3. ASSUME NEW v
        PROVE  /\ p(v).next = IF At(s, e) # "." THEN e
                              ELSE IF At(s, e + 1) = "*" THEN (e + 1) + 1
                              ELSE Past(s, e + 1, Digit)
               /\ p(v).va = IF PrecisionStar(s, j) THEN Tail(w(v).va) ELSE w(v).va
    <2> DEFINE x == w(v).va
    <2> HIDE DEF x
    <2>1. p(v) = IF At(s, e) = "." THEN Field(s, e + 1, x) ELSE [n |-> 0, next |-> e, va |-> x]
      BY DEF x
    <2>2. PrecisionStar(s, j) <=> At(s, e) = "." /\ At(s, e + 1) = "*"
      BY DEF PrecisionStar
    <2> HIDE DEF p, e
    <2>3. CASE At(s, e) = "."
      BY <2>1, <2>2, <2>3, FieldShape DEF x
    <2>4. CASE At(s, e) # "."
      BY <2>1, <2>2, <2>4 DEF x
    <2> QED
      BY <2>3, <2>4
  <1>4. w(args).va = IF WidthStar(s, j) THEN Tail(args) ELSE args
    BY FieldShape DEF WidthStar
  <1>5. l(args).next = l(<<>>).next
    <2>1. p(args).next = p(<<>>).next
      <3> HIDE DEF p, e
      <3> QED
        BY <1>3
    <2> HIDE DEF p
    <2> QED
      BY <2>1
  <1> HIDE DEF l, p, w
  <1>6. /\ Directive(s, j, args).next = Shape(s, j).next
        /\ Directive(s, j, args).conv = Shape(s, j).conv
    BY <1>2, <1>5 DEF Shape
  <1>7. Directive(s, j, args).va =
           IF PrecisionStar(s, j) THEN Tail(w(args).va) ELSE w(args).va
    BY <1>2, <1>3
  <1> QED
    BY <1>4, <1>6, <1>7

\* A directive is longer than its %, and only one that the end of the format
\* cuts off leads beyond it.
LEMMA DirectiveEnds ==
  ASSUME NEW A, NUL \notin A, NEW s \in Seq(A), NEW j \in 1 .. Len(s)
  PROVE  /\ Shape(s, j).next \in Int /\ Shape(s, j).next > j
         /\ Shape(s, j).conv # NUL => Shape(s, j).next \in 1 .. (Len(s) + 1)
         /\ Shape(s, j).conv = NUL => Shape(s, j).next \notin 1 .. (Len(s) + 1)
  <1>0. Len(s) \in Nat /\ j + 1 \in 1 .. (Len(s) + 1) /\ j \in Nat
    BY LenProperties
  <1> DEFINE L == Len(s) + 1
             a == Past(s, j + 1, Flags)
             w == Field(s, a, <<>>)
             dot == At(s, w.next) = "."
             p == IF dot THEN Field(s, w.next + 1, w.va)
                         ELSE [n |-> 0, next |-> w.next, va |-> w.va]
             l == Length(s, p.next)
  <1>1. a \in (j + 1) .. L
    <2>1. NUL \notin Flags
      BY DEF NUL, Flags
    <2> QED
      BY <1>0, <2>1, PastStops
  <1> HIDE DEF a
  <1>2. w.next \in (j + 1) .. L
    <2>1. a \in 1 .. L
      BY <1>0, <1>1
    <2>2. w.next \in a .. L
      BY <2>1, FieldEnds
    <2> HIDE DEF w
    <2> QED
      BY <1>0, <1>1, <2>2
  <1> HIDE DEF w
  <1>3. p.next \in (j + 1) .. L
    <2>1. CASE dot
      <3> DEFINE k == w.next + 1
      <3>1. w.next \in 1 .. Len(s)
        <4>1. w.next \in Int /\ At(s, w.next) # NUL
          BY <1>0, <1>2, <2>1 DEF NUL
        <4> QED
          BY <4>1, AtString
      <3>2. k \in 1 .. L /\ k >= j + 1
        BY <1>0, <1>2, <3>1
      <3>3. p = Field(s, k, w.va)
        BY <2>1
      <3> HIDE DEF k, p
      <3>4. p.next \in k .. L
        BY <3>2, <3>3, FieldEnds
      <3> QED
        BY <1>0, <3>2, <3>4
    <2>2. CASE ~ dot
      <3>1. p.next = w.next
        BY <2>2
      <3> QED
        BY <1>2, <3>1
    <2> QED
      BY <2>1, <2>2
  <1> HIDE DEF p
  <1>4. l.next \in (j + 1) .. L
    <2>1. p.next \in 1 .. L
      BY <1>0, <1>3
    <2>2. l.next \in p.next .. L
      BY <2>1, LengthRead
    <2> HIDE DEF l
    <2> QED
      BY <1>0, <1>3, <2>2
  <1>5. Shape(s, j).conv = At(s, l.next) /\ Shape(s, j).next = l.next + 1
    BY Zenon DEF Shape, Directive, a, w, p, Flags
  <1> HIDE DEF l
  <1>6. At(s, l.next) # NUL <=> l.next \in 1 .. Len(s)
    <2>1. l.next \in Int
      BY <1>0, <1>4
    <2> QED
      BY <2>1, AtString
  <1> QED
    BY <1>0, <1>4, <1>5, <1>6

\* One argument for each *.
LEMMA DirectiveTakes ==
  ASSUME NEW s, NEW j, NEW V, NEW args \in Seq(V), Stars(s, j) <= Len(args)
  PROVE  /\ Stars(s, j) \in Nat
         /\ Directive(s, j, args).va \in Seq(V)
         /\ Len(Directive(s, j, args).va) = Len(args) - Stars(s, j)
  <1> DEFINE m == IF WidthStar(s, j) THEN 1 ELSE 0
             n == IF PrecisionStar(s, j) THEN 1 ELSE 0
             v == IF WidthStar(s, j) THEN Tail(args) ELSE args
             u == IF PrecisionStar(s, j) THEN Tail(v) ELSE v
  <1>1. m \in {0, 1} /\ n \in {0, 1} /\ Stars(s, j) = m + n /\ Len(args) \in Nat
    BY LenProperties DEF Stars
  <1>2. ASSUME NEW q \in Seq(V), Len(q) > 0
        PROVE  Tail(q) \in Seq(V) /\ Len(Tail(q)) = Len(q) - 1
    <2>1. q # <<>>
      BY <1>2, EmptySeq
    <2> QED
      BY <2>1, HeadTailProperties
  <1>3. v \in Seq(V) /\ Len(v) = Len(args) - m
    <2>1. CASE WidthStar(s, j)
      <3>1. Len(args) > 0 /\ m = 1 /\ v = Tail(args)
        BY <1>1, <2>1
      <3> HIDE DEF m, v
      <3> QED
        BY <1>2, <3>1
    <2>2. CASE ~ WidthStar(s, j)
      BY <1>1, <2>2
    <2> QED
      BY <2>1, <2>2
  <1> HIDE DEF v
  <1>4. u \in Seq(V) /\ Len(u) = Len(v) - n
    <2>1. CASE PrecisionStar(s, j)
      <3>1. n = 1 /\ u = Tail(v)
        BY <2>1
      <3>2. Len(v) > 0
        <4> HIDE DEF m, n
        <4> QED
          BY <1>1, <1>3, <3>1
      <3> HIDE DEF n, u
      <3> QED
        BY <1>2, <1>3, <3>1, <3>2
    <2>2. CASE ~ PrecisionStar(s, j)
      <3>1. n = 0 /\ u = v /\ Len(v) \in Nat
        BY <1>3, <2>2, LenProperties
      <3> HIDE DEF n, u
      <3> QED
        BY <1>3, <3>1
    <2> QED
      BY <2>1, <2>2
  <1>5. Directive(s, j, args).va = u
    BY DirectiveShape DEF v
  <1> HIDE DEF m, n, u
  <1> QED
    BY <1>1, <1>3, <1>4, <1>5

\* Every format names some number of arguments.
LEMMA DueExists ==
  ASSUME NEW A, NUL \notin A, NEW s \in Seq(A)
  PROVE  \E due : Due(due, s)
  <1> DEFINE L == Len(s) + 1
             Holds(d, j) == Onward(s, j) \in 1 .. L => d[j] = Names(s, j) + d[Onward(s, j)]
             Good(d, k) == /\ d \in [(L - k) .. L -> Nat] /\ d[L] = 0
                           /\ \A j \in (L - k) .. Len(s) : Holds(d, j)
             S == {k \in Nat : \E d : Good(d, k)}
  <1>0. Len(s) \in Nat /\ L \in Nat
    BY LenProperties
  <1>1. 0 \in S
    <2> DEFINE d == [j \in L .. L |-> 0]
    <2>1. L - 0 = L /\ (L - 0) .. Len(s) = {} /\ L \in L .. L
      BY <1>0
    <2>2. d \in [(L - 0) .. L -> Nat] /\ d[L] = 0
      BY <2>1
    <2>3. Good(d, 0)
      BY <2>1, <2>2
    <2> HIDE DEF Good
    <2> QED
      BY <2>3
  <1>2. ASSUME NEW j \in 1 .. Len(s) PROVE Names(s, j) \in Nat
    <2>1. Stars(s, j) \in Nat
      BY DEF Stars
    <2> QED
      BY <2>1 DEF Names
  <1>3. ASSUME NEW j \in 1 .. Len(s) PROVE Onward(s, j) \in Int /\ Onward(s, j) > j
    BY <1>0, DirectiveEnds DEF Onward
  <1>4. ASSUME NEW k \in 0 .. (Len(s) - 1), k \in S PROVE k + 1 \in S
    <2>1. PICK d : Good(d, k)
      BY <1>4
    <2> DEFINE j == L - (k + 1)
               o == Onward(s, j)
               x == IF o \in 1 .. L THEN Names(s, j) + d[o] ELSE 0
               e == [q \in j .. L |-> IF q = j THEN x ELSE d[q]]
    <2>2. /\ j \in 1 .. Len(s) /\ j + 1 = L - k /\ k + 1 \in Nat /\ L \in (j + 1) .. L
          /\ L \in j .. L /\ L # j
      BY <1>0
    <2>3. o \in Int /\ o > j /\ Names(s, j) \in Nat
      <3> HIDE DEF j
      <3> QED
        BY <1>2, <1>3, <2>2
    <2>4. d \in [(j + 1) .. L -> Nat] /\ d[L] = 0 /\ \A q \in (j + 1) .. Len(s) : Holds(d, q)
      <3> HIDE DEF Holds, j
      <3> QED
        BY <2>1, <2>2
    <2> HIDE DEF j
    <2>5. x \in Nat /\ (o \in 1 .. L => o \in (j + 1) .. L /\ x = Names(s, j) + d[o])
      <3>1. o \in 1 .. L => o \in (j + 1) .. L
        <4> HIDE DEF o
        <4> QED
          BY <1>0, <2>2, <2>3
      <3>2. o \in (j + 1) .. L => d[o] \in Nat
        <4> HIDE DEF o, L
        <4> QED
          BY <2>4
      <3> HIDE DEF o
      <3> QED
        BY <2>3, <3>1, <3>2
    <2> HIDE DEF x
    <2>6. e \in [j .. L -> Nat] /\ e[j] = x /\ \A q \in (j + 1) .. L : e[q] = d[q]
      <3>1. \A q \in j .. L : q # j => q \in (j + 1) .. L
        BY <1>0, <2>2
      <3>2. \A q \in (j + 1) .. L : q \in j .. L /\ q # j
        BY <1>0, <2>2
      <3>3. j \in j .. L
        BY <1>0, <2>2
      <3> HIDE DEF L
      <3> QED
        BY <2>4, <2>5, <3>1, <3>2, <3>3
    <2> HIDE DEF e
    <2>7. ASSUME NEW q \in j .. Len(s) PROVE Holds(e, q)
      <3>1. CASE q = j
        <4>1. o \in 1 .. L => e[o] = d[o] /\ x = Names(s, j) + d[o]
          <5> HIDE DEF o, L
          <5> QED
            BY <2>5, <2>6
        <4> QED
          BY <2>6, <3>1, <4>1
      <3>2. CASE q # j
        <4>1. q \in (j + 1) .. Len(s) /\ q \in (j + 1) .. L /\ q \in 1 .. Len(s)
          BY <1>0, <2>2, <3>2
        <4>2. Holds(d, q) /\ e[q] = d[q]
          <5> HIDE DEF Holds, L
          <5> QED
            BY <2>4, <2>6, <4>1
        <4>3. Onward(s, q) \in 1 .. L => e[Onward(s, q)] = d[Onward(s, q)]
          <5> DEFINE r == Onward(s, q)
          <5>1. r \in Int /\ r > q
            BY <1>3, <4>1
          <5> HIDE DEF r
          <5>2. r \in 1 .. L => r \in (j + 1) .. L
            BY <1>0, <2>2, <4>1, <5>1
          <5>3. r \in 1 .. L => e[r] = d[r]
            <6> HIDE DEF L
            <6> QED
              BY <2>6, <5>2
          <5> QED
            BY <5>3 DEF r
        <4> QED
          BY <4>2, <4>3
      <3> QED
        BY <3>1, <3>2
    <2>8. Good(e, k + 1)
      <3>1. L - (k + 1) = j /\ e[L] = 0
        <4>1. L - (k + 1) = j
          BY DEF j
        <4>2. e[L] = 0
          <5> HIDE DEF L
          <5> QED
            BY <2>2, <2>4, <2>6
        <4> QED
          BY <4>1, <4>2
      <3> HIDE DEF Holds
      <3> QED
        BY <2>6, <2>7, <3>1
    <2> HIDE DEF Good
    <2> QED
      BY <2>2, <2>8
  <1>5. Len(s) \in S
    <2>1. \A k \in 0 .. (Len(s) - 1) : k \in S => k + 1 \in S
      BY <1>4
    <2>2. Len(s) \in 0 .. Len(s)
      BY <1>0
    <2> HIDE DEF S
    <2> QED
      BY <1>0, <1>1, <2>1, <2>2, IntervalInduction
  <1>6. PICK d : Good(d, Len(s))
    BY <1>5
  <1>7. L - Len(s) = 1
    BY <1>0
  <1>8. Due(d, s)
    BY <1>6, <1>7 DEF Due
  <1> QED
    BY <1>8

\* The inductive invariant: the arguments left are as many as the rest of the
\* format names.
MatchInv(V) ==
    /\ call \in Calls
    /\ pc \in {"run", "done", "overread"}
    /\ pc = "run" => /\ f \in 1 .. (Len(call.format) + 1)
                     /\ va \in Seq(V)
                     /\ \E due : Due(due, call.format) /\ Len(va) = due[f]
    /\ ArgumentsMatch

\* A turn of the loop takes what the format names at its position.
LEMMA TurnTakes ==
  ASSUME NEW A, NUL \notin A, NEW V, \A c \in Calls : c.format \in Seq(A),
         MatchInv(V), pc = "run", Here # NUL, call' = call, pc' = "run",
         f' = Onward(call.format, f), f' \in 1 .. (Len(call.format) + 1),
         Names(call.format, f) <= Len(va) =>
            va' \in Seq(V) /\ Len(va') = Len(va) - Names(call.format, f)
  PROVE  MatchInv(V)'
  <1> DEFINE s == call.format
  <1>1. PICK due : Due(due, s) /\ Len(va) = due[f]
    BY DEF MatchInv
  <1>2. s \in Seq(A) /\ Len(s) \in Nat /\ f \in 1 .. (Len(s) + 1) /\ call \in Calls
    BY LenProperties DEF MatchInv
  <1>3. f \in 1 .. Len(s)
    <2>1. f \in Int /\ At(s, f) # NUL
      BY <1>2 DEF Here
    <2> HIDE DEF s
    <2> QED
      BY <1>2, <2>1, AtString
  <1>4. Names(s, f) \in Nat
    <2>1. Stars(s, f) \in Nat
      BY DEF Stars
    <2> QED
      BY <2>1 DEF Names
  <1>5. due[f] = Names(s, f) + due[f'] /\ due[f'] \in Nat
    <2>1. f' = Onward(s, f) /\ f' \in 1 .. (Len(s) + 1)
      OBVIOUS
    <2> HIDE DEF s
    <2> QED
      BY <1>1, <1>3, <2>1 DEF Due
  <1>6. va' \in Seq(V) /\ Len(va') = due[f']
    <2>1. Names(s, f) <= Len(va)
      BY <1>1, <1>4, <1>5
    <2> QED
      BY <1>1, <1>4, <1>5, <2>1
  <1>7. \E d : Due(d, call'.format) /\ Len(va') = d[f']
    BY <1>1, <1>6
  <1>8. ArgumentsMatch'
    BY DEF ArgumentsMatch
  <1>9. f' \in 1 .. (Len(call'.format) + 1) /\ call' \in Calls
    BY <1>2
  <1> QED
    BY <1>6, <1>7, <1>8, <1>9 DEF MatchInv

\* Every turn of the loop keeps the invariant.
LEMMA MatchStep ==
  ASSUME NEW A, NUL \notin A, NEW V, \A c \in Calls : c.format \in Seq(A),
         MatchInv(V), [PrintfNext]_printfVars
  PROVE  MatchInv(V)'
  <1> DEFINE s == call.format
  <1>1. CASE UNCHANGED printfVars
    BY <1>1 DEF printfVars, MatchInv, ArgumentsMatch
  <1>2. ASSUME pc = "run"
        PROVE  /\ s \in Seq(A) /\ f \in 1 .. (Len(s) + 1) /\ Len(s) \in Nat
               /\ va \in Seq(V) /\ Here = At(s, f)
               /\ Here # NUL => f \in 1 .. Len(s)
    <2>1. s \in Seq(A) /\ f \in 1 .. (Len(s) + 1) /\ va \in Seq(V)
      BY <1>2 DEF MatchInv
    <2>2. Here = At(s, f)
      BY DEF Here
    <2> HIDE DEF s
    <2>3. Len(s) \in Nat
      BY <2>1, LenProperties
    <2>4. f \in Int
      BY <2>1, <2>3
    <2> QED
      BY <2>1, <2>2, <2>3, <2>4, AtString
  <1>3. ASSUME Literal PROVE MatchInv(V)'
    <2>1. /\ pc = "run" /\ Here # NUL /\ Here # "%" /\ f' = f + 1
          /\ call' = call /\ pc' = pc /\ va' = va
      BY <1>3 DEF Literal
    <2>2. Onward(s, f) = f + 1 /\ Names(s, f) = 0
      BY <1>2, <2>1 DEF Onward, Names
    <2>3. f' \in 1 .. (Len(s) + 1)
      <3> HIDE DEF s
      <3> QED
        BY <1>2, <2>1
    <2>4. va' \in Seq(V) /\ Len(va') = Len(va) - Names(s, f)
      <3>1. Len(va) \in Nat
        BY <1>2, <2>1, LenProperties
      <3> QED
        BY <1>2, <2>1, <2>2, <3>1
    <2> QED
      BY <2>1, <2>2, <2>3, <2>4, TurnTakes
  \* The directives.
  <1>4. ASSUME pc = "run", Here = "%"
        PROVE  /\ D.next = Onward(s, f) /\ Here # NUL
               /\ D.conv # NUL => D.next \in 1 .. (Len(s) + 1)
               /\ Names(s, f) = Stars(s, f) + (IF D.conv \in Converting THEN 1 ELSE 0)
               /\ Stars(s, f) \in Nat
               /\ Stars(s, f) <= Len(va) =>
                     D.va \in Seq(V) /\ Len(D.va) = Len(va) - Stars(s, f)
    <2>1. D = Directive(s, f, va)
      BY DEF D
    <2>2. Here # NUL /\ At(s, f) = "%"
      BY <1>2, <1>4 DEF NUL
    <2>3. f \in 1 .. Len(s) /\ s \in Seq(A) /\ va \in Seq(V)
      BY <1>2, <1>4, <2>2
    <2> HIDE DEF s
    <2>4. D.next = Shape(s, f).next /\ D.conv = Shape(s, f).conv
      BY <2>1, DirectiveShape
    <2>5. Onward(s, f) = Shape(s, f).next
      BY <2>2 DEF Onward
    <2>6. Names(s, f) = Stars(s, f) + (IF D.conv \in Converting THEN 1 ELSE 0)
      BY <2>2, <2>4 DEF Names
    <2>7. Stars(s, f) \in Nat
      BY DEF Stars
    <2>8. D.conv # NUL => D.next \in 1 .. (Len(s) + 1)
      BY <2>3, <2>4, DirectiveEnds
    <2>9. Stars(s, f) <= Len(va) => D.va \in Seq(V) /\ Len(D.va) = Len(va) - Stars(s, f)
      BY <2>1, <2>3, DirectiveTakes
    <2> QED
      BY <2>2, <2>4, <2>5, <2>6, <2>7, <2>8, <2>9
  <1>5. ASSUME NEW t, pc = "run", Here = "%", D.conv \in Converting, Convert(t)
        PROVE  MatchInv(V)'
    <2>1. f' = D.next /\ call' = call /\ pc' = "run" /\ va' = Tail(D.va)
      BY <1>5 DEF Convert
    <2>2. D.conv # NUL
      BY <1>5 DEF Converting, NUL
    <2>3. Names(s, f) = Stars(s, f) + 1
      BY <1>4, <1>5
    <2>4. ASSUME Names(s, f) <= Len(va)
          PROVE  va' \in Seq(V) /\ Len(va') = Len(va) - Names(s, f)
      <3>0. Len(va) \in Nat /\ Stars(s, f) \in Nat
        BY <1>2, <1>4, <1>5, LenProperties
      <3>1. Stars(s, f) <= Len(va)
        BY <2>3, <2>4, <3>0
      <3>2. D.va \in Seq(V) /\ Len(D.va) = Len(va) - Stars(s, f)
        BY <1>4, <1>5, <3>1
      <3>3. D.va # <<>>
        <4>1. Len(D.va) > 0
          BY <2>3, <2>4, <3>0, <3>2
        <4> QED
          BY <4>1, EmptySeq
      <3>4. Tail(D.va) \in Seq(V) /\ Len(Tail(D.va)) = Len(D.va) - 1
        BY <3>2, <3>3, HeadTailProperties
      <3> QED
        BY <2>1, <2>3, <3>0, <3>2, <3>4
    <2>5. f' = Onward(s, f) /\ f' \in 1 .. (Len(s) + 1) /\ Here # NUL
      BY <1>4, <1>5, <2>1, <2>2
    <2> QED
      BY <1>5, <2>1, <2>4, <2>5, TurnTakes
  <1>6. ASSUME Integer \/ Character \/ String \/ Pointer PROVE MatchInv(V)'
    <2>1. PICK t : pc = "run" /\ Here = "%" /\ D.conv \in Converting /\ Convert(t)
      <3>1. CASE Integer
        BY <3>1 DEF Integer, Converting
      <3>2. CASE Character
        BY <3>2 DEF Character, Converting
      <3>3. CASE String
        BY <3>3 DEF String, Converting
      <3>4. CASE Pointer
        BY <3>4 DEF Pointer, Converting
      <3> QED
        BY <1>6, <3>1, <3>2, <3>3, <3>4
    <2> QED
      BY <1>5, <2>1
  <1>7. ASSUME Other PROVE MatchInv(V)'
    <2>1. /\ pc = "run" /\ Here = "%" /\ D.conv \notin Converting
          /\ f' = D.next /\ call' = call /\ va' = D.va
          /\ pc' = IF D.conv = NUL THEN "overread" ELSE "run"
      BY <1>7 DEF Other, Converting
    <2>2. CASE D.conv # NUL
      <3>1. f' = Onward(s, f) /\ f' \in 1 .. (Len(s) + 1) /\ Here # NUL /\ pc' = "run"
        BY <1>4, <2>1, <2>2
      <3>2. Names(s, f) = Stars(s, f)
        BY <1>4, <2>1
      <3>3. Names(s, f) <= Len(va) => va' \in Seq(V) /\ Len(va') = Len(va) - Names(s, f)
        BY <1>4, <2>1, <3>2
      <3> QED
        BY <2>1, <3>1, <3>3, TurnTakes
    <2>3. CASE D.conv = NUL
      <3>1. pc' = "overread"
        BY <2>1, <2>3
      <3> QED
        BY <2>1, <3>1 DEF MatchInv, ArgumentsMatch
    <2> QED
      BY <2>2, <2>3
  <1>8. ASSUME Terminate PROVE MatchInv(V)'
    <2>1. pc = "run" /\ Here = NUL /\ pc' = "done" /\ call' = call /\ va' = va
      BY <1>8 DEF Terminate
    <2>2. f = Len(s) + 1
      <3>1. s \in Seq(A) /\ f \in 1 .. (Len(s) + 1) /\ Len(s) \in Nat /\ Here = At(s, f)
        BY <1>2, <2>1
      <3> HIDE DEF s
      <3>2. f \notin 1 .. Len(s)
        <4>1. f \in Int
          BY <3>1
        <4> QED
          BY <2>1, <3>1, <4>1, AtString
      <3> QED
        BY <3>1, <3>2
    <2>3. va \in Seq(V) /\ Len(va) = 0
      <3>1. PICK due : Due(due, s) /\ Len(va) = due[f]
        BY <2>1 DEF MatchInv
      <3> HIDE DEF s
      <3> QED
        BY <1>2, <2>1, <2>2, <3>1 DEF Due
    <2>4. va = <<>>
      BY <2>3, EmptySeq
    <2> QED
      BY <2>1, <2>4 DEF MatchInv, ArgumentsMatch
  <1> QED
    BY <1>1, <1>3, <1>6, <1>7, <1>8 DEF PrintfNext

\* When each call passes as many arguments as its format names, stars
\* included, _vsnprintf has taken exactly these when it returns.
THEOREM ArgumentsTaken ==
  ASSUME NEW A, NUL \notin A, NEW V,
         \A c \in Calls : c.format \in Seq(A) /\ c.args \in Seq(V) /\ Named(c)
  PROVE  PrintfSpec => []ArgumentsMatch
  <1>1. PrintfInit => MatchInv(V)
    <2> SUFFICES ASSUME PrintfInit PROVE MatchInv(V)
      OBVIOUS
    <2>1. call \in Calls /\ f = 1 /\ va = call.args /\ pc = "run"
      BY DEF PrintfInit
    <2>2. Len(call.format) \in Nat /\ va \in Seq(V)
      BY <2>1, LenProperties
    <2>3. f \in 1 .. (Len(call.format) + 1)
      BY <2>1, <2>2
    <2>4. \E due : Due(due, call.format) /\ Len(va) = due[f]
      BY <2>1 DEF Named
    <2>5. ArgumentsMatch
      BY <2>1 DEF ArgumentsMatch
    <2> QED
      BY <2>1, <2>2, <2>3, <2>4, <2>5 DEF MatchInv
  <1>2. MatchInv(V) /\ [PrintfNext]_printfVars => MatchInv(V)'
    BY MatchStep
  <1>3. MatchInv(V) => ArgumentsMatch
    BY DEF MatchInv
  <1> QED
    BY <1>1, <1>2, <1>3, PTL DEF PrintfSpec

-----------------------------------------------------------------------------
(* Integers as C defines them.                                             *)

\* How long a run of one character is.
LEMMA CopiesLength ==
  ASSUME NEW C, NEW c \in C, NEW n \in Int
  PROVE  /\ Copies(c, n) \in Seq(C)
         /\ Len(Copies(c, n)) = IF n > 0 THEN n ELSE 0
         /\ \A k \in 1 .. n : Copies(c, n)[k] = c
         /\ n <= 0 => Copies(c, n) = <<>>
  <1>1. Copies(c, n) \in Seq(C)
    BY CopiesSeq
  <1>2. DOMAIN Copies(c, n) = 1 .. n /\ \A k \in 1 .. n : Copies(c, n)[k] = c
    BY DEF Copies
  <1>3. DOMAIN Copies(c, n) = 1 .. Len(Copies(c, n)) /\ Len(Copies(c, n)) \in Nat
    BY <1>1, LenProperties
  <1> DEFINE m == Len(Copies(c, n))
  <1>4. 1 .. m = 1 .. n /\ m \in Nat
    BY <1>2, <1>3
  <1>5. m = IF n > 0 THEN n ELSE 0
    <2> HIDE DEF m
    <2>1. CASE n > 0
      <3>1. n \in 1 .. n /\ m + 1 \notin 1 .. m /\ n + 1 \notin 1 .. n
        BY <1>4, <2>1
      <3>2. n \in 1 .. m /\ m + 1 \notin 1 .. n
        BY <1>4, <3>1
      <3> QED
        BY <1>4, <2>1, <3>2
    <2>2. CASE n <= 0
      <3>1. 1 \notin 1 .. n
        BY <2>2
      <3>2. 1 \notin 1 .. m
        BY <1>4, <3>1
      <3> QED
        BY <1>4, <2>2, <3>2
    <2> QED
      BY <2>1, <2>2
  <1>6. n <= 0 => Copies(c, n) = <<>>
    BY <1>1, <1>5, EmptySeq
  <1> QED
    BY <1>1, <1>2, <1>5, <1>6

\* Reading a sequence from its end.
LEMMA ReverseReads ==
  ASSUME NEW C, NEW s \in Seq(C)
  PROVE  /\ Reverse(s) \in Seq(C) /\ Len(Reverse(s)) = Len(s) /\ Len(s) \in Nat
         /\ \A k \in 1 .. Len(s) : Reverse(s)[k] = s[(Len(s) - k) + 1]
  <1>1. Reverse(s) \in Seq(C) /\ Len(s) \in Nat
    BY ReverseSeq, LenProperties
  <1>2. Reverse(s) = [k \in 1 .. Len(s) |-> s[(Len(s) - k) + 1]]
    BY DEF Reverse
  <1>3. Len(Reverse(s)) = Len(s)
    <2> DEFINE m == Len(Reverse(s))
               n == Len(s)
    <2>1. 1 .. m = 1 .. n /\ m \in Nat /\ n \in Nat
      BY <1>1, <1>2, LenProperties
    <2> HIDE DEF m, n
    <2>2. m + 1 \notin 1 .. m /\ n + 1 \notin 1 .. n
      BY <2>1
    <2>3. m = n
      BY <2>1, <2>2
    <2> QED
      BY <2>3 DEF m, n
  <1> QED
    BY <1>1, <1>2, <1>3

\* What is put last comes first.
LEMMA ReverseConcat ==
  ASSUME NEW C, NEW s \in Seq(C), NEW t \in Seq(C)
  PROVE  Reverse(s \o t) = Reverse(t) \o Reverse(s)
  <1> DEFINE m == Len(s)
             n == Len(t)
             a == s \o t
             x == Reverse(a)
             y == Reverse(t)
             z == Reverse(s)
  <1>1. /\ a \in Seq(C) /\ Len(a) = m + n
        /\ \A k \in 1 .. m + n : a[k] = IF k <= m THEN s[k] ELSE t[k - m]
    BY ConcatProperties
  <1>2. /\ y \in Seq(C) /\ Len(y) = n /\ n \in Nat
        /\ \A k \in 1 .. n : y[k] = t[(n - k) + 1]
    BY ReverseReads
  <1>3. /\ z \in Seq(C) /\ Len(z) = m /\ m \in Nat
        /\ \A k \in 1 .. m : z[k] = s[(m - k) + 1]
    BY ReverseReads
  <1> HIDE DEF a
  <1>4. /\ x \in Seq(C) /\ Len(x) = m + n
        /\ \A k \in 1 .. (m + n) : x[k] = a[((m + n) - k) + 1]
    <2>1. /\ x \in Seq(C) /\ Len(x) = Len(a)
          /\ \A k \in 1 .. Len(a) : x[k] = a[(Len(a) - k) + 1]
      BY <1>1, ReverseReads
    <2> HIDE DEF x, m, n
    <2> QED
      BY <1>1, <2>1
  <1> HIDE DEF x, y, z
  <1>5. /\ y \o z \in Seq(C) /\ Len(y \o z) = n + m
        /\ \A k \in 1 .. n + m : (y \o z)[k] = IF k <= n THEN y[k] ELSE z[k - n]
    <2>1. /\ y \o z \in Seq(C) /\ Len(y \o z) = Len(y) + Len(z)
          /\ \A k \in 1 .. Len(y) + Len(z) :
                (y \o z)[k] = IF k <= Len(y) THEN y[k] ELSE z[k - Len(y)]
      <3>1. y \in Seq(C) /\ z \in Seq(C)
        BY <1>2, <1>3
      <3> QED
        BY <3>1, ConcatProperties
    <2> HIDE DEF m, n
    <2> QED
      BY <1>2, <1>3, <2>1
  <1>6. ASSUME NEW k \in 1 .. (m + n) PROVE x[k] = (y \o z)[k]
    <2> DEFINE q == ((m + n) - k) + 1
    <2> HIDE DEF m, n
    <2>0. q \in 1 .. m + n /\ k \in 1 .. n + m
      BY <1>2, <1>3
    <2>1. x[k] = a[q] /\ a[q] = IF q <= m THEN s[q] ELSE t[q - m]
      BY <1>1, <1>4, <2>0
    <2>2. CASE k <= n
      <3>1. ~ (q <= m) /\ q - m = (n - k) + 1 /\ k \in 1 .. n
        BY <1>2, <1>3, <2>2
      <3>2. y[k] = t[q - m]
        BY <1>2, <3>1
      <3> HIDE DEF q
      <3> QED
        BY <1>5, <2>0, <2>1, <2>2, <3>1, <3>2
    <2>3. CASE ~ (k <= n)
      <3>1. q <= m /\ k - n \in 1 .. m /\ (m - (k - n)) + 1 = q
        BY <1>2, <1>3, <2>3
      <3>2. z[k - n] = s[q]
        BY <1>3, <3>1
      <3> HIDE DEF q
      <3> QED
        BY <1>5, <2>0, <2>1, <2>3, <3>1, <3>2
    <2> QED
      BY <2>2, <2>3
  <1>7. Len(x) = Len(y \o z)
    <2> HIDE DEF m, n
    <2> QED
      BY <1>2, <1>3, <1>4, <1>5
  <1>8. x = y \o z
    <2> HIDE DEF m, n
    <2> QED
      BY <1>4, <1>5, <1>6, <1>7, SeqEqual
  <1> QED
    BY <1>8 DEF x, y, z, a

\* Zeros in front of a number, and a character in front of it.
LEMMA ReversePut ==
  ASSUME NEW C, NEW s \in Seq(C), NEW c \in C
  PROVE  /\ \A n \in Int : Reverse(s \o Copies(c, n)) = Copies(c, n) \o Reverse(s)
         /\ Len(s) < NTOA => Put(s, c) \in Seq(C) /\ Len(Put(s, c)) = Len(s) + 1
                             /\ Reverse(Put(s, c)) = <<c>> \o Reverse(s)
  <1>1. ASSUME NEW n \in Int PROVE Reverse(s \o Copies(c, n)) = Copies(c, n) \o Reverse(s)
    <2> DEFINE t == Copies(c, n)
    <2>1. /\ t \in Seq(C) /\ Len(t) = IF n > 0 THEN n ELSE 0
          /\ \A k \in 1 .. n : t[k] = c
      BY CopiesLength
    <2> HIDE DEF t
    <2>2. Reverse(t) = t
      <3>1. /\ Reverse(t) \in Seq(C) /\ Len(Reverse(t)) = Len(t) /\ Len(t) \in Nat
            /\ \A k \in 1 .. Len(t) : Reverse(t)[k] = t[(Len(t) - k) + 1]
        BY <2>1, ReverseReads
      <3>2. ASSUME NEW k \in 1 .. Len(t) PROVE Reverse(t)[k] = t[k]
        <4>1. k \in 1 .. n /\ (Len(t) - k) + 1 \in 1 .. n
          BY <2>1, <3>1
        <4> QED
          BY <2>1, <3>1, <4>1
      <3> QED
        BY <2>1, <3>1, <3>2, SeqEqual
    <2>3. Reverse(s \o t) = Reverse(t) \o Reverse(s)
      BY <2>1, ReverseConcat
    <2> QED
      BY <2>2, <2>3 DEF t
  <1>2. ASSUME Len(s) < NTOA
        PROVE  /\ Put(s, c) \in Seq(C) /\ Len(Put(s, c)) = Len(s) + 1
               /\ Reverse(Put(s, c)) = <<c>> \o Reverse(s)
    <2> DEFINE t == <<c>>
    <2>1. t \in Seq(C) /\ Len(t) = 1 /\ t[1] = c
      OBVIOUS
    <2>2. Put(s, c) = s \o t
      <3>1. Put(s, c) = Append(s, c)
        BY <1>2 DEF Put
      <3> QED
        BY <3>1, AppendIsConcat
    <2> HIDE DEF t
    <2>3. Reverse(t) = t
      <3>1. /\ Reverse(t) \in Seq(C) /\ Len(Reverse(t)) = 1
            /\ \A k \in 1 .. 1 : Reverse(t)[k] = t[(1 - k) + 1]
        BY <2>1, ReverseReads
      <3>2. \A k \in 1 .. 1 : Reverse(t)[k] = t[k]
        <4>1. \A k \in 1 .. 1 : (1 - k) + 1 = k
          OBVIOUS
        <4> QED
          BY <3>1, <4>1
      <3> QED
        BY <2>1, <3>1, <3>2, SeqEqual
    <2>4. Reverse(s \o t) = Reverse(t) \o Reverse(s)
      BY <2>1, ReverseConcat
    <2>5. s \o t \in Seq(C) /\ Len(s \o t) = Len(s) + 1
      BY <2>1, ConcatProperties
    <2> QED
      BY <2>2, <2>3, <2>4, <2>5 DEF t
  <1> QED
    BY <1>1, <1>2

\* The sign and the prefix in front of a number, and how ntoa_format puts
\* them behind its digits.
SignOf(negative, flags) ==
    IF negative THEN <<"-">>
    ELSE IF "+" \in flags THEN <<"+">> ELSE IF " " \in flags THEN <<" ">> ELSE <<>>
BasePrefix(base, upper, flags) ==
    IF "#" \notin flags THEN <<>>
    ELSE IF base = 16 THEN <<"0", IF upper THEN "X" ELSE "x">>
    ELSE IF base = 2 THEN <<"0", "b">> ELSE <<"0">>
WithSign(s, negative, flags) ==
    CASE negative -> Put(s, "-")
      [] ~ negative /\ "+" \in flags -> Put(s, "+")
      [] ~ negative /\ "+" \notin flags /\ " " \in flags -> Put(s, " ")
      [] OTHER -> s
WithPrefix(s, base, upper, flags) ==
    IF "#" \in flags
    THEN Put(CASE base = 16 -> Put(s, IF upper THEN "X" ELSE "x")
               [] base = 2 -> Put(s, "b")
               [] OTHER -> s, "0")
    ELSE s

\* Read from its end, x is pre followed by s read from its end.
SetInFront(x, pre, s) ==
    /\ x \in Seq(Plain) /\ pre \in Seq(Plain)
    /\ Len(x) = Len(pre) + Len(s) /\ Reverse(x) = pre \o Reverse(s)

\* Where they fit they come first when the buffer is turned round.
LEMMA SignInFront ==
  ASSUME NEW s \in Seq(Plain), NEW negative \in BOOLEAN, NEW flags,
         Len(s) + Len(SignOf(negative, flags)) <= NTOA
  PROVE  SetInFront(WithSign(s, negative, flags), SignOf(negative, flags), s)
  <1> USE DEF SetInFront
  <1> DEFINE x == WithSign(s, negative, flags)
             sg == SignOf(negative, flags)
             one == \E c \in Plain : x = Put(s, c) /\ sg = <<c>>
  <1>0. "-" \in Plain /\ "+" \in Plain /\ " " \in Plain
    BY DEF Plain
  <1>1. CASE negative \/ {"+", " "} \cap flags # {}
    <2>1. one
      <3>1. CASE negative
        BY <1>0, <3>1 DEF WithSign, SignOf
      <3>2. CASE ~ negative /\ "+" \in flags
        BY <1>0, <3>2 DEF WithSign, SignOf
      <3>3. CASE ~ negative /\ "+" \notin flags /\ " " \in flags
        BY <1>0, <3>3 DEF WithSign, SignOf
      <3> QED
        BY <1>1, <3>1, <3>2, <3>3
    <2>2. PICK c \in Plain : x = Put(s, c) /\ sg = <<c>>
      BY <2>1
    <2> HIDE DEF x, sg
    <2>3. sg \in Seq(Plain) /\ Len(sg) = 1 /\ Len(s) \in Nat
      BY <2>2, LenProperties
    <2>4. Len(s) < NTOA
      <3>1. Len(s) + Len(sg) <= NTOA
        BY DEF sg
      <3> QED
        BY <2>3, <3>1, PrintfAssumption
    <2>5. /\ Put(s, c) \in Seq(Plain) /\ Len(Put(s, c)) = Len(s) + 1
          /\ Reverse(Put(s, c)) = <<c>> \o Reverse(s)
      BY <2>4, ReversePut
    <2>6. Len(x) = 1 + Len(s)
      <3> DEFINE n == Len(s)
      <3>1. n \in Nat /\ Len(x) = n + 1
        BY <2>2, <2>3, <2>5
      <3> HIDE DEF n
      <3>2. Len(x) = 1 + n
        BY <3>1
      <3> QED
        BY <3>2 DEF n
    <2> QED
      BY <1>1, <2>2, <2>3, <2>5, <2>6 DEF x, sg
  <1>2. CASE ~ (negative \/ {"+", " "} \cap flags # {})
    <2>1. "+" \notin flags /\ " " \notin flags /\ ~ negative
      BY <1>2
    <2>2. x = s /\ sg = <<>>
      BY <2>1 DEF WithSign, SignOf
    <2> HIDE DEF x, sg
    <2>3. Reverse(s) \in Seq(Plain) /\ Len(s) \in Nat
      BY ReverseReads
    <2>4. <<>> \o Reverse(s) = Reverse(s) /\ Len(<<>>) = 0 /\ <<>> \in Seq(Plain)
      BY <2>3, ConcatEmptySeq, EmptySeq
    <2>5. Len(x) = Len(sg) + Len(s)
      BY <2>2, <2>3, <2>4
    <2>6. /\ x \in Seq(Plain) /\ sg \in Seq(Plain)
          /\ Reverse(x) = sg \o Reverse(s) /\ Len(sg) = 0
      BY <2>2, <2>4
    <2>7. Len(sg) = IF negative \/ {"+", " "} \cap flags # {} THEN 1 ELSE 0
      BY <1>2, <2>6
    <2> QED
      BY <2>5, <2>6, <2>7 DEF x, sg
  <1> QED
    BY <1>1, <1>2

\* The prefix of the base is set in front of a number that has room for it.
LEMMA PrefixInFront ==
  ASSUME NEW s \in Seq(Plain), NEW base \in {2, 8, 10, 16}, NEW upper \in BOOLEAN, NEW flags,
         Len(s) + Len(BasePrefix(base, upper, flags)) <= NTOA
  PROVE  SetInFront(WithPrefix(s, base, upper, flags), BasePrefix(base, upper, flags), s)
  <1> USE DEF SetInFront
  <1> DEFINE x == WithPrefix(s, base, upper, flags)
             px == BasePrefix(base, upper, flags)
  <1>0. "0" \in Plain /\ "b" \in Plain /\ "X" \in Plain /\ "x" \in Plain
    BY DEF Plain
  <1>a. Len(s) \in Nat /\ NTOA \in Nat /\ Reverse(s) \in Seq(Plain)
    BY ReverseReads, PrintfAssumption
  <1>b. Len(s) + Len(px) <= NTOA
    OBVIOUS
  <1>1. CASE "#" \in flags /\ base \in {2, 16}
    <2> DEFINE c == IF base = 2 THEN "b" ELSE IF upper THEN "X" ELSE "x"
    <2>1. c \in Plain
      BY <1>0
    <2>2. px = <<"0", c>>
      BY <1>1 DEF BasePrefix
    <2>3. x = Put(Put(s, c), "0")
      <3>1. CASE base = 16
        BY <1>1, <3>1 DEF WithPrefix
      <3>2. CASE base = 2
        BY <1>1, <3>2 DEF WithPrefix
      <3> QED
        BY <1>1, <3>1, <3>2
    <2> HIDE DEF c, x, px
    <2>4. Len(px) = 2 /\ px \in Seq(Plain)
      BY <1>0, <2>1, <2>2
    <2>5. Len(s) < NTOA /\ Len(s) + 1 < NTOA
      BY <1>a, <1>b, <2>4
    <2> DEFINE t == Put(s, c)
    <2>6. t \in Seq(Plain) /\ Len(t) = Len(s) + 1 /\ Reverse(t) = <<c>> \o Reverse(s)
      BY <2>1, <2>5, ReversePut
    <2> HIDE DEF t
    <2>7. Len(t) < NTOA
      BY <2>5, <2>6
    <2>8. x \in Seq(Plain) /\ Len(x) = Len(t) + 1 /\ Reverse(x) = <<"0">> \o Reverse(t)
      BY <1>0, <2>3, <2>6, <2>7, ReversePut DEF t
    <2>9. Reverse(x) = px \o Reverse(s)
      <3> DEFINE r == Reverse(s)
      <3>1. r \in Seq(Plain) /\ <<"0">> \in Seq(Plain) /\ <<c>> \in Seq(Plain)
        BY <1>0, <1>a, <2>1
      <3> HIDE DEF r
      <3>2. <<"0">> \o (<<c>> \o r) = (<<"0">> \o <<c>>) \o r
        BY <3>1, ConcatAssociative
      <3>3. <<"0">> \o <<c>> = <<"0", c>>
        <4> DEFINE a == <<"0">> \o <<c>>
                   b == <<"0", c>>
        <4>1. a \in Seq(Plain) /\ Len(a) = 2 /\ a[1] = "0" /\ a[2] = c
          <5>1. Len(<<"0">>) = 1 /\ Len(<<c>>) = 1 /\ <<"0">>[1] = "0" /\ <<c>>[1] = c
            OBVIOUS
          <5> QED
            BY <3>1, <5>1, ConcatProperties
        <4>2. b \in Seq(Plain) /\ Len(b) = 2 /\ b[1] = "0" /\ b[2] = c
          BY <1>0, <2>1
        <4> HIDE DEF a, b
        <4>3. a = b
          <5>1. \A k \in 1 .. Len(a) : a[k] = b[k]
            BY <4>1, <4>2
          <5> QED
            BY <4>1, <4>2, <5>1, SeqEqual
        <4> QED
          BY <4>3 DEF a, b
      <3> QED
        BY <2>2, <2>6, <2>8, <3>2, <3>3 DEF r
    <2>10. Len(x) = 2 + Len(s)
      BY <1>a, <2>6, <2>8
    <2> QED
      BY <1>1, <2>4, <2>8, <2>9, <2>10 DEF x, px
  <1>2. CASE "#" \in flags /\ base \notin {2, 16}
    <2>1. px = <<"0">>
      BY <1>2 DEF BasePrefix
    <2>2. x = Put(s, "0")
      BY <1>2 DEF WithPrefix
    <2> HIDE DEF x, px
    <2>3. Len(px) = 1 /\ px \in Seq(Plain)
      BY <1>0, <2>1
    <2>4. Len(s) < NTOA
      BY <1>a, <1>b, <2>3
    <2>5. x \in Seq(Plain) /\ Len(x) = Len(s) + 1 /\ Reverse(x) = <<"0">> \o Reverse(s)
      BY <1>0, <2>2, <2>4, ReversePut
    <2>6. Len(x) = 1 + Len(s)
      BY <1>a, <2>5
    <2> QED
      BY <1>2, <2>1, <2>3, <2>5, <2>6 DEF x, px
  <1>3. CASE "#" \notin flags
    <2>1. x = s /\ px = <<>>
      BY <1>3 DEF WithPrefix, BasePrefix
    <2> HIDE DEF x, px
    <2>2. <<>> \o Reverse(s) = Reverse(s) /\ Len(<<>>) = 0 /\ <<>> \in Seq(Plain)
      BY <1>a, ConcatEmptySeq, EmptySeq
    <2> QED
      BY <1>a, <1>3, <2>1, <2>2 DEF x, px
  <1> QED
    BY <1>1, <1>2, <1>3

\* Zeros up to a length that fits.
LEMMA FillReversed ==
  ASSUME NEW s \in Seq(Plain), NEW n \in Int, n <= NTOA
  PROVE  /\ FillTo(s, n) \in Seq(Plain)
         /\ Len(FillTo(s, n)) = IF n > Len(s) THEN n ELSE Len(s)
         /\ Reverse(FillTo(s, n)) = Copies("0", n - Len(s)) \o Reverse(s)
  <1> DEFINE m == n - Len(s)
             t == Copies("0", m)
  <1>0. Len(s) \in Nat /\ NTOA \in Nat /\ "0" \in Plain
    BY LenProperties, PrintfAssumption DEF Plain
  <1>1. m \in Int
    BY <1>0
  <1>2. FillTo(s, n) = s \o t
    <2>1. (IF n < NTOA THEN n ELSE NTOA) = n
      BY <1>0
    <2> QED
      BY <2>1 DEF FillTo
  <1> HIDE DEF m
  <1>3. t \in Seq(Plain) /\ Len(t) = IF m > 0 THEN m ELSE 0
    BY <1>0, <1>1, CopiesLength
  <1>4. Reverse(s \o t) = t \o Reverse(s)
    BY <1>0, <1>1, ReversePut
  <1> HIDE DEF t
  <1>5. s \o t \in Seq(Plain) /\ Len(s \o t) = Len(s) + Len(t)
    BY <1>3, ConcatProperties
  <1>6. Len(s \o t) = IF n > Len(s) THEN n ELSE Len(s)
    <2> DEFINE k == Len(s)
               l == Len(t)
    <2>1. k \in Nat /\ l = (IF m > 0 THEN m ELSE 0) /\ m = n - k
      BY <1>0, <1>3 DEF m
    <2>2. Len(s \o t) = k + l
      BY <1>5
    <2> HIDE DEF k, l
    <2>3. k + l = IF n > k THEN n ELSE k
      BY <2>1
    <2> QED
      BY <2>2, <2>3 DEF k
  <1> QED
    BY <1>2, <1>4, <1>5, <1>6 DEF t, m

\* A number with the zeros of its precision, as it is read.
Figures(digits, prec) == Copies("0", prec - Len(digits)) \o Reverse(digits)

\* It has as many figures as its digits or its precision ask for.
LEMMA FiguresLength ==
  ASSUME NEW digits \in Seq(Plain), NEW prec \in Nat
  PROVE  /\ Figures(digits, prec) \in Seq(Plain)
         /\ Len(Figures(digits, prec)) = IF prec > Len(digits) THEN prec ELSE Len(digits)
  <1> DEFINE m == prec - Len(digits)
             t == Copies("0", m)
             r == Reverse(digits)
             k == Len(digits)
  <1>0. k \in Nat /\ "0" \in Plain
    BY LenProperties DEF Plain
  <1>1. m \in Int /\ m = prec - k
    BY <1>0
  <1>2. r \in Seq(Plain) /\ Len(r) = k
    BY ReverseReads
  <1> HIDE DEF m, r, k
  <1>3. t \in Seq(Plain) /\ Len(t) = IF m > 0 THEN m ELSE 0
    BY <1>0, <1>1, CopiesLength
  <1> HIDE DEF t
  <1>4. t \o r \in Seq(Plain) /\ Len(t \o r) = Len(t) + Len(r)
    BY <1>2, <1>3, ConcatProperties
  <1>5. Len(t) + Len(r) = IF prec > k THEN prec ELSE k
    BY <1>0, <1>1, <1>2, <1>3
  <1> QED
    BY <1>4, <1>5 DEF Figures, t, m, r, k

\* The zeros of the precision and those of the field.
LEMMA PaddedReversed ==
  ASSUME NEW digits \in Seq(Plain), NEW prec \in Nat, NEW z \in Nat, z <= NTOA,
         Len(Figures(digits, prec)) <= NTOA
  PROVE  LET x == FillTo(FillTo(digits, prec), z)
             nm == Figures(digits, prec)
         IN /\ x \in Seq(Plain)
            /\ Len(x) = IF z > Len(nm) THEN z ELSE Len(nm)
            /\ Reverse(x) = Copies("0", z - Len(nm)) \o nm
  <1> DEFINE y == FillTo(digits, prec)
             nm == Figures(digits, prec)
             k == Len(digits)
             l == Len(nm)
  <1>1. k \in Nat /\ l = (IF prec > k THEN prec ELSE k) /\ l <= NTOA /\ NTOA \in Nat
    BY FiguresLength, LenProperties, PrintfAssumption
  <1>2. prec <= NTOA /\ prec \in Int /\ z \in Int
    <2> HIDE DEF k, l
    <2> QED
      BY <1>1
  <1>3. y \in Seq(Plain) /\ Len(y) = (IF prec > k THEN prec ELSE k) /\ Reverse(y) = nm
    <2>1. nm = Copies("0", prec - Len(digits)) \o Reverse(digits)
      BY DEF Figures
    <2> HIDE DEF nm
    <2> QED
      BY <1>2, <2>1, FillReversed
  <1>4. Len(y) = l
    BY <1>1, <1>3
  <1> HIDE DEF y, nm
  <1>5. /\ FillTo(y, z) \in Seq(Plain)
        /\ Len(FillTo(y, z)) = IF z > Len(y) THEN z ELSE Len(y)
        /\ Reverse(FillTo(y, z)) = Copies("0", z - Len(y)) \o Reverse(y)
    BY <1>2, <1>3, FillReversed
  <1> QED
    BY <1>3, <1>4, <1>5 DEF y, nm

\* The sign is one character at most, the prefix two.
LEMMA FrontShape ==
  ASSUME NEW negative, NEW base, NEW upper, NEW flags
  PROVE  LET sg == SignOf(negative, flags)
             px == BasePrefix(base, upper, flags)
         IN /\ sg \in Seq(Plain) /\ px \in Seq(Plain) /\ Len(px) \in 0 .. 2
            /\ Len(sg) = IF negative \/ {"+", " "} \cap flags # {} THEN 1 ELSE 0
            /\ "#" \notin flags => Len(px) = 0
  <1> DEFINE sg == SignOf(negative, flags)
             px == BasePrefix(base, upper, flags)
  <1>0. /\ "-" \in Plain /\ "+" \in Plain /\ " " \in Plain /\ "0" \in Plain
        /\ "b" \in Plain /\ "X" \in Plain /\ "x" \in Plain
    BY DEF Plain
  <1>a. \A c, e \in Plain : /\ <<c>> \in Seq(Plain) /\ Len(<<c>>) = 1
                            /\ <<c, e>> \in Seq(Plain) /\ Len(<<c, e>>) = 2
    OBVIOUS
  <1>1. sg \in Seq(Plain) /\ Len(sg) = IF negative \/ {"+", " "} \cap flags # {} THEN 1 ELSE 0
    <2>1. CASE negative \/ {"+", " "} \cap flags # {}
      <3>1. \E c \in Plain : sg = <<c>>
        BY <1>0, <2>1 DEF SignOf
      <3> HIDE DEF sg
      <3>2. sg \in Seq(Plain) /\ Len(sg) = 1
        BY <1>a, <3>1
      <3> QED
        BY <2>1, <3>2
    <2>2. CASE ~ (negative \/ {"+", " "} \cap flags # {})
      <3>1. sg = <<>>
        BY <2>2 DEF SignOf
      <3> HIDE DEF sg
      <3>2. sg \in Seq(Plain) /\ Len(sg) = 0
        BY <3>1, EmptySeq
      <3> QED
        BY <2>2, <3>2
    <2> QED
      BY <2>1, <2>2
  <1>2. px \in Seq(Plain) /\ Len(px) \in 0 .. 2 /\ ("#" \notin flags => Len(px) = 0)
    <2>1. CASE "#" \notin flags
      <3>1. px = <<>>
        BY <2>1 DEF BasePrefix
      <3> HIDE DEF px
      <3> QED
        BY <3>1, EmptySeq
    <2>2. CASE "#" \in flags
      <3>1. px = <<"0">> \/ \E c \in Plain : px = <<"0", c>>
        BY <1>0, <2>2 DEF BasePrefix
      <3> HIDE DEF px
      <3>2. CASE \E c \in Plain : px = <<"0", c>>
        <4>1. px \in Seq(Plain) /\ Len(px) = 2
          BY <1>0, <1>a, <3>2
        <4> QED
          BY <2>2, <4>1
      <3>3. CASE px = <<"0">>
        <4>1. px \in Seq(Plain) /\ Len(px) = 1
          BY <1>0, <1>a, <3>3
        <4> QED
          BY <2>2, <4>1
      <3> QED
        BY <3>1, <3>2, <3>3
    <2> QED
      BY <2>1, <2>2
  <1> QED
    BY <1>1, <1>2

\* All of a sequence.
LEMMA SubSeqAll ==
  ASSUME NEW C, NEW s \in Seq(C)
  PROVE  SubSeq(s, 1, Len(s) - 0) = s
  <1> DEFINE n == Len(s)
             t == SubSeq(s, 1, n)
  <1>1. n \in Nat /\ \A j \in 1 .. n : s[j] \in C
    BY ElementOfSeq, LenProperties
  <1>2. n - 0 = n
    BY <1>1
  <1> HIDE DEF n
  <1>3. /\ t \in Seq(C) /\ Len(t) = (IF 1 <= n THEN n - 1 + 1 ELSE 0)
        /\ \A j \in 1 .. n - 1 + 1 : t[j] = s[1 + j - 1]
    BY <1>1, SubSeqProperties
  <1> HIDE DEF t
  <1>4. Len(t) = n /\ \A j \in 1 .. n : t[j] = s[j]
    <2>1. Len(t) = n /\ n - 1 + 1 = n /\ \A j \in 1 .. n : 1 + j - 1 = j
      BY <1>1, <1>3
    <2> QED
      BY <1>3, <2>1
  <1>5. t = s
    BY <1>3, <1>4, SeqEqual DEF n
  <1> QED
    BY <1>2, <1>5 DEF t, n

\* A number of m figures with a sign of a and a prefix of b characters that
\* ntoa_format lays out as C does in a buffer of N characters.
Fits(flags, width, prec, a, b, m, N) ==
    /\ width \in Nat /\ prec \in Nat /\ a \in 0 .. 1 /\ b \in 0 .. 2 /\ m \in Nat /\ N \in Nat
    /\ "." \notin flags => prec = 0
    /\ "." \in flags => "0" \notin flags
    /\ "#" \in flags => a = 0
    /\ "#" \notin flags => b = 0
    /\ a + b + m <= N
    /\ "0" \in flags /\ "-" \notin flags => width <= N
    /\ "#" \in flags => \/ "." \in flags
                        \/ width < m
                        \/ width > m /\ ("0" \notin flags \/ "-" \in flags)

\* The width that ntoa_format goes on with, the zeros that fill the field,
\* and the digits with all their zeros.
FieldWidth(flags, width, a) ==
    IF "-" \notin flags /\ "0" \in flags /\ a = 1 /\ width > 0 THEN width - 1 ELSE width
Filling(flags, w, m) == IF "-" \notin flags /\ "0" \in flags THEN w - m ELSE 0
Filled(k, m) == (IF k > 0 THEN k ELSE 0) + m

\* Everything fits, and no digit makes room for the prefix.
LEMMA FieldLengths ==
  ASSUME NEW flags, NEW width, NEW prec, NEW a, NEW b, NEW m, NEW N,
         Fits(flags, width, prec, a, b, m, N)
  PROVE  LET w == FieldWidth(flags, width, a)
             z == IF "0" \in flags THEN w ELSE 0
             k == Filling(flags, w, m)
             n == Filled(k, m)
         IN /\ w \in Nat /\ z \in Nat /\ k \in Int /\ n \in Nat
            /\ n + b <= N /\ (b + n) + a <= N /\ m <= N
            /\ "-" \notin flags => z <= N /\ n = (IF z > m THEN z ELSE m)
            /\ "-" \in flags => k = 0 /\ n = m
            /\ "-" \notin flags /\ "0" \in flags => k = z - m
            /\ "-" \notin flags /\ "0" \notin flags => k = 0 /\ z - m <= 0
            /\ "#" \in flags => n = m /\ ("." \in flags \/ n = 0 \/ n \notin {prec, w})
            /\ "-" \in flags \/ "0" \notin flags => w = width /\ n = m
            /\ "-" \notin flags /\ "0" \in flags =>
                 k = width - (a + b + m) \/ (k <= 0 /\ width - (a + b + m) <= 0)
  <1> DEFINE w == FieldWidth(flags, width, a)
             z == IF "0" \in flags THEN w ELSE 0
             k == Filling(flags, w, m)
             n == Filled(k, m)
  <1>a. /\ width \in Nat /\ prec \in Nat /\ a \in 0 .. 1 /\ b \in 0 .. 2 /\ m \in Nat /\ N \in Nat
        /\ "." \notin flags => prec = 0
        /\ "." \in flags => "0" \notin flags
        /\ "#" \in flags => a = 0
        /\ "#" \notin flags => b = 0
        /\ a + b + m <= N
        /\ "0" \in flags /\ "-" \notin flags => width <= N
        /\ "#" \in flags => \/ "." \in flags
                            \/ width < m
                            \/ width > m /\ ("0" \notin flags \/ "-" \in flags)
    BY DEF Fits
  <1>b. /\ w = IF "-" \notin flags /\ "0" \in flags /\ a = 1 /\ width > 0
               THEN width - 1 ELSE width
        /\ z = IF "0" \in flags THEN w ELSE 0
        /\ k = IF "-" \notin flags /\ "0" \in flags THEN w - m ELSE 0
        /\ n = (IF k > 0 THEN k ELSE 0) + m
    BY DEF FieldWidth, Filling, Filled
  <1> SUFFICES /\ w \in Nat /\ z \in Nat /\ k \in Int /\ n \in Nat
               /\ n + b <= N /\ (b + n) + a <= N /\ m <= N
               /\ "-" \notin flags => z <= N /\ n = (IF z > m THEN z ELSE m)
               /\ "-" \in flags => k = 0 /\ n = m
               /\ "-" \notin flags /\ "0" \in flags => k = z - m
               /\ "-" \notin flags /\ "0" \notin flags => k = 0 /\ z - m <= 0
               /\ "#" \in flags => n = m /\ ("." \in flags \/ n = 0 \/ n \notin {prec, w})
               /\ "-" \in flags \/ "0" \notin flags => w = width /\ n = m
               /\ "-" \notin flags /\ "0" \in flags =>
                    k = width - (a + b + m) \/ (k <= 0 /\ width - (a + b + m) <= 0)
    OBVIOUS
  <1> HIDE DEF w, z, k, n
  <1> USE <1>a, <1>b
  <1>1. w \in Nat /\ w <= width /\ z \in Nat /\ k \in Int /\ n \in Nat
    OBVIOUS
  <1>2. m <= N
    OBVIOUS
  <1>3. CASE "-" \in flags
    <2>1. w = width /\ k = 0 /\ n = m
      BY <1>3
    <2>2. "#" \in flags => ("." \in flags \/ n = 0 \/ n \notin {prec, w})
      BY <1>1, <1>3, <2>1
    <2>3. n + b <= N /\ (b + n) + a <= N
      BY <2>1
    <2> QED
      BY <1>1, <1>2, <1>3, <2>1, <2>2, <2>3
  <1>4. CASE "-" \notin flags /\ "0" \notin flags
    <2>1. w = width /\ k = 0 /\ n = m /\ z = 0
      BY <1>4
    <2>2. "#" \in flags => ("." \in flags \/ n = 0 \/ n \notin {prec, w})
      BY <1>1, <1>4, <2>1
    <2>3. n + b <= N /\ (b + n) + a <= N
      BY <2>1
    <2> QED
      BY <1>1, <1>2, <1>4, <2>1, <2>2, <2>3
  <1>5. CASE "-" \notin flags /\ "0" \in flags
    <2>1. "." \notin flags /\ prec = 0 /\ z = w /\ k = w - m /\ width <= N
      BY <1>5
    <2>2. "#" \in flags => w = width /\ width < m /\ k < 0 /\ n = m
      BY <1>5, <2>1
    <2>3. n = (IF z > m THEN z ELSE m) /\ z <= N
      BY <1>1, <2>1
    <2>4. n + b <= N /\ (b + n) + a <= N
      <3>1. CASE "#" \in flags
        BY <2>2, <3>1
      <3>2. CASE "#" \notin flags
        <4>1. b = 0
          BY <3>2
        <4>2. w > m => w + a <= width
          BY <1>1, <1>5
        <4> QED
          BY <1>1, <2>1, <2>3, <4>1, <4>2
      <3> QED
        BY <3>1, <3>2
    <2>5. k = width - (a + b + m) \/ (k <= 0 /\ width - (a + b + m) <= 0)
      <3>1. CASE "#" \in flags
        BY <1>1, <2>1, <2>2, <3>1
      <3>2. CASE "#" \notin flags
        BY <1>1, <1>5, <2>1, <3>2
      <3> QED
        BY <3>1, <3>2
    <2> QED
      BY <1>1, <1>2, <1>5, <2>1, <2>2, <2>3, <2>4, <2>5
  <1> QED
    BY <1>3, <1>4, <1>5

\* The digits with the zeros of their precision and their field: z is the
\* field to fill, l the number of digits, m that with the precision, n with
\* k zeros of the field.
Padded(digits, prec, z, flags) ==
    IF "-" \in flags THEN digits ELSE FillTo(FillTo(digits, prec), z)
PaddingFits(flags, prec, l, m, z, k, n) ==
    /\ prec \in Nat /\ z \in Nat /\ k \in Int /\ n \in Nat /\ m <= NTOA
    /\ "-" \notin flags => z <= NTOA /\ n = (IF z > m THEN z ELSE m)
    /\ "-" \in flags => k = 0 /\ n = m /\ prec <= l
    /\ "-" \notin flags /\ "0" \in flags => k = z - m
    /\ "-" \notin flags /\ "0" \notin flags => k = 0 /\ z - m <= 0

\* They are read as zeros and figures.
LEMMA PaddedNumber ==
  ASSUME NEW digits \in Seq(Plain), NEW flags, NEW prec, NEW z, NEW k, NEW n,
         PaddingFits(flags, prec, Len(digits), Len(Figures(digits, prec)), z, k, n)
  PROVE  /\ Padded(digits, prec, z, flags) \in Seq(Plain)
         /\ Len(Padded(digits, prec, z, flags)) = n
         /\ Reverse(Padded(digits, prec, z, flags)) = Copies("0", k) \o Figures(digits, prec)
  <1> USE DEF Padded, PaddingFits
  <1> DEFINE padded == IF "-" \in flags THEN digits ELSE FillTo(FillTo(digits, prec), z)
             nm == Figures(digits, prec)
             l == Len(digits)
             m == Len(nm)
  <1>1. /\ nm \in Seq(Plain) /\ m = (IF prec > l THEN prec ELSE l)
        /\ l \in Nat /\ m \in Nat /\ "0" \in Plain
    BY FiguresLength, LenProperties DEF Plain
  <1>2. CASE "-" \in flags
    <2>1. padded = digits /\ k = 0 /\ prec <= l /\ n = m
      BY <1>2
    <2>2. Copies("0", prec - l) = <<>> /\ Copies("0", 0) = <<>>
      <3> DEFINE q == prec - l
      <3> HIDE DEF l
      <3>1. q \in Int /\ q <= 0
        BY <1>1, <2>1
      <3> HIDE DEF q
      <3>2. Copies("0", q) = <<>>
        BY <1>1, <3>1, CopiesLength
      <3>3. \A e \in Int : e <= 0 => Copies("0", e) = <<>>
        BY <1>1, CopiesLength
      <3>4. Copies("0", 0) = <<>>
        BY <3>3
      <3> QED
        BY <3>2, <3>4 DEF q
    <2>3. Reverse(digits) \in Seq(Plain) /\ Len(Reverse(digits)) = l
      BY ReverseReads
    <2>4. nm = Reverse(digits)
      <3>1. nm = <<>> \o Reverse(digits)
        BY <2>2 DEF Figures
      <3> QED
        BY <2>3, <3>1, ConcatEmptySeq
    <2>5. Copies("0", k) \o nm = nm
      BY <1>1, <2>1, <2>2, ConcatEmptySeq
    <2>6. Len(padded) = n
      BY <2>1, <2>3, <2>4
    <2> HIDE DEF padded
    <2>7. padded \in Seq(Plain) /\ Reverse(padded) = Copies("0", k) \o nm
      BY <2>1, <2>4, <2>5
    <2> QED
      BY <2>6, <2>7 DEF padded
  <1>3. CASE "-" \notin flags
    <2>1. padded = FillTo(FillTo(digits, prec), z) /\ z <= NTOA
      BY <1>3
    <2> HIDE DEF padded
    <2>2. /\ padded \in Seq(Plain)
          /\ Len(padded) = (IF z > m THEN z ELSE m)
          /\ Reverse(padded) = Copies("0", z - m) \o nm
      BY <2>1, PaddedReversed
    <2>3. Copies("0", z - m) = Copies("0", k)
      <3>1. CASE "0" \in flags
        BY <1>3, <3>1
      <3>2. CASE "0" \notin flags
        <4> DEFINE q == z - m
        <4> HIDE DEF m
        <4>1. q \in Int
          BY <1>1
        <4>2. q <= 0 /\ k = 0
          BY <1>3, <3>2 DEF m
        <4> HIDE DEF q
        <4>3. Copies("0", q) = <<>> /\ Copies("0", k) = <<>>
          BY <1>1, <4>1, <4>2, CopiesLength
        <4> QED
          BY <4>3 DEF q
      <3> QED
        BY <3>1, <3>2
    <2>4. Len(padded) = n
      BY <1>3, <2>2
    <2> QED
      BY <2>2, <2>3, <2>4 DEF padded
  <1> QED
    BY <1>2, <1>3

\* A number that fits: its digits, its sign sg, its prefix px and its
\* figures nm; and what ntoa_format builds of them with k zeros.
NumberFits(digits, negative, base, upper, prec, width, flags, sg, px, nm) ==
    /\ digits \in Seq(Plain) /\ negative \in BOOLEAN /\ base \in {2, 8, 10, 16}
    /\ upper \in BOOLEAN /\ prec \in Nat /\ width \in Nat
    /\ sg = SignOf(negative, flags) /\ px = BasePrefix(base, upper, flags)
    /\ nm = Figures(digits, prec)
    /\ Fits(flags, width, prec, Len(sg), Len(px), Len(nm), NTOA)
    /\ "-" \in flags => prec <= Len(digits)
BuiltFrom(x, sg, px, nm, k) ==
    /\ x \in Seq(Plain) /\ Len(x) = Len(sg) + (Len(px) + Filled(k, Len(nm)))
    /\ Reverse(x) = sg \o (px \o (Copies("0", k) \o nm))

\* What ntoa_format has in its buffer, read from the end.
LEMMA NumberBuilt ==
  ASSUME NEW digits, NEW negative, NEW base, NEW upper, NEW prec, NEW width, NEW flags,
         NEW sg, NEW px, NEW nm, NEW w, NEW k,
         NumberFits(digits, negative, base, upper, prec, width, flags, sg, px, nm),
         w = FieldWidth(flags, width, Len(sg)), k = Filling(flags, w, Len(nm))
  PROVE  \E x : /\ ntoa_format(digits, negative, base, upper, prec, width, flags) =
                      out_rev(x, w, flags)
                /\ BuiltFrom(x, sg, px, nm, k)
  <1>0. /\ digits \in Seq(Plain) /\ negative \in BOOLEAN /\ base \in {2, 8, 10, 16}
        /\ upper \in BOOLEAN /\ prec \in Nat /\ width \in Nat
        /\ sg = SignOf(negative, flags) /\ px = BasePrefix(base, upper, flags)
        /\ nm = Figures(digits, prec)
        /\ Fits(flags, width, prec, Len(sg), Len(px), Len(nm), NTOA)
        /\ "-" \in flags => prec <= Len(digits)
    BY DEF NumberFits
  <1> USE <1>0
  <1> DEFINE z == IF "0" \in flags THEN w ELSE 0
             padded == Padded(digits, prec, z, flags)
             l == Len(padded)
             cut == IF "." \in flags \/ l = 0 \/ l \notin {prec, w} THEN 0
                    ELSE IF base = 16 /\ l > 1 THEN 2 ELSE 1
             room == SubSeq(padded, 1, l - cut)
             hashed == WithPrefix(padded, base, upper, flags)
             x == WithSign(hashed, negative, flags)
             m == Len(nm)
             a == Len(sg)
             b == Len(px)
             n == Filled(k, m)
  <1>1. /\ w \in Nat /\ z \in Nat /\ k \in Int /\ n \in Nat
        /\ n + b <= NTOA /\ (b + n) + a <= NTOA /\ m <= NTOA
        /\ "-" \notin flags => z <= NTOA /\ n = (IF z > m THEN z ELSE m)
        /\ "-" \in flags => k = 0 /\ n = m
        /\ "-" \notin flags /\ "0" \in flags => k = z - m
        /\ "-" \notin flags /\ "0" \notin flags => k = 0 /\ z - m <= 0
        /\ "#" \in flags => n = m /\ ("." \in flags \/ n = 0 \/ n \notin {prec, w})
    BY FieldLengths
  <1> HIDE DEF z, n
  <1>2. /\ padded \in Seq(Plain) /\ l = n
        /\ Reverse(padded) = Copies("0", k) \o nm
    <2>1. PaddingFits(flags, prec, Len(digits), Len(nm), z, k, n)
      BY <1>1 DEF PaddingFits
    <2>2. digits \in Seq(Plain) /\ nm = Figures(digits, prec)
      OBVIOUS
    <2> HIDE <1>0
    <2> DEFINE fg == Figures(digits, prec)
    <2>3. PaddingFits(flags, prec, Len(digits), Len(fg), z, k, n)
      BY <2>1, <2>2
    <2>4. /\ Padded(digits, prec, z, flags) \in Seq(Plain)
          /\ Len(Padded(digits, prec, z, flags)) = n
          /\ Reverse(Padded(digits, prec, z, flags)) = Copies("0", k) \o fg
      BY <2>2, <2>3, PaddedNumber
    <2> QED
      BY <2>2, <2>4
  <1> HIDE DEF padded
  <1>3. ASSUME "#" \in flags PROVE room = padded
    <2>1. "." \in flags \/ l = 0 \/ l \notin {prec, w}
      BY <1>1, <1>2, <1>3
    <2>2. cut = 0
      BY <2>1
    <2> HIDE DEF cut
    <2> QED
      BY <1>2, <2>2, SubSeqAll
  <1>4. /\ hashed \in Seq(Plain) /\ Len(hashed) = b + n
        /\ Reverse(hashed) = px \o (Copies("0", k) \o nm)
    <2>1. Len(padded) + Len(BasePrefix(base, upper, flags)) <= NTOA
      BY <1>1, <1>2
    <2>2. padded \in Seq(Plain)
      BY <1>2
    <2>3. /\ hashed \in Seq(Plain) /\ Len(hashed) = Len(px) + Len(padded)
          /\ Reverse(hashed) = px \o Reverse(padded)
      <3>1. SetInFront(WithPrefix(padded, base, upper, flags), BasePrefix(base, upper, flags), padded)
        BY <2>1, <2>2, PrefixInFront
      <3> QED
        BY <3>1 DEF SetInFront
    <2> QED
      BY <1>2, <2>3
  <1> HIDE DEF hashed
  <1>5. /\ x \in Seq(Plain) /\ Len(x) = a + (b + n)
        /\ Reverse(x) = sg \o (px \o (Copies("0", k) \o nm))
    <2>1. Len(hashed) + Len(SignOf(negative, flags)) <= NTOA
      BY <1>1, <1>4
    <2>2. /\ x \in Seq(Plain) /\ Len(x) = a + Len(hashed)
          /\ Reverse(x) = sg \o Reverse(hashed)
      <3>1. SetInFront(WithSign(hashed, negative, flags), SignOf(negative, flags), hashed)
        BY <1>4, <2>1, SignInFront
      <3> QED
        BY <3>1 DEF SetInFront
    <2> QED
      BY <1>4, <2>2
  <1>6. ntoa_format(digits, negative, base, upper, prec, width, flags) = out_rev(x, w, flags)
    <2> DEFINE left == "-" \in flags
               sign == negative \/ {"+", " "} \cap flags # {}
               v == IF ~ left /\ "0" \in flags /\ sign /\ width > 0 THEN width - 1 ELSE width
               filled == IF left THEN digits
                         ELSE FillTo(FillTo(digits, prec), IF "0" \in flags THEN v ELSE 0)
               e == Len(filled)
               c == IF "." \in flags \/ e = 0 \/ e \notin {prec, v} THEN 0
                    ELSE IF base = 16 /\ e > 1 THEN 2 ELSE 1
               rm == SubSeq(filled, 1, e - c)
               letter == CASE base = 16 -> Put(rm, IF upper THEN "X" ELSE "x")
                           [] base = 2 -> Put(rm, "b")
                           [] OTHER -> rm
               h == IF "#" \in flags THEN Put(letter, "0") ELSE filled
    <2>1. ntoa_format(digits, negative, base, upper, prec, width, flags) =
             out_rev(WithSign(h, negative, flags), v, flags)
      BY DEF ntoa_format, WithSign
    <2>2. v = w
      <3>1. a = (IF sign THEN 1 ELSE 0)
        BY FrontShape
      <3> HIDE DEF sign
      <3>2. sign <=> a = 1
        BY <3>1
      <3> QED
        BY <3>2 DEF FieldWidth
    <2> HIDE DEF v
    <2>3. filled = padded
      BY <2>2 DEF padded, Padded, z
    <2> HIDE DEF filled
    <2>4. rm = room
      BY <2>2, <2>3
    <2> HIDE DEF rm
    <2>5. h = hashed
      <3>1. CASE "#" \in flags
        <4>1. rm = padded
          BY <1>3, <2>4, <3>1
        <4> QED
          BY <3>1, <4>1 DEF hashed, WithPrefix
      <3>2. CASE "#" \notin flags
        BY <2>3, <3>2 DEF hashed, WithPrefix
      <3> QED
        BY <3>1, <3>2
    <2> HIDE DEF h
    <2> QED
      BY <2>1, <2>2, <2>5
  <1> HIDE DEF x
  <1>7. BuiltFrom(x, sg, px, nm, k)
    BY <1>5 DEF n, BuiltFrom
  <1> QED
    BY <1>6, <1>7

\* A number in its field as C lays it out.
Laid(front, nm, width, flags) ==
    LET rest == width - Len(front \o nm)
    IN IF "-" \in flags THEN front \o nm \o Copies(" ", rest)
       ELSE IF "0" \in flags THEN front \o Copies("0", rest) \o nm
       ELSE Copies(" ", rest) \o front \o nm

\* Texts one after the other.
LEMMA Regroup ==
  \A s, t, u \in Seq(Plain) : (s \o t) \o u = s \o (t \o u)
  BY ConcatAssociative

\* So the number is read from it as C lays it out.
LEMMA LaidOut ==
  ASSUME NEW sg \in Seq(Plain), NEW px \in Seq(Plain), NEW nm \in Seq(Plain),
         NEW w \in Nat, NEW width \in Nat, NEW k \in Int, NEW flags,
         NEW x, BuiltFrom(x, sg, px, nm, k),
         "-" \in flags \/ "0" \notin flags => w = width /\ Filled(k, Len(nm)) = Len(nm) /\ k = 0,
         "-" \notin flags /\ "0" \in flags =>
            \/ k = width - (Len(sg) + Len(px) + Len(nm))
            \/ k <= 0 /\ width - (Len(sg) + Len(px) + Len(nm)) <= 0
  PROVE  out_rev(x, w, flags) = Laid(sg \o px, nm, width, flags)
  <1> DEFINE m == Len(nm)
             a == Len(sg)
             b == Len(px)
             front == sg \o px
             rest == width - Len(front \o nm)
             c == Copies("0", k)
  <1>1. /\ x \in Seq(Plain) /\ Len(x) = a + (b + Filled(k, m))
        /\ Reverse(x) = sg \o (px \o (c \o nm))
    BY DEF BuiltFrom
  <1>2. /\ "-" \in flags \/ "0" \notin flags => w = width /\ Filled(k, m) = m /\ k = 0
        /\ "-" \notin flags /\ "0" \in flags =>
             k = width - (a + b + m) \/ (k <= 0 /\ width - (a + b + m) <= 0)
    OBVIOUS
  <1>3. "0" \in Plain /\ " " \in Plain
    BY DEF Plain
  <1>4. c \in Seq(Plain) /\ (k <= 0 => c = <<>>)
    BY <1>2, <1>3, CopiesLength
  <1>5. /\ front \in Seq(Plain) /\ Len(front \o nm) = (a + b) + m
        /\ front \o nm \in Seq(Plain)
    <2>1. front \in Seq(Plain) /\ Len(front) = a + b
      BY <1>3, ConcatProperties
    <2> HIDE DEF front
    <2>2. front \o nm \in Seq(Plain) /\ Len(front \o nm) = Len(front) + m
      <3>1. front \in Seq(Plain) /\ nm \in Seq(Plain)
        BY <1>3, <2>1
      <3> QED
        BY <3>1, ConcatProperties
    <2> QED
      BY <2>1, <2>2
  <1>6. a \in Nat /\ b \in Nat /\ m \in Nat /\ rest = width - (a + b + m) /\ rest \in Int
    <2>1. a \in Nat /\ b \in Nat /\ m \in Nat
      BY <1>3, LenProperties
    <2>2. rest = width - ((a + b) + m)
      BY <1>5
    <2> HIDE DEF a, b, m, rest
    <2> QED
      BY <2>1, <2>2
  <1> HIDE DEF c
  <1>7. Reverse(x) = (front \o c) \o nm /\ front \o c \in Seq(Plain)
    <2>1. c \o nm \in Seq(Plain)
      BY <1>3, <1>4, ConcatProperties
    <2> DEFINE t == c \o nm
    <2> HIDE DEF t
    <2>2. t \in Seq(Plain)
      BY <2>1 DEF t
    <2>3. front \o t = sg \o (px \o t)
      <3>1. sg \in Seq(Plain) /\ px \in Seq(Plain) /\ t \in Seq(Plain)
        BY <1>3, <2>2
      <3> QED
        BY <3>1, Regroup
    <2> HIDE DEF front
    <2>4. front \o t = (front \o c) \o nm
      <3>1. front \in Seq(Plain) /\ c \in Seq(Plain) /\ nm \in Seq(Plain)
        BY <1>3, <1>4, <1>5
      <3>2. (front \o c) \o nm = front \o (c \o nm)
        BY <3>1, Regroup
      <3> QED
        BY <3>2 DEF t
    <2>5. front \o c \in Seq(Plain)
      BY <1>4, <1>5, ConcatProperties
    <2> QED
      BY <1>1, <2>3, <2>4, <2>5 DEF t
  <1>8. out_rev(x, w, flags) = IF "-" \in flags THEN Reverse(x) \o Copies(" ", w - Len(x))
                               ELSE IF "0" \in flags THEN Reverse(x)
                               ELSE Copies(" ", w - Len(x)) \o Reverse(x)
    BY DEF out_rev
  <1>9. Laid(front, nm, width, flags) =
           IF "-" \in flags THEN (front \o nm) \o Copies(" ", rest)
           ELSE IF "0" \in flags THEN (front \o Copies("0", rest)) \o nm
           ELSE (Copies(" ", rest) \o front) \o nm
    BY DEF Laid
  <1> HIDE DEF front, rest, a, b, m
  <1>10. CASE "-" \in flags \/ "0" \notin flags
    <2>1. w = width /\ Len(x) = a + (b + m) /\ k = 0
      BY <1>1, <1>2, <1>10
    <2>2. w - Len(x) = rest
      <3> DEFINE q == Len(x)
      <3>1. q = a + (b + m)
        BY <2>1
      <3> HIDE DEF q
      <3>2. w - q = rest
        BY <1>6, <2>1, <3>1
      <3> QED
        BY <3>2 DEF q
    <2>3. front \o c = front
      BY <1>4, <1>5, <2>1, ConcatEmptySeq
    <2>4. Reverse(x) = front \o nm
      BY <1>7, <2>3
    <2>5. Copies(" ", rest) \in Seq(Plain)
      BY <1>3, <1>6, CopiesLength
    <2>6. (Copies(" ", rest) \o front) \o nm = Copies(" ", rest) \o (front \o nm)
      <3> DEFINE t == Copies(" ", rest)
      <3>1. front \in Seq(Plain) /\ t \in Seq(Plain) /\ nm \in Seq(Plain)
        BY <1>3, <1>5, <2>5
      <3> HIDE DEF t
      <3>2. (t \o front) \o nm = t \o (front \o nm)
        BY <3>1, Regroup
      <3> QED
        BY <3>2 DEF t
    <2> QED
      BY <1>8, <1>9, <1>10, <2>2, <2>4, <2>6 DEF front
  <1>11. CASE ~ ("-" \in flags \/ "0" \notin flags)
    <2>1. k = rest \/ (k <= 0 /\ rest <= 0)
      BY <1>2, <1>6, <1>11
    <2>2. c = Copies("0", rest)
      <3>1. rest <= 0 => Copies("0", rest) = <<>>
        BY <1>3, <1>6, CopiesLength
      <3> QED
        BY <1>4, <2>1, <3>1 DEF c
    <2> QED
      BY <1>7, <1>8, <1>9, <1>11, <2>2 DEF front
  <1> QED
    BY <1>10, <1>11

\* ntoa_format lays out what fits as C does.
LEMMA NumberFormatted ==
  ASSUME NEW digits, NEW negative, NEW base, NEW upper, NEW prec, NEW width, NEW flags,
         NEW sg, NEW px, NEW nm,
         NumberFits(digits, negative, base, upper, prec, width, flags, sg, px, nm)
  PROVE  ntoa_format(digits, negative, base, upper, prec, width, flags) =
            Laid(sg \o px, nm, width, flags)
  <1> DEFINE w == FieldWidth(flags, width, Len(sg))
             k == Filling(flags, w, Len(nm))
             z == IF "0" \in flags THEN w ELSE 0
             n == Filled(k, Len(nm))
             m == Len(nm)
             a == Len(sg)
             b == Len(px)
  <1>1. /\ w \in Nat /\ z \in Nat /\ k \in Int /\ n \in Nat
        /\ "-" \in flags => k = 0 /\ n = m
        /\ "-" \notin flags /\ "0" \notin flags => k = 0 /\ z - m <= 0
        /\ "-" \in flags \/ "0" \notin flags => w = width /\ n = m
        /\ "-" \notin flags /\ "0" \in flags =>
             k = width - (a + b + m) \/ (k <= 0 /\ width - (a + b + m) <= 0)
    <2>1. Fits(flags, width, prec, Len(sg), Len(px), Len(nm), NTOA)
      BY DEF NumberFits
    <2> QED
      BY <2>1, FieldLengths
  <1>2. w = FieldWidth(flags, width, Len(sg)) /\ k = Filling(flags, w, Len(nm))
    OBVIOUS
  <1> HIDE DEF w, k, z
  <1>3. PICK x : /\ ntoa_format(digits, negative, base, upper, prec, width, flags) =
                       out_rev(x, w, flags)
                 /\ BuiltFrom(x, sg, px, nm, k)
    BY <1>2, NumberBuilt
  <1>4. sg \in Seq(Plain) /\ px \in Seq(Plain) /\ nm \in Seq(Plain)
    BY FrontShape, FiguresLength DEF NumberFits
  <1>5. "-" \in flags \/ "0" \notin flags =>
           w = width /\ Filled(k, Len(nm)) = Len(nm) /\ k = 0
    BY <1>1
  <1>6. "-" \notin flags /\ "0" \in flags =>
            \/ k = width - (Len(sg) + Len(px) + Len(nm))
            \/ k <= 0 /\ width - (Len(sg) + Len(px) + Len(nm)) <= 0
    BY <1>1
  <1>7. out_rev(x, w, flags) = Laid(sg \o px, nm, width, flags)
    <2>1. width \in Nat
      BY DEF NumberFits
    <2> QED
      BY <1>1, <1>3, <1>4, <1>5, <1>6, <2>1, LaidOut
  <1> QED
    BY <1>3, <1>7

\* How many digits a number has.
LEMMA DigitsNeeded ==
  ASSUME PowerLaw, NEW v \in Nat, v > 0, NEW base \in {2, 8, 10, 16}, NEW B \in Nat, v < base^B
  PROVE  LET m == Cardinality({k \in 0 .. (B - 1) : base^k <= v})
         IN m \in 1 .. B /\ v < base^m /\ base^(m - 1) <= v
  <1> DEFINE P(j) == base^j
             K == {j \in 0 .. B : v < P(j)}
             S == {j \in 0 .. (B - 1) : P(j) <= v}
             m == Min(K)
  <1>1. /\ P(0) = 1 /\ \A j \in Nat : P(j) \in Int
        /\ \A i, j \in Nat : i < j => P(i) < P(j)
    BY PowersGrow DEF PowerLaw
  <1>2. v < P(B)
    OBVIOUS
  <1> HIDE DEF P
  <1>3. K \in SUBSET Nat /\ B \in K /\ K \in SUBSET (0 .. ((B + 1) - 1))
    BY <1>2
  <1>4. m \in K /\ \A j \in K : m <= j
    <2> HIDE DEF K
    <2>1. IsFiniteSet(K)
      BY <1>3, BoundedSet
    <2> QED
      BY <1>3, <2>1, MinIsLeast
  <1> HIDE DEF m
  <1>5. m \in 0 .. B /\ v < P(m)
    BY <1>4
  <1>6. m # 0
    BY <1>1, <1>5
  <1>7. S = 0 .. (m - 1)
    <2>1. ASSUME NEW j \in 0 .. (B - 1) PROVE P(j) <= v <=> j <= m - 1
      <3>1. j \in Nat /\ m \in Nat /\ P(j) \in Int /\ P(m) \in Int
        BY <1>1, <1>5
      <3>2. CASE j < m
        <4>1. j \notin K /\ j \in 0 .. B
          <5>1. ~ (m <= j)
            BY <3>1, <3>2
          <5> HIDE DEF K
          <5>2. j \notin K
            BY <1>4, <5>1
          <5> QED
            BY <5>2
        <4>2. ~ (v < P(j))
          BY <4>1
        <4> QED
          BY <3>1, <3>2, <4>2
      <3>3. CASE ~ (j < m)
        <4>1. j = m \/ m < j
          BY <3>1, <3>3
        <4>2. P(m) <= P(j)
          BY <1>1, <3>1, <4>1
        <4>3. ~ (P(j) <= v)
          BY <1>5, <3>1, <4>2
        <4> QED
          BY <3>1, <3>3, <4>3
      <3> QED
        BY <3>2, <3>3
    <2>2. \A j : j \in 0 .. (m - 1) <=> (j \in 0 .. (B - 1) /\ j <= m - 1)
      BY <1>5
    <2> QED
      BY <2>1, <2>2
  <1>8. Cardinality(S) = m
    <2>1. Cardinality(0 .. (m - 1)) = m
      <3> DEFINE e == m - 1
      <3>1. e \in Int /\ ~ (0 > e) /\ e - 0 + 1 = m /\ 0 \in Int
        BY <1>5, <1>6
      <3> HIDE DEF e
      <3>2. Cardinality(0 .. e) = IF 0 > e THEN 0 ELSE e - 0 + 1
        BY <3>1, FS_Interval
      <3>3. Cardinality(0 .. e) = m
        BY <3>1, <3>2
      <3> QED
        BY <3>3 DEF e
    <2> QED
      BY <1>7, <2>1
  <1>9. P(m - 1) <= v
    <2>1. m - 1 \in S
      BY <1>5, <1>6, <1>7
    <2> QED
      BY <2>1
  <1>10. m \in 1 .. B
    BY <1>5, <1>6
  <1> QED
    BY <1>5, <1>8, <1>9, <1>10 DEF P

\* 0 has no digits.
LEMMA NoDigits ==
  ASSUME PowerLaw, NEW base \in {2, 8, 10, 16}, NEW B \in Nat
  PROVE  Cardinality({k \in 0 .. (B - 1) : base^k <= 0}) = 0
  <1> DEFINE S == {k \in 0 .. (B - 1) : base^k <= 0}
  <1>1. \A k \in Nat : base^k \in Int /\ base^k > 0
    BY PowersGrow
  <1>2. \A k \in Nat : ~ (base^k <= 0)
    <2> TAKE k \in Nat
    <2> DEFINE p == base^k
    <2>1. p \in Int /\ p > 0
      BY <1>1
    <2> HIDE DEF p
    <2>2. ~ (p <= 0)
      BY <2>1
    <2> QED
      BY <2>2 DEF p
  <1>3. S = {}
    BY <1>2
  <1> QED
    BY <1>3, FS_EmptySet

\* The figures of a number of m digits, the highest first.
FiguresOf(v, base, upper, m) ==
    [k \in 1 .. m |-> (IF upper THEN GLYPHS ELSE Glyphs)[1 + ((v \div base^(m - k)) % base)]]

\* _ntoa_long finds all digits of a number that fits its buffer.
LEMMA NumeralRead ==
  ASSUME PowerLaw, NEW v \in Nat, v > 0, NEW base \in {2, 8, 10, 16}, NEW upper \in BOOLEAN,
         NEW flags, NEW m \in 1 .. NTOA, v < base^m, base^(m - 1) <= v
  PROVE  /\ Len(Numeral(v, base, upper, flags)) = m
         /\ Reverse(Numeral(v, base, upper, flags)) = FiguresOf(v, base, upper, m)
  <1> DEFINE P(j) == base^j
             Q(j) == (j = NTOA \/ v < P(j)) /\ (j = 1 \/ v >= P(j - 1))
             n == CHOOSE j \in 1 .. NTOA : Q(j)
             G == IF upper THEN GLYPHS ELSE Glyphs
             g == [j \in 1 .. n |-> G[1 + ((v \div P(j - 1)) % base)]]
  <1>0. NTOA \in Nat /\ m \in Nat
    BY PrintfAssumption
  <1>1. /\ \A j \in Nat : P(j) \in Int
        /\ \A i, j \in Nat : i < j => P(i) < P(j)
    BY PowersGrow
  <1>2. v < P(m) /\ P(m - 1) <= v
    OBVIOUS
  <1>3. Numeral(v, base, upper, flags) = g
    BY DEF Numeral
  <1> HIDE DEF P
  <1>4. Q(m)
    <2>1. m - 1 \in Nat /\ P(m - 1) \in Int
      BY <1>1
    <2>2. v >= P(m - 1)
      BY <1>2, <2>1
    <2> QED
      BY <1>2, <2>2
  <1>5. ASSUME NEW j \in 1 .. NTOA, Q(j) PROVE j = m
    <2>0. j \in Nat
      OBVIOUS
    <2>1. CASE j < m
      <3>1. j # NTOA
        BY <1>0, <2>1
      <3>2. v < P(j)
        BY <1>5, <3>1
      <3>3. m - 1 \in Nat /\ (j = m - 1 \/ j < m - 1)
        BY <1>0, <2>0, <2>1
      <3>4. P(j) <= P(m - 1) /\ P(j) \in Int /\ P(m - 1) \in Int
        BY <1>1, <2>0, <3>3
      <3> QED
        BY <1>2, <3>2, <3>4
    <2>2. CASE j > m
      <3>1. j # 1
        BY <1>0, <2>2
      <3>2. v >= P(j - 1)
        BY <1>5, <3>1
      <3>3. j - 1 \in Nat /\ (m = j - 1 \/ m < j - 1)
        BY <1>0, <2>0, <2>2
      <3>4. P(m) <= P(j - 1) /\ P(m) \in Int /\ P(j - 1) \in Int
        BY <1>0, <1>1, <3>3
      <3> QED
        BY <1>2, <3>2, <3>4
    <2> QED
      BY <1>0, <2>0, <2>1, <2>2
  <1>6. n = m
    <2> HIDE DEF Q
    <2> QED
      BY <1>4, <1>5
  <1> HIDE DEF n, G
  <1>7. g = [j \in 1 .. m |-> G[1 + ((v \div P(j - 1)) % base)]]
    BY <1>6
  <1>8. g \in Seq(Plain)
    <2>1. Plain \subseteq Plain
      OBVIOUS
    <2>2. Numeral(v, base, upper, flags) \in Seq(Plain)
      BY <2>1, NumeralSeq
    <2> QED
      BY <1>3, <2>2
  <1>9. Len(g) = m
    <2> DEFINE l == Len(g)
    <2>1. l \in Nat /\ 1 .. l = 1 .. m
      BY <1>7, <1>8, LenProperties
    <2> HIDE DEF l
    <2>2. l + 1 \notin 1 .. l /\ m + 1 \notin 1 .. m
      BY <1>0, <2>1
    <2>3. l = m
      BY <1>0, <2>1, <2>2
    <2> QED
      BY <2>3 DEF l
  <1> HIDE DEF g
  <1>10. Reverse(g) = [k \in 1 .. m |-> g[(m - k) + 1]]
    BY <1>9 DEF Reverse
  <1>11. ASSUME NEW k \in 1 .. m
         PROVE  g[(m - k) + 1] = G[1 + ((v \div P(m - k)) % base)]
    <2>1. (m - k) + 1 \in 1 .. m /\ ((m - k) + 1) - 1 = m - k
      BY <1>0
    <2> QED
      BY <1>7, <2>1
  <1>12. FiguresOf(v, base, upper, m) = [k \in 1 .. m |-> G[1 + ((v \div P(m - k)) % base)]]
    BY DEF FiguresOf, G, P
  <1>13. Reverse(g) = FiguresOf(v, base, upper, m)
    BY <1>10, <1>11, <1>12
  <1> QED
    BY <1>3, <1>9, <1>13

\* One zero.
LEMMA OneCopy ==
  Copies("0", 1) = <<"0">>
  <1> DEFINE s == Copies("0", 1)
             t == <<"0">>
  <1>1. "0" \in Plain /\ 1 \in Int
    BY DEF Plain
  <1>2. s \in Seq(Plain) /\ Len(s) = 1 /\ s[1] = "0"
    <2>1. /\ Copies("0", 1) \in Seq(Plain)
          /\ Len(Copies("0", 1)) = IF 1 > 0 THEN 1 ELSE 0
          /\ \A k \in 1 .. 1 : Copies("0", 1)[k] = "0"
      BY <1>1, CopiesLength
    <2> QED
      BY <2>1
  <1>3. t \in Seq(Plain) /\ Len(t) = 1 /\ t[1] = "0"
    BY <1>1
  <1> HIDE DEF s, t
  <1>4. \A k \in 1 .. Len(s) : s[k] = t[k]
    BY <1>2, <1>3
  <1>5. s = t
    BY <1>2, <1>3, <1>4, SeqEqual
  <1> QED
    BY <1>5 DEF s, t

\* 0 is written 0.
LEMMA ZeroRead ==
  ASSUME PowerLaw, NEW base \in {2, 8, 10, 16}, NEW upper \in BOOLEAN, NEW flags
  PROVE  Numeral(0, base, upper, flags) = IF "." \in flags THEN <<>> ELSE <<"0">>
  <1> DEFINE Q(j) == (j = NTOA \/ 0 < base^j) /\ (j = 1 \/ 0 >= base^(j - 1))
             n == CHOOSE j \in 1 .. NTOA : Q(j)
             G == IF upper THEN GLYPHS ELSE Glyphs
             g == [j \in 1 .. n |-> G[1 + ((0 \div base^(j - 1)) % base)]]
  <1>0. NTOA \in Nat /\ 1 \in 1 .. NTOA
    BY PrintfAssumption
  <1>1. \A j \in Nat : base^j \in Int /\ base^j > 0
    BY PowersGrow
  <1>2. base^0 = 1
    BY DEF PowerLaw
  <1>3. Q(1)
    <2>1. 0 < base^1
      <3>1. base^1 \in Int /\ base^1 > 0
        BY <1>1
      <3> DEFINE p == base^1
      <3> HIDE DEF p
      <3>2. p \in Int /\ p > 0
        BY <3>1 DEF p
      <3>3. 0 < p
        BY <3>2
      <3> QED
        BY <3>3 DEF p
    <2> QED
      BY <2>1
  <1>4. ASSUME NEW j \in 1 .. NTOA, Q(j) PROVE j = 1
    <2> SUFFICES ASSUME j # 1 PROVE FALSE
      OBVIOUS
    <2> DEFINE p == base^(j - 1)
    <2>1. 0 >= p
      BY <1>4
    <2>2. j - 1 \in Nat
      BY <1>0
    <2>3. p \in Int /\ p > 0
      BY <1>1, <2>2
    <2> HIDE DEF p
    <2> QED
      BY <2>1, <2>3
  <1>5. n = 1
    <2> HIDE DEF Q
    <2> QED
      BY <1>0, <1>3, <1>4
  <1>6. Numeral(0, base, upper, flags) = IF "." \in flags THEN <<>> ELSE g
    BY DEF Numeral
  <1> HIDE DEF n
  <1>7. g = <<"0">>
    <2>1. G[1] = "0"
      BY DEF Glyphs, GLYPHS
    <2>2. ASSUME NEW j \in 1 .. 1 PROVE G[1 + ((0 \div base^(j - 1)) % base)] = "0"
      <3>1. j - 1 = 0
        OBVIOUS
      <3>2. base^(j - 1) = 1
        BY <1>2, <3>1
      <3>3. (0 \div 1) % base = 0
        OBVIOUS
      <3>4. 1 + ((0 \div base^(j - 1)) % base) = 1
        BY <3>2, <3>3
      <3> HIDE DEF G
      <3> QED
        BY <2>1, <3>4
    <2> HIDE DEF G
    <2>3. g = [j \in 1 .. 1 |-> "0"]
      BY <1>5, <2>2
    <2>4. g = Copies("0", 1)
      BY <2>3 DEF Copies
    <2> QED
      BY <2>4, OneCopy
  <1> HIDE DEF g
  <1> QED
    BY <1>6, <1>7

\* No power of a base is below that of 2.
LEMMA PowersOfTwo ==
  ASSUME PowerLaw, NEW base \in {2, 8, 10, 16}, NEW n \in Nat
  PROVE  2^n <= base^n
  <1> DEFINE S == {k \in Nat : 2^k <= base^k}
  <1>0. 2 \in {2, 8, 10, 16}
    OBVIOUS
  <1>1. 0 \in S
    <2>1. 2^0 = 1 /\ base^0 = 1
      BY <1>0 DEF PowerLaw
    <2> QED
      BY <2>1
  <1>2. ASSUME NEW k \in 0 .. (n - 1), k \in S PROVE k + 1 \in S
    <2>1. k \in Nat /\ k + 1 \in Nat /\ 2^k <= base^k
      BY <1>2
    <2> DEFINE p == 2^k
               q == base^k
               r == 2^(k + 1)
               t == base^(k + 1)
    <2>2. p \in Int /\ q \in Int /\ p > 0 /\ q > 0 /\ p <= q
      BY <1>0, <2>1, PowersGrow
    <2>3. r = 2 * p /\ t = base * q
      BY <1>0, <2>1 DEF PowerLaw
    <2> HIDE DEF p, q, r, t
    <2>4. r <= t
      <3>1. CASE base = 2
        BY <2>2, <2>3, <3>1
      <3>2. CASE base = 8
        BY <2>2, <2>3, <3>2
      <3>3. CASE base = 10
        BY <2>2, <2>3, <3>3
      <3>4. CASE base = 16
        BY <2>2, <2>3, <3>4
      <3> QED
        BY <3>1, <3>2, <3>3, <3>4
    <2>5. 2^(k + 1) <= base^(k + 1)
      BY <2>4 DEF r, t
    <2> QED
      BY <2>1, <2>5
  <1>3. n \in S
    <2> HIDE DEF S
    <2> QED
      BY <1>1, <1>2, IntervalInduction
  <1> QED
    BY <1>3

\* What an argument becomes in its type has no more digits than a long has
\* bits.
LEMMA ValueBounds ==
  ASSUME PowerLaw, NEW base \in {2, 8, 10, 16}, NEW arg \in Int, NEW t \in Types
  PROVE  /\ Unsigned(arg, t) \in Nat /\ Signed(arg, t) \in Int
         /\ Magnitude(Unsigned(arg, t)) < base^Bits["long"]
         /\ Magnitude(Signed(arg, t)) < base^Bits["long"]
  <1> DEFINE p == 2^Bits[t]
             q == base^Bits["long"]
             e == 2^Bits["long"]
             u == Unsigned(arg, t)
             v == Signed(arg, t)
  <1>0. 2 \in {2, 8, 10, 16} /\ "long" \in Types
    BY DEF Types
  <1>1. Bits[t] \in Nat /\ Bits["long"] \in Nat /\ Bits[t] <= Bits["long"]
    BY <1>0, PrintfAssumption
  <1>2. p \in Int /\ q \in Int /\ e \in Int /\ p > 0 /\ p <= e /\ e <= q
    <2>1. p \in Int /\ q \in Int /\ e \in Int /\ p > 0
      BY <1>0, <1>1, PowersGrow
    <2>2. p <= e
      <3>1. CASE Bits[t] = Bits["long"]
        <4>1. p = e
          BY <3>1
        <4> HIDE DEF p, e
        <4> QED
          BY <2>1, <4>1
      <3>2. CASE Bits[t] # Bits["long"]
        <4>1. Bits[t] < Bits["long"]
          BY <1>1, <3>2
        <4>2. p < e
          BY <1>0, <1>1, <4>1, PowersGrow
        <4> HIDE DEF p, e
        <4> QED
          BY <2>1, <4>2
      <3> QED
        BY <3>1, <3>2
    <2>3. e <= q
      BY <1>1, PowersOfTwo
    <2> QED
      BY <2>1, <2>2, <2>3
  <1>3. u = arg % p /\ v = IF 2 * u < p THEN u ELSE u - p
    BY DEF Unsigned, Signed
  <1> HIDE DEF p, q, e, u, v
  <1>4. u \in 0 .. (p - 1)
    BY <1>2, <1>3
  <1>5. v \in Int /\ v < p /\ 0 - v < p
    BY <1>2, <1>3, <1>4
  <1>6. Magnitude(u) < q /\ Magnitude(v) < q
    BY <1>2, <1>4, <1>5 DEF Magnitude
  <1>7. u \in Nat
    BY <1>2, <1>4
  <1> QED
    BY <1>5, <1>6, <1>7 DEF u, v, q

\* The conversions of integers; the value that an argument has, the flags
\* that _vsnprintf and _ntoa_long go on with, and the digits.
IntegerConversions == {"d", "i", "u", "x", "X", "o", "b"}
Value(d, arg) ==
    IF d.conv \in {"d", "i"} THEN Signed(arg, d.type) ELSE Unsigned(arg, d.type)
FlagsKept(d) ==
    d.flags \ ((IF Base(d.conv) = 10 THEN {"#"} ELSE {})
                \cup (IF d.conv \in {"d", "i"} THEN {} ELSE {"+", " "})
                \cup (IF "." \in d.flags THEN {"0"} ELSE {}))
FlagsUsed(d, a) == IF a = 0 THEN FlagsKept(d) \ {"#"} ELSE FlagsKept(d)
Digits(d, a) == Numeral(a, Base(d.conv), d.conv = "X", FlagsKept(d))
DigitCount(d, a) == Cardinality({k \in 0 .. (Bits["long"] - 1) : Base(d.conv)^k <= a})

\* The prefix that C asks for.
PrefixInC(d, a, zeros) ==
    IF "#" \notin d.flags THEN <<>>
    ELSE CASE Base(d.conv) = 16 /\ a # 0 -> <<"0", d.conv>>
           [] Base(d.conv) = 2 /\ a # 0 -> <<"0", "b">>
           [] Base(d.conv) = 8 /\ zeros = <<>> -> <<"0">>
           [] OTHER -> <<>>

\* Which flags are left.
LEMMA FlagsLeft ==
  ASSUME NEW d, d.conv \in IntegerConversions, NEW a
  PROVE  LET fl == FlagsUsed(d, a)
             signed == d.conv \in {"d", "i"}
         IN /\ "-" \in fl <=> "-" \in d.flags
            /\ "." \in fl <=> "." \in d.flags
            /\ "0" \in fl <=> "0" \in d.flags /\ "." \notin d.flags
            /\ "#" \in fl <=> "#" \in d.flags /\ a # 0 /\ Base(d.conv) # 10
            /\ "+" \in fl <=> "+" \in d.flags /\ signed
            /\ " " \in fl <=> " " \in d.flags /\ signed
            /\ "." \in FlagsKept(d) <=> "." \in d.flags
            /\ signed => Base(d.conv) = 10
  <1> DEFINE fl == FlagsUsed(d, a)
             kept == FlagsKept(d)
             signed == d.conv \in {"d", "i"}
             B == Base(d.conv)
  <1>1. signed => B = 10
    BY DEF Base
  <1> HIDE DEF B
  <1>2. kept = d.flags \ ((IF B = 10 THEN {"#"} ELSE {})
                           \cup (IF signed THEN {} ELSE {"+", " "})
                           \cup (IF "." \in d.flags THEN {"0"} ELSE {}))
    BY DEF FlagsKept, B
  <1> HIDE DEF kept
  <1>3. /\ "-" \in kept <=> "-" \in d.flags
        /\ "." \in kept <=> "." \in d.flags
        /\ "0" \in kept <=> "0" \in d.flags /\ "." \notin d.flags
        /\ "#" \in kept <=> "#" \in d.flags /\ B # 10
        /\ "+" \in kept <=> "+" \in d.flags /\ signed
        /\ " " \in kept <=> " " \in d.flags /\ signed
    BY <1>2
  <1>4. fl = IF a = 0 THEN kept \ {"#"} ELSE kept
    BY DEF FlagsUsed, kept
  <1> HIDE DEF fl
  <1>5. /\ "-" \in fl <=> "-" \in kept
        /\ "." \in fl <=> "." \in kept
        /\ "0" \in fl <=> "0" \in kept
        /\ "#" \in fl <=> "#" \in kept /\ a # 0
        /\ "+" \in fl <=> "+" \in kept
        /\ " " \in fl <=> " " \in kept
    BY <1>4
  <1> QED
    BY <1>1, <1>3, <1>5 DEF fl, kept, B

\* The parts of an integer one by one.
LEMMA PartsFields ==
  ASSUME NEW d, NEW arg
  PROVE  LET p == PartsOf(d, arg)
             signed == d.conv \in {"d", "i"}
             v == IF signed THEN Signed(arg, d.type) ELSE Unsigned(arg, d.type)
             abs == IF v < 0 THEN -v ELSE v
             base == Base(d.conv)
             len == Cardinality({k \in 0 .. (Bits["long"] - 1) : base^k <= abs})
         IN /\ p.figures = [k \in 1 .. len |-> (IF d.conv = "X" THEN GLYPHS ELSE Glyphs)
                                                  [1 + ((abs \div base^(len - k)) % base)]]
            /\ p.zeros = Copies("0", (IF "." \in d.flags THEN d.prec ELSE 1) - len)
            /\ p.sign = CASE v < 0 -> <<"-">>
                          [] v >= 0 /\ signed /\ "+" \in d.flags -> <<"+">>
                          [] v >= 0 /\ signed /\ "+" \notin d.flags /\ " " \in d.flags -> <<" ">>
                          [] OTHER -> <<>>
            /\ p.prefix = IF "#" \notin d.flags THEN <<>>
                          ELSE CASE base = 16 /\ abs # 0 -> <<"0", d.conv>>
                                 [] base = 2 /\ abs # 0 -> <<"0", "b">>
                                 [] base = 8 /\ p.zeros = <<>> -> <<"0">>
                                 [] OTHER -> <<>>
  <1> DEFINE p == PartsOf(d, arg)
             signed == d.conv \in {"d", "i"}
             v == IF signed THEN Signed(arg, d.type) ELSE Unsigned(arg, d.type)
             abs == IF v < 0 THEN -v ELSE v
             base == Base(d.conv)
             len == Cardinality({k \in 0 .. (Bits["long"] - 1) : base^k <= abs})
             zeros == Copies("0", (IF "." \in d.flags THEN d.prec ELSE 1) - len)
             figures == [k \in 1 .. len |-> (IF d.conv = "X" THEN GLYPHS ELSE Glyphs)
                                               [1 + ((abs \div base^(len - k)) % base)]]
             sign == CASE v < 0 -> <<"-">>
                       [] v >= 0 /\ signed /\ "+" \in d.flags -> <<"+">>
                       [] v >= 0 /\ signed /\ "+" \notin d.flags /\ " " \in d.flags -> <<" ">>
                       [] OTHER -> <<>>
             prefix(zs) == IF "#" \notin d.flags THEN <<>>
                           ELSE CASE base = 16 /\ abs # 0 -> <<"0", d.conv>>
                                  [] base = 2 /\ abs # 0 -> <<"0", "b">>
                                  [] base = 8 /\ zs = <<>> -> <<"0">>
                                  [] OTHER -> <<>>
  <1>1. p = [figures |-> figures, zeros |-> zeros, sign |-> sign, prefix |-> prefix(zeros)]
    BY Zenon DEF PartsOf
  <1> HIDE DEF p, figures, sign, prefix, zeros
  <1>2. p.figures = figures /\ p.zeros = zeros /\ p.sign = sign /\ p.prefix = prefix(zeros)
    BY <1>1
  <1>3. p.prefix = prefix(p.zeros)
    BY <1>2
  <1> QED
    BY <1>2, <1>3, Zenon DEF p, figures, sign, prefix, zeros

\* The parts of an integer, and the call of _ntoa_format.
LEMMA PartsRead ==
  ASSUME PowerLaw, NEW d, d.conv \in IntegerConversions, d.type \in Types, NEW arg \in Int
  PROVE  LET v == Value(d, arg)
             a == Magnitude(v)
             p == PartsOf(d, arg)
             base == Base(d.conv)
         IN
         /\ v \in Int /\ a \in Nat /\ (a = 0 <=> v = 0) /\ base \in {2, 8, 10, 16}
         /\ a < base^Bits["long"] /\ (v < 0 => d.conv \in {"d", "i"})
         /\ p.figures = FiguresOf(a, base, d.conv = "X", DigitCount(d, a))
         /\ p.zeros = Copies("0", (IF "." \in d.flags THEN d.prec ELSE 1) - DigitCount(d, a))
         /\ p.sign = SignOf(v < 0, FlagsUsed(d, a))
         /\ p.prefix = PrefixInC(d, a, p.zeros)
         /\ IntegerText(d, arg) = ntoa_format(Digits(d, a), v < 0, base, d.conv = "X", d.prec,
                                              d.width, FlagsUsed(d, a))
  <1> DEFINE signed == d.conv \in {"d", "i"}
             p == PartsOf(d, arg)
             base == Base(d.conv)
             v == IF signed THEN Signed(arg, d.type) ELSE Unsigned(arg, d.type)
             a == Magnitude(v)
             abs == IF v < 0 THEN -v ELSE v
             fl == FlagsUsed(d, a)
             len == Cardinality({k \in 0 .. (Bits["long"] - 1) : base^k <= abs})
  <1>0. v = Value(d, arg)
    BY DEF Value
  <1>1. base \in {2, 8, 10, 16}
    BY DEF Base
  <1>4. /\ p.figures = [k \in 1 .. len |-> (IF d.conv = "X" THEN GLYPHS ELSE Glyphs)
                                              [1 + ((abs \div base^(len - k)) % base)]]
        /\ p.zeros = Copies("0", (IF "." \in d.flags THEN d.prec ELSE 1) - len)
        /\ p.sign = CASE v < 0 -> <<"-">>
                      [] v >= 0 /\ signed /\ "+" \in d.flags -> <<"+">>
                      [] v >= 0 /\ signed /\ "+" \notin d.flags /\ " " \in d.flags -> <<" ">>
                      [] OTHER -> <<>>
        /\ p.prefix = IF "#" \notin d.flags THEN <<>>
                      ELSE CASE base = 16 /\ abs # 0 -> <<"0", d.conv>>
                             [] base = 2 /\ abs # 0 -> <<"0", "b">>
                             [] base = 8 /\ p.zeros = <<>> -> <<"0">>
                             [] OTHER -> <<>>
    BY PartsFields
  <1>10. IntegerText(d, arg) = ntoa_format(Digits(d, a), v < 0, base, d.conv = "X", d.prec,
                                           d.width, fl)
    BY DEF IntegerText, ntoa_long, Digits, FlagsKept, FlagsUsed
  <1> HIDE DEF p
  <1>2. v \in Int /\ a < base^Bits["long"] /\ (v < 0 => signed)
    <2>1. /\ Unsigned(arg, d.type) \in Nat /\ Signed(arg, d.type) \in Int
          /\ Magnitude(Unsigned(arg, d.type)) < base^Bits["long"]
          /\ Magnitude(Signed(arg, d.type)) < base^Bits["long"]
      BY <1>1, ValueBounds
    <2>2. CASE signed
      <3>1. v = Signed(arg, d.type)
        BY <2>2
      <3> QED
        BY <2>1, <2>2, <3>1
    <2>3. CASE ~ signed
      <3>1. v = Unsigned(arg, d.type)
        BY <2>3
      <3>2. v \in Nat
        BY <2>1, <3>1
      <3>3. v \in Int /\ ~ (v < 0)
        BY <3>2
      <3> QED
        BY <2>1, <2>3, <3>1, <3>3
    <2> QED
      BY <2>2, <2>3
  <1>3. a \in Nat /\ a = abs /\ (a = 0 <=> v = 0)
    <2>1. v \in Int
      BY <1>2
    <2>2. a = IF v > 0 THEN v ELSE 0 - v
      BY DEF Magnitude
    <2> QED
      BY <2>1, <2>2
  <1> HIDE DEF v, a, base, abs, fl
  <1>5. len = DigitCount(d, a)
    BY <1>3 DEF DigitCount, base
  <1> HIDE DEF len
  <1>6. p.figures = FiguresOf(a, base, d.conv = "X", DigitCount(d, a))
    <2>1. p.figures = [k \in 1 .. len |-> (IF d.conv = "X" THEN GLYPHS ELSE Glyphs)
                                            [1 + ((abs \div base^(len - k)) % base)]]
      BY <1>4
    <2> QED
      BY <1>3, <1>5, <2>1 DEF FiguresOf
  <1>7. p.zeros = Copies("0", (IF "." \in d.flags THEN d.prec ELSE 1) - DigitCount(d, a))
    BY <1>4, <1>5
  <1>8. p.sign = SignOf(v < 0, fl)
    <2>1. p.sign = CASE v < 0 -> <<"-">>
                     [] v >= 0 /\ signed /\ "+" \in d.flags -> <<"+">>
                     [] v >= 0 /\ signed /\ "+" \notin d.flags /\ " " \in d.flags -> <<" ">>
                     [] OTHER -> <<>>
      BY <1>4
    <2>2. /\ "+" \in fl <=> "+" \in d.flags /\ signed
          /\ " " \in fl <=> " " \in d.flags /\ signed
      BY FlagsLeft DEF fl
    <2>3. v >= 0 <=> ~ (v < 0)
      BY <1>2
    <2> HIDE DEF signed
    <2>4. CASE v < 0
      BY <2>1, <2>3, <2>4 DEF SignOf
    <2>5. CASE ~ (v < 0) /\ "+" \in fl
      BY <2>1, <2>2, <2>3, <2>5 DEF SignOf
    <2>6. CASE ~ (v < 0) /\ "+" \notin fl /\ " " \in fl
      BY <2>1, <2>2, <2>3, <2>6 DEF SignOf
    <2>7. CASE ~ (v < 0) /\ "+" \notin fl /\ " " \notin fl
      BY <2>1, <2>2, <2>3, <2>7 DEF SignOf
    <2> QED
      BY <2>4, <2>5, <2>6, <2>7
  <1>9. p.prefix = PrefixInC(d, a, p.zeros)
    BY <1>3, <1>4 DEF PrefixInC, base
  <1> QED
    BY <1>0, <1>1, <1>2, <1>3, <1>6, <1>7, <1>8, <1>9, <1>10 DEF fl, a, base, p

\* The figures are as many characters.
LEMMA FiguresSeq ==
  ASSUME PowerLaw, NEW a \in Nat, NEW base \in {2, 8, 10, 16}, NEW upper, NEW m \in Nat
  PROVE  FiguresOf(a, base, upper, m) \in Seq(Plain) /\ Len(FiguresOf(a, base, upper, m)) = m
  <1> DEFINE G == IF upper THEN GLYPHS ELSE Glyphs
             g == FiguresOf(a, base, upper, m)
  <1>1. ASSUME NEW k \in 1 .. m PROVE G[1 + ((a \div base^(m - k)) % base)] \in Plain
    <2> DEFINE b == base^(m - k)
               e == a \div b
               r == e % base
    <2>1. b \in Int /\ b > 0
      <3>1. m - k \in Nat
        OBVIOUS
      <3> QED
        BY <3>1, PowersGrow
    <2> HIDE DEF b
    <2>2. e \in Int
      BY <2>1
    <2> HIDE DEF e
    <2>3. r \in 0 .. (base - 1)
      BY <2>2
    <2> HIDE DEF r
    <2>4. 1 + r \in 1 .. 16
      BY <2>3
    <2>5. G[1 + r] \in Plain
      BY <2>4, GlyphsPlain
    <2> QED
      BY <2>5 DEF r, e, b
  <1>2. g = [k \in 1 .. m |-> G[1 + ((a \div base^(m - k)) % base)]]
    BY DEF FiguresOf
  <1>3. g \in [1 .. m -> Plain]
    BY <1>1, <1>2
  <1> HIDE DEF g
  <1>4. g \in Seq(Plain)
    BY <1>3
  <1>5. Len(g) = m
    BY <1>3
  <1> QED
    BY <1>4, <1>5 DEF g

\* The empty sequence and a single character from their end.
LEMMA ReverseShort ==
  Reverse(<<>>) = <<>> /\ Reverse(<<"0">>) = <<"0">>
  <1>1. <<>> \in Seq(Plain) /\ Len(<<>>) = 0
    BY EmptySeq
  <1>2. Reverse(<<>>) = <<>>
    <2>1. Reverse(<<>>) \in Seq(Plain) /\ Len(Reverse(<<>>)) = 0
      BY <1>1, ReverseReads
    <2> QED
      BY <2>1, EmptySeq
  <1>3. Reverse(<<"0">>) = <<"0">>
    <2> DEFINE t == <<"0">>
               r == Reverse(t)
    <2>1. t \in Seq(Plain) /\ Len(t) = 1
      BY DEF Plain
    <2> HIDE DEF t
    <2>2. /\ r \in Seq(Plain) /\ Len(r) = Len(t)
          /\ \A k \in 1 .. Len(t) : r[k] = t[(Len(t) - k) + 1]
      BY <2>1, ReverseReads
    <2> HIDE DEF r
    <2>3. \A k \in 1 .. Len(r) : r[k] = t[k]
      <3> SUFFICES ASSUME NEW k \in 1 .. Len(r) PROVE r[k] = t[k]
        OBVIOUS
      <3>1. k = 1 /\ k \in 1 .. Len(t) /\ (Len(t) - k) + 1 = 1
        BY <2>1, <2>2
      <3> QED
        BY <2>2, <3>1
    <2>4. r = t
      BY <2>1, <2>2, <2>3, SeqEqual
    <2> QED
      BY <2>4 DEF r, t
  <1> QED
    BY <1>2, <1>3

\* The digits of _ntoa_long with the zeros of the precision are the figures
\* of C.
LEMMA FiguresAgree ==
  ASSUME PowerLaw, NEW d, d.conv \in IntegerConversions, d.prec \in Nat,
         "." \notin d.flags => d.prec = 0,
         NEW a \in Nat, a < Base(d.conv)^Bits["long"], DigitCount(d, a) <= NTOA
  PROVE  LET len == DigitCount(d, a)
         IN /\ Digits(d, a) \in Seq(Plain)
            /\ Figures(Digits(d, a), d.prec) =
                  Copies("0", (IF "." \in d.flags THEN d.prec ELSE 1) - len)
                     \o FiguresOf(a, Base(d.conv), d.conv = "X", len)
            /\ "." \in d.flags => Len(Digits(d, a)) = len
  <1> DEFINE len == DigitCount(d, a)
             base == Base(d.conv)
             upper == d.conv = "X"
             kept == FlagsKept(d)
             B == Bits["long"]
             dg == Digits(d, a)
             fg == FiguresOf(a, base, upper, len)
             dot == "." \in d.flags
             zs == Copies("0", (IF dot THEN d.prec ELSE 1) - len)
  <1>1. base \in {2, 8, 10, 16} /\ upper \in BOOLEAN /\ B \in Nat /\ NTOA \in Nat
    BY PrintfAssumption DEF Base, Types
  <1>2. dg = Numeral(a, base, upper, kept)
    BY DEF Digits
  <1>3. "." \in kept <=> dot
    BY FlagsLeft
  <1>4. len = Cardinality({k \in 0 .. (B - 1) : base^k <= a})
    BY DEF DigitCount
  <1>5. dg \in Seq(Plain)
    <2>1. Plain \subseteq Plain
      OBVIOUS
    <2> HIDE DEF base, upper, kept, dg
    <2> QED
      BY <1>1, <1>2, <2>1, NumeralSeq
  <1>6. Figures(dg, d.prec) = Copies("0", d.prec - Len(dg)) \o Reverse(dg)
    BY DEF Figures
  <1>7. "0" \in Plain /\ <<"0">> \in Seq(Plain) /\ <<>> \in Seq(Plain)
    BY EmptySeq DEF Plain
  <1>a. a < base^B /\ len <= NTOA
    OBVIOUS
  <1> HIDE DEF base, upper, kept, dg, len, B
  <1>8. CASE a = 0
    <2>1. len = 0
      BY <1>1, <1>4, <1>8, NoDigits
    <2>2. fg = <<>>
      <3>1. len \in Nat
        BY <2>1
      <3>2. fg \in Seq(Plain) /\ Len(fg) = len
        <4>1. base \in {2, 8, 10, 16}
          BY <1>1
        <4> QED
          BY <3>1, <4>1, FiguresSeq
      <3> QED
        BY <2>1, <3>2, EmptySeq
    <2>3. CASE dot
      <3>1. dg = <<>>
        BY <1>1, <1>2, <1>3, <1>8, <2>3, ZeroRead
      <3>2. Len(dg) = 0
        BY <3>1
      <3>3. Figures(dg, d.prec) = Copies("0", d.prec - 0) \o <<>>
        BY <1>6, <3>1, <3>2, ReverseShort
      <3>4. zs = Copies("0", d.prec - 0)
        BY <2>1, <2>3
      <3> QED
        BY <1>5, <2>1, <2>2, <3>2, <3>3, <3>4 DEF len, dg, base, upper
    <2>4. CASE ~ dot
      <3>1. dg = <<"0">> /\ d.prec = 0
        BY <1>1, <1>2, <1>3, <1>8, <2>4, ZeroRead
      <3>2. Len(dg) = 1 /\ Reverse(dg) = <<"0">>
        BY <3>1, ReverseShort
      <3>3. Copies("0", 0 - 1) = <<>>
        <4>1. 0 - 1 \in Int /\ 0 - 1 <= 0
          OBVIOUS
        <4> QED
          BY <1>7, <4>1, CopiesLength
      <3>4. Figures(dg, d.prec) = <<"0">>
        <4>1. Figures(dg, d.prec) = <<>> \o <<"0">>
          BY <1>6, <3>1, <3>2, <3>3
        <4> QED
          BY <1>7, <4>1, ConcatEmptySeq
      <3>5. zs = <<"0">>
        <4>1. (IF dot THEN d.prec ELSE 1) - len = 1
          BY <2>1, <2>4
        <4> QED
          BY <4>1, OneCopy
      <3>6. zs \o fg = <<"0">>
        BY <1>7, <2>2, <3>5, ConcatEmptySeq
      <3> QED
        BY <1>5, <2>4, <3>4, <3>6 DEF len, dg, base, upper
    <2> QED
      BY <2>3, <2>4
  <1>9. CASE a # 0
    <2>1. a > 0
      BY <1>9
    <2>2. len \in 1 .. B /\ a < base^len /\ base^(len - 1) <= a
      BY <1>1, <1>4, <1>a, <2>1, DigitsNeeded
    <2>3. len \in 1 .. NTOA
      BY <1>1, <1>a, <2>2
    <2>4. Len(dg) = len /\ Reverse(dg) = fg
      BY <1>1, <1>2, <2>1, <2>2, <2>3, NumeralRead
    <2>5. Figures(dg, d.prec) = Copies("0", d.prec - len) \o fg
      BY <1>6, <2>4
    <2>6. Copies("0", d.prec - len) = zs
      <3>1. CASE dot
        BY <3>1
      <3>2. CASE ~ dot
        <4> DEFINE m == 0 - len
                   n == 1 - len
        <4>1. m \in Int /\ n \in Int /\ m <= 0 /\ n <= 0
          BY <1>1, <2>3
        <4>2. d.prec - len = m /\ (IF dot THEN d.prec ELSE 1) - len = n
          BY <3>2
        <4> HIDE DEF m, n
        <4>3. Copies("0", m) = <<>> /\ Copies("0", n) = <<>>
          BY <1>7, <4>1, CopiesLength
        <4> QED
          BY <4>2, <4>3
      <3> QED
        BY <3>1, <3>2
    <2> QED
      BY <1>5, <2>4, <2>5, <2>6 DEF len, dg, base, upper
  <1> QED
    BY <1>8, <1>9

\* The prefix is that of C.
LEMMA PrefixAgrees ==
  ASSUME NEW d, d.conv \in IntegerConversions, NEW a, NEW zeros,
         "#" \in d.flags /\ d.conv = "o" => (zeros = <<>> <=> a # 0)
  PROVE  /\ BasePrefix(Base(d.conv), d.conv = "X", FlagsUsed(d, a)) = PrefixInC(d, a, zeros)
         /\ "#" \in FlagsUsed(d, a) => PrefixInC(d, a, zeros) # <<>>
  <1> DEFINE base == Base(d.conv)
             prefix == PrefixInC(d, a, zeros)
             fl == FlagsUsed(d, a)
             px == BasePrefix(base, d.conv = "X", fl)
  <1>1. "#" \in fl <=> "#" \in d.flags /\ a # 0 /\ base # 10
    BY FlagsLeft
  <1>2. /\ base \in {2, 8, 10, 16} /\ (base = 16 => d.conv \in {"x", "X"})
        /\ base = 8 => d.conv = "o"
    BY DEF Base
  <1>0. prefix = IF "#" \notin d.flags THEN <<>>
                 ELSE CASE base = 16 /\ a # 0 -> <<"0", d.conv>>
                        [] base = 2 /\ a # 0 -> <<"0", "b">>
                        [] base = 8 /\ zeros = <<>> -> <<"0">>
                        [] OTHER -> <<>>
    BY DEF PrefixInC
  <1> HIDE DEF fl, prefix, base
  <1>3. \A c : <<"0", c>> # <<>> /\ <<c>> # <<>>
    OBVIOUS
  <1>4. CASE "#" \notin fl
    <2>1. px = <<>>
      BY <1>4 DEF BasePrefix
    <2>2. prefix = <<>>
      <3>1. CASE "#" \notin d.flags
        BY <1>0, <3>1
      <3>2. CASE "#" \in d.flags /\ a # 0
        <4>1. base = 10
          BY <1>1, <1>4, <3>2
        <4> QED
          BY <1>0, <3>2, <4>1
      <3>3. CASE "#" \in d.flags /\ a = 0
        <4>1. base = 8 => zeros # <<>>
          BY <1>2, <3>3
        <4> QED
          BY <1>0, <3>3, <4>1
      <3> QED
        BY <3>1, <3>2, <3>3
    <2> QED
      BY <1>4, <2>1, <2>2 DEF fl, prefix, base
  <1>5. CASE "#" \in fl
    <2>0. "#" \in d.flags /\ a # 0 /\ base # 10
      BY <1>1, <1>5
    <2>1. CASE base = 16
      <3>1. prefix = <<"0", d.conv>>
        BY <1>0, <2>0, <2>1
      <3>2. (IF d.conv = "X" THEN "X" ELSE "x") = d.conv
        BY <1>2, <2>1
      <3>3. px = <<"0", d.conv>>
        BY <1>5, <2>1, <3>2 DEF BasePrefix
      <3> QED
        BY <1>3, <3>1, <3>3 DEF fl, prefix, base
    <2>2. CASE base = 2
      <3>1. prefix = <<"0", "b">>
        BY <1>0, <2>0, <2>2
      <3>2. px = <<"0", "b">>
        BY <1>5, <2>2 DEF BasePrefix
      <3> QED
        BY <1>3, <3>1, <3>2 DEF fl, prefix, base
    <2>3. CASE base = 8
      <3>1. zeros = <<>>
        BY <1>2, <2>0, <2>3
      <3>2. prefix = <<"0">>
        BY <1>0, <2>0, <2>3, <3>1
      <3>3. px = <<"0">>
        BY <1>5, <2>3 DEF BasePrefix
      <3> QED
        BY <1>3, <3>2, <3>3 DEF fl, prefix, base
    <2> QED
      BY <1>2, <2>0, <2>1, <2>2, <2>3
  <1> QED
    BY <1>4, <1>5

\* Where a directive is Standard, its number fits.
LEMMA StandardFits ==
  ASSUME NEW d, d.conv \in IntegerConversions, d.prec \in Nat, d.width \in Nat,
         "." \notin d.flags => d.prec = 0, NEW p, Standard(d, p), NEW a, NEW negative \in BOOLEAN,
         negative => d.conv \in {"d", "i"},
         p.sign = SignOf(negative, FlagsUsed(d, a)),
         p.prefix = BasePrefix(Base(d.conv), d.conv = "X", FlagsUsed(d, a)),
         "#" \in FlagsUsed(d, a) => p.prefix # <<>>,
         NEW nm \in Seq(Plain), nm = p.zeros \o p.figures
  PROVE  Fits(FlagsUsed(d, a), d.width, d.prec, Len(p.sign), Len(p.prefix), Len(nm), NTOA)
  <1> DEFINE fl == FlagsUsed(d, a)
             signed == d.conv \in {"d", "i"}
             base == Base(d.conv)
             sg == p.sign
             px == p.prefix
             m == Len(nm)
  <1>1. /\ "-" \in fl <=> "-" \in d.flags
        /\ "." \in fl <=> "." \in d.flags
        /\ "0" \in fl <=> "0" \in d.flags /\ "." \notin d.flags
        /\ "#" \in fl <=> "#" \in d.flags /\ a # 0 /\ base # 10
        /\ "+" \in fl <=> "+" \in d.flags /\ signed
        /\ " " \in fl <=> " " \in d.flags /\ signed
        /\ signed => base = 10
    BY FlagsLeft
  <1>2. /\ Len(sg \o px) + m <= NTOA
        /\ "0" \in d.flags /\ "." \notin d.flags /\ "-" \notin d.flags => d.width <= NTOA
        /\ "#" \in d.flags /\ px # <<>> =>
             \/ "." \in d.flags
             \/ d.width < m
             \/ d.width > m /\ ("0" \notin d.flags \/ "-" \in d.flags)
    BY DEF Standard
  <1>3. /\ sg \in Seq(Plain) /\ px \in Seq(Plain) /\ Len(px) \in 0 .. 2
        /\ Len(sg) = (IF negative \/ {"+", " "} \cap fl # {} THEN 1 ELSE 0)
        /\ "#" \notin fl => Len(px) = 0
    <2> DEFINE upper == d.conv = "X"
    <2>1. sg = SignOf(negative, fl) /\ px = BasePrefix(base, upper, fl)
      OBVIOUS
    <2> HIDE DEF sg, px, fl, base, upper
    <2>2. /\ SignOf(negative, fl) \in Seq(Plain) /\ BasePrefix(base, upper, fl) \in Seq(Plain)
          /\ Len(BasePrefix(base, upper, fl)) \in 0 .. 2
          /\ Len(SignOf(negative, fl)) =
               (IF negative \/ {"+", " "} \cap fl # {} THEN 1 ELSE 0)
          /\ "#" \notin fl => Len(BasePrefix(base, upper, fl)) = 0
      BY FrontShape
    <2> QED
      BY <2>1, <2>2
  <1>4. "#" \in fl => px # <<>>
    OBVIOUS
  <1> HIDE DEF fl, base, sg, px
  <1>5. "#" \in fl => Len(sg) = 0
    <2> SUFFICES ASSUME "#" \in fl PROVE Len(sg) = 0
      OBVIOUS
    <2>1. ~ signed
      BY <1>1
    <2>2. ~ negative /\ "+" \notin fl /\ " " \notin fl
      BY <1>1, <2>1
    <2>3. ~ (negative \/ {"+", " "} \cap fl # {})
      BY <2>2
    <2> QED
      BY <1>3, <2>3
  <1>6. Len(sg) \in 0 .. 1 /\ m \in Nat /\ NTOA \in Nat
    <2>1. m \in Nat
      BY LenProperties
    <2>2. Len(sg) = 0 \/ Len(sg) = 1
      BY <1>3
    <2>3. Len(sg) \in 0 .. 1
      BY <2>2
    <2>4. NTOA \in Nat
      BY PrintfAssumption
    <2> QED
      BY <2>1, <2>3, <2>4
  <1>7. (Len(sg) + Len(px)) + m <= NTOA
    <2>1. Len(sg \o px) = Len(sg) + Len(px)
      BY <1>3, ConcatProperties
    <2> QED
      BY <1>2, <2>1
  <1>8. Fits(fl, d.width, d.prec, Len(sg), Len(px), m, NTOA)
    <2> HIDE DEF m
    <2>1. "0" \in fl /\ "-" \notin fl => d.width <= NTOA
      BY <1>1, <1>2
    <2>2. "#" \in fl => \/ "." \in fl
                        \/ d.width < m
                        \/ d.width > m /\ ("0" \notin fl \/ "-" \in fl)
      BY <1>1, <1>2, <1>4
    <2>3. ("." \notin fl => d.prec = 0) /\ ("." \in fl => "0" \notin fl)
      BY <1>1
    <2> QED
      BY <1>3, <1>5, <1>6, <1>7, <2>1, <2>2, <2>3 DEF Fits
  <1> QED
    BY <1>8 DEF fl, sg, px

\* An integer comes out as C defines it where its directive is Standard.
LEMMA IntegerAsInC ==
  ASSUME PowerLaw, NEW d, d.conv \in IntegerConversions, d.type \in Types, d.prec \in Nat,
         d.width \in Nat, "." \notin d.flags => d.prec = 0, NEW arg \in Int,
         Standard(d, PartsOf(d, arg))
  PROVE  IntegerText(d, arg) = Reference(d, PartsOf(d, arg))
  <1> DEFINE v == Value(d, arg)
             a == Magnitude(v)
             p == PartsOf(d, arg)
             base == Base(d.conv)
             upper == d.conv = "X"
             len == DigitCount(d, a)
             fl == FlagsUsed(d, a)
             dg == Digits(d, a)
             zs == p.zeros
             fg == p.figures
             nm == zs \o fg
             neg == v < 0
  <1>1. /\ v \in Int /\ a \in Nat /\ base \in {2, 8, 10, 16}
        /\ a < base^Bits["long"] /\ (neg => d.conv \in {"d", "i"})
        /\ fg = FiguresOf(a, base, upper, len)
        /\ zs = Copies("0", (IF "." \in d.flags THEN d.prec ELSE 1) - len)
        /\ p.sign = SignOf(neg, fl)
        /\ p.prefix = PrefixInC(d, a, zs)
        /\ IntegerText(d, arg) = ntoa_format(dg, neg, base, upper, d.prec, d.width, fl)
    BY PartsRead
  <1>2. Standard(d, p)
    OBVIOUS
  <1>3. base = Base(d.conv) /\ upper \in BOOLEAN /\ neg \in BOOLEAN
    OBVIOUS
  <1> HIDE DEF v, a, p, base, neg
  <1>4. /\ Len(p.sign \o p.prefix) + Len(nm) <= NTOA
        /\ "-" \in d.flags /\ "." \in d.flags => zs = <<>>
        /\ "#" \in d.flags /\ d.conv = "o" => (zs = <<>> <=> fg # <<>>)
    BY <1>2 DEF Standard
  <1>b. fg = <<>> <=> a = 0
    <2> DEFINE B == Bits["long"]
    <2>0. B \in Nat /\ len = Cardinality({k \in 0 .. (B - 1) : base^k <= a})
      BY <1>3, PrintfAssumption DEF DigitCount, Types
    <2>1. a = 0 => len = 0
      <3> HIDE DEF B
      <3> QED
        BY <1>1, <2>0, NoDigits
    <2>2. a # 0 => len \in 1 .. B
      <3>1. a < base^B /\ (a # 0 => a > 0)
        BY <1>1
      <3> HIDE DEF B
      <3> QED
        BY <1>1, <2>0, <3>1, DigitsNeeded
    <2> HIDE DEF len, B
    <2>3. len \in Nat
      BY <2>0, <2>1, <2>2
    <2>4. fg \in Seq(Plain) /\ Len(fg) = len
      <3> HIDE DEF fg, upper
      <3> QED
        BY <1>1, <2>3, FiguresSeq
    <2> HIDE DEF fg
    <2>5. fg = <<>> <=> len = 0
      BY <2>4, EmptySeq
    <2> QED
      BY <2>0, <2>1, <2>2, <2>5
  <1>5. BasePrefix(base, upper, fl) = p.prefix /\ ("#" \in fl => p.prefix # <<>>)
    <2>1. /\ BasePrefix(Base(d.conv), d.conv = "X", FlagsUsed(d, a)) = PrefixInC(d, a, zs)
          /\ "#" \in FlagsUsed(d, a) => PrefixInC(d, a, zs) # <<>>
      BY <1>4, <1>b, PrefixAgrees
    <2> HIDE DEF zs
    <2> QED
      BY <1>1, <1>3, <2>1
  <1>6. /\ "-" \in fl <=> "-" \in d.flags
        /\ "0" \in fl <=> "0" \in d.flags /\ "." \notin d.flags
    BY FlagsLeft
  <1>7. p.sign \in Seq(Plain) /\ p.prefix \in Seq(Plain)
    <2>1. SignOf(neg, fl) \in Seq(Plain) /\ BasePrefix(base, upper, fl) \in Seq(Plain)
      <3> HIDE DEF fl, upper
      <3> QED
        BY FrontShape
    <2> QED
      BY <1>1, <1>5, <2>1
  <1>8. len \in Nat /\ "0" \in Plain
    <2> DEFINE B == Bits["long"]
               S == {k \in 0 .. (B - 1) : base^k <= a}
    <2>1. B \in Nat /\ S \in SUBSET (0 .. (B - 1))
      BY PrintfAssumption DEF Types
    <2>2. len = Cardinality(S)
      BY <1>3 DEF DigitCount
    <2> HIDE DEF S, B
    <2>3. Cardinality(S) \in 0 .. B
      BY <2>1, BoundedSet
    <2> QED
      BY <2>1, <2>2, <2>3 DEF Plain
  <1> HIDE DEF len, upper, fl, dg
  <1>9. fg \in Seq(Plain) /\ Len(fg) = len
    BY <1>1, <1>8, FiguresSeq
  <1>10. zs \in Seq(Plain)
    <2> DEFINE q == (IF "." \in d.flags THEN d.prec ELSE 1) - len
    <2>1. q \in Int
      BY <1>8
    <2> HIDE DEF q
    <2>2. Copies("0", q) \in Seq(Plain)
      BY <1>8, <2>1, CopiesSeq
    <2> QED
      BY <1>1, <2>2 DEF q
  <1> HIDE DEF zs, fg
  <1>11. nm \in Seq(Plain) /\ Len(nm) = Len(zs) + len
    BY <1>9, <1>10, ConcatProperties
  <1>12. len <= NTOA
    <2>1. p.sign \o p.prefix \in Seq(Plain)
      BY <1>7, ConcatProperties
    <2> DEFINE x == Len(p.sign \o p.prefix)
               y == Len(zs)
               z == Len(nm)
    <2>2. x \in Nat /\ y \in Nat
      BY <1>10, <2>1, LenProperties
    <2>3. x + z <= NTOA /\ z = y + len /\ NTOA \in Nat
      BY <1>4, <1>11, PrintfAssumption
    <2> HIDE DEF x, y, z
    <2> QED
      BY <1>8, <2>2, <2>3
  <1>13. /\ dg \in Seq(Plain) /\ Figures(dg, d.prec) = nm
         /\ "." \in d.flags => Len(dg) = len
    <2>1. a < Base(d.conv)^Bits["long"] /\ DigitCount(d, a) <= NTOA
      BY <1>1, <1>3, <1>12 DEF len
    <2>2. /\ Digits(d, a) \in Seq(Plain)
          /\ Figures(Digits(d, a), d.prec) =
                  Copies("0", (IF "." \in d.flags THEN d.prec ELSE 1) - DigitCount(d, a))
                     \o FiguresOf(a, Base(d.conv), d.conv = "X", DigitCount(d, a))
          /\ "." \in d.flags => Len(Digits(d, a)) = DigitCount(d, a)
      BY <1>1, <2>1, FiguresAgree
    <2> QED
      BY <1>1, <1>3, <2>2 DEF len, dg, upper
  <1> HIDE DEF nm
  <1>14. Fits(fl, d.width, d.prec, Len(p.sign), Len(p.prefix), Len(nm), NTOA)
    BY <1>1, <1>2, <1>3, <1>5, <1>11, StandardFits DEF fl, upper, nm, zs, fg
  <1>15. "-" \in fl => d.prec <= Len(dg)
    <2> SUFFICES ASSUME "-" \in fl PROVE d.prec <= Len(dg)
      OBVIOUS
    <2>1. Len(dg) \in Nat
      BY <1>13, LenProperties
    <2>2. CASE "." \in d.flags
      <3> DEFINE q == d.prec - len
      <3>1. Copies("0", q) = <<>>
        BY <1>1, <1>4, <1>6, <2>2
      <3>2. q \in Int
        BY <1>8
      <3> HIDE DEF q
      <3>3. Len(Copies("0", q)) = IF q > 0 THEN q ELSE 0
        BY <1>8, <3>2, CopiesLength
      <3>4. ~ (q > 0)
        <4>1. Len(Copies("0", q)) = 0
          BY <3>1
        <4> QED
          BY <3>2, <3>3, <4>1
      <3>5. d.prec <= len
        BY <1>8, <3>2, <3>4 DEF q
      <3> QED
        BY <1>13, <2>2, <3>5
    <2>3. CASE "." \notin d.flags
      BY <2>1, <2>3
    <2> QED
      BY <2>2, <2>3
  <1>16. NumberFits(dg, neg, base, upper, d.prec, d.width, fl, p.sign, p.prefix, nm)
    BY <1>1, <1>3, <1>5, <1>13, <1>14, <1>15 DEF NumberFits, upper
  <1>17. IntegerText(d, arg) = Laid(p.sign \o p.prefix, nm, d.width, fl)
    <2>1. ntoa_format(dg, neg, base, upper, d.prec, d.width, fl) =
             Laid(p.sign \o p.prefix, nm, d.width, fl)
      BY <1>16, NumberFormatted
    <2> QED
      BY <1>1, <2>1
  <1>18. Reference(d, p) = Laid(p.sign \o p.prefix, nm, d.width, fl)
    <2> DEFINE front == p.sign \o p.prefix
               number == p.zeros \o p.figures
               rest == d.width - Len(front \o number)
    <2>1. number = nm
      BY DEF nm, zs, fg
    <2>2. Reference(d, p) =
             IF "-" \in d.flags THEN front \o number \o Copies(" ", rest)
             ELSE IF "0" \in d.flags /\ "." \notin d.flags
                  THEN front \o Copies("0", rest) \o number
             ELSE Copies(" ", rest) \o front \o number
      BY DEF Reference
    <2>3. Laid(front, number, d.width, fl) =
             IF "-" \in fl THEN front \o number \o Copies(" ", rest)
             ELSE IF "0" \in fl THEN front \o Copies("0", rest) \o number
             ELSE Copies(" ", rest) \o front \o number
      BY DEF Laid
    <2> HIDE DEF rest, front, number
    <2>4. Reference(d, p) = Laid(front, number, d.width, fl)
      <3>1. CASE "-" \in fl
        BY <1>6, <2>2, <2>3, <3>1
      <3>2. CASE "-" \notin fl /\ "0" \in fl
        BY <1>6, <2>2, <2>3, <3>2
      <3>3. CASE "-" \notin fl /\ "0" \notin fl
        BY <1>6, <2>2, <2>3, <3>3
      <3> QED
        BY <3>1, <3>2, <3>3
    <2> QED
      BY <2>1, <2>4 DEF front
  <1> QED
    BY <1>17, <1>18 DEF p

\* So does the one that the loop of _vsnprintf has reached.
LEMMA HereAsInC ==
  ASSUME PowerLaw, NEW A, NUL \notin A, \A c \in Calls : c.format \in Seq(A),
         TextInv(A), ArgumentsFit(A)
  PROVE  IntegersAsInC
  <1> DEFINE s == call.format
             v == Head(D.va)
  <1> SUFFICES ASSUME pc = "run", Here = "%", D.conv \in {"d", "i", "u", "x", "X", "o", "b"},
                      Standard(D, PartsOf(D, v))
               PROVE  IntegerText(D, v) = Reference(D, PartsOf(D, v))
    BY DEF IntegersAsInC
  <1>1. s \in Seq(A) /\ f \in 1 .. (Len(s) + 1) /\ Len(s) \in Nat
    BY LenProperties DEF TextInv
  <1>2. f \in 1 .. Len(s)
    <2>1. f \in Int /\ At(s, f) # NUL
      BY <1>1 DEF Here, NUL
    <2> HIDE DEF s
    <2> QED
      BY <1>1, <2>1, AtString
  <1>3. StarsFit(s, f, va) /\ v \in Int
    BY DEF ArgumentsFit
  <1>4. D = Directive(s, f, va)
    BY DEF D
  <1>5. /\ D.width \in Nat /\ D.prec \in Nat /\ D.type \in Types
        /\ "." \notin D.flags => D.prec = 0
    <2> HIDE DEF s
    <2> QED
      BY <1>1, <1>2, <1>3, <1>4, DirectiveRead
  <1>6. D.conv \in IntegerConversions
    BY DEF IntegerConversions
  <1> HIDE DEF v
  <1> QED
    BY <1>3, <1>5, <1>6, IntegerAsInC

\* Whatever calls are made, with formats over the characters A and
\* arguments of the types that the formats name, every integer of a standard
\* directive is written as C defines it: for all values, widths, precisions
\* and sets of flags, and however wide the integer types are.
THEOREM IntegersMatchC ==
  ASSUME PowerLaw, NEW A, NUL \notin A, Plain \subseteq A,
         \A c \in Calls : c.format \in Seq(A)
  PROVE  PrintfSpec /\ []ArgumentsFit(A) => []IntegersAsInC
  <1>1. PrintfInit => TextInv(A)
    BY TextInit
  <1>2. TextInv(A) /\ ArgumentsFit(A) /\ [PrintfNext]_printfVars => TextInv(A)'
    BY TextStep
  <1>3. TextInv(A) /\ ArgumentsFit(A) => IntegersAsInC
    BY HereAsInC
  <1> QED
    BY <1>1, <1>2, <1>3, PTL DEF PrintfSpec
=============================================================================
