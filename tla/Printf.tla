------------------------------- MODULE Printf -------------------------------
(***************************************************************************)
(* vsnprintf and its relatives (libk/kprintf/kprintf.c): one action per    *)
(* turn of the loop over the format string.                                *)
(*                                                                         *)
(* Strings are sequences of one-character strings without their            *)
(* terminator; reading one past the end gives NUL.  The output buffer is   *)
(* indexed from 0 and starts out full of Untouched.  The floating-point    *)
(* conversions are not compiled in (GENA_USE_SSE and SSE_SUPPORT are       *)
(* undefined): their letters are unknown ones.                             *)
(***************************************************************************)
EXTENDS Integers, Sequences, FiniteSets, SequencesExt, FiniteSetsExt

CONSTANTS
    Calls,      \* the calls that are made
    NTOA,       \* PRINTF_NTOA_BUFFER_SIZE (32)
    Bits,       \* the widths of the integer types
    SIZE_MAX,   \* (size_t)-1
    OUT         \* how many cells of the output buffer are followed

Types == {"char", "short", "int", "long"}
Digit == {"0", "1", "2", "3", "4", "5", "6", "7", "8", "9"}
Sinks == {"buffer", "null", "fct"}

ASSUME PrintfAssumption ==
    /\ NTOA \in Nat \ {0} /\ OUT \in Nat /\ SIZE_MAX \in Nat
    /\ Bits \in [Types -> Nat \ {0}]
    /\ \A c \in Calls : c.count \in 0 .. SIZE_MAX /\ c.sink \in Sinks
    /\ \A t \in Types : Bits[t] <= Bits["long"]

VARIABLES
    call,       \* the call: format, args, count and where the output goes
    f,          \* the position in the format
    va,         \* the arguments not yet taken
    idx,        \* the characters produced so far
    buffer,     \* the output buffer, or what the output function has got
    text,       \* the characters produced, whether stored or not
    pc          \* "run", "done", or "overread" beyond the format's end

printfVars == <<call, f, va, idx, buffer, text, pc>>

NUL == "nul"
Untouched == "?"

At(s, j) == IF j \in DOMAIN s THEN s[j] ELSE NUL
Copies(c, n) == [j \in 1 .. n |-> c]

-----------------------------------------------------------------------------
(* Reading a directive.                                                    *)

\* The first position from j on that holds none of the characters C.
Past(s, j, C) == CHOOSE q \in j .. (Len(s) + 1) :
    At(s, q) \notin C /\ \A r \in j .. (q - 1) : s[r] \in C

Glyphs == <<"0", "1", "2", "3", "4", "5", "6", "7", "8", "9",
            "a", "b", "c", "d", "e", "f">>
GLYPHS == <<"0", "1", "2", "3", "4", "5", "6", "7", "8", "9",
            "A", "B", "C", "D", "E", "F">>
ValueOf(c) == (CHOOSE j \in DOMAIN Glyphs : Glyphs[j] = c) - 1

\* The decimal number at position j, an unsigned int; 0 if there is none.
atoi(s, j) ==
    FoldLeft(LAMBDA n, c : (10 * n + ValueOf(c)) % 2^Bits["int"], 0,
             SubSeq(s, j, Past(s, j, Digit) - 1))

\* Width or precision at position j: a number, or * for an int argument.
Field(s, j, args) ==
    IF At(s, j) = "*" THEN [n |-> Head(args), next |-> j + 1, va |-> Tail(args)]
    ELSE [n |-> atoi(s, j), next |-> Past(s, j, Digit), va |-> args]

\* The type that the length field at j stands for, and where it ends.
Length(s, j) ==
    CASE At(s, j) = "l" -> [type |-> "long", next |-> IF At(s, j + 1) = "l" THEN j + 2 ELSE j + 1]
      [] At(s, j) = "h" -> IF At(s, j + 1) = "h" THEN [type |-> "char", next |-> j + 2]
                                                 ELSE [type |-> "short", next |-> j + 1]
      [] At(s, j) \in {"t", "j", "z"} -> [type |-> "long", next |-> j + 1]
      [] OTHER -> [type |-> "int", next |-> j]

\* The directive whose % is at j: the flags are kept as their characters,
\* "." stands for FLAGS_PRECISION.  A negative precision counts as 0, which
\* is not what C says of it; ignored tells that there was one.
Directive(s, j, args) ==
    LET a == Past(s, j + 1, {"0", "-", "+", " ", "#"})
        w == Field(s, a, args)
        dot == At(s, w.next) = "."
        p == IF dot THEN Field(s, w.next + 1, w.va)
                    ELSE [n |-> 0, next |-> w.next, va |-> w.va]
        l == Length(s, p.next)
    IN [flags |-> {s[q] : q \in (j + 1) .. (a - 1)}
                    \cup (IF w.n < 0 THEN {"-"} ELSE {})
                    \cup (IF dot THEN {"."} ELSE {}),
        width |-> IF w.n < 0 THEN -w.n ELSE w.n,
        prec |-> IF p.n > 0 THEN p.n ELSE 0, ignored |-> p.n < 0,
        type |-> l.type, conv |-> At(s, l.next), next |-> l.next + 1, va |-> p.va]

-----------------------------------------------------------------------------
(* Numbers.  The digits of a number are collected in buf, lowest first,    *)
(* followed by the prefix and the sign; buf holds NTOA characters.         *)

Put(buf, c) == IF Len(buf) < NTOA THEN Append(buf, c) ELSE buf
FillTo(buf, n) ==
    buf \o Copies("0", (IF n < NTOA THEN n ELSE NTOA) - Len(buf))

\* buf reversed, with spaces up to the width; no spaces in front of a number
\* that is padded with zeros.
out_rev(buf, width, flags) ==
    LET pad == Copies(" ", width - Len(buf))
    IN IF "-" \in flags THEN Reverse(buf) \o pad
       ELSE IF "0" \in flags THEN Reverse(buf)
       ELSE pad \o Reverse(buf)

\* Padding with zeros, the prefix and the sign.
ntoa_format(digits, negative, base, upper, prec, width, flags) ==
    LET left == "-" \in flags
        sign == negative \/ {"+", " "} \cap flags # {}
        w == IF ~ left /\ "0" \in flags /\ sign /\ width > 0 THEN width - 1 ELSE width
        padded == IF left THEN digits
                  ELSE FillTo(FillTo(digits, prec), IF "0" \in flags THEN w ELSE 0)
        \* a number as long as its field makes room for its prefix
        n == Len(padded)
        cut == IF "." \in flags \/ n = 0 \/ n \notin {prec, w} THEN 0
               ELSE IF base = 16 /\ n > 1 THEN 2 ELSE 1
        room == SubSeq(padded, 1, n - cut)
        letter == CASE base = 16 -> Put(room, IF upper THEN "X" ELSE "x")
                    [] base = 2 -> Put(room, "b")
                    [] OTHER -> room
        hashed == IF "#" \in flags THEN Put(letter, "0") ELSE padded
    IN out_rev(CASE negative -> Put(hashed, "-")
                 [] ~ negative /\ "+" \in flags -> Put(hashed, "+")
                 [] ~ negative /\ "+" \notin flags /\ " " \in flags -> Put(hashed, " ")
                 [] OTHER -> hashed,
               w, flags)

\* The digits of v that fit, lowest first; none for 0 with a precision.
Numeral(v, base, upper, flags) ==
    IF v = 0 /\ "." \in flags THEN <<>>
    ELSE LET n == CHOOSE k \in 1 .. NTOA :
                    /\ k = NTOA \/ v < base^k
                    /\ k = 1 \/ v >= base^(k - 1)
         IN [j \in 1 .. n |->
                (IF upper THEN GLYPHS ELSE Glyphs)[1 + ((v \div base^(j - 1)) % base)]]

\* Mutant of ntoa_long: the prefix is written for 0 as well.
ntoa_long_HashKept(v, negative, base, upper, prec, width, flags) ==
    ntoa_format(Numeral(v, base, upper, flags), negative, base, upper, prec, width, flags)

\* _ntoa_long, and _ntoa_long_long, which differs only in the type of v.
ntoa_long(v, negative, base, upper, prec, width, flags) ==
    ntoa_format(Numeral(v, base, upper, flags), negative, base, upper, prec, width,
                IF v = 0 THEN flags \ {"#"} ELSE flags)

\* What is left of an argument in a type of that width.
Unsigned(v, type) == v % 2^Bits[type]
Signed(v, type) ==
    LET u == Unsigned(v, type) IN IF 2 * u < 2^Bits[type] THEN u ELSE u - 2^Bits[type]

\* Negating the smallest number overflows, and the result is converted to
\* its unsigned type at once: the bits are those of its absolute value.
Magnitude(v) == IF v > 0 THEN v ELSE 0 - v

Base(conv) ==
    CASE conv \in {"x", "X"} -> 16 [] conv = "o" -> 8 [] conv = "b" -> 2 [] OTHER -> 10

IntegerText(d, arg) ==
    LET signed == d.conv \in {"d", "i"}
        v == IF signed THEN Signed(arg, d.type) ELSE Unsigned(arg, d.type)
        flags == d.flags \ ((IF Base(d.conv) = 10 THEN {"#"} ELSE {})
                             \cup (IF signed THEN {} ELSE {"+", " "})
                             \cup (IF "." \in d.flags THEN {"0"} ELSE {}))
    IN ntoa_long(Magnitude(v), v < 0, Base(d.conv), d.conv = "X", d.prec, d.width, flags)

\* A pointer: all digits of a uintptr_t.
PointerText(d, arg) ==
    ntoa_long(Unsigned(arg, "long"), FALSE, 16, TRUE, d.prec,
              Bits["long"] \div 4, d.flags \cup {"0"})

\* A character or a string in its field.
InField(s, d) ==
    LET pad == Copies(" ", d.width - Len(s))
    IN IF "-" \in d.flags THEN s \o pad ELSE pad \o s

\* A precision of 0 leaves _strnlen_s without a limit, but not the rest.
StringText(d, arg) ==
    InField(IF "." \in d.flags /\ d.prec < Len(arg) THEN SubSeq(arg, 1, d.prec) ELSE arg, d)

-----------------------------------------------------------------------------
(* The loop of _vsnprintf.                                                 *)

\* Mutant of Stores: one character too many.
Stores_OneMore(j, c) ==
    CASE call.sink = "buffer" -> j <= call.count
      [] call.sink = "null" -> FALSE
      [] call.sink = "fct" -> c # NUL

\* Whether the output function (_out_buffer, _out_null, _out_fct) keeps the
\* character c for position j.
Stores(j, c) ==
    CASE call.sink = "buffer" -> j < call.count
      [] call.sink = "null" -> FALSE
      [] call.sink = "fct" -> c # NUL

Out(s) ==
    /\ buffer' = [j \in DOMAIN buffer |->
                    IF j \in idx .. (idx + Len(s) - 1) /\ Stores(j, s[j - idx + 1])
                    THEN s[j - idx + 1] ELSE buffer[j]]
    /\ idx' = idx + Len(s)
    /\ text' = text \o s

Here == At(call.format, f)
D == Directive(call.format, f, va)

Literal ==
    /\ pc = "run" /\ Here \notin {"%", NUL}
    /\ Out(<<Here>>)
    /\ f' = f + 1
    /\ UNCHANGED <<call, va, pc>>

\* Take an argument and write what it becomes.
Convert(s) ==
    /\ Out(s)
    /\ f' = D.next
    /\ va' = Tail(D.va)
    /\ UNCHANGED <<call, pc>>

\* Mutant of Integer: the argument is read but not taken.
Integer_Peek ==
    /\ pc = "run" /\ Here = "%" /\ D.conv \in {"d", "i", "u", "x", "X", "o", "b"}
    /\ Out(IntegerText(D, Head(D.va)))
    /\ f' = D.next /\ va' = D.va
    /\ UNCHANGED <<call, pc>>

Integer ==
    /\ pc = "run" /\ Here = "%" /\ D.conv \in {"d", "i", "u", "x", "X", "o", "b"}
    /\ Convert(IntegerText(D, Head(D.va)))

Character ==
    /\ pc = "run" /\ Here = "%" /\ D.conv = "c"
    /\ Convert(InField(<<Head(D.va)>>, D))

String ==
    /\ pc = "run" /\ Here = "%" /\ D.conv = "s"
    /\ Convert(StringText(D, Head(D.va)))

Pointer ==
    /\ pc = "run" /\ Here = "%" /\ D.conv = "p"
    /\ Convert(PointerText(D, Head(D.va)))

\* %% and unknown letters stand for themselves.  A format that ends inside
\* a directive is read on beyond its terminator.
Other ==
    /\ pc = "run" /\ Here = "%"
    /\ D.conv \notin {"d", "i", "u", "x", "X", "o", "b", "c", "s", "p"}
    /\ Out(<<D.conv>>)
    /\ f' = D.next
    /\ va' = D.va
    /\ pc' = IF D.conv = NUL THEN "overread" ELSE "run"
    /\ UNCHANGED call

\* With a count of 0 the index is SIZE_MAX, where nothing is stored.
Terminate ==
    /\ pc = "run" /\ Here = NUL
    /\ LET e == IF idx < call.count THEN idx
                ELSE IF call.count = 0 THEN SIZE_MAX ELSE call.count - 1
       IN buffer' = [j \in DOMAIN buffer |->
                        IF j = e /\ Stores(j, NUL) THEN NUL ELSE buffer[j]]
    /\ pc' = "done"
    /\ UNCHANGED <<call, f, va, idx, text>>

\* The call cpu_get_vendor_str makes: twelve characters and a terminator into
\* malloc(13).  The registers lie in memory in the order of cpuid_reg_t and
\* are not terminated; only the precision keeps them apart.
cpu_get_vendor_str(ebx, ecx, edx) ==
    [format |-> <<"%", ".", "4", "s", "%", ".", "4", "s", "%", ".", "4", "s">>,
     args |-> <<ebx \o ecx \o edx, edx, ecx \o edx>>, count |-> 13, sink |-> "buffer"]

PrintfInit ==
    /\ call \in Calls
    /\ f = 1 /\ va = call.args /\ idx = 0
    /\ buffer = [j \in 0 .. (OUT - 1) |-> Untouched]
    /\ text = <<>> /\ pc = "run"

PrintfNext == Literal \/ Integer \/ Character \/ String \/ Pointer \/ Other \/ Terminate

PrintfSpec == PrintfInit /\ [][PrintfNext]_printfVars

-----------------------------------------------------------------------------
(* Properties.                                                             *)

\* The functions keep their contract whatever the count: the value returned
\* is the length of the whole text; the buffer receives as much of it as
\* fits in front of a NUL, and nothing at or behind count is touched; an
\* output function gets all of it, and a null buffer nothing.
Delivered ==
    pc = "done" =>
        LET kept == CASE call.sink = "fct" -> text
                      [] call.sink = "null" -> <<>>
                      [] call.sink = "buffer" /\ call.count = 0 -> <<>>
                      [] OTHER -> SubSeq(text, 1, Min({idx, call.count - 1})) \o <<NUL>>
        IN /\ idx = Len(text)
           /\ \A j \in DOMAIN buffer :
                buffer[j] = IF j < Len(kept) THEN kept[j + 1] ELSE Untouched

\* Every directive takes the arguments it names and no more, stars
\* included: a later directive never reads another's argument.
ArgumentsMatch == pc = "done" => va = <<>>

\* The parts of an integer as C defines them (7.21.6.1), each from left to
\* right.  In base 8 the prefix is a digit more, unless the first one is 0
\* already; so it is all there is of 0 with precision 0.
PartsOf(d, arg) ==
    LET signed == d.conv \in {"d", "i"}
        v == IF signed THEN Signed(arg, d.type) ELSE Unsigned(arg, d.type)
        abs == IF v < 0 THEN -v ELSE v
        base == Base(d.conv)
        len == Cardinality({k \in 0 .. (Bits["long"] - 1) : base^k <= abs})
        zeros == Copies("0", (IF "." \in d.flags THEN d.prec ELSE 1) - len)
    IN [figures |-> [k \in 1 .. len |-> (IF d.conv = "X" THEN GLYPHS ELSE Glyphs)
                                            [1 + ((abs \div base^(len - k)) % base)]],
        zeros |-> zeros,
        sign |-> CASE v < 0 -> <<"-">>
                   [] v >= 0 /\ signed /\ "+" \in d.flags -> <<"+">>
                   [] v >= 0 /\ signed /\ "+" \notin d.flags /\ " " \in d.flags -> <<" ">>
                   [] OTHER -> <<>>,
        prefix |-> IF "#" \notin d.flags THEN <<>>
                   ELSE CASE base = 16 /\ abs # 0 -> <<"0", d.conv>>
                          [] base = 2 /\ abs # 0 -> <<"0", "b">>
                          [] base = 8 /\ zeros = <<>> -> <<"0">>
                          [] OTHER -> <<>>]

Reference(d, p) ==
    LET front == p.sign \o p.prefix
        number == p.zeros \o p.figures
        rest == d.width - Len(front \o number)
    IN IF "-" \in d.flags THEN front \o number \o Copies(" ", rest)
       ELSE IF "0" \in d.flags /\ "." \notin d.flags
            THEN front \o Copies("0", rest) \o number
       ELSE Copies(" ", rest) \o front \o number

\* The directives that kprintf.c formats as C does.  It is out of its depth
\* with more characters than its buffer holds, with a precision on the left,
\* with a # that has to fit its prefix into a field, with a # in base 8 if
\* the precision asks for zeros (it adds one more) or 0 is to be written with
\* precision 0 (it writes nothing, C a 0), and with a negative precision,
\* which C takes as none.
Standard(d, p) ==
    LET long == Len(p.zeros \o p.figures)
    IN /\ ~ d.ignored
       /\ Len(p.sign \o p.prefix) + long <= NTOA
       /\ "0" \in d.flags /\ "." \notin d.flags /\ "-" \notin d.flags => d.width <= NTOA
       /\ "-" \in d.flags /\ "." \in d.flags => p.zeros = <<>>
       /\ "#" \in d.flags /\ p.prefix # <<>> =>
            \/ "." \in d.flags
            \/ d.width < long
            \/ d.width > long /\ ("0" \notin d.flags \/ "-" \in d.flags)
       /\ "#" \in d.flags /\ d.conv = "o" => (p.zeros = <<>> <=> p.figures # <<>>)

\* Integers come out as C defines them, whatever the flags, width,
\* precision, length and value, unless the directive is one of the above;
\* all that the kernel's own messages use are covered (%d, %x, %llx and
\* %.16llx among them).
IntegersAsInC ==
    pc = "run" /\ Here = "%" /\ D.conv \in {"d", "i", "u", "x", "X", "o", "b"} =>
        LET p == PartsOf(D, Head(D.va))
        IN Standard(D, p) => IntegerText(D, Head(D.va)) = Reference(D, p)
=============================================================================
