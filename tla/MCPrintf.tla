------------------------------ MODULE MCPrintf ------------------------------
(* Calls of vsnprintf.  The types have 3, 4, 6 and 8 bits and a number is   *)
(* collected in 6 characters: as in the kernel, every number fits in bases  *)
(* 8, 10 and 16, and only part of a long in base 2.                         *)
EXTENDS Printf

Widths == [char |-> 3, short |-> 4, int |-> 6, long |-> 8]

Call(format, args, count, sink) ==
    [format |-> format, args |-> args, count |-> count, sink |-> sink]
Whole(format, args) == Call(format, args, SIZE_MAX, "buffer")

FlagStrings == {SetToSeq(F) : F \in SUBSET {"0", "-", "+", " ", "#"}}
Conversions == {"d", "i", "u", "x", "X", "o", "b"}

\* One integer directive in every shape ...
Shapes ==
    {Whole(<<"%">> \o fl \o w \o p \o <<c>>, <<v>>) :
        fl \in FlagStrings, w \in {<<>>, <<"2">>, <<"4">>, <<"8">>},
        p \in {<<>>, <<".">>, <<".", "3">>, <<".", "8">>},
        c \in Conversions \ {"i"}, v \in {0, 5, -1, -32}}

\* ... and in every length.
Lengths ==
    {Whole(<<"%", "+">> \o l \o <<c>>, <<v>>) :
        l \in {<<>>, <<"h", "h">>, <<"h">>, <<"l">>, <<"l", "l">>, <<"t">>, <<"j">>, <<"z">>},
        c \in Conversions, v \in {-128, -32, -8, -5, -1, 0, 3, 7, 15, 127, 255}}

\* Width and precision as arguments, and what they do to a string.
Stars ==
    {Whole(<<"%", "*", ".", "*", "d", "%", "u">>, <<w, p, 5, 9>>) :
        w \in {-4, 0, 4}, p \in {-1, 0, 3}}
    \cup {Whole(<<"%", "*", "s", "|", "%", ".", "*", "s">>, <<w, <<"a", "b">>, p, <<"c", "d", "e">>>>) :
            w \in {-4, 1, 4}, p \in {-1, 0, 2, 3}}

\* Every kind of directive, in buffers of every size.
Mixed ==
    {Call(<<"a", "%", "-", "3", "s", "%", "p", "%", "2", "c", "%", "%">>,
          <<<<"x", "y">>, 90, "z">>, c[1], c[2]) :
        c \in ((0 .. 11) \X {"buffer", "null"}) \cup ({SIZE_MAX} \X Sinks)}

\* Letters that are no conversion, and formats that end within a directive.
Odd ==
    {Whole(<<"a", "%">> \o r, <<>>) :
        r \in {<<>>, <<"f">>, <<"5">>, <<"l">>, <<"f", "b">>, <<".", "q", "b">>}}

Vendor == {cpu_get_vendor_str(<<"G", "e", "n", "u">>, <<"n", "t", "e", "l">>, <<"i", "n", "e", "I">>)}

AllCalls == Shapes \cup Lengths \cup Stars \cup Mixed \cup Odd \cup Vendor
=============================================================================
