------------------------------- MODULE MCUtf --------------------------------
(***************************************************************************)
(* An instance of Utf for TLC: the code points at every boundary of the    *)
(* encoding forms, alone and in pairs, whole and cut off, and the ways to  *)
(* order, repeat and leave out arguments.                                  *)
(***************************************************************************)
EXTENDS Utf

Boundaries == {36, 127, 128, 2047, 2048, 55295, 57344, 65535, 65536, 66559, 66560,
               129299, 1113087, 1113088, 1114111}
Single == {<<p>> : p \in Boundaries}
Pairs == {<<p, q>> : p \in Boundaries, q \in {36, 2047, 55295, 66560}}
Words == {"UTF16LE", "UTF16BE", "UTF8"}

SmallOptions ==
    [w \in {"-h", "-xh", "-x", "-e", "-xe", "-eUTF8", "-xeUTF16LE", "-eUTF7", "-e-h", "--"} |->
        [letter |-> CASE w \in {"-h", "-xh"} -> "h" [] w = "-x" -> "?" [] w = "--" -> "--"
                      [] OTHER -> "e",
         arg |-> CASE w = "-eUTF8" -> "UTF8" [] w = "-xeUTF16LE" -> "UTF16LE"
                   [] w = "-eUTF7" -> "UTF7" [] w = "-e-h" -> "-h" [] OTHER -> NULL]]

Usual(word) == <<"-e", word, "in", "out">>
ArgLists ==
    { <<>>, <<"-h">>, <<"-e">>, <<"-e", "-h", "in", "out">>, <<"-e", "UTF7", "in", "out">>,
      <<"in", "out", "-e", "UTF8">>, <<"in", "-e", "UTF8", "out">>, <<"-x", "-x", "in", "out">>,
      <<"-e", "UTF8", "-x", "in">>, <<"-e", "UTF8", "in", "in">>, <<"in", "out", "x", "y">>,
      <<"-e", "UTF8", "-e", "UTF16LE">>, <<"-e", "UTF8", "x", "out">>, <<"-x", "in", "out", "-e">>,
      <<"-xh">>, <<"-eUTF8", "-x", "in", "out">>, <<"-xeUTF16LE", "in", "--", "out">>,
      <<"-eUTF7", "in", "out", "x">>, <<"-e-h", "in", "out", "x">>, <<"-eUTF8", "in", "out", "--">>,
      <<"-xe", "UTF16BE", "in", "out">>, <<"--", "-eUTF8", "in", "out">>,
      <<"in", "out", "--", "-eUTF8">>, <<"-e", "--", "in", "out">> }

SmallCases ==
    {[args |-> Usual(w), from |-> f, points |-> p, cut |-> 0, old |-> <<>>] :
        w \in Words, f \in Formats, p \in Single \cup Pairs}
    \cup
    {[args |-> Usual(w), from |-> f, points |-> p, cut |-> n, old |-> o] :
        w \in Words, f \in Formats, p \in Pairs, n \in 1..3, o \in {<<>>}}
    \cup
    {[args |-> a, from |-> f, points |-> p, cut |-> 0, old |-> <<65, 66, 67, 68, 69, 70, 71, 72>>] :
        a \in ArgLists \cup {Usual(w) : w \in Words}, f \in Formats, p \in {<<>>, <<36>>}}

SmallJunk == {[utf8 |-> [i \in 1..4 |-> 0], upper |-> <<0, 0>>, lower |-> <<0, 0>>],
              [utf8 |-> [i \in 1..4 |-> 170], upper |-> <<61, 216>>, lower |-> <<1, 220>>]}
=============================================================================
