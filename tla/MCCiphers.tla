----------------------------- MODULE MCCiphers ------------------------------
(***************************************************************************)
(* An instance of Ciphers for TLC: the command lines validargs tells apart,*)
(* and every short text over two letters whose codes differ in length      *)
(* modulo 3, blanks, a newline and characters without a code.              *)
(***************************************************************************)
EXTENDS Ciphers

CONSTANT MaxText      \* bound: characters of a text

Command(op, w, options) == [op |-> op, way |-> w, options |-> options]
With(flag, arg) == [flag |-> flag, given |-> TRUE, arg |-> arg]
Without(flag) == [flag |-> flag, given |-> FALSE, arg |-> <<>>]

Letters == <<83, 90>>          \* "SZ"
Square == <<83, 33, 126>>      \* "S!~"

SmallCommands ==
    { Command("-f", "-e", <<>>), Command("-f", "-d", <<>>),
      Command("-f", "-e", <<With("-k", Letters)>>),
      Command("-f", "-e", <<Without("-k")>>), Command("-f", "-e", <<Without("-x")>>),
      Command("-p", "-e", <<>>), Command("-p", "-d", <<>>),
      Command("-p", "-e", <<With("-k", Square), With("-r", <<9>>), With("-c", <<11>>)>>),
      Command("-p", "-e", <<With("-c", <<9>>), With("-r", <<9>>)>>),
      Command("-p", "-e", <<With("-c", <<16>>)>>), Command("-p", "-e", <<With("-k", <<69, 69>>)>>),
      Command("-p", "-e", <<With("-r", <<10>>), With("-r", <<10>>)>>),
      Command("-f", "-e", <<With("-k", <<83, 91>>)>>),     \* [ follows Z
      Command("-p", "-e", <<With("-k", <<127>>)>>),
      Command("-p", "-e", <<Without("-k")>>), Command("-p", "-x", <<>>),
      Command("-h", "", <<>>), Command("", "", <<>>) }

\* Nothing behind the two tables, or a word, and a letter that a key here has.
SmallFTSizes == {26, 27}
SmallBehind == {<<>>, <<83>>}

\* E, S, space, newline; and with them # and ~, which have no code.
Words(alphabet, n) == UNION {[1..k -> alphabet] : k \in 0..n}
SmallTexts == Words({69, 83, 32, 10}, MaxText) \cup Words({69, 9, 35, 126}, MaxText - 2)
=============================================================================
