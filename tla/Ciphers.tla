------------------------------- MODULE Ciphers --------------------------------
(***************************************************************************)
(* The ciphers of hw1: validargs, the Polybius square and fractionated     *)
(* Morse, one character of the input per step.  A user who has encrypted a *)
(* message runs the program again on its output, with -d for -e.           *)
(*                                                                         *)
(* A character is its ASCII code; Morse symbols are one-letter strings.    *)
(* The code also reads past two tables whatever its input: what stands     *)
(* there is left open.  Where a read past an array decides what is written *)
(* or followed, the run ends "undefined".                                  *)
(***************************************************************************)
EXTENDS Integers, Sequences, FiniteSets

CONSTANTS
    Commands,      \* command lines: [op, way, options], the options [flag, given, arg]
    Texts,         \* what there is on standard input
    FTSizes,       \* what getFTSize may count: fractionated_table has no end, and it
                   \* counts on to the first null word behind it
    Behind         \* the bytes that may stand behind fm_key, as far as a NUL

TAB == 9
NEWLINE == 10
SPACE == 32
Blank == {SPACE, TAB}
NULL == <<"null">>

polybius_alphabet == [i \in 1..94 |-> 32 + i]
fm_alphabet == [i \in 1..26 |-> 64 + i]

\* The entries of the characters from [ to z are empty; there are none beyond.
morse_table ==
    << <<"-",".","-",".","-","-">>, <<".","-",".",".","-",".">>, <<>>, <<>>, <<>>, <<>>,
       <<".","-","-","-","-",".">>, <<"-",".","-","-",".">>, <<"-",".","-","-",".","-">>, <<>>,
       <<>>, <<"-","-",".",".","-","-">>, <<"-",".",".",".",".","-">>, <<".","-",".","-",".","-">>,
       <<>>, <<"-","-","-","-","-">>, <<".","-","-","-","-">>, <<".",".","-","-","-">>,
       <<".",".",".","-","-">>, <<".",".",".",".","-">>, <<".",".",".",".",".">>,
       <<"-",".",".",".",".">>, <<"-","-",".",".",".">>, <<"-","-","-",".",".">>,
       <<"-","-","-","-",".">>, <<"-","-","-",".",".",".">>, <<"-",".","-",".","-",".">>, <<>>,
       <<"-",".",".",".","-">>, <<>>, <<".",".","-","-",".",".">>, <<".","-","-",".","-",".">>,
       <<".","-">>, <<"-",".",".",".">>, <<"-",".","-",".">>, <<"-",".",".">>, <<".">>,
       <<".",".","-",".">>, <<"-","-",".">>, <<".",".",".",".">>, <<".",".">>, <<".","-","-","-">>,
       <<"-",".","-">>, <<".","-",".",".">>, <<"-","-">>, <<"-",".">>, <<"-","-","-">>,
       <<".","-","-",".">>, <<"-","-",".","-">>, <<".","-",".">>, <<".",".",".">>, <<"-">>,
       <<".",".","-">>, <<".",".",".","-">>, <<".","-","-">>, <<"-",".",".","-">>,
       <<"-",".","-","-">>, <<"-","-",".",".">> >>
morse(c) == IF c <= 90 THEN morse_table[c - 32] ELSE <<>>
MorseLimit == 122

fractionated_table ==
    << <<".",".",".">>, <<".",".","-">>, <<".",".","x">>, <<".","-",".">>, <<".","-","-">>,
       <<".","-","x">>, <<".","x",".">>, <<".","x","-">>, <<".","x","x">>, <<"-",".",".">>,
       <<"-",".","-">>, <<"-",".","x">>, <<"-","-",".">>, <<"-","-","-">>, <<"-","-","x">>,
       <<"-","x",".">>, <<"-","x","-">>, <<"-","x","x">>, <<"x",".",".">>, <<"x",".","-">>,
       <<"x",".","x">>, <<"x","-",".">>, <<"x","-","-">>, <<"x","-","x">>, <<"x","x",".">>,
       <<"x","x","-">> >>

Flags == {"-k", "-r", "-c", "-x"}
Elements(s) == {s[i] : i \in DOMAIN s}

ASSUME CommandsAssumption ==
    \A c \in Commands :
        c.options \in Seq([flag : Flags, given : BOOLEAN, arg : Seq(Nat)])
ASSUME BehindAssumption ==
    /\ FTSizes # {} /\ FTSizes \subseteq {n \in Nat : n >= 26}
    /\ Behind # {} /\ Behind \subseteq Seq(Nat)
ASSUME TextsAssumption == Texts \subseteq Seq({TAB, NEWLINE, SPACE} \cup 33..126)

VARIABLES
    command, text,    \* what this behaviour runs: the command line and the message
    way,              \* "-e" or "-d": whether the program encrypts or decrypts
    phase,            \* "args", "running", "done", "usage", "help", "failed", "crashed",
                      \* "hangs", "undefined"
    mode, key,        \* what validargs made of the arguments
    table,            \* polybius_table as a square, or fm_key
    input, pos,       \* standard input, and how much of it is read
    output,
    buffer,           \* polybius_table as fractionated Morse's buffer
    pending,          \* decrypt's myRow, as read
    holder,           \* encrypt2: whether the line has a letter
    whitespace,       \* encrypt2: whether what came last is white space
    xTracker, charTracker     \* decrypt2

run == <<command, text, way>>
args == <<mode, key, table>>
io == <<input, pos, output>>
morseState == <<buffer, holder, whitespace, xTracker, charTracker>>
vars == <<run, phase, args, io, pending, morseState>>

-----------------------------------------------------------------------------
(* validargs *)

Refused == [op |-> "none", decrypt |-> FALSE, row |-> 0, col |-> 0]

\* The first character that is not in the alphabet or comes twice makes a key invalid.
\* The alphabet is taken for a range of codes with one more at its end, and the search
\* for that one never ends.
valid_key(str, alphabet) ==
    LET past == alphabet[1] + Len(alphabet)
        Bad(i) == str[i] \notin alphabet[1]..(past - 1) \/ \E j \in DOMAIN str : j # i /\ str[j] = str[i]
        bad == {i \in DOMAIN str : Bad(i)}
        first == CHOOSE i \in bad : \A j \in bad : i <= j
    IN IF bad = {} THEN "valid" ELSE IF str[first] = past THEN "loops" ELSE "invalid"

\* One turn of the loop over the options of -p, with what it knows so far.
OptionRead(s, o) ==
    CASE o.flag = "-x" \/ o.flag \in s.seen -> [s EXCEPT !.end = "refuse"]
      [] o.flag \in {"-k", "-r", "-c"} \ s.seen /\ ~o.given -> [s EXCEPT !.end = "crash"]
      [] o.flag = "-k" /\ "-k" \notin s.seen /\ o.given ->
             CASE valid_key(o.arg, polybius_alphabet) = "valid" ->
                      [s EXCEPT !.seen = @ \cup {"-k"}, !.key = o.arg]
               [] valid_key(o.arg, polybius_alphabet) = "loops" -> [s EXCEPT !.end = "hang"]
               [] OTHER -> [s EXCEPT !.end = "refuse"]
      [] o.flag \in {"-r", "-c"} \ s.seen /\ o.given ->
             IF o.arg[1] \notin 9..15 THEN [s EXCEPT !.end = "refuse"]
             ELSE IF o.flag = "-r" THEN [s EXCEPT !.seen = @ \cup {"-r"}, !.row = o.arg[1]]
             ELSE [s EXCEPT !.seen = @ \cup {"-c"}, !.col = o.arg[1]]

\* The loop, and what it knows after the first n options.
NoOptions == [end |-> "go", seen |-> {}, row |-> 10, col |-> 10, key |-> NULL]
Options(options) ==
    LET after[n \in 0..Len(options)] ==
            IF n = 0 THEN NoOptions
            ELSE IF after[n - 1].end # "go" THEN after[n - 1]
            ELSE OptionRead(after[n - 1], options[n])
    IN after[Len(options)]

argc == 1 + (IF command.op = "" THEN 0 ELSE 1) + (IF command.way = "" THEN 0 ELSE 1)
          + Len(command.options)
          + Cardinality({i \in DOMAIN command.options : command.options[i].given})

Leave(how) == phase' = how /\ UNCHANGED <<run, args, io, pending, morseState>>

Accept(m, k, t) ==
    /\ phase' = "running"
    /\ mode' = m /\ key' = k /\ table' = t
    /\ UNCHANGED <<run, io, pending, morseState>>

-----------------------------------------------------------------------------
(* Tables *)

\* Faulty variant: only the key's first character is left out of the rest.
WithKeyFirst(k, alphabet) ==
    LET filled[n \in 0..Len(alphabet)] ==
            IF n = 0 THEN k
            ELSE IF k # <<>> /\ k[1] = alphabet[n] THEN filled[n - 1]
            ELSE Append(filled[n - 1], alphabet[n])
    IN IF k = NULL THEN alphabet ELSE filled[Len(alphabet)]

\* fillTable and fillTable2: the key, then the characters of the alphabet it does not have.
WithKey(k, alphabet) ==
    LET filled[n \in 0..Len(alphabet)] ==
            IF n = 0 THEN k
            ELSE IF \E i \in DOMAIN k : k[i] = alphabet[n] THEN filled[n - 1]
            ELSE Append(filled[n - 1], alphabet[n])
    IN IF k = NULL THEN alphabet ELSE filled[Len(alphabet)]

-----------------------------------------------------------------------------
(* main: the arguments.  -k without its argument makes valid_key read a null pointer *)

Polybius ==
    /\ command.op = "-p"
    /\ \E o \in {Options(command.options)} :
       \/ (argc > 9 \/ way \notin {"-e", "-d"}) /\ Leave("usage")
       \/ /\ argc <= 9 /\ way \in {"-e", "-d"}
          /\ \/ o.end = "crash" /\ Leave("crashed")
             \/ o.end = "hang" /\ Leave("hangs")
             \/ (o.end = "refuse" \/ (o.end = "go" /\ o.row * o.col < 94)) /\ Leave("usage")
             \/ /\ o.end = "go" /\ o.row * o.col >= 94
                /\ Accept([op |-> "-p", decrypt |-> way = "-d", row |-> o.row, col |-> o.col],
                          o.key, WithKey(o.key, polybius_alphabet))

\* Only the first option counts, whatever follows it.  On a letter the key has fillTable2
\* goes on behind fm_key: it never ends if that letter stands there.
Fractionated ==
    LET options == command.options
        m == [op |-> "-f", decrypt |-> way = "-d", row |-> 0, col |-> 0]
    IN /\ command.op = "-f"
       /\ \/ way \notin {"-e", "-d"} /\ Leave("usage")
          \/ /\ way \in {"-e", "-d"} /\ options = <<>>
             /\ Accept(m, NULL, WithKey(NULL, fm_alphabet))
          \/ /\ way \in {"-e", "-d"} /\ options # <<>>
             /\ \/ options[1].flag # "-k" /\ Leave("usage")
                \/ options[1].flag = "-k" /\ ~options[1].given /\ Leave("crashed")
                \/ /\ options[1].flag = "-k" /\ options[1].given
                   /\ \/ /\ valid_key(options[1].arg, fm_alphabet) = "valid"
                         /\ \E s \in Behind :
                                IF Elements(options[1].arg) \cap Elements(s) # {} THEN Leave("hangs")
                                ELSE Accept(m, options[1].arg, WithKey(options[1].arg, fm_alphabet))
                      \/ valid_key(options[1].arg, fm_alphabet) = "invalid" /\ Leave("usage")
                      \/ valid_key(options[1].arg, fm_alphabet) = "loops" /\ Leave("hangs")

validargs ==
    /\ phase = "args"
    /\ \/ Polybius \/ Fractionated
       \/ command.op = "-h" /\ Leave("help")
       \/ command.op \notin {"-p", "-f", "-h"} /\ Leave("usage")

-----------------------------------------------------------------------------
(* The Polybius square *)

Running(op, d) == phase = "running" /\ mode.op = op /\ mode.decrypt = d

More(op, d) ==
    /\ Running(op, d) /\ pos < Len(input)
    /\ pos' = pos + 1
    /\ UNCHANGED <<run, args, input>>

White(c) == c \in {TAB, SPACE, NEWLINE}
Digit(d) == IF d < 10 THEN 48 + d ELSE 55 + d
Value(c) == IF c \in 48..57 THEN c - 48 ELSE c - 55
Place(c) == CHOOSE i \in DOMAIN table : table[i] = c

writeAddress(c) == <<Digit((Place(c) - 1) \div mode.col), Digit((Place(c) - 1) % mode.col)>>

encrypt ==
    LET c == input[pos + 1]
        known == \E i \in DOMAIN table : table[i] = c
    IN /\ More("-p", FALSE)
       /\ phase' = IF White(c) \/ known THEN phase ELSE "failed"
       /\ output' = IF White(c) THEN Append(output, c)
                    ELSE IF known THEN output \o writeAddress(c) ELSE output
       /\ UNCHANGED <<pending, morseState>>

\* printChar: nothing below the table, NUL behind its characters; the table has 257 places.
decrypt ==
    LET c == input[pos + 1]
        place == mode.col * Value(pending) + Value(c)
    IN /\ More("-p", TRUE)
       /\ pending' = IF White(c) THEN pending ELSE IF pending = -1 THEN c ELSE -1
       /\ phase' = IF ~White(c) /\ pending # -1 /\ place >= 257 THEN "undefined" ELSE phase
       /\ output' = CASE White(c) -> Append(output, c)
                      [] ~White(c) /\ pending # -1 /\ place \in 0..256 ->
                             Append(output, IF place < Len(table) THEN table[place + 1] ELSE 0)
                      [] OTHER -> output
       /\ UNCHANGED morseState

EndOfText(op, d, how) ==
    /\ Running(op, d) /\ pos = Len(input)
    /\ phase' = how
    /\ UNCHANGED <<run, args, input, pos, pending>>

\* Faulty variant: the loop does not end.
PolybiusEndsNot ==
    /\ \E d \in BOOLEAN : EndOfText("-p", d, "running")
    /\ UNCHANGED <<output, morseState>>

PolybiusEnds ==
    /\ \E d \in BOOLEAN : EndOfText("-p", d, "done")
    /\ UNCHANGED <<output, morseState>>

-----------------------------------------------------------------------------
(* Fractionated Morse *)

Triple(s, i) == <<s[3 * i - 2], s[3 * i - 1], s[3 * i]>>
CodeOf(t) == table[CHOOSE i \in 1..26 : fractionated_table[i] = t]

\* Faulty variant: the buffer is not cleared.
RestKeeps(symbols) == symbols

\* The symbols in the buffer and new ones: each three are written as one letter.
\* printCorres has getFTSize count again at every turn; all counts are 26 or more, so it
\* finds the letter of a triple that has one before the count matters.
Codes(symbols) ==
    [i \in 1..(Len(symbols) \div 3) |-> CodeOf(Triple(symbols, i))]
Rest(symbols) == SubSeq(symbols, 3 * (Len(symbols) \div 3) + 1, Len(symbols))

\* One turn of encrypt2: the first blank after a letter ends the word, a newline the
\* line; what does not make three symbols by then is dropped.
encrypt2 ==
    LET c == input[pos + 1]
        spaced == IF ~whitespace /\ holder THEN Append(buffer, "x") ELSE buffer
        ended == IF ~whitespace /\ Len(buffer) > 0 THEN Append(buffer, "x") ELSE buffer
        coded == buffer \o morse(c) \o <<"x">>
    IN /\ More("-f", FALSE)
       /\ UNCHANGED <<pending, xTracker, charTracker>>
       /\ \/ /\ c \in Blank
             /\ output' = output \o Codes(spaced) /\ buffer' = Rest(spaced)
             /\ whitespace' = TRUE
             /\ UNCHANGED <<phase, holder>>
          \/ /\ c = NEWLINE
             /\ output' = output \o Codes(ended) \o <<NEWLINE>> /\ buffer' = <<>>
             /\ whitespace' = TRUE /\ holder' = FALSE
             /\ UNCHANGED phase
          \/ /\ ~White(c) /\ c <= MorseLimit /\ morse(c) # <<>>
             /\ output' = output \o Codes(coded) /\ buffer' = Rest(coded)
             /\ whitespace' = FALSE /\ holder' = TRUE
             /\ UNCHANGED phase
          \/ /\ ~White(c) /\ (c > MorseLimit \/ morse(c) = <<>>)
             /\ phase' = IF c > MorseLimit THEN "undefined" ELSE "failed"
             /\ UNCHANGED <<output, buffer, whitespace, holder>>

\* The end of the text: no letter stands for three x, and printCorres looks for one as
\* far as getFTSize has counted.
encrypt2Ends ==
    LET ended == Append(buffer, "x")
    IN /\ \E n \in FTSizes :
              EndOfText("-f", FALSE, IF ended = <<"x", "x", "x">> /\ n > 26 THEN "undefined" ELSE "done")
       /\ output' = IF Len(ended) = 3 /\ ended # <<"x", "x", "x">> THEN output \o Codes(ended) ELSE output
       /\ UNCHANGED morseState

\* compar over the alphabet: the first character with that code.  Without one, it
\* looks past the end of morse_table.
Coded(b) == {i \in 1..90 : morse(32 + i) = b}
Letter(b) == 32 + CHOOSE i \in Coded(b) : \A j \in Coded(b) : i <= j

\* Decrypting: the state of decrypt2 after a symbol.  charTracker is only compared with a
\* newline: 0 stands for any symbol.
PrintLetter(s) ==
    IF Coded(s.buf) = {} THEN [s EXCEPT !.ok = FALSE]
    ELSE [s EXCEPT !.out = Append(@, Letter(s.buf)), !.buf = <<>>,
                   !.xs = @ + 1, !.last = Letter(s.buf)]
Symbol(s, x) ==
    CASE ~s.ok -> s
      [] s.ok /\ x # "x" ->
             [s EXCEPT !.out = IF s.xs = 2 /\ s.last # NEWLINE THEN Append(@, SPACE) ELSE @,
                       !.buf = Append(@, x), !.xs = 0, !.last = 0]
      [] s.ok /\ x = "x" /\ s.xs = 0 -> PrintLetter(s)
      [] OTHER -> [s EXCEPT !.xs = @ + 1, !.last = 0]

Keep(s) ==
    /\ output' = s.out /\ buffer' = s.buf /\ xTracker' = s.xs /\ charTracker' = s.last
    /\ phase' = IF s.ok THEN phase ELSE "undefined"

State == [ok |-> TRUE, out |-> output, buf |-> buffer, xs |-> xTracker, last |-> charTracker]

\* Faulty variant: a letter cut off at the end of a line is not printed.
decrypt2DropsLast ==
    LET c == input[pos + 1]
        code == fractionated_table[Place(c)]
    IN /\ More("-f", TRUE)
       /\ UNCHANGED <<pending, holder, whitespace>>
       /\ \/ /\ c = NEWLINE
             /\ Keep([State EXCEPT !.out = Append(@, NEWLINE), !.last = NEWLINE])
          \/ /\ c # NEWLINE /\ \E i \in 1..26 : table[i] = c
             /\ \E s1 \in {Symbol(State, code[1])} :
                \E s2 \in {Symbol(s1, code[2])} :
                \E s3 \in {Symbol(s2, code[3])} : Keep(s3)
          \/ c # NEWLINE /\ ~(\E i \in 1..26 : table[i] = c) /\ Keep([State EXCEPT !.ok = FALSE])

\* One turn of decrypt2.  A character that is no code makes it read in front of
\* fractionated_table.
decrypt2 ==
    LET c == input[pos + 1]
        printed == IF buffer # <<>> THEN PrintLetter(State) ELSE State
        code == fractionated_table[Place(c)]
    IN /\ More("-f", TRUE)
       /\ UNCHANGED <<pending, holder, whitespace>>
       /\ \/ /\ c = NEWLINE
             /\ Keep(IF printed.ok
                     THEN [printed EXCEPT !.out = Append(@, NEWLINE), !.last = NEWLINE]
                     ELSE printed)
          \/ /\ c # NEWLINE /\ \E i \in 1..26 : table[i] = c
             /\ \E s1 \in {Symbol(State, code[1])} :
                \E s2 \in {Symbol(s1, code[2])} :
                \E s3 \in {Symbol(s2, code[3])} : Keep(s3)
          \/ c # NEWLINE /\ ~(\E i \in 1..26 : table[i] = c) /\ Keep([State EXCEPT !.ok = FALSE])

\* A letter not ended yet is printed with the last character read, if there was one.
decrypt2Ends ==
    LET last == IF Len(input) > 0 /\ xTracker = 0 THEN PrintLetter(State) ELSE State
    IN /\ EndOfText("-f", TRUE, IF last.ok THEN "done" ELSE "undefined")
       /\ output' = last.out
       /\ UNCHANGED morseState

-----------------------------------------------------------------------------
(* Behaviours *)

\* A program that starts, with its variables of static storage.
Fresh ==
    /\ mode = Refused /\ key = NULL /\ table = <<>>
    /\ pos = 0 /\ output = <<>> /\ pending = -1
    /\ buffer = <<>> /\ holder = FALSE /\ whitespace = FALSE
    /\ xTracker = 0 /\ charTracker = 0

Init ==
    /\ command \in Commands /\ text \in Texts
    /\ way = command.way
    /\ phase = "args"
    /\ input = text
    /\ Fresh

\* The user decrypts what the program has written.
Again ==
    /\ phase = "done" /\ way = "-e"
    /\ way' = "-d" /\ phase' = "args" /\ input' = output
    /\ mode' = Refused /\ key' = NULL /\ table' = <<>>
    /\ pos' = 0 /\ output' = <<>> /\ pending' = -1
    /\ buffer' = <<>> /\ holder' = FALSE /\ whitespace' = FALSE
    /\ xTracker' = 0 /\ charTracker' = 0
    /\ UNCHANGED <<command, text>>

Program ==
    \/ validargs
    \/ encrypt \/ decrypt \/ PolybiusEnds
    \/ encrypt2 \/ encrypt2Ends \/ decrypt2 \/ decrypt2Ends

Next == Program \/ Again

\* The program runs; whether its user decrypts is left open.
Spec == Init /\ [][Next]_vars /\ WF_vars(Program)

-----------------------------------------------------------------------------
(* Properties *)

Ended == phase \in {"done", "usage", "help", "failed", "crashed", "undefined"}
InTable(c) == command.op = "-p" \/ (c <= MorseLimit /\ morse(c) # <<>>)

\* Whatever key is accepted, the table holds the characters of the alphabet and no
\* others, each once.
TableIsPermutation ==
    phase = "running" =>
        LET alphabet == IF mode.op = "-p" THEN polybius_alphabet ELSE fm_alphabet
        IN Elements(alphabet) = Elements(table) /\ Len(table) = Len(alphabet)

\* A message as fractionated Morse keeps it: runs of blanks between two words of a line
\* are one space, other blanks are dropped.
Normal(m) ==
    LET Between(i) == /\ i > 1 /\ ~White(m[i - 1])
                      /\ \E j \in (i + 1)..Len(m) : ~White(m[j]) /\ \A k \in i..j : m[k] # NEWLINE
        kept[n \in 0..Len(m)] ==
            IF n = 0 THEN <<>>
            ELSE IF m[n] \notin Blank THEN Append(kept[n - 1], m[n])
            ELSE IF Between(n) THEN Append(kept[n - 1], SPACE)
            ELSE kept[n - 1]
    IN kept[Len(m)]

\* Decrypting what was encrypted gives the message back: exactly through the square, up
\* to blanks through Morse, even where the codes at the end of a line were dropped.  To a
\* message of newlines only decrypt2 adds the first character without a code, #.
ReadsBack ==
    phase = "done" /\ way = "-d" /\ command.way = "-e" =>
        IF command.op = "-p" THEN output = text
        ELSE IF NEWLINE \in Elements(text) /\ \A i \in DOMAIN text : White(text[i])
        THEN output = Append(Normal(text), 35)
        ELSE output = Normal(text)

\* Without a key of its own or with one, a run's outcome depends on what stands behind an
\* array only where the text ends in a blank or has one of the four characters that
\* morse_table stops short of, or where valid_key or fillTable2 does not end for the key;
\* never where the program decrypts what it has written.  And it is not refused if all its
\* characters have a code: what becomes of a text with others is left open.
Looping ==
    \E i \in DOMAIN command.options :
        LET k == command.options[i].arg
        IN /\ command.options[i].flag = "-k"
           /\ \/ command.op = "-p" /\ 127 \in Elements(k)
              \/ command.op = "-f" /\ 91 \in Elements(k)
              \/ command.op = "-f" /\ \E s \in Behind : Elements(k) \cap Elements(s) # {}
OutcomeIsOwn ==
    /\ phase = "undefined" /\ command.way = "-e" =>
           /\ way = "-e" /\ command.op = "-f"
           /\ text[Len(text)] \in Blank \/ \E i \in DOMAIN text : text[i] > MorseLimit
    /\ phase = "hangs" => Looping
    /\ (\A i \in DOMAIN text : White(text[i]) \/ InTable(text[i])) => phase # "failed"

\* Whatever is typed, the program ends, unless a key has the character that follows the
\* last of the alphabet, or one that stands behind fm_key.
Ends == phase \in {"args", "running"} ~> Ended \/ (phase = "hangs" /\ Looping)
=============================================================================
