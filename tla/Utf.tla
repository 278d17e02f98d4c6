-------------------------------- MODULE Utf ---------------------------------
(***************************************************************************)
(* The converter of hw2: parse_args, check_bom and the loops that read a   *)
(* glyph, decode it, encode it and write it, one loop turn per step.       *)
(*                                                                         *)
(* Files are sequences of bytes.  The buffers keep their bytes from one    *)
(* turn to the next and start with whatever the stack held.  Integers are  *)
(* those of the C types; the machine is little-endian, as the build's.     *)
(***************************************************************************)
EXTENDS Integers, Sequences

CONSTANTS
    Cases,     \* what the program is started on: [args, from, points, cut, old]
    Options,   \* what getopt finds in the words that are options: [letter, arg]
    Junk       \* what the uninitialised buffers may hold: [utf8, upper, lower]

UTF16LE == 65534        \* 0xFFFE
UTF16BE == 65279        \* 0xFEFF
UTF8 == 12565487        \* 0xBFBBEF
Formats == {UTF16LE, UTF16BE, UTF8}
Byte == 0..255
IsScalar(c) == c <= 55295 \/ (c >= 57344 /\ c <= 1114111)     \* not a surrogate

ASSUME CasesAssumption ==
    \A c \in Cases : /\ c.from \in Formats /\ c.cut \in Nat
                     /\ c.points \in Seq(Nat) /\ \A i \in DOMAIN c.points : IsScalar(c.points[i])
                     /\ c.args \in Seq(STRING) /\ c.old \in Seq(Byte)
\* The letter is the first h or e of a word, ? if there are others alone, and the argument
\* what stands behind an e in the same word, NULL if nothing.  Letters getopt does not know are passed over.
\* After "--" the next word is a file; of words behind a second one nothing is said, as
\* getopt then changes the order of the arguments.
ASSUME OptionsAssumption ==
    /\ \A w \in DOMAIN Options : /\ Options[w].letter \in {"h", "e", "?", "--"}
                                 /\ Options[w].arg \in STRING
    /\ \A c \in Cases : \A i, j \in DOMAIN c.args :
           /\ {c.args[i], c.args[j]} \subseteq DOMAIN Options
           /\ Options[c.args[i]].letter = "--" /\ Options[c.args[j]].letter = "--"
           => i = j
ASSUME JunkAssumption ==
    \A j \in Junk : /\ j.utf8 \in [1..4 -> Byte]
                    /\ j.upper \in [1..2 -> Byte] /\ j.lower \in [1..2 -> Byte]

VARIABLES
    case,          \* the case and the junk of this behaviour
    phase,         \* "args", "bom", "open", "convert", "done", "failed", "crashed"
    optind,        \* the next argument, from 1
    in_file, out_file, encoding_to, encoding_from, bom_length,   \* program_state
    infile,        \* the bytes of the input file
    off,           \* how many of them are read
    outfile,       \* the bytes of the output file
    wpos,          \* how many of them are written
    utf8_buf, upper, lower

state == <<in_file, out_file, encoding_to, encoding_from, bom_length>>
buffers == <<utf8_buf, upper, lower>>
vars == <<case, phase, optind, state, infile, off, outfile, wpos, buffers>>

NULL == "NULL"

-----------------------------------------------------------------------------
(* Code points and glyphs.  Bits that cannot overlap are added. *)

\* The number a pair of bytes in memory is, and back.
Word(b) == b[1] + 256 * b[2]
AsBytes(w) == <<w % 256, (w \div 256) % 256>>
reverse_bytes(b) == <<b[2], b[1]>>

is_upper_surrogate_pair(u) == u > 55296 /\ u < 56319     \* strictly inside D800..DBFF
is_lower_surrogate_pair(l) == l > 56320 /\ l < 57343     \* strictly inside DC00..DFFF

\* high | low, for high in 0..1023 and low in -64..63: a negative low, in two's complement,
\* has all the bits from the seventh on.
Either(high, low, bit) ==
    IF (high \div bit) % 2 = 1 \/ (low \div bit) % 2 = 1 THEN bit ELSE 0
Or(high, low) ==
    (IF low < 0 THEN -64 ELSE 64 * (high \div 64))
    + Either(high, low, 32) + Either(high, low, 16) + Either(high, low, 8)
    + Either(high, low, 4) + Either(high, low, 2) + Either(high, low, 1)

\* The ten bits of u go above those of l: what l has beyond ten bits, if it is no lower
\* surrogate, is ORed into them.
utf16_glyph_to_code_point(u, l) ==
    IF is_upper_surrogate_pair(u)
    THEN 1024 * Or(u - 55296, (l - 56320) \div 1024) + ((l - 56320) % 1024) + 65536
    ELSE u

is_code_point_surrogate(c) == c >= 65536

\* The units of a code point.
code_point_to_utf16_glyph(c) ==
    IF is_code_point_surrogate(c)
    THEN <<((c - 65536) \div 1024 + 55296) % 65536, ((c - 65536) % 1024) + 56320>>
    ELSE <<c>>

\* Faulty variant: the last code point of one byte takes two.
utf8_glyph_size_strict(c) ==
    IF c < 127 THEN 1 ELSE IF c <= 2047 THEN 2 ELSE IF c <= 65535 THEN 3 ELSE 4

utf8_glyph_size_of_code_point(c) ==
    IF c <= 127 THEN 1 ELSE IF c <= 2047 THEN 2 ELSE IF c <= 65535 THEN 3 ELSE 4

Continuation(c) == 128 + (c % 64)
code_point_to_utf8_glyph(c) ==
    CASE utf8_glyph_size_of_code_point(c) = 1 -> <<c>>
      [] utf8_glyph_size_of_code_point(c) = 2 -> <<192 + ((c \div 64) % 32), Continuation(c)>>
      [] utf8_glyph_size_of_code_point(c) = 3 ->
             <<224 + ((c \div 4096) % 16), Continuation(c \div 64), Continuation(c)>>
      [] utf8_glyph_size_of_code_point(c) = 4 ->
             <<240 + ((c \div 262144) % 8), Continuation(c \div 4096),
               Continuation(c \div 64), Continuation(c)>>

remaining_utf8_bytes(b) ==
    CASE b \div 8 = 30 -> 3 [] b \div 16 = 14 -> 2 [] b \div 32 = 6 -> 1 [] OTHER -> 0

\* get_utf8_decoding_function(size) applied to the four bytes of a buffer.
utf8_decode(size, b) ==
    CASE size = 1 -> b[1]
      [] size = 2 -> (b[1] % 32) * 64 + (b[2] % 64)
      [] size = 3 -> (b[1] % 16) * 4096 + (b[2] % 64) * 64 + (b[3] % 64)
      [] size = 4 -> (b[1] % 8) * 262144 + (b[2] % 64) * 4096 + (b[3] % 64) * 64 + (b[4] % 64)

-----------------------------------------------------------------------------
(* Files *)

\* read: n bytes from o on into the buffer b from place i on; fewer at the end of file.
Got(o, n) == IF o + n <= Len(infile) THEN n ELSE IF o < Len(infile) THEN Len(infile) - o ELSE 0
ReadInto(b, i, o, n) ==
    [k \in DOMAIN b |-> IF i <= k /\ k < i + Got(o, n) THEN infile[o + k - i + 1] ELSE b[k]]

\* write: over what the file has there, as it was opened without O_TRUNC.
write(bytes) ==
    /\ outfile' = SubSeq(outfile, 1, wpos) \o bytes
                    \o SubSeq(outfile, wpos + Len(bytes) + 1, Len(outfile))
    /\ wpos' = wpos + Len(bytes)

BomBytes(f) == CASE f = UTF8 -> <<239, 187, 191>>
                 [] f = UTF16LE -> <<255, 254>>
                 [] f = UTF16BE -> <<254, 255>>

\* The bytes of units in a format's order.
InOrder(f, units) ==
    LET one(u) == IF f = UTF16LE THEN AsBytes(u) ELSE reverse_bytes(AsBytes(u))
    IN IF Len(units) = 1 THEN one(units[1]) ELSE one(units[1]) \o one(units[2])

-----------------------------------------------------------------------------
(* main *)

Stop(how) ==
    /\ phase' = how
    /\ UNCHANGED <<case, optind, state, infile, off, outfile, wpos, buffers>>

determine_format(word) == CASE word = "UTF16LE" -> UTF16LE [] word = "UTF16BE" -> UTF16BE
                            [] word = "UTF8" -> UTF8 [] OTHER -> 0

argv_optind == case.args[optind]
option == IF argv_optind \in DOMAIN Options THEN Options[argv_optind].letter ELSE "none"
\* The argument of an option e: the rest of its word or, if that is empty, the next word.
apart == Options[argv_optind].arg = NULL
optarg == IF ~apart THEN Options[argv_optind].arg
          ELSE IF optind < Len(case.args) THEN case.args[optind + 1] ELSE NULL

\* One turn of parse_args's loop, or the turns of a word of several letters.
ParseArg ==
    LET at == IF option = "--" THEN optind + 1 ELSE optind
        file == option \in {"none", "--"} /\ at <= Len(case.args)
    IN /\ phase = "args" /\ optind <= Len(case.args)
       /\ \/ option = "h" /\ Stop("done")
          \/ /\ option = "?" \/ (option = "e" /\ optarg = NULL) \/ (option = "--" /\ ~file)
             /\ optind' = optind + 1
             /\ UNCHANGED <<case, phase, state, infile, off, outfile, wpos, buffers>>
          \/ option = "e" /\ optarg = "-h" /\ Stop("done")
          \/ /\ option = "e" /\ optarg \notin {NULL, "-h"} /\ determine_format(optarg) = 0
             /\ Stop("failed")
          \/ /\ option = "e" /\ optarg # NULL /\ determine_format(optarg) # 0
             /\ optind' = IF apart THEN optind + 2 ELSE optind + 1
             /\ encoding_to' = determine_format(optarg)
             /\ UNCHANGED <<case, phase, in_file, out_file, encoding_from, bom_length,
                            infile, off, outfile, wpos, buffers>>
          \/ file /\ in_file # NULL /\ out_file # NULL /\ Stop("failed")
          \/ /\ file /\ (in_file = NULL \/ out_file = NULL)
             /\ optind' = at + 1
             /\ in_file' = IF in_file = NULL THEN case.args[at] ELSE in_file
             /\ out_file' = IF in_file = NULL THEN out_file ELSE case.args[at]
             /\ UNCHANGED <<case, phase, encoding_to, encoding_from, bom_length,
                            infile, off, outfile, wpos, buffers>>

\* The count of arguments, the program's name among them, must be 5.
ArgsDone ==
    /\ phase = "args" /\ optind > Len(case.args)
    /\ Stop(IF Len(case.args) + 1 = 5 THEN "bom" ELSE "failed")

\* The only file there is to read is "in"; it must have three bytes.
check_bom ==
    LET three == infile[1] + 256 * infile[2] + 65536 * infile[3]
        two == 256 * infile[1] + infile[2]
    IN /\ phase = "bom"
       /\ IF in_file # "in" \/ Len(infile) < 3 THEN Stop("failed")
          ELSE IF three # UTF8 /\ two \notin {UTF16LE, UTF16BE} THEN Stop("failed")
          ELSE /\ phase' = "open"
               /\ encoding_from' = IF three = UTF8 THEN UTF8 ELSE two
               /\ bom_length' = IF three = UTF8 THEN 3 ELSE 2
               /\ UNCHANGED <<case, optind, in_file, out_file, encoding_to,
                              infile, off, outfile, wpos, buffers>>

\* get_encoding_function: the differences of the three formats are all different.  Empty
\* for NULL.
translate == encoding_from - encoding_to
\* Faulty variant: a conversion is missing.
get_encoding_function_short ==
    CASE translate = UTF8 - UTF16LE    -> <<UTF8, UTF16LE>>
      [] translate = UTF8 - UTF16BE    -> <<UTF8, UTF16BE>>
      [] translate = UTF16LE - UTF16BE -> <<UTF16LE, UTF16BE>>
      [] translate = UTF16BE - UTF16LE -> <<UTF16BE, UTF16LE>>
      [] translate = UTF16BE - UTF8    -> <<UTF16BE, UTF8>>
      [] translate = 0                 -> <<"transcribe">>
      [] OTHER                         -> <<>>

get_encoding_function ==
    CASE translate = UTF8 - UTF16LE    -> <<UTF8, UTF16LE>>
      [] translate = UTF8 - UTF16BE    -> <<UTF8, UTF16BE>>
      [] translate = UTF16LE - UTF16BE -> <<UTF16LE, UTF16BE>>
      [] translate = UTF16BE - UTF16LE -> <<UTF16BE, UTF16LE>>
      [] translate = UTF16BE - UTF8    -> <<UTF16BE, UTF8>>
      [] translate = UTF16LE - UTF8    -> <<UTF16LE, UTF8>>
      [] translate = 0                 -> <<"transcribe">>
      [] OTHER                         -> <<>>

\* main opens the files, compares their inodes, skips the BOM and calls the conversion,
\* which writes its own BOM.  transcribe copies what is left, in one call.
OpenFiles ==
    /\ phase = "open"
    /\ IF out_file = NULL \/ out_file = in_file THEN Stop("failed")
       ELSE IF get_encoding_function = <<>> THEN Stop("crashed")
       ELSE IF get_encoding_function = <<"transcribe">>
       THEN /\ write(SubSeq(infile, bom_length + 1, Len(infile)))
            /\ off' = Len(infile) /\ phase' = "done"
            /\ UNCHANGED <<case, optind, state, infile, buffers>>
       ELSE /\ write(BomBytes(get_encoding_function[2]))
            /\ off' = bom_length /\ phase' = "convert"
            /\ UNCHANGED <<case, optind, state, infile, buffers>>

Converting(from) ==
    /\ phase = "convert" /\ off < Len(infile)
    /\ from = get_encoding_function[1]
    /\ UNCHANGED <<case, phase, optind, state, infile>>

\* Faulty variant: the loop steps over bytes that were not there to be read.
FromUtf8Steps(to) ==
    LET first == ReadInto(utf8_buf, 1, off, 1)
        remaining == remaining_utf8_bytes(first[1])
        buf == ReadInto(first, 2, off + 1, remaining)
        code_point == utf8_decode(remaining + 1, buf)
    IN /\ Converting(UTF8) /\ encoding_to = to
       /\ utf8_buf' = buf
       /\ off' = off + 1 + remaining
       /\ write(InOrder(to, code_point_to_utf16_glyph(code_point)))
       /\ UNCHANGED <<upper, lower>>

\* One turn of the loop of a conversion from UTF-8.
FromUtf8(to) ==
    LET first == ReadInto(utf8_buf, 1, off, 1)
        remaining == remaining_utf8_bytes(first[1])
        buf == ReadInto(first, 2, off + 1, remaining)
        code_point == utf8_decode(remaining + 1, buf)
    IN /\ Converting(UTF8) /\ encoding_to = to
       /\ utf8_buf' = buf
       /\ off' = off + 1 + Got(off + 1, remaining)
       /\ write(InOrder(to, code_point_to_utf16_glyph(code_point)))
       /\ UNCHANGED <<upper, lower>>

\* Faulty variant: the second unit is not put in order.
FromUtf16HalfOrdered(from) ==
    LET up == IF from = UTF16BE THEN reverse_bytes(ReadInto(upper, 1, off, 2))
              ELSE ReadInto(upper, 1, off, 2)
        low == ReadInto(lower, 1, off + 2, 2)
        pair == is_upper_surrogate_pair(Word(up))
    IN /\ Converting(from) /\ encoding_to = UTF8
       /\ upper' = up
       /\ lower' = IF pair THEN low ELSE lower
       /\ off' = off + Got(off, 2) + (IF pair THEN Got(off + 2, 2) ELSE 0)
       /\ write(code_point_to_utf8_glyph(utf16_glyph_to_code_point(Word(up), Word(lower'))))
       /\ UNCHANGED utf8_buf

\* The same to UTF-8.
FromUtf16(from) ==
    LET Order(b) == IF from = UTF16BE THEN reverse_bytes(b) ELSE b
        up == Order(ReadInto(upper, 1, off, 2))
        low == Order(ReadInto(lower, 1, off + 2, 2))
        pair == is_upper_surrogate_pair(Word(up))
    IN /\ Converting(from) /\ encoding_to = UTF8
       /\ upper' = up
       /\ lower' = IF pair THEN low ELSE lower
       /\ off' = off + Got(off, 2) + (IF pair THEN Got(off + 2, 2) ELSE 0)
       /\ write(code_point_to_utf8_glyph(utf16_glyph_to_code_point(Word(up), Word(lower'))))
       /\ UNCHANGED utf8_buf

\* The same between the two UTF-16 formats: whether to read a second unit is
\* asked of the one read before, or of what the stack held.
SwapUtf16(from) ==
    LET up == reverse_bytes(ReadInto(upper, 1, off, 2))
        low == reverse_bytes(ReadInto(lower, 1, off + 2, 2))
        pair == is_lower_surrogate_pair(Word(lower))
    IN /\ Converting(from) /\ encoding_to \in {UTF16LE, UTF16BE}
       /\ upper' = up
       /\ lower' = IF pair THEN low ELSE lower
       /\ off' = off + Got(off, 2) + (IF pair THEN Got(off + 2, 2) ELSE 0)
       /\ write(IF pair THEN up \o low ELSE up)
       /\ UNCHANGED utf8_buf

from_utf8_to_utf16le == FromUtf8(UTF16LE)
from_utf8_to_utf16be == FromUtf8(UTF16BE)
from_utf16le_to_utf8 == FromUtf16(UTF16LE)
from_utf16be_to_utf8 == FromUtf16(UTF16BE)
from_utf16le_to_utf16be == SwapUtf16(UTF16LE)
from_utf16be_to_utf16le == SwapUtf16(UTF16BE)

\* A read of no byte ends the loop.
EndOfFile == phase = "convert" /\ off >= Len(infile) /\ Stop("done")

-----------------------------------------------------------------------------
(* Reference: the Unicode encoding forms, and a file of code points *)

Utf8Form(c) ==
    CASE c < 128 -> <<c>>
      [] c >= 128 /\ c < 2048 -> <<192 + c \div 64, 128 + (c % 64)>>
      [] c >= 2048 /\ c < 65536 -> <<224 + c \div 4096, 128 + ((c \div 64) % 64), 128 + (c % 64)>>
      [] OTHER -> <<240 + c \div 262144, 128 + ((c \div 4096) % 64),
                    128 + ((c \div 64) % 64), 128 + (c % 64)>>
Utf16Form(c) ==
    IF c < 65536 THEN <<c>> ELSE <<55296 + (c - 65536) \div 1024, 56320 + ((c - 65536) % 1024)>>

Form(f, c) == IF f = UTF8 THEN Utf8Form(c) ELSE InOrder(f, Utf16Form(c))

\* The bytes of the first n points.
Bytes(f, points, n) ==
    LET bytes[k \in 0..n] == IF k = 0 THEN <<>> ELSE bytes[k - 1] \o Form(f, points[k])
    IN bytes[n]

File(f, points) == BomBytes(f) \o Bytes(f, points, Len(points))

Init ==
    /\ \E c \in Cases, j \in Junk :
        /\ case = [args |-> c.args, from |-> c.from, points |-> c.points, cut |-> c.cut,
                   junk |-> j]
        /\ LET file == File(c.from, c.points)
           IN infile = SubSeq(file, 1, Len(file) - c.cut)
        /\ outfile = c.old
        /\ utf8_buf = j.utf8 /\ upper = j.upper /\ lower = j.lower
    /\ phase = "args" /\ optind = 1
    /\ in_file = NULL /\ out_file = NULL
    /\ encoding_to = 0 /\ encoding_from = 0 /\ bom_length = 0
    /\ off = 0 /\ wpos = 0

Next ==
    \/ ParseArg \/ ArgsDone \/ check_bom \/ OpenFiles
    \/ from_utf8_to_utf16le \/ from_utf8_to_utf16be
    \/ from_utf16le_to_utf8 \/ from_utf16be_to_utf8
    \/ from_utf16le_to_utf16be \/ from_utf16be_to_utf16le
    \/ EndOfFile

Spec == Init /\ [][Next]_vars

-----------------------------------------------------------------------------
(* Properties *)

Ended == phase \in {"done", "failed", "crashed"}

\* No read goes past the end of the input, the file position never past what was written,
\* and whatever was cut off, what is decoded and written is bytes.
TypeOK ==
    /\ phase \in {"args", "bom", "open", "convert"} \/ Ended
    /\ optind \in 1..(Len(case.args) + 1)
    /\ encoding_to \in Formats \cup {0} /\ encoding_from \in Formats \cup {0}
    /\ off \in 0..Len(infile)
    /\ wpos \in 0..Len(outfile)
    /\ \A i \in DOMAIN outfile : outfile[i] \in Byte
    /\ utf8_buf \in [1..4 -> Byte] /\ upper \in [1..2 -> Byte] /\ lower \in [1..2 -> Byte]

\* The code points the strict comparisons of utf.c take for no pair.
Edge(c) == (c >= 65536 /\ c < 66560) \/ c >= 1113088

\* Whether what the code makes of a case should be a plain conversion.
Plain ==
    \/ encoding_from = UTF8
    \/ encoding_to = UTF8 /\ \A i \in DOMAIN case.points : ~Edge(case.points[i])
    \/ encoding_to # UTF8 /\ ~is_lower_surrogate_pair(Word(case.junk.lower))

\* While the conversion runs, what it has written is the encoding of the code points it
\* has read, and it stands where one of them ends, until it meets a glyph that is cut off.
\* Between the two UTF-16 formats it is the same units, each in the other order.
OutputFollowsInput ==
    LET points == case.points
        read(n) == bom_length + Len(Bytes(encoding_from, points, n))
        body == SubSeq(outfile, 3, wpos)
    IN phase = "convert" /\ Plain =>
           \/ case.cut > 0 /\ off = Len(infile)
           \/ /\ UTF8 \in {encoding_from, encoding_to}
              /\ \E n \in 0..Len(points) :
                    /\ off = read(n)
                    /\ SubSeq(outfile, 1, wpos) =
                           BomBytes(encoding_to) \o Bytes(encoding_to, points, n)
           \/ /\ UTF8 \notin {encoding_from, encoding_to}
              /\ off = wpos
              /\ \A i \in 1..(Len(body) \div 2) :
                    /\ body[2 * i - 1] = infile[2 * i + 2]
                    /\ body[2 * i] = infile[2 * i + 1]

\* A file that is whole comes out as the same code points, in the format asked for and
\* behind its BOM.  Whether a copy in the format the file has begins with a BOM is left
\* open: transcribe writes none, the usage text promises one (utf.h:177-178).
ConversionIsRight ==
    phase = "done" /\ encoding_from # 0 /\ Plain /\ case.cut = 0 =>
        LET written == SubSeq(outfile, 1, wpos)
        IN \/ written = File(encoding_to, case.points)
           \/ /\ encoding_to = encoding_from
              /\ written = Bytes(encoding_to, case.points, Len(case.points))

\* The program calls a null function only if no encoding was asked for.
CrashExplained == phase = "crashed" => encoding_to = 0

=============================================================================
