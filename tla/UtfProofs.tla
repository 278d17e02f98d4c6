------------------------------ MODULE UtfProofs -------------------------------
(***************************************************************************)
(* Theorems about the converter of hw2: what its encoders and decoders do  *)
(* to every code point, that only a missing -e makes it call nothing, that *)
(* it stays within its files, and that what it writes is the input's code  *)
(* points, for every file of them, every cut and every initial content of  *)
(* the buffers.                                                            *)
(***************************************************************************)
EXTENDS Utf, DataInduction, SequenceTheorems, TLAPS

CodePoints == {c \in Nat : c <= 1114111}

\* What an encoded glyph leaves in a buffer of four bytes, behind which anything may be.
Holds(b, glyph) == b \in [1..4 -> Byte] /\ \A i \in DOMAIN glyph : b[i] = glyph[i]

-----------------------------------------------------------------------------
(* UTF-8 *)

\* The encoder writes the form Unicode defines, surrogates or not.
THEOREM Utf8IsTheForm ==
    \A c \in CodePoints : code_point_to_utf8_glyph(c) = Utf8Form(c)
<1> SUFFICES ASSUME NEW c \in CodePoints
             PROVE  code_point_to_utf8_glyph(c) = Utf8Form(c)
  BY SMT
<1> USE DEF CodePoints, Continuation
<1>1. CASE c < 128
  BY SMT, <1>1 DEF code_point_to_utf8_glyph, Utf8Form, utf8_glyph_size_of_code_point
<1>2. CASE c >= 128 /\ c < 2048
  <2>1. (c \div 64) % 32 = c \div 64
    BY SMT, <1>2
  <2> QED BY SMT, <1>2, <2>1 DEF code_point_to_utf8_glyph, Utf8Form, utf8_glyph_size_of_code_point
<1>3. CASE c >= 2048 /\ c < 65536
  <2>1. (c \div 4096) % 16 = c \div 4096
    BY SMT, <1>3
  <2> QED BY SMT, <1>3, <2>1 DEF code_point_to_utf8_glyph, Utf8Form, utf8_glyph_size_of_code_point
<1>4. CASE c >= 65536
  <2>1. (c \div 262144) % 8 = c \div 262144
    BY SMT, <1>4
  <2> QED BY SMT, <1>4, <2>1 DEF code_point_to_utf8_glyph, Utf8Form, utf8_glyph_size_of_code_point
<1> QED BY SMT, <1>1, <1>2, <1>3, <1>4

\* What the encoder writes, the decoder reads: the first byte tells how many follow, and
\* the bytes give the code point back, whatever the buffer held before.
THEOREM Utf8RoundTrip ==
    \A c \in CodePoints : \A b : Holds(b, code_point_to_utf8_glyph(c)) =>
        /\ remaining_utf8_bytes(b[1]) + 1 = utf8_glyph_size_of_code_point(c)
        /\ utf8_decode(remaining_utf8_bytes(b[1]) + 1, b) = c
<1> SUFFICES ASSUME NEW c \in CodePoints, NEW b, Holds(b, code_point_to_utf8_glyph(c))
             PROVE  /\ remaining_utf8_bytes(b[1]) + 1 = utf8_glyph_size_of_code_point(c)
                    /\ utf8_decode(remaining_utf8_bytes(b[1]) + 1, b) = c
  BY SMT
<1>0. b[1] \in Byte /\ b[2] \in Byte /\ b[3] \in Byte /\ b[4] \in Byte
  BY SMT DEF Holds
<1> USE DEF CodePoints, Byte
<1>1. CASE c < 128
  <2>1. utf8_glyph_size_of_code_point(c) = 1 /\ b[1] = c
    BY SMT, <1>1 DEF Holds, code_point_to_utf8_glyph, utf8_glyph_size_of_code_point
  <2>2. remaining_utf8_bytes(b[1]) = 0
    BY SMT, <1>1, <2>1 DEF remaining_utf8_bytes
  <2> QED BY SMT, <2>1, <2>2 DEF utf8_decode
<1>2. CASE c >= 128 /\ c < 2048
  <2>1. utf8_glyph_size_of_code_point(c) = 2
    BY SMT, <1>2 DEF utf8_glyph_size_of_code_point
  <2>2. b[1] = 192 + ((c \div 64) % 32) /\ b[2] = 128 + (c % 64)
    BY SMT, <2>1 DEF Holds, code_point_to_utf8_glyph, Continuation
  <2>3. remaining_utf8_bytes(b[1]) = 1
    BY SMT, <2>2 DEF remaining_utf8_bytes
  <2>4. (b[1] % 32) * 64 + (b[2] % 64) = c
    BY SMT, <1>2, <2>2
  <2> QED BY SMT, <2>1, <2>3, <2>4 DEF utf8_decode
<1>3. CASE c >= 2048 /\ c < 65536
  <2>1. utf8_glyph_size_of_code_point(c) = 3
    BY SMT, <1>3 DEF utf8_glyph_size_of_code_point
  <2>2. /\ b[1] = 224 + ((c \div 4096) % 16)
        /\ b[2] = 128 + ((c \div 64) % 64) /\ b[3] = 128 + (c % 64)
    BY SMT, <2>1 DEF Holds, code_point_to_utf8_glyph, Continuation
  <2>3. remaining_utf8_bytes(b[1]) = 2
    BY SMT, <2>2 DEF remaining_utf8_bytes
  <2>4. (b[1] % 16) * 4096 + (b[2] % 64) * 64 + (b[3] % 64) = c
    BY SMT, <1>3, <2>2
  <2> QED BY SMT, <2>1, <2>3, <2>4 DEF utf8_decode
<1>4. CASE c >= 65536
  <2>1. utf8_glyph_size_of_code_point(c) = 4
    BY SMT, <1>4 DEF utf8_glyph_size_of_code_point
  <2>2. /\ b[1] = 240 + ((c \div 262144) % 8) /\ b[2] = 128 + ((c \div 4096) % 64)
        /\ b[3] = 128 + ((c \div 64) % 64) /\ b[4] = 128 + (c % 64)
    BY SMT, <2>1 DEF Holds, code_point_to_utf8_glyph, Continuation
  <2>3. remaining_utf8_bytes(b[1]) = 3
    BY SMT, <2>2 DEF remaining_utf8_bytes
  <2>4. (b[1] % 8) * 262144 + (b[2] % 64) * 4096 + (b[3] % 64) * 64 + (b[4] % 64) = c
    BY SMT, <1>4, <2>2
  <2> QED BY SMT, <2>1, <2>3, <2>4 DEF utf8_decode
<1> QED BY SMT, <1>1, <1>2, <1>3, <1>4

-----------------------------------------------------------------------------
(* UTF-16 *)

\* The units written are those Unicode defines.
LEMMA Utf16IsTheForm ==
    \A c \in CodePoints : code_point_to_utf16_glyph(c) = Utf16Form(c)
<1> SUFFICES ASSUME NEW c \in CodePoints
             PROVE  code_point_to_utf16_glyph(c) = Utf16Form(c)
  BY SMT
<1>1. c >= 65536 => ((c - 65536) \div 1024 + 55296) % 65536 = 55296 + (c - 65536) \div 1024
  BY SMT DEF CodePoints
<1>2. c >= 65536 => ((c - 65536) % 1024) + 56320 = 56320 + ((c - 65536) % 1024)
  BY SMT DEF CodePoints
<1> QED BY SMT, <1>1, <1>2 DEF CodePoints, code_point_to_utf16_glyph, Utf16Form,
                          is_code_point_surrogate

\* Ten bits, and the two ranges of surrogates; what a pair of them stands for.
TenBits == 0 .. 1023
Upper == 55296 .. 56319
Lower == 56320 .. 57343
Paired(u, l) == (u - 55296) * 1024 + (l - 56320) + 65536

\* Nothing to be ORed in changes nothing, and what is ORed in takes no bit from -64.
LEMMA OrIs ==
    ASSUME NEW high \in TenBits
    PROVE  /\ Or(high, 0) = high
           /\ \A low \in Int : Or(high, low) \in Int /\ Or(high, low) >= -64
<1>0. high \in 0 .. 1023
  BY DEF TenBits
<1>1. Or(high, 0) = high
  <2>1. \A bit \in {1, 2, 4, 8, 16, 32} : 0 \div bit = 0
    BY SMT
  <2>2. PICK a, b, c, d, e, f : /\ a = high \div 32 /\ b = high \div 16 /\ c = high \div 8
                                /\ d = high \div 4 /\ e = high \div 2 /\ f = high \div 1
    BY Zenon
  <2>3. /\ high \div 64 = a \div 2 /\ a = b \div 2 /\ b = c \div 2 /\ c = d \div 2 /\ d = e \div 2
        /\ e = high \div 2 /\ f = high
    BY SMT, <1>0, <2>2
  <2>4. a \in Int /\ b \in Int /\ c \in Int /\ d \in Int /\ e \in Int /\ high \div 64 \in Int
    BY SMT, <1>0, <2>2
  <2>5. \A i \in Int : i = 2 * (i \div 2) + (i % 2) /\ i % 2 \in {0, 1}
    BY SMT
  <2>6. /\ a = 2 * (high \div 64) + (a % 2) /\ b = 2 * a + (b % 2) /\ c = 2 * b + (c % 2)
        /\ d = 2 * c + (d % 2) /\ e = 2 * d + (e % 2) /\ high = 2 * e + (high % 2)
        /\ {a % 2, b % 2, c % 2, d % 2, e % 2, high % 2} \subseteq {0, 1}
    BY SMT, <1>0, <2>3, <2>4, <2>5
  <2>7. /\ Either(high, 0, 32) = 32 * (a % 2) /\ Either(high, 0, 16) = 16 * (b % 2)
        /\ Either(high, 0, 8) = 8 * (c % 2) /\ Either(high, 0, 4) = 4 * (d % 2)
        /\ Either(high, 0, 2) = 2 * (e % 2) /\ Either(high, 0, 1) = high % 2
    BY SMT, <1>0, <2>1, <2>2, <2>3, <2>6 DEF Either
  <2>8. Or(high, 0) = 64 * (high \div 64) + Either(high, 0, 32) + Either(high, 0, 16)
                      + Either(high, 0, 8) + Either(high, 0, 4) + Either(high, 0, 2)
                      + Either(high, 0, 1)
    BY SMT DEF Or
  <2> QED BY SMT, <1>0, <2>4, <2>6, <2>7, <2>8
<1>2. ASSUME NEW low \in Int PROVE Or(high, low) \in Int /\ Or(high, low) >= -64
  <2>1. \A bit \in {1, 2, 4, 8, 16, 32} : Either(high, low, bit) \in Nat
    BY SMT DEF Either
  <2>2. high \div 64 \in Nat
    BY SMT, <1>0
  <2> QED BY SMT, <2>1, <2>2 DEF Or
<1> QED BY Zenon, <1>1, <1>2

\* Of a lower surrogate no bit is above the tenth.
LEMMA PairIs ==
    ASSUME NEW u \in Upper, NEW l \in Lower, is_upper_surrogate_pair(u)
    PROVE  utf16_glyph_to_code_point(u, l) = Paired(u, l)
<1>1. PICK h : h = u - 55296
  BY SMT
<1>2. h \in TenBits
  BY SMT, <1>1 DEF TenBits, Upper
<1>3. Or(h, 0) = h
  BY ONLY Zenon, <1>2, OrIs
<1>4. (l - 56320) \div 1024 = 0 /\ (l - 56320) % 1024 = l - 56320
  BY SMT DEF Lower
<1>5. utf16_glyph_to_code_point(u, l) = 1024 * Or(h, 0) + (l - 56320) + 65536
  BY SMT, <1>1, <1>4 DEF utf16_glyph_to_code_point
<1> QED BY SMT, <1>1, <1>3, <1>5 DEF Paired, Upper, Lower

\* The strict comparisons of is_upper_surrogate_pair lose the code points that Edge names,
\* and no others, when they are read back.
THEOREM Utf16LosesTheEdges ==
    \A c \in CodePoints : c >= 65536 =>
        LET units == code_point_to_utf16_glyph(c)
        IN utf16_glyph_to_code_point(units[1], units[2]) = c <=> ~Edge(c)
<1> SUFFICES ASSUME NEW c \in CodePoints, c >= 65536
             PROVE  utf16_glyph_to_code_point(code_point_to_utf16_glyph(c)[1],
                                              code_point_to_utf16_glyph(c)[2]) = c
                    <=> ~Edge(c)
  BY SMT
<1> DEFINE high == 55296 + (c - 65536) \div 1024
           low == 56320 + ((c - 65536) % 1024)
<1>1. code_point_to_utf16_glyph(c)[1] = high /\ code_point_to_utf16_glyph(c)[2] = low
  BY SMT, Utf16IsTheForm DEF CodePoints, Utf16Form
<1>2. high \in Upper /\ low \in Lower
  BY SMT DEF CodePoints, Upper, Lower
<1>3. Paired(high, low) = c
  BY SMT DEF CodePoints, Paired
<1>4. high = 55296 <=> c < 66560
  BY SMT DEF CodePoints
<1>5. high = 56319 <=> c >= 1113088
  BY SMT DEF CodePoints
<1> HIDE DEF high, low
<1>6. is_upper_surrogate_pair(high) => utf16_glyph_to_code_point(high, low) = c
  BY ONLY Zenon, <1>2, <1>3, PairIs
<1>7. ~is_upper_surrogate_pair(high) => utf16_glyph_to_code_point(high, low) = high
  BY SMT DEF utf16_glyph_to_code_point
<1> QED BY SMT, <1>1, <1>2, <1>4, <1>5, <1>6, <1>7 DEF is_upper_surrogate_pair, Edge, Upper

-----------------------------------------------------------------------------
(* The function main calls *)

\* The formats main has found when it looks for the function.
FormatsFound ==
    /\ encoding_to \in Formats \cup {0}
    /\ phase = "open" => encoding_from \in Formats
    /\ phase = "crashed" => encoding_to = 0

\* The three numbers differ pairwise by different amounts, so that a difference of two of
\* them always names a function.
LEMMA FunctionFound ==
    ASSUME encoding_from \in Formats, encoding_to \in Formats
    PROVE  get_encoding_function # <<>>
BY SMT DEF get_encoding_function, translate, Formats, UTF8, UTF16LE, UTF16BE

\* The end of main leaves the formats alone.
LEMMA StopKeepsFormats ==
    ASSUME FormatsFound, NEW how \in {"done", "failed", "bom"}, Stop(how)
    PROVE  FormatsFound'
BY SMT DEF FormatsFound, Stop, state

\* A word that names a format names one of the three.
LEMMA FormatNamed ==
    ASSUME NEW word, determine_format(word) # 0
    PROVE  determine_format(word) \in Formats
BY SMT DEF determine_format, Formats

\* parse_args stores a format only if determine_format found one.
LEMMA ParseArgKeepsFormats ==
    ASSUME FormatsFound, ParseArg
    PROVE  FormatsFound'
<1> DEFINE format == determine_format(optarg)
<1>1. \/ Stop("done") \/ Stop("failed")
      \/ UNCHANGED <<phase, state>>
      \/ format # 0 /\ encoding_to' = format /\ UNCHANGED <<phase, encoding_from>>
      \/ UNCHANGED <<phase, encoding_to, encoding_from>>
  BY SMT DEF ParseArg
<1>2. CASE format # 0 /\ encoding_to' = format /\ UNCHANGED <<phase, encoding_from>>
  <2>1. phase = "args"
    BY SMT DEF ParseArg
  <2>2. format \in Formats
    BY Zenon, <1>2, FormatNamed
  <2> HIDE DEF format
  <2> QED BY SMT, <1>2, <2>1, <2>2 DEF FormatsFound
<1>3. CASE UNCHANGED <<phase, state>> \/ UNCHANGED <<phase, encoding_to, encoding_from>>
  BY SMT, <1>3 DEF FormatsFound, state
<1>4. CASE Stop("done") \/ Stop("failed")
  BY SMT, <1>4, StopKeepsFormats
<1> HIDE DEF format
<1> QED BY SMT, <1>1, <1>2, <1>3, <1>4

\* No step stores another number as a format.
LEMMA NextKeepsFormats ==
    ASSUME FormatsFound, Next
    PROVE  FormatsFound'
<1>1. CASE ParseArg
  BY SMT, <1>1, ParseArgKeepsFormats
<1>2. CASE ArgsDone
  BY SMT, <1>2, StopKeepsFormats DEF ArgsDone
<1>3. CASE check_bom
  <2>1. CASE Stop("failed")
    BY SMT, <2>1, StopKeepsFormats
  <2>2. CASE ~Stop("failed")
    BY SMT, <1>3, <2>2 DEF check_bom, FormatsFound, Formats, UTF8, UTF16LE, UTF16BE
  <2> QED BY SMT, <2>1, <2>2
<1>4. CASE OpenFiles
  <2>1. phase = "open" /\ encoding_from \in Formats
    BY SMT, <1>4 DEF OpenFiles, FormatsFound
  <2>2. CASE Stop("failed")
    BY SMT, <2>2, StopKeepsFormats
  <2>3. CASE get_encoding_function = <<>> /\ Stop("crashed")
    BY SMT, <2>1, <2>3, FunctionFound DEF FormatsFound, Stop, state
  <2>4. CASE phase' \in {"done", "convert"} /\ UNCHANGED state
    BY SMT, <2>4 DEF FormatsFound, state
  <2> QED BY SMT, <1>4, <2>2, <2>3, <2>4 DEF OpenFiles
<1>5. ASSUME NEW to, FromUtf8(to)
      PROVE  FormatsFound'
  BY SMT, <1>5 DEF FromUtf8, Converting, FormatsFound, state
<1>6. ASSUME NEW from, FromUtf16(from) \/ SwapUtf16(from)
      PROVE  FormatsFound'
  BY SMT, <1>6 DEF FromUtf16, SwapUtf16, Converting, FormatsFound, state
<1>7. CASE EndOfFile
  BY SMT, <1>7, StopKeepsFormats DEF EndOfFile
<1> QED BY SMT, <1>1, <1>2, <1>3, <1>4, <1>5, <1>6, <1>7
        DEF Next, from_utf8_to_utf16le, from_utf8_to_utf16be, from_utf16le_to_utf8,
            from_utf16be_to_utf8, from_utf16le_to_utf16be, from_utf16be_to_utf16le

\* main calls a null function (get_encoding_function in utf.c) only if the arguments
\* asked for no encoding: every pair of formats has one.
THEOREM CrashNeedsNoFormat == Spec => []CrashExplained
<1>1. Init => FormatsFound
  BY SMT DEF Init, FormatsFound
<1>2. FormatsFound /\ [Next]_vars => FormatsFound'
  <2>1. ASSUME FormatsFound, UNCHANGED vars
        PROVE  FormatsFound'
    BY SMT, <2>1 DEF FormatsFound, vars, state
  <2> QED BY SMT, <2>1, NextKeepsFormats
<1>3. FormatsFound => CrashExplained
  BY SMT DEF FormatsFound, CrashExplained
<1> QED BY <1>1, <1>2, <1>3, PTL DEF Spec

-----------------------------------------------------------------------------
(* Sequences of bytes *)

\* A file's contents, and what can be in it.
Data == Seq(Byte)
Points(p) == p \in Seq(Nat) /\ \A i \in DOMAIN p : IsScalar(p[i])

\* One after the other.
LEMMA JoinIs ==
    ASSUME NEW s \in Data, NEW t \in Data
    PROVE  /\ s \o t \in Data /\ Len(s \o t) = Len(s) + Len(t)
           /\ \A i \in 1 .. Len(s) : (s \o t)[i] = s[i]
           /\ \A i \in 1 .. Len(t) : (s \o t)[Len(s) + i] = t[i]
<1>1. /\ s \o t \in Seq(Byte) /\ Len(s \o t) = Len(s) + Len(t)
      /\ \A i \in 1 .. (Len(s) + Len(t)) :
            (s \o t)[i] = IF i <= Len(s) THEN s[i] ELSE t[i - Len(s)]
  BY SMT, ConcatProperties DEF Data
<1>2. Len(s) \in Nat /\ Len(t) \in Nat
  BY SMT DEF Data
<1>3. ASSUME NEW i \in 1 .. Len(s) PROVE (s \o t)[i] = s[i]
  BY SMT, <1>1, <1>2
<1>4. ASSUME NEW i \in 1 .. Len(t) PROVE (s \o t)[Len(s) + i] = t[i]
  <2>1. Len(s) + i \in 1 .. (Len(s) + Len(t)) /\ ~(Len(s) + i <= Len(s)) /\ Len(s) + i - Len(s) = i
    BY SMT, <1>2
  <2> QED BY SMT, <1>1, <2>1
<1> QED BY SMT, <1>1, <1>3, <1>4 DEF Data

\* q is the part of s from m to n.
PartOf(q, s, m, n) ==
    /\ q \in Data /\ Len(q) = IF m <= n THEN n - m + 1 ELSE 0
    /\ \A i \in 1 .. (n - m + 1) : q[i] = s[m + i - 1]

\* A part from m to n is one.
LEMMA PartIs ==
    ASSUME NEW s \in Data, NEW m \in Nat, m >= 1, NEW n \in Int, n <= Len(s)
    PROVE  PartOf(SubSeq(s, m, n), s, m, n)
<1>1. \A i \in m .. n : s[i] \in Byte
  BY SMT DEF Data
<1>2. m \in Int /\ n \in Int
  BY SMT
<1> QED BY ONLY SMT, <1>1, <1>2, SubSeqProperties DEF Data, PartOf

\* Two are the same if they have the same bytes.
LEMMA SameBytes ==
    ASSUME NEW s \in Data, NEW t \in Data, Len(s) = Len(t), \A i \in 1 .. Len(s) : s[i] = t[i]
    PROVE  s = t
BY SMT, SeqEqual DEF Data

\* One to four bytes.
LEMMA FewBytes ==
    ASSUME NEW a \in Byte, NEW b \in Byte, NEW c \in Byte, NEW d \in Byte, NEW s
    PROVE  /\ s = <<a>> => s \in Data /\ Len(s) = 1
           /\ s = <<a, b>> => s \in Data /\ Len(s) = 2
           /\ s = <<a, b, c>> => s \in Data /\ Len(s) = 3
           /\ s = <<a, b, c, d>> => s \in Data /\ Len(s) = 4
<1>1. ASSUME s = <<a>> PROVE s \in Seq(Byte) /\ Len(s) = 1
  BY SMT, <1>1
<1>2. ASSUME s = <<a, b>> PROVE s \in Seq(Byte) /\ Len(s) = 2
  BY SMT, <1>2
<1>3. ASSUME s = <<a, b, c>> PROVE s \in Seq(Byte) /\ Len(s) = 3
  BY SMT, <1>3
<1>4. ASSUME s = <<a, b, c, d>> PROVE s \in Seq(Byte) /\ Len(s) = 4
  BY SMT, <1>4
<1> QED BY Zenon, <1>1, <1>2, <1>3, <1>4 DEF Data

\* What a word of two bytes can be.
Units == {u \in Nat : u <= 65535}

\* The bytes of one unit in a format's order.
UnitOf(f, u) == IF f = UTF16LE THEN AsBytes(u) ELSE reverse_bytes(AsBytes(u))

\* A unit is two bytes.
LEMMA UnitBytes ==
    ASSUME NEW f, NEW u \in Units
    PROVE  UnitOf(f, u) \in Data /\ Len(UnitOf(f, u)) = 2
<1>1. \A x \in Units : x % 256 \in Byte /\ (x \div 256) % 256 \in Byte
  BY SMT DEF Byte, Units
<1>2. PICK a, b : a = u % 256 /\ b = (u \div 256) % 256
  BY Zenon
<1>3. a \in Byte /\ b \in Byte
  BY Zenon, <1>1, <1>2
<1>4. UnitOf(f, u) = <<a, b>> \/ UnitOf(f, u) = <<b, a>>
  BY SMT, <1>2 DEF UnitOf, AsBytes, reverse_bytes
<1> QED BY Zenon, <1>3, <1>4, FewBytes

\* The bytes of one unit, or of two.
LEMMA InOrderIs ==
    ASSUME NEW f, NEW u \in Units, NEW v \in Units
    PROVE  /\ InOrder(f, <<u>>) \in Data /\ Len(InOrder(f, <<u>>)) = 2
           /\ InOrder(f, <<u>>) = UnitOf(f, u)
           /\ InOrder(f, <<u, v>>) \in Data /\ Len(InOrder(f, <<u, v>>)) = 4
           /\ InOrder(f, <<u, v>>) = UnitOf(f, u) \o UnitOf(f, v)
<1>1. InOrder(f, <<u>>) = UnitOf(f, u) /\ InOrder(f, <<u, v>>) = UnitOf(f, u) \o UnitOf(f, v)
  BY SMT DEF InOrder, UnitOf
<1>2. PICK one, two : one = UnitOf(f, u) /\ two = UnitOf(f, v)
  BY Zenon
<1>3. one \in Data /\ Len(one) = 2 /\ two \in Data /\ Len(two) = 2
  BY Zenon, <1>2, UnitBytes
<1>4. one \o two \in Data /\ Len(one \o two) = 4
  <2>1. one \o two \in Data /\ Len(one \o two) = Len(one) + Len(two)
    BY Zenon, <1>3, JoinIs
  <2> QED BY SMT, <1>3, <2>1
<1> QED BY Zenon, <1>1, <1>2, <1>3, <1>4

\* Every code point takes one to four bytes, in UTF-16 two or four.
LEMMA FormIs ==
    ASSUME NEW f \in Formats, NEW c \in CodePoints, NEW s, s = Form(f, c)
    PROVE  /\ s \in Data /\ Len(s) \in {1, 2, 3, 4}
           /\ f # UTF8 => Len(s) = IF is_code_point_surrogate(c) THEN 4 ELSE 2
<1>1. CASE f = UTF8
  <2>0. s = Utf8Form(c)
    BY SMT, <1>1 DEF Form
  <2>1. CASE c < 128
    <3>1. s = <<c>> /\ c \in Byte
      BY SMT, <2>0, <2>1 DEF Utf8Form, CodePoints, Byte
    <3> QED BY SMT, <1>1, <3>1, FewBytes
  <2>2. CASE c >= 128 /\ c < 2048
    <3>1. PICK x, y : x = 192 + c \div 64 /\ y = 128 + (c % 64)
      BY SMT
    <3>2. s = <<x, y>> /\ x \in Byte /\ y \in Byte
      BY SMT, <2>0, <2>2, <3>1 DEF Utf8Form, CodePoints, Byte
    <3> QED BY SMT, <1>1, <3>2, FewBytes
  <2>3. CASE c >= 2048 /\ c < 65536
    <3>1. PICK x, y, z : x = 224 + c \div 4096 /\ y = 128 + ((c \div 64) % 64) /\ z = 128 + (c % 64)
      BY SMT
    <3>2. s = <<x, y, z>> /\ x \in Byte /\ y \in Byte /\ z \in Byte
      BY SMT, <2>0, <2>3, <3>1 DEF Utf8Form, CodePoints, Byte
    <3> QED BY SMT, <1>1, <3>2, FewBytes
  <2>4. CASE c >= 65536
    <3>1. PICK w, x, y, z : /\ w = 240 + c \div 262144 /\ x = 128 + ((c \div 4096) % 64)
                            /\ y = 128 + ((c \div 64) % 64) /\ z = 128 + (c % 64)
      BY SMT
    <3>2. w \in Byte /\ x \in Byte /\ y \in Byte /\ z \in Byte
      BY SMT, <2>4, <3>1 DEF CodePoints, Byte
    <3>3. s = <<w, x, y, z>>
      BY SMT, <2>0, <2>4, <3>1 DEF Utf8Form, CodePoints
    <3> QED BY SMT, <1>1, <3>2, <3>3, FewBytes
  <2> QED BY SMT, <2>1, <2>2, <2>3, <2>4 DEF CodePoints
<1>2. CASE f # UTF8 /\ c < 65536
  <2>1. c \in Units /\ s = InOrder(f, <<c>>)
    BY SMT, <1>2 DEF Form, Utf16Form, CodePoints, Units
  <2>2. s \in Data /\ Len(s) = 2
    BY Zenon, <2>1, InOrderIs
  <2> QED BY SMT, <1>2, <2>2 DEF is_code_point_surrogate, CodePoints
<1>3. CASE f # UTF8 /\ c >= 65536
  <2>1. PICK u, v : u = 55296 + (c - 65536) \div 1024 /\ v = 56320 + ((c - 65536) % 1024)
    BY SMT
  <2>2. u \in Units /\ v \in Units /\ ~(c < 65536)
    BY SMT, <1>3, <2>1 DEF CodePoints, Units
  <2>3. s = InOrder(f, <<u, v>>)
    BY SMT, <1>3, <2>1, <2>2 DEF Form, Utf16Form, CodePoints
  <2>4. s \in Data /\ Len(s) = 4
    <3>1. u \in Units /\ v \in Units
      BY SMT, <2>2
    <3> QED BY Zenon, <3>1, <2>3, InOrderIs
  <2> QED BY SMT, <1>3, <2>2, <2>4 DEF is_code_point_surrogate
<1> QED BY SMT, <1>1, <1>2, <1>3 DEF CodePoints

-----------------------------------------------------------------------------
(* A file of code points *)

\* Each is one.
LEMMA PointIs ==
    ASSUME NEW p, Points(p), NEW k \in 1 .. Len(p)
    PROVE  p[k] \in CodePoints /\ IsScalar(p[k])
BY SMT DEF Points, CodePoints, IsScalar

\* h has the bytes of the first n points, for each n.
Makes(f, p, n, h) == h = [k \in 0 .. n |-> IF k = 0 THEN <<>> ELSE h[k - 1] \o Form(f, p[k])]

\* Bytes takes its value from the function that makes it,
LEMMA BytesMade ==
    ASSUME NEW f, NEW p, NEW n
    PROVE  Bytes(f, p, n) = (CHOOSE h : Makes(f, p, n, h))[n]
BY DEF Bytes, Makes

\* There is such an h,
LEMMA MakesExists ==
    ASSUME NEW f \in Formats, NEW p, Points(p), NEW n \in 0 .. Len(p)
    PROVE  \E h \in [0 .. n -> Data] : Makes(f, p, n, h)
<1> DEFINE s == [k \in 1 .. n |-> [q \in Data |-> q \o Form(f, p[k])]]
<1>1. n \in Nat /\ <<>> \in Data
  BY SMT DEF Data, Points
<1>2. s \in [1 .. n -> [Data -> Data]]
  <2> SUFFICES ASSUME NEW k \in 1 .. n, NEW q \in Data PROVE q \o Form(f, p[k]) \in Data
    BY Zenon
  <2>1. k \in 1 .. Len(p)
    BY SMT DEF Points
  <2>2. Form(f, p[k]) \in Data
    BY Zenon, <2>1, PointIs, FormIs
  <2> QED BY Zenon, <2>2, JoinIs
<1>3. PICK h \in [0 .. n -> Data] : Unrolls(h, n, <<>>, s)
  <2> HIDE DEF s
  <2> QED BY Zenon, <1>1, <1>2, UnrollingExists
<1>4. ASSUME NEW k \in 0 .. n
      PROVE  h[k] = IF k = 0 THEN <<>> ELSE h[k - 1] \o Form(f, p[k])
  <2>1. CASE k = 0
    BY SMT, <1>3, <2>1 DEF Unrolls
  <2>2. CASE k # 0
    <3>1. k \in 1 .. n /\ k - 1 \in 0 .. n
      BY SMT, <1>1, <2>2
    <3>2. h[k] = s[k][h[k - 1]] /\ h[k - 1] \in Data
      BY Zenon, <1>3, <3>1 DEF Unrolls
    <3> QED BY Zenon, <2>2, <3>1, <3>2
  <2> QED BY Zenon, <2>1, <2>2
<1>5. h = [k \in 0 .. n |-> h[k]]
  BY Zenon
<1> QED BY Zenon, <1>4, <1>5 DEF Makes

\* and two agree as far as both go.
TwoMake(f, p, n, g, m, h) ==
    n \in Nat /\ m \in Nat /\ n <= m /\ Makes(f, p, n, g) /\ Makes(f, p, m, h)

\* and two that make it for different numbers of points agree where both do.
LEMMA MakesAgree ==
    ASSUME NEW f, NEW p, NEW n, NEW m, NEW g, NEW h, TwoMake(f, p, n, g, m, h)
    PROVE  \A k \in 0 .. n : g[k] = h[k]
<1>n. n \in Nat /\ m \in Nat /\ n <= m
  BY Zenon DEF TwoMake
<1> DEFINE S == {k \in 0 .. n : g[k] = h[k]}
<1>0. \A k \in 0 .. n : /\ g[k] = IF k = 0 THEN <<>> ELSE g[k - 1] \o Form(f, p[k])
                        /\ h[k] = IF k = 0 THEN <<>> ELSE h[k - 1] \o Form(f, p[k])
  <2>1. \A k \in 0 .. n : k \in 0 .. m
    BY SMT, <1>n
  <2> QED BY Zenon, <2>1 DEF TwoMake, Makes
<1>1. 0 \in S
  <2>1. 0 \in 0 .. n
    BY SMT, <1>n
  <2> QED BY Zenon, <1>0, <2>1
<1>2. ASSUME NEW k \in 0 .. n, k \in S /\ k < n PROVE k + 1 \in S
  <2>1. PICK l : l = k + 1 /\ l \in 0 .. n /\ l # 0 /\ l - 1 = k
    BY SMT, <1>n, <1>2
  <2>2. g[k] = h[k]
    BY Zenon, <1>2
  <2>3. g[l] = g[l - 1] \o Form(f, p[l]) /\ h[l] = h[l - 1] \o Form(f, p[l])
    BY Zenon, <1>0, <2>1
  <2> QED BY Zenon, <2>1, <2>2, <2>3
<1>3. \A k \in 0 .. n : k \in S
  <2> HIDE DEF S
  <2> QED BY Zenon, <1>n, <1>1, <1>2, InductTo
<1> QED BY Zenon, <1>3

\* The bytes of n points are those of one fewer and those of the last.
LEMMA BytesAre ==
    ASSUME NEW f \in Formats, NEW p, Points(p)
    PROVE  /\ Bytes(f, p, 0) = <<>>
           /\ \A n \in 0 .. Len(p) : Bytes(f, p, n) \in Data
           /\ \A n \in 0 .. Len(p) : n < Len(p) =>
                  Bytes(f, p, n + 1) = Bytes(f, p, n) \o Form(f, p[n + 1])
<1>0. Len(p) \in Nat
  BY SMT DEF Points
<1>1. ASSUME NEW n \in 0 .. Len(p)
      PROVE  \E h \in [0 .. n -> Data] : Makes(f, p, n, h) /\ Bytes(f, p, n) = h[n]
  <2>1. PICK g \in [0 .. n -> Data] : Makes(f, p, n, g)
    BY Zenon, MakesExists
  <2>2. PICK h : h = CHOOSE c : Makes(f, p, n, c)
    BY Zenon
  <2>3. Makes(f, p, n, h)
    BY Zenon, <2>1, <2>2
  <2>4. n \in Nat /\ n \in 0 .. n /\ n <= n
    BY SMT, <1>0
  <2>5. g[n] = h[n]
    <3>1. TwoMake(f, p, n, g, n, h)
      BY Zenon, <2>1, <2>3, <2>4 DEF TwoMake
    <3>2. \A k \in 0 .. n : g[k] = h[k]
      BY ONLY SMT, <3>1, MakesAgree
    <3> QED BY ONLY Zenon, <2>4, <3>2
  <2> QED BY Zenon, <2>1, <2>2, <2>5, BytesMade
<1>2. Bytes(f, p, 0) = <<>>
  <2>1. 0 \in 0 .. Len(p) /\ 0 \in 0 .. 0
    BY SMT, <1>0
  <2>2. PICK h : Makes(f, p, 0, h) /\ Bytes(f, p, 0) = h[0]
    BY Zenon, <1>1, <2>1
  <2> QED BY Zenon, <2>1, <2>2 DEF Makes
<1>3. ASSUME NEW n \in 0 .. Len(p) PROVE Bytes(f, p, n) \in Data
  <2>1. n \in 0 .. n
    BY SMT, <1>0
  <2> QED BY Zenon, <1>1, <2>1
<1>4. ASSUME NEW n \in 0 .. Len(p), n < Len(p)
      PROVE  Bytes(f, p, n + 1) = Bytes(f, p, n) \o Form(f, p[n + 1])
  <2>1. PICK m : /\ m = n + 1 /\ m \in 0 .. Len(p) /\ n \in 0 .. n /\ m \in 0 .. m /\ m # 0
                 /\ m - 1 = n /\ n \in Nat /\ m \in Nat /\ n <= m
    BY SMT, <1>0, <1>4
  <2>2. PICK g : Makes(f, p, n, g) /\ Bytes(f, p, n) = g[n]
    BY Zenon, <1>1
  <2>3. PICK h : Makes(f, p, m, h) /\ Bytes(f, p, m) = h[m]
    BY Zenon, <1>1, <2>1
  <2>4. g[n] = h[n]
    <3>1. TwoMake(f, p, n, g, m, h)
      BY Zenon, <2>1, <2>2, <2>3 DEF TwoMake
    <3>2. \A k \in 0 .. n : g[k] = h[k]
      BY ONLY SMT, <3>1, MakesAgree
    <3> QED BY ONLY Zenon, <2>1, <3>2
  <2>5. h[m] = h[m - 1] \o Form(f, p[m])
    BY Zenon, <2>1, <2>3 DEF Makes
  <2> QED BY Zenon, <2>1, <2>2, <2>3, <2>4, <2>5
<1> QED BY Zenon, <1>2, <1>3, <1>4

\* The byte order marks.
LEMMA BomIs ==
    ASSUME NEW f \in Formats
    PROVE  BomBytes(f) \in Data /\ Len(BomBytes(f)) = IF f = UTF8 THEN 3 ELSE 2
<1>0. 239 \in Byte /\ 187 \in Byte /\ 191 \in Byte /\ 255 \in Byte /\ 254 \in Byte
  BY SMT DEF Byte
<1>1. PICK a, b, c, d, e : a = 239 /\ b = 187 /\ c = 191 /\ d = 255 /\ e = 254
  BY SMT
<1>2. BomBytes(f) = IF f = UTF8 THEN <<a, b, c>> ELSE IF f = UTF16LE THEN <<d, e>> ELSE <<e, d>>
  BY SMT, <1>1 DEF BomBytes, Formats, UTF8, UTF16LE, UTF16BE
<1>3. a \in Byte /\ b \in Byte /\ c \in Byte /\ d \in Byte /\ e \in Byte
  BY SMT, <1>0, <1>1
<1>4. CASE f = UTF8
  <2>1. BomBytes(f) = <<a, b, c>>
    BY Zenon, <1>2, <1>4
  <2> QED BY Zenon, <1>3, <1>4, <2>1, FewBytes
<1>5. CASE f # UTF8
  <2>1. BomBytes(f) = <<d, e>> \/ BomBytes(f) = <<e, d>>
    BY Zenon, <1>2, <1>5
  <2> QED BY Zenon, <1>3, <1>5, <2>1, FewBytes
<1> QED BY Zenon, <1>4, <1>5

\* What more points add comes behind what there is.
LEMMA BytesGrow ==
    ASSUME NEW f \in Formats, NEW p, Points(p), NEW n \in 0 .. Len(p)
    PROVE  \A m \in 0 .. Len(p) : n <= m =>
              /\ Len(Bytes(f, p, n)) <= Len(Bytes(f, p, m))
              /\ n < m => Len(Bytes(f, p, n)) < Len(Bytes(f, p, m))
              /\ \A i \in 1 .. Len(Bytes(f, p, n)) : Bytes(f, p, m)[i] = Bytes(f, p, n)[i]
<1> DEFINE Behind(m) == /\ Len(Bytes(f, p, n)) <= Len(Bytes(f, p, m))
                        /\ n < m => Len(Bytes(f, p, n)) < Len(Bytes(f, p, m))
                        /\ \A i \in 1 .. Len(Bytes(f, p, n)) : Bytes(f, p, m)[i] = Bytes(f, p, n)[i]
           S == {m \in 0 .. Len(p) : n <= m => Behind(m)}
<1>0. Len(p) \in Nat /\ n \in Nat
  BY SMT DEF Points
<1>n. PICK b : b = Bytes(f, p, n) /\ b \in Data
  BY Zenon, BytesAre
<1>1. 0 \in S
  <2>1. n <= 0 => n = 0
    BY SMT, <1>0
  <2>2. n = 0 => Behind(0)
    BY SMT, <1>n DEF Data
  <2>3. 0 \in 0 .. Len(p)
    BY SMT, <1>0
  <2> HIDE DEF Behind
  <2> QED BY Zenon, <2>1, <2>2, <2>3
<1>2. ASSUME NEW m \in 0 .. Len(p), m \in S /\ m < Len(p) PROVE m + 1 \in S
  <2>0. m + 1 \in 0 .. Len(p)
    BY SMT, <1>0, <1>2
  <2>1. CASE n <= m
    <3>1. PICK c, g : c = Bytes(f, p, m) /\ c \in Data /\ g = Form(f, p[m + 1])
      BY Zenon, BytesAre
    <3>2. g \in Data /\ Len(g) \in {1, 2, 3, 4}
      <4>1. m + 1 \in 1 .. Len(p)
        BY SMT, <1>0, <1>2
      <4>2. p[m + 1] \in CodePoints
        BY Zenon, <4>1, PointIs
      <4> QED BY Zenon, <3>1, <4>2, FormIs
    <3>3. Bytes(f, p, m + 1) = c \o g
      BY Zenon, <1>2, <3>1, BytesAre
    <3>4. /\ c \o g \in Data /\ Len(c \o g) = Len(c) + Len(g)
          /\ \A i \in 1 .. Len(c) : (c \o g)[i] = c[i]
      BY Zenon, <3>1, <3>2, JoinIs
    <3>5. Len(b) <= Len(c) /\ \A i \in 1 .. Len(b) : c[i] = b[i]
      BY Zenon, <1>2, <1>n, <2>1, <3>1
    <3>6. PICK d : d = c \o g
      BY Zenon
    <3>l. Len(b) \in Nat /\ Len(c) \in Nat
      BY SMT, <1>n, <3>1 DEF Data
    <3>7. Len(b) < Len(d) /\ Len(b) <= Len(d) /\ \A i \in 1 .. Len(b) : d[i] = b[i]
      <4>1. Len(d) = Len(c) + Len(g) /\ \A i \in 1 .. Len(c) : d[i] = c[i]
        BY Zenon, <3>4, <3>6
      <4>2. Len(b) < Len(d) /\ Len(b) <= Len(d)
        <5>1. Len(g) \in {1, 2, 3, 4} /\ Len(b) <= Len(c) /\ Len(d) = Len(c) + Len(g)
          BY ONLY Zenon, <3>2, <3>5, <4>1
        <5>2. \A x, y, z, l : /\ x \in Nat /\ y \in Nat /\ z \in {1, 2, 3, 4} /\ x <= y
                              /\ l = y + z
                              => x < l /\ x <= l
          BY ONLY SMT
        <5> QED BY ONLY Zenon, <3>l, <5>1, <5>2
      <4>3. \A i \in 1 .. Len(b) : i \in 1 .. Len(c)
        BY ONLY SMT, <3>5, <3>l
      <4> QED BY ONLY Zenon, <3>5, <4>1, <4>2, <4>3
    <3>8. Behind(m + 1)
      BY Zenon, <1>n, <3>3, <3>6, <3>7
    <3> HIDE DEF Behind
    <3> QED BY Zenon, <2>0, <3>8
  <2>2. CASE ~(n <= m)
    <3>1. n <= m + 1 => n = m + 1
      BY SMT, <1>0, <2>2
    <3>2. n = m + 1 => Behind(m + 1)
      BY SMT, <1>0, <1>n DEF Data
    <3> HIDE DEF Behind
    <3> QED BY Zenon, <2>0, <3>1, <3>2
  <2> QED BY Zenon, <2>1, <2>2
<1>3. \A m \in 0 .. Len(p) : m \in S
  <2> HIDE DEF S
  <2> QED BY Zenon, <1>0, <1>1, <1>2, InductTo
<1> QED BY Zenon, <1>3

\* Where point n + 1 begins in a file.
Begins(f, p, n) == Len(BomBytes(f)) + Len(Bytes(f, p, n))

\* A file is its mark and its points' bytes,
LEMMA FileIs ==
    ASSUME NEW f \in Formats, NEW p, Points(p)
    PROVE  /\ File(f, p) \in Data /\ Len(File(f, p)) = Begins(f, p, Len(p))
           /\ \A i \in 1 .. Len(BomBytes(f)) : File(f, p)[i] = BomBytes(f)[i]
           /\ Begins(f, p, 0) = Len(BomBytes(f))
<1>1. Len(p) \in 0 .. Len(p) /\ 0 \in 0 .. Len(p)
  BY SMT DEF Points
<1>2. BomBytes(f) \in Data /\ Bytes(f, p, Len(p)) \in Data /\ Bytes(f, p, 0) = <<>>
  BY Zenon, <1>1, BytesAre, BomIs
<1>3. PICK a, b : a = BomBytes(f) /\ b = Bytes(f, p, Len(p))
  BY Zenon
<1>4. Len(<<>>) = 0 /\ (a \in Data => Len(a) + 0 = Len(a))
  BY SMT DEF Data
<1> QED BY Zenon, <1>2, <1>3, <1>4, JoinIs DEF File, Begins

\* with the form of each point where it begins and the next one behind it.
LEMMA PointInFile ==
    ASSUME NEW f \in Formats, NEW p, Points(p), NEW n \in 0 .. Len(p), n < Len(p),
           NEW g, g = Form(f, p[n + 1])
    PROVE  /\ p[n + 1] \in CodePoints /\ IsScalar(p[n + 1])
           /\ g \in Data /\ Begins(f, p, n) \in Nat
           /\ n + 1 \in 0 .. Len(p)
           /\ Begins(f, p, n + 1) = Begins(f, p, n) + Len(g)
           /\ Begins(f, p, n) + Len(g) <= Len(File(f, p))
           /\ \A j \in 1 .. Len(g) : File(f, p)[Begins(f, p, n) + j] = g[j]
<1>0. PICK m : /\ m = n + 1 /\ m \in 1 .. Len(p) /\ m \in 0 .. Len(p) /\ m <= Len(p)
               /\ Len(p) \in 0 .. Len(p)
  BY SMT DEF Points
<1>1. p[m] \in CodePoints /\ IsScalar(p[m])
  BY Zenon, <1>0, PointIs
<1>2. g \in Data
  BY Zenon, <1>0, <1>1, FormIs
<1>3. PICK a, b, c, e : /\ a = BomBytes(f) /\ b = Bytes(f, p, n) /\ c = Bytes(f, p, m)
                        /\ e = Bytes(f, p, Len(p))
  BY Zenon
<1>4. a \in Data /\ b \in Data /\ c \in Data /\ e \in Data /\ c = b \o g
  BY Zenon, <1>0, <1>3, BytesAre, BomIs
<1>5. Len(c) = Len(b) + Len(g) /\ \A j \in 1 .. Len(g) : c[Len(b) + j] = g[j]
  <2>1. /\ Len(b \o g) = Len(b) + Len(g)
        /\ \A j \in 1 .. Len(g) : (b \o g)[Len(b) + j] = g[j]
    BY Zenon, <1>2, <1>4, JoinIs
  <2>2. c = b \o g
    BY Zenon, <1>4
  <2> QED BY ONLY Zenon, <2>1, <2>2
<1>6. Len(c) <= Len(e) /\ \A j \in 1 .. Len(c) : e[j] = c[j]
  <2>1. /\ Len(Bytes(f, p, m)) <= Len(Bytes(f, p, Len(p)))
        /\ \A j \in 1 .. Len(Bytes(f, p, m)) : Bytes(f, p, Len(p))[j] = Bytes(f, p, m)[j]
    <3>1. \A k \in 0 .. Len(p) : m <= k =>
             /\ Len(Bytes(f, p, m)) <= Len(Bytes(f, p, k))
             /\ m < k => Len(Bytes(f, p, m)) < Len(Bytes(f, p, k))
             /\ \A j \in 1 .. Len(Bytes(f, p, m)) : Bytes(f, p, k)[j] = Bytes(f, p, m)[j]
      BY SMT, <1>0, BytesGrow
    <3> QED BY ONLY Zenon, <1>0, <3>1
  <2> QED BY ONLY Zenon, <1>3, <2>1
<1>7. PICK d : d = a \o e
  BY Zenon
<1>8. Len(d) = Len(a) + Len(e) /\ \A j \in 1 .. Len(e) : d[Len(a) + j] = e[j]
  <2>1. /\ Len(a \o e) = Len(a) + Len(e)
        /\ \A j \in 1 .. Len(e) : (a \o e)[Len(a) + j] = e[j]
    BY Zenon, <1>4, JoinIs
  <2> QED BY ONLY Zenon, <1>7, <2>1
<1>9. Len(a) \in Nat /\ Len(b) \in Nat /\ Len(c) \in Nat /\ Len(e) \in Nat /\ Len(g) \in Nat
  BY SMT, <1>2, <1>4 DEF Data
<1>10. PICK o : o = Len(a) + Len(b)
  BY Zenon
<1>11. \A j \in 1 .. Len(g) : d[o + j] = g[j]
  <2> SUFFICES ASSUME NEW j \in 1 .. Len(g) PROVE d[o + j] = g[j]
    BY Zenon
  <2>1. Len(b) + j \in 1 .. Len(c) /\ Len(b) + j \in 1 .. Len(e) /\ Len(a) + (Len(b) + j) = o + j
    BY ONLY SMT, <1>5, <1>6, <1>9, <1>10
  <2> QED BY ONLY Zenon, <1>5, <1>6, <1>8, <2>1
<1>12. o \in Nat /\ o + Len(g) <= Len(d) /\ Len(a) + Len(c) = o + Len(g)
  BY ONLY SMT, <1>5, <1>6, <1>8, <1>9, <1>10
<1> QED BY Zenon, <1>0, <1>1, <1>2, <1>3, <1>7, <1>10, <1>11, <1>12 DEF File, Begins

\* t is what is left of s when n bytes at its end are cut off.
CutTo(t, s, n) ==
    /\ t \in Data /\ Len(t) = IF n <= Len(s) THEN Len(s) - n ELSE 0
    /\ \A i \in 1 .. Len(t) : t[i] = s[i]
    /\ n = 0 => t = s

\* A file cut short is its beginning.
LEMMA CutIs ==
    ASSUME NEW s \in Data, NEW n \in Nat, NEW t, t = SubSeq(s, 1, Len(s) - n)
    PROVE  CutTo(t, s, n)
<1>0. Len(s) \in Nat
  BY SMT DEF Data
<1>1. PICK m : m = Len(s) - n /\ m \in Int /\ m <= Len(s) /\ 1 \in Nat /\ 1 >= 1
  BY SMT, <1>0
<1>2. /\ t \in Data /\ Len(t) = IF 1 <= m THEN m - 1 + 1 ELSE 0
      /\ \A i \in 1 .. (m - 1 + 1) : t[i] = s[1 + i - 1]
  <2>1. /\ SubSeq(s, 1, m) \in Data
        /\ Len(SubSeq(s, 1, m)) = IF 1 <= m THEN m - 1 + 1 ELSE 0
        /\ \A i \in 1 .. (m - 1 + 1) : SubSeq(s, 1, m)[i] = s[1 + i - 1]
    BY Zenon, <1>1, PartIs DEF PartOf
  <2>2. t = SubSeq(s, 1, m)
    BY Zenon, <1>1
  <2> QED BY ONLY Zenon, <2>1, <2>2
<1>3. Len(t) = IF n <= Len(s) THEN Len(s) - n ELSE 0
  BY ONLY SMT, <1>0, <1>1, <1>2
<1>4. \A i \in 1 .. Len(t) : t[i] = s[i]
  BY ONLY SMT, <1>0, <1>1, <1>2
<1>5. ASSUME n = 0 PROVE t = s
  <2>1. Len(t) = Len(s)
    BY ONLY SMT, <1>0, <1>3, <1>5
  <2> QED BY Zenon, <1>2, <1>4, <2>1, SameBytes
<1> QED BY Zenon, <1>2, <1>3, <1>4, <1>5 DEF CutTo

-----------------------------------------------------------------------------
(* Reading and writing *)

\* Buffers of n bytes.
Buffer(n) == [1 .. n -> Byte]

\* What is read is there to be read.
LEMMA GotIs ==
    ASSUME NEW o \in Nat, NEW n \in Nat, infile \in Data
    PROVE  /\ Got(o, n) \in Nat /\ Got(o, n) <= n
           /\ o <= Len(infile) => o + Got(o, n) <= Len(infile)
           /\ o + n <= Len(infile) => Got(o, n) = n
           /\ o <= Len(infile) /\ ~(o + n <= Len(infile)) => o + Got(o, n) = Len(infile)
           /\ o >= Len(infile) /\ n > 0 => Got(o, n) = 0
<1>1. Len(infile) \in Nat
  BY SMT DEF Data
<1> QED BY SMT, <1>1 DEF Got

\* t is a buffer b of m bytes after a read of n bytes from o on to place i: the file's
\* where it read, and elsewhere its own.
Filled(t, m, b, i, o, n) ==
    /\ t \in Buffer(m)
    /\ \A k \in 1 .. m : t[k] = IF i <= k /\ k < i + Got(o, n) THEN infile[o + k - i + 1] ELSE b[k]

\* A read fills the buffer so.
LEMMA ReadIs ==
    ASSUME NEW m \in Nat, NEW b \in Buffer(m), NEW i \in Nat, i >= 1, NEW o \in Nat, NEW n \in Nat,
           infile \in Data
    PROVE  Filled(ReadInto(b, i, o, n), m, b, i, o, n)
<1>1. DOMAIN b = 1 .. m
  BY Zenon DEF Buffer
<1>2. ReadInto(b, i, o, n) =
          [k \in 1 .. m |-> IF i <= k /\ k < i + Got(o, n) THEN infile[o + k - i + 1] ELSE b[k]]
  BY Zenon, <1>1 DEF ReadInto
<1>3. ASSUME NEW k \in 1 .. m
      PROVE  (IF i <= k /\ k < i + Got(o, n) THEN infile[o + k - i + 1] ELSE b[k]) \in Byte
  <2>1. CASE i <= k /\ k < i + Got(o, n)
    <3>0. Got(o, n) \in Nat /\ Len(infile) \in Nat
      <4>1. Len(infile) \in Nat
        BY SMT DEF Data
      <4> QED BY Zenon, <4>1, GotIs
    <3>1. Got(o, n) > 0
      BY SMT, <2>1, <3>0
    <3>2. o + Got(o, n) <= Len(infile)
      <4>1. ~(o >= Len(infile) /\ n > 0)
        BY SMT, <3>1, <3>0, GotIs
      <4>2. n > 0
        BY SMT, <3>0, <3>1, GotIs
      <4>3. o <= Len(infile)
        BY SMT, <4>1, <4>2, <3>0
      <4> QED BY SMT, <4>3, GotIs
    <3>3. o + k - i + 1 \in 1 .. Len(infile)
      BY SMT, <2>1, <3>0, <3>2
    <3>4. infile[o + k - i + 1] \in Byte
      BY SMT, <3>3 DEF Data
    <3> QED BY Zenon, <2>1, <3>4
  <2>2. CASE ~(i <= k /\ k < i + Got(o, n))
    <3>1. b[k] \in Byte
      BY Zenon DEF Buffer
    <3> QED BY Zenon, <2>2, <3>1
  <2> QED BY Zenon, <2>1, <2>2
<1>4. PICK F : F = [k \in 1 .. m |-> IF i <= k /\ k < i + Got(o, n) THEN infile[o + k - i + 1] ELSE b[k]]
  BY Zenon
<1>5. F \in Buffer(m)
  BY Zenon, <1>3, <1>4 DEF Buffer
<1>6. \A k \in 1 .. m : F[k] = IF i <= k /\ k < i + Got(o, n) THEN infile[o + k - i + 1] ELSE b[k]
  BY ONLY Zenon, <1>4
<1> QED BY Zenon, <1>2, <1>4, <1>5, <1>6 DEF Filled

\* A write leaves bytes, and puts what it writes behind what was written.
LEMMA WrittenIs ==
    ASSUME outfile \in Data, wpos \in 0 .. Len(outfile), NEW g \in Data, write(g)
    PROVE  /\ outfile' \in Data /\ wpos' \in 0 .. Len(outfile') /\ wpos' = wpos + Len(g)
           /\ SubSeq(outfile, 1, wpos) \in Data
           /\ SubSeq(outfile', 1, wpos') = SubSeq(outfile, 1, wpos) \o g
<1>0. Len(outfile) \in Nat /\ wpos \in Nat /\ wpos <= Len(outfile) /\ Len(g) \in Nat /\ 1 \in Nat /\ 1 >= 1
  BY SMT DEF Data
<1>1. PICK a, z : a = SubSeq(outfile, 1, wpos) /\ z = SubSeq(outfile, wpos + Len(g) + 1, Len(outfile))
  BY Zenon
<1>2. a \in Data /\ Len(a) = wpos
  <2>1. /\ SubSeq(outfile, 1, wpos) \in Data
        /\ Len(SubSeq(outfile, 1, wpos)) = IF 1 <= wpos THEN wpos - 1 + 1 ELSE 0
    <3>1. wpos \in Int
      BY SMT, <1>0
    <3> QED BY Zenon, <1>0, <3>1, PartIs DEF PartOf
  <2>2. (IF 1 <= wpos THEN wpos - 1 + 1 ELSE 0) = wpos
    BY ONLY SMT, <1>0
  <2> QED BY ONLY Zenon, <1>1, <2>1, <2>2
<1>3. z \in Data
  <2>1. PICK m, n : m = wpos + Len(g) + 1 /\ n = Len(outfile) /\ m \in Nat /\ m >= 1 /\ n \in Int /\ n <= Len(outfile)
    BY ONLY SMT, <1>0
  <2>2. SubSeq(outfile, m, n) \in Data
    BY Zenon, <2>1, PartIs DEF PartOf
  <2> QED BY ONLY Zenon, <1>1, <2>1, <2>2
<1>4. PICK h, d : h = a \o g /\ d = h \o z
  BY Zenon
<1>5. outfile' = d /\ wpos' = wpos + Len(g)
  BY Zenon, <1>1, <1>4 DEF write
<1>6. h \in Data /\ Len(h) = wpos + Len(g)
  <2>1. a \o g \in Data /\ Len(a \o g) = Len(a) + Len(g)
    BY Zenon, <1>2, JoinIs
  <2> QED BY ONLY Zenon, <1>2, <1>4, <2>1
<1>7. d \in Data /\ Len(d) = Len(h) + Len(z) /\ \A i \in 1 .. Len(h) : d[i] = h[i]
  <2>1. h \o z \in Data /\ Len(h \o z) = Len(h) + Len(z) /\ \A i \in 1 .. Len(h) : (h \o z)[i] = h[i]
    BY Zenon, <1>3, <1>6, JoinIs
  <2> QED BY ONLY Zenon, <1>4, <2>1
<1>8. PICK n : n = wpos + Len(g) /\ n \in Nat /\ n \in Int /\ n <= Len(d)
  <2>1. Len(z) \in Nat
    BY SMT, <1>3 DEF Data
  <2> QED BY ONLY SMT, <1>0, <1>6, <1>7, <2>1
<1>9. SubSeq(d, 1, n) = h
  <2>1. PICK t : t = SubSeq(d, 1, n)
    BY Zenon
  <2>2. /\ t \in Data /\ Len(t) = IF 1 <= n THEN n - 1 + 1 ELSE 0
        /\ \A i \in 1 .. (n - 1 + 1) : t[i] = d[1 + i - 1]
    <3>1. /\ SubSeq(d, 1, n) \in Data /\ Len(SubSeq(d, 1, n)) = IF 1 <= n THEN n - 1 + 1 ELSE 0
          /\ \A i \in 1 .. (n - 1 + 1) : SubSeq(d, 1, n)[i] = d[1 + i - 1]
      BY Zenon, <1>0, <1>7, <1>8, PartIs DEF PartOf
    <3> QED BY ONLY Zenon, <2>1, <3>1
  <2>3. Len(t) = n /\ n - 1 + 1 = n /\ \A i \in 1 .. n : 1 + i - 1 = i
    BY ONLY SMT, <1>8, <2>2
  <2>4. Len(t) = Len(h) /\ \A i \in 1 .. Len(t) : t[i] = h[i]
    <3>1. Len(h) = n
      BY ONLY Zenon, <1>6, <1>8
    <3>2. \A i \in 1 .. n : t[i] = d[i]
      BY ONLY Zenon, <2>2, <2>3
    <3>3. \A i \in 1 .. n : d[i] = h[i]
      BY ONLY Zenon, <1>7, <3>1
    <3>4. \A i \in 1 .. n : t[i] = h[i]
      BY ONLY Zenon, <3>2, <3>3
    <3> QED BY ONLY Zenon, <2>3, <3>1, <3>4
  <2> QED BY Zenon, <1>6, <2>1, <2>2, <2>4, SameBytes
<1>10. wpos' \in 0 .. Len(outfile')
  BY ONLY SMT, <1>5, <1>8
<1> QED BY Zenon, <1>1, <1>2, <1>4, <1>5, <1>7, <1>8, <1>9, <1>10

\* Whatever number the encoders are given, they make bytes of it,
LEMMA EncodedAreBytes ==
    ASSUME NEW f, NEW c \in Nat
    PROVE  code_point_to_utf8_glyph(c) \in Data /\ InOrder(f, code_point_to_utf16_glyph(c)) \in Data
<1>1. code_point_to_utf8_glyph(c) \in Data
  <2>1. PICK w, v, u, x, y, z : /\ w = 240 + ((c \div 262144) % 8) /\ v = 224 + ((c \div 4096) % 16)
                                /\ u = 192 + ((c \div 64) % 32) /\ z = Continuation(c)
                                /\ y = Continuation(c \div 64) /\ x = Continuation(c \div 4096)
    BY SMT
  <2>2. /\ u \in Byte /\ v \in Byte /\ w \in Byte /\ x \in Byte /\ y \in Byte /\ z \in Byte
    <3>1. \A k \in Nat : /\ 128 + (k % 64) \in Byte /\ 192 + (k % 32) \in Byte
                         /\ 224 + (k % 16) \in Byte /\ 240 + (k % 8) \in Byte
      BY SMT DEF Byte
    <3>2. c \div 64 \in Nat /\ c \div 4096 \in Nat /\ c \div 262144 \in Nat
      BY SMT
    <3>3. PICK k, l, m : k = c \div 64 /\ l = c \div 4096 /\ m = c \div 262144
      BY SMT
    <3>4. k \in Nat /\ l \in Nat /\ m \in Nat
      BY ONLY SMT, <3>2, <3>3
    <3>5. /\ w = 240 + (m % 8) /\ v = 224 + (l % 16) /\ u = 192 + (k % 32)
          /\ z = 128 + (c % 64) /\ y = 128 + (k % 64) /\ x = 128 + (l % 64)
      BY SMT, <2>1, <3>3 DEF Continuation
    <3>6. PICK e : e = c /\ e \in Nat
      BY SMT
    <3> QED BY ONLY SMT, <3>1, <3>4, <3>5, <3>6
  <2>3. PICK s : s = code_point_to_utf8_glyph(c)
    BY Zenon
  <2>4. \/ s = <<c>> /\ c \in Byte
        \/ s = <<u, z>> \/ s = <<v, y, z>> \/ s = <<w, x, y, z>>
    BY SMT, <2>1, <2>3 DEF code_point_to_utf8_glyph, utf8_glyph_size_of_code_point, Byte
  <2>5. s \in Data
    <3>1. ASSUME s = <<c>>, c \in Byte PROVE s \in Data
      BY Zenon, <3>1, FewBytes
    <3>2. ASSUME s = <<u, z>> PROVE s \in Data
      BY Zenon, <2>2, <3>2, FewBytes
    <3>3. ASSUME s = <<v, y, z>> PROVE s \in Data
      BY Zenon, <2>2, <3>3, FewBytes
    <3>4. ASSUME s = <<w, x, y, z>> PROVE s \in Data
      BY Zenon, <2>2, <3>4, FewBytes
    <3> QED BY ONLY Zenon, <2>4, <3>1, <3>2, <3>3, <3>4
  <2> QED BY ONLY Zenon, <2>3, <2>5
<1>2. InOrder(f, code_point_to_utf16_glyph(c)) \in Data
  <2>1. CASE is_code_point_surrogate(c)
    <3>1. PICK u, v : u = ((c - 65536) \div 1024 + 55296) % 65536 /\ v = ((c - 65536) % 1024) + 56320
      BY SMT
    <3>2. u \in Units /\ v \in Units
      BY SMT, <2>1, <3>1 DEF is_code_point_surrogate, Units
    <3>3. code_point_to_utf16_glyph(c) = <<u, v>>
      BY SMT, <2>1, <3>1 DEF code_point_to_utf16_glyph
    <3>4. InOrder(f, <<u, v>>) \in Data
      BY ONLY Zenon, <3>2, InOrderIs
    <3> QED BY ONLY Zenon, <3>3, <3>4
  <2>2. CASE ~is_code_point_surrogate(c)
    <3>1. c \in Units
      BY SMT, <2>2 DEF is_code_point_surrogate, Units
    <3>2. code_point_to_utf16_glyph(c) = <<c>>
      BY SMT, <2>2 DEF code_point_to_utf16_glyph
    <3>3. InOrder(f, <<c>>) \in Data
      BY ONLY Zenon, <3>1, InOrderIs
    <3> QED BY ONLY Zenon, <3>2, <3>3
  <2> QED BY Zenon, <2>1, <2>2
<1> QED BY Zenon, <1>1, <1>2

\* and whatever bytes the decoders are given, they make a number of them.
LEMMA DecodedIsNumber ==
    /\ \A b \in Buffer(4) : \A x :
                               /\ remaining_utf8_bytes(x) \in {0, 1, 2, 3}
                               /\ utf8_decode(remaining_utf8_bytes(x) + 1, b) \in Nat
    /\ \A u \in Units, l \in Units : utf16_glyph_to_code_point(u, l) \in Nat
    /\ \A b \in Buffer(2) : Word(b) \in Units /\ reverse_bytes(b) \in Buffer(2)
<1>1. ASSUME NEW b \in Buffer(4), NEW x
      PROVE  /\ remaining_utf8_bytes(x) \in {0, 1, 2, 3}
             /\ utf8_decode(remaining_utf8_bytes(x) + 1, b) \in Nat
  <2>1. remaining_utf8_bytes(x) \in {0, 1, 2, 3}
    BY SMT DEF remaining_utf8_bytes
  <2>2. b[1] \in Byte /\ b[2] \in Byte /\ b[3] \in Byte /\ b[4] \in Byte
    BY SMT DEF Buffer
  <2>3. ASSUME NEW k \in {1, 2, 3, 4} PROVE utf8_decode(k, b) \in Nat
    <3>1. PICK v, w, a, y : /\ v = b[1] /\ w = b[2] /\ a = b[3] /\ y = b[4]
                            /\ v \in Nat /\ w \in Nat /\ a \in Nat /\ y \in Nat
      BY SMT, <2>2 DEF Byte
    <3>2. /\ (v % 32) * 64 + (w % 64) \in Nat
          /\ (v % 16) * 4096 + (w % 64) * 64 + (a % 64) \in Nat
          /\ (v % 8) * 262144 + (w % 64) * 4096 + (a % 64) * 64 + (y % 64) \in Nat
      BY SMT, <3>1
    <3> QED BY ONLY SMT, <3>1, <3>2 DEF utf8_decode
  <2>4. remaining_utf8_bytes(x) + 1 \in {1, 2, 3, 4}
    BY SMT, <2>1
  <2> QED BY Zenon, <2>1, <2>3, <2>4
<1>2. ASSUME NEW u \in Units, NEW l \in Units PROVE utf16_glyph_to_code_point(u, l) \in Nat
  <2>1. CASE is_upper_surrogate_pair(u)
    <3>1. PICK h, m, r : h = u - 55296 /\ m = (l - 56320) \div 1024 /\ r = (l - 56320) % 1024
      BY SMT
    <3>2. h \in TenBits /\ m \in Int /\ r \in Nat
      BY SMT, <2>1, <3>1 DEF is_upper_surrogate_pair, Units, TenBits
    <3>3. Or(h, m) \in Int /\ Or(h, m) >= -64
      BY ONLY Zenon, <3>2, OrIs
    <3>4. utf16_glyph_to_code_point(u, l) = 1024 * Or(h, m) + r + 65536
      BY ONLY SMT, <2>1, <3>1 DEF utf16_glyph_to_code_point
    <3> QED BY ONLY SMT, <3>2, <3>3, <3>4
  <2>2. CASE ~is_upper_surrogate_pair(u)
    BY SMT, <2>2 DEF utf16_glyph_to_code_point, Units
  <2> QED BY Zenon, <2>1, <2>2
<1>3. ASSUME NEW b \in Buffer(2) PROVE Word(b) \in Units /\ reverse_bytes(b) \in Buffer(2)
  <2>1. b[1] \in Byte /\ b[2] \in Byte
    BY SMT DEF Buffer
  <2>2. Word(b) \in Units
    <3>1. \A v \in Byte, w \in Byte : v + 256 * w \in Units
      BY ONLY SMT DEF Byte, Units
    <3> QED BY SMT, <2>1, <3>1 DEF Word
  <2>3. reverse_bytes(b) \in [1 .. 2 -> Byte]
    <3>1. PICK s : s = <<b[2], b[1]>>
      BY Zenon
    <3>2. s \in Data /\ Len(s) = 2
      BY Zenon, <2>1, <3>1, FewBytes
    <3>3. s \in [1 .. Len(s) -> Byte]
      BY Zenon, <3>2, LenProperties DEF Data
    <3> QED BY ONLY Zenon, <3>1, <3>2, <3>3 DEF reverse_bytes
  <2> QED BY Zenon, <2>2, <2>3 DEF Buffer
<1> QED BY Zenon, <1>1, <1>2, <1>3

\* A buffer of two bytes as the bytes of a file.
LEMMA BufferIsData ==
    ASSUME NEW b \in Buffer(2)
    PROVE  b \in Data /\ Len(b) = 2
<1>1. b \in [1 .. 2 -> Byte] /\ 2 \in Nat
  BY SMT DEF Buffer
<1>2. b \in Seq(Byte)
  BY Zenon, <1>1, SeqDef
<1>3. Len(b) = 2
  BY SMT, <1>1, <1>2
<1> QED BY Zenon, <1>2, <1>3 DEF Data

-----------------------------------------------------------------------------
(* Types *)

Phases == {"args", "bom", "open", "convert", "done", "failed", "crashed"}

\* TypeOK in parts, with what main relies on once check_bom has looked at the file.
ArgsRead ==
    /\ case.args \in Seq(STRING) /\ optind \in 1 .. (Len(case.args) + 1)
    /\ encoding_to \in Formats \cup {0} /\ encoding_from \in Formats \cup {0}
FilesOpen ==
    /\ infile \in Data /\ off \in 0 .. Len(infile)
    /\ outfile \in Data /\ wpos \in 0 .. Len(outfile)
    /\ phase = "open" => /\ encoding_from \in Formats
                         /\ bom_length \in {2, 3} /\ 3 <= Len(infile)
BuffersKept == utf8_buf \in Buffer(4) /\ upper \in Buffer(2) /\ lower \in Buffer(2)
Types == phase \in Phases /\ ArgsRead /\ FilesOpen /\ BuffersKept

\* The parts say TypeOK.
LEMMA TypesAreTypeOK == Types => TypeOK
<1> SUFFICES ASSUME Types PROVE TypeOK
  BY Zenon
<1>1. phase \in {"args", "bom", "open", "convert"} \/ Ended
  BY SMT DEF Types, Phases, Ended
<1>2. \A i \in DOMAIN outfile : outfile[i] \in Byte
  BY SMT DEF Types, FilesOpen, Data
<1> QED BY Zenon, <1>1, <1>2 DEF Types, ArgsRead, FilesOpen, BuffersKept, Buffer, TypeOK

\* A case of the program's.
LEMMA TypesAtFirst == Init => Types
<1> SUFFICES ASSUME Init PROVE Types
  BY Zenon
<1>1. PICK c \in Cases, j \in Junk :
          /\ case = [args |-> c.args, from |-> c.from, points |-> c.points, cut |-> c.cut,
                     junk |-> j]
          /\ infile = SubSeq(File(c.from, c.points), 1, Len(File(c.from, c.points)) - c.cut)
          /\ outfile = c.old
          /\ utf8_buf = j.utf8 /\ upper = j.upper /\ lower = j.lower
  BY Zenon DEF Init
<1>2. /\ c.from \in Formats /\ c.cut \in Nat /\ Points(c.points)
      /\ c.args \in Seq(STRING) /\ c.old \in Data
  BY Zenon, CasesAssumption DEF Points, Data
<1>3. infile \in Data
  <2>1. PICK s : s = File(c.from, c.points)
    BY Zenon
  <2>2. s \in Data
    BY Zenon, <1>2, <2>1, FileIs
  <2> QED BY Zenon, <1>1, <1>2, <2>1, <2>2, CutIs DEF CutTo
<1>4. BuffersKept
  BY Zenon, <1>1, JunkAssumption DEF BuffersKept, Buffer
<1>5. case.args = c.args
  BY Zenon, <1>1
<1>6. /\ phase = "args" /\ optind = 1 /\ encoding_to = 0 /\ encoding_from = 0
      /\ off = 0 /\ wpos = 0
  BY Zenon DEF Init
<1>7. \A s : s \in Seq(STRING) => 1 \in 1 .. (Len(s) + 1)
  BY SMT
<1>8. \A s \in Data : 0 \in 0 .. Len(s)
  BY SMT DEF Data
<1>9. phase \in Phases /\ phase # "open"
  BY SMT, <1>6 DEF Phases
<1> QED BY Zenon, <1>1, <1>2, <1>3, <1>4, <1>5, <1>6, <1>7, <1>8, <1>9
        DEF Types, ArgsRead, FilesOpen

\* The end of main, and of parse_args.
LEMMA StopKeepsTypes ==
    ASSUME Types, NEW how \in Phases \ {"open"}, Stop(how)
    PROVE  Types'
BY SMT DEF Types, ArgsRead, FilesOpen, BuffersKept, Stop, state, buffers

\* parse_args changes its own variables, and the format to one it names.
LEMMA ParseArgKeepsTypes ==
    ASSUME Types, ParseArg
    PROVE  Types'
<1> DEFINE format == determine_format(optarg)
<1>0. Len(case.args) \in Nat /\ optind \in Nat
  BY SMT DEF Types, ArgsRead
<1>1. \/ Stop("done") \/ Stop("failed")
      \/ /\ optind' \in {optind + 1, optind + 2} /\ optind' <= Len(case.args) + 1
         /\ UNCHANGED <<case, phase, encoding_to, encoding_from, bom_length, infile, off, outfile,
                        wpos, buffers>>
      \/ /\ optind' \in {optind + 1, optind + 2} /\ optind' <= Len(case.args) + 1
         /\ format # 0 /\ encoding_to' = format
         /\ UNCHANGED <<case, phase, encoding_from, bom_length, infile, off, outfile, wpos, buffers>>
  <2>1. optarg # NULL /\ apart => optind < Len(case.args)
    BY SMT DEF optarg
  <2> QED BY SMT, <1>0, <2>1 DEF ParseArg, state
<1> HIDE DEF format
<1>2. CASE Stop("done") \/ Stop("failed")
  BY SMT, <1>2, StopKeepsTypes DEF Phases
<1>3. CASE /\ optind' \in {optind + 1, optind + 2} /\ optind' <= Len(case.args) + 1
           /\ UNCHANGED <<case, phase, encoding_to, encoding_from, bom_length, infile, off, outfile,
                          wpos, buffers>>
  BY SMT, <1>0, <1>3 DEF Types, ArgsRead, FilesOpen, BuffersKept, buffers
<1>4. CASE /\ optind' \in {optind + 1, optind + 2} /\ optind' <= Len(case.args) + 1
           /\ format # 0 /\ encoding_to' = format
           /\ UNCHANGED <<case, phase, encoding_from, bom_length, infile, off, outfile, wpos, buffers>>
  <2>1. format \in Formats
    BY Zenon, <1>4, FormatNamed DEF format
  <2> QED BY SMT, <1>0, <1>4, <2>1 DEF Types, ArgsRead, FilesOpen, BuffersKept, buffers
<1> QED BY SMT, <1>1, <1>2, <1>3, <1>4

\* check_bom lets a file through only if it has three bytes and a mark.
LEMMA CheckBomKeepsTypes ==
    ASSUME Types, check_bom
    PROVE  Types'
<1>1. CASE Stop("failed")
  BY SMT, <1>1, StopKeepsTypes DEF Phases
<1>2. CASE ~Stop("failed")
  <2>1. /\ phase' = "open" /\ encoding_from' \in Formats /\ bom_length' \in {2, 3}
        /\ ~(Len(infile) < 3)
        /\ UNCHANGED <<case, optind, in_file, out_file, encoding_to,
                       infile, off, outfile, wpos, buffers>>
    BY SMT, <1>2 DEF check_bom, Formats
  <2>2. 3 <= Len(infile)
    BY SMT, <2>1 DEF Types, FilesOpen, Data
  <2>3. phase' \in Phases
    BY SMT, <2>1 DEF Phases
  <2> QED BY SMT, <2>1, <2>2, <2>3 DEF Types, ArgsRead, FilesOpen, BuffersKept, buffers
<1> QED BY Zenon, <1>1, <1>2

\* What each step that writes leaves alone, and what it moves.
Moves ==
    /\ phase' \in {"convert", "done"}
    /\ UNCHANGED <<case, optind, state, infile>>
    /\ off' \in 0 .. Len(infile)
    /\ BuffersKept'
    /\ \E g \in Data : write(g)

\* Any step that reads within the input and writes bytes.
LEMMA MovesKeepTypes ==
    ASSUME Types, Moves
    PROVE  Types'
<1>1. PICK g \in Data : write(g)
  BY Zenon DEF Moves
<1>2. outfile' \in Data /\ wpos' \in 0 .. Len(outfile')
  BY Zenon, <1>1, WrittenIs DEF Types, FilesOpen
<1>3. phase' \in Phases /\ phase' # "open"
  BY SMT DEF Moves, Phases
<1> QED BY Zenon, <1>2, <1>3 DEF Types, ArgsRead, FilesOpen, Moves, state

\* main starts a conversion within the input, which has its mark,
LEMMA OpenFilesKeepsTypes ==
    ASSUME Types, OpenFiles
    PROVE  Types'
<1>1. CASE Stop("failed") \/ Stop("crashed")
  BY SMT, <1>1, StopKeepsTypes DEF Phases
<1>2. CASE ~(Stop("failed") \/ Stop("crashed"))
  <2>1. /\ phase = "open" /\ UNCHANGED <<case, optind, state, infile, buffers>>
        /\ \/ /\ write(SubSeq(infile, bom_length + 1, Len(infile)))
              /\ off' = Len(infile) /\ phase' = "done"
           \/ /\ write(BomBytes(get_encoding_function[2]))
              /\ get_encoding_function # <<>> /\ get_encoding_function # <<"transcribe">>
              /\ off' = bom_length /\ phase' = "convert"
    BY SMT, <1>2 DEF OpenFiles
  <2>2. BuffersKept'
    BY Zenon, <2>1 DEF Types, BuffersKept, buffers
  <2>3. bom_length \in {2, 3} /\ 3 <= Len(infile) /\ Len(infile) \in Nat
    BY SMT, <2>1 DEF Types, FilesOpen, Data
  <2>4. CASE /\ write(SubSeq(infile, bom_length + 1, Len(infile)))
             /\ off' = Len(infile) /\ phase' = "done"
    <3>1. PICK m, n : m = bom_length + 1 /\ n = Len(infile) /\ m \in Nat /\ m >= 1 /\ n \in Int /\ n <= Len(infile)
      BY SMT, <2>3
    <3>2. SubSeq(infile, m, n) \in Data
      BY Zenon, <3>1, PartIs DEF PartOf, Types, FilesOpen
    <3>3. off' \in 0 .. Len(infile)
      BY SMT, <2>3, <2>4
    <3> QED BY Zenon, <2>1, <2>2, <2>4, <3>1, <3>2, <3>3, MovesKeepTypes DEF Moves
  <2>5. CASE /\ write(BomBytes(get_encoding_function[2]))
             /\ get_encoding_function # <<>> /\ get_encoding_function # <<"transcribe">>
             /\ off' = bom_length /\ phase' = "convert"
    <3>1. get_encoding_function[2] \in Formats
      BY SMT, <2>5 DEF get_encoding_function, Formats
    <3>2. BomBytes(get_encoding_function[2]) \in Data
      BY Zenon, <3>1, BomIs
    <3>3. off' \in 0 .. Len(infile)
      BY SMT, <2>3, <2>5
    <3> QED BY Zenon, <2>1, <2>2, <2>5, <3>2, <3>3, MovesKeepTypes DEF Moves
  <2> QED BY Zenon, <2>1, <2>4, <2>5
<1> QED BY Zenon, <1>1, <1>2

\* and the loops read what there is and write the bytes of a number.
LEMMA FromUtf8KeepsTypes ==
    ASSUME Types, NEW to, FromUtf8(to)
    PROVE  Types'
<1>1. PICK first, x, remaining, buf, c :
          /\ first = ReadInto(utf8_buf, 1, off, 1) /\ x = first[1]
          /\ remaining = remaining_utf8_bytes(x)
          /\ buf = ReadInto(first, 2, off + 1, remaining)
          /\ c = utf8_decode(remaining + 1, buf)
  BY Zenon
<1>2. /\ phase = "convert" /\ off < Len(infile) /\ UNCHANGED <<case, phase, optind, state, infile>>
      /\ utf8_buf' = buf /\ off' = off + 1 + Got(off + 1, remaining)
      /\ write(InOrder(to, code_point_to_utf16_glyph(c)))
      /\ UNCHANGED <<upper, lower>>
  BY Zenon, <1>1 DEF FromUtf8, Converting
<1>3. infile \in Data /\ off \in Nat /\ Len(infile) \in Nat /\ off + 1 \in Nat /\ off + 1 <= Len(infile)
  BY SMT, <1>2 DEF Types, FilesOpen, Data
<1>4. 1 \in Nat /\ 2 \in Nat /\ 4 \in Nat /\ 1 >= 1 /\ 2 >= 1
  BY SMT
<1>5. first \in Buffer(4)
  BY Zenon, <1>1, <1>3, <1>4, ReadIs DEF Types, BuffersKept, Filled
<1>6. remaining \in {0, 1, 2, 3} /\ remaining \in Nat
  BY SMT, <1>1, <1>5, DecodedIsNumber
<1>7. buf \in Buffer(4)
  BY Zenon, <1>1, <1>3, <1>4, <1>5, <1>6, ReadIs DEF Filled
<1>8. c \in Nat
  BY Zenon, <1>1, <1>7, DecodedIsNumber
<1>9. InOrder(to, code_point_to_utf16_glyph(c)) \in Data
  BY Zenon, <1>8, EncodedAreBytes
<1>10. off' \in 0 .. Len(infile)
  <2>1. PICK o, n : o = off + 1 /\ n = Got(o, remaining)
    BY Zenon
  <2>2. n \in Nat /\ o + n <= Len(infile)
    BY Zenon, <1>3, <1>6, <2>1, GotIs
  <2> QED BY SMT, <1>2, <1>3, <2>1, <2>2
<1>11. BuffersKept'
  BY Zenon, <1>2, <1>7 DEF Types, BuffersKept
<1> QED BY Zenon, <1>2, <1>9, <1>10, <1>11, MovesKeepTypes DEF Moves

\* Two reads of two bytes each, the second if there is need to.
LEMMA TwoReadsAreThere ==
    ASSUME infile \in Data, NEW o \in 0 .. Len(infile), NEW pair \in BOOLEAN
    PROVE  o + Got(o, 2) + (IF pair THEN Got(o + 2, 2) ELSE 0) \in 0 .. Len(infile)
<1>1. Len(infile) \in Nat /\ o \in Nat /\ 2 \in Nat /\ o <= Len(infile) /\ 2 > 0
  BY SMT DEF Data
<1>2. PICK m, n, q : m = Got(o, 2) /\ q = o + 2 /\ n = Got(q, 2)
  BY Zenon
<1>3. q \in Nat
  BY SMT, <1>1, <1>2
<1>4. m \in Nat /\ o + m <= Len(infile) /\ (o + 2 <= Len(infile) => m = 2)
  BY Zenon, <1>1, <1>2, GotIs
<1>5. n \in Nat /\ (q <= Len(infile) => q + n <= Len(infile)) /\ (q >= Len(infile) => n = 0)
  BY Zenon, <1>1, <1>2, <1>3, GotIs
<1>6. q = o + 2
  BY Zenon, <1>2
<1>8. CASE q <= Len(infile)
  <2>1. m = 2 /\ q + n <= Len(infile)
    BY Zenon, <1>2, <1>4, <1>5, <1>8
  <2>2. o + m + (IF pair THEN n ELSE 0) \in 0 .. Len(infile)
    BY ONLY SMT, <1>1, <1>3, <1>4, <1>5, <1>6, <2>1
  <2> QED BY ONLY Zenon, <1>2, <2>2
<1>9. CASE ~(q <= Len(infile))
  <2>1. n = 0
    BY SMT, <1>1, <1>3, <1>5, <1>9
  <2>2. o + m + (IF pair THEN n ELSE 0) \in 0 .. Len(infile)
    BY ONLY SMT, <1>1, <1>4, <2>1
  <2> QED BY ONLY Zenon, <1>2, <2>2
<1> QED BY Zenon, <1>8, <1>9

\* The loops from UTF-16 to UTF-8,
LEMMA FromUtf16KeepsTypes ==
    ASSUME Types, NEW from, FromUtf16(from)
    PROVE  Types'
<1> DEFINE Order(b) == IF from = UTF16BE THEN reverse_bytes(b) ELSE b
<1>1. PICK a, b, up, low, pair, c :
          /\ a = ReadInto(upper, 1, off, 2) /\ b = ReadInto(lower, 1, off + 2, 2)
          /\ up = Order(a) /\ low = Order(b)
          /\ pair = is_upper_surrogate_pair(Word(up))
          /\ c = utf16_glyph_to_code_point(Word(up), Word(lower'))
  BY Zenon
<1>2. /\ phase = "convert" /\ off < Len(infile) /\ UNCHANGED <<case, phase, optind, state, infile>>
      /\ upper' = up /\ lower' = IF pair THEN low ELSE lower
      /\ off' = off + Got(off, 2) + (IF pair THEN Got(off + 2, 2) ELSE 0)
      /\ write(code_point_to_utf8_glyph(c))
      /\ UNCHANGED utf8_buf
  BY Zenon, <1>1 DEF FromUtf16, Converting
<1>3. infile \in Data /\ off \in 0 .. Len(infile) /\ off \in Nat /\ off + 2 \in Nat
  BY SMT, <1>2 DEF Types, FilesOpen, Data
<1>4. 1 \in Nat /\ 2 \in Nat /\ 1 >= 1 /\ pair \in BOOLEAN
  BY SMT, <1>1 DEF is_upper_surrogate_pair
<1>5. a \in Buffer(2) /\ b \in Buffer(2)
  BY Zenon, <1>1, <1>3, <1>4, ReadIs DEF Types, BuffersKept, Filled
<1>6. up \in Buffer(2) /\ low \in Buffer(2)
  BY Zenon, <1>1, <1>5, DecodedIsNumber
<1>7. lower' \in Buffer(2)
  BY Zenon, <1>2, <1>6 DEF Types, BuffersKept
<1>8. c \in Nat
  BY Zenon, <1>1, <1>6, <1>7, DecodedIsNumber
<1>9. code_point_to_utf8_glyph(c) \in Data
  BY Zenon, <1>8, EncodedAreBytes
<1>10. off' \in 0 .. Len(infile)
  BY Zenon, <1>2, <1>3, <1>4, TwoReadsAreThere
<1>11. BuffersKept'
  BY Zenon, <1>2, <1>6, <1>7 DEF Types, BuffersKept
<1> QED BY Zenon, <1>2, <1>9, <1>10, <1>11, MovesKeepTypes DEF Moves

\* and between the two UTF-16 formats.
LEMMA SwapUtf16KeepsTypes ==
    ASSUME Types, NEW from, SwapUtf16(from)
    PROVE  Types'
<1>1. PICK a, b, up, low, pair :
          /\ a = ReadInto(upper, 1, off, 2) /\ b = ReadInto(lower, 1, off + 2, 2)
          /\ up = reverse_bytes(a) /\ low = reverse_bytes(b)
          /\ pair = is_lower_surrogate_pair(Word(lower))
  BY Zenon
<1>2. /\ phase = "convert" /\ off < Len(infile) /\ UNCHANGED <<case, phase, optind, state, infile>>
      /\ upper' = up /\ lower' = IF pair THEN low ELSE lower
      /\ off' = off + Got(off, 2) + (IF pair THEN Got(off + 2, 2) ELSE 0)
      /\ write(IF pair THEN up \o low ELSE up)
      /\ UNCHANGED utf8_buf
  BY Zenon, <1>1 DEF SwapUtf16, Converting
<1>3. infile \in Data /\ off \in 0 .. Len(infile) /\ off \in Nat /\ off + 2 \in Nat
  BY SMT, <1>2 DEF Types, FilesOpen, Data
<1>4. 1 \in Nat /\ 2 \in Nat /\ 1 >= 1 /\ pair \in BOOLEAN
  BY SMT, <1>1 DEF is_lower_surrogate_pair
<1>5. a \in Buffer(2) /\ b \in Buffer(2)
  BY Zenon, <1>1, <1>3, <1>4, ReadIs DEF Types, BuffersKept, Filled
<1>6. up \in Buffer(2) /\ low \in Buffer(2)
  BY Zenon, <1>1, <1>5, DecodedIsNumber
<1>7. lower' \in Buffer(2)
  BY Zenon, <1>2, <1>6 DEF Types, BuffersKept
<1>8. up \in Data /\ up \o low \in Data
  BY Zenon, <1>6, BufferIsData, JoinIs
<1>9. (IF pair THEN up \o low ELSE up) \in Data
  BY Zenon, <1>8
<1>10. off' \in 0 .. Len(infile)
  BY Zenon, <1>2, <1>3, <1>4, TwoReadsAreThere
<1>11. BuffersKept'
  BY Zenon, <1>2, <1>6, <1>7 DEF Types, BuffersKept
<1> QED BY Zenon, <1>2, <1>9, <1>10, <1>11, MovesKeepTypes DEF Moves

\* So every step keeps the types.
LEMMA NextKeepsTypes ==
    ASSUME Types, [Next]_vars
    PROVE  Types'
<1>1. CASE UNCHANGED vars
  BY SMT, <1>1 DEF Types, ArgsRead, FilesOpen, BuffersKept, vars, state, buffers
<1>2. CASE ArgsDone
  BY SMT, <1>2, StopKeepsTypes DEF ArgsDone, Phases
<1>3. CASE EndOfFile
  BY SMT, <1>3, StopKeepsTypes DEF EndOfFile, Phases
<1> QED BY Zenon, <1>1, <1>2, <1>3, ParseArgKeepsTypes, CheckBomKeepsTypes, OpenFilesKeepsTypes,
           FromUtf8KeepsTypes, FromUtf16KeepsTypes, SwapUtf16KeepsTypes
        DEF Next, from_utf8_to_utf16le, from_utf8_to_utf16be, from_utf16le_to_utf8,
            from_utf16be_to_utf8, from_utf16le_to_utf16be, from_utf16be_to_utf16le

\* The type invariant: whatever the arguments, however the input is cut off and whatever
\* the buffers held, no read passes the end of the input and no file position what was
\* written, and what is decoded and encoded is bytes.
THEOREM ConverterTypeCorrect == Spec => []TypeOK
<1>1. Init => Types
  BY TypesAtFirst
<1>2. Types /\ [Next]_vars => Types'
  BY NextKeepsTypes
<1>3. Types => TypeOK
  BY TypesAreTypeOK
<1> QED BY <1>1, <1>2, <1>3, PTL DEF Spec

-----------------------------------------------------------------------------
(* Reading glyphs *)

\* From o on, the file has the bytes of g, or what there is of them before it is cut off.
Has(o, g) ==
    /\ infile \in Data /\ g \in Data /\ Len(g) >= 1 /\ o \in Nat /\ o < Len(infile)
    /\ \A j \in 1 .. Len(g) : o + j <= Len(infile) => infile[o + j] = g[j]

\* What is read is the code point whose glyph is there, or, when its bytes are cut off, all
\* there is.
TakesIn(o, g, next, code_point, c) ==
    /\ o + Len(g) <= Len(infile) => next = o + Len(g) /\ code_point = c
    /\ ~(o + Len(g) <= Len(infile)) => next = Len(infile)

\* The first byte of a glyph tells how long it is.
LEMMA FirstByteTells ==
    ASSUME NEW c \in CodePoints
    PROVE  LET g == Utf8Form(c)
           IN  /\ g \in Data /\ Len(g) \in {1, 2, 3, 4}
               /\ remaining_utf8_bytes(g[1]) = Len(g) - 1
               /\ \A b \in Buffer(4) : (\A i \in 1 .. Len(g) : b[i] = g[i]) => utf8_decode(Len(g), b) = c
<1>1. PICK g : g = Utf8Form(c)
  BY Zenon
<1>2. g \in Data /\ Len(g) \in {1, 2, 3, 4} /\ g = code_point_to_utf8_glyph(c)
  <2>1. UTF8 \in Formats /\ g = Form(UTF8, c)
    BY SMT, <1>1 DEF Form, Formats
  <2>2. g \in Data /\ Len(g) \in {1, 2, 3, 4}
    BY Zenon, <2>1, FormIs
  <2> QED BY Zenon, <1>1, <2>2, Utf8IsTheForm
<1>3. DOMAIN g = 1 .. Len(g)
  BY SMT, <1>2 DEF Data
<1>4. ASSUME NEW b \in Buffer(4), \A i \in 1 .. Len(g) : b[i] = g[i]
      PROVE  /\ remaining_utf8_bytes(b[1]) + 1 = utf8_glyph_size_of_code_point(c)
             /\ utf8_decode(remaining_utf8_bytes(b[1]) + 1, b) = c
  <2>1. Holds(b, code_point_to_utf8_glyph(c))
    BY Zenon, <1>2, <1>3, <1>4 DEF Holds, Buffer
  <2> QED BY Zenon, <2>1, Utf8RoundTrip
<1>5. PICK b : b = [i \in 1 .. 4 |-> IF i <= Len(g) THEN g[i] ELSE g[1]]
  BY Zenon
<1>6. b \in Buffer(4) /\ \A i \in 1 .. Len(g) : b[i] = g[i]
  <2>1. \A i \in 1 .. Len(g) : g[i] \in Byte
    BY SMT, <1>2 DEF Data
  <2>2. 1 \in 1 .. Len(g) /\ \A i \in 1 .. 4 : i <= Len(g) => i \in 1 .. Len(g)
    BY SMT, <1>2
  <2>3. \A i \in 1 .. Len(g) : i \in 1 .. 4 /\ i <= Len(g)
    BY SMT, <1>2
  <2>4. b \in Buffer(4)
    BY Zenon, <1>5, <2>1, <2>2 DEF Buffer
  <2> QED BY Zenon, <1>5, <2>3, <2>4
<1>7. 1 \in 1 .. Len(g)
  BY SMT, <1>2
<1>8. Len(g) = utf8_glyph_size_of_code_point(c)
  <2>1. \A x, y, z, w : Len(<<x>>) = 1 /\ Len(<<x, y>>) = 2 /\ Len(<<x, y, z>>) = 3 /\ Len(<<x, y, z, w>>) = 4
    BY SMT
  <2> QED BY SMT, <1>1, <2>1 DEF Utf8Form, utf8_glyph_size_of_code_point, CodePoints
<1>9. remaining_utf8_bytes(g[1]) = Len(g) - 1
  <2>1. remaining_utf8_bytes(g[1]) + 1 = Len(g) /\ remaining_utf8_bytes(g[1]) \in {0, 1, 2, 3}
    BY Zenon, <1>4, <1>6, <1>7, <1>8, DecodedIsNumber
  <2> QED BY ONLY SMT, <2>1
<1>10. ASSUME NEW d \in Buffer(4), \A i \in 1 .. Len(g) : d[i] = g[i]
       PROVE  utf8_decode(Len(g), d) = c
  BY Zenon, <1>4, <1>8, <1>10
<1> QED BY Zenon, <1>1, <1>2, <1>9, <1>10

\* One turn of a loop that reads UTF-8 takes in the code point that is there, or, when its
\* bytes are cut off, all there is.
LEMMA ReadsUtf8 ==
    ASSUME NEW c \in CodePoints, NEW o, NEW g, g = Utf8Form(c), Has(o, g), NEW b \in Buffer(4),
           NEW first, NEW remaining, NEW buf,
           first = ReadInto(b, 1, o, 1), remaining = remaining_utf8_bytes(first[1]),
           buf = ReadInto(first, 2, o + 1, remaining)
    PROVE  TakesIn(o, g, o + 1 + Got(o + 1, remaining), utf8_decode(remaining + 1, buf), c)
<1>1. /\ infile \in Data /\ o \in Nat /\ Len(infile) \in Nat /\ o < Len(infile) /\ o + 1 \in Nat
      /\ o + 1 <= Len(infile) /\ 1 \in Nat /\ 2 \in Nat /\ 4 \in Nat /\ 1 >= 1 /\ 2 >= 1
  BY SMT DEF Has, Data
<1>2. g \in Data /\ Len(g) \in {1, 2, 3, 4} /\ remaining_utf8_bytes(g[1]) = Len(g) - 1
  BY Zenon, FirstByteTells
<1>3. first \in Buffer(4) /\ \A k \in 1 .. 4 :
          first[k] = IF 1 <= k /\ k < 1 + Got(o, 1) THEN infile[o + k - 1 + 1] ELSE b[k]
  <2>1. Filled(ReadInto(b, 1, o, 1), 4, b, 1, o, 1)
    BY Zenon, <1>1, ReadIs
  <2>2. first = ReadInto(b, 1, o, 1)
    BY Zenon
  <2> QED BY ONLY Zenon, <2>1, <2>2 DEF Filled
<1>4. first[1] = g[1]
  <2>1. Got(o, 1) = 1
    BY Zenon, <1>1, GotIs
  <2>2. 1 \in 1 .. 4 /\ 1 <= 1 /\ 1 < 1 + 1 /\ o + 1 - 1 + 1 = o + 1 /\ 1 \in 1 .. Len(g)
    BY SMT, <1>1, <1>2
  <2>3. infile[o + 1] = g[1]
    BY Zenon, <1>1, <2>2 DEF Has
  <2> QED BY Zenon, <1>3, <2>1, <2>2, <2>3
<1>5. PICK r : r = remaining /\ r = Len(g) - 1 /\ r \in Nat /\ r + 1 = Len(g)
  <2>1. remaining = Len(g) - 1
    BY Zenon, <1>2, <1>4
  <2> QED BY SMT, <1>2, <2>1
<1>6. PICK q : q = o + 1 /\ q \in Nat /\ q <= Len(infile)
  BY Zenon, <1>1
<1>7. ASSUME o + Len(g) <= Len(infile)
      PROVE  o + 1 + Got(o + 1, remaining) = o + Len(g) /\ utf8_decode(remaining + 1, buf) = c
  <2>1. q + r <= Len(infile) /\ q + r = o + Len(g)
    BY ONLY SMT, <1>1, <1>2, <1>5, <1>6, <1>7
  <2>2. Got(q, r) = r
    BY Zenon, <1>1, <1>5, <1>6, <2>1, GotIs
  <2>3. buf \in Buffer(4) /\ \A k \in 1 .. 4 :
            buf[k] = IF 2 <= k /\ k < 2 + Got(q, r) THEN infile[q + k - 2 + 1] ELSE first[k]
    <3>1. buf = ReadInto(first, 2, q, r)
      BY Zenon, <1>5, <1>6
    <3>2. Filled(ReadInto(first, 2, q, r), 4, first, 2, q, r)
      BY Zenon, <1>1, <1>3, <1>5, <1>6, ReadIs
    <3> QED BY ONLY Zenon, <3>1, <3>2 DEF Filled
  <2>4. ASSUME NEW k \in 1 .. Len(g) PROVE buf[k] = g[k]
    <3>1. k \in 1 .. 4 /\ k \in Nat
      <4>1. Len(g) \in {1, 2, 3, 4}
        BY Zenon, <1>2
      <4>2. PICK n : n = Len(g) /\ n \in {1, 2, 3, 4}
        BY ONLY Zenon, <4>1
      <4>3. \A i \in 1 .. n : i \in 1 .. 4 /\ i \in Nat
        BY ONLY SMT, <4>2
      <4> QED BY Zenon, <2>4, <4>2, <4>3
    <3>2. CASE k = 1
      <4>1. ~(2 <= k)
        BY SMT, <3>2
      <4> QED BY Zenon, <1>4, <2>3, <3>1, <3>2, <4>1
    <3>3. CASE k # 1
      <4>1. 2 <= k /\ k < 2 + r /\ q + k - 2 + 1 = o + k /\ o + k <= Len(infile)
        BY ONLY SMT, <1>1, <1>2, <1>5, <1>6, <1>7, <3>1, <3>3, <2>4
      <4>2. infile[o + k] = g[k]
        BY Zenon, <4>1 DEF Has
      <4> QED BY Zenon, <2>2, <2>3, <3>1, <4>1, <4>2
    <3> QED BY Zenon, <3>2, <3>3
  <2>5. utf8_decode(Len(g), buf) = c
    BY Zenon, <2>3, <2>4, FirstByteTells
  <2> QED BY Zenon, <1>5, <1>6, <2>1, <2>2, <2>5
<1>8. ASSUME ~(o + Len(g) <= Len(infile))
      PROVE  o + 1 + Got(o + 1, remaining) = Len(infile)
  <2>1. ~(q + r <= Len(infile))
    BY ONLY SMT, <1>1, <1>2, <1>5, <1>6, <1>8
  <2>2. q + Got(q, r) = Len(infile)
    BY Zenon, <1>1, <1>5, <1>6, <2>1, GotIs
  <2> QED BY Zenon, <1>5, <1>6, <2>2
<1> QED BY ONLY Zenon, <1>7, <1>8 DEF TakesIn

Utf16 == {UTF16LE, UTF16BE}

\* Two bytes in the order of the machine.
Ordered(f, b) == IF f = UTF16BE THEN reverse_bytes(b) ELSE b

\* The bytes of a unit, put in order, are the unit.
LEMMA UnitRead ==
    ASSUME NEW f \in Utf16, NEW u \in Units, NEW b \in Buffer(2),
           b[1] = UnitOf(f, u)[1], b[2] = UnitOf(f, u)[2]
    PROVE  Word(Ordered(f, b)) = u
<1>1. \A x \in Units : (x % 256) + 256 * ((x \div 256) % 256) = x
  BY SMT DEF Units
<1>2. PICK y, z : y = u % 256 /\ z = (u \div 256) % 256
  BY Zenon
<1>3. y + 256 * z = u
  BY Zenon, <1>1, <1>2
<1>4. CASE f = UTF16LE
  <2>1. f # UTF16BE
    BY SMT, <1>4 DEF UTF16LE, UTF16BE
  <2>2. b[1] = y /\ b[2] = z
    BY SMT, <1>2, <1>4 DEF UnitOf, AsBytes
  <2> QED BY SMT, <1>3, <2>1, <2>2 DEF Word, Ordered
<1>5. CASE f = UTF16BE
  <2>1. f # UTF16LE
    BY SMT, <1>5 DEF UTF16LE, UTF16BE
  <2>2. b[1] = z /\ b[2] = y
    BY SMT, <1>2, <2>1 DEF UnitOf, AsBytes, reverse_bytes
  <2> QED BY SMT, <1>3, <1>5, <2>2 DEF Word, Ordered, reverse_bytes
<1> QED BY Zenon, <1>4, <1>5 DEF Utf16

\* u, or u and v if u calls for a second one, are the units the program reads back as c.
ReadBack(u, v, c) ==
    IF is_upper_surrogate_pair(u) THEN utf16_glyph_to_code_point(u, v) = c
    ELSE \A w : utf16_glyph_to_code_point(u, w) = c

\* Every code point has such units but the surrogates and those at the edges.
LEMMA UnitsAre ==
    ASSUME NEW f \in Utf16, NEW c \in CodePoints, IsScalar(c), ~Edge(c)
    PROVE  \E u \in Units, v \in Units :
              /\ ReadBack(u, v, c)
              /\ Form(f, c) = IF is_upper_surrogate_pair(u) THEN UnitOf(f, u) \o UnitOf(f, v)
                              ELSE UnitOf(f, u)
<1>0. f # UTF8
  BY SMT DEF Utf16, UTF16LE, UTF16BE, UTF8
<1>1. CASE c < 65536
  <2>1. c \in Units /\ Form(f, c) = InOrder(f, <<c>>)
    BY SMT, <1>0, <1>1 DEF CodePoints, Units, Form, Utf16Form
  <2>2. ~is_upper_surrogate_pair(c)
    BY SMT DEF IsScalar, is_upper_surrogate_pair, CodePoints
  <2>3. ReadBack(c, c, c)
    <3>1. \A w : utf16_glyph_to_code_point(c, w) = c
      BY SMT, <2>2 DEF utf16_glyph_to_code_point
    <3> QED BY ONLY Zenon, <2>2, <3>1 DEF ReadBack
  <2>4. Form(f, c) = UnitOf(f, c)
    <3>1. InOrder(f, <<c>>) = UnitOf(f, c)
      BY ONLY Zenon, <2>1, InOrderIs
    <3> QED BY ONLY Zenon, <2>1, <3>1
  <2> QED BY ONLY Zenon, <2>1, <2>2, <2>3, <2>4
<1>2. CASE c >= 65536
  <2>1. PICK u, v : u = 55296 + (c - 65536) \div 1024 /\ v = 56320 + ((c - 65536) % 1024)
    BY SMT
  <2>2. ~(c < 65536)
    BY SMT, <1>2 DEF CodePoints
  <2>3. Utf16Form(c) = <<u, v>>
    BY SMT, <2>1, <2>2 DEF Utf16Form
  <2>4. u \in Units /\ v \in Units
    BY SMT, <1>2, <2>1 DEF CodePoints, Units
  <2>5. is_upper_surrogate_pair(u)
    <3>1. c >= 66560 /\ c < 1113088
      BY SMT, <1>2 DEF Edge, CodePoints
    <3> QED BY SMT, <2>1, <3>1 DEF is_upper_surrogate_pair, CodePoints
  <2>6. utf16_glyph_to_code_point(u, v) = c
    <3>1. u \in Upper /\ v \in Lower /\ Paired(u, v) = c
      BY SMT, <1>2, <2>1 DEF CodePoints, Upper, Lower, Paired
    <3> QED BY ONLY Zenon, <2>5, <3>1, PairIs
  <2>7. ReadBack(u, v, c)
    BY ONLY Zenon, <2>5, <2>6 DEF ReadBack
  <2>8. Form(f, c) = UnitOf(f, u) \o UnitOf(f, v)
    <3>1. Form(f, c) = InOrder(f, <<u, v>>)
      BY ONLY Zenon, <1>0, <2>3 DEF Form
    <3>2. InOrder(f, <<u, v>>) = UnitOf(f, u) \o UnitOf(f, v)
      BY ONLY Zenon, <2>4, InOrderIs
    <3> QED BY ONLY Zenon, <3>1, <3>2
  <2> QED BY ONLY Zenon, <2>4, <2>5, <2>7, <2>8
<1> QED BY SMT, <1>1, <1>2 DEF CodePoints

\* A unit's bytes are in the file behind o.
Stored(o, f, u) ==
    /\ o \in Nat /\ o + 2 <= Len(infile)
    /\ infile[o + 1] = UnitOf(f, u)[1] /\ infile[o + 2] = UnitOf(f, u)[2]

\* Two bytes that are there are read in.
LEMMA ReadsUnit ==
    ASSUME infile \in Data, NEW o, NEW b \in Buffer(2), NEW f \in Utf16, NEW u \in Units,
           Stored(o, f, u)
    PROVE  Word(Ordered(f, ReadInto(b, 1, o, 2))) = u
<1>0. PICK t : t = ReadInto(b, 1, o, 2)
  BY Zenon
<1>1. 1 \in Nat /\ 2 \in Nat /\ 1 >= 1 /\ o \in Nat /\ o + 2 <= Len(infile)
  BY SMT DEF Stored
<1>2. Filled(ReadInto(b, 1, o, 2), 2, b, 1, o, 2)
  BY Zenon, <1>1, ReadIs
<1>3. Filled(t, 2, b, 1, o, 2) /\ Got(o, 2) = 2
  BY Zenon, <1>0, <1>1, <1>2, GotIs
<1>4. /\ t \in Buffer(2)
      /\ \A k \in 1 .. 2 : t[k] = IF 1 <= k /\ k < 1 + 2 THEN infile[o + k - 1 + 1] ELSE b[k]
  BY ONLY Zenon, <1>3 DEF Filled
<1>5. /\ 1 \in 1 .. 2 /\ 2 \in 1 .. 2 /\ 1 <= 1 /\ 1 < 1 + 2 /\ 1 <= 2 /\ 2 < 1 + 2
      /\ o + 1 - 1 + 1 = o + 1 /\ o + 2 - 1 + 1 = o + 2
  BY SMT, <1>1
<1>6. t[1] = UnitOf(f, u)[1]
  BY Zenon, <1>4, <1>5 DEF Stored
<1>7. t[2] = UnitOf(f, u)[2]
  BY Zenon, <1>4, <1>5 DEF Stored
<1> QED BY Zenon, <1>0, <1>4, <1>6, <1>7, UnitRead

\* What one turn of a loop that reads UTF-16 takes from the input at o: a unit, and a second
\* one if the first is the upper half of a pair.
UnitsTaken(f, o, a, b, s, t, up, low, pair, next, l) ==
    /\ s = ReadInto(a, 1, o, 2) /\ t = ReadInto(b, 1, o + 2, 2)
    /\ up = Ordered(f, s) /\ low = Ordered(f, t)
    /\ pair = is_upper_surrogate_pair(Word(up))
    /\ next = o + Got(o, 2) + (IF pair THEN Got(o + 2, 2) ELSE 0)
    /\ l = IF pair THEN low ELSE b

\* One turn of a loop that reads UTF-16 takes in the code point that is there, or, when its
\* bytes are cut off, all there is.
LEMMA ReadsUtf16 ==
    ASSUME NEW f \in Utf16, NEW c \in CodePoints, IsScalar(c), ~Edge(c),
           NEW o, NEW g, g = Form(f, c), Has(o, g), NEW a \in Buffer(2), NEW b \in Buffer(2),
           NEW s, NEW t, NEW up, NEW low, NEW pair, NEW next, NEW l,
           UnitsTaken(f, o, a, b, s, t, up, low, pair, next, l)
    PROVE  TakesIn(o, g, next, utf16_glyph_to_code_point(Word(up), Word(l)), c)
<1> SUFFICES ASSUME s = ReadInto(a, 1, o, 2), t = ReadInto(b, 1, o + 2, 2),
                    up = Ordered(f, s), low = Ordered(f, t),
                    pair = is_upper_surrogate_pair(Word(up)),
                    next = o + Got(o, 2) + (IF pair THEN Got(o + 2, 2) ELSE 0),
                    l = IF pair THEN low ELSE b
             PROVE  TakesIn(o, g, next, utf16_glyph_to_code_point(Word(up), Word(l)), c)
  BY Zenon DEF UnitsTaken
<1> DEFINE code_point == utf16_glyph_to_code_point(Word(up), Word(IF pair THEN low ELSE b))
           Result == /\ o + Len(g) <= Len(infile) => next = o + Len(g) /\ code_point = c
                     /\ ~(o + Len(g) <= Len(infile)) => next = Len(infile)
<1> SUFFICES Result
  BY Zenon DEF TakesIn
<1>1. /\ infile \in Data /\ o \in Nat /\ Len(infile) \in Nat /\ o < Len(infile) /\ o <= Len(infile)
      /\ 2 \in Nat /\ 2 > 0
  BY SMT DEF Has, Data
<1>2. PICK u \in Units, v \in Units :
          /\ ReadBack(u, v, c)
          /\ g = IF is_upper_surrogate_pair(u) THEN UnitOf(f, u) \o UnitOf(f, v) ELSE UnitOf(f, u)
  BY Zenon, UnitsAre
<1>3. PICK U, V : U = UnitOf(f, u) /\ V = UnitOf(f, v)
  BY Zenon
<1>4. U \in Data /\ Len(U) = 2 /\ V \in Data /\ Len(V) = 2
  BY Zenon, <1>3, UnitBytes
<1>5. /\ is_upper_surrogate_pair(u) => g = U \o V
      /\ ~is_upper_surrogate_pair(u) => g = U
  BY Zenon, <1>2, <1>3
<1>6. /\ Len(U \o V) = 4 /\ (U \o V)[1] = U[1] /\ (U \o V)[2] = U[2]
      /\ (U \o V)[3] = V[1] /\ (U \o V)[4] = V[2]
  <2>1. /\ Len(U \o V) = Len(U) + Len(V) /\ \A i \in 1 .. Len(U) : (U \o V)[i] = U[i]
        /\ \A i \in 1 .. Len(V) : (U \o V)[Len(U) + i] = V[i]
    BY Zenon, <1>4, JoinIs
  <2>2. /\ Len(U \o V) = 2 + 2 /\ \A i \in 1 .. 2 : (U \o V)[i] = U[i]
        /\ \A i \in 1 .. 2 : (U \o V)[2 + i] = V[i]
    BY ONLY Zenon, <1>4, <2>1
  <2>3. 1 \in 1 .. 2 /\ 2 \in 1 .. 2 /\ 2 + 1 = 3 /\ 2 + 2 = 4
    BY SMT
  <2> QED BY ONLY Zenon, <2>2, <2>3
<1>7. g[1] = U[1] /\ g[2] = U[2] /\ (Len(g) = 2 \/ Len(g) = 4)
  BY Zenon, <1>4, <1>5, <1>6
<1>8. CASE o + 2 <= Len(infile)
  <2>1. /\ 1 \in 1 .. Len(g) /\ 2 \in 1 .. Len(g) /\ o + 1 <= Len(infile) /\ Got(o, 2) = 2
    <3>1. o + 1 <= Len(infile)
      BY SMT, <1>1, <1>8
    <3>2. 1 \in 1 .. Len(g) /\ 2 \in 1 .. Len(g)
      BY SMT, <1>7
    <3> QED BY Zenon, <1>1, <1>8, <3>1, <3>2, GotIs
  <2>2. infile[o + 1] = U[1] /\ infile[o + 2] = U[2]
    BY Zenon, <1>7, <1>8, <2>1 DEF Has
  <2>3. Word(up) = u
    <3>1. Stored(o, f, u)
      BY Zenon, <1>1, <1>3, <1>8, <2>2 DEF Stored
    <3> QED BY Zenon, <1>1, <3>1, ReadsUnit
  <2>4. CASE is_upper_surrogate_pair(u)
    <3>1. pair /\ Len(g) = 4 /\ g[3] = V[1] /\ g[4] = V[2]
      BY Zenon, <1>5, <1>6, <2>3, <2>4
    <3>2. PICK q : q = o + 2 /\ q \in Nat /\ q <= Len(infile)
      BY SMT, <1>1, <1>8
    <3>3. next = q + Got(q, 2)
      BY Zenon, <2>1, <3>1, <3>2
    <3>4. CASE o + Len(g) <= Len(infile)
      <4>1. /\ q + 2 <= Len(infile) /\ q + 2 = o + Len(g) /\ q + 1 = o + 3 /\ q + 2 = o + 4
            /\ o + 3 <= Len(infile) /\ o + 4 <= Len(infile)
            /\ 3 \in 1 .. Len(g) /\ 4 \in 1 .. Len(g)
        BY SMT, <1>1, <3>1, <3>2, <3>4
      <4>2. infile[q + 1] = V[1] /\ infile[q + 2] = V[2]
        BY Zenon, <3>1, <4>1 DEF Has
      <4>3. Word(low) = v
        <5>1. Stored(q, f, v)
          BY Zenon, <1>3, <3>2, <4>1, <4>2 DEF Stored
        <5> QED BY Zenon, <1>1, <3>2, <5>1, ReadsUnit
      <4>4. utf16_glyph_to_code_point(u, v) = c
        BY ONLY Zenon, <1>2, <2>4 DEF ReadBack
      <4>5. Got(q, 2) = 2
        BY Zenon, <1>1, <3>2, <4>1, GotIs
      <4> QED BY Zenon, <2>3, <3>1, <3>3, <3>4, <4>1, <4>3, <4>4, <4>5
    <3>5. CASE ~(o + Len(g) <= Len(infile))
      <4>1. ~(q + 2 <= Len(infile))
        BY SMT, <1>1, <3>1, <3>2, <3>5
      <4>2. q + Got(q, 2) = Len(infile)
        BY Zenon, <1>1, <3>2, <4>1, GotIs
      <4> QED BY Zenon, <3>3, <3>5, <4>2
    <3> QED BY Zenon, <3>4, <3>5
  <2>5. CASE ~is_upper_surrogate_pair(u)
    <3>1. ~pair /\ Len(g) = 2
      BY Zenon, <1>4, <1>5, <2>3, <2>5
    <3>2. next = o + 2 + 0 /\ o + 2 + 0 = o + 2
      <4>1. o + 2 + 0 = o + 2
        BY SMT, <1>1
      <4> QED BY Zenon, <2>1, <3>1, <4>1
    <3>3. utf16_glyph_to_code_point(u, Word(IF pair THEN low ELSE b)) = c
      <4>1. PICK z : z = Word(IF pair THEN low ELSE b)
        BY Zenon
      <4>2. ReadBack(u, v, c)
        BY Zenon, <1>2
      <4>3. \A w : utf16_glyph_to_code_point(u, w) = c
        BY ONLY Zenon, <2>5, <4>2 DEF ReadBack
      <4>4. utf16_glyph_to_code_point(u, z) = c
        BY ONLY Zenon, <4>3
      <4> QED BY ONLY Zenon, <4>1, <4>4
    <3>4. o + Len(g) = o + 2
      BY Zenon, <3>1
    <3>5. next = o + Len(g)
      BY ONLY Zenon, <3>2, <3>4
    <3> QED BY ONLY Zenon, <1>8, <2>3, <3>3, <3>4, <3>5
  <2> QED BY Zenon, <2>4, <2>5
<1>9. CASE ~(o + 2 <= Len(infile))
  <2>1. ~(o + Len(g) <= Len(infile))
    BY SMT, <1>1, <1>7, <1>9
  <2>2. PICK q : q = o + 2 /\ q \in Nat /\ q >= Len(infile)
    BY SMT, <1>1, <1>9
  <2>3. o + Got(o, 2) = Len(infile) /\ Got(q, 2) = 0
    BY Zenon, <1>1, <1>9, <2>2, GotIs
  <2>4. Len(infile) + 0 = Len(infile)
    BY SMT, <1>1
  <2> QED BY Zenon, <2>1, <2>2, <2>3, <2>4
<1> QED BY Zenon, <1>8, <1>9

-----------------------------------------------------------------------------
(* The same units in the other order *)

\* Each pair of bytes of one file is the other's the other way round.
SwappedTo(s, t, k) ==
    /\ k \in Nat /\ Len(s) = 2 * k /\ Len(t) = 2 * k
    /\ \A i \in 1 .. k : t[2 * i - 1] = s[2 * i] /\ t[2 * i] = s[2 * i - 1]
Swapped(s, t) == \E k \in Nat : SwappedTo(s, t, k)

\* What is swapped in parts is swapped as a whole.
LEMMA SwapJoin ==
    ASSUME NEW s \in Data, NEW t \in Data, NEW u \in Data, NEW v \in Data,
           Swapped(s, t), Swapped(u, v)
    PROVE  Swapped(s \o u, t \o v)
<1>1. PICK k \in Nat : SwappedTo(s, t, k)
  BY Zenon DEF Swapped
<1>2. PICK m \in Nat : SwappedTo(u, v, m)
  BY Zenon DEF Swapped
<1>3. PICK a, b : a = s \o u /\ b = t \o v
  BY Zenon
<1>4. /\ Len(a) = Len(s) + Len(u) /\ \A i \in 1 .. Len(s) : a[i] = s[i]
      /\ \A i \in 1 .. Len(u) : a[Len(s) + i] = u[i]
  <2>1. /\ Len(s \o u) = Len(s) + Len(u) /\ \A i \in 1 .. Len(s) : (s \o u)[i] = s[i]
        /\ \A i \in 1 .. Len(u) : (s \o u)[Len(s) + i] = u[i]
    BY Zenon, JoinIs
  <2> QED BY ONLY Zenon, <1>3, <2>1
<1>5. /\ Len(b) = Len(t) + Len(v) /\ \A i \in 1 .. Len(t) : b[i] = t[i]
      /\ \A i \in 1 .. Len(v) : b[Len(t) + i] = v[i]
  <2>1. /\ Len(t \o v) = Len(t) + Len(v) /\ \A i \in 1 .. Len(t) : (t \o v)[i] = t[i]
        /\ \A i \in 1 .. Len(v) : (t \o v)[Len(t) + i] = v[i]
    BY Zenon, JoinIs
  <2> QED BY ONLY Zenon, <1>3, <2>1
<1>6. Len(s) = 2 * k /\ Len(t) = 2 * k /\ Len(u) = 2 * m /\ Len(v) = 2 * m
  BY Zenon, <1>1, <1>2 DEF SwappedTo
<1>7. ASSUME NEW i \in 1 .. (k + m)
      PROVE  b[2 * i - 1] = a[2 * i] /\ b[2 * i] = a[2 * i - 1]
  <2>1. CASE i <= k
    <3>1. i \in 1 .. k /\ 2 * i \in 1 .. (2 * k) /\ 2 * i - 1 \in 1 .. (2 * k)
      BY ONLY SMT, <1>7, <2>1
    <3>2. t[2 * i - 1] = s[2 * i] /\ t[2 * i] = s[2 * i - 1]
      BY ONLY Zenon, <1>1, <3>1 DEF SwappedTo
    <3>3. 2 * i \in 1 .. Len(s) /\ 2 * i - 1 \in 1 .. Len(s)
      BY ONLY Zenon, <1>6, <3>1
    <3>4. 2 * i \in 1 .. Len(t) /\ 2 * i - 1 \in 1 .. Len(t)
      BY ONLY Zenon, <1>6, <3>1
    <3>5. a[2 * i] = s[2 * i] /\ a[2 * i - 1] = s[2 * i - 1]
      BY ONLY Zenon, <1>4, <3>3
    <3>6. b[2 * i] = t[2 * i] /\ b[2 * i - 1] = t[2 * i - 1]
      BY ONLY Zenon, <1>5, <3>4
    <3> QED BY ONLY Zenon, <3>2, <3>5, <3>6
  <2>2. CASE ~(i <= k)
    <3>1. PICK j : /\ j = i - k /\ j \in 1 .. m /\ 2 * j \in 1 .. (2 * m) /\ 2 * j - 1 \in 1 .. (2 * m)
                   /\ 2 * k + 2 * j = 2 * i /\ 2 * k + (2 * j - 1) = 2 * i - 1
      BY ONLY SMT, <1>7, <2>2
    <3>2. v[2 * j - 1] = u[2 * j] /\ v[2 * j] = u[2 * j - 1]
      BY ONLY Zenon, <1>2, <3>1 DEF SwappedTo
    <3>3. a[2 * i] = u[2 * j] /\ a[2 * i - 1] = u[2 * j - 1]
      <4>1. \A l \in 1 .. (2 * m) : a[2 * k + l] = u[l]
        BY ONLY Zenon, <1>4, <1>6
      <4> QED BY ONLY Zenon, <3>1, <4>1
    <3>4. b[2 * i] = v[2 * j] /\ b[2 * i - 1] = v[2 * j - 1]
      <4>1. \A l \in 1 .. (2 * m) : b[2 * k + l] = v[l]
        BY ONLY Zenon, <1>5, <1>6
      <4> QED BY ONLY Zenon, <3>1, <4>1
    <3> QED BY ONLY Zenon, <3>2, <3>3, <3>4
  <2> QED BY ONLY Zenon, <2>1, <2>2
<1>8. k + m \in Nat /\ Len(a) = 2 * (k + m) /\ Len(b) = 2 * (k + m)
  <2>1. k + m \in Nat /\ 2 * k + 2 * m = 2 * (k + m)
    BY ONLY SMT
  <2> QED BY ONLY Zenon, <1>4, <1>5, <1>6, <2>1
<1>9. SwappedTo(a, b, k + m)
  BY ONLY Zenon, <1>7, <1>8 DEF SwappedTo
<1> QED BY ONLY Zenon, <1>3, <1>8, <1>9 DEF Swapped

\* There is but one such file.
LEMMA SwapOnly ==
    ASSUME NEW s, NEW t \in Data, NEW u \in Data, Swapped(s, t), Swapped(s, u)
    PROVE  t = u
<1>1. PICK k \in Nat : SwappedTo(s, t, k)
  BY Zenon DEF Swapped
<1>2. PICK m \in Nat : SwappedTo(s, u, m)
  BY Zenon DEF Swapped
<1>3. k = m
  <2>1. 2 * k = 2 * m
    BY ONLY Zenon, <1>1, <1>2 DEF SwappedTo
  <2> QED BY ONLY SMT, <2>1
<1>4. Len(t) = 2 * k /\ Len(u) = 2 * k
  BY ONLY Zenon, <1>1, <1>2, <1>3 DEF SwappedTo
<1>5. ASSUME NEW p \in 1 .. (2 * k) PROVE t[p] = u[p]
  <2>1. PICK i \in 1 .. k : p = 2 * i - 1 \/ p = 2 * i
    <3>1. \/ (p + 1) \div 2 \in 1 .. k /\ p = 2 * ((p + 1) \div 2) - 1
          \/ (p + 1) \div 2 \in 1 .. k /\ p = 2 * ((p + 1) \div 2)
      BY ONLY SMT, <1>5
    <3> QED BY ONLY Zenon, <3>1
  <2>2. t[2 * i - 1] = s[2 * i] /\ t[2 * i] = s[2 * i - 1]
    BY ONLY Zenon, <1>1, <2>1 DEF SwappedTo
  <2>3. u[2 * i - 1] = s[2 * i] /\ u[2 * i] = s[2 * i - 1]
    BY ONLY Zenon, <1>2, <1>3, <2>1 DEF SwappedTo
  <2> QED BY ONLY Zenon, <2>1, <2>2, <2>3
<1>6. Len(t) = Len(u) /\ \A p \in 1 .. Len(t) : t[p] = u[p]
  BY ONLY Zenon, <1>4, <1>5
<1> QED BY Zenon, <1>6, SameBytes

\* Two bytes.
LEMMA PairSwapped ==
    ASSUME NEW x, NEW y, NEW s, NEW t, s = <<x, y>>, t = <<y, x>>
    PROVE  Swapped(s, t)
<1>1. Len(s) = 2 /\ Len(t) = 2 /\ s[1] = x /\ s[2] = y /\ t[1] = y /\ t[2] = x
  BY SMT
<1>2. 1 \in Nat /\ 2 * 1 = 2 /\ \A i \in 1 .. 1 : 2 * i - 1 = 1 /\ 2 * i = 2
  BY ONLY SMT
<1>3. Len(s) = 2 * 1 /\ Len(t) = 2 * 1
  BY ONLY Zenon, <1>1, <1>2
<1>4. SwappedTo(s, t, 1)
  BY ONLY Zenon, <1>1, <1>2, <1>3 DEF SwappedTo
<1> QED BY ONLY Zenon, <1>2, <1>4 DEF Swapped

\* The two formats of UTF-16 swap the bytes of a unit,
LEMMA UnitSwapped ==
    ASSUME NEW f \in Utf16, NEW t \in Utf16, f # t, NEW u \in Units
    PROVE  Swapped(UnitOf(f, u), UnitOf(t, u))
<1>1. PICK x, y : x = u % 256 /\ y = (u \div 256) % 256
  BY Zenon
<1>2. \/ UnitOf(f, u) = <<x, y>> /\ UnitOf(t, u) = <<y, x>>
      \/ UnitOf(f, u) = <<y, x>> /\ UnitOf(t, u) = <<x, y>>
  <2>1. UTF16LE # UTF16BE
    BY SMT DEF UTF16LE, UTF16BE
  <2>2. AsBytes(u) = <<x, y>>
    BY SMT, <1>1 DEF AsBytes
  <2>3. reverse_bytes(<<x, y>>) = <<y, x>>
    BY SMT DEF reverse_bytes
  <2>4. UnitOf(UTF16LE, u) = <<x, y>> /\ UnitOf(UTF16BE, u) = <<y, x>>
    BY ONLY Zenon, <2>1, <2>2, <2>3 DEF UnitOf
  <2>5. (f = UTF16LE /\ t = UTF16BE) \/ (f = UTF16BE /\ t = UTF16LE)
    BY Zenon DEF Utf16
  <2> QED BY ONLY Zenon, <2>4, <2>5
<1> QED BY ONLY Zenon, <1>2, PairSwapped

\* of a code point, which has one unit or two,
LEMMA FormSwapped ==
    ASSUME NEW f \in Utf16, NEW t \in Utf16, f # t, NEW c \in CodePoints
    PROVE  Swapped(Form(f, c), Form(t, c))
<1>0. f # UTF8 /\ t # UTF8
  BY SMT DEF Utf16, UTF16LE, UTF16BE, UTF8
<1>1. CASE c < 65536
  <2>1. c \in Units /\ Utf16Form(c) = <<c>>
    BY SMT, <1>1 DEF CodePoints, Units, Utf16Form
  <2>2. Form(f, c) = UnitOf(f, c) /\ Form(t, c) = UnitOf(t, c)
    <3>1. InOrder(f, <<c>>) = UnitOf(f, c) /\ InOrder(t, <<c>>) = UnitOf(t, c)
      BY ONLY Zenon, <2>1, InOrderIs
    <3> QED BY ONLY Zenon, <1>0, <2>1, <3>1 DEF Form
  <2>3. Swapped(UnitOf(f, c), UnitOf(t, c))
    BY Zenon, <2>1, UnitSwapped
  <2> QED BY ONLY Zenon, <2>2, <2>3
<1>2. CASE c >= 65536
  <2>1. PICK u, v : u = 55296 + (c - 65536) \div 1024 /\ v = 56320 + ((c - 65536) % 1024)
    BY SMT
  <2>2. ~(c < 65536)
    BY SMT, <1>2 DEF CodePoints
  <2>3. Utf16Form(c) = <<u, v>>
    BY SMT, <2>1, <2>2 DEF Utf16Form
  <2>4. u \in Units /\ v \in Units
    BY SMT, <1>2, <2>1 DEF CodePoints, Units
  <2>5. Form(f, c) = UnitOf(f, u) \o UnitOf(f, v) /\ Form(t, c) = UnitOf(t, u) \o UnitOf(t, v)
    <3>1. /\ InOrder(f, <<u, v>>) = UnitOf(f, u) \o UnitOf(f, v)
          /\ InOrder(t, <<u, v>>) = UnitOf(t, u) \o UnitOf(t, v)
      BY ONLY Zenon, <2>4, InOrderIs
    <3> QED BY ONLY Zenon, <1>0, <2>3, <3>1 DEF Form
  <2>6. f \in Utf16 /\ t \in Utf16 /\ f # t
    BY Zenon
  <2>7. Swapped(UnitOf(f, u), UnitOf(t, u)) /\ Swapped(UnitOf(f, v), UnitOf(t, v))
    BY ONLY Zenon, <2>4, <2>6, UnitSwapped
  <2>8. /\ UnitOf(f, u) \in Data /\ UnitOf(f, v) \in Data
        /\ UnitOf(t, u) \in Data /\ UnitOf(t, v) \in Data
    BY ONLY Zenon, <2>4, UnitBytes
  <2>9. Swapped(UnitOf(f, u) \o UnitOf(f, v), UnitOf(t, u) \o UnitOf(t, v))
    BY ONLY Zenon, <2>7, <2>8, SwapJoin
  <2> QED BY ONLY Zenon, <2>5, <2>9
<1> QED BY SMT, <1>1, <1>2 DEF CodePoints

\* and of a file, its mark among them.
LEMMA FileSwapped ==
    ASSUME NEW f \in Utf16, NEW t \in Utf16, f # t, NEW p, Points(p)
    PROVE  Swapped(BomBytes(f), BomBytes(t)) /\ Swapped(File(f, p), File(t, p))
<1>0. f \in Formats /\ t \in Formats
  BY SMT DEF Utf16, Formats
<1>1. Swapped(BomBytes(f), BomBytes(t))
  <2>1. PICK x, y : x = 255 /\ y = 254
    BY SMT
  <2>2. \/ BomBytes(f) = <<x, y>> /\ BomBytes(t) = <<y, x>>
        \/ BomBytes(f) = <<y, x>> /\ BomBytes(t) = <<x, y>>
    BY SMT, <2>1 DEF BomBytes, Utf16, UTF16LE, UTF16BE, UTF8
  <2> QED BY ONLY Zenon, <2>2, PairSwapped
<1>2. Len(p) \in Nat /\ Len(p) \in 0 .. Len(p)
  BY SMT DEF Points
<1> DEFINE S == {n \in 0 .. Len(p) : Swapped(Bytes(f, p, n), Bytes(t, p, n))}
<1>3. 0 \in S
  <2>1. Bytes(f, p, 0) = <<>> /\ Bytes(t, p, 0) = <<>>
    BY Zenon, <1>0, BytesAre
  <2>2. 0 \in Nat /\ Len(<<>>) = 2 * 0 /\ \A i \in 1 .. 0 : FALSE
    BY ONLY SMT
  <2>3. SwappedTo(<<>>, <<>>, 0)
    BY ONLY Zenon, <2>2 DEF SwappedTo
  <2>4. Swapped(Bytes(f, p, 0), Bytes(t, p, 0))
    BY ONLY Zenon, <2>1, <2>2, <2>3 DEF Swapped
  <2>5. 0 \in 0 .. Len(p)
    BY SMT, <1>2
  <2> QED BY Zenon, <2>4, <2>5
<1>4. ASSUME NEW n \in 0 .. Len(p), n \in S /\ n < Len(p) PROVE n + 1 \in S
  <2>1. PICK m : m = n + 1 /\ m \in 1 .. Len(p) /\ m \in 0 .. Len(p)
    BY SMT, <1>2, <1>4
  <2>2. p[m] \in CodePoints
    BY Zenon, <2>1, PointIs
  <2>3. Form(f, p[m]) \in Data /\ Form(t, p[m]) \in Data
    BY Zenon, <1>0, <2>2, FormIs
  <2>4. /\ Bytes(f, p, n) \in Data /\ Bytes(t, p, n) \in Data
        /\ Bytes(f, p, m) = Bytes(f, p, n) \o Form(f, p[m])
        /\ Bytes(t, p, m) = Bytes(t, p, n) \o Form(t, p[m])
    BY Zenon, <1>0, <1>4, <2>1, BytesAre
  <2>5. Swapped(Form(f, p[m]), Form(t, p[m]))
    BY Zenon, <2>2, FormSwapped
  <2>6. Swapped(Bytes(f, p, n), Bytes(t, p, n))
    BY Zenon, <1>4
  <2>7. Swapped(Bytes(f, p, n) \o Form(f, p[m]), Bytes(t, p, n) \o Form(t, p[m]))
    BY ONLY Zenon, <2>3, <2>4, <2>5, <2>6, SwapJoin
  <2>8. Swapped(Bytes(f, p, m), Bytes(t, p, m))
    BY ONLY Zenon, <2>4, <2>7
  <2> QED BY Zenon, <2>1, <2>8
<1>5. \A n \in 0 .. Len(p) : n \in S
  <2> HIDE DEF S
  <2> QED BY Zenon, <1>2, <1>3, <1>4, InductTo
<1>6. Swapped(Bytes(f, p, Len(p)), Bytes(t, p, Len(p)))
  BY Zenon, <1>2, <1>5
<1>7. /\ BomBytes(f) \in Data /\ BomBytes(t) \in Data
      /\ Bytes(f, p, Len(p)) \in Data /\ Bytes(t, p, Len(p)) \in Data
  BY Zenon, <1>0, <1>2, BytesAre, BomIs
<1>8. Swapped(BomBytes(f) \o Bytes(f, p, Len(p)), BomBytes(t) \o Bytes(t, p, Len(p)))
  BY ONLY Zenon, <1>1, <1>6, <1>7, SwapJoin
<1> QED BY ONLY Zenon, <1>1, <1>8 DEF File

-----------------------------------------------------------------------------
(* The conversion as a whole *)

\* The input is a file of code points, or what is left of one.
Known ==
    /\ case.from \in Formats /\ Points(case.points) /\ case.cut \in Nat
    /\ infile = SubSeq(File(case.from, case.points), 1,
                       Len(File(case.from, case.points)) - case.cut)

\* check_bom finds the format of that file, and main begins behind its mark.
Found ==
    /\ phase \in {"args", "bom"} => encoding_from = 0
    /\ phase \in {"args", "bom", "open"} => off = 0 /\ wpos = 0 /\ lower = case.junk.lower
    /\ encoding_from # 0 => encoding_from = case.from /\ bom_length = Len(BomBytes(case.from))
    /\ phase = "convert" => /\ encoding_from # 0 /\ encoding_to \in Formats
                            /\ encoding_to # encoding_from

written == SubSeq(outfile, 1, wpos)

\* n points are read and written.
AtPoint(n) ==
    /\ off = Begins(case.from, case.points, n)
    /\ written = BomBytes(encoding_to) \o Bytes(encoding_to, case.points, n)

\* How far a conversion is.
AtEnd == case.cut > 0 /\ off = Len(infile)
AtSomePoint ==
    UTF8 \in {encoding_from, encoding_to} /\ \E n \in 0 .. Len(case.points) : AtPoint(n)
AtSomeUnit ==
    /\ UTF8 \notin {encoding_from, encoding_to} /\ off = wpos /\ lower = case.junk.lower
    /\ Swapped(SubSeq(infile, 1, off), written)
Midway == phase = "convert" /\ Plain => AtEnd \/ AtSomePoint \/ AtSomeUnit

Converter == Types /\ Known /\ Found /\ Midway /\ ConversionIsRight

\* What is left of the file is a part from its beginning on.
LEMMA InputIs ==
    ASSUME Known
    PROVE  LET F == File(case.from, case.points)
           IN  /\ F \in Data /\ infile \in Data /\ Len(infile) <= Len(F)
               /\ \A i \in 1 .. Len(infile) : infile[i] = F[i]
               /\ ~(case.cut > 0) => infile = F
<1>1. PICK F : F = File(case.from, case.points)
  BY Zenon
<1>2. F \in Data /\ case.cut \in Nat
  BY Zenon, <1>1, FileIs DEF Known
<1>3. infile = SubSeq(F, 1, Len(F) - case.cut)
  BY Zenon, <1>1 DEF Known
<1>4. /\ infile \in Data /\ Len(infile) = IF case.cut <= Len(F) THEN Len(F) - case.cut ELSE 0
      /\ \A i \in 1 .. Len(infile) : infile[i] = F[i]
      /\ case.cut = 0 => infile = F
  <2>1. CutTo(infile, F, case.cut)
    BY Zenon, <1>2, <1>3, CutIs
  <2> QED BY ONLY Zenon, <2>1 DEF CutTo
<1>5. Len(F) \in Nat
  BY SMT, <1>2 DEF Data
<1>6. Len(infile) <= Len(F)
  <2>1. PICK l, n, c : l = Len(infile) /\ n = Len(F) /\ c = case.cut
    BY Zenon
  <2>2. l = (IF c <= n THEN n - c ELSE 0) /\ n \in Nat /\ c \in Nat
    BY ONLY Zenon, <1>2, <1>4, <1>5, <2>1
  <2>3. l <= n
    BY ONLY SMT, <2>2
  <2> QED BY ONLY Zenon, <2>1, <2>3
<1>7. ~(case.cut > 0) => case.cut = 0
  BY SMT, <1>2
<1> QED BY Zenon, <1>1, <1>2, <1>4, <1>6, <1>7

\* At a point that is not the end of the input there is another, whole or cut off.
LEMMA PointIsThere ==
    ASSUME Known, NEW n \in 0 .. Len(case.points),
           NEW o, o = Begins(case.from, case.points, n), o < Len(infile)
    PROVE  LET c == case.points[n + 1]
               g == Form(case.from, c)
           IN  /\ c \in CodePoints /\ IsScalar(c) /\ n < Len(case.points)
               /\ n + 1 \in 0 .. Len(case.points)
               /\ Has(o, g)
               /\ Begins(case.from, case.points, n + 1) = o + Len(g)
               /\ ~(o + Len(g) <= Len(infile)) => case.cut > 0
<1>1. PICK F, p, f : F = File(f, p) /\ p = case.points /\ f = case.from
  BY Zenon
<1>2. f \in Formats /\ Points(p)
  BY Zenon, <1>1 DEF Known
<1>3. /\ F \in Data /\ infile \in Data /\ Len(infile) <= Len(F)
      /\ \A i \in 1 .. Len(infile) : infile[i] = F[i]
      /\ ~(case.cut > 0) => infile = F
  BY Zenon, <1>1, InputIs
<1>4. Len(p) \in Nat /\ n \in 0 .. Len(p) /\ o = Begins(f, p, n)
  BY SMT, <1>1, <1>2 DEF Points
<1>5. Len(F) \in Nat /\ Len(infile) \in Nat
  BY SMT, <1>3 DEF Data
<1>6. n < Len(p)
  <2>1. CASE n = Len(p)
    <3>1. Len(F) = o
      BY Zenon, <1>1, <1>2, <1>4, <2>1, FileIs
    <3>2. ~(Len(F) < Len(infile))
      BY SMT, <1>3, <1>5
    <3> QED BY Zenon, <3>1, <3>2
  <2>2. CASE n # Len(p)
    BY SMT, <1>4, <2>2
  <2> QED BY Zenon, <2>1, <2>2
<1>7. PICK g : g = Form(f, p[n + 1])
  BY Zenon
<1>8. /\ p[n + 1] \in CodePoints /\ IsScalar(p[n + 1]) /\ g \in Data /\ o \in Nat
      /\ n + 1 \in 0 .. Len(p) /\ Begins(f, p, n + 1) = o + Len(g) /\ o + Len(g) <= Len(F)
      /\ \A j \in 1 .. Len(g) : F[o + j] = g[j]
  <2>1. /\ p[n + 1] \in CodePoints /\ IsScalar(p[n + 1]) /\ g \in Data
        /\ Begins(f, p, n) \in Nat /\ n + 1 \in 0 .. Len(p)
        /\ Begins(f, p, n + 1) = Begins(f, p, n) + Len(g)
        /\ Begins(f, p, n) + Len(g) <= Len(File(f, p))
        /\ \A j \in 1 .. Len(g) : File(f, p)[Begins(f, p, n) + j] = g[j]
    <3>1. f \in Formats /\ Points(p) /\ n \in 0 .. Len(p)
      BY Zenon, <1>2, <1>4
    <3> QED BY ONLY SMT, <1>6, <1>7, <3>1, PointInFile
  <2> QED BY ONLY Zenon, <1>1, <1>4, <2>1
<1>9. Len(g) >= 1 /\ Len(g) \in Nat
  <2>1. Len(g) \in {1, 2, 3, 4}
    BY Zenon, <1>2, <1>7, <1>8, FormIs
  <2>2. PICK l : l = Len(g)
    BY Zenon
  <2>3. l \in {1, 2, 3, 4}
    BY ONLY Zenon, <2>1, <2>2
  <2>4. l >= 1 /\ l \in Nat
    BY ONLY SMT, <2>3
  <2> QED BY ONLY Zenon, <2>2, <2>4
<1>10. Has(o, g)
  <2>1. ASSUME NEW j \in 1 .. Len(g), o + j <= Len(infile) PROVE infile[o + j] = g[j]
    <3>1. o + j \in 1 .. Len(infile)
      BY SMT, <1>5, <1>8, <1>9, <2>1
    <3> QED BY Zenon, <1>3, <1>8, <3>1
  <2> QED BY Zenon, <1>3, <1>8, <1>9, <2>1 DEF Has
<1>11. ~(o + Len(g) <= Len(infile)) => case.cut > 0
  BY Zenon, <1>3, <1>8
<1> QED BY Zenon, <1>1, <1>6, <1>7, <1>8, <1>10, <1>11

\* Each pair of formats has its function.
LEMMA FunctionIs ==
    ASSUME encoding_from \in Formats, encoding_to \in Formats \cup {0}
    PROVE  /\ encoding_to = 0 => get_encoding_function = <<>>
           /\ encoding_to = encoding_from => get_encoding_function = <<"transcribe">>
           /\ encoding_to \in Formats /\ encoding_to # encoding_from =>
                  get_encoding_function = <<encoding_from, encoding_to>>
<1>1. ASSUME encoding_to = 0 PROVE get_encoding_function = <<>>
  BY SMT, <1>1 DEF get_encoding_function, translate, Formats, UTF8, UTF16LE, UTF16BE
<1>2. ASSUME encoding_to = encoding_from PROVE get_encoding_function = <<"transcribe">>
  BY SMT, <1>2 DEF get_encoding_function, translate, Formats, UTF8, UTF16LE, UTF16BE
<1>3. ASSUME encoding_to \in Formats, encoding_to # encoding_from
      PROVE  get_encoding_function = <<encoding_from, encoding_to>>
  <2>1. CASE encoding_from = UTF8 /\ encoding_to = UTF16LE
    BY SMT, <2>1 DEF get_encoding_function, translate, UTF8, UTF16LE, UTF16BE
  <2>2. CASE encoding_from = UTF8 /\ encoding_to = UTF16BE
    BY SMT, <2>2 DEF get_encoding_function, translate, UTF8, UTF16LE, UTF16BE
  <2>3. CASE encoding_from = UTF16LE /\ encoding_to = UTF16BE
    BY SMT, <2>3 DEF get_encoding_function, translate, UTF8, UTF16LE, UTF16BE
  <2>4. CASE encoding_from = UTF16BE /\ encoding_to = UTF16LE
    BY SMT, <2>4 DEF get_encoding_function, translate, UTF8, UTF16LE, UTF16BE
  <2>5. CASE encoding_from = UTF16BE /\ encoding_to = UTF8
    BY SMT, <2>5 DEF get_encoding_function, translate, UTF8, UTF16LE, UTF16BE
  <2>6. CASE encoding_from = UTF16LE /\ encoding_to = UTF8
    BY SMT, <2>6 DEF get_encoding_function, translate, UTF8, UTF16LE, UTF16BE
  <2> QED BY SMT, <1>3, <2>1, <2>2, <2>3, <2>4, <2>5, <2>6 DEF Formats
<1> QED BY SMT, <1>1, <1>2, <1>3

\* The mark at the beginning of a file is that of its format and no other.
LEMMA MarkIs ==
    ASSUME NEW f \in Formats, NEW x, NEW y, NEW z \in Byte,
           x = BomBytes(f)[1], y = BomBytes(f)[2], f = UTF8 => z = BomBytes(f)[3]
    PROVE  /\ x + 256 * y + 65536 * z = UTF8 <=> f = UTF8
           /\ f # UTF8 => 256 * x + y = f
<1>1. CASE f = UTF8
  <2>1. x = 239 /\ y = 187 /\ z = 191
    <3>1. BomBytes(f) = <<239, 187, 191>>
      BY SMT, <1>1 DEF BomBytes, UTF8, UTF16LE, UTF16BE
    <3> QED BY SMT, <1>1, <3>1
  <2> QED BY SMT, <1>1, <2>1 DEF UTF8
<1>2. CASE f = UTF16LE
  <2>1. x = 255 /\ y = 254 /\ f # UTF8
    BY SMT, <1>2 DEF BomBytes, UTF8, UTF16LE, UTF16BE
  <2> QED BY SMT, <1>2, <2>1 DEF UTF8, UTF16LE, Byte
<1>3. CASE f = UTF16BE
  <2>1. x = 254 /\ y = 255 /\ f # UTF8
    BY SMT, <1>3 DEF BomBytes, UTF8, UTF16LE, UTF16BE
  <2> QED BY SMT, <1>3, <2>1 DEF UTF8, UTF16BE, Byte
<1> QED BY SMT, <1>1, <1>2, <1>3 DEF Formats

\* Nothing before or behind a file changes it, and what is behind another is found there.
LEMMA JoinParts ==
    ASSUME NEW s \in Data, NEW t \in Data
    PROVE  /\ <<>> \o s = s /\ s \o <<>> = s
           /\ SubSeq(s, 1, 0) = <<>>
           /\ SubSeq(s, 1, Len(s)) = s
           /\ SubSeq(s \o t, Len(s) + 1, Len(s \o t)) = t
<1>1. Len(s) \in Nat /\ Len(t) \in Nat /\ 1 \in Nat /\ 1 >= 1
  BY SMT DEF Data
<1>2. <<>> \o s = s /\ s \o <<>> = s
  BY SMT, ConcatEmptySeq DEF Data
<1>3. SubSeq(s, 1, 0) = <<>>
  BY SMT
<1>4. SubSeq(s, 1, Len(s)) = s
  BY Zenon, SubSeqFull DEF Data
<1>5. SubSeq(s \o t, Len(s) + 1, Len(s \o t)) = t
  <2>1. PICK h : h = s \o t
    BY Zenon
  <2>2. h \in Data /\ Len(h) = Len(s) + Len(t) /\ \A i \in 1 .. Len(t) : h[Len(s) + i] = t[i]
    <3>1. /\ s \o t \in Data /\ Len(s \o t) = Len(s) + Len(t)
          /\ \A i \in 1 .. Len(t) : (s \o t)[Len(s) + i] = t[i]
      BY Zenon, JoinIs
    <3> QED BY ONLY Zenon, <2>1, <3>1
  <2>3. PICK m, n, k : /\ m = Len(s) + 1 /\ n = Len(h) /\ k = Len(t) /\ k \in Nat
                       /\ m \in Nat /\ m >= 1 /\ n \in Int /\ n <= Len(h)
                       /\ n - m + 1 = k /\ (IF m <= n THEN n - m + 1 ELSE 0) = k
                       /\ \A i \in 1 .. k : m + i - 1 = Len(s) + i
    BY ONLY SMT, <1>1, <2>2
  <2>4. /\ SubSeq(h, m, n) \in Data /\ Len(SubSeq(h, m, n)) = IF m <= n THEN n - m + 1 ELSE 0
        /\ \A i \in 1 .. (n - m + 1) : SubSeq(h, m, n)[i] = h[m + i - 1]
    <3>1. PartOf(SubSeq(h, m, n), h, m, n)
      BY Zenon, <2>2, <2>3, PartIs
    <3> QED BY ONLY Zenon, <3>1 DEF PartOf
  <2>5. Len(SubSeq(h, m, n)) = k /\ \A i \in 1 .. k : SubSeq(h, m, n)[i] = t[i]
    BY ONLY Zenon, <2>2, <2>3, <2>4
  <2>6. SubSeq(h, m, n) = t
    <3>1. Len(SubSeq(h, m, n)) = Len(t) /\ \A i \in 1 .. Len(SubSeq(h, m, n)) : SubSeq(h, m, n)[i] = t[i]
      BY ONLY Zenon, <2>3, <2>5
    <3> QED BY Zenon, <2>4, <3>1, SameBytes
  <2> QED BY ONLY Zenon, <2>1, <2>3, <2>6
<1> QED BY Zenon, <1>2, <1>3, <1>4, <1>5

\* Three parts are joined in either order.
LEMMA JoinThree ==
    ASSUME NEW s \in Data, NEW t \in Data, NEW u \in Data
    PROVE  (s \o t) \o u = s \o (t \o u)
<1>1. s \in Seq(Byte) /\ t \in Seq(Byte) /\ u \in Seq(Byte)
  BY Zenon DEF Data
<1>2. PICK S : S = Byte
  BY Zenon
<1>3. s \in Seq(S) /\ t \in Seq(S) /\ u \in Seq(S)
  BY Zenon, <1>1, <1>2
<1> QED BY ONLY SMT, <1>3, ConcatAssociative

\* The point read is the next one in the output.
LEMMA PointWritten ==
    ASSUME Types, Known, NEW n \in 0 .. Len(case.points), n < Len(case.points), AtPoint(n),
           encoding_to \in Formats, write(Form(encoding_to, case.points[n + 1])),
           off' = Begins(case.from, case.points, n + 1), UNCHANGED <<case, encoding_to>>
    PROVE  AtPoint(n + 1)'
<1>1. PICK p, t, g, b : /\ p = case.points /\ t = encoding_to /\ g = Form(t, p[n + 1])
                        /\ b = Bytes(t, p, n)
  BY Zenon
<1>2. Points(p) /\ t \in Formats /\ n \in 0 .. Len(p) /\ n < Len(p)
  BY Zenon, <1>1 DEF Known
<1>3. g \in Data
  <2>1. n + 1 \in 1 .. Len(p)
    BY SMT, <1>2 DEF Points
  <2>2. p[n + 1] \in CodePoints
    BY Zenon, <1>2, <2>1, PointIs
  <2> QED BY Zenon, <1>1, <1>2, <2>2, FormIs
<1>4. Bytes(t, p, n + 1) = b \o g /\ b \in Data /\ BomBytes(t) \in Data
  BY Zenon, <1>1, <1>2, BytesAre, BomIs
<1>5. written' = written \o g
  <2>1. SubSeq(outfile', 1, wpos') = SubSeq(outfile, 1, wpos) \o g
    <3>1. outfile \in Data /\ wpos \in 0 .. Len(outfile) /\ write(g)
      BY Zenon, <1>1 DEF Types, FilesOpen
    <3> QED BY Zenon, <1>3, <3>1, WrittenIs
  <2> QED BY Zenon, <2>1 DEF written
<1>6. written = BomBytes(t) \o b
  BY Zenon, <1>1 DEF AtPoint
<1>7. (BomBytes(t) \o b) \o g = BomBytes(t) \o (b \o g)
  BY Zenon, <1>3, <1>4, JoinThree
<1>8. written' = BomBytes(t) \o Bytes(t, p, n + 1)
  BY ONLY Zenon, <1>4, <1>5, <1>6, <1>7
<1> QED BY Zenon, <1>1, <1>8 DEF AtPoint

\* The units put in order are the form of the point.
LEMMA UnitsAreTheForm ==
    ASSUME NEW f \in Utf16, NEW c \in CodePoints
    PROVE  /\ InOrder(f, code_point_to_utf16_glyph(c)) = Form(f, c)
           /\ code_point_to_utf8_glyph(c) = Form(UTF8, c)
<1>1. f # UTF8
  BY SMT DEF Utf16, UTF16LE, UTF16BE, UTF8
<1>2. code_point_to_utf16_glyph(c) = Utf16Form(c) /\ code_point_to_utf8_glyph(c) = Utf8Form(c)
  BY Zenon, Utf16IsTheForm, Utf8IsTheForm
<1> QED BY ONLY Zenon, <1>1, <1>2 DEF Form

\* A case of the program's.
LEMMA ConverterAtFirst == Init => Converter
<1> SUFFICES ASSUME Init PROVE Converter
  BY Zenon
<1>1. Types
  BY Zenon, TypesAtFirst
<1>2. PICK c \in Cases, j \in Junk :
          /\ case = [args |-> c.args, from |-> c.from, points |-> c.points, cut |-> c.cut,
                     junk |-> j]
          /\ infile = SubSeq(File(c.from, c.points), 1, Len(File(c.from, c.points)) - c.cut)
          /\ lower = j.lower
  BY Zenon DEF Init
<1>3. case.from = c.from /\ case.points = c.points /\ case.cut = c.cut /\ case.junk = j
  BY Zenon, <1>2
<1>4. Known
  BY Zenon, <1>2, <1>3, CasesAssumption DEF Known, Points
<1>5. phase = "args" /\ encoding_from = 0 /\ off = 0 /\ wpos = 0
  BY Zenon DEF Init
<1>6. phase # "convert" /\ phase # "done"
  BY SMT, <1>5
<1>7. Found
  BY Zenon, <1>2, <1>3, <1>5, <1>6 DEF Found
<1> QED BY Zenon, <1>1, <1>4, <1>6, <1>7 DEF Converter, Midway, ConversionIsRight

\* What parse_args, check_bom's refusals and those of main leave alone.
Kept == <<case, infile, off, wpos, lower, encoding_from, bom_length>>

\* Before main opens the files there is nothing written to be right or wrong,
LEMMA EarlyKeeps ==
    ASSUME Converter, Types', UNCHANGED Kept, phase \in {"args", "bom"},
           phase' \in {"args", "bom", "done", "failed"}
    PROVE  Converter'
<1>1. phase' # "convert" /\ phase' # "open"
  BY SMT
<1>2. encoding_from = 0 /\ off = 0 /\ wpos = 0 /\ lower = case.junk.lower
  BY SMT DEF Converter, Found
<1>3. UNCHANGED <<case, infile, off, wpos, lower, encoding_from, bom_length>>
  BY Zenon DEF Kept
<1>4. Known'
  BY Zenon, <1>3 DEF Converter, Known
<1>5. Found'
  BY Zenon, <1>1, <1>2, <1>3 DEF Found
<1>6. Midway' /\ ConversionIsRight'
  BY Zenon, <1>1, <1>2, <1>3 DEF Midway, ConversionIsRight
<1> QED BY Zenon, <1>4, <1>5, <1>6 DEF Converter

\* nor is there when the program has given up.
LEMMA RefusalKeeps ==
    ASSUME Converter, Types', UNCHANGED Kept, phase' \in {"failed", "crashed"}
    PROVE  Converter'
<1>1. /\ phase' # "convert" /\ phase' # "done"
      /\ phase' # "args" /\ phase' # "bom" /\ phase' # "open"
  BY SMT
<1>3. UNCHANGED <<case, infile, off, wpos, lower, encoding_from, bom_length>>
  BY Zenon DEF Kept
<1>4. Known'
  BY Zenon, <1>3 DEF Converter, Known
<1>5. Found'
  <2>1. encoding_from # 0 => encoding_from = case.from /\ bom_length = Len(BomBytes(case.from))
    BY Zenon DEF Converter, Found
  <2> QED BY SMT, <1>1, <1>3, <2>1 DEF Found
<1>6. Midway' /\ ConversionIsRight'
  BY Zenon, <1>1 DEF Midway, ConversionIsRight
<1> QED BY Zenon, <1>4, <1>5, <1>6 DEF Converter

\* check_bom finds the format the file has.
LEMMA CheckBomKeeps ==
    ASSUME Converter, check_bom
    PROVE  Converter'
<1>0. Types'
  BY Zenon, CheckBomKeepsTypes DEF Converter
<1>1. CASE Stop("failed")
  <2>1. UNCHANGED Kept /\ phase' = "failed"
    BY SMT, <1>1 DEF Stop, Kept, state, buffers
  <2> QED BY SMT, <1>0, <2>1, RefusalKeeps
<1>2. CASE ~Stop("failed")
  <2>1. /\ phase = "bom" /\ phase' = "open" /\ ~(Len(infile) < 3)
        /\ encoding_from' = IF infile[1] + 256 * infile[2] + 65536 * infile[3] = UTF8 THEN UTF8
                            ELSE 256 * infile[1] + infile[2]
        /\ bom_length' = IF infile[1] + 256 * infile[2] + 65536 * infile[3] = UTF8 THEN 3 ELSE 2
        /\ UNCHANGED <<case, infile, off, wpos, lower>>
    BY SMT, <1>2 DEF check_bom, buffers
  <2>2. PICK F, f, p : F = File(f, p) /\ f = case.from /\ p = case.points
    BY Zenon
  <2>3. f \in Formats /\ Points(p) /\ Known
    BY Zenon, <2>2 DEF Converter, Known
  <2>4. /\ F \in Data /\ infile \in Data /\ Len(infile) <= Len(F)
        /\ \A i \in 1 .. Len(infile) : infile[i] = F[i]
    BY Zenon, <2>2, <2>3, InputIs
  <2>5. \A i \in 1 .. Len(BomBytes(f)) : F[i] = BomBytes(f)[i]
    BY Zenon, <2>2, <2>3, FileIs
  <2>6. Len(BomBytes(f)) = IF f = UTF8 THEN 3 ELSE 2
    BY Zenon, <2>3, BomIs
  <2>7. 1 \in 1 .. Len(infile) /\ 2 \in 1 .. Len(infile) /\ 3 \in 1 .. Len(infile)
    BY SMT, <2>1, <2>4 DEF Data
  <2>8. PICK x, y, z : x = infile[1] /\ y = infile[2] /\ z = infile[3]
    BY Zenon
  <2>9. x = F[1] /\ y = F[2] /\ z = F[3]
    BY Zenon, <2>4, <2>7, <2>8
  <2>10. x = BomBytes(f)[1] /\ y = BomBytes(f)[2] /\ (f = UTF8 => z = BomBytes(f)[3])
    <3>1. 1 \in 1 .. Len(BomBytes(f)) /\ 2 \in 1 .. Len(BomBytes(f))
      BY SMT, <2>6
    <3>2. f = UTF8 => 3 \in 1 .. Len(BomBytes(f))
      BY SMT, <2>6
    <3> QED BY Zenon, <2>5, <2>9, <3>1, <3>2
  <2>11. z \in Byte
    BY SMT, <2>4, <2>7, <2>8 DEF Data
  <2>12. /\ x + 256 * y + 65536 * z = UTF8 <=> f = UTF8
         /\ f # UTF8 => 256 * x + y = f
    BY ONLY SMT, <2>3, <2>10, <2>11, MarkIs
  <2>13. encoding_from' = f /\ bom_length' = Len(BomBytes(f))
    BY ONLY SMT, <2>1, <2>6, <2>8, <2>12
  <2>u. phase = "bom" /\ phase' = "open" /\ UNCHANGED <<case, infile, off, wpos, lower>>
    BY SMT, <2>1
  <2>14. Known'
    BY Zenon, <2>3, <2>u DEF Known
  <2>15. Found'
    <3>1. off = 0 /\ wpos = 0 /\ lower = case.junk.lower
      BY Zenon, <2>u DEF Converter, Found
    <3>2. phase' # "args" /\ phase' # "bom" /\ phase' # "convert"
      BY SMT, <2>1
    <3> QED BY Zenon, <2>2, <2>13, <2>u, <3>1, <3>2 DEF Found
  <2>16. Midway' /\ ConversionIsRight'
    <3>1. phase' # "convert" /\ phase' # "done"
      BY SMT, <2>1
    <3> QED BY Zenon, <3>1 DEF Midway, ConversionIsRight
  <2> QED BY Zenon, <1>0, <2>14, <2>15, <2>16 DEF Converter
<1> QED BY Zenon, <1>1, <1>2

\* A turn of a conversion's loop.
LEMMA TurnKeeps ==
    ASSUME Converter, Types', phase = "convert", phase' = "convert",
           UNCHANGED <<case, infile, state>>,
           Plain => AtEnd' \/ AtSomePoint' \/ AtSomeUnit'
    PROVE  Converter'
<1>1. UNCHANGED <<case, infile, encoding_to, encoding_from, bom_length>>
  BY Zenon DEF state
<1>2. Known'
  BY Zenon, <1>1 DEF Converter, Known
<1>3. phase' # "args" /\ phase' # "bom" /\ phase' # "open" /\ phase' # "done"
  BY SMT
<1>4. Found'
  <2>1. /\ encoding_from # 0 => encoding_from = case.from /\ bom_length = Len(BomBytes(case.from))
        /\ encoding_from # 0 /\ encoding_to \in Formats /\ encoding_to # encoding_from
    BY Zenon DEF Converter, Found
  <2> QED BY Zenon, <1>1, <1>3, <2>1 DEF Found
<1>5. Plain' => Plain
  BY Zenon, <1>1 DEF Plain
<1>6. Midway'
  BY Zenon, <1>5 DEF Midway
<1>7. ConversionIsRight'
  BY Zenon, <1>3 DEF ConversionIsRight
<1> QED BY Zenon, <1>2, <1>4, <1>6, <1>7 DEF Converter

\* Where a conversion stands, seen from its loop.
LEMMA ConvertingIs ==
    ASSUME Converter, phase = "convert", Plain, off < Len(infile)
    PROVE  /\ infile \in Data /\ off \in Nat /\ Len(infile) \in Nat
           /\ encoding_from = case.from /\ encoding_from \in Formats /\ encoding_to \in Formats
           /\ encoding_to # encoding_from
           /\ get_encoding_function = <<encoding_from, encoding_to>>
           /\ AtSomePoint \/ AtSomeUnit
<1>1. infile \in Data /\ off \in Nat /\ Len(infile) \in Nat
  BY SMT DEF Converter, Types, FilesOpen, Data
<1>2. /\ encoding_from = case.from /\ encoding_to \in Formats /\ encoding_to # encoding_from
      /\ case.from \in Formats
  BY Zenon DEF Converter, Found, Known
<1>3. get_encoding_function = <<encoding_from, encoding_to>>
  <2>1. encoding_to \in Formats \cup {0}
    BY Zenon, <1>2
  <2> QED BY Zenon, <1>2, <2>1, FunctionIs
<1>4. ~AtEnd
  <2>1. off # Len(infile)
    BY SMT, <1>1
  <2> QED BY Zenon, <2>1 DEF AtEnd
<1>5. AtSomePoint \/ AtSomeUnit
  BY Zenon, <1>4 DEF Converter, Midway
<1> QED BY Zenon, <1>1, <1>2, <1>3, <1>5

\* One turn of a conversion from UTF-8 takes in the next code point and writes it.
LEMMA FromUtf8Keeps ==
    ASSUME Converter, NEW to \in Utf16, FromUtf8(to)
    PROVE  Converter'
<1>0. Types'
  BY Zenon, FromUtf8KeepsTypes DEF Converter
<1>1. PICK first, remaining, buf, q :
          /\ first = ReadInto(utf8_buf, 1, off, 1) /\ remaining = remaining_utf8_bytes(first[1])
          /\ buf = ReadInto(first, 2, off + 1, remaining)
          /\ q = utf8_decode(remaining + 1, buf)
  BY Zenon
<1>2. /\ phase = "convert" /\ phase' = "convert" /\ off < Len(infile)
      /\ UNCHANGED <<case, infile, state>>
      /\ get_encoding_function[1] = UTF8 /\ encoding_to = to
      /\ off' = off + 1 + Got(off + 1, remaining)
      /\ write(InOrder(to, code_point_to_utf16_glyph(q)))
  BY Zenon, <1>1 DEF FromUtf8, Converting
<1>3. ASSUME Plain PROVE AtEnd' \/ AtSomePoint'
  <2>1. /\ infile \in Data /\ off \in Nat /\ Len(infile) \in Nat
        /\ encoding_from = case.from /\ encoding_to \in Formats
        /\ get_encoding_function = <<encoding_from, encoding_to>>
        /\ AtSomePoint \/ AtSomeUnit
    BY Zenon, <1>2, <1>3, ConvertingIs
  <2>2. encoding_from = UTF8 /\ case.from = UTF8
    <3>1. <<encoding_from, encoding_to>>[1] = encoding_from
      BY SMT
    <3>2. get_encoding_function[1] = encoding_from
      BY Zenon, <2>1, <3>1
    <3> QED BY Zenon, <1>2, <2>1, <3>2
  <2>3. PICK n \in 0 .. Len(case.points) : AtPoint(n)
    BY Zenon, <2>1, <2>2 DEF AtSomePoint, AtSomeUnit
  <2>4. PICK c, g : c = case.points[n + 1] /\ g = Form(UTF8, c)
    BY Zenon
  <2>5. off = Begins(case.from, case.points, n) /\ Known
    BY Zenon, <2>3 DEF AtPoint, Converter
  <2>6. /\ c \in CodePoints /\ n < Len(case.points) /\ n + 1 \in 0 .. Len(case.points)
        /\ Has(off, g) /\ Begins(case.from, case.points, n + 1) = off + Len(g)
        /\ ~(off + Len(g) <= Len(infile)) => case.cut > 0
    BY Zenon, <1>2, <2>2, <2>4, <2>5, PointIsThere
  <2>7. g = Utf8Form(c) /\ utf8_buf \in Buffer(4)
    BY Zenon, <2>4 DEF Form, Converter, Types, BuffersKept
  <2>8. /\ off + Len(g) <= Len(infile) => off' = off + Len(g) /\ q = c
        /\ ~(off + Len(g) <= Len(infile)) => off' = Len(infile)
    <3>1. TakesIn(off, g, off + 1 + Got(off + 1, remaining), utf8_decode(remaining + 1, buf), c)
      BY Zenon, <1>1, <2>6, <2>7, ReadsUtf8
    <3> QED BY ONLY Zenon, <1>1, <1>2, <3>1 DEF TakesIn
  <2>9. CASE off + Len(g) <= Len(infile)
    <3>1. q = c /\ off' = Begins(case.from, case.points, n + 1)
      BY Zenon, <2>6, <2>8, <2>9
    <3>2. InOrder(to, code_point_to_utf16_glyph(c)) = Form(to, c)
      BY Zenon, <2>6, UnitsAreTheForm
    <3>3. write(Form(encoding_to, case.points[n + 1]))
      BY Zenon, <1>2, <2>4, <3>1, <3>2
    <3>4. UNCHANGED <<case, encoding_to>>
      BY Zenon, <1>2 DEF state
    <3>5. Types
      BY Zenon DEF Converter
    <3>6. AtPoint(n + 1)'
      BY Zenon, <2>1, <2>3, <2>5, <2>6, <3>1, <3>3, <3>4, <3>5, PointWritten
    <3>7. encoding_from' = UTF8
      BY Zenon, <1>2, <2>2 DEF state
    <3> QED BY Zenon, <2>6, <3>4, <3>6, <3>7 DEF AtSomePoint
  <2>10. CASE ~(off + Len(g) <= Len(infile))
    BY Zenon, <1>2, <2>6, <2>8, <2>10 DEF AtEnd
  <2> QED BY Zenon, <2>9, <2>10
<1> QED BY Zenon, <1>0, <1>2, <1>3, TurnKeeps

\* One turn of a conversion to UTF-8 does so for the code points that are no edge.
LEMMA FromUtf16Keeps ==
    ASSUME Converter, NEW from \in Utf16, FromUtf16(from)
    PROVE  Converter'
<1>0. Types'
  BY Zenon, FromUtf16KeepsTypes DEF Converter
<1>1. PICK s, t, up, low, pair, next :
          /\ s = ReadInto(upper, 1, off, 2) /\ t = ReadInto(lower, 1, off + 2, 2)
          /\ up = Ordered(from, s) /\ low = Ordered(from, t)
          /\ pair = is_upper_surrogate_pair(Word(up))
          /\ next = off + Got(off, 2) + (IF pair THEN Got(off + 2, 2) ELSE 0)
  BY Zenon
<1>2. /\ phase = "convert" /\ phase' = "convert" /\ off < Len(infile)
      /\ UNCHANGED <<case, infile, state>>
      /\ get_encoding_function[1] = from /\ encoding_to = UTF8
      /\ off' = next /\ lower' = IF pair THEN low ELSE lower
      /\ write(code_point_to_utf8_glyph(utf16_glyph_to_code_point(Word(up), Word(lower'))))
  BY Zenon, <1>1 DEF FromUtf16, Converting, Ordered
<1>f. from # UTF8
  BY SMT DEF Utf16, UTF16LE, UTF16BE, UTF8
<1>3. ASSUME Plain PROVE AtEnd' \/ AtSomePoint'
  <2>1. /\ infile \in Data /\ off \in Nat /\ Len(infile) \in Nat
        /\ encoding_from = case.from /\ encoding_to \in Formats
        /\ get_encoding_function = <<encoding_from, encoding_to>>
        /\ AtSomePoint \/ AtSomeUnit
    BY Zenon, <1>2, <1>3, ConvertingIs
  <2>2. encoding_from = from /\ case.from = from
    <3>1. <<encoding_from, encoding_to>>[1] = encoding_from
      BY SMT
    <3>2. get_encoding_function[1] = encoding_from
      BY Zenon, <2>1, <3>1
    <3> QED BY Zenon, <1>2, <2>1, <3>2
  <2>3. PICK n \in 0 .. Len(case.points) : AtPoint(n)
    BY Zenon, <1>2, <2>1 DEF AtSomePoint, AtSomeUnit
  <2>4. PICK c, g : c = case.points[n + 1] /\ g = Form(from, c)
    BY Zenon
  <2>5. off = Begins(case.from, case.points, n) /\ Known
    BY Zenon, <2>3 DEF AtPoint, Converter
  <2>6. /\ c \in CodePoints /\ IsScalar(c) /\ n < Len(case.points) /\ n + 1 \in 0 .. Len(case.points)
        /\ Has(off, g) /\ Begins(case.from, case.points, n + 1) = off + Len(g)
        /\ ~(off + Len(g) <= Len(infile)) => case.cut > 0
    BY Zenon, <1>2, <2>2, <2>4, <2>5, PointIsThere
  <2>7. upper \in Buffer(2) /\ lower \in Buffer(2)
    BY Zenon DEF Converter, Types, BuffersKept
  <2>8. ~Edge(c)
    <3>1. \A i \in DOMAIN case.points : ~Edge(case.points[i])
      BY Zenon, <1>2, <1>3, <1>f, <2>2 DEF Plain
    <3>2. n + 1 \in DOMAIN case.points
      <4>1. PICK p : p = case.points /\ Points(p)
        BY Zenon, <2>5 DEF Known
      <4>2. n \in 0 .. Len(p) /\ n < Len(p)
        BY Zenon, <2>6, <4>1
      <4>3. n + 1 \in DOMAIN p
        BY SMT, <4>1, <4>2 DEF Points
      <4> QED BY Zenon, <4>1, <4>3
    <3> QED BY Zenon, <2>4, <3>1, <3>2
  <2>9. /\ off + Len(g) <= Len(infile) =>
              next = off + Len(g) /\ utf16_glyph_to_code_point(Word(up), Word(lower')) = c
        /\ ~(off + Len(g) <= Len(infile)) => next = Len(infile)
    <3>1. TakesIn(off, g, next, utf16_glyph_to_code_point(Word(up), Word(lower')), c)
      <4>1. PICK l : l = lower' /\ l = IF pair THEN low ELSE lower
        BY Zenon, <1>2
      <4>2. TakesIn(off, g, next, utf16_glyph_to_code_point(Word(up), Word(l)), c)
        <5>1. UnitsTaken(from, off, upper, lower, s, t, up, low, pair, next, l)
          BY ONLY Zenon, <1>1, <4>1 DEF UnitsTaken
        <5>2. from \in Utf16 /\ c \in CodePoints /\ IsScalar(c) /\ ~Edge(c) /\ g = Form(from, c)
          BY Zenon, <2>4, <2>6, <2>8
        <5> QED BY Zenon, <2>6, <2>7, <5>1, <5>2, ReadsUtf16
      <4> QED BY ONLY Zenon, <4>1, <4>2
    <3> QED BY ONLY Zenon, <1>2, <3>1 DEF TakesIn
  <2>10. CASE off + Len(g) <= Len(infile)
    <3>1. off' = Begins(case.from, case.points, n + 1)
      BY Zenon, <1>2, <2>6, <2>9, <2>10
    <3>2. code_point_to_utf8_glyph(c) = Form(UTF8, c)
      BY Zenon, <2>6, UnitsAreTheForm
    <3>3. write(Form(encoding_to, case.points[n + 1]))
      BY Zenon, <1>2, <2>4, <2>9, <2>10, <3>2
    <3>4. UNCHANGED <<case, encoding_to>>
      BY Zenon, <1>2 DEF state
    <3>5. Types
      BY Zenon DEF Converter
    <3>6. AtPoint(n + 1)'
      BY Zenon, <2>1, <2>3, <2>5, <2>6, <3>1, <3>3, <3>4, <3>5, PointWritten
    <3>7. encoding_to' = UTF8
      BY Zenon, <1>2, <3>4
    <3> QED BY Zenon, <2>6, <3>4, <3>6, <3>7 DEF AtSomePoint
  <2>11. CASE ~(off + Len(g) <= Len(infile))
    BY Zenon, <1>2, <2>6, <2>9, <2>11 DEF AtEnd
  <2> QED BY Zenon, <2>10, <2>11
<1> QED BY Zenon, <1>0, <1>2, <1>3, TurnKeeps

\* The beginning of a file, in two parts.
LEMMA SplitIs ==
    ASSUME NEW s \in Data, NEW m \in Nat, NEW n \in Nat, m <= n, n <= Len(s)
    PROVE  /\ SubSeq(s, 1, m) \in Data /\ Len(SubSeq(s, 1, m)) = m
           /\ PartOf(SubSeq(s, m + 1, n), s, m + 1, n)
           /\ SubSeq(s, 1, n) = SubSeq(s, 1, m) \o SubSeq(s, m + 1, n)
<1>1. /\ Len(s) \in Nat /\ 1 \in Nat /\ 1 >= 1 /\ m + 1 \in Nat /\ m + 1 >= 1
      /\ m \in Int /\ n \in Int /\ m <= Len(s)
  BY SMT DEF Data
<1>2. PICK a, b, c : a = SubSeq(s, 1, m) /\ b = SubSeq(s, m + 1, n) /\ c = SubSeq(s, 1, n)
  BY Zenon
<1>3. PartOf(a, s, 1, m) /\ PartOf(b, s, m + 1, n) /\ PartOf(c, s, 1, n)
  BY Zenon, <1>1, <1>2, PartIs
<1>4. /\ a \in Data /\ Len(a) = m /\ \A i \in 1 .. m : a[i] = s[i]
      /\ b \in Data /\ Len(b) = n - m /\ \A i \in 1 .. (n - m) : b[i] = s[m + i]
      /\ c \in Data /\ Len(c) = n /\ \A i \in 1 .. n : c[i] = s[i]
  BY ONLY SMT, <1>1, <1>3, m \in Nat, n \in Nat, m <= n DEF PartOf
<1>5. PICK d : d = a \o b
  BY Zenon
<1>6. /\ d \in Data /\ Len(d) = Len(a) + Len(b)
      /\ \A i \in 1 .. Len(a) : d[i] = a[i]
      /\ \A i \in 1 .. Len(b) : d[Len(a) + i] = b[i]
  <2>1. /\ a \o b \in Data /\ Len(a \o b) = Len(a) + Len(b)
        /\ \A i \in 1 .. Len(a) : (a \o b)[i] = a[i]
        /\ \A i \in 1 .. Len(b) : (a \o b)[Len(a) + i] = b[i]
    BY Zenon, <1>4, JoinIs
  <2> QED BY ONLY Zenon, <1>5, <2>1
<1>7. Len(c) = Len(d)
  BY SMT, <1>4, <1>6
<1>8. ASSUME NEW i \in 1 .. Len(c) PROVE c[i] = d[i]
  <2>1. i \in 1 .. n /\ c[i] = s[i]
    BY ONLY SMT, <1>4, <1>8
  <2>2. CASE i <= m
    BY ONLY SMT, <1>4, <1>6, <2>1, <2>2, m \in Nat
  <2>3. CASE ~(i <= m)
    <3>1. PICK j : j = i - m
      BY Zenon
    <3>2. j \in 1 .. (n - m) /\ m + j = i
      BY SMT, <2>1, <2>3, <3>1
    <3>3. d[m + j] = b[j] /\ b[j] = s[m + j]
      BY ONLY SMT, <1>4, <1>6, <3>2
    <3> QED BY ONLY Zenon, <2>1, <3>2, <3>3
  <2> QED BY Zenon, <2>2, <2>3
<1>9. c = d
  BY Zenon, <1>4, <1>6, <1>7, <1>8, SameBytes
<1> QED BY ONLY Zenon, <1>2, <1>3, <1>4, <1>5, <1>9

\* Two bytes read and put in the other order swap what is there.
LEMMA SwapReads ==
    ASSUME infile \in Data, NEW o \in Nat, o + 2 <= Len(infile), NEW b \in Buffer(2),
           NEW up, up = reverse_bytes(ReadInto(b, 1, o, 2))
    PROVE  \E q \in Data : /\ SubSeq(infile, 1, o + 2) = SubSeq(infile, 1, o) \o q
                           /\ Swapped(q, up)
<1>1. PICK t : t = ReadInto(b, 1, o, 2)
  BY Zenon
<1>2. 1 \in Nat /\ 2 \in Nat /\ 1 >= 1 /\ o + 2 \in Nat /\ o <= o + 2
  BY SMT
<1>3. Filled(ReadInto(b, 1, o, 2), 2, b, 1, o, 2)
  BY Zenon, <1>2, ReadIs
<1>4. Got(o, 2) = 2
  BY Zenon, <1>2, GotIs
<1>5. \A k \in 1 .. 2 : t[k] = IF 1 <= k /\ k < 1 + 2 THEN infile[o + k - 1 + 1] ELSE b[k]
  BY ONLY Zenon, <1>1, <1>3, <1>4 DEF Filled
<1>6. t[1] = infile[o + 1] /\ t[2] = infile[o + 2]
  BY SMT, <1>5
<1>7. PICK q : q = SubSeq(infile, o + 1, o + 2)
  BY Zenon
<1>8. /\ PartOf(SubSeq(infile, o + 1, o + 2), infile, o + 1, o + 2)
      /\ SubSeq(infile, 1, o + 2) = SubSeq(infile, 1, o) \o SubSeq(infile, o + 1, o + 2)
  BY Zenon, <1>2, SplitIs
<1>9. PartOf(q, infile, o + 1, o + 2)
  BY ONLY Zenon, <1>7, <1>8
<1>10. q \in Data /\ Len(q) = 2 /\ q[1] = infile[o + 1] /\ q[2] = infile[o + 2]
  BY ONLY SMT, <1>9, o \in Nat DEF PartOf
<1>11. q = <<t[1], t[2]>>
  BY SMT, <1>6, <1>10 DEF Data
<1>12. up = <<t[2], t[1]>>
  BY Zenon, <1>1 DEF reverse_bytes
<1>13. Swapped(q, up)
  BY Zenon, <1>11, <1>12, PairSwapped
<1> QED BY ONLY Zenon, <1>7, <1>8, <1>10, <1>13

\* The length of what is swapped is even.
LEMMA SwappedIsEven ==
    ASSUME NEW s, NEW t, Swapped(s, t), NEW n, n = Len(s)
    PROVE  \E k \in Nat : n = 2 * k
BY Zenon DEF Swapped, SwappedTo

\* One turn of a conversion between the UTF-16 formats swaps the next unit, or, when half of
\* it is cut off, comes to the end.
LEMMA SwapUtf16Keeps ==
    ASSUME Converter, NEW from \in Utf16, SwapUtf16(from)
    PROVE  Converter'
<1>0. Types'
  BY Zenon, SwapUtf16KeepsTypes DEF Converter
<1>1. PICK up, low, pair :
          /\ up = reverse_bytes(ReadInto(upper, 1, off, 2))
          /\ low = reverse_bytes(ReadInto(lower, 1, off + 2, 2))
          /\ pair = is_lower_surrogate_pair(Word(lower))
  BY Zenon
<1>2. /\ phase = "convert" /\ phase' = "convert" /\ off < Len(infile)
      /\ UNCHANGED <<case, infile, state>>
      /\ get_encoding_function[1] = from /\ encoding_to \in Utf16
      /\ off' = off + Got(off, 2) + (IF pair THEN Got(off + 2, 2) ELSE 0)
      /\ lower' = IF pair THEN low ELSE lower
      /\ write(IF pair THEN up \o low ELSE up)
  BY Zenon, <1>1 DEF SwapUtf16, Converting, Utf16
<1>f. from # UTF8 /\ encoding_to # UTF8
  BY SMT, <1>2 DEF Utf16, UTF16LE, UTF16BE, UTF8
<1>3. ASSUME Plain PROVE AtEnd' \/ AtSomeUnit'
  <2>1. /\ infile \in Data /\ off \in Nat /\ Len(infile) \in Nat
        /\ encoding_from = case.from /\ encoding_to # encoding_from
        /\ get_encoding_function = <<encoding_from, encoding_to>>
        /\ AtSomePoint \/ AtSomeUnit
    BY Zenon, <1>2, <1>3, ConvertingIs
  <2>2. encoding_from = from
    <3>1. <<encoding_from, encoding_to>>[1] = encoding_from
      BY SMT
    <3> QED BY Zenon, <1>2, <2>1, <3>1
  <2>3. UTF8 \notin {encoding_from, encoding_to}
    BY Zenon, <1>f, <2>2
  <2>4. AtSomeUnit
    BY Zenon, <2>1, <2>3 DEF AtSomePoint
  <2>5. off = wpos /\ lower = case.junk.lower /\ Swapped(SubSeq(infile, 1, off), written)
    BY Zenon, <2>4 DEF AtSomeUnit
  <2>6. ~pair
    <3>1. ~is_lower_surrogate_pair(Word(case.junk.lower))
      BY Zenon, <1>3, <1>f, <2>2 DEF Plain
    <3> QED BY Zenon, <1>1, <2>5, <3>1
  <2>7. off' = off + Got(off, 2) /\ lower' = lower /\ write(up)
    <3>1. PICK g : g = Got(off, 2) /\ g \in Nat
      <4>1. 2 \in Nat
        BY SMT
      <4> QED BY Zenon, <2>1, <4>1, GotIs
    <3>2. off' = off + g + 0
      BY Zenon, <1>2, <2>6, <3>1
    <3>3. off' = off + g
      BY SMT, <2>1, <3>1, <3>2
    <3> QED BY Zenon, <1>2, <2>6, <3>1, <3>3
  <2>8. upper \in Buffer(2) /\ outfile \in Data /\ wpos \in 0 .. Len(outfile)
    BY Zenon DEF Converter, Types, BuffersKept, FilesOpen
  <2>9. /\ 2 \in Nat /\ 1 \in Nat /\ 1 >= 1 /\ off <= Len(infile)
        /\ Len(infile) <= Len(infile)
    BY SMT, <1>2, <2>1
  <2>10. up \in Buffer(2) /\ up \in Data /\ Len(up) = 2
    <3>1. ReadInto(upper, 1, off, 2) \in Buffer(2)
      BY Zenon, <2>1, <2>8, <2>9, ReadIs DEF Filled
    <3>2. up \in Buffer(2)
      BY Zenon, <1>1, <3>1, DecodedIsNumber
    <3>3. up \in Data /\ Len(up) = 2
      BY Zenon, <3>2, BufferIsData
    <3> QED BY Zenon, <3>2, <3>3
  <2>11. written' = written \o up /\ wpos' = wpos + 2 /\ written \in Data
    <3>1. /\ SubSeq(outfile', 1, wpos') = SubSeq(outfile, 1, wpos) \o up
          /\ wpos' = wpos + Len(up) /\ SubSeq(outfile, 1, wpos) \in Data
      BY Zenon, <2>7, <2>8, <2>10, WrittenIs
    <3> QED BY Zenon, <2>10, <3>1 DEF written
  <2>12. CASE off + 2 <= Len(infile)
    <3>1. Got(off, 2) = 2
      BY Zenon, <2>1, <2>9, <2>12, GotIs
    <3>2. PICK q \in Data : /\ SubSeq(infile, 1, off + 2) = SubSeq(infile, 1, off) \o q
                            /\ Swapped(q, up)
      BY Zenon, <1>1, <2>1, <2>8, <2>12, SwapReads
    <3>3. SubSeq(infile, 1, off) \in Data
      BY Zenon, <2>1, <2>9, SplitIs
    <3>4. Swapped(SubSeq(infile, 1, off) \o q, written \o up)
      BY Zenon, <2>5, <2>10, <2>11, <3>2, <3>3, SwapJoin
    <3>5. Swapped(SubSeq(infile, 1, off)', written')
      BY Zenon, <1>2, <2>7, <2>11, <3>1, <3>2, <3>4
    <3>6. off' = wpos' /\ lower' = case.junk.lower'
      BY Zenon, <1>2, <2>5, <2>7, <2>11, <3>1
    <3>7. UTF8 \notin {encoding_from', encoding_to'}
      BY Zenon, <1>2, <2>3 DEF state
    <3> QED BY Zenon, <3>5, <3>6, <3>7 DEF AtSomeUnit
  <2>13. CASE ~(off + 2 <= Len(infile))
    <3>1. off' = Len(infile)
      BY Zenon, <2>1, <2>7, <2>9, <2>13, GotIs
    <3>2. case.cut > 0
      <4> SUFFICES ASSUME ~(case.cut > 0) PROVE FALSE
        BY Zenon
      <4>1. Known
        BY Zenon DEF Converter
      <4>2. infile = File(from, case.points) /\ Points(case.points)
        BY Zenon, <2>1, <2>2, <4>1, InputIs DEF Known
      <4>3. Swapped(File(from, case.points), File(encoding_to, case.points))
        BY Zenon, <1>2, <2>1, <2>2, <4>2, FileSwapped
      <4>4. PICK k \in Nat : Len(infile) = 2 * k
        BY Zenon, <4>2, <4>3, SwappedIsEven
      <4>5. Len(SubSeq(infile, 1, off)) = off
        BY Zenon, <2>1, <2>9, SplitIs
      <4>6. PICK m \in Nat : off = 2 * m
        BY Zenon, <2>5, <4>5, SwappedIsEven
      <4> QED BY ONLY SMT, <1>2, <2>13, <4>4, <4>6
    <3> QED BY Zenon, <1>2, <3>1, <3>2 DEF AtEnd
  <2> QED BY Zenon, <2>12, <2>13
<1> QED BY Zenon, <1>0, <1>2, <1>3, TurnKeeps

\* The first write is all there is.
LEMMA FirstWritten ==
    ASSUME Types, wpos = 0, NEW g \in Data, write(g)
    PROVE  written' = g /\ wpos' = Len(g)
<1>1. outfile \in Data /\ wpos \in 0 .. Len(outfile)
  BY Zenon DEF Types, FilesOpen
<1>2. wpos' = wpos + Len(g) /\ SubSeq(outfile', 1, wpos') = SubSeq(outfile, 1, wpos) \o g
  BY Zenon, <1>1, WrittenIs
<1>3. SubSeq(outfile, 1, 0) = <<>> /\ <<>> \o g = g
  BY Zenon, <1>1, JoinParts
<1>4. SubSeq(outfile', 1, wpos') = g
  BY ONLY Zenon, <1>2, <1>3, wpos = 0
<1>5. wpos' = Len(g)
  BY SMT, <1>2 DEF Data
<1> QED BY Zenon, <1>4, <1>5 DEF written

\* transcribe copies what is behind the mark.
LEMMA TranscribeKeeps ==
    ASSUME Converter, Types', phase = "open", phase' = "done",
           UNCHANGED <<case, optind, state, infile, buffers>>, off' = Len(infile),
           get_encoding_function = <<"transcribe">>,
           write(SubSeq(infile, bom_length + 1, Len(infile)))
    PROVE  Converter'
<1>1. /\ encoding_from \in Formats /\ bom_length \in {2, 3} /\ infile \in Data /\ Len(infile) \in Nat
      /\ encoding_to \in Formats \cup {0} /\ 3 <= Len(infile)
  BY SMT DEF Converter, Types, ArgsRead, FilesOpen, Data
<1>2. encoding_from # 0
  BY SMT, <1>1 DEF Formats, UTF8, UTF16LE, UTF16BE
<1>3. encoding_from = case.from /\ bom_length = Len(BomBytes(case.from)) /\ wpos = 0 /\ Known
  BY Zenon, <1>2 DEF Converter, Found
<1>4. encoding_to = encoding_from
  <2>1. <<"transcribe">> # <<>> /\ <<"transcribe">> # <<encoding_from, encoding_to>>
    BY SMT
  <2>2. encoding_to \in Formats \/ encoding_to = 0
    BY Zenon, <1>1
  <2> QED BY Zenon, <1>1, <2>1, <2>2, FunctionIs
<1>5. UNCHANGED <<case, infile, encoding_from, encoding_to, bom_length>>
  BY Zenon DEF state
<1>6. /\ phase' # "args" /\ phase' # "bom" /\ phase' # "open" /\ phase' # "convert"
  BY SMT
<1>7. Known'
  BY Zenon, <1>3, <1>5 DEF Known
<1>8. Found'
  BY Zenon, <1>3, <1>5, <1>6 DEF Found
<1>9. ConversionIsRight'
  <2> SUFFICES ASSUME case.cut = 0
               PROVE  written' = Bytes(encoding_to, case.points, Len(case.points))
    BY Zenon, <1>4, <1>5 DEF ConversionIsRight, written
  <2>1. PICK f, p, a, b : /\ f = case.from /\ p = case.points /\ a = BomBytes(f)
                          /\ b = Bytes(f, p, Len(p))
    BY Zenon
  <2>2. f \in Formats /\ Points(p) /\ Len(p) \in 0 .. Len(p)
    BY SMT, <1>3, <2>1 DEF Known, Points
  <2>3. a \in Data /\ b \in Data
    BY Zenon, <2>1, <2>2, BytesAre, BomIs
  <2>4. infile = a \o b
    <3>1. ~(case.cut > 0)
      BY SMT
    <3>2. infile = File(f, p)
      BY Zenon, <1>3, <2>1, <3>1, InputIs
    <3> QED BY Zenon, <2>1, <3>2 DEF File
  <2>5. SubSeq(infile, bom_length + 1, Len(infile)) = b
    <3>1. SubSeq(a \o b, Len(a) + 1, Len(a \o b)) = b
      BY Zenon, <2>3, JoinParts
    <3> QED BY ONLY Zenon, <1>3, <2>1, <2>4, <3>1
  <2>6. write(b)
    BY Zenon, <2>5
  <2>7. written' = b
    BY Zenon, <1>3, <2>3, <2>6, FirstWritten DEF Converter
  <2> QED BY Zenon, <1>3, <1>4, <2>1, <2>7
<1>10. Midway'
  BY Zenon, <1>6 DEF Midway
<1> QED BY Zenon, <1>7, <1>8, <1>9, <1>10 DEF Converter

\* A conversion starts behind the mark, with its own mark written.
LEMMA ConvertKeeps ==
    ASSUME Converter, Types', phase = "open", phase' = "convert",
           UNCHANGED <<case, optind, state, infile, buffers>>, off' = bom_length,
           get_encoding_function # <<"transcribe">>, get_encoding_function # <<>>,
           write(BomBytes(get_encoding_function[2]))
    PROVE  Converter'
<1>1. /\ encoding_from \in Formats /\ infile \in Data /\ Len(infile) \in Nat
      /\ encoding_to \in Formats \cup {0} /\ 3 <= Len(infile)
  BY SMT DEF Converter, Types, ArgsRead, FilesOpen, Data
<1>2. encoding_from # 0
  BY SMT, <1>1 DEF Formats, UTF8, UTF16LE, UTF16BE
<1>3. /\ encoding_from = case.from /\ bom_length = Len(BomBytes(case.from)) /\ wpos = 0 /\ Known
      /\ lower = case.junk.lower
  BY Zenon, <1>2 DEF Converter, Found
<1>4. encoding_to \in Formats /\ encoding_to # encoding_from /\ get_encoding_function[2] = encoding_to
  <2>1. encoding_to \in Formats /\ encoding_to # encoding_from
    BY Zenon, <1>1, FunctionIs
  <2>2. get_encoding_function = <<encoding_from, encoding_to>>
    BY Zenon, <1>1, <2>1, FunctionIs
  <2>3. <<encoding_from, encoding_to>>[2] = encoding_to
    BY SMT
  <2> QED BY Zenon, <2>1, <2>2, <2>3
<1>5. UNCHANGED <<case, infile, encoding_from, encoding_to, bom_length, lower>>
  BY Zenon DEF state, buffers
<1>6. phase' # "args" /\ phase' # "bom" /\ phase' # "open" /\ phase' # "done"
  BY SMT
<1>7. Known'
  BY Zenon, <1>3, <1>5 DEF Known
<1>8. Found'
  BY Zenon, <1>2, <1>3, <1>4, <1>5, <1>6 DEF Found
<1>9. PICK f, t, p : f = encoding_from /\ t = encoding_to /\ p = case.points
  BY Zenon
<1>10. /\ f \in Formats /\ t \in Formats /\ f # t /\ Points(p) /\ f = case.from
       /\ BomBytes(f) \in Data /\ BomBytes(t) \in Data
       /\ Len(p) \in Nat /\ 0 \in 0 .. Len(p)
  <2>1. Points(p) /\ f \in Formats /\ t \in Formats
    BY Zenon, <1>1, <1>3, <1>4, <1>9 DEF Known
  <2>2. Len(p) \in Nat /\ 0 \in 0 .. Len(p)
    BY SMT, <2>1 DEF Points
  <2> QED BY Zenon, <1>3, <1>4, <1>9, <2>1, <2>2, BomIs
<1>11. written' = BomBytes(t) /\ wpos' = Len(BomBytes(t))
  BY Zenon, <1>3, <1>4, <1>9, <1>10, FirstWritten DEF Converter
<1>12. ASSUME UTF8 \in {f, t} PROVE Midway'
  <2>1. Bytes(t, p, 0) = <<>> /\ Begins(f, p, 0) = Len(BomBytes(f))
    BY Zenon, <1>10, BytesAre, FileIs
  <2>2. BomBytes(t) \o <<>> = BomBytes(t)
    BY Zenon, <1>10, JoinParts
  <2>3. AtPoint(0)'
    BY Zenon, <1>3, <1>5, <1>9, <1>11, <2>1, <2>2 DEF AtPoint
  <2>4. AtSomePoint'
    BY Zenon, <1>5, <1>9, <1>10, <1>12, <2>3 DEF AtSomePoint
  <2> QED BY Zenon, <2>4 DEF Midway
<1>13. ASSUME UTF8 \notin {f, t} PROVE Midway'
  <2>1. f \in Utf16 /\ t \in Utf16
    BY Zenon, <1>10, <1>13 DEF Formats, Utf16
  <2>2. Len(BomBytes(f)) = 2 /\ Len(BomBytes(t)) = 2
    BY Zenon, <1>10, <1>13, BomIs
  <2>3. SubSeq(infile, 1, 2) = BomBytes(f)
    <3>1. PICK F, s : F = File(f, p) /\ s = SubSeq(infile, 1, 2)
      BY Zenon
    <3>2. \A i \in 1 .. Len(BomBytes(f)) : F[i] = BomBytes(f)[i]
      BY Zenon, <1>10, <3>1, FileIs
    <3>3. \A i \in 1 .. Len(infile) : infile[i] = F[i]
      BY Zenon, <1>3, <1>9, <1>10, <3>1, InputIs
    <3>4. PartOf(s, infile, 1, 2)
      <4>1. 1 \in Nat /\ 1 >= 1 /\ 2 \in Int /\ 2 <= Len(infile)
        BY SMT, <1>1
      <4> QED BY Zenon, <1>1, <3>1, <4>1, PartIs
    <3>5. s \in Data /\ Len(s) = 2 /\ \A i \in 1 .. 2 : s[i] = infile[i]
      BY ONLY SMT, <3>4 DEF PartOf
    <3>6. \A i \in 1 .. 2 : i \in 1 .. Len(infile)
      BY SMT, <1>1
    <3>7. \A i \in 1 .. Len(s) : s[i] = BomBytes(f)[i]
      BY ONLY Zenon, <2>2, <3>2, <3>3, <3>5, <3>6
    <3>8. Len(s) = Len(BomBytes(f))
      BY ONLY Zenon, <2>2, <3>5
    <3>9. s = BomBytes(f)
      BY Zenon, <1>10, <3>5, <3>7, <3>8, SameBytes
    <3> QED BY Zenon, <3>1, <3>9
  <2>4. Swapped(BomBytes(f), BomBytes(t))
    BY Zenon, <1>10, <2>1, FileSwapped
  <2>5. off' = 2 /\ wpos' = 2
    BY Zenon, <1>3, <1>10, <1>11, <2>2
  <2>6. AtSomeUnit'
    BY Zenon, <1>3, <1>5, <1>9, <1>11, <1>13, <2>3, <2>4, <2>5 DEF AtSomeUnit
  <2> QED BY Zenon, <2>6 DEF Midway
<1>14. ConversionIsRight'
  BY Zenon, <1>6 DEF ConversionIsRight
<1> QED BY Zenon, <1>7, <1>8, <1>12, <1>13, <1>14 DEF Converter

\* main refuses, crashes, copies or starts a conversion.
LEMMA OpenFilesKeeps ==
    ASSUME Converter, OpenFiles
    PROVE  Converter'
<1>0. Types'
  BY Zenon, OpenFilesKeepsTypes DEF Converter
<1>1. CASE Stop("failed") \/ Stop("crashed")
  <2>1. UNCHANGED Kept /\ phase' \in {"failed", "crashed"}
    BY SMT, <1>1 DEF Stop, Kept, state, buffers
  <2> QED BY Zenon, <1>0, <2>1, RefusalKeeps
<1>2. CASE ~(Stop("failed") \/ Stop("crashed"))
  <2>1. /\ phase = "open" /\ UNCHANGED <<case, optind, state, infile, buffers>>
        /\ \/ /\ write(SubSeq(infile, bom_length + 1, Len(infile)))
              /\ get_encoding_function = <<"transcribe">>
              /\ off' = Len(infile) /\ phase' = "done"
           \/ /\ write(BomBytes(get_encoding_function[2]))
              /\ get_encoding_function # <<>> /\ get_encoding_function # <<"transcribe">>
              /\ off' = bom_length /\ phase' = "convert"
    BY Zenon, <1>2 DEF OpenFiles
  <2> QED BY Zenon, <1>0, <2>1, TranscribeKeeps, ConvertKeeps
<1> QED BY Zenon, <1>1, <1>2

\* When a whole file is read, a whole file is written.
LEMMA EndIsRight ==
    ASSUME Converter, phase = "convert", off = Len(infile), Plain, case.cut = 0
    PROVE  written = File(encoding_to, case.points) /\ encoding_to # encoding_from
<1>1. PICK f, t, p : f = encoding_from /\ t = encoding_to /\ p = case.points
  BY Zenon
<1>2. f \in Formats /\ t \in Formats /\ f # t /\ f = case.from /\ Points(p) /\ Known
  BY Zenon, <1>1 DEF Converter, Found, Known
<1>3. infile \in Data /\ infile = File(f, p) /\ Len(infile) = Begins(f, p, Len(p))
  <2>1. ~(case.cut > 0)
    BY SMT
  <2>2. infile \in Data /\ infile = File(f, p)
    BY Zenon, <1>1, <1>2, <2>1, InputIs
  <2> QED BY Zenon, <1>2, <2>2, FileIs
<1>4. Len(p) \in 0 .. Len(p) /\ Len(p) \in Nat
  BY SMT, <1>2 DEF Points
<1>5. ~AtEnd
  BY SMT DEF AtEnd
<1>6. CASE AtSomePoint
  <2>1. PICK n \in 0 .. Len(p) : AtPoint(n)
    BY Zenon, <1>1, <1>6 DEF AtSomePoint
  <2>2. n = Len(p)
    <3> SUFFICES ASSUME n < Len(p) PROVE FALSE
      BY SMT, <1>4
    <3>1. Len(Bytes(f, p, n)) < Len(Bytes(f, p, Len(p)))
      <4>1. n <= Len(p)
        BY SMT, <1>4
      <4> QED BY Zenon, <1>2, <1>4, <4>1, BytesGrow
    <3>2. Begins(f, p, n) = Begins(f, p, Len(p))
      BY Zenon, <1>1, <1>2, <1>3, <2>1 DEF AtPoint
    <3>3. BomBytes(f) \in Data /\ Bytes(f, p, n) \in Data /\ Bytes(f, p, Len(p)) \in Data
      BY Zenon, <1>2, <1>4, BomIs, BytesAre
    <3> QED BY SMT, <3>1, <3>2, <3>3 DEF Begins, Data
  <2>3. written = BomBytes(t) \o Bytes(t, p, Len(p))
    BY Zenon, <1>1, <2>1, <2>2 DEF AtPoint
  <2> QED BY Zenon, <1>1, <1>2, <2>3 DEF File
<1>7. CASE AtSomeUnit
  <2>1. f \in Utf16 /\ t \in Utf16
    BY Zenon, <1>1, <1>2, <1>7 DEF AtSomeUnit, Formats, Utf16
  <2>2. Swapped(infile, written)
    <3>1. SubSeq(infile, 1, Len(infile)) = infile
      BY Zenon, <1>3, JoinParts
    <3> QED BY Zenon, <1>7, <3>1 DEF AtSomeUnit
  <2>3. Swapped(infile, File(t, p))
    BY Zenon, <1>2, <1>3, <2>1, FileSwapped
  <2>4. written \in Data /\ File(t, p) \in Data
    <3>1. outfile \in Data /\ wpos \in Nat /\ wpos <= wpos /\ wpos <= Len(outfile)
      BY SMT DEF Converter, Types, FilesOpen, Data
    <3>2. SubSeq(outfile, 1, wpos) \in Data
      BY Zenon, <3>1, SplitIs
    <3> QED BY Zenon, <1>2, <3>2, FileIs DEF written
  <2> QED BY Zenon, <1>1, <1>2, <2>2, <2>3, <2>4, SwapOnly
<1> QED BY Zenon, <1>5, <1>6, <1>7 DEF Converter, Midway

\* The loop ends at the end of the input, with what was written as it should be.
LEMMA EndOfFileKeeps ==
    ASSUME Converter, EndOfFile
    PROVE  Converter'
<1>1. /\ phase = "convert" /\ phase' = "done" /\ off >= Len(infile)
      /\ UNCHANGED <<case, optind, state, infile, off, outfile, wpos, buffers>>
  BY Zenon DEF EndOfFile, Stop
<1>2. Types'
  <2>1. "done" \in Phases /\ "done" # "open" /\ Stop("done")
    BY SMT DEF Phases, EndOfFile
  <2> QED BY Zenon, <2>1, StopKeepsTypes DEF Converter
<1>3. UNCHANGED <<case, infile, encoding_from, encoding_to, bom_length, outfile, wpos>>
  BY Zenon, <1>1 DEF state
<1>4. /\ phase' # "args" /\ phase' # "bom" /\ phase' # "open" /\ phase' # "convert"
  BY SMT, <1>1
<1>5. Known'
  BY Zenon, <1>3 DEF Converter, Known
<1>6. Found'
  <2>1. encoding_from # 0 => encoding_from = case.from /\ bom_length = Len(BomBytes(case.from))
    BY Zenon DEF Converter, Found
  <2> QED BY Zenon, <1>3, <1>4, <2>1 DEF Found
<1>7. ConversionIsRight'
  <2> SUFFICES ASSUME Plain', case.cut' = 0
               PROVE  SubSeq(outfile', 1, wpos') = File(encoding_to', case.points')
    BY Zenon DEF ConversionIsRight
  <2>1. Plain /\ case.cut = 0
    BY Zenon, <1>3 DEF Plain
  <2>2. off = Len(infile)
    BY SMT, <1>1 DEF Converter, Types, FilesOpen, Data
  <2>3. written = File(encoding_to, case.points) /\ encoding_to # encoding_from
    BY Zenon, <1>1, <2>1, <2>2, EndIsRight
  <2> QED BY Zenon, <1>3, <2>3 DEF written
<1>8. Midway'
  BY Zenon, <1>4 DEF Midway
<1> QED BY Zenon, <1>2, <1>5, <1>6, <1>7, <1>8 DEF Converter

\* The arguments are read before anything is converted.
LEMMA ParseArgKeeps ==
    ASSUME Converter, ParseArg
    PROVE  Converter'
<1>1. Types'
  BY Zenon, ParseArgKeepsTypes DEF Converter
<1>2. UNCHANGED Kept /\ phase \in {"args", "bom"} /\ phase' \in {"args", "bom", "done", "failed"}
  BY SMT DEF ParseArg, Stop, Kept, state, buffers
<1> QED BY Zenon, <1>1, <1>2, EarlyKeeps

\* The invariant of the conversion is inductive.
LEMMA NextKeepsConverter ==
    ASSUME Converter, [Next]_vars
    PROVE  Converter'
<1>1. CASE ArgsDone
  <2>1. Types'
    BY Zenon, NextKeepsTypes DEF Converter
  <2>2. UNCHANGED Kept /\ phase \in {"args", "bom"} /\ phase' \in {"args", "bom", "done", "failed"}
    BY SMT, <1>1 DEF ArgsDone, Stop, Kept, state, buffers
  <2> QED BY Zenon, <2>1, <2>2, EarlyKeeps
<1>2. CASE from_utf8_to_utf16le \/ from_utf8_to_utf16be
  <2>1. UTF16LE \in Utf16 /\ UTF16BE \in Utf16
    BY SMT DEF Utf16
  <2> QED BY Zenon, <1>2, <2>1, FromUtf8Keeps DEF from_utf8_to_utf16le, from_utf8_to_utf16be
<1>3. CASE from_utf16le_to_utf8 \/ from_utf16be_to_utf8
  <2>1. UTF16LE \in Utf16 /\ UTF16BE \in Utf16
    BY SMT DEF Utf16
  <2> QED BY Zenon, <1>3, <2>1, FromUtf16Keeps DEF from_utf16le_to_utf8, from_utf16be_to_utf8
<1>4. CASE from_utf16le_to_utf16be \/ from_utf16be_to_utf16le
  <2>1. UTF16LE \in Utf16 /\ UTF16BE \in Utf16
    BY SMT DEF Utf16
  <2> QED BY Zenon, <1>4, <2>1, SwapUtf16Keeps DEF from_utf16le_to_utf16be, from_utf16be_to_utf16le
<1>5. CASE UNCHANGED vars
  <2>1. /\ UNCHANGED <<case, phase, state, infile, off, outfile, wpos, lower>>
    BY Zenon, <1>5 DEF vars, buffers
  <2>2. UNCHANGED <<encoding_to, encoding_from, bom_length>>
    BY Zenon, <2>1 DEF state
  <2>3. Types'
    BY Zenon, NextKeepsTypes DEF Converter
  <2>4. Known' /\ Found'
    BY Zenon, <2>1, <2>2 DEF Converter, Known, Found
  <2>5. Plain' = Plain /\ written' = written
    BY Zenon, <2>1, <2>2 DEF Plain, written
  <2>6. AtEnd' = AtEnd /\ AtSomeUnit' = AtSomeUnit
    BY Zenon, <2>1, <2>2, <2>5 DEF AtEnd, AtSomeUnit
  <2>7. AtSomePoint => AtSomePoint'
    BY Zenon, <2>1, <2>2, <2>5 DEF AtSomePoint, AtPoint
  <2>8. Midway' /\ ConversionIsRight'
    BY Zenon, <2>1, <2>2, <2>5, <2>6, <2>7 DEF Converter, Midway, ConversionIsRight
  <2> QED BY Zenon, <2>3, <2>4, <2>8 DEF Converter
<1> QED BY Zenon, <1>1, <1>2, <1>3, <1>4, <1>5, ParseArgKeeps, CheckBomKeeps, OpenFilesKeeps,
           EndOfFileKeeps DEF Next

\* A whole file that main has done with has come out as the same code points behind the mark
\* of the format asked for, or, when that is the format it had, with or without one: for every case,
\* whatever the buffers held, except the code points and the lower surrogates the strict
\* comparisons get wrong.
THEOREM ConversionStaysRight == Spec => []ConversionIsRight
<1>1. Init => Converter
  BY Zenon, ConverterAtFirst
<1>2. Converter /\ [Next]_vars => Converter'
  BY Zenon, NextKeepsConverter
<1>3. Converter => ConversionIsRight
  BY Zenon DEF Converter
<1> QED BY <1>1, <1>2, <1>3, PTL DEF Spec

\* What is written behind the mark, when the units are swapped.
LEMMA UnitsFollow ==
    ASSUME Types, AtSomeUnit, NEW body, body = SubSeq(outfile, 3, wpos),
           NEW i \in 1 .. (Len(body) \div 2)
    PROVE  body[2 * i - 1] = infile[2 * i + 2] /\ body[2 * i] = infile[2 * i + 1]
<1>1. /\ infile \in Data /\ outfile \in Data /\ wpos \in Nat /\ wpos <= Len(outfile)
      /\ wpos <= Len(infile) /\ off = wpos /\ wpos <= wpos
  BY SMT DEF Types, FilesOpen, AtSomeUnit, Data
<1>2. PICK s, t : s = SubSeq(infile, 1, wpos) /\ t = SubSeq(outfile, 1, wpos)
  BY Zenon
<1>3. PICK k \in Nat : SwappedTo(s, t, k)
  BY Zenon, <1>1, <1>2 DEF AtSomeUnit, Swapped, written
<1>4. PartOf(s, infile, 1, wpos) /\ PartOf(t, outfile, 1, wpos) /\ PartOf(body, outfile, 3, wpos)
  <2>1. 1 \in Nat /\ 1 >= 1 /\ 3 \in Nat /\ 3 >= 1 /\ wpos \in Int
    BY SMT, <1>1
  <2> QED BY Zenon, <1>1, <1>2, <2>1, PartIs
<1>5. /\ Len(s) = wpos /\ \A j \in 1 .. wpos : s[j] = infile[j]
      /\ \A j \in 1 .. wpos : t[j] = outfile[j]
      /\ Len(body) = IF 3 <= wpos THEN wpos - 2 ELSE 0
      /\ \A j \in 1 .. (wpos - 2) : body[j] = outfile[j + 2]
  BY ONLY SMT, <1>1, <1>4 DEF PartOf
<1>6. /\ wpos = 2 * k /\ \A j \in 1 .. k : t[2 * j - 1] = s[2 * j] /\ t[2 * j] = s[2 * j - 1]
  BY ONLY SMT, <1>3, <1>5 DEF SwappedTo
<1>7. PICK j : j = i + 1
  BY Zenon
<1>8. PICK l : l = Len(body) /\ l \in Nat /\ (l = 0 \/ l = wpos - 2)
  BY SMT, <1>1, <1>5
<1>9. i \in Nat /\ i >= 1 /\ 2 * i <= l
  <2>1. PICK d : d = l \div 2
    BY Zenon
  <2>2. d \in Int /\ 2 * d <= l
    BY ONLY SMT, <1>8, <2>1
  <2>3. i \in 1 .. d
    BY Zenon, <1>8, <2>1
  <2> QED BY ONLY SMT, <1>8, <2>2, <2>3
<1>10. /\ j \in 1 .. k /\ 2 * i \in 1 .. (wpos - 2) /\ 2 * i - 1 \in 1 .. (wpos - 2)
       /\ 2 * j = 2 * i + 2 /\ 2 * j - 1 = 2 * i + 1 /\ 2 * i - 1 + 2 = 2 * i + 1
       /\ 2 * j \in 1 .. wpos /\ 2 * j - 1 \in 1 .. wpos
  BY ONLY SMT, <1>1, <1>6, <1>7, <1>8, <1>9
<1>11. body[2 * i - 1] = outfile[2 * i + 1] /\ body[2 * i] = outfile[2 * i + 2]
  BY ONLY Zenon, <1>5, <1>10
<1>12. t[2 * j - 1] = s[2 * j] /\ t[2 * j] = s[2 * j - 1]
  BY ONLY Zenon, <1>6, <1>10
<1>13. /\ t[2 * j - 1] = outfile[2 * j - 1] /\ t[2 * j] = outfile[2 * j]
       /\ s[2 * j - 1] = infile[2 * j - 1] /\ s[2 * j] = infile[2 * j]
  BY ONLY Zenon, <1>5, <1>10
<1> QED BY ONLY Zenon, <1>10, <1>11, <1>12, <1>13

\* It says what OutputFollowsInput says.
LEMMA ConverterFollows == Converter => OutputFollowsInput
<1> SUFFICES ASSUME Converter, phase = "convert", Plain PROVE OutputFollowsInput
  BY Zenon DEF OutputFollowsInput
<1>1. encoding_from = case.from /\ bom_length = Len(BomBytes(encoding_from)) /\ Types
  BY Zenon DEF Converter, Found
<1>2. CASE AtEnd
  BY Zenon, <1>2 DEF AtEnd, OutputFollowsInput
<1>3. CASE AtSomePoint
  <2>1. PICK n \in 0 .. Len(case.points) : AtPoint(n)
    BY Zenon, <1>3 DEF AtSomePoint
  <2>2. /\ off = bom_length + Len(Bytes(encoding_from, case.points, n))
        /\ SubSeq(outfile, 1, wpos) = BomBytes(encoding_to) \o Bytes(encoding_to, case.points, n)
    BY Zenon, <1>1, <2>1 DEF AtPoint, Begins, written
  <2> QED BY Zenon, <1>3, <2>2 DEF AtSomePoint, OutputFollowsInput
<1>4. CASE AtSomeUnit
  <2>1. PICK body : body = SubSeq(outfile, 3, wpos)
    BY Zenon
  <2>2. \A i \in 1 .. (Len(body) \div 2) :
           body[2 * i - 1] = infile[2 * i + 2] /\ body[2 * i] = infile[2 * i + 1]
    BY Zenon, <1>1, <1>4, <2>1, UnitsFollow
  <2> QED BY Zenon, <1>4, <2>1, <2>2 DEF AtSomeUnit, OutputFollowsInput
<1> QED BY Zenon, <1>2, <1>3, <1>4 DEF Converter, Midway

\* While a conversion runs, what it has written is the encoding of the code points it has
\* read, or the same units in the other order, until it meets a glyph that is cut off.
THEOREM OutputStaysBehindInput == Spec => []OutputFollowsInput
<1>1. Init => Converter
  BY Zenon, ConverterAtFirst
<1>2. Converter /\ [Next]_vars => Converter'
  BY Zenon, NextKeepsConverter
<1>3. Converter => OutputFollowsInput
  BY Zenon, ConverterFollows
<1> QED BY <1>1, <1>2, <1>3, PTL DEF Spec

=============================================================================
