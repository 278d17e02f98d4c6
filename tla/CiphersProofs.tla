---------------------------- MODULE CiphersProofs -----------------------------
(***************************************************************************)
(* What is proved of hw1's ciphers, for every command line and every text: *)
(* the table a key makes is a permutation of its alphabet; what the        *)
(* Polybius square has encrypted it decrypts, whatever its size; what      *)
(* fractionated Morse has encrypted it decrypts, line by line, as far as   *)
(* it keeps a message's blanks; and what stands behind an array decides a  *)
(* run only where the text or the key explains it.                         *)
(***************************************************************************)
EXTENDS Ciphers, DataInduction, FiniteSetTheorems

-----------------------------------------------------------------------------
(* The table *)

\* a is the N codes after b.
IsRange(a, b, N) == b \in Nat /\ N \in Nat \ {0} /\ a = [i \in 1..N |-> b + i]

LEMMA RangeIs ==
    ASSUME NEW a, NEW b, NEW N, IsRange(a, b, N)
    PROVE  /\ a \in Seq(Nat) /\ Len(a) = N /\ DOMAIN a = 1..N
           /\ \A i \in 1..N : a[i] = b + i
           /\ Elements(a) = (b + 1)..(b + N)
<1>1. a \in Seq(Nat) /\ Len(a) = N /\ DOMAIN a = 1..N /\ \A i \in 1..N : a[i] = b + i
  BY SMT DEF IsRange
<1>2. ASSUME NEW c PROVE c \in Elements(a) <=> c \in (b + 1)..(b + N)
  <2>1. c \in Elements(a) <=> \E i \in 1..N : c = b + i
    BY Zenon, <1>1 DEF Elements
  <2>2. ASSUME c \in (b + 1)..(b + N) PROVE \E i \in 1..N : c = b + i
    <3>1. c - b \in 1..N /\ c = b + (c - b)
      BY SMT, <2>2 DEF IsRange
    <3> QED BY Zenon, <3>1
  <2>3. ASSUME NEW i \in 1..N, c = b + i PROVE c \in (b + 1)..(b + N)
    BY SMT, <2>3 DEF IsRange
  <2> QED BY Zenon, <2>1, <2>2, <2>3
<1> QED BY Zenon, <1>1, <1>2

LEMMA AlphabetsAre == IsRange(polybius_alphabet, 32, 94) /\ IsRange(fm_alphabet, 64, 26)
BY SMT DEF IsRange, polybius_alphabet, fm_alphabet

\* k has characters of the range only, and none of them twice.
GoodKey(k, b, N) ==
    /\ k \in Seq(Nat)
    /\ \A i \in 1..Len(k) : k[i] \in (b + 1)..(b + N)
    /\ \A i, j \in 1..Len(k) : k[i] = k[j] => i = j

\* Such are the keys valid_key lets through.
LEMMA ValidKeyIsGood ==
    ASSUME NEW a, NEW b, NEW N, IsRange(a, b, N),
           NEW k \in Seq(Nat), valid_key(k, a) = "valid"
    PROVE  GoodKey(k, b, N)
<1>1. a[1] = b + 1 /\ Len(a) = N /\ 1 \in 1..N /\ b \in Nat /\ N \in Nat
  BY SMT, RangeIs DEF IsRange
<1>2. DOMAIN k = 1..Len(k)
  BY SMT
<1> DEFINE past == a[1] + Len(a)
           Bad(i) == k[i] \notin a[1]..(past - 1) \/ \E j \in DOMAIN k : j # i /\ k[j] = k[i]
           bad == {i \in DOMAIN k : Bad(i)}
<1>3. bad = {}
  <2>1. ASSUME bad # {} PROVE valid_key(k, a) \in {"loops", "invalid"}
    BY Zenon, <2>1 DEF valid_key
  <2> QED BY SMT, <2>1
<1>4. \A i \in 1..Len(k) : ~Bad(i)
  BY Zenon, <1>2, <1>3
<1>5. a[1]..(past - 1) = (b + 1)..(b + N)
  BY SMT, <1>1
<1> HIDE DEF past
<1>6. \A i \in 1..Len(k) : k[i] \in (b + 1)..(b + N)
  BY Zenon, <1>4, <1>5
<1>7. \A i, j \in 1..Len(k) : k[i] = k[j] => i = j
  BY Zenon, <1>2, <1>4
<1> QED BY Zenon, <1>6, <1>7 DEF GoodKey

\* A key it never ends for has the character that follows the alphabet.
LEMMA LoopingKey ==
    ASSUME NEW a, NEW b, NEW N, IsRange(a, b, N),
           NEW k \in Seq(Nat), valid_key(k, a) = "loops"
    PROVE  b + N + 1 \in Elements(k)
<1>1. a[1] = b + 1 /\ Len(a) = N /\ b \in Nat /\ N \in Nat /\ DOMAIN k \in SUBSET Nat
  BY SMT, RangeIs DEF IsRange
<1> DEFINE past == a[1] + Len(a)
           Bad(i) == k[i] \notin a[1]..(past - 1) \/ \E j \in DOMAIN k : j # i /\ k[j] = k[i]
           bad == {i \in DOMAIN k : Bad(i)}
           first == CHOOSE i \in bad : \A j \in bad : i <= j
<1>2. valid_key(k, a) = IF bad = {} THEN "valid" ELSE IF k[first] = past THEN "loops" ELSE "invalid"
  BY Zenon DEF valid_key
<1>3. bad \in SUBSET Nat /\ bad \subseteq DOMAIN k
  BY Zenon, <1>1
<1>4. past = b + N + 1
  BY SMT, <1>1
<1> HIDE DEF past, bad
<1>5. bad # {} /\ k[first] = past
  BY SMT, <1>2
<1>6. first \in bad
  <2>1. \E i \in bad : \A j \in bad : i <= j
    BY Zenon, <1>3, <1>5, LeastNumber
  <2> QED BY Zenon, <2>1
<1> QED BY Zenon, <1>3, <1>4, <1>5, <1>6 DEF Elements

LEMMA LoopingKeys ==
    ASSUME NEW k \in Seq(Nat)
    PROVE  /\ valid_key(k, polybius_alphabet) = "loops" => 127 \in Elements(k)
           /\ valid_key(k, fm_alphabet) = "loops" => 91 \in Elements(k)
<1>1. ASSUME valid_key(k, polybius_alphabet) = "loops" PROVE 127 \in Elements(k)
  <2>1. PICK b, N : b = 32 /\ N = 94 /\ IsRange(polybius_alphabet, b, N)
    BY SMT, AlphabetsAre
  <2>2. b + N + 1 \in Elements(k)
    BY Zenon, <1>1, <2>1, LoopingKey
  <2>3. b + N + 1 = 127
    BY ONLY SMT, <2>1
  <2> QED BY ONLY Zenon, <2>2, <2>3
<1>2. ASSUME valid_key(k, fm_alphabet) = "loops" PROVE 91 \in Elements(k)
  <2>1. PICK b, N : b = 64 /\ N = 26 /\ IsRange(fm_alphabet, b, N)
    BY SMT, AlphabetsAre
  <2>2. b + N + 1 \in Elements(k)
    BY Zenon, <1>2, <2>1, LoopingKey
  <2>3. b + N + 1 = 91
    BY ONLY SMT, <2>1
  <2> QED BY ONLY Zenon, <2>2, <2>3
<1> QED BY ONLY Zenon, <1>1, <1>2

\* h is the table after each character of the alphabet.
Fills(k, a, h) ==
    h = [n \in 0..Len(a) |->
            IF n = 0 THEN k
            ELSE IF \E i \in DOMAIN k : k[i] = a[n] THEN h[n - 1]
            ELSE Append(h[n - 1], a[n])]

LEMMA TableFilled ==
    ASSUME NEW k, NEW a, k # NULL
    PROVE  WithKey(k, a) = (CHOOSE h : Fills(k, a, h))[Len(a)]
BY Zenon DEF WithKey, Fills

LEMMA FillsExists ==
    ASSUME NEW k \in Seq(Nat), NEW a \in Seq(Nat)
    PROVE  \E h : Fills(k, a, h)
<1> DEFINE s == [n \in 1..Len(a) |-> [q \in Seq(Nat) |->
                    IF \E i \in DOMAIN k : k[i] = a[n] THEN q ELSE Append(q, a[n])]]
<1>1. Len(a) \in Nat
  BY SMT
<1>2. s \in [1..Len(a) -> [Seq(Nat) -> Seq(Nat)]]
  <2>1. ASSUME NEW n \in 1..Len(a), NEW q \in Seq(Nat) PROVE Append(q, a[n]) \in Seq(Nat)
    BY SMT
  <2> QED BY Zenon, <2>1
<1>3. PICK h \in [0..Len(a) -> Seq(Nat)] : Unrolls(h, Len(a), k, s)
  <2> HIDE DEF s
  <2> QED BY Zenon, <1>1, <1>2, UnrollingExists
<1>4. ASSUME NEW n \in 0..Len(a)
      PROVE  h[n] = IF n = 0 THEN k
                    ELSE IF \E i \in DOMAIN k : k[i] = a[n] THEN h[n - 1]
                    ELSE Append(h[n - 1], a[n])
  <2>1. CASE n = 0
    BY Zenon, <1>3, <2>1 DEF Unrolls
  <2>2. CASE n # 0
    <3>1. n \in 1..Len(a) /\ n - 1 \in 0..Len(a)
      BY SMT, <1>1, <2>2
    <3>2. h[n] = s[n][h[n - 1]] /\ h[n - 1] \in Seq(Nat)
      BY Zenon, <1>3, <3>1 DEF Unrolls
    <3> QED BY Zenon, <2>2, <3>1, <3>2
  <2> QED BY Zenon, <2>1, <2>2
<1>5. h = [n \in 0..Len(a) |-> h[n]]
  BY Zenon
<1>6. Fills(k, a, h)
  BY Zenon, <1>4, <1>5 DEF Fills
<1> QED BY Zenon, <1>6

\* After n characters the table has the key and the first n of the alphabet, each once.
Filled(q, k, b, n) ==
    /\ q \in Seq(Nat)
    /\ \A i, j \in 1..Len(q) : q[i] = q[j] => i = j
    /\ \A c : c \in Elements(q) <=> c \in Elements(k) \/ c \in (b + 1)..(b + n)

LEMMA ElementsOf ==
    ASSUME NEW q \in Seq(Nat), NEW c
    PROVE  c \in Elements(q) <=> \E i \in 1..Len(q) : q[i] = c
<1>1. DOMAIN q = 1..Len(q)
  BY SMT
<1> QED BY Zenon, <1>1 DEF Elements

LEMMA OneMoreFilled ==
    ASSUME NEW q, NEW k, NEW b \in Nat, NEW n \in Nat, Filled(q, k, b, n),
           b + (n + 1) \notin Elements(k)
    PROVE  Filled(Append(q, b + (n + 1)), k, b, n + 1)
<1> DEFINE c == b + (n + 1)
           t == Append(q, c)
<1>1. q \in Seq(Nat) /\ c \in Nat
  BY SMT DEF Filled
<1>2. /\ t \in Seq(Nat) /\ Len(t) = Len(q) + 1 /\ Len(q) \in Nat
      /\ t[Len(t)] = c /\ \A i \in 1..Len(q) : t[i] = q[i]
  BY SMT, <1>1
<1>3. c \notin Elements(q)
  <2>1. c \notin (b + 1)..(b + n)
    BY SMT
  <2> QED BY Zenon, <2>1 DEF Filled
<1>4. \A i \in 1..Len(q) : t[i] # c
  BY Zenon, <1>1, <1>2, <1>3, ElementsOf
<1> HIDE DEF t
<1>5. ASSUME NEW i \in 1..Len(t), NEW j \in 1..Len(t), t[i] = t[j] PROVE i = j
  <2>1. (i = Len(t) \/ i \in 1..Len(q)) /\ (j = Len(t) \/ j \in 1..Len(q))
    BY SMT, <1>2
  <2> QED BY Zenon, <1>2, <1>4, <1>5, <2>1 DEF Filled
<1>6. ASSUME NEW d PROVE d \in Elements(t) <=> d \in Elements(q) \/ d = c
  <2>1. d \in Elements(t) <=> \E i \in 1..Len(t) : t[i] = d
    BY Zenon, <1>2, ElementsOf
  <2>2. d \in Elements(q) <=> \E i \in 1..Len(q) : q[i] = d
    BY Zenon, <1>1, ElementsOf
  <2>3. Len(t) \in 1..Len(t) /\ \A i \in 1..Len(t) : i = Len(t) \/ i \in 1..Len(q)
    BY SMT, <1>2
  <2>4. \A i \in 1..Len(q) : i \in 1..Len(t)
    BY SMT, <1>2
  <2> QED BY Zenon, <1>2, <2>1, <2>2, <2>3, <2>4
<1>7. ASSUME NEW d PROVE d \in (b + 1)..(b + (n + 1)) <=> d \in (b + 1)..(b + n) \/ d = c
  BY SMT
<1> HIDE DEF c
<1>8. \A d : d \in Elements(t) <=> d \in Elements(k) \/ d \in (b + 1)..(b + (n + 1))
  BY Zenon, <1>6, <1>7 DEF Filled
<1>9. Filled(t, k, b, n + 1)
  BY Zenon, <1>2, <1>5, <1>8 DEF Filled
<1> QED BY Zenon, <1>9 DEF t, c

LEMMA TableStaysFilled ==
    ASSUME NEW a, NEW b, NEW N, IsRange(a, b, N), NEW k, GoodKey(k, b, N),
           NEW h, Fills(k, a, h)
    PROVE  \A n \in 0..N : Filled(h[n], k, b, n)
<1>1. /\ a \in Seq(Nat) /\ Len(a) = N /\ b \in Nat /\ N \in Nat
      /\ \A i \in 1..N : a[i] = b + i
  BY SMT, RangeIs DEF IsRange
<1>2. \A n \in 0..N : h[n] = IF n = 0 THEN k
                              ELSE IF \E i \in DOMAIN k : k[i] = a[n] THEN h[n - 1]
                              ELSE Append(h[n - 1], a[n])
  BY Zenon, <1>1 DEF Fills
<1> DEFINE S == {n \in 0..N : Filled(h[n], k, b, n)}
<1>3. 0 \in S
  <2>1. 0 \in 0..N /\ \A c : c \notin (b + 1)..(b + 0)
    BY SMT, <1>1
  <2>2. h[0] = k
    BY Zenon, <1>2, <2>1
  <2> QED BY Zenon, <2>1, <2>2 DEF GoodKey, Filled
<1>4. ASSUME NEW n \in 0..N, n \in S /\ n < N PROVE n + 1 \in S
  <2>1. PICK m : m = n + 1 /\ m \in 0..N /\ m # 0 /\ m - 1 = n /\ m \in 1..N /\ n \in Nat
    BY SMT, <1>1, <1>4
  <2>2. Filled(h[n], k, b, n) /\ a[m] = b + m
    BY Zenon, <1>1, <1>4, <2>1
  <2>3. CASE \E i \in DOMAIN k : k[i] = a[m]
    <3>1. h[m] = h[n]
      BY Zenon, <1>2, <2>1, <2>3
    <3>2. b + m \in Elements(k)
      BY Zenon, <2>2, <2>3 DEF Elements
    <3>3. \A c : c \in (b + 1)..(b + m) <=> c \in (b + 1)..(b + n) \/ c = b + m
      BY SMT, <1>1, <2>1
    <3>4. Filled(h[m], k, b, m)
      BY Zenon, <2>2, <3>1, <3>2, <3>3 DEF Filled
    <3> QED BY Zenon, <2>1, <3>4
  <2>4. CASE ~(\E i \in DOMAIN k : k[i] = a[m])
    <3>1. h[m] = Append(h[n], b + m)
      BY Zenon, <1>2, <2>1, <2>2, <2>4
    <3>2. b + m \notin Elements(k)
      BY Zenon, <2>2, <2>4 DEF Elements
    <3>3. Filled(Append(h[n], b + (n + 1)), k, b, n + 1)
      BY Zenon, <1>1, <2>1, <2>2, <3>2, OneMoreFilled
    <3> QED BY Zenon, <2>1, <3>1, <3>3
  <2> QED BY Zenon, <2>3, <2>4
<1>5. \A n \in 0..N : n \in S
  <2> HIDE DEF S
  <2> QED BY Zenon, <1>1, <1>3, <1>4, InductTo
<1> QED BY Zenon, <1>5

\* t has each character of a, and no other, once.
Permutation(t, a) ==
    /\ t \in Seq(Nat) /\ Elements(a) = Elements(t) /\ Len(t) = Len(a)
    /\ \A i, j \in 1..Len(t) : t[i] = t[j] => i = j

\* A sequence of different elements is as long as they are many.
LEMMA LengthOfDistinct ==
    ASSUME NEW q \in Seq(Nat), \A i, j \in 1..Len(q) : q[i] = q[j] => i = j,
           NEW b \in Nat, NEW N \in Nat, Elements(q) = (b + 1)..(b + N)
    PROVE  Len(q) = N
<1>1. Len(q) \in Nat /\ DOMAIN q = 1..Len(q) /\ q \in [1..Len(q) -> Nat]
  BY SMT
<1>2. q \in [1..Len(q) -> Elements(q)]
  BY Zenon, <1>1 DEF Elements
<1>3. q \in Bijection(1..Len(q), Elements(q))
  <2>1. q \in Injection(1..Len(q), Elements(q))
    BY Zenon, <1>2 DEF Injection, IsInjective
  <2>2. q \in Surjection(1..Len(q), Elements(q))
    BY Zenon, <1>1, <1>2 DEF Surjection, Elements
  <2> QED BY Zenon, <2>1, <2>2 DEF Bijection
<1>4. IsFiniteSet(1..Len(q)) /\ Cardinality(1..Len(q)) = Len(q)
  <2>1. PICK l : l = Len(q) /\ l \in Int /\ l >= 0 /\ 1 \in Int
    BY SMT, <1>1
  <2>2. /\ IsFiniteSet(1..l)
        /\ Cardinality(1..l) = IF 1 > l THEN 0 ELSE l - 1 + 1
    BY Zenon, <2>1, FS_Interval
  <2>3. (IF 1 > l THEN 0 ELSE l - 1 + 1) = l
    BY ONLY SMT, <2>1
  <2> QED BY Zenon, <2>1, <2>2, <2>3
<1>5. Cardinality(Elements(q)) = Len(q)
  BY Zenon, <1>3, <1>4, FS_Bijection DEF ExistsBijection
<1>6. Cardinality((b + 1)..(b + N)) = N
  BY SMT, FS_Interval
<1> QED BY Zenon, <1>5, <1>6

\* The keys valid_key lets through, and none, make a permutation.
LEMMA KeyMakesPermutation ==
    ASSUME NEW a, NEW b, NEW N, IsRange(a, b, N),
           NEW k, k = NULL \/ (k \in Seq(Nat) /\ valid_key(k, a) = "valid")
    PROVE  Permutation(WithKey(k, a), a)
<1>1. /\ a \in Seq(Nat) /\ Len(a) = N /\ b \in Nat /\ N \in Nat
      /\ Elements(a) = (b + 1)..(b + N)
  <2>1. b \in Nat /\ N \in Nat
    BY SMT DEF IsRange
  <2>2. a \in Seq(Nat) /\ Len(a) = N
    BY SMT, RangeIs
  <2>3. Elements(a) = (b + 1)..(b + N)
    BY SMT, RangeIs
  <2> QED BY Zenon, <2>1, <2>2, <2>3
<1>2. CASE k = NULL
  <2>1. WithKey(k, a) = a
    BY Zenon, <1>2 DEF WithKey
  <2>2. \A i, j \in 1..Len(a) : a[i] = a[j] => i = j
    BY SMT DEF IsRange
  <2> QED BY Zenon, <1>1, <2>1, <2>2 DEF Permutation
<1>3. CASE k # NULL
  <2>1. k \in Seq(Nat) /\ GoodKey(k, b, N)
    BY Zenon, <1>3, ValidKeyIsGood
  <2>2. PICK h : h = CHOOSE g : Fills(k, a, g)
    BY Zenon
  <2>3. Fills(k, a, h)
    BY Zenon, <1>1, <2>1, <2>2, FillsExists
  <2>4. WithKey(k, a) = h[N]
    BY Zenon, <1>1, <1>3, <2>2, TableFilled
  <2>5. Filled(h[N], k, b, N)
    <3>1. N \in 0..N
      BY SMT, <1>1
    <3> QED BY Zenon, <2>1, <2>3, <3>1, TableStaysFilled
  <2>6. \A c : c \in Elements(k) => c \in (b + 1)..(b + N)
    <3>1. \A c : c \in Elements(k) => \E i \in 1..Len(k) : k[i] = c
      BY Zenon, <2>1, ElementsOf
    <3>2. \A i \in 1..Len(k) : k[i] \in (b + 1)..(b + N)
      BY Zenon, <2>1 DEF GoodKey
    <3> QED BY ONLY Zenon, <3>1, <3>2
  <2>7. Elements(h[N]) = (b + 1)..(b + N)
    BY Zenon, <2>5, <2>6 DEF Filled
  <2>8. Len(h[N]) = N
    BY Zenon, <1>1, <2>5, <2>7, LengthOfDistinct DEF Filled
  <2> QED BY Zenon, <1>1, <2>4, <2>5, <2>7, <2>8 DEF Filled, Permutation
<1> QED BY Zenon, <1>2, <1>3

-----------------------------------------------------------------------------
(* One character through the square *)

\* The digits of an address are read back: ten and more are letters.
LEMMA DigitsReadBack ==
    \A d \in 0..15 : Value(Digit(d)) = d /\ ~White(Digit(d)) /\ Digit(d) \in 48..70
BY SMT DEF Value, Digit, White, TAB, SPACE, NEWLINE

\* A place of the table, its row and its column.
LEMMA PlaceSplits ==
    ASSUME NEW row \in 9..15, NEW col \in 9..15, row * col >= 94, NEW place \in 0..93
    PROVE  /\ col * (place \div col) + (place % col) = place
           /\ (place \div col) \in 0..(row - 1)
           /\ (place % col) \in 0..(col - 1)
<1> DEFINE Splits(w) ==
        /\ w * (place \div w) + (place % w) = place
        /\ (place \div w) \in 0..(row - 1)
        /\ (place % w) \in 0..(w - 1)
<1>1. CASE col = 9
  <2>1. row >= 11 /\ Splits(9)
    BY SMT, <1>1
  <2> QED BY <1>1, <2>1
<1>2. CASE col = 10
  <2>1. row >= 10 /\ Splits(10)
    BY SMT, <1>2
  <2> QED BY <1>2, <2>1
<1>3. CASE col = 11
  <2>1. row >= 9 /\ Splits(11)
    BY SMT, <1>3
  <2> QED BY <1>3, <2>1
<1>4. CASE col = 12
  <2>1. Splits(12)
    BY SMT, <1>4
  <2> QED BY <1>4, <2>1
<1>5. CASE col = 13
  <2>1. Splits(13)
    BY SMT, <1>5
  <2> QED BY <1>5, <2>1
<1>6. CASE col = 14
  <2>1. Splits(14)
    BY SMT, <1>6
  <2> QED BY <1>6, <2>1
<1>7. CASE col = 15
  <2>1. Splits(15)
    BY SMT, <1>7
  <2> QED BY <1>7, <2>1
<1>8. col \in {9, 10, 11, 12, 13, 14, 15}
  BY SMT
<1> QED BY <1>1, <1>2, <1>3, <1>4, <1>5, <1>6, <1>7, <1>8

\* In every square validargs accepts (9 to 15 rows and columns, 94 fields), decrypt finds
\* at the address encrypt writes the place the character has in the table; the address
\* lies in the square, and none of its digits is white space, which decrypt copies.
THEOREM AddressReadsBack ==
    ASSUME mode.row \in 9..15, mode.col \in 9..15, mode.row * mode.col >= 94,
           NEW c, Place(c) \in 1..94
    PROVE  LET address == writeAddress(c) IN
           /\ mode.col * Value(address[1]) + Value(address[2]) = Place(c) - 1
           /\ Value(address[1]) < mode.row /\ Value(address[2]) < mode.col
           /\ ~White(address[1]) /\ ~White(address[2])
<1> DEFINE place == Place(c) - 1
           r == place \div mode.col
           k == place % mode.col
<1>1. place \in 0..93
  BY SMT
<1> HIDE DEF place
<1>2. /\ mode.col * r + k = place
      /\ r \in 0..(mode.row - 1) /\ k \in 0..(mode.col - 1)
  BY <1>1, PlaceSplits
<1> HIDE DEF r, k
<1>3. r \in 0..15 /\ k \in 0..15 /\ r < mode.row /\ k < mode.col
  BY SMT, <1>2
<1>4. writeAddress(c)[1] = Digit(r) /\ writeAddress(c)[2] = Digit(k)
  BY DEF writeAddress, place, r, k
<1>5. Value(Digit(r)) = r /\ Value(Digit(k)) = k /\ ~White(Digit(r)) /\ ~White(Digit(k))
  BY <1>3, DigitsReadBack
<1> QED BY <1>2, <1>3, <1>4, <1>5 DEF place

-----------------------------------------------------------------------------
(* The options of -p *)

Option == [flag : Flags, given : BOOLEAN, arg : Seq(Nat)]

\* No key, or one that valid_key lets through.
KeyAccepted(k) == k = NULL \/ (k \in Seq(Nat) /\ valid_key(k, polybius_alphabet) = "valid")

\* What the loop knows so far: no more rows or columns than 15, no fewer than 9.
Endings == {"go", "refuse", "crash", "hang"}
Sides == 9..15
Keys == Seq(Nat) \cup {NULL}
Registers == [end : Endings, seen : SUBSET Flags, row : Sides, col : Sides, key : Keys]
Knowledge == {s \in Registers : KeyAccepted(s.key)}

LEMMA OneMoreSeen ==
    ASSUME NEW s \in Registers, NEW seen \in SUBSET Flags
    PROVE  [s EXCEPT !.seen = seen] \in Registers /\ [s EXCEPT !.seen = seen].key = s.key
BY SMT DEF Registers

LEMMA OneMoreSet ==
    ASSUME NEW s \in Registers, NEW n \in Sides, NEW k \in Keys
    PROVE  /\ [s EXCEPT !.row = n] \in Registers /\ [s EXCEPT !.row = n].key = s.key
           /\ [s EXCEPT !.col = n] \in Registers /\ [s EXCEPT !.col = n].key = s.key
           /\ [s EXCEPT !.key = k] \in Registers /\ [s EXCEPT !.key = k].key = k
BY SMT DEF Registers

LEMMA OptionKeepsKnowledge ==
    ASSUME NEW s \in Knowledge, NEW o \in Option
    PROVE  OptionRead(s, o) \in Knowledge
<1>1. s \in Registers /\ KeyAccepted(s.key)
  BY Zenon DEF Knowledge
<1>2. o.flag \in Flags /\ o.given \in BOOLEAN /\ o.arg \in Seq(Nat)
  BY Zenon DEF Option
<1>3. /\ [s EXCEPT !.end = "refuse"] \in Knowledge
      /\ [s EXCEPT !.end = "crash"] \in Knowledge
      /\ [s EXCEPT !.end = "hang"] \in Knowledge
  <2>1. ASSUME NEW e \in Endings
        PROVE  [s EXCEPT !.end = e] \in Registers /\ [s EXCEPT !.end = e].key = s.key
    BY SMT, <1>1 DEF Registers
  <2>2. \A e \in Endings : [s EXCEPT !.end = e] \in Knowledge
    BY Zenon, <1>1, <2>1 DEF Knowledge
  <2> QED BY Zenon, <2>2 DEF Endings
<1>0. \A f \in {"-k", "-r", "-c"} : s.seen \cup {f} \in SUBSET Flags
  <2>1. s.seen \in SUBSET Flags
    BY SMT, <1>1 DEF Registers
  <2> QED BY Zenon, <2>1 DEF Flags
<1>4. ASSUME valid_key(o.arg, polybius_alphabet) = "valid"
      PROVE  [s EXCEPT !.seen = @ \cup {"-k"}, !.key = o.arg] \in Knowledge
  <2>1. KeyAccepted(o.arg)
    BY Zenon, <1>2, <1>4 DEF KeyAccepted
  <2>2. PICK seen \in SUBSET Flags : seen = s.seen \cup {"-k"}
    BY Zenon, <1>0
  <2>3. PICK k \in Keys : k = o.arg
    BY Zenon, <1>2 DEF Keys
  <2>4. PICK t : t = [[s EXCEPT !.seen = seen] EXCEPT !.key = k]
    BY Zenon
  <2>5. t \in Registers /\ t.key = k
    <3>1. 9 \in Sides
      BY SMT DEF Sides
    <3>2. PICK u \in Registers : u = [s EXCEPT !.seen = seen]
      BY Zenon, <1>1, OneMoreSeen
    <3> QED BY ONLY Zenon, <2>4, <3>1, <3>2, OneMoreSet
  <2>6. t \in Knowledge
    BY Zenon, <2>1, <2>3, <2>5 DEF Knowledge
  <2> QED BY Zenon, <2>2, <2>3, <2>4, <2>6
<1>5. ASSUME o.arg[1] \in 9..15
      PROVE  /\ [s EXCEPT !.seen = @ \cup {"-r"}, !.row = o.arg[1]] \in Knowledge
             /\ [s EXCEPT !.seen = @ \cup {"-c"}, !.col = o.arg[1]] \in Knowledge
  <2>1. PICK n \in Sides : n = o.arg[1]
    BY Zenon, <1>5 DEF Sides
  <2>2. ASSUME NEW seen \in SUBSET Flags
        PROVE  /\ [[s EXCEPT !.seen = seen] EXCEPT !.row = n] \in Registers
               /\ [[s EXCEPT !.seen = seen] EXCEPT !.row = n].key = s.key
               /\ [[s EXCEPT !.seen = seen] EXCEPT !.col = n] \in Registers
               /\ [[s EXCEPT !.seen = seen] EXCEPT !.col = n].key = s.key
    <3>1. NULL \in Keys
      BY Zenon DEF Keys
    <3>2. PICK u \in Registers : u = [s EXCEPT !.seen = seen] /\ u.key = s.key
      BY Zenon, <1>1, OneMoreSeen
    <3>3. /\ [u EXCEPT !.row = n] \in Registers /\ [u EXCEPT !.row = n].key = s.key
          /\ [u EXCEPT !.col = n] \in Registers /\ [u EXCEPT !.col = n].key = s.key
      BY Zenon, <3>1, <3>2, OneMoreSet
    <3> QED BY ONLY Zenon, <3>2, <3>3
  <2>3. \A seen \in SUBSET Flags :
           /\ [[s EXCEPT !.seen = seen] EXCEPT !.row = n] \in Knowledge
           /\ [[s EXCEPT !.seen = seen] EXCEPT !.col = n] \in Knowledge
    BY Zenon, <1>1, <2>2 DEF Knowledge
  <2> QED BY Zenon, <1>0, <2>1, <2>3
<1>6. CASE o.flag = "-x" \/ o.flag \in s.seen
  <2>1. OptionRead(s, o) = [s EXCEPT !.end = "refuse"]
    BY Zenon, <1>6 DEF OptionRead
  <2> QED BY Zenon, <1>3, <2>1
<1>7. CASE o.flag \in {"-k", "-r", "-c"} \ s.seen /\ ~o.given
  <2>1. OptionRead(s, o) = [s EXCEPT !.end = "crash"]
    BY SMT, <1>7 DEF OptionRead
  <2> QED BY Zenon, <1>3, <2>1
<1>8. CASE o.flag = "-k" /\ o.flag \notin s.seen /\ o.given
  <2>1. OptionRead(s, o) = CASE valid_key(o.arg, polybius_alphabet) = "valid" ->
                      [s EXCEPT !.seen = @ \cup {"-k"}, !.key = o.arg]
               [] valid_key(o.arg, polybius_alphabet) = "loops" -> [s EXCEPT !.end = "hang"]
               [] OTHER -> [s EXCEPT !.end = "refuse"]
    BY SMT, <1>8 DEF OptionRead
  <2>2. CASE valid_key(o.arg, polybius_alphabet) = "valid"
    BY SMT, <1>4, <2>1, <2>2
  <2>3. CASE valid_key(o.arg, polybius_alphabet) # "valid"
    BY SMT, <1>3, <2>1, <2>3
  <2> QED BY Zenon, <2>2, <2>3
<1>9. CASE o.flag \in {"-r", "-c"} \ s.seen /\ o.given
  <2>1. OptionRead(s, o) =
             IF o.arg[1] \notin 9..15 THEN [s EXCEPT !.end = "refuse"]
             ELSE IF o.flag = "-r" THEN [s EXCEPT !.seen = @ \cup {"-r"}, !.row = o.arg[1]]
             ELSE [s EXCEPT !.seen = @ \cup {"-c"}, !.col = o.arg[1]]
    BY SMT, <1>9 DEF OptionRead
  <2> QED BY Zenon, <1>3, <1>5, <2>1
<1>10. \/ o.flag = "-x" \/ o.flag \in s.seen
       \/ o.flag \in {"-k", "-r", "-c"} \ s.seen
  BY Zenon, <1>2 DEF Flags
<1> QED BY Zenon, <1>2, <1>6, <1>7, <1>8, <1>9, <1>10

LEMMA NothingIsKnown == NoOptions \in Knowledge
<1>1. KeyAccepted(NULL)
  BY Zenon DEF KeyAccepted
<1>2. NoOptions \in Registers /\ NoOptions.key = NULL
  <2>1. 10 \in Sides
    BY SMT DEF Sides
  <2>2. "go" \in Endings /\ NULL \in Keys
    BY Zenon DEF Endings, Keys
  <2> QED BY SMT, <2>1, <2>2 DEF NoOptions, Registers
<1> QED BY Zenon, <1>1, <1>2 DEF Knowledge

\* h is what the loop knows after each option.
Reads(options, h) ==
    h = [n \in 0..Len(options) |->
            IF n = 0 THEN NoOptions
            ELSE IF h[n - 1].end # "go" THEN h[n - 1]
            ELSE OptionRead(h[n - 1], options[n])]

LEMMA OptionsRead ==
    ASSUME NEW options
    PROVE  Options(options) = (CHOOSE h : Reads(options, h))[Len(options)]
BY Zenon DEF Options, Reads

LEMMA ReadsExists ==
    ASSUME NEW options \in Seq(Option)
    PROVE  \E h : Reads(options, h)
<1> DEFINE s == [n \in 1..Len(options) |-> [q \in Knowledge |->
                    IF q.end # "go" THEN q ELSE OptionRead(q, options[n])]]
<1>1. Len(options) \in Nat /\ \A n \in 1..Len(options) : options[n] \in Option
  BY SMT
<1>2. s \in [1..Len(options) -> [Knowledge -> Knowledge]]
  BY Zenon, <1>1, OptionKeepsKnowledge
<1>3. NoOptions \in Knowledge
  BY Zenon, NothingIsKnown
<1>4. PICK h \in [0..Len(options) -> Knowledge] : Unrolls(h, Len(options), NoOptions, s)
  <2> HIDE DEF s
  <2> QED BY Zenon, <1>1, <1>2, <1>3, UnrollingExists
<1>5. ASSUME NEW n \in 0..Len(options)
      PROVE  h[n] = IF n = 0 THEN NoOptions
                    ELSE IF h[n - 1].end # "go" THEN h[n - 1]
                    ELSE OptionRead(h[n - 1], options[n])
  <2>1. CASE n = 0
    BY Zenon, <1>4, <2>1 DEF Unrolls
  <2>2. CASE n # 0
    <3>1. n \in 1..Len(options) /\ n - 1 \in 0..Len(options)
      BY SMT, <1>1, <2>2
    <3>2. h[n] = s[n][h[n - 1]] /\ h[n - 1] \in Knowledge
      BY Zenon, <1>4, <3>1 DEF Unrolls
    <3> QED BY Zenon, <2>2, <3>1, <3>2
  <2> QED BY Zenon, <2>1, <2>2
<1>6. h = [n \in 0..Len(options) |-> h[n]]
  BY Zenon
<1>7. Reads(options, h)
  BY Zenon, <1>5, <1>6 DEF Reads
<1> QED BY Zenon, <1>7

\* Whatever the options are, the loop ends with a key and a square it may have.
LEMMA OptionsAreKnown ==
    ASSUME NEW options \in Seq(Option)
    PROVE  Options(options) \in Knowledge
<1>1. PICK h : h = CHOOSE g : Reads(options, g)
  BY Zenon
<1>2. Reads(options, h) /\ Options(options) = h[Len(options)]
  BY Zenon, <1>1, ReadsExists, OptionsRead
<1>3. PICK N : N = Len(options) /\ N \in Nat /\ \A n \in 1..N : options[n] \in Option
  BY SMT
<1>4. \A n \in 0..N : h[n] = IF n = 0 THEN NoOptions
                              ELSE IF h[n - 1].end # "go" THEN h[n - 1]
                              ELSE OptionRead(h[n - 1], options[n])
  BY Zenon, <1>2, <1>3 DEF Reads
<1> DEFINE S == {n \in 0..N : h[n] \in Knowledge}
<1>5. 0 \in S
  <2>1. 0 \in 0..N
    BY SMT, <1>3
  <2>2. NoOptions \in Knowledge
    BY Zenon, NothingIsKnown
  <2> QED BY Zenon, <1>4, <2>1, <2>2
<1>6. ASSUME NEW n \in 0..N, n \in S /\ n < N PROVE n + 1 \in S
  <2>1. PICK m : m = n + 1 /\ m \in 0..N /\ m # 0 /\ m - 1 = n /\ m \in 1..N
    BY SMT, <1>3, <1>6
  <2>2. h[n] \in Knowledge /\ options[m] \in Option
    BY Zenon, <1>3, <1>6, <2>1
  <2>3. h[m] = IF h[n].end # "go" THEN h[n] ELSE OptionRead(h[n], options[m])
    BY Zenon, <1>4, <2>1
  <2>4. h[m] \in Knowledge
    BY Zenon, <2>2, <2>3, OptionKeepsKnowledge
  <2> QED BY Zenon, <2>1, <2>4
<1>7. \A n \in 0..N : n \in S
  <2> HIDE DEF S
  <2> QED BY Zenon, <1>3, <1>5, <1>6, InductTo
<1>8. N \in 0..N
  BY SMT, <1>3
<1> QED BY Zenon, <1>2, <1>3, <1>7, <1>8

\* The loop hangs at a key that has the character after the square's alphabet.
HangsAt(o) == o.flag = "-k" /\ 127 \in Elements(o.arg)

LEMMA OptionHangs ==
    ASSUME NEW s \in Knowledge, NEW o \in Option, s.end = "go", OptionRead(s, o).end = "hang"
    PROVE  HangsAt(o)
<1>1. s \in Registers
  BY Zenon DEF Knowledge
<1>2. o.flag \in Flags /\ o.given \in BOOLEAN /\ o.arg \in Seq(Nat)
  BY Zenon DEF Option
<1>3. ASSUME NEW e \in {"refuse", "crash"} PROVE [s EXCEPT !.end = e].end # "hang"
  BY SMT, <1>1 DEF Registers
<1>4. ASSUME NEW seen \in SUBSET Flags, NEW k \in Keys, NEW n \in Sides
      PROVE  /\ [[s EXCEPT !.seen = seen] EXCEPT !.key = k].end # "hang"
             /\ [[s EXCEPT !.seen = seen] EXCEPT !.row = n].end # "hang"
             /\ [[s EXCEPT !.seen = seen] EXCEPT !.col = n].end # "hang"
  <2>1. [s EXCEPT !.seen = seen].end = s.end
    BY SMT, <1>1 DEF Registers
  <2>2. PICK u \in Registers : u = [s EXCEPT !.seen = seen] /\ u.end = s.end
    BY Zenon, <1>1, <2>1, OneMoreSeen
  <2>3. /\ [u EXCEPT !.key = k].end # "hang"
        /\ [u EXCEPT !.row = n].end # "hang"
        /\ [u EXCEPT !.col = n].end # "hang"
    <3>1. u.end # "hang"
      BY SMT, <2>2
    <3> QED BY SMT, <3>1 DEF Registers
  <2> QED BY ONLY Zenon, <2>2, <2>3
<1>5. \A f \in {"-k", "-r", "-c"} : s.seen \cup {f} \in SUBSET Flags
  <2>1. s.seen \in SUBSET Flags
    BY SMT, <1>1 DEF Registers
  <2> QED BY Zenon, <2>1 DEF Flags
<1>6. CASE o.flag = "-x" \/ o.flag \in s.seen
  <2>1. OptionRead(s, o) = [s EXCEPT !.end = "refuse"]
    BY Zenon, <1>6 DEF OptionRead
  <2> QED BY Zenon, <1>3, <2>1
<1>7. CASE o.flag \in {"-k", "-r", "-c"} \ s.seen /\ ~o.given
  <2>1. OptionRead(s, o) = [s EXCEPT !.end = "crash"]
    BY SMT, <1>7 DEF OptionRead
  <2> QED BY Zenon, <1>3, <2>1
<1>8. CASE o.flag = "-k" /\ o.flag \notin s.seen /\ o.given
  <2>1. OptionRead(s, o) = CASE valid_key(o.arg, polybius_alphabet) = "valid" ->
                      [s EXCEPT !.seen = @ \cup {"-k"}, !.key = o.arg]
               [] valid_key(o.arg, polybius_alphabet) = "loops" -> [s EXCEPT !.end = "hang"]
               [] OTHER -> [s EXCEPT !.end = "refuse"]
    BY SMT, <1>8 DEF OptionRead
  <2>2. CASE valid_key(o.arg, polybius_alphabet) = "valid"
    <3>1. OptionRead(s, o) = [s EXCEPT !.seen = s.seen \cup {"-k"}, !.key = o.arg]
      BY SMT, <2>1, <2>2
    <3>2. PICK seen \in SUBSET Flags : seen = s.seen \cup {"-k"}
      BY Zenon, <1>5
    <3>3. PICK k \in Keys : k = o.arg
      BY Zenon, <1>2 DEF Keys
    <3>4. 9 \in Sides
      BY SMT DEF Sides
    <3>5. PICK t : t = OptionRead(s, o)
      BY Zenon
    <3>6. t = [[s EXCEPT !.seen = seen] EXCEPT !.key = k]
      BY ONLY Zenon, <3>1, <3>2, <3>3, <3>5
    <3>7. t.end # "hang"
      BY Zenon, <1>4, <3>4, <3>6
    <3> QED BY Zenon, <3>5, <3>7
  <2>3. CASE valid_key(o.arg, polybius_alphabet) = "loops"
    <3>1. o.arg \in Seq(Nat) /\ o.flag = "-k"
      BY Zenon, <1>2, <1>8
    <3> QED BY Zenon, <2>3, <3>1, LoopingKeys DEF HangsAt
  <2>4. CASE valid_key(o.arg, polybius_alphabet) \notin {"valid", "loops"}
    <3>1. OptionRead(s, o) = [s EXCEPT !.end = "refuse"]
      BY SMT, <2>1, <2>4
    <3> QED BY Zenon, <1>3, <3>1
  <2> QED BY Zenon, <2>2, <2>3, <2>4
<1>9. CASE o.flag \in {"-r", "-c"} \ s.seen /\ o.given
  <2>1. OptionRead(s, o) =
             IF o.arg[1] \notin 9..15 THEN [s EXCEPT !.end = "refuse"]
             ELSE IF o.flag = "-r" THEN [s EXCEPT !.seen = @ \cup {"-r"}, !.row = o.arg[1]]
             ELSE [s EXCEPT !.seen = @ \cup {"-c"}, !.col = o.arg[1]]
    BY SMT, <1>9 DEF OptionRead
  <2>2. CASE o.arg[1] \notin 9..15
    BY Zenon, <1>3, <2>1, <2>2
  <2>3. CASE o.arg[1] \in 9..15
    <3>1. PICK n \in Sides : n = o.arg[1]
      BY Zenon, <2>3 DEF Sides
    <3>2. PICK f \in {"-r", "-c"}, seen \in SUBSET Flags : f = o.flag /\ seen = s.seen \cup {f}
      BY Zenon, <1>5, <1>9
    <3>3. PICK t : t = OptionRead(s, o)
      BY Zenon
    <3>4. \/ t = [[s EXCEPT !.seen = seen] EXCEPT !.row = n]
          \/ t = [[s EXCEPT !.seen = seen] EXCEPT !.col = n]
      BY Zenon, <2>1, <2>3, <3>1, <3>2, <3>3
    <3>5. NULL \in Keys
      BY Zenon DEF Keys
    <3>6. t.end # "hang"
      BY Zenon, <1>4, <3>4, <3>5
    <3> QED BY Zenon, <3>3, <3>6
  <2> QED BY Zenon, <2>2, <2>3
<1>10. \/ o.flag = "-x" \/ o.flag \in s.seen
       \/ o.flag \in {"-k", "-r", "-c"} \ s.seen
  BY Zenon, <1>2 DEF Flags
<1> QED BY Zenon, <1>2, <1>6, <1>7, <1>8, <1>9, <1>10

LEMMA OptionsHang ==
    ASSUME NEW options \in Seq(Option), Options(options).end = "hang"
    PROVE  \E i \in DOMAIN options : HangsAt(options[i])
<1>1. PICK h : h = CHOOSE g : Reads(options, g)
  BY Zenon
<1>2. Reads(options, h) /\ Options(options) = h[Len(options)]
  BY Zenon, <1>1, ReadsExists, OptionsRead
<1>3. PICK N : N = Len(options) /\ N \in Nat /\ DOMAIN options = 1..N
               /\ \A n \in 1..N : options[n] \in Option
  BY SMT
<1>4. \A n \in 0..N : h[n] = IF n = 0 THEN NoOptions
                              ELSE IF h[n - 1].end # "go" THEN h[n - 1]
                              ELSE OptionRead(h[n - 1], options[n])
  BY Zenon, <1>2, <1>3 DEF Reads
<1> DEFINE S == {n \in 0..N : /\ h[n] \in Knowledge
                              /\ h[n].end = "hang" => \E i \in 1..N : HangsAt(options[i])}
<1>5. 0 \in S
  <2>1. 0 \in 0..N
    BY SMT, <1>3
  <2>2. NoOptions \in Knowledge
    BY Zenon, NothingIsKnown
  <2>3. NoOptions.end # "hang"
    BY SMT DEF NoOptions
  <2> QED BY Zenon, <1>4, <2>1, <2>2, <2>3
<1>6. ASSUME NEW n \in 0..N, n \in S /\ n < N PROVE n + 1 \in S
  <2>1. PICK m : m = n + 1 /\ m \in 0..N /\ m # 0 /\ m - 1 = n /\ m \in 1..N
    BY SMT, <1>3, <1>6
  <2>2. h[n] \in Knowledge /\ options[m] \in Option
    BY Zenon, <1>3, <1>6, <2>1
  <2>3. h[m] = IF h[n].end # "go" THEN h[n] ELSE OptionRead(h[n], options[m])
    BY Zenon, <1>4, <2>1
  <2>4. h[m] \in Knowledge
    BY Zenon, <2>2, <2>3, OptionKeepsKnowledge
  <2>5. h[m].end = "hang" => \E i \in 1..N : HangsAt(options[i])
    <3>1. CASE h[n].end # "go"
      BY Zenon, <1>6, <2>3, <3>1
    <3>2. CASE h[n].end = "go"
      <4>1. h[m] = OptionRead(h[n], options[m])
        BY Zenon, <2>3, <3>2
      <4> QED BY Zenon, <2>1, <2>2, <3>2, <4>1, OptionHangs
    <3> QED BY Zenon, <3>1, <3>2
  <2> QED BY Zenon, <2>1, <2>4, <2>5
<1>7. \A n \in 0..N : n \in S
  <2> HIDE DEF S
  <2> QED BY Zenon, <1>3, <1>5, <1>6, InductTo
<1>8. N \in 0..N
  BY SMT, <1>3
<1> QED BY Zenon, <1>2, <1>3, <1>7, <1>8

-----------------------------------------------------------------------------
(* A whole message through the square *)

\* The square of the options o, where a character is in it, and its row and column.
Square(o) == WithKey(o.key, polybius_alphabet)
Field(o, c) == (CHOOSE i \in DOMAIN Square(o) : Square(o)[i] = c) - 1
RowOf(o, c) == Field(o, c) \div o.col
ColumnOf(o, c) == Field(o, c) % o.col

\* What the loop knows when validargs lets the program run.
Fitting(o) == o \in Knowledge /\ o.row * o.col >= 94

\* c has a field of the square, and stands in it.
Stands(o, c) ==
    /\ Field(o, c) \in 0..93 /\ Square(o)[Field(o, c) + 1] = c /\ Len(Square(o)) = 94
    /\ \E i \in DOMAIN Square(o) : Square(o)[i] = c

\* Every character a text may have does.
LEMMA FieldHolds ==
    ASSUME NEW o \in Knowledge, NEW c \in 33..126
    PROVE  Stands(o, c)
<1>1. KeyAccepted(o.key)
  BY Zenon DEF Knowledge
<1>2. IsRange(polybius_alphabet, 32, 94)
  BY AlphabetsAre
<1>3. Permutation(Square(o), polybius_alphabet)
  BY Zenon, <1>1, <1>2, KeyMakesPermutation DEF Square, KeyAccepted
<1>4. Len(polybius_alphabet) = 94 /\ Elements(polybius_alphabet) = (32 + 1)..(32 + 94)
  <2>1. PICK a : a = polybius_alphabet
    BY Zenon
  <2>2. PICK b, N : b = 32 /\ N = 94
    BY Zenon
  <2>3. IsRange(a, b, N)
    BY Zenon, <1>2, <2>1, <2>2
  <2>4. Len(a) = N
    BY ONLY SMT, <2>3, RangeIs
  <2>5. Elements(a) = (b + 1)..(b + N)
    BY ONLY SMT, <2>3, RangeIs
  <2> QED BY Zenon, <2>1, <2>2, <2>4, <2>5
<1>5. c \in Elements(polybius_alphabet)
  <2>1. c \in (32 + 1)..(32 + 94)
    BY SMT
  <2> QED BY Zenon, <1>4, <2>1
<1>6. Square(o) \in Seq(Nat) /\ Len(Square(o)) = 94 /\ c \in Elements(Square(o))
  BY Zenon, <1>3, <1>4, <1>5 DEF Permutation
<1>7. PICK p : p = CHOOSE i \in DOMAIN Square(o) : Square(o)[i] = c
  BY Zenon
<1>8. \E i \in DOMAIN Square(o) : Square(o)[i] = c
  <2>1. PICK s \in Seq(Nat) : s = Square(o)
    BY Zenon, <1>6
  <2>2. c \in Elements(s)
    BY Zenon, <1>6, <2>1
  <2>3. \E i \in DOMAIN s : s[i] = c
    BY Zenon, <2>2 DEF Elements
  <2> QED BY ONLY Zenon, <2>1, <2>3
<1>9. p \in DOMAIN Square(o) /\ Square(o)[p] = c /\ Field(o, c) = p - 1
  BY Zenon, <1>7, <1>8 DEF Field
<1>10. PICK s \in Seq(Nat) : s = Square(o)
  BY Zenon, <1>6
<1>11. p \in 1..94
  <2>1. Len(s) = 94 /\ p \in DOMAIN s
    BY Zenon, <1>6, <1>9, <1>10
  <2> QED BY ONLY SMT, <2>1
<1>12. p - 1 \in 0..93 /\ p - 1 + 1 = p
  BY ONLY SMT, <1>11
<1>13. PICK f : f = Field(o, c)
  BY Zenon
<1>14. f = p - 1
  BY Zenon, <1>9, <1>13
<1>15. f \in 0..93 /\ f + 1 = p
  BY ONLY SMT, <1>12, <1>14
<1> QED BY Zenon, <1>6, <1>8, <1>9, <1>13, <1>15 DEF Stands

\* Its address is read as its place, and has no white space.
LEMMA FieldReadsBack ==
    ASSUME NEW o, Fitting(o), NEW c \in 33..126
    PROVE  /\ o.col * Value(Digit(RowOf(o, c))) + Value(Digit(ColumnOf(o, c))) = Field(o, c)
           /\ ~White(Digit(RowOf(o, c))) /\ ~White(Digit(ColumnOf(o, c)))
           /\ Digit(RowOf(o, c)) \in 48..70 /\ Digit(ColumnOf(o, c)) \in 48..70
<1>1. o \in Knowledge /\ o \in Registers /\ o.row * o.col >= 94
  BY Zenon DEF Fitting, Knowledge
<1>2. o.row \in 9..15 /\ o.col \in 9..15
  BY SMT, <1>1 DEF Registers, Sides
<1>3. PICK f \in 0..93 : f = Field(o, c)
  BY Zenon, <1>1, FieldHolds DEF Stands
<1>4. PICK row \in 9..15 : row = o.row
  BY Zenon, <1>2
<1>5. PICK col \in 9..15 : col = o.col
  BY Zenon, <1>2
<1>6. PICK r : r = f \div col
  BY Zenon
<1>7. PICK k : k = f % col
  BY Zenon
<1>8. row * col >= 94
  BY Zenon, <1>1, <1>4, <1>5
<1>9. col * r + k = f /\ r \in 0..(row - 1) /\ k \in 0..(col - 1)
  BY Zenon, <1>6, <1>7, <1>8, PlaceSplits
<1>10. r \in 0..15 /\ k \in 0..15
  BY ONLY SMT, <1>9
<1>11. /\ Value(Digit(r)) = r /\ ~White(Digit(r)) /\ Digit(r) \in 48..70
       /\ Value(Digit(k)) = k /\ ~White(Digit(k)) /\ Digit(k) \in 48..70
  BY Zenon, <1>10, DigitsReadBack
<1>12. RowOf(o, c) = r /\ ColumnOf(o, c) = k
  BY Zenon, <1>3, <1>5, <1>6, <1>7 DEF RowOf, ColumnOf
<1> QED BY Zenon, <1>3, <1>5, <1>9, <1>11, <1>12

\* The places from from to to of cipher are what c is encrypted to.
Piece(o, cipher, from, to, c) ==
    IF White(c) THEN to = from + 1 /\ cipher[from + 1] = c
    ELSE /\ to = from + 2
         /\ cipher[from + 1] = Digit(RowOf(o, c)) /\ cipher[from + 2] = Digit(ColumnOf(o, c))

\* cipher is what the first n characters of t are encrypted to: those of the k-th follow
\* its first ends[k - 1] and end at ends[k].
Encoded(o, t, cipher, ends, n) ==
    /\ cipher \in Seq(Nat) /\ ends \in [0..n -> Nat]
    /\ ends[0] = 0 /\ ends[n] = Len(cipher)
    /\ \A k \in 1..n : ends[k] <= Len(cipher) /\ Piece(o, cipher, ends[k - 1], ends[k], t[k])

\* A piece stays one when the ciphertext grows behind it.
LEMMA PieceStays ==
    ASSUME NEW o, NEW cipher \in Seq(Nat), NEW more \in Seq(Nat), NEW c,
           NEW from \in Nat, NEW to \in Nat, to <= Len(cipher),
           Piece(o, cipher, from, to, c)
    PROVE  Piece(o, cipher \o more, from, to, c)
<1>1. PICK longer : longer = cipher \o more
  BY Zenon
<1>2. \A i \in 1..Len(cipher) : longer[i] = cipher[i]
  BY SMT, <1>1
<1>3. Len(cipher) \in Nat
  BY SMT
<1>4. CASE White(c)
  <2>1. from + 1 \in 1..Len(cipher)
    <3>1. to = from + 1
      BY Zenon, <1>4 DEF Piece
    <3> QED BY SMT, <1>3, <3>1
  <2> QED BY Zenon, <1>1, <1>2, <1>4, <2>1 DEF Piece
<1>5. CASE ~White(c)
  <2>1. from + 1 \in 1..Len(cipher) /\ from + 2 \in 1..Len(cipher)
    <3>1. to = from + 2
      BY Zenon, <1>5 DEF Piece
    <3> QED BY SMT, <1>3, <3>1
  <2> QED BY Zenon, <1>1, <1>2, <1>5, <2>1 DEF Piece
<1> QED BY Zenon, <1>4, <1>5

\* What is written for one more character.
PieceOf(o, c) == IF White(c) THEN <<c>> ELSE <<Digit(RowOf(o, c)), Digit(ColumnOf(o, c))>>

LEMMA PieceAdded ==
    ASSUME NEW o, NEW cipher \in Seq(Nat), NEW c, PieceOf(o, c) \in Seq(Nat)
    PROVE  LET longer == cipher \o PieceOf(o, c)
           IN  longer \in Seq(Nat) /\ Piece(o, longer, Len(cipher), Len(longer), c)
<1>1. PICK more \in Seq(Nat) : more = PieceOf(o, c)
  BY Zenon
<1>2. PICK longer : longer = cipher \o more
  BY Zenon
<1>0. Len(cipher) \in Nat /\ Len(more) \in Nat
  BY SMT
<1>3. PICK l : l = Len(cipher) /\ l \in Nat
  BY Zenon, <1>0
<1>4. PICK m : m = Len(more) /\ m \in Nat
  BY Zenon, <1>0
<1>5. longer \in Seq(Nat) /\ Len(longer) = l + m /\ \A i \in 1..m : longer[l + i] = more[i]
  BY SMT, <1>2, <1>3, <1>4
<1>6. CASE White(c)
  <2>1. more = <<c>>
    BY Zenon, <1>1, <1>6 DEF PieceOf
  <2>2. m = 1 /\ more[1] = c /\ 1 \in 1..m
    BY SMT, <1>4, <2>1
  <2> QED BY Zenon, <1>1, <1>2, <1>3, <1>5, <1>6, <2>2 DEF Piece
<1>7. CASE ~White(c)
  <2>1. more = <<Digit(RowOf(o, c)), Digit(ColumnOf(o, c))>>
    BY Zenon, <1>1, <1>7 DEF PieceOf
  <2>2. PICK d : d = Digit(RowOf(o, c))
    BY Zenon
  <2>3. PICK e : e = Digit(ColumnOf(o, c))
    BY Zenon
  <2>4. m = 2 /\ more[1] = d /\ more[2] = e /\ 1 \in 1..m /\ 2 \in 1..m
    BY SMT, <1>4, <2>1, <2>2, <2>3
  <2> QED BY Zenon, <1>1, <1>2, <1>3, <1>5, <1>7, <2>2, <2>3, <2>4 DEF Piece
<1> QED BY Zenon, <1>6, <1>7

\* encrypt goes on: one more character, one more piece.
LEMMA EncodedGrows ==
    ASSUME NEW o, NEW t, NEW cipher, NEW ends, NEW n \in Nat, Encoded(o, t, cipher, ends, n),
           PieceOf(o, t[n + 1]) \in Seq(Nat)
    PROVE  \E e : Encoded(o, t, cipher \o PieceOf(o, t[n + 1]), e, n + 1)
<1>1. PICK m : m = n + 1 /\ m \in Nat /\ m # n /\ m - 1 = n /\ m # 0
  BY SMT
<1>2. PICK c : c = t[m]
  BY Zenon
<1>3. PICK more \in Seq(Nat) : more = PieceOf(o, c)
  BY Zenon, <1>1, <1>2
<1>4. PICK longer : longer = cipher \o more
  BY Zenon
<1>5. /\ cipher \in Seq(Nat) /\ ends \in [0..n -> Nat] /\ ends[0] = 0 /\ ends[n] = Len(cipher)
      /\ \A k \in 1..n : ends[k] <= Len(cipher) /\ Piece(o, cipher, ends[k - 1], ends[k], t[k])
  BY Zenon DEF Encoded
<1>6. longer \in Seq(Nat) /\ Piece(o, longer, Len(cipher), Len(longer), c)
  BY Zenon, <1>3, <1>4, <1>5, PieceAdded
<1>7. Len(cipher) \in Nat /\ Len(longer) \in Nat /\ Len(cipher) <= Len(longer)
  BY SMT, <1>3, <1>4, <1>5
<1> DEFINE e == [k \in 0..m |-> IF k = m THEN Len(longer) ELSE ends[k]]
<1>8. /\ \A k \in 0..m : k = m \/ k \in 0..n
      /\ \A k \in 0..n : k \in 0..m /\ k # m
      /\ 0 \in 0..n /\ n \in 0..n /\ m \in 0..m
      /\ \A k \in 1..m : k = m \/ (k \in 1..n /\ k \in 0..n /\ k - 1 \in 0..n)
  BY SMT, <1>1
<1>9. e \in [0..m -> Nat] /\ e[m] = Len(longer) /\ \A k \in 0..n : e[k] = ends[k]
  BY Zenon, <1>5, <1>7, <1>8
<1> HIDE DEF e
<1>10. ASSUME NEW k \in 1..m
       PROVE  e[k] <= Len(longer) /\ Piece(o, longer, e[k - 1], e[k], t[k])
  <2>1. CASE k = m
    <3>1. e[k] = Len(longer) /\ e[k - 1] = Len(cipher)
      BY Zenon, <1>1, <1>5, <1>8, <1>9, <2>1
    <3>2. Len(longer) <= Len(longer)
      BY SMT, <1>7
    <3> QED BY Zenon, <1>2, <1>6, <2>1, <3>1, <3>2
  <2>2. CASE k # m
    <3>1. k \in 1..n /\ e[k] = ends[k] /\ e[k - 1] = ends[k - 1]
      BY Zenon, <1>8, <1>9, <2>2
    <3>2. ends[k] \in Nat /\ ends[k - 1] \in Nat
      BY Zenon, <1>5, <1>8, <2>2
    <3>3. ends[k] <= Len(cipher) /\ Piece(o, cipher, ends[k - 1], ends[k], t[k])
      BY Zenon, <1>5, <3>1
    <3>4. Piece(o, longer, ends[k - 1], ends[k], t[k])
      BY Zenon, <1>3, <1>4, <1>5, <3>2, <3>3, PieceStays
    <3>5. ends[k] <= Len(longer)
      BY SMT, <1>7, <3>2, <3>3
    <3> QED BY Zenon, <3>1, <3>4, <3>5
  <2> QED BY Zenon, <2>1, <2>2
<1>11. Encoded(o, t, longer, e, m)
  BY Zenon, <1>5, <1>6, <1>8, <1>9, <1>10 DEF Encoded
<1> QED BY Zenon, <1>1, <1>2, <1>3, <1>4, <1>11

\* decrypt has something to read only before the last piece, and then one that is whole.
LEMMA PieceFollows ==
    ASSUME NEW o, NEW t \in Seq(Nat), NEW cipher, NEW ends,
           Encoded(o, t, cipher, ends, Len(t)),
           NEW n \in 0..Len(t), ends[n] < Len(cipher)
    PROVE  /\ n + 1 \in 1..Len(t) /\ ends[n] \in Nat
           /\ ends[n + 1] \in Nat /\ ends[n + 1] <= Len(cipher)
           /\ Piece(o, cipher, ends[n], ends[n + 1], t[n + 1])
<1>1. /\ cipher \in Seq(Nat) /\ ends \in [0..Len(t) -> Nat] /\ ends[Len(t)] = Len(cipher)
      /\ \A k \in 1..Len(t) :
            ends[k] <= Len(cipher) /\ Piece(o, cipher, ends[k - 1], ends[k], t[k])
  BY Zenon DEF Encoded
<1>2. Len(t) \in Nat /\ Len(cipher) \in Nat
  BY SMT, <1>1
<1>3. n # Len(t)
  <2>1. ~(Len(cipher) < Len(cipher))
    BY SMT, <1>2
  <2> QED BY Zenon, <1>1, <2>1
<1>4. PICK m : m = n + 1 /\ m - 1 = n /\ m \in 1..Len(t) /\ m \in 0..Len(t)
  BY SMT, <1>2, <1>3
<1> QED BY Zenon, <1>1, <1>4

-----------------------------------------------------------------------------
(* The inductive invariant *)

Chosen == Options(command.options)

\* While a program runs, its table is its key's, and its mode what the options chose.
SquareSet ==
    /\ Fitting(Chosen) /\ way \in {"-e", "-d"}
    /\ mode.op = "-p" /\ mode.decrypt = (way = "-d") /\ mode.col = Chosen.col
    /\ table = Square(Chosen)
MorseSet == mode.op = "-f" /\ Permutation(table, fm_alphabet)

Machine ==
    /\ command \in Commands /\ text \in Texts
    /\ way = command.way \/ (command.way = "-e" /\ way = "-d")
    /\ phase = "running" => IF command.op = "-p" THEN SquareSet ELSE MorseSet
    /\ phase = "failed" => command.op # "-p"

\* What is written so far is what the characters read are encrypted to.
Encrypting ==
    /\ input = text /\ pos \in 0..Len(text)
    /\ \E ends : Encoded(Chosen, text, output, ends, pos)

\* n characters are decrypted, and perhaps the first half of the next one's address read.
HalfRead(ends, n) ==
    /\ n < Len(text) /\ ~White(text[n + 1])
    /\ pos = ends[n] + 1 /\ pending = Digit(RowOf(Chosen, text[n + 1]))
DecryptedTo(ends, n) ==
    /\ Encoded(Chosen, text, input, ends, Len(text))
    /\ n \in 0..Len(text) /\ output \in Seq(Nat) /\ Len(output) = n
    /\ \A i \in 1..n : output[i] = text[i]
    /\ (pending = -1 /\ pos = ends[n]) \/ HalfRead(ends, n)
Decrypting == \E ends, n : DecryptedTo(ends, n)

Message ==
    command.op = "-p" /\ command.way = "-e" =>
        /\ phase \notin {"failed", "undefined"}
        /\ way = "-e" => Encrypting /\ (phase = "done" => pos = Len(text))
        /\ way = "-d" => Decrypting /\ (phase = "done" => output = text)

SquareInv == Machine /\ Message

\* What may be on the command line and in a text.
LEMMA TextIs ==
    ASSUME Machine
    PROVE  /\ Chosen \in Knowledge
           /\ text \in Seq(Nat) /\ Len(text) \in Nat
           /\ \A i \in 1..Len(text) : text[i] \in Nat /\ (White(text[i]) \/ text[i] \in 33..126)
<1>1. command.options \in Seq(Option)
  BY Zenon, CommandsAssumption DEF Machine, Option
<1>2. Chosen \in Knowledge
  BY Zenon, <1>1, OptionsAreKnown DEF Chosen
<1>3. text \in Seq({TAB, NEWLINE, SPACE} \cup 33..126)
  BY Zenon, TextsAssumption DEF Machine
<1>4. PICK C : C = {TAB, NEWLINE, SPACE} \cup 33..126
  BY Zenon
<1>5. \A c \in C : c \in Nat /\ (White(c) \/ c \in 33..126)
  BY SMT, <1>4 DEF White, TAB, NEWLINE, SPACE
<1>6. text \in Seq(C)
  BY Zenon, <1>3, <1>4
<1>7. Len(text) \in Nat /\ \A i \in 1..Len(text) : text[i] \in C
  BY ONLY SMT, <1>6
<1>8. text \in Seq(Nat)
  BY ONLY SMT, <1>5, <1>6
<1> QED BY Zenon, <1>2, <1>5, <1>7, <1>8

LEMMA PieceIs ==
    ASSUME NEW o, Fitting(o), NEW c \in Nat, White(c) \/ c \in 33..126
    PROVE  PieceOf(o, c) \in Seq(Nat)
<1>1. CASE White(c)
  <2>1. <<c>> \in Seq(Nat)
    BY SMT
  <2> QED BY Zenon, <1>1, <2>1 DEF PieceOf
<1>2. CASE ~White(c)
  <2>1. c \in 33..126
    BY Zenon, <1>2
  <2>2. PICK d \in 48..70 : d = Digit(RowOf(o, c))
    BY Zenon, <2>1, FieldReadsBack
  <2>3. PICK e \in 48..70 : e = Digit(ColumnOf(o, c))
    BY Zenon, <2>1, FieldReadsBack
  <2>4. <<d, e>> \in Seq(Nat)
    BY SMT
  <2> QED BY Zenon, <1>2, <2>2, <2>3, <2>4 DEF PieceOf
<1> QED BY Zenon, <1>1, <1>2

-----------------------------------------------------------------------------
(* What the steps keep of it *)

\* A step that starts no run keeps the machine's part,
LEMMA MachineStays ==
    ASSUME Machine, UNCHANGED run,
           phase' = "running" => phase = "running" /\ UNCHANGED <<mode, table>>,
           phase' = "failed" => phase = "failed" \/ command.op # "-p"
    PROVE  Machine'
<1>1. command' = command /\ text' = text /\ way' = way
  BY Zenon DEF run
<1>2. Chosen' = Chosen
  BY Zenon, <1>1 DEF Chosen
<1>3. ASSUME phase' = "running" PROVE IF command.op = "-p" THEN SquareSet' ELSE MorseSet'
  <2>1. phase = "running" /\ mode' = mode /\ table' = table
    BY Zenon, <1>3
  <2>2. CASE command.op = "-p"
    <3>1. SquareSet
      BY Zenon, <2>1, <2>2 DEF Machine
    <3>2. SquareSet'
      BY Zenon, <1>1, <1>2, <2>1, <3>1 DEF SquareSet
    <3> QED BY Zenon, <2>2, <3>2
  <2>3. CASE command.op # "-p"
    <3>1. MorseSet
      BY Zenon, <2>1, <2>3 DEF Machine
    <3>2. MorseSet'
      BY Zenon, <2>1, <3>1 DEF MorseSet
    <3> QED BY Zenon, <2>3, <3>2
  <2> QED BY Zenon, <2>2, <2>3
<1> QED BY Zenon, <1>1, <1>3 DEF Machine

\* and one that reads and writes nothing and does not end the run the message's.
LEMMA MessageStays ==
    ASSUME Message, UNCHANGED <<run, input, pos, output, pending>>,
           phase' = phase \/ phase' \notin {"failed", "undefined", "done"}
    PROVE  Message'
<1>1. /\ command' = command /\ text' = text /\ way' = way
      /\ input' = input /\ pos' = pos /\ output' = output /\ pending' = pending
  BY Zenon DEF run
<1>2. Chosen' = Chosen
  BY Zenon, <1>1 DEF Chosen
<1>3. Encrypting => Encrypting'
  BY Zenon, <1>1, <1>2 DEF Encrypting
<1>4. Decrypting => Decrypting'
  BY Zenon, <1>1, <1>2 DEF Decrypting, DecryptedTo, HalfRead
<1> QED BY Zenon, <1>1, <1>3, <1>4 DEF Message

LEMMA LeaveKeeps ==
    ASSUME SquareInv, NEW how \in {"usage", "help", "crashed", "hangs"}, Leave(how)
    PROVE  SquareInv'
<1>1. phase' = how /\ UNCHANGED run /\ UNCHANGED <<run, input, pos, output, pending>>
  BY Zenon DEF Leave, io
<1>2. phase' \notin {"running", "failed", "undefined", "done"}
  BY SMT, <1>1
<1>3. Machine'
  BY Zenon, <1>1, <1>2, MachineStays DEF SquareInv
<1>4. Message'
  BY Zenon, <1>1, <1>2, MessageStays DEF SquareInv
<1> QED BY Zenon, <1>3, <1>4 DEF SquareInv

\* A run that starts.
LEMMA AcceptKeeps ==
    ASSUME SquareInv, NEW m, NEW k, NEW t, Accept(m, k, t),
           IF command.op = "-p" THEN SquareSet' ELSE MorseSet'
    PROVE  SquareInv'
<1>1. /\ phase' = "running" /\ UNCHANGED run
      /\ UNCHANGED <<run, input, pos, output, pending>>
  BY Zenon DEF Accept, io
<1>2. command' = command /\ text' = text /\ way' = way
  BY Zenon, <1>1 DEF run
<1>3. Machine'
  BY Zenon, <1>1, <1>2 DEF Machine, SquareInv
<1>4. Message'
  BY Zenon, <1>1, MessageStays DEF SquareInv
<1> QED BY Zenon, <1>3, <1>4 DEF SquareInv

LEMMA PolybiusKeeps ==
    ASSUME SquareInv, Polybius
    PROVE  SquareInv'
<1>1. CASE \E how \in {"usage", "help", "crashed", "hangs"} : Leave(how)
  BY Zenon, <1>1, LeaveKeeps
<1>2. CASE ~(\E how \in {"usage", "help", "crashed", "hangs"} : Leave(how))
  <2>1. /\ command.op = "-p" /\ way \in {"-e", "-d"} /\ Chosen.row * Chosen.col >= 94
        /\ Accept([op |-> "-p", decrypt |-> way = "-d", row |-> Chosen.row,
                    col |-> Chosen.col], Chosen.key, WithKey(Chosen.key, polybius_alphabet))
    BY Zenon, <1>2 DEF Polybius, Chosen
  <2>2. PICK m : m = [op |-> "-p", decrypt |-> way = "-d", row |-> Chosen.row,
                      col |-> Chosen.col]
    BY Zenon
  <2>3. m.op = "-p" /\ m.decrypt = (way = "-d") /\ m.col = Chosen.col
    BY ONLY Zenon, <2>2
  <2>4. Accept(m, Chosen.key, WithKey(Chosen.key, polybius_alphabet))
    BY ONLY Zenon, <2>1, <2>2
  <2>5. /\ mode' = m /\ table' = Square(Chosen) /\ way' = way /\ command' = command
    BY Zenon, <2>4 DEF Accept, run, Square
  <2>6. Chosen' = Chosen
    BY Zenon, <2>5 DEF Chosen
  <2>7. Fitting(Chosen)
    BY Zenon, <2>1, TextIs DEF Fitting, SquareInv
  <2>8. SquareSet'
    BY Zenon, <2>1, <2>3, <2>5, <2>6, <2>7 DEF SquareSet
  <2> QED BY Zenon, <2>1, <2>4, <2>8, AcceptKeeps
<1> QED BY Zenon, <1>1, <1>2

LEMMA FractionatedKeeps ==
    ASSUME SquareInv, Fractionated
    PROVE  SquareInv'
<1>1. CASE \E how \in {"usage", "help", "crashed", "hangs"} : Leave(how)
  BY Zenon, <1>1, LeaveKeeps
<1>2. CASE ~(\E how \in {"usage", "help", "crashed", "hangs"} : Leave(how))
  <2>1. PICK k : /\ command.op = "-f"
                 /\ k = NULL \/ (/\ k = command.options[1].arg /\ command.options # <<>>
                                 /\ valid_key(k, fm_alphabet) = "valid")
                 /\ Accept([op |-> "-f", decrypt |-> way = "-d", row |-> 0, col |-> 0],
                           k, WithKey(k, fm_alphabet))
    <3>1. CASE command.options = <<>>
      BY Zenon, <1>2, <3>1 DEF Fractionated
    <3>2. CASE command.options # <<>>
      <4>1. /\ command.op = "-f"
            /\ valid_key(command.options[1].arg, fm_alphabet) = "valid"
            /\ \E s \in Behind :
                   IF Elements(command.options[1].arg) \cap Elements(s) # {} THEN Leave("hangs")
                   ELSE Accept([op |-> "-f", decrypt |-> way = "-d", row |-> 0, col |-> 0],
                               command.options[1].arg, WithKey(command.options[1].arg, fm_alphabet))
        BY Zenon, <1>2, <3>2 DEF Fractionated
      <4> QED BY Zenon, <1>2, <3>2, <4>1
    <3> QED BY Zenon, <3>1, <3>2
  <2>2. k = NULL \/ (k \in Seq(Nat) /\ valid_key(k, fm_alphabet) = "valid")
    <3>1. command.options \in Seq(Option)
      BY Zenon, CommandsAssumption DEF SquareInv, Machine, Option
    <3>2. PICK options \in Seq(Option) : options = command.options
      BY Zenon, <3>1
    <3>3. options # <<>> => options[1] \in Option
      BY ONLY SMT, <3>2
    <3>4. command.options # <<>> => command.options[1].arg \in Seq(Nat)
      BY Zenon, <3>2, <3>3 DEF Option
    <3> QED BY Zenon, <2>1, <3>4
  <2>3. IsRange(fm_alphabet, 64, 26)
    BY AlphabetsAre
  <2>4. Permutation(WithKey(k, fm_alphabet), fm_alphabet)
    BY Zenon, <2>2, <2>3, KeyMakesPermutation
  <2>5. PICK m : m = [op |-> "-f", decrypt |-> way = "-d", row |-> 0, col |-> 0]
    BY Zenon
  <2>6. m.op = "-f" /\ Accept(m, k, WithKey(k, fm_alphabet))
    BY ONLY Zenon, <2>1, <2>5
  <2>7. MorseSet'
    BY Zenon, <2>4, <2>6 DEF MorseSet, Accept, Permutation, fm_alphabet
  <2>8. "-f" # "-p"
    BY SMT
  <2> QED BY Zenon, <2>1, <2>6, <2>7, <2>8, AcceptKeeps
<1> QED BY Zenon, <1>1, <1>2

LEMMA validargsKeeps ==
    ASSUME SquareInv, validargs
    PROVE  SquareInv'
<1>1. CASE Polybius
  BY Zenon, <1>1, PolybiusKeeps
<1>2. CASE Fractionated
  BY Zenon, <1>2, FractionatedKeeps
<1>3. CASE Leave("help") \/ Leave("usage")
  BY Zenon, <1>3, LeaveKeeps
<1> QED BY Zenon, <1>1, <1>2, <1>3 DEF validargs

\* One more character through the square: it has a field, so the run goes on.
LEMMA encryptKeeps ==
    ASSUME SquareInv, encrypt
    PROVE  SquareInv'
<1>1. /\ phase = "running" /\ mode.op = "-p" /\ mode.decrypt = FALSE
      /\ pos < Len(input) /\ pos' = pos + 1
      /\ UNCHANGED run /\ UNCHANGED <<mode, table>> /\ input' = input
  BY Zenon DEF encrypt, More, Running, args
<1>2. command.op = "-p" /\ SquareSet
  <2>1. "-f" # "-p"
    BY SMT
  <2> QED BY Zenon, <1>1, <2>1 DEF SquareInv, Machine, MorseSet
<1>3. /\ Fitting(Chosen) /\ Chosen \in Knowledge /\ way = "-e" /\ mode.col = Chosen.col
      /\ table = Square(Chosen) /\ command.way = "-e"
  <2>1. "-d" # "-e"
    BY SMT
  <2> QED BY Zenon, <1>1, <1>2, <2>1 DEF SquareSet, Fitting, SquareInv, Machine
<1>4. Encrypting
  BY Zenon, <1>2, <1>3 DEF SquareInv, Message
<1>5. PICK n : n = pos /\ n \in 0..Len(text) /\ n < Len(text)
  BY Zenon, <1>1, <1>4 DEF Encrypting
<1>6. PICK m : m = n + 1 /\ m \in 1..Len(text) /\ m \in 0..Len(text) /\ n \in Nat
  BY SMT, <1>5, TextIs DEF SquareInv
<1>7. PICK c : c = text[m]
  BY Zenon
<1>8. c \in Nat /\ (White(c) \/ c \in 33..126)
  BY Zenon, <1>6, <1>7, TextIs DEF SquareInv
<1>9. input[pos + 1] = c
  BY Zenon, <1>4, <1>5, <1>6, <1>7 DEF Encrypting
<1>10. ASSUME ~White(c)
       PROVE  /\ \E i \in DOMAIN table : table[i] = c
              /\ writeAddress(c) = PieceOf(Chosen, c)
  <2>1. \E i \in DOMAIN table : table[i] = c
    BY Zenon, <1>3, <1>8, <1>10, FieldHolds DEF Stands
  <2>2. Place(c) - 1 = Field(Chosen, c)
    BY Zenon, <1>3 DEF Place, Field
  <2>3. writeAddress(c) = <<Digit(RowOf(Chosen, c)), Digit(ColumnOf(Chosen, c))>>
    BY Zenon, <1>3, <2>2 DEF writeAddress, RowOf, ColumnOf
  <2> QED BY Zenon, <1>10, <2>1, <2>3 DEF PieceOf
<1>11. PICK ends : Encoded(Chosen, text, output, ends, n)
  BY Zenon, <1>4, <1>5 DEF Encrypting
<1>12. output \in Seq(Nat)
  BY Zenon, <1>11 DEF Encoded
<1>13. phase' = "running" /\ output' = output \o PieceOf(Chosen, c)
  <2>1. CASE White(c)
    <3>1. phase' = phase /\ output' = Append(output, c)
      BY Zenon, <1>9, <2>1 DEF encrypt
    <3>2. Append(output, c) = output \o <<c>>
      BY SMT, <1>8, <1>12
    <3> QED BY Zenon, <1>1, <2>1, <3>1, <3>2 DEF PieceOf
  <2>2. CASE ~White(c)
    <3>1. phase' = phase /\ output' = output \o writeAddress(c)
      BY Zenon, <1>9, <1>10, <2>2 DEF encrypt
    <3> QED BY Zenon, <1>1, <1>10, <2>2, <3>1
  <2> QED BY Zenon, <2>1, <2>2
<1>14. /\ command' = command /\ text' = text /\ way' = way
       /\ Chosen' = Chosen
  BY Zenon, <1>1 DEF run, Chosen
<1>15. Encrypting'
  <2>1. PieceOf(Chosen, c) \in Seq(Nat)
    BY Zenon, <1>3, <1>8, PieceIs
  <2>2. PieceOf(Chosen, text[n + 1]) \in Seq(Nat)
    BY Zenon, <1>6, <1>7, <2>1
  <2>3. \E e : Encoded(Chosen, text, output \o PieceOf(Chosen, text[n + 1]), e, n + 1)
    BY Zenon, <1>6, <1>11, <2>2, EncodedGrows
  <2>4. \E e : Encoded(Chosen, text, output', e, pos')
    BY Zenon, <1>1, <1>5, <1>6, <1>7, <1>13, <2>3
  <2>5. pos' \in 0..Len(text)
    BY Zenon, <1>1, <1>5, <1>6
  <2> QED BY Zenon, <1>1, <1>4, <1>14, <2>4, <2>5 DEF Encrypting
<1>16. Machine'
  <2>1. "running" # "failed"
    BY SMT
  <2> QED BY Zenon, <1>1, <1>13, <2>1, MachineStays DEF SquareInv
<1>17. Message'
  <2>1. "running" \notin {"failed", "undefined", "done"} /\ "-e" # "-d"
    BY SMT
  <2> QED BY Zenon, <1>3, <1>13, <1>14, <1>15, <2>1 DEF Message
<1> QED BY Zenon, <1>16, <1>17 DEF SquareInv

\* Of its own ciphertext decrypt reads white space, or the half of an address, or what
\* gives back the character; the place is in the table.
LEMMA PieceIsRead ==
    ASSUME Machine, SquareSet, NEW ends, NEW n, DecryptedTo(ends, n),
           pos < Len(input), pos' = pos + 1, input' = input,
           UNCHANGED run,
           LET c == input[pos + 1]
               place == mode.col * Value(pending) + Value(c)
           IN /\ pending' = IF White(c) THEN pending ELSE IF pending = -1 THEN c ELSE -1
              /\ output' = CASE White(c) -> Append(output, c)
                      [] ~White(c) /\ pending # -1 /\ place \in 0..256 ->
                             Append(output, IF place < Len(table) THEN table[place + 1] ELSE 0)
                      [] OTHER -> output
    PROVE  /\ Decrypting'
           /\ ~(~White(input[pos + 1]) /\ pending # -1
                 /\ mode.col * Value(pending) + Value(input[pos + 1]) >= 257)
<1> PICK c : c = input[pos + 1]
  BY Zenon
<1>1. /\ command' = command /\ text' = text /\ way' = way
      /\ Chosen' = Chosen
  BY Zenon DEF run, Chosen
<1>2. /\ Encoded(Chosen, text, input, ends, Len(text)) /\ n \in 0..Len(text)
      /\ output \in Seq(Nat) /\ Len(output) = n /\ \A i \in 1..n : output[i] = text[i]
  BY Zenon DEF DecryptedTo
<1>3. text \in Seq(Nat) /\ Len(text) \in Nat /\ Fitting(Chosen) /\ Chosen \in Knowledge
  BY Zenon, TextIs DEF SquareSet
<1>4. input \in Seq(Nat) /\ ends \in [0..Len(text) -> Nat]
  BY Zenon, <1>2 DEF Encoded
<1>5. ends[n] \in Nat /\ ends[n] <= pos /\ Len(input) \in Nat
  <2>1. ends[n] \in Nat
    BY Zenon, <1>2, <1>4
  <2>2. PICK e : e = ends[n] /\ e \in Nat
    BY Zenon, <2>1
  <2>3. pos = e \/ pos = e + 1
    BY Zenon, <2>2 DEF DecryptedTo, HalfRead
  <2>4. e <= pos /\ Len(input) \in Nat
    BY SMT, <1>4, <2>2, <2>3
  <2> QED BY Zenon, <2>2, <2>4
<1>6. ends[n] < Len(input)
  <2>1. pos \in Int
    BY SMT, <1>2, <1>5 DEF DecryptedTo, HalfRead
  <2> QED BY SMT, <1>5, <2>1
<1>7. PICK m : m = n + 1 /\ n \in Nat
  BY SMT, <1>2
<1>8. PICK d : d = text[m]
  BY Zenon
<1>9. PICK from \in Nat : from = ends[n]
  BY Zenon, <1>5
<1>10. PICK to : to = ends[m]
  BY Zenon
<1>11. m \in 1..Len(text) /\ Piece(Chosen, input, from, to, d)
  BY Zenon, <1>2, <1>3, <1>6, <1>7, <1>8, <1>9, <1>10, PieceFollows
<1>12. d \in Nat /\ (White(d) \/ d \in 33..126) /\ m \in 0..Len(text)
  <2>1. m \in 0..Len(text)
    BY SMT, <1>11
  <2> QED BY Zenon, <1>8, <1>11, <2>1, TextIs
<1>13. ASSUME pos' = to, pending' = -1, output' = Append(output, d)
       PROVE  Decrypting'
  <2>1. PICK longer : longer = Append(output, d)
    BY Zenon
  <2>2. /\ longer \in Seq(Nat) /\ Len(longer) = n + 1 /\ longer[n + 1] = d
        /\ \A i \in 1..n : longer[i] = output[i]
    BY SMT, <1>2, <1>7, <1>12, <2>1
  <2>3. \A i \in 1..m : i \in 1..n \/ i = m
    BY SMT, <1>7
  <2>4. \A i \in 1..m : longer[i] = text[i]
    BY Zenon, <1>2, <1>7, <1>8, <2>2, <2>3
  <2>5. DecryptedTo(ends, m)'
    <3>1. /\ output' = longer /\ Len(longer) = m /\ pending' = -1 /\ pos' = ends[m]
          /\ input' = input
      BY Zenon, <1>7, <1>10, <1>13, <2>1, <2>2
    <3>2. output' \in Seq(Nat) /\ Len(output') = m /\ \A i \in 1..m : output'[i] = text[i]
      BY Zenon, <2>2, <2>4, <3>1
    <3>3. Encoded(Chosen', text', input', ends, Len(text'))
      BY ONLY Zenon, <1>1, <1>2, <3>1
    <3> QED BY ONLY Zenon, <1>1, <1>12, <3>1, <3>2, <3>3 DEF DecryptedTo
  <2> QED BY Zenon, <2>5 DEF Decrypting
<1>14. PICK r : r = Digit(RowOf(Chosen, d))
  BY Zenon
<1>15. PICK k : k = Digit(ColumnOf(Chosen, d))
  BY Zenon
<1>16. PICK f : f = Field(Chosen, d)
  BY Zenon
<1>17. ASSUME ~White(d)
       PROVE  /\ Chosen.col * Value(r) + Value(k) = f /\ f \in 0..93
              /\ ~White(r) /\ ~White(k) /\ r \in 48..70
              /\ Square(Chosen)[f + 1] = d /\ Len(Square(Chosen)) = 94
              /\ to = from + 2 /\ input[from + 1] = r /\ input[from + 2] = k
  <2>1. d \in 33..126
    BY Zenon, <1>12, <1>17
  <2>2. /\ Chosen.col * Value(r) + Value(k) = f
        /\ ~White(r) /\ ~White(k) /\ r \in 48..70
    BY Zenon, <1>3, <1>14, <1>15, <1>16, <2>1, FieldReadsBack
  <2>3. f \in 0..93 /\ Square(Chosen)[f + 1] = d /\ Len(Square(Chosen)) = 94
    <3>1. Stands(Chosen, d)
      BY Zenon, <1>3, <2>1, FieldHolds
    <3> QED BY ONLY Zenon, <1>16, <3>1 DEF Stands
  <2>4. to = from + 2 /\ input[from + 1] = r /\ input[from + 2] = k
    BY Zenon, <1>11, <1>14, <1>15, <1>17 DEF Piece
  <2> QED BY Zenon, <2>2, <2>3, <2>4
<1>18. CASE pending = -1 /\ pos = from
  <2>1. CASE White(d)
    <3>1. to = from + 1 /\ input[from + 1] = d
      BY Zenon, <1>11, <2>1 DEF Piece
    <3>2. c = d /\ pos' = to
      BY Zenon, <1>18, <3>1
    <3>3. pending' = -1 /\ output' = Append(output, d)
      BY Zenon, <1>18, <2>1, <3>2
    <3> QED BY Zenon, <1>13, <2>1, <3>2, <3>3
  <2>2. CASE ~White(d)
    <3>1. c = r /\ ~White(r)
      BY Zenon, <1>17, <1>18, <2>2
    <3>2. pending' = r /\ output' = output
      BY Zenon, <1>18, <3>1
    <3>3. n < Len(text)
      BY SMT, <1>3, <1>7, <1>11
    <3>4. HalfRead(ends, n)'
      BY Zenon, <1>1, <1>7, <1>8, <1>9, <1>14, <1>18, <2>2, <3>2, <3>3 DEF HalfRead
    <3>5. DecryptedTo(ends, n)'
      BY Zenon, <1>1, <1>2, <3>2, <3>4 DEF DecryptedTo
    <3> QED BY Zenon, <1>18, <3>5 DEF Decrypting
  <2> QED BY Zenon, <2>1, <2>2
<1>19. CASE HalfRead(ends, n)
  <2>1. ~White(d) /\ pos = from + 1 /\ pending = r
    BY Zenon, <1>7, <1>8, <1>9, <1>14, <1>19 DEF HalfRead
  <2>2. pos + 1 = from + 2
    BY SMT, <2>1
  <2>3. c = k /\ ~White(c) /\ pos' = to
    BY Zenon, <1>17, <2>1, <2>2
  <2>4. r # -1
    <3>1. r \in 48..70
      BY Zenon, <1>17, <2>1
    <3> QED BY ONLY SMT, <3>1
  <2>5. mode.col * Value(pending) + Value(c) = f /\ f \in 0..93 /\ table[f + 1] = d
        /\ Len(table) = 94
    BY Zenon, <1>17, <2>1, <2>3 DEF SquareSet
  <2>6. f \in 0..256 /\ f < 94 /\ ~(f >= 257)
    BY ONLY SMT, <2>5
  <2>7. pending' = -1
    BY Zenon, <2>1, <2>3, <2>4
  <2>8. output' = Append(output, IF f < Len(table) THEN table[f + 1] ELSE 0)
    BY Zenon, <2>1, <2>3, <2>4, <2>5, <2>6
  <2>9. output' = Append(output, d)
    BY Zenon, <2>5, <2>6, <2>8
  <2> QED BY Zenon, <1>13, <2>3, <2>5, <2>6, <2>7, <2>9
<1> QED BY Zenon, <1>9, <1>18, <1>19 DEF DecryptedTo

LEMMA decryptKeeps ==
    ASSUME SquareInv, decrypt
    PROVE  SquareInv'
<1>1. /\ phase = "running" /\ mode.op = "-p" /\ mode.decrypt = TRUE
      /\ pos < Len(input) /\ pos' = pos + 1
      /\ UNCHANGED run /\ UNCHANGED <<mode, table>> /\ input' = input
  BY Zenon DEF decrypt, More, Running, args
<1>2. command.op = "-p" /\ SquareSet
  <2>1. "-f" # "-p"
    BY SMT
  <2> QED BY Zenon, <1>1, <2>1 DEF SquareInv, Machine, MorseSet
<1>3. way = "-d" /\ way # "-e"
  <2>1. "-d" # "-e"
    BY SMT
  <2> QED BY Zenon, <1>1, <1>2, <2>1 DEF SquareSet
<1>4. phase' \in {"running", "undefined"}
  BY Zenon, <1>1 DEF decrypt
<1>5. Machine'
  <2>1. phase' # "failed"
    BY SMT, <1>4
  <2> QED BY Zenon, <1>1, <2>1, MachineStays DEF SquareInv
<1>6. ASSUME command.way = "-e" PROVE Decrypting' /\ phase' = "running"
  <2>1. PICK ends, n : DecryptedTo(ends, n)
    BY Zenon, <1>2, <1>3, <1>6 DEF SquareInv, Message, Decrypting
  <2>2. LET c == input[pos + 1]
            place == mode.col * Value(pending) + Value(c)
        IN /\ pending' = IF White(c) THEN pending ELSE IF pending = -1 THEN c ELSE -1
           /\ output' = CASE White(c) -> Append(output, c)
                   [] ~White(c) /\ pending # -1 /\ place \in 0..256 ->
                          Append(output, IF place < Len(table) THEN table[place + 1] ELSE 0)
                   [] OTHER -> output
           /\ phase' = IF ~White(c) /\ pending # -1 /\ place >= 257 THEN "undefined" ELSE phase
    BY Zenon DEF decrypt
  <2>3. /\ Decrypting'
        /\ ~(~White(input[pos + 1]) /\ pending # -1
              /\ mode.col * Value(pending) + Value(input[pos + 1]) >= 257)
    BY Zenon, <1>1, <1>2, <2>1, <2>2, PieceIsRead DEF SquareInv
  <2>4. phase' = phase
    BY Zenon, <2>2, <2>3
  <2> QED BY Zenon, <1>1, <2>3, <2>4
<1>7. Message'
  <2>1. command' = command /\ way' = way
    BY Zenon, <1>1 DEF run
  <2>2. "running" \notin {"failed", "undefined", "done"}
    BY SMT
  <2> QED BY Zenon, <1>3, <1>6, <2>1, <2>2 DEF Message
<1> QED BY Zenon, <1>5, <1>7 DEF SquareInv

\* Where the ciphertext ends, the message is whole.
LEMMA DecryptedAll ==
    ASSUME Machine, Decrypting, pos = Len(input)
    PROVE  output = text
<1>1. PICK ends, n : DecryptedTo(ends, n)
  BY Zenon DEF Decrypting
<1>2. text \in Seq(Nat) /\ Len(text) \in Nat
  BY Zenon, TextIs
<1>3. /\ Encoded(Chosen, text, input, ends, Len(text)) /\ n \in 0..Len(text)
      /\ output \in Seq(Nat) /\ Len(output) = n /\ \A i \in 1..n : output[i] = text[i]
  BY Zenon, <1>1 DEF DecryptedTo
<1>4. input \in Seq(Nat) /\ ends \in [0..Len(text) -> Nat]
  BY Zenon, <1>3 DEF Encoded
<1>5. n = Len(text)
  <2>1. SUFFICES ASSUME n # Len(text) PROVE FALSE
    OBVIOUS
  <2>2. PICK m : m = n + 1 /\ m - 1 = n /\ m \in 1..Len(text) /\ m \in 0..Len(text)
    BY SMT, <1>2, <1>3, <2>1
  <2>3. ends[m] <= Len(input) /\ Piece(Chosen, input, ends[n], ends[m], text[m])
    BY Zenon, <1>3, <2>2 DEF Encoded
  <2>4. PICK from \in Nat : from = ends[n]
    BY Zenon, <1>3, <1>4
  <2>5. PICK to \in Nat : to = ends[m]
    BY Zenon, <1>4, <2>2
  <2>6. CASE White(text[m])
    <3>1. to = from + 1 /\ pos = from
      BY Zenon, <1>1, <2>2, <2>3, <2>4, <2>5, <2>6 DEF Piece, DecryptedTo, HalfRead
    <3> QED BY SMT, <2>3, <2>5, <3>1
  <2>7. CASE ~White(text[m])
    <3>1. to = from + 2 /\ (pos = from \/ pos = from + 1)
      BY Zenon, <1>1, <2>3, <2>4, <2>5, <2>7 DEF Piece, DecryptedTo, HalfRead
    <3> QED BY SMT, <2>3, <2>5, <3>1
  <2> QED BY Zenon, <2>6, <2>7
<1> QED BY SMT, <1>2, <1>3, <1>5

LEMMA PolybiusEndsKeeps ==
    ASSUME SquareInv, PolybiusEnds
    PROVE  SquareInv'
<1>1. PICK d \in BOOLEAN : EndOfText("-p", d, "done")
  BY Zenon DEF PolybiusEnds
<1>2. /\ phase = "running" /\ mode.op = "-p" /\ mode.decrypt = d /\ pos = Len(input)
      /\ phase' = "done" /\ UNCHANGED run /\ output' = output
      /\ input' = input /\ pos' = pos /\ pending' = pending
  BY Zenon, <1>1 DEF EndOfText, Running, PolybiusEnds
<1>3. "done" \notin {"failed", "undefined", "running"}
  BY SMT
<1>4. Machine'
  BY Zenon, <1>2, <1>3, MachineStays DEF SquareInv
<1>5. command' = command /\ text' = text /\ way' = way
  BY Zenon, <1>2 DEF run
<1>6. Chosen' = Chosen
  BY Zenon, <1>5 DEF Chosen
<1>7. Encrypting => Encrypting' /\ pos' = Len(text')
  BY Zenon, <1>2, <1>5, <1>6 DEF Encrypting
<1>8. Decrypting => Decrypting' /\ output' = text'
  <2>1. Decrypting => Decrypting'
    BY Zenon, <1>2, <1>5, <1>6 DEF Decrypting, DecryptedTo, HalfRead
  <2>2. Decrypting => output' = text'
    BY Zenon, <1>2, <1>5, DecryptedAll DEF SquareInv
  <2> QED BY Zenon, <2>1, <2>2
<1>9. Message'
  BY Zenon, <1>2, <1>3, <1>5, <1>7, <1>8 DEF Message, SquareInv
<1> QED BY Zenon, <1>4, <1>9 DEF SquareInv

\* What fractionated Morse does is not the square's.
MorseStep == encrypt2 \/ encrypt2Ends \/ decrypt2 \/ decrypt2Ends

LEMMA MorseKeeps ==
    ASSUME SquareInv, MorseStep
    PROVE  SquareInv'
<1>1. phase = "running" /\ mode.op = "-f" /\ UNCHANGED run /\ UNCHANGED <<mode, table>>
  BY Zenon DEF MorseStep, encrypt2, encrypt2Ends, decrypt2, decrypt2Ends, More, EndOfText,
               Running, args
<1>2. command.op # "-p"
  <2>1. "-f" # "-p"
    BY SMT
  <2> QED BY Zenon, <1>1, <2>1 DEF SquareInv, Machine, SquareSet
<1>3. command' = command
  BY Zenon, <1>1 DEF run
<1>4. Machine'
  BY Zenon, <1>1, <1>2, MachineStays DEF SquareInv
<1>5. Message'
  BY Zenon, <1>2, <1>3 DEF Message
<1> QED BY Zenon, <1>4, <1>5 DEF SquareInv

\* The user decrypts what was written: it is the whole message's.
LEMMA AgainKeeps ==
    ASSUME SquareInv, Again
    PROVE  SquareInv'
<1>1. /\ phase = "done" /\ way = "-e" /\ way' = "-d" /\ phase' = "args" /\ input' = output
      /\ pos' = 0 /\ output' = <<>> /\ pending' = -1
      /\ command' = command /\ text' = text
  BY Zenon DEF Again
<1>2. "-d" # "-e" /\ "args" \notin {"running", "failed", "undefined", "done"}
  BY SMT
<1>3. Chosen' = Chosen
  BY Zenon, <1>1 DEF Chosen
<1>4. Machine'
  <2>1. command.way = "-e"
    BY Zenon, <1>1, <1>2 DEF SquareInv, Machine
  <2> QED BY Zenon, <1>1, <1>2, <2>1 DEF SquareInv, Machine
<1>5. ASSUME command.op = "-p", command.way = "-e" PROVE Decrypting'
  <2>1. Encrypting /\ pos = Len(text)
    BY Zenon, <1>1, <1>5 DEF SquareInv, Message
  <2>2. PICK ends : Encoded(Chosen, text, output, ends, Len(text))
    BY Zenon, <2>1 DEF Encrypting
  <2>3. Len(text) \in Nat
    BY Zenon, TextIs DEF SquareInv
  <2>4. 0 \in 0..Len(text) /\ (\A i \in 1..0 : FALSE) /\ <<>> \in Seq(Nat) /\ Len(<<>>) = 0
    BY SMT, <2>3
  <2>5. ends[0] = 0
    BY Zenon, <2>2 DEF Encoded
  <2>6. output' \in Seq(Nat) /\ Len(output') = 0
    BY Zenon, <1>1, <2>4
  <2>7. Encoded(Chosen', text', input', ends, Len(text'))
    BY Zenon, <1>1, <1>3, <2>2
  <2>8. DecryptedTo(ends, 0)'
    BY Zenon, <1>1, <2>4, <2>5, <2>6, <2>7 DEF DecryptedTo
  <2> QED BY Zenon, <2>8 DEF Decrypting
<1>6. Message'
  BY Zenon, <1>1, <1>2, <1>5 DEF Message
<1> QED BY Zenon, <1>4, <1>6 DEF SquareInv

LEMMA InitKeeps == Init => SquareInv
<1> SUFFICES ASSUME Init PROVE SquareInv
  OBVIOUS
<1>1. /\ command \in Commands /\ text \in Texts /\ way = command.way /\ phase = "args"
      /\ input = text /\ pos = 0 /\ output = <<>> /\ pending = -1
  BY Zenon DEF Init, Fresh
<1>2. "-d" # "-e" /\ "args" \notin {"running", "failed", "undefined", "done"}
  BY SMT
<1>3. Machine
  BY Zenon, <1>1, <1>2 DEF Machine
<1>4. Len(text) \in Nat
  BY Zenon, <1>3, TextIs
<1>5. Encoded(Chosen, text, output, [i \in 0..0 |-> 0], 0)
  <2>1. PICK e : e = [i \in 0..0 |-> 0]
    BY Zenon
  <2>2. e \in [0..0 -> Nat] /\ e[0] = 0
    BY SMT, <2>1
  <2>3. <<>> \in Seq(Nat) /\ Len(<<>>) = 0 /\ \A k \in 1..0 : FALSE
    BY SMT
  <2>4. Encoded(Chosen, text, <<>>, e, 0)
    BY Zenon, <2>2, <2>3 DEF Encoded
  <2> QED BY Zenon, <1>1, <2>1, <2>4
<1>6. Encrypting
  <2>1. 0 \in 0..Len(text)
    BY SMT, <1>4
  <2> QED BY Zenon, <1>1, <1>5, <2>1 DEF Encrypting
<1>7. Message
  BY Zenon, <1>1, <1>2, <1>6 DEF Message
<1> QED BY Zenon, <1>3, <1>7 DEF SquareInv

LEMMA NextKeepsSquare ==
    ASSUME SquareInv, [Next]_vars
    PROVE  SquareInv'
<1>1. CASE validargs
  BY Zenon, <1>1, validargsKeeps
<1>2. CASE encrypt
  BY Zenon, <1>2, encryptKeeps
<1>3. CASE decrypt
  BY Zenon, <1>3, decryptKeeps
<1>4. CASE PolybiusEnds
  BY Zenon, <1>4, PolybiusEndsKeeps
<1>5. CASE MorseStep
  BY Zenon, <1>5, MorseKeeps
<1>6. CASE Again
  BY Zenon, <1>6, AgainKeeps
<1>7. CASE UNCHANGED vars
  <2>1. /\ UNCHANGED run /\ phase' = phase /\ UNCHANGED <<mode, table>>
        /\ UNCHANGED <<run, input, pos, output, pending>>
    BY Zenon, <1>7 DEF vars, args, io
  <2>2. Machine'
    BY Zenon, <2>1, MachineStays DEF SquareInv
  <2>3. Message'
    BY Zenon, <2>1, MessageStays DEF SquareInv
  <2> QED BY Zenon, <2>2, <2>3 DEF SquareInv
<1> QED BY Zenon, <1>1, <1>2, <1>3, <1>4, <1>5, <1>6, <1>7 DEF Next, Program, MorseStep

-----------------------------------------------------------------------------
(* The codes of fractionated Morse *)

Marks == {".", "-"}
Symbols == {".", "-", "x"}
IsCode(t) == t \in Seq(Marks) /\ Len(t) \in 0..6

\* A number for each code: its length, and where its dashes are.
Bit(t, i) == IF i <= Len(t) /\ t[i] = "-" THEN 1 ELSE 0
Weight(t) ==
    64 * Len(t) + Bit(t, 1) + 2 * Bit(t, 2) + 4 * Bit(t, 3) + 8 * Bit(t, 4) + 16 * Bit(t, 5)
                + 32 * Bit(t, 6)
\* The numbers of morse_table.
Numbered(V) ==
    /\ V[1] = 437 /\ V[2] = 402 /\ V[3] = 0 /\ V[4] = 0 /\ V[5] = 0 /\ V[6] = 0 /\ V[7] = 414
    /\ V[8] = 333 /\ V[9] = 429 /\ V[10] = 0 /\ V[11] = 0 /\ V[12] = 435 /\ V[13] = 417
    /\ V[14] = 426 /\ V[15] = 0 /\ V[16] = 351 /\ V[17] = 350 /\ V[18] = 348 /\ V[19] = 344
    /\ V[20] = 336 /\ V[21] = 320 /\ V[22] = 321 /\ V[23] = 323 /\ V[24] = 327 /\ V[25] = 335
    /\ V[26] = 391 /\ V[27] = 405 /\ V[28] = 0 /\ V[29] = 337 /\ V[30] = 0 /\ V[31] = 396
    /\ V[32] = 406 /\ V[33] = 130 /\ V[34] = 257 /\ V[35] = 261 /\ V[36] = 193 /\ V[37] = 64
    /\ V[38] = 260 /\ V[39] = 195 /\ V[40] = 256 /\ V[41] = 128 /\ V[42] = 270 /\ V[43] = 197
    /\ V[44] = 258 /\ V[45] = 131 /\ V[46] = 129 /\ V[47] = 199 /\ V[48] = 262 /\ V[49] = 267
    /\ V[50] = 194 /\ V[51] = 192 /\ V[52] = 65 /\ V[53] = 196 /\ V[54] = 264 /\ V[55] = 198
    /\ V[56] = 265 /\ V[57] = 269 /\ V[58] = 259

\* morse_table, entry by entry.
LEMMA MorseWeights ==
    ASSUME NEW V, \A k \in 1..58 : V[k] = Weight(morse_table[k])
    PROVE  Numbered(V) /\ \A k \in 1..58 : IsCode(morse_table[k])
<1>1. IsCode(morse_table[1]) /\ V[1] = 437
  <2>1. morse_table[1] = <<"-", ".", "-", ".", "-", "-">>  BY SMT DEF morse_table
  <2>2. V[1] = Weight(morse_table[1])  BY SMT
  <2> QED BY ONLY SMT, <2>1, <2>2 DEF Weight, Bit, IsCode, Marks
<1>2. IsCode(morse_table[2]) /\ V[2] = 402
  <2>1. morse_table[2] = <<".", "-", ".", ".", "-", ".">>  BY SMT DEF morse_table
  <2>2. V[2] = Weight(morse_table[2])  BY SMT
  <2> QED BY ONLY SMT, <2>1, <2>2 DEF Weight, Bit, IsCode, Marks
<1>3. IsCode(morse_table[3]) /\ V[3] = 0
  <2>1. morse_table[3] = <<>>  BY SMT DEF morse_table
  <2>2. V[3] = Weight(morse_table[3])  BY SMT
  <2> QED BY ONLY SMT, <2>1, <2>2 DEF Weight, Bit, IsCode, Marks
<1>4. IsCode(morse_table[4]) /\ V[4] = 0
  <2>1. morse_table[4] = <<>>  BY SMT DEF morse_table
  <2>2. V[4] = Weight(morse_table[4])  BY SMT
  <2> QED BY ONLY SMT, <2>1, <2>2 DEF Weight, Bit, IsCode, Marks
<1>5. IsCode(morse_table[5]) /\ V[5] = 0
  <2>1. morse_table[5] = <<>>  BY SMT DEF morse_table
  <2>2. V[5] = Weight(morse_table[5])  BY SMT
  <2> QED BY ONLY SMT, <2>1, <2>2 DEF Weight, Bit, IsCode, Marks
<1>6. IsCode(morse_table[6]) /\ V[6] = 0
  <2>1. morse_table[6] = <<>>  BY SMT DEF morse_table
  <2>2. V[6] = Weight(morse_table[6])  BY SMT
  <2> QED BY ONLY SMT, <2>1, <2>2 DEF Weight, Bit, IsCode, Marks
<1>7. IsCode(morse_table[7]) /\ V[7] = 414
  <2>1. morse_table[7] = <<".", "-", "-", "-", "-", ".">>  BY SMT DEF morse_table
  <2>2. V[7] = Weight(morse_table[7])  BY SMT
  <2> QED BY ONLY SMT, <2>1, <2>2 DEF Weight, Bit, IsCode, Marks
<1>8. IsCode(morse_table[8]) /\ V[8] = 333
  <2>1. morse_table[8] = <<"-", ".", "-", "-", ".">>  BY SMT DEF morse_table
  <2>2. V[8] = Weight(morse_table[8])  BY SMT
  <2> QED BY ONLY SMT, <2>1, <2>2 DEF Weight, Bit, IsCode, Marks
<1>9. IsCode(morse_table[9]) /\ V[9] = 429
  <2>1. morse_table[9] = <<"-", ".", "-", "-", ".", "-">>  BY SMT DEF morse_table
  <2>2. V[9] = Weight(morse_table[9])  BY SMT
  <2> QED BY ONLY SMT, <2>1, <2>2 DEF Weight, Bit, IsCode, Marks
<1>10. IsCode(morse_table[10]) /\ V[10] = 0
  <2>1. morse_table[10] = <<>>  BY SMT DEF morse_table
  <2>2. V[10] = Weight(morse_table[10])  BY SMT
  <2> QED BY ONLY SMT, <2>1, <2>2 DEF Weight, Bit, IsCode, Marks
<1>11. IsCode(morse_table[11]) /\ V[11] = 0
  <2>1. morse_table[11] = <<>>  BY SMT DEF morse_table
  <2>2. V[11] = Weight(morse_table[11])  BY SMT
  <2> QED BY ONLY SMT, <2>1, <2>2 DEF Weight, Bit, IsCode, Marks
<1>12. IsCode(morse_table[12]) /\ V[12] = 435
  <2>1. morse_table[12] = <<"-", "-", ".", ".", "-", "-">>  BY SMT DEF morse_table
  <2>2. V[12] = Weight(morse_table[12])  BY SMT
  <2> QED BY ONLY SMT, <2>1, <2>2 DEF Weight, Bit, IsCode, Marks
<1>13. IsCode(morse_table[13]) /\ V[13] = 417
  <2>1. morse_table[13] = <<"-", ".", ".", ".", ".", "-">>  BY SMT DEF morse_table
  <2>2. V[13] = Weight(morse_table[13])  BY SMT
  <2> QED BY ONLY SMT, <2>1, <2>2 DEF Weight, Bit, IsCode, Marks
<1>14. IsCode(morse_table[14]) /\ V[14] = 426
  <2>1. morse_table[14] = <<".", "-", ".", "-", ".", "-">>  BY SMT DEF morse_table
  <2>2. V[14] = Weight(morse_table[14])  BY SMT
  <2> QED BY ONLY SMT, <2>1, <2>2 DEF Weight, Bit, IsCode, Marks
<1>15. IsCode(morse_table[15]) /\ V[15] = 0
  <2>1. morse_table[15] = <<>>  BY SMT DEF morse_table
  <2>2. V[15] = Weight(morse_table[15])  BY SMT
  <2> QED BY ONLY SMT, <2>1, <2>2 DEF Weight, Bit, IsCode, Marks
<1>16. IsCode(morse_table[16]) /\ V[16] = 351
  <2>1. morse_table[16] = <<"-", "-", "-", "-", "-">>  BY SMT DEF morse_table
  <2>2. V[16] = Weight(morse_table[16])  BY SMT
  <2> QED BY ONLY SMT, <2>1, <2>2 DEF Weight, Bit, IsCode, Marks
<1>17. IsCode(morse_table[17]) /\ V[17] = 350
  <2>1. morse_table[17] = <<".", "-", "-", "-", "-">>  BY SMT DEF morse_table
  <2>2. V[17] = Weight(morse_table[17])  BY SMT
  <2> QED BY ONLY SMT, <2>1, <2>2 DEF Weight, Bit, IsCode, Marks
<1>18. IsCode(morse_table[18]) /\ V[18] = 348
  <2>1. morse_table[18] = <<".", ".", "-", "-", "-">>  BY SMT DEF morse_table
  <2>2. V[18] = Weight(morse_table[18])  BY SMT
  <2> QED BY ONLY SMT, <2>1, <2>2 DEF Weight, Bit, IsCode, Marks
<1>19. IsCode(morse_table[19]) /\ V[19] = 344
  <2>1. morse_table[19] = <<".", ".", ".", "-", "-">>  BY SMT DEF morse_table
  <2>2. V[19] = Weight(morse_table[19])  BY SMT
  <2> QED BY ONLY SMT, <2>1, <2>2 DEF Weight, Bit, IsCode, Marks
<1>20. IsCode(morse_table[20]) /\ V[20] = 336
  <2>1. morse_table[20] = <<".", ".", ".", ".", "-">>  BY SMT DEF morse_table
  <2>2. V[20] = Weight(morse_table[20])  BY SMT
  <2> QED BY ONLY SMT, <2>1, <2>2 DEF Weight, Bit, IsCode, Marks
<1>21. IsCode(morse_table[21]) /\ V[21] = 320
  <2>1. morse_table[21] = <<".", ".", ".", ".", ".">>  BY SMT DEF morse_table
  <2>2. V[21] = Weight(morse_table[21])  BY SMT
  <2> QED BY ONLY SMT, <2>1, <2>2 DEF Weight, Bit, IsCode, Marks
<1>22. IsCode(morse_table[22]) /\ V[22] = 321
  <2>1. morse_table[22] = <<"-", ".", ".", ".", ".">>  BY SMT DEF morse_table
  <2>2. V[22] = Weight(morse_table[22])  BY SMT
  <2> QED BY ONLY SMT, <2>1, <2>2 DEF Weight, Bit, IsCode, Marks
<1>23. IsCode(morse_table[23]) /\ V[23] = 323
  <2>1. morse_table[23] = <<"-", "-", ".", ".", ".">>  BY SMT DEF morse_table
  <2>2. V[23] = Weight(morse_table[23])  BY SMT
  <2> QED BY ONLY SMT, <2>1, <2>2 DEF Weight, Bit, IsCode, Marks
<1>24. IsCode(morse_table[24]) /\ V[24] = 327
  <2>1. morse_table[24] = <<"-", "-", "-", ".", ".">>  BY SMT DEF morse_table
  <2>2. V[24] = Weight(morse_table[24])  BY SMT
  <2> QED BY ONLY SMT, <2>1, <2>2 DEF Weight, Bit, IsCode, Marks
<1>25. IsCode(morse_table[25]) /\ V[25] = 335
  <2>1. morse_table[25] = <<"-", "-", "-", "-", ".">>  BY SMT DEF morse_table
  <2>2. V[25] = Weight(morse_table[25])  BY SMT
  <2> QED BY ONLY SMT, <2>1, <2>2 DEF Weight, Bit, IsCode, Marks
<1>26. IsCode(morse_table[26]) /\ V[26] = 391
  <2>1. morse_table[26] = <<"-", "-", "-", ".", ".", ".">>  BY SMT DEF morse_table
  <2>2. V[26] = Weight(morse_table[26])  BY SMT
  <2> QED BY ONLY SMT, <2>1, <2>2 DEF Weight, Bit, IsCode, Marks
<1>27. IsCode(morse_table[27]) /\ V[27] = 405
  <2>1. morse_table[27] = <<"-", ".", "-", ".", "-", ".">>  BY SMT DEF morse_table
  <2>2. V[27] = Weight(morse_table[27])  BY SMT
  <2> QED BY ONLY SMT, <2>1, <2>2 DEF Weight, Bit, IsCode, Marks
<1>28. IsCode(morse_table[28]) /\ V[28] = 0
  <2>1. morse_table[28] = <<>>  BY SMT DEF morse_table
  <2>2. V[28] = Weight(morse_table[28])  BY SMT
  <2> QED BY ONLY SMT, <2>1, <2>2 DEF Weight, Bit, IsCode, Marks
<1>29. IsCode(morse_table[29]) /\ V[29] = 337
  <2>1. morse_table[29] = <<"-", ".", ".", ".", "-">>  BY SMT DEF morse_table
  <2>2. V[29] = Weight(morse_table[29])  BY SMT
  <2> QED BY ONLY SMT, <2>1, <2>2 DEF Weight, Bit, IsCode, Marks
<1>30. IsCode(morse_table[30]) /\ V[30] = 0
  <2>1. morse_table[30] = <<>>  BY SMT DEF morse_table
  <2>2. V[30] = Weight(morse_table[30])  BY SMT
  <2> QED BY ONLY SMT, <2>1, <2>2 DEF Weight, Bit, IsCode, Marks
<1>31. IsCode(morse_table[31]) /\ V[31] = 396
  <2>1. morse_table[31] = <<".", ".", "-", "-", ".", ".">>  BY SMT DEF morse_table
  <2>2. V[31] = Weight(morse_table[31])  BY SMT
  <2> QED BY ONLY SMT, <2>1, <2>2 DEF Weight, Bit, IsCode, Marks
<1>32. IsCode(morse_table[32]) /\ V[32] = 406
  <2>1. morse_table[32] = <<".", "-", "-", ".", "-", ".">>  BY SMT DEF morse_table
  <2>2. V[32] = Weight(morse_table[32])  BY SMT
  <2> QED BY ONLY SMT, <2>1, <2>2 DEF Weight, Bit, IsCode, Marks
<1>33. IsCode(morse_table[33]) /\ V[33] = 130
  <2>1. morse_table[33] = <<".", "-">>  BY SMT DEF morse_table
  <2>2. V[33] = Weight(morse_table[33])  BY SMT
  <2> QED BY ONLY SMT, <2>1, <2>2 DEF Weight, Bit, IsCode, Marks
<1>34. IsCode(morse_table[34]) /\ V[34] = 257
  <2>1. morse_table[34] = <<"-", ".", ".", ".">>  BY SMT DEF morse_table
  <2>2. V[34] = Weight(morse_table[34])  BY SMT
  <2> QED BY ONLY SMT, <2>1, <2>2 DEF Weight, Bit, IsCode, Marks
<1>35. IsCode(morse_table[35]) /\ V[35] = 261
  <2>1. morse_table[35] = <<"-", ".", "-", ".">>  BY SMT DEF morse_table
  <2>2. V[35] = Weight(morse_table[35])  BY SMT
  <2> QED BY ONLY SMT, <2>1, <2>2 DEF Weight, Bit, IsCode, Marks
<1>36. IsCode(morse_table[36]) /\ V[36] = 193
  <2>1. morse_table[36] = <<"-", ".", ".">>  BY SMT DEF morse_table
  <2>2. V[36] = Weight(morse_table[36])  BY SMT
  <2> QED BY ONLY SMT, <2>1, <2>2 DEF Weight, Bit, IsCode, Marks
<1>37. IsCode(morse_table[37]) /\ V[37] = 64
  <2>1. morse_table[37] = <<".">>  BY SMT DEF morse_table
  <2>2. V[37] = Weight(morse_table[37])  BY SMT
  <2> QED BY ONLY SMT, <2>1, <2>2 DEF Weight, Bit, IsCode, Marks
<1>38. IsCode(morse_table[38]) /\ V[38] = 260
  <2>1. morse_table[38] = <<".", ".", "-", ".">>  BY SMT DEF morse_table
  <2>2. V[38] = Weight(morse_table[38])  BY SMT
  <2> QED BY ONLY SMT, <2>1, <2>2 DEF Weight, Bit, IsCode, Marks
<1>39. IsCode(morse_table[39]) /\ V[39] = 195
  <2>1. morse_table[39] = <<"-", "-", ".">>  BY SMT DEF morse_table
  <2>2. V[39] = Weight(morse_table[39])  BY SMT
  <2> QED BY ONLY SMT, <2>1, <2>2 DEF Weight, Bit, IsCode, Marks
<1>40. IsCode(morse_table[40]) /\ V[40] = 256
  <2>1. morse_table[40] = <<".", ".", ".", ".">>  BY SMT DEF morse_table
  <2>2. V[40] = Weight(morse_table[40])  BY SMT
  <2> QED BY ONLY SMT, <2>1, <2>2 DEF Weight, Bit, IsCode, Marks
<1>41. IsCode(morse_table[41]) /\ V[41] = 128
  <2>1. morse_table[41] = <<".", ".">>  BY SMT DEF morse_table
  <2>2. V[41] = Weight(morse_table[41])  BY SMT
  <2> QED BY ONLY SMT, <2>1, <2>2 DEF Weight, Bit, IsCode, Marks
<1>42. IsCode(morse_table[42]) /\ V[42] = 270
  <2>1. morse_table[42] = <<".", "-", "-", "-">>  BY SMT DEF morse_table
  <2>2. V[42] = Weight(morse_table[42])  BY SMT
  <2> QED BY ONLY SMT, <2>1, <2>2 DEF Weight, Bit, IsCode, Marks
<1>43. IsCode(morse_table[43]) /\ V[43] = 197
  <2>1. morse_table[43] = <<"-", ".", "-">>  BY SMT DEF morse_table
  <2>2. V[43] = Weight(morse_table[43])  BY SMT
  <2> QED BY ONLY SMT, <2>1, <2>2 DEF Weight, Bit, IsCode, Marks
<1>44. IsCode(morse_table[44]) /\ V[44] = 258
  <2>1. morse_table[44] = <<".", "-", ".", ".">>  BY SMT DEF morse_table
  <2>2. V[44] = Weight(morse_table[44])  BY SMT
  <2> QED BY ONLY SMT, <2>1, <2>2 DEF Weight, Bit, IsCode, Marks
<1>45. IsCode(morse_table[45]) /\ V[45] = 131
  <2>1. morse_table[45] = <<"-", "-">>  BY SMT DEF morse_table
  <2>2. V[45] = Weight(morse_table[45])  BY SMT
  <2> QED BY ONLY SMT, <2>1, <2>2 DEF Weight, Bit, IsCode, Marks
<1>46. IsCode(morse_table[46]) /\ V[46] = 129
  <2>1. morse_table[46] = <<"-", ".">>  BY SMT DEF morse_table
  <2>2. V[46] = Weight(morse_table[46])  BY SMT
  <2> QED BY ONLY SMT, <2>1, <2>2 DEF Weight, Bit, IsCode, Marks
<1>47. IsCode(morse_table[47]) /\ V[47] = 199
  <2>1. morse_table[47] = <<"-", "-", "-">>  BY SMT DEF morse_table
  <2>2. V[47] = Weight(morse_table[47])  BY SMT
  <2> QED BY ONLY SMT, <2>1, <2>2 DEF Weight, Bit, IsCode, Marks
<1>48. IsCode(morse_table[48]) /\ V[48] = 262
  <2>1. morse_table[48] = <<".", "-", "-", ".">>  BY SMT DEF morse_table
  <2>2. V[48] = Weight(morse_table[48])  BY SMT
  <2> QED BY ONLY SMT, <2>1, <2>2 DEF Weight, Bit, IsCode, Marks
<1>49. IsCode(morse_table[49]) /\ V[49] = 267
  <2>1. morse_table[49] = <<"-", "-", ".", "-">>  BY SMT DEF morse_table
  <2>2. V[49] = Weight(morse_table[49])  BY SMT
  <2> QED BY ONLY SMT, <2>1, <2>2 DEF Weight, Bit, IsCode, Marks
<1>50. IsCode(morse_table[50]) /\ V[50] = 194
  <2>1. morse_table[50] = <<".", "-", ".">>  BY SMT DEF morse_table
  <2>2. V[50] = Weight(morse_table[50])  BY SMT
  <2> QED BY ONLY SMT, <2>1, <2>2 DEF Weight, Bit, IsCode, Marks
<1>51. IsCode(morse_table[51]) /\ V[51] = 192
  <2>1. morse_table[51] = <<".", ".", ".">>  BY SMT DEF morse_table
  <2>2. V[51] = Weight(morse_table[51])  BY SMT
  <2> QED BY ONLY SMT, <2>1, <2>2 DEF Weight, Bit, IsCode, Marks
<1>52. IsCode(morse_table[52]) /\ V[52] = 65
  <2>1. morse_table[52] = <<"-">>  BY SMT DEF morse_table
  <2>2. V[52] = Weight(morse_table[52])  BY SMT
  <2> QED BY ONLY SMT, <2>1, <2>2 DEF Weight, Bit, IsCode, Marks
<1>53. IsCode(morse_table[53]) /\ V[53] = 196
  <2>1. morse_table[53] = <<".", ".", "-">>  BY SMT DEF morse_table
  <2>2. V[53] = Weight(morse_table[53])  BY SMT
  <2> QED BY ONLY SMT, <2>1, <2>2 DEF Weight, Bit, IsCode, Marks
<1>54. IsCode(morse_table[54]) /\ V[54] = 264
  <2>1. morse_table[54] = <<".", ".", ".", "-">>  BY SMT DEF morse_table
  <2>2. V[54] = Weight(morse_table[54])  BY SMT
  <2> QED BY ONLY SMT, <2>1, <2>2 DEF Weight, Bit, IsCode, Marks
<1>55. IsCode(morse_table[55]) /\ V[55] = 198
  <2>1. morse_table[55] = <<".", "-", "-">>  BY SMT DEF morse_table
  <2>2. V[55] = Weight(morse_table[55])  BY SMT
  <2> QED BY ONLY SMT, <2>1, <2>2 DEF Weight, Bit, IsCode, Marks
<1>56. IsCode(morse_table[56]) /\ V[56] = 265
  <2>1. morse_table[56] = <<"-", ".", ".", "-">>  BY SMT DEF morse_table
  <2>2. V[56] = Weight(morse_table[56])  BY SMT
  <2> QED BY ONLY SMT, <2>1, <2>2 DEF Weight, Bit, IsCode, Marks
<1>57. IsCode(morse_table[57]) /\ V[57] = 269
  <2>1. morse_table[57] = <<"-", ".", "-", "-">>  BY SMT DEF morse_table
  <2>2. V[57] = Weight(morse_table[57])  BY SMT
  <2> QED BY ONLY SMT, <2>1, <2>2 DEF Weight, Bit, IsCode, Marks
<1>58. IsCode(morse_table[58]) /\ V[58] = 259
  <2>1. morse_table[58] = <<"-", "-", ".", ".">>  BY SMT DEF morse_table
  <2>2. V[58] = Weight(morse_table[58])  BY SMT
  <2> QED BY ONLY SMT, <2>1, <2>2 DEF Weight, Bit, IsCode, Marks
<1>59. Numbered(V)
  BY ONLY Zenon, <1>1, <1>2, <1>3, <1>4, <1>5, <1>6, <1>7, <1>8, <1>9, <1>10, <1>11, <1>12, <1>13,
             <1>14, <1>15, <1>16, <1>17, <1>18, <1>19, <1>20, <1>21, <1>22, <1>23, <1>24, <1>25,
             <1>26, <1>27, <1>28, <1>29, <1>30, <1>31, <1>32, <1>33, <1>34, <1>35, <1>36, <1>37,
             <1>38, <1>39, <1>40, <1>41, <1>42, <1>43, <1>44, <1>45, <1>46, <1>47, <1>48, <1>49,
             <1>50, <1>51, <1>52, <1>53, <1>54, <1>55, <1>56, <1>57, <1>58 DEF Numbered
<1>60. ASSUME NEW k \in 1..58 PROVE IsCode(morse_table[k])
  BY ONLY SMT, <1>1, <1>2, <1>3, <1>4, <1>5, <1>6, <1>7, <1>8, <1>9, <1>10, <1>11, <1>12, <1>13,
             <1>14, <1>15, <1>16, <1>17, <1>18, <1>19, <1>20, <1>21, <1>22, <1>23, <1>24, <1>25,
             <1>26, <1>27, <1>28, <1>29, <1>30, <1>31, <1>32, <1>33, <1>34, <1>35, <1>36, <1>37,
             <1>38, <1>39, <1>40, <1>41, <1>42, <1>43, <1>44, <1>45, <1>46, <1>47, <1>48, <1>49,
             <1>50, <1>51, <1>52, <1>53, <1>54, <1>55, <1>56, <1>57, <1>58, k \in 1..58
<1> QED BY ONLY Zenon, <1>59, <1>60


\* No two have the same number.
LEMMA WeightsDiffer ==
    ASSUME NEW V, Numbered(V), NEW i \in 1..58, NEW j \in 1..58, V[i] = V[j], V[i] # 0
    PROVE  i = j
BY SMTT(100) DEF Numbered

\* Every letter that has a code has it alone.
LEMMA CodesDiffer ==
    ASSUME NEW i \in 1..58, NEW j \in 1..58, morse_table[i] = morse_table[j],
           morse_table[i] # <<>>
    PROVE  i = j
<1> DEFINE V == [k \in 1..58 |-> Weight(morse_table[k])]
<1>1. \A k \in 1..58 : V[k] = Weight(morse_table[k])
  BY Zenon
<1> HIDE DEF V
<1>2. Numbered(V) /\ \A k \in 1..58 : IsCode(morse_table[k])
  BY ONLY Zenon, <1>1, MorseWeights
<1>3. IsCode(morse_table[i])
  BY Zenon, <1>2
<1>4. Weight(morse_table[i]) # 0
  <2>1. PICK t : t = morse_table[i]
    BY Zenon
  <2>2. t \in Seq(Marks) /\ t # <<>>
    BY Zenon, <1>3, <2>1 DEF IsCode
  <2>3. Len(t) \in Nat /\ Len(t) > 0
    BY ONLY SMT, <2>2
  <2>4. Weight(t) # 0
    BY ONLY SMT, <2>3 DEF Weight, Bit
  <2> QED BY ONLY Zenon, <2>1, <2>4
<1>5. V[i] = V[j] /\ V[i] # 0
  BY Zenon, <1>1, <1>4
<1> QED BY Zenon, <1>2, <1>5, WeightsDiffer

\* Any three symbols but three x are an entry of fractionated_table.
LEMMA TriplesAreThere ==
    ASSUME NEW a \in Symbols, NEW b \in Symbols, NEW c \in Symbols, <<a, b, c>> # <<"x", "x", "x">>
    PROVE  \E i \in 1..26 : fractionated_table[i] = <<a, b, c>>
<1>1. fractionated_table[1] = <<".", ".", ".">>  BY SMT DEF fractionated_table
<1>2. fractionated_table[2] = <<".", ".", "-">>  BY SMT DEF fractionated_table
<1>3. fractionated_table[3] = <<".", ".", "x">>  BY SMT DEF fractionated_table
<1>4. fractionated_table[4] = <<".", "-", ".">>  BY SMT DEF fractionated_table
<1>5. fractionated_table[5] = <<".", "-", "-">>  BY SMT DEF fractionated_table
<1>6. fractionated_table[6] = <<".", "-", "x">>  BY SMT DEF fractionated_table
<1>7. fractionated_table[7] = <<".", "x", ".">>  BY SMT DEF fractionated_table
<1>8. fractionated_table[8] = <<".", "x", "-">>  BY SMT DEF fractionated_table
<1>9. fractionated_table[9] = <<".", "x", "x">>  BY SMT DEF fractionated_table
<1>10. fractionated_table[10] = <<"-", ".", ".">>  BY SMT DEF fractionated_table
<1>11. fractionated_table[11] = <<"-", ".", "-">>  BY SMT DEF fractionated_table
<1>12. fractionated_table[12] = <<"-", ".", "x">>  BY SMT DEF fractionated_table
<1>13. fractionated_table[13] = <<"-", "-", ".">>  BY SMT DEF fractionated_table
<1>14. fractionated_table[14] = <<"-", "-", "-">>  BY SMT DEF fractionated_table
<1>15. fractionated_table[15] = <<"-", "-", "x">>  BY SMT DEF fractionated_table
<1>16. fractionated_table[16] = <<"-", "x", ".">>  BY SMT DEF fractionated_table
<1>17. fractionated_table[17] = <<"-", "x", "-">>  BY SMT DEF fractionated_table
<1>18. fractionated_table[18] = <<"-", "x", "x">>  BY SMT DEF fractionated_table
<1>19. fractionated_table[19] = <<"x", ".", ".">>  BY SMT DEF fractionated_table
<1>20. fractionated_table[20] = <<"x", ".", "-">>  BY SMT DEF fractionated_table
<1>21. fractionated_table[21] = <<"x", ".", "x">>  BY SMT DEF fractionated_table
<1>22. fractionated_table[22] = <<"x", "-", ".">>  BY SMT DEF fractionated_table
<1>23. fractionated_table[23] = <<"x", "-", "-">>  BY SMT DEF fractionated_table
<1>24. fractionated_table[24] = <<"x", "-", "x">>  BY SMT DEF fractionated_table
<1>25. fractionated_table[25] = <<"x", "x", ".">>  BY SMT DEF fractionated_table
<1>26. fractionated_table[26] = <<"x", "x", "-">>  BY SMT DEF fractionated_table
<1>27. a \in {".", "-", "x"} /\ b \in {".", "-", "x"} /\ c \in {".", "-", "x"}
  BY DEF Symbols
<1> QED BY SMT, <1>1, <1>2, <1>3, <1>4, <1>5, <1>6, <1>7, <1>8, <1>9, <1>10, <1>11, <1>12, <1>13,
             <1>14, <1>15, <1>16, <1>17, <1>18, <1>19, <1>20, <1>21, <1>22, <1>23, <1>24, <1>25,
             <1>26, <1>27

-----------------------------------------------------------------------------
(* What decrypt2 makes of symbols *)

\* decrypt2's state: what is printed, the marks of the letter in hand, xTracker, charTracker.
States == [ok : BOOLEAN, out : Seq(Nat), buf : Seq(Marks), xs : Nat, last : Nat]
Is(s, o, b, xs, l) ==
    s \in States /\ s.ok /\ s.out = o /\ s.buf = b /\ s.xs = xs /\ s.last = l

\* What stands before the next mark: a space if two x and no new line did.
Spaced(o, xs, l) == IF xs = 2 /\ l # NEWLINE THEN Append(o, SPACE) ELSE o

LEMMA StateSet ==
    ASSUME NEW s, NEW o, NEW b, NEW xs, NEW l, Is(s, o, b, xs, l)
    PROVE  /\ \A v \in Seq(Nat) : Is([s EXCEPT !.out = v], v, b, xs, l)
           /\ \A v \in Seq(Marks) : Is([s EXCEPT !.buf = v], o, v, xs, l)
           /\ \A v \in Nat : Is([s EXCEPT !.xs = v], o, b, v, l)
           /\ \A v \in Nat : Is([s EXCEPT !.last = v], o, b, xs, v)
           /\ o \in Seq(Nat) /\ b \in Seq(Marks) /\ xs \in Nat /\ l \in Nat
BY SMT DEF Is, States

LEMMA AppendIs ==
    ASSUME NEW D, NEW q \in Seq(D), NEW v \in D
    PROVE  /\ Append(q, v) \in Seq(D) /\ Len(Append(q, v)) = Len(q) + 1
           /\ Append(q, v)[Len(q) + 1] = v /\ \A i \in 1..Len(q) : Append(q, v)[i] = q[i]
BY SMT

LEMMA Constants == NEWLINE \in Nat /\ SPACE \in Nat /\ 0 \in Nat /\ 1 \in Nat /\ <<>> \in Seq(Marks)
BY SMT DEF NEWLINE, SPACE

LEMMA LetterIsNat ==
    ASSUME NEW b, Coded(b) # {}
    PROVE  Letter(b) \in Nat
<1>1. PICK C \in SUBSET (1..90) : C = Coded(b)
  BY Zenon DEF Coded
<1>2. C # {} /\ C \in SUBSET Nat
  BY SMT, <1>1
<1>3. PICK k \in C : \A j \in C : k <= j
  BY Zenon, <1>2, LeastNumber
<1>4. (CHOOSE i \in C : \A j \in C : i <= j) \in C
  BY Zenon, <1>3
<1>5. PICK n \in C : n = CHOOSE i \in C : \A j \in C : i <= j
  BY Zenon, <1>4
<1>6. 32 + n \in Nat
  BY SMT, <1>2
<1> QED BY Zenon, <1>1, <1>5, <1>6 DEF Letter

LEMMA MarkRead ==
    ASSUME NEW s, NEW o, NEW b, NEW xs, NEW l, Is(s, o, b, xs, l), NEW x \in Marks
    PROVE  Is(Symbol(s, x), Spaced(o, xs, l), Append(b, x), 0, 0)
<1>1. x # "x"
  BY SMT DEF Marks
<1>2. Spaced(o, xs, l) \in Seq(Nat) /\ Append(b, x) \in Seq(Marks)
  BY Zenon, StateSet, AppendIs, Constants DEF Spaced
<1>3. PICK s1 : s1 = [s EXCEPT !.out = Spaced(o, xs, l)]
  BY Zenon
<1>4. PICK s2 : s2 = [s1 EXCEPT !.buf = Append(b, x)]
  BY Zenon
<1>5. PICK s3 : s3 = [s2 EXCEPT !.xs = 0]
  BY Zenon
<1>6. Is(s1, Spaced(o, xs, l), b, xs, l)
  BY Zenon, <1>2, <1>3, StateSet
<1>7. Is(s2, Spaced(o, xs, l), Append(b, x), xs, l)
  BY Zenon, <1>2, <1>4, <1>6, StateSet
<1>8. Is(s3, Spaced(o, xs, l), Append(b, x), 0, l)
  BY Zenon, <1>5, <1>7, StateSet, Constants
<1>9. Is([s3 EXCEPT !.last = 0], Spaced(o, xs, l), Append(b, x), 0, 0)
  BY Zenon, <1>8, StateSet, Constants
<1>10. Symbol(s, x) = [s3 EXCEPT !.last = 0]
  <2>1. s1.buf = b
    BY Zenon, <1>6 DEF Is
  <2>2. (IF s.xs = 2 /\ s.last # NEWLINE THEN Append(s.out, SPACE) ELSE s.out) = Spaced(o, xs, l)
    BY Zenon DEF Is, Spaced
  <2> QED BY Zenon, <1>1, <1>3, <1>4, <1>5, <2>1, <2>2 DEF Symbol, Is
<1> QED BY Zenon, <1>9, <1>10

LEMMA LetterPrinted ==
    ASSUME NEW s, NEW o, NEW b, NEW xs, NEW l, Is(s, o, b, xs, l), Coded(b) # {}
    PROVE  Is(PrintLetter(s), Append(o, Letter(b)), <<>>, xs + 1, Letter(b))
<1>1. Letter(b) \in Nat
  BY Zenon, LetterIsNat
<1>2. Append(o, Letter(b)) \in Seq(Nat) /\ xs + 1 \in Nat
  <2>1. xs \in Nat
    BY Zenon, StateSet
  <2>2. xs + 1 \in Nat
    BY SMT, <2>1
  <2> QED BY Zenon, <1>1, <2>2, StateSet, AppendIs
<1>3. PICK s1 : s1 = [s EXCEPT !.out = Append(o, Letter(b))]
  BY Zenon
<1>4. PICK s2 : s2 = [s1 EXCEPT !.buf = <<>>]
  BY Zenon
<1>5. PICK s3 : s3 = [s2 EXCEPT !.xs = xs + 1]
  BY Zenon
<1>6. Is(s1, Append(o, Letter(b)), b, xs, l)
  BY Zenon, <1>2, <1>3, StateSet
<1>7. Is(s2, Append(o, Letter(b)), <<>>, xs, l)
  BY Zenon, <1>4, <1>6, StateSet, Constants
<1>8. Is(s3, Append(o, Letter(b)), <<>>, xs + 1, l)
  BY Zenon, <1>2, <1>5, <1>7, StateSet
<1>9. Is([s3 EXCEPT !.last = Letter(b)], Append(o, Letter(b)), <<>>, xs + 1, Letter(b))
  BY Zenon, <1>1, <1>8, StateSet
<1>10. PrintLetter(s) = [s3 EXCEPT !.last = Letter(b)]
  <2>1. s2.xs = xs /\ s.buf = b /\ s.out = o
    BY Zenon, <1>7 DEF Is
  <2> QED BY Zenon, <1>3, <1>4, <1>5, <2>1 DEF PrintLetter
<1> QED BY Zenon, <1>9, <1>10

LEMMA FirstX ==
    ASSUME NEW s, NEW o, NEW b, NEW l, Is(s, o, b, 0, l), Coded(b) # {}
    PROVE  Is(Symbol(s, "x"), Append(o, Letter(b)), <<>>, 1, Letter(b))
<1>1. Symbol(s, "x") = PrintLetter(s)
  BY Zenon DEF Symbol, Is
<1>2. 0 + 1 = 1
  BY SMT
<1>3. Is(PrintLetter(s), Append(o, Letter(b)), <<>>, 0 + 1, Letter(b))
  BY Zenon, LetterPrinted
<1> QED BY Zenon, <1>1, <1>2, <1>3

LEMMA NextX ==
    ASSUME NEW s, NEW o, NEW b, NEW xs, NEW l, Is(s, o, b, xs, l), xs # 0
    PROVE  Is(Symbol(s, "x"), o, b, xs + 1, 0)
<1>1. xs + 1 \in Nat
  <2>1. xs \in Nat
    BY Zenon, StateSet
  <2> QED BY SMT, <2>1
<1>2. PICK s1 : s1 = [s EXCEPT !.xs = xs + 1]
  BY Zenon
<1>3. Is(s1, o, b, xs + 1, l)
  BY Zenon, <1>1, <1>2, StateSet
<1>4. Symbol(s, "x") = [s1 EXCEPT !.last = 0]
  BY Zenon, <1>2 DEF Symbol, Is
<1>5. Is([s1 EXCEPT !.last = 0], o, b, xs + 1, 0)
  BY Zenon, <1>3, StateSet, Constants
<1> QED BY Zenon, <1>4, <1>5

\* A new line prints the letter in hand.
NewLine(s) ==
    LET printed == IF s.buf # <<>> THEN PrintLetter(s) ELSE s
    IN [printed EXCEPT !.out = Append(@, NEWLINE), !.last = NEWLINE]

LEMMA NewLineAfter ==
    ASSUME NEW s, NEW o, NEW xs, NEW l, Is(s, o, <<>>, xs, l)
    PROVE  Is(NewLine(s), Append(o, NEWLINE), <<>>, xs, NEWLINE)
<1>1. s.buf = <<>> /\ s.out = o /\ Append(o, NEWLINE) \in Seq(Nat)
  BY Zenon, StateSet, AppendIs, Constants DEF Is
<1>2. PICK s1 : s1 = [s EXCEPT !.out = Append(o, NEWLINE)]
  BY Zenon
<1>3. Is(s1, Append(o, NEWLINE), <<>>, xs, l)
  BY Zenon, <1>1, <1>2, StateSet
<1>4. NewLine(s) = [s1 EXCEPT !.last = NEWLINE]
  BY Zenon, <1>1, <1>2 DEF NewLine
<1>5. Is([s1 EXCEPT !.last = NEWLINE], Append(o, NEWLINE), <<>>, xs, NEWLINE)
  BY Zenon, <1>3, StateSet, Constants
<1> QED BY Zenon, <1>4, <1>5

LEMMA NewLineWithin ==
    ASSUME NEW s, NEW o, NEW b, NEW xs, NEW l, Is(s, o, b, xs, l), b # <<>>, Coded(b) # {}
    PROVE  Is(NewLine(s), Append(Append(o, Letter(b)), NEWLINE), <<>>, xs + 1, NEWLINE)
<1>1. s.buf # <<>>
  BY Zenon DEF Is
<1>2. PICK p : p = PrintLetter(s)
  BY Zenon
<1>3. Is(p, Append(o, Letter(b)), <<>>, xs + 1, Letter(b))
  BY Zenon, <1>2, LetterPrinted
<1>4. p.out = Append(o, Letter(b)) /\ Append(p.out, NEWLINE) \in Seq(Nat)
  <2>1. p.out = Append(o, Letter(b))
    BY Zenon, <1>3 DEF Is
  <2> QED BY Zenon, <1>3, <2>1, StateSet, AppendIs, Constants
<1>5. PICK s1 : s1 = [p EXCEPT !.out = Append(p.out, NEWLINE)]
  BY Zenon
<1>6. Is(s1, Append(Append(o, Letter(b)), NEWLINE), <<>>, xs + 1, Letter(b))
  BY Zenon, <1>3, <1>4, <1>5, StateSet
<1>7. NewLine(s) = [s1 EXCEPT !.last = NEWLINE]
  BY Zenon, <1>1, <1>2, <1>5 DEF NewLine
<1>8. Is([s1 EXCEPT !.last = NEWLINE], Append(Append(o, Letter(b)), NEWLINE), <<>>, xs + 1, NEWLINE)
  BY Zenon, <1>6, StateSet, Constants
<1> QED BY Zenon, <1>7, <1>8

\* The code of each letter that has one is read back to it.
LEMMA LettersReadBack ==
    ASSUME NEW c \in 33..126, c <= MorseLimit, morse(c) # <<>>
    PROVE  /\ Coded(morse(c)) # {} /\ Letter(morse(c)) = c /\ IsCode(morse(c))
           /\ Len(morse(c)) \in 1..6
<1>1. c <= 90
  BY Zenon DEF morse
<1>2. PICK i \in 1..58 : i = c - 32
  BY SMT, <1>1
<1>3. morse(c) = morse_table[i]
  BY SMT, <1>1, <1>2 DEF morse
<1>4. ASSUME NEW j \in 1..90 PROVE morse(32 + j) = morse(c) <=> j = i
  <2>1. CASE j \in 1..58
    <3>1. morse(32 + j) = morse_table[j]
      <4>1. 32 + j <= 90 /\ 32 + j - 32 = j
        BY SMT, <2>1
      <4>2. PICK n : n = 32 + j
        BY Zenon
      <4>3. n <= 90 /\ n - 32 = j
        BY SMT, <4>1, <4>2
      <4> QED BY Zenon, <4>2, <4>3 DEF morse
    <3> QED BY Zenon, <1>3, <2>1, <3>1, CodesDiffer
  <2>2. CASE j \notin 1..58
    <3>1. ~(32 + j <= 90)
      BY SMT, <2>2
    <3> QED BY Zenon, <2>2, <3>1 DEF morse
  <2> QED BY Zenon, <2>1, <2>2
<1>5. Coded(morse(c)) = {i}
  <2>1. i \in 1..90
    BY SMT
  <2> QED BY Zenon, <1>4, <2>1 DEF Coded
<1>6. Letter(morse(c)) = 32 + i
  <2>1. (CHOOSE k \in {i} : \A j \in {i} : k <= j) = i
    BY SMT
  <2> QED BY Zenon, <1>5, <2>1 DEF Letter
<1>7. IsCode(morse_table[i])
  <2>1. PICK V : V = [k \in 1..58 |-> Weight(morse_table[k])]
    BY Zenon
  <2>2. \A k \in 1..58 : V[k] = Weight(morse_table[k])
    BY Zenon, <2>1
  <2> QED BY Zenon, <2>2, MorseWeights
<1>8. Len(morse(c)) \in 1..6
  <2>1. PICK t : t = morse(c)
    BY Zenon
  <2>2. t \in Seq(Marks) /\ Len(t) \in 0..6 /\ t # <<>>
    BY Zenon, <1>3, <1>7, <2>1 DEF IsCode
  <2>3. Len(t) \in 1..6
    BY ONLY SMT, <2>2
  <2> QED BY Zenon, <2>1, <2>3
<1>9. 32 + i = c
  BY SMT, <1>2
<1> QED BY Zenon, <1>3, <1>5, <1>6, <1>7, <1>8, <1>9

\* No marks are taken for the first character that has no code, #.
LEMMA NothingIsHash == Coded(<<>>) # {} /\ Letter(<<>>) = 35
<1>1. morse_table[1] # <<>> /\ morse_table[2] # <<>> /\ morse_table[3] = <<>>
  BY SMT DEF morse_table
<1>2. morse(33) = morse_table[1] /\ morse(34) = morse_table[2] /\ morse(35) = morse_table[3]
  BY SMT DEF morse
<1>3. 3 \in Coded(<<>>) /\ \A j \in Coded(<<>>) : j \in Int /\ 3 <= j
  <2>1. ASSUME NEW j \in 1..90, morse(32 + j) = <<>> PROVE 3 <= j
    <3>1. CASE j = 1
      BY SMT, <1>1, <1>2, <2>1, <3>1
    <3>2. CASE j = 2
      BY SMT, <1>1, <1>2, <2>1, <3>2
    <3> QED BY SMT, <3>1, <3>2
  <2>2. 3 \in 1..90 /\ morse(32 + 3) = <<>>
    BY SMT, <1>1, <1>2
  <2>3. \A j \in 1..90 : j \in Int
    BY SMT
  <2> QED BY Zenon, <2>1, <2>2, <2>3 DEF Coded
<1>4. PICK C : C = Coded(<<>>)
  BY Zenon
<1>5. (CHOOSE i \in C : \A j \in C : i <= j) = 3
  <2>1. 3 \in C /\ \A j \in C : j \in Int /\ 3 <= j
    BY Zenon, <1>3, <1>4
  <2>2. \A i \in C : (\A j \in C : i <= j) => i = 3
    BY ONLY SMT, <2>1
  <2> QED BY ONLY Zenon, <2>1, <2>2
<1>6. 32 + 3 = 35
  BY SMT
<1> QED BY Zenon, <1>3, <1>4, <1>5, <1>6 DEF Letter

-----------------------------------------------------------------------------
(* What decrypt2 makes of letters *)

\* The letter of three symbols in the table t, and the place of a letter in it.
CodeIn(t, w) == t[CHOOSE i \in 1..26 : fractionated_table[i] = w]
PlaceIn(t, c) == CHOOSE i \in DOMAIN t : t[i] = c

\* What decrypt2 can read, and its state after it.
Readable(t, c) == c = NEWLINE \/ \E i \in 1..26 : t[i] = c
Thrice(s, w) == Symbol(Symbol(Symbol(s, w[1]), w[2]), w[3])
Decoded(t, s, c) ==
    IF c = NEWLINE THEN NewLine(s) ELSE Thrice(s, fractionated_table[PlaceIn(t, c)])

\* Through any permutation of the letters, three symbols are read back.
LEMMA CodeReadsBack ==
    ASSUME NEW t, Permutation(t, fm_alphabet),
           NEW a \in Symbols, NEW b \in Symbols, NEW c \in Symbols, <<a, b, c>> # <<"x", "x", "x">>
    PROVE  LET w == <<a, b, c>> IN
           /\ CodeIn(t, w) \in Nat /\ CodeIn(t, w) # NEWLINE /\ Readable(t, CodeIn(t, w))
           /\ fractionated_table[PlaceIn(t, CodeIn(t, w))] = w
<1>1. PICK w : w = <<a, b, c>>
  BY Zenon
<1>2. PICK i : i = CHOOSE j \in 1..26 : fractionated_table[j] = w
  BY Zenon
<1>3. i \in 1..26 /\ fractionated_table[i] = w
  BY Zenon, <1>1, <1>2, TriplesAreThere
<1>4. t \in Seq(Nat) /\ Len(t) = 26 /\ (\A j, k \in 1..26 : t[j] = t[k] => j = k)
      /\ Elements(t) = (64 + 1)..(64 + 26)
  <2>1. PICK n : n = 64
    BY Zenon
  <2>2. PICK N : N = 26
    BY Zenon
  <2>3. IsRange(fm_alphabet, n, N)
    BY Zenon, <2>1, <2>2, AlphabetsAre
  <2>4. PICK a2 : a2 = fm_alphabet
    BY Zenon
  <2>5. Len(a2) = N
    BY ONLY SMT, <2>3, <2>4, RangeIs
  <2>6. Elements(a2) = (n + 1)..(n + N)
    BY ONLY SMT, <2>3, <2>4, RangeIs
  <2> QED BY Zenon, <2>1, <2>2, <2>4, <2>5, <2>6 DEF Permutation
<1>5. PICK v : v = t[i]
  BY Zenon
<1>6. DOMAIN t = 1..26
  BY SMT, <1>4
<1>7. PlaceIn(t, v) = i
  <2>1. \A j \in 1..26 : t[j] = v <=> j = i
    BY Zenon, <1>3, <1>4, <1>5
  <2>2. (CHOOSE j \in 1..26 : t[j] = v) = i
    BY Zenon, <1>3, <2>1
  <2> QED BY Zenon, <1>6, <2>2 DEF PlaceIn
<1>8. v \in Nat /\ v # NEWLINE
  <2>1. v \in (64 + 1)..(64 + 26)
    BY Zenon, <1>3, <1>4, <1>5, <1>6 DEF Elements
  <2> QED BY ONLY SMT, <2>1 DEF NEWLINE
<1>9. CodeIn(t, w) = v
  BY Zenon, <1>2, <1>5 DEF CodeIn
<1>10. Readable(t, v)
  BY Zenon, <1>3, <1>5 DEF Readable
<1> QED BY Zenon, <1>1, <1>3, <1>7, <1>8, <1>9, <1>10

LEMMA FieldSet ==
    ASSUME NEW s \in States
    PROVE  /\ [s EXCEPT !.ok = FALSE] \in States
           /\ \A v \in Seq(Nat) : [s EXCEPT !.out = v] \in States /\ [s EXCEPT !.out = v].ok = s.ok
           /\ \A v \in Nat : [s EXCEPT !.last = v] \in States /\ [s EXCEPT !.last = v].ok = s.ok
           /\ s.out \in Seq(Nat)
<1>1. [s EXCEPT !.ok = FALSE] \in States
  <2>1. \A B, O, M : \A w \in B : \A u \in [ok : B, out : O, buf : M, xs : Nat, last : Nat] :
            [u EXCEPT !.ok = w] \in [ok : B, out : O, buf : M, xs : Nat, last : Nat]
    BY ONLY SMT
  <2>2. FALSE \in BOOLEAN
    OBVIOUS
  <2> QED BY Zenon, <2>1, <2>2 DEF States
<1>2. \A v \in Seq(Nat) : [s EXCEPT !.out = v] \in States
  <2>1. \A B, O, M : \A w \in O : \A u \in [ok : B, out : O, buf : M, xs : Nat, last : Nat] :
            [u EXCEPT !.out = w] \in [ok : B, out : O, buf : M, xs : Nat, last : Nat]
    BY ONLY SMT
  <2> QED BY Zenon, <2>1 DEF States
<1>3. \A v \in Nat : [s EXCEPT !.last = v] \in States
  <2>1. \A B, O, M : \A w \in Nat : \A u \in [ok : B, out : O, buf : M, xs : Nat, last : Nat] :
            [u EXCEPT !.last = w] \in [ok : B, out : O, buf : M, xs : Nat, last : Nat]
    BY ONLY SMT
  <2> QED BY Zenon, <2>1 DEF States
<1>4. (\A v \in Seq(Nat) : [s EXCEPT !.out = v].ok = s.ok)
      /\ \A v \in Nat : [s EXCEPT !.last = v].ok = s.ok
  BY Zenon DEF States
<1>5. s.out \in Seq(Nat)
  BY SMT DEF States
<1> QED BY Zenon, <1>1, <1>2, <1>3, <1>4, <1>5

LEMMA PrintStays ==
    ASSUME NEW s \in States, s.ok
    PROVE  PrintLetter(s) \in States
<1>1. CASE Coded(s.buf) = {}
  <2>1. [s EXCEPT !.ok = FALSE] \in States
    BY Zenon, FieldSet
  <2> QED BY Zenon, <1>1, <2>1 DEF PrintLetter
<1>2. CASE Coded(s.buf) # {}
  <2>1. Is(s, s.out, s.buf, s.xs, s.last)
    BY Zenon DEF Is
  <2>2. Is(PrintLetter(s), Append(s.out, Letter(s.buf)), <<>>, s.xs + 1, Letter(s.buf))
    BY Zenon, <1>2, <2>1, LetterPrinted
  <2> QED BY Zenon, <2>2 DEF Is
<1> QED BY Zenon, <1>1, <1>2

LEMMA SymbolStays ==
    ASSUME NEW s \in States, NEW x \in Symbols
    PROVE  Symbol(s, x) \in States
<1>1. CASE ~s.ok
  BY Zenon, <1>1 DEF Symbol
<1>2. CASE s.ok
  <2>1. Is(s, s.out, s.buf, s.xs, s.last)
    BY Zenon, <1>2 DEF Is
  <2>2. CASE x # "x"
    <3>1. x \in Marks
      BY Zenon, <2>2 DEF Symbols, Marks
    <3>2. Is(Symbol(s, x), Spaced(s.out, s.xs, s.last), Append(s.buf, x), 0, 0)
      BY Zenon, <2>1, <3>1, MarkRead
    <3> QED BY Zenon, <3>2 DEF Is
  <2>3. CASE x = "x" /\ s.xs = 0
    <3>1. Symbol(s, x) = PrintLetter(s)
      BY Zenon, <1>2, <2>3 DEF Symbol
    <3> QED BY Zenon, <1>2, <3>1, PrintStays
  <2>4. CASE x = "x" /\ s.xs # 0
    <3>1. Is(Symbol(s, x), s.out, s.buf, s.xs + 1, 0)
      BY Zenon, <2>1, <2>4, NextX
    <3> QED BY Zenon, <3>1 DEF Is
  <2> QED BY Zenon, <2>2, <2>3, <2>4
<1> QED BY Zenon, <1>1, <1>2

LEMMA NewLineStays ==
    ASSUME NEW s \in States, s.ok
    PROVE  /\ NewLine(s) \in States
           /\ NewLine(s).ok = (IF s.buf # <<>> THEN PrintLetter(s) ELSE s).ok
<1>1. PICK p \in States : p = IF s.buf # <<>> THEN PrintLetter(s) ELSE s
  BY Zenon, PrintStays
<1>2. PICK q : q = [p EXCEPT !.out = Append(@, NEWLINE)]
  BY Zenon
<1>3. NewLine(s) = [q EXCEPT !.last = NEWLINE]
  BY Zenon, <1>1, <1>2 DEF NewLine
<1>4. q \in States /\ q.ok = p.ok
  <2>1. Append(p.out, NEWLINE) \in Seq(Nat)
    BY Zenon, FieldSet, AppendIs, Constants
  <2> QED BY Zenon, <1>2, <2>1, FieldSet
<1>5. [q EXCEPT !.last = NEWLINE] \in States /\ [q EXCEPT !.last = NEWLINE].ok = q.ok
  BY Zenon, <1>4, FieldSet, Constants
<1> QED BY Zenon, <1>1, <1>3, <1>4, <1>5

Start == [ok |-> TRUE, out |-> <<>>, buf |-> <<>>, xs |-> 0, last |-> 0]

LEMMA StartIs == Is(Start, <<>>, <<>>, 0, 0)
BY SMT DEF Is, Start, States

\* f is decrypt2's state after each character of e: it can read them all.
Decoding(t, e, f) ==
    /\ e \in Seq(Nat) /\ f \in [0..Len(e) -> States] /\ f[0] = Start
    /\ \A i \in 1..Len(e) : f[i].ok /\ Readable(t, e[i]) /\ f[i] = Decoded(t, f[i - 1], e[i])

\* decrypt2 reads e, and is in the state s then.
Decodes(t, e, s) == \E f : Decoding(t, e, f) /\ f[Len(e)] = s

LEMMA NothingDecodes ==
    ASSUME NEW t
    PROVE  Decodes(t, <<>>, Start)
<1>1. PICK f : f = [i \in 0..0 |-> Start]
  BY Zenon
<1>2. Start \in States
  BY Zenon, StartIs DEF Is
<1>3. 0 \in 0..0 /\ Len(<<>>) = 0 /\ <<>> \in Seq(Nat) /\ \A i \in 1..0 : FALSE
  BY SMT
<1>4. f \in [0..0 -> States] /\ f[0] = Start
  BY Zenon, <1>1, <1>2, <1>3
<1> QED BY Zenon, <1>3, <1>4 DEF Decodes, Decoding

\* e2 is e and N more characters; g is decrypt2's state after each of these, from s.
GoesOn(t, e, e2, s, g, N) ==
    /\ e2 \in Seq(Nat) /\ Len(e2) = Len(e) + N /\ \A i \in 1..Len(e) : e2[i] = e[i]
    /\ g \in [0..N -> States] /\ g[0] = s
    /\ \A k \in 1..N : /\ g[k].ok /\ Readable(t, e2[Len(e) + k])
                       /\ g[k] = Decoded(t, g[k - 1], e2[Len(e) + k])

\* What is read of e is read of what it begins.
LEMMA DecodingGoesOn ==
    ASSUME NEW t, NEW e, NEW e2, NEW s, NEW g, NEW N \in Nat,
           Decodes(t, e, s), GoesOn(t, e, e2, s, g, N)
    PROVE  Decodes(t, e2, g[N])
<1>0. /\ e2 \in Seq(Nat) /\ Len(e2) = Len(e) + N /\ \A i \in 1..Len(e) : e2[i] = e[i]
      /\ g \in [0..N -> States] /\ g[0] = s
      /\ \A k \in 1..N : /\ g[k].ok /\ Readable(t, e2[Len(e) + k])
                         /\ g[k] = Decoded(t, g[k - 1], e2[Len(e) + k])
  BY Zenon DEF GoesOn
<1>1. PICK f : Decoding(t, e, f) /\ f[Len(e)] = s
  BY Zenon DEF Decodes
<1>2. /\ e \in Seq(Nat) /\ f \in [0..Len(e) -> States] /\ f[0] = Start
      /\ \A i \in 1..Len(e) : f[i].ok /\ Readable(t, e[i]) /\ f[i] = Decoded(t, f[i - 1], e[i])
  BY Zenon, <1>1 DEF Decoding
<1>3. PICK L \in Nat : L = Len(e)
  BY SMT, <1>2
<1>4. PICK M \in Nat : M = L + N /\ Len(e2) = M
  BY SMT, <1>0, <1>3
<1> DEFINE h == [i \in 0..M |-> IF i <= L THEN f[i] ELSE g[i - L]]
<1>5. ASSUME NEW i \in 0..M PROVE i <= L => i \in 0..L
  BY SMT
<1>6. ASSUME NEW i \in 0..M, ~(i <= L)
      PROVE  i - L \in 1..N /\ i - L \in 0..N /\ L + (i - L) = i /\ i \in 1..M /\ i - 1 \in 0..M
             /\ (i - 1 <= L => i - 1 = L /\ i - L = 1)
             /\ (i - 1) - L = (i - L) - 1
  BY SMT, <1>4, <1>6
<1>7. h \in [0..M -> States]
  <2>1. ASSUME NEW i \in 0..M PROVE (IF i <= L THEN f[i] ELSE g[i - L]) \in States
    <3>1. CASE i <= L
      BY Zenon, <1>2, <1>3, <1>5, <3>1
    <3>2. CASE ~(i <= L)
      BY Zenon, <1>0, <1>6, <3>2
    <3> QED BY Zenon, <3>1, <3>2
  <2> QED BY Zenon, <2>1
<1>8. /\ \A i \in 0..M : i <= L => h[i] = f[i]
      /\ \A i \in 0..M : ~(i <= L) => h[i] = g[i - L]
  BY Zenon
<1> HIDE DEF h
<1>9. h[0] = Start
  <2>1. 0 \in 0..M /\ 0 <= L
    BY SMT, <1>4
  <2> QED BY Zenon, <1>2, <1>8, <2>1
<1>10. L \in 0..M /\ L <= L
  BY SMT, <1>4
<1>11. ASSUME NEW i \in 1..M
       PROVE  h[i].ok /\ Readable(t, e2[i]) /\ h[i] = Decoded(t, h[i - 1], e2[i])
  <2>1. i \in 0..M /\ i - 1 \in 0..M
    BY SMT
  <2>2. CASE i <= L
    <3>1. i \in 1..L /\ i - 1 <= L
      BY SMT, <2>2
    <3>2. h[i] = f[i] /\ h[i - 1] = f[i - 1] /\ e2[i] = e[i]
      BY Zenon, <1>0, <1>3, <1>8, <2>1, <2>2, <3>1
    <3>3. f[i].ok /\ Readable(t, e[i]) /\ f[i] = Decoded(t, f[i - 1], e[i])
      BY Zenon, <1>2, <1>3, <3>1
    <3> QED BY Zenon, <3>2, <3>3
  <2>3. CASE ~(i <= L)
    <3>1. PICK k : k = i - L
      BY Zenon
    <3>2. k \in 1..N /\ L + k = i /\ h[i] = g[k] /\ (i - 1) - L = k - 1
          /\ (i - 1 <= L => i - 1 = L /\ k = 1)
      BY Zenon, <1>6, <1>8, <2>1, <2>3, <3>1
    <3>3. g[k].ok /\ Readable(t, e2[i]) /\ g[k] = Decoded(t, g[k - 1], e2[i])
      BY Zenon, <1>0, <1>3, <3>2
    <3>4. h[i - 1] = g[k - 1]
      <4>1. CASE i - 1 <= L
        <5>1. h[i - 1] = s
          BY Zenon, <1>1, <1>3, <1>8, <1>10, <3>2, <4>1
        <5>2. k - 1 = 0
          BY SMT, <3>2, <4>1
        <5> QED BY Zenon, <1>0, <5>1, <5>2
      <4>2. CASE ~(i - 1 <= L)
        BY Zenon, <1>8, <2>1, <3>2, <4>2
      <4> QED BY Zenon, <4>1, <4>2
    <3> QED BY Zenon, <3>2, <3>3, <3>4
  <2> QED BY Zenon, <2>2, <2>3
<1>12. h[M] = g[N]
  <2>1. M \in 0..M
    BY SMT
  <2>2. CASE N = 0
    <3>1. M = L
      BY SMT, <1>4, <2>2
    <3> QED BY Zenon, <1>0, <1>1, <1>3, <1>8, <1>10, <2>2, <3>1
  <2>3. CASE N # 0
    <3>1. ~(M <= L) /\ M - L = N
      BY SMT, <1>4, <2>3
    <3> QED BY Zenon, <1>8, <2>1, <3>1
  <2> QED BY Zenon, <2>2, <2>3
<1> QED BY Zenon, <1>0, <1>4, <1>7, <1>9, <1>11, <1>12 DEF Decodes, Decoding

-----------------------------------------------------------------------------
(* Letters decrypt2 is still to read *)

\* c is q behind p.
Joined(p, q, c) ==
    /\ Len(c) = Len(p) + Len(q) /\ \A i \in 1..Len(p) : c[i] = p[i]
    /\ \A i \in 1..Len(q) : c[Len(p) + i] = q[i]

LEMMA ConcatIs ==
    ASSUME NEW D, NEW p \in Seq(D), NEW q \in Seq(D)
    PROVE  p \o q \in Seq(D) /\ Joined(p, q, p \o q)
<1>1. p \o q \in Seq(D)
  BY SMT
<1>2. Len(p \o q) = Len(p) + Len(q)
  BY SMT
<1>3. \A i \in 1..Len(p) : (p \o q)[i] = p[i]
  BY SMT
<1>4. \A i \in 1..Len(q) : (p \o q)[Len(p) + i] = q[i]
  BY SMT
<1> QED BY Zenon, <1>1, <1>2, <1>3, <1>4 DEF Joined

\* r is decrypt2's state after each of the symbols w, from s.
Runs(s, w, r) ==
    /\ r \in [0..Len(w) -> States] /\ r[0] = s
    /\ \A i \in 1..Len(w) : r[i] = Symbol(r[i - 1], w[i])

LEMMA RunExists ==
    ASSUME NEW s \in States, NEW w \in Seq(Symbols)
    PROVE  \E r : Runs(s, w, r)
<1> DEFINE step == [n \in 1..Len(w) |-> [q \in States |-> Symbol(q, w[n])]]
<1>1. Len(w) \in Nat /\ \A n \in 1..Len(w) : w[n] \in Symbols
  BY SMT
<1>2. step \in [1..Len(w) -> [States -> States]]
  BY Zenon, <1>1, SymbolStays
<1>3. PICK r \in [0..Len(w) -> States] : Unrolls(r, Len(w), s, step)
  <2> HIDE DEF step
  <2> QED BY Zenon, <1>1, <1>2, UnrollingExists
<1>4. ASSUME NEW n \in 1..Len(w) PROVE r[n] = Symbol(r[n - 1], w[n])
  <2>1. n - 1 \in 0..Len(w)
    BY SMT, <1>1
  <2>2. r[n] = step[n][r[n - 1]] /\ r[n - 1] \in States
    BY Zenon, <1>3, <2>1 DEF Unrolls
  <2> QED BY Zenon, <2>2
<1> QED BY Zenon, <1>3, <1>4 DEF Unrolls, Runs

\* What encrypt2 writes for symbols, three by three.
CodesIn(t, w) == [i \in 1..(Len(w) \div 3) |-> CodeIn(t, Triple(w, i))]
XXX == <<"x", "x", "x">>

\* decrypt2 goes from symbol to symbol through what encrypt2 writes for them.
LEMMA CodesDecode ==
    ASSUME NEW t, Permutation(t, fm_alphabet), NEW e, NEW s, Decodes(t, e, s),
           NEW w \in Seq(Symbols), NEW r, Runs(s, w, r),
           NEW N \in Nat, N = Len(w) \div 3,
           \A k \in 1..N : Triple(w, k) # XXX /\ r[3 * k].ok
    PROVE  Decodes(t, e \o CodesIn(t, w), r[3 * N]) /\ e \o CodesIn(t, w) \in Seq(Nat)
<1>1. PICK W \in Nat : W = Len(w) /\ N = W \div 3
  BY SMT
<1>2. /\ r \in [0..W -> States] /\ r[0] = s /\ \A i \in 1..W : r[i] = Symbol(r[i - 1], w[i])
      /\ \A i \in 1..W : w[i] \in Symbols
  <2>1. \A i \in 1..W : w[i] \in Symbols
    BY SMT, <1>1
  <2> QED BY Zenon, <1>1, <2>1 DEF Runs
<1>3. e \in Seq(Nat)
  BY Zenon DEF Decodes, Decoding
<1>4. ASSUME NEW k \in 1..N
      PROVE  /\ 3 * k - 2 \in 1..W /\ 3 * k - 1 \in 1..W /\ 3 * k \in 1..W
             /\ (3 * k - 2) - 1 = 3 * (k - 1) /\ (3 * k - 1) - 1 = 3 * k - 2
             /\ 3 * k \in 0..W /\ k - 1 \in 0..N /\ k \in 0..N
  BY SMT, <1>1
<1>5. ASSUME NEW k \in 1..N
      PROVE  LET c == CodeIn(t, Triple(w, k)) IN
             /\ c \in Nat /\ Readable(t, c) /\ r[3 * k] = Decoded(t, r[3 * (k - 1)], c)
  <2>1. PICK a \in Symbols : a = w[3 * k - 2]
    BY Zenon, <1>2, <1>4
  <2>2. PICK b \in Symbols : b = w[3 * k - 1]
    BY Zenon, <1>2, <1>4
  <2>3. PICK c \in Symbols : c = w[3 * k]
    BY Zenon, <1>2, <1>4
  <2>4. Triple(w, k) = <<a, b, c>>
    BY Zenon, <2>1, <2>2, <2>3 DEF Triple
  <2>5. PICK v : v = CodeIn(t, <<a, b, c>>)
    BY Zenon
  <2>6. PICK tr : tr = <<a, b, c>>
    BY Zenon
  <2>7. <<a, b, c>> # <<"x", "x", "x">>
    BY Zenon, <2>4 DEF XXX
  <2>8. v \in Nat /\ v # NEWLINE /\ Readable(t, v) /\ fractionated_table[PlaceIn(t, v)] = tr
    BY Zenon, <2>5, <2>6, <2>7, CodeReadsBack
  <2>9. tr[1] = a /\ tr[2] = b /\ tr[3] = c
    BY ONLY SMT, <2>6
  <2>10. Decoded(t, r[3 * (k - 1)], v) = Symbol(Symbol(Symbol(r[3 * (k - 1)], a), b), c)
    BY Zenon, <2>8, <2>9 DEF Decoded, Thrice
  <2>11. /\ r[3 * k - 2] = Symbol(r[3 * (k - 1)], a)
         /\ r[3 * k - 1] = Symbol(r[3 * k - 2], b)
         /\ r[3 * k] = Symbol(r[3 * k - 1], c)
    BY Zenon, <1>2, <1>4, <2>1, <2>2, <2>3
  <2> QED BY Zenon, <2>4, <2>5, <2>8, <2>10, <2>11
<1>6. PICK more : more = CodesIn(t, w)
  BY Zenon
<1>7. more \in [1..N -> Nat] /\ \A k \in 1..N : more[k] = CodeIn(t, Triple(w, k))
  BY Zenon, <1>5, <1>6 DEF CodesIn
<1>8. PICK e2 : e2 = e \o more
  BY Zenon
<1>9. /\ e2 \in Seq(Nat) /\ Len(e2) = Len(e) + N /\ \A i \in 1..Len(e) : e2[i] = e[i]
      /\ \A k \in 1..N : e2[Len(e) + k] = more[k]
  <2>1. more \in Seq(Nat) /\ Len(more) = N
    BY ONLY SMT, <1>7
  <2>2. PICK q \in Seq(Nat) : q = more /\ Len(q) = N
    BY Zenon, <2>1
  <2>3. e \o q \in Seq(Nat) /\ Joined(e, q, e \o q)
    BY ONLY Zenon, <1>3, <2>2, ConcatIs
  <2> QED BY ONLY Zenon, <1>8, <2>2, <2>3 DEF Joined
<1>10. PICK g : g = [k \in 0..N |-> r[3 * k]]
  BY Zenon
<1>11. \A k \in 0..N : 3 * k \in 0..W
  BY SMT, <1>1
<1>12. g \in [0..N -> States] /\ \A k \in 0..N : g[k] = r[3 * k]
  BY Zenon, <1>2, <1>10, <1>11
<1>13. g[0] = s /\ g[N] = r[3 * N]
  <2>1. 0 \in 0..N /\ N \in 0..N /\ 3 * 0 = 0
    BY SMT
  <2> QED BY Zenon, <1>2, <1>12, <2>1
<1>14. ASSUME NEW k \in 1..N
       PROVE  /\ g[k].ok /\ Readable(t, e2[Len(e) + k])
              /\ g[k] = Decoded(t, g[k - 1], e2[Len(e) + k])
  <2>1. g[k] = r[3 * k] /\ g[k - 1] = r[3 * (k - 1)]
    BY Zenon, <1>4, <1>12
  <2> QED BY Zenon, <1>5, <1>7, <1>9, <2>1
<1>15. Decodes(t, e2, g[N])
  <2>1. GoesOn(t, e, e2, s, g, N)
    BY Zenon, <1>9, <1>12, <1>13, <1>14 DEF GoesOn
  <2>2. Decodes(t, e, s) /\ N \in Nat
    OBVIOUS
  <2> QED BY ONLY Zenon, <2>1, <2>2, DecodingGoesOn
<1> QED BY Zenon, <1>6, <1>8, <1>9, <1>13, <1>15

LEMMA NewLineDecodes ==
    ASSUME NEW t, NEW e, NEW s, Decodes(t, e, s), s \in States, s.ok, NewLine(s).ok
    PROVE  Decodes(t, Append(e, NEWLINE), NewLine(s))
<1>1. e \in Seq(Nat)
  BY Zenon DEF Decodes, Decoding
<1>2. PICK e2 : e2 = Append(e, NEWLINE)
  BY Zenon
<1>3. /\ e2 \in Seq(Nat) /\ Len(e2) = Len(e) + 1 /\ e2[Len(e) + 1] = NEWLINE
      /\ \A i \in 1..Len(e) : e2[i] = e[i]
  BY SMT, <1>1, <1>2 DEF NEWLINE
<1>4. PICK g : g = [k \in 0..1 |-> IF k = 0 THEN s ELSE NewLine(s)]
  BY Zenon
<1>5. 0 \in 0..1 /\ 1 \in 0..1 /\ 1 # 0 /\ 1 - 1 = 0 /\ 1 \in Nat /\ \A k \in 1..1 : k = 1
  BY SMT
<1>6. NewLine(s) \in States
  BY Zenon, NewLineStays
<1>7. g[0] = s /\ g[1] = NewLine(s) /\ g \in [0..1 -> States]
  BY Zenon, <1>4, <1>5, <1>6
<1>8. Readable(t, NEWLINE) /\ Decoded(t, s, NEWLINE) = NewLine(s)
  BY Zenon DEF Readable, Decoded
<1>9. \A k \in 1..1 : /\ g[k].ok /\ Readable(t, e2[Len(e) + k])
                      /\ g[k] = Decoded(t, g[k - 1], e2[Len(e) + k])
  BY Zenon, <1>3, <1>5, <1>7, <1>8
<1>10. GoesOn(t, e, e2, s, g, 1)
  BY Zenon, <1>3, <1>7, <1>9 DEF GoesOn
<1>11. Decodes(t, e2, g[1])
  BY Zenon, <1>5, <1>10, DecodingGoesOn
<1> QED BY Zenon, <1>2, <1>7, <1>11

LEMMA DecodesIs ==
    ASSUME NEW t, NEW e, NEW s, Decodes(t, e, s)
    PROVE  e \in Seq(Nat) /\ s \in States /\ s.ok /\ (s = Start \/ Len(e) > 0)
<1>1. PICK f : Decoding(t, e, f) /\ f[Len(e)] = s
  BY Zenon DEF Decodes
<1>2. e \in Seq(Nat) /\ f \in [0..Len(e) -> States] /\ f[0] = Start
  BY Zenon, <1>1 DEF Decoding
<1>3. /\ Len(e) \in 0..Len(e)
      /\ Len(e) = 0 \/ (Len(e) > 0 /\ Len(e) \in 1..Len(e))
  BY SMT, <1>2
<1>4. s.ok
  BY Zenon, <1>1, <1>2, <1>3, StartIs DEF Decoding, Is
<1> QED BY Zenon, <1>1, <1>2, <1>3, <1>4

-----------------------------------------------------------------------------
(* A letter through encrypt2 and decrypt2 *)

HasCode(c) == c \in 33..126 /\ c <= MorseLimit /\ morse(c) # <<>>

\* v is decrypt2's state after s and the symbols encrypt2 still has in its buffer.
Fed(s, b, v) ==
    \/ b = <<>> /\ v = s
    \/ \E x \in Symbols : b = <<x>> /\ v = Symbol(s, x)
    \/ \E x, y \in Symbols : b = <<x, y>> /\ v = Symbol(Symbol(s, x), y)

\* What may be left in the buffer after a letter: nothing, the x behind it, or its last
\* mark too.
Hanging(s, b, o, c) ==
    \/ b = <<>> /\ Is(s, Append(o, c), <<>>, 1, c)
    \/ b = <<"x">> /\ Is(s, o, morse(c), 0, 0)
    \/ \E y \in Marks : b = <<y, "x">> /\ s.ok /\ Is(Symbol(s, y), o, morse(c), 0, 0)

\* A letter's code and an x behind the buffer b.
Word(b, code, w) ==
    /\ w \in Seq(Symbols) /\ Len(w) = Len(b) + Len(code) + 1
    /\ \A i \in 1..Len(b) : w[i] = b[i]
    /\ \A i \in 1..Len(code) : w[Len(b) + i] = code[i]
    /\ w[Len(w)] = "x"

LEMMA WordIs ==
    ASSUME NEW b \in Seq(Symbols), NEW code \in Seq(Marks)
    PROVE  Word(b, code, b \o code \o <<"x">>)
<1>0. PICK w : w = b \o code \o <<"x">>
  BY Zenon
<1>1. code \in Seq(Symbols) /\ <<"x">> \in Seq(Symbols)
  BY SMT DEF Marks, Symbols
<1>2. PICK q \in Seq(Symbols) : q = b \o code
  BY Zenon, <1>1, ConcatIs
<1>3. Joined(b, code, q)
  BY Zenon, <1>1, <1>2, ConcatIs
<1>4. /\ Len(q) = Len(b) + Len(code)
      /\ \A i \in 1..Len(b) : q[i] = b[i]
      /\ \A i \in 1..Len(code) : q[Len(b) + i] = code[i]
  BY Zenon, <1>3 DEF Joined
<1>5. w = Append(q, "x")
  <2>1. w = q \o <<"x">>
    BY Zenon, <1>0, <1>2
  <2> QED BY ONLY SMT, <2>1
<1>6. "x" \in Symbols
  BY SMT DEF Symbols
<1>7. w \in Seq(Symbols) /\ Len(w) = Len(q) + 1 /\ w[Len(w)] = "x" /\ \A i \in 1..Len(q) : w[i] = q[i]
  BY ONLY SMT, <1>5, <1>6
<1>8. /\ \A i \in 1..Len(b) : i \in 1..Len(q)
      /\ \A i \in 1..Len(code) : Len(b) + i \in 1..Len(q)
  BY SMT, <1>4
<1> QED BY Zenon, <1>0, <1>4, <1>7, <1>8 DEF Word

\* Behind the buffer, the run reads the marks of the letter one after the other.
LEMMA MarksRead ==
    ASSUME NEW b \in Seq(Symbols), NEW code \in Seq(Marks), NEW w, Word(b, code, w),
           NEW s, NEW r, Runs(s, w, r),
           NEW o, NEW xs, NEW l, Is(r[Len(b)], o, <<>>, xs, l)
    PROVE  \A j \in 1..Len(code) : Is(r[Len(b) + j], Spaced(o, xs, l), SubSeq(code, 1, j), 0, 0)
<1>1. PICK B \in Nat : B = Len(b)
  BY SMT
<1>2. PICK L \in Nat : L = Len(code)
  BY SMT
<1>3. /\ Len(w) = B + L + 1 /\ \A i \in 1..L : w[B + i] = code[i]
  BY Zenon, <1>1, <1>2 DEF Word
<1>4. PICK O : O = Spaced(o, xs, l)
  BY Zenon
<1> DEFINE S == {j \in 0..L : j # 0 => Is(r[B + j], O, SubSeq(code, 1, j), 0, 0)}
<1>5. 0 \in S
  BY SMT
<1>6. ASSUME NEW j \in 0..L, j \in S /\ j < L PROVE j + 1 \in S
  <2>1. PICK k : k = j + 1
    BY Zenon
  <2>2. k \in 1..L /\ k \in 0..L /\ B + k \in 1..(B + L + 1) /\ (B + k) - 1 = B + j
    BY SMT, <1>6, <2>1
  <2>3. code[k] \in Marks
    BY SMT, <1>2, <2>2
  <2>4. r[B + k] = Symbol(r[B + j], code[k])
    BY Zenon, <1>3, <2>2 DEF Runs
  <2>5. CASE j = 0
    <3>1. Is(r[B], o, <<>>, xs, l) /\ B + j = B
      BY SMT, <1>1, <2>5
    <3>2. Is(Symbol(r[B], code[k]), O, Append(<<>>, code[k]), 0, 0)
      BY Zenon, <1>1, <1>4, <2>3, MarkRead
    <3>3. Append(<<>>, code[k]) = SubSeq(code, 1, k)
      <4>1. k = 1
        BY SMT, <2>1, <2>5
      <4> QED BY SMT, <1>2, <2>2, <4>1
    <3>4. Is(r[B + k], O, SubSeq(code, 1, k), 0, 0)
      BY Zenon, <2>4, <3>1, <3>2, <3>3
    <3> QED BY Zenon, <2>1, <2>2, <3>4
  <2>6. CASE j # 0
    <3>1. Is(r[B + j], O, SubSeq(code, 1, j), 0, 0)
      BY Zenon, <1>6, <2>6
    <3>2. Is(Symbol(r[B + j], code[k]), Spaced(O, 0, 0), Append(SubSeq(code, 1, j), code[k]), 0, 0)
      BY Zenon, <2>3, <3>1, MarkRead
    <3>3. Spaced(O, 0, 0) = O
      BY SMT DEF Spaced
    <3>4. Append(SubSeq(code, 1, j), code[k]) = SubSeq(code, 1, k)
      BY SMT, <1>2, <2>1, <2>2
    <3>5. Is(r[B + k], O, SubSeq(code, 1, k), 0, 0)
      BY Zenon, <2>4, <3>2, <3>3, <3>4
    <3> QED BY Zenon, <2>1, <2>2, <3>5
  <2> QED BY Zenon, <2>5, <2>6
<1>7. \A j \in 0..L : j \in S
  <2> HIDE DEF S
  <2> QED BY Zenon, <1>5, <1>6, InductTo
<1>8. \A j \in 1..L : j \in 0..L /\ j # 0
  BY SMT
<1> QED BY Zenon, <1>1, <1>2, <1>4, <1>7, <1>8

\* With no more than two symbols before it, no three symbols of the word are x.
LEMMA NoXXX ==
    ASSUME NEW b \in Seq(Symbols), Len(b) \in 0..2,
           NEW code \in Seq(Marks), Len(code) \in 1..6, NEW w, Word(b, code, w),
           NEW k \in 1..(Len(w) \div 3)
    PROVE  Triple(w, k) # XXX
<1>1. PICK B \in 0..2 : B = Len(b)
  BY Zenon
<1>2. PICK L \in 1..6 : L = Len(code)
  BY Zenon
<1>3. Len(w) = B + L + 1 /\ \A i \in 1..L : w[B + i] = code[i]
  BY Zenon, <1>1, <1>2 DEF Word
<1>4. ASSUME NEW p \in {3 * k - 2, 3 * k - 1, 3 * k}, p \in (B + 1)..(B + L)
      PROVE  Triple(w, k) # XXX
  <2>1. p - B \in 1..L /\ B + (p - B) = p
    BY SMT, <1>4
  <2>2. w[p] = code[p - B]
    BY Zenon, <1>3, <2>1
  <2>3. code[p - B] \in Marks
    BY SMT, <1>2, <2>1
  <2>4. w[p] # "x"
    BY SMT, <2>2, <2>3 DEF Marks
  <2>5. Triple(w, k) = XXX => w[3 * k - 2] = "x" /\ w[3 * k - 1] = "x" /\ w[3 * k] = "x"
    <3>1. PICK a1 : a1 = w[3 * k - 2]
      BY Zenon
    <3>2. PICK a2 : a2 = w[3 * k - 1]
      BY Zenon
    <3>3. PICK a3 : a3 = w[3 * k]
      BY Zenon
    <3>4. <<a1, a2, a3>> = <<"x", "x", "x">> => a1 = "x" /\ a2 = "x" /\ a3 = "x"
      BY ONLY SMT
    <3> QED BY Zenon, <3>1, <3>2, <3>3, <3>4 DEF Triple, XXX
  <2> QED BY Zenon, <1>4, <2>4, <2>5
<1>5. CASE 3 * k - 2 > B
  <2>1. 3 * k - 2 \in (B + 1)..(B + L)
    BY SMT, <1>3, <1>5
  <2> QED BY Zenon, <1>4, <2>1
<1>6. CASE ~(3 * k - 2 > B)
  <2>1. k = 1 /\ B + 1 \in {3 * k - 2, 3 * k - 1, 3 * k} /\ B + 1 \in (B + 1)..(B + L)
    BY SMT, <1>3, <1>6
  <2> QED BY Zenon, <1>4, <2>1
<1> QED BY Zenon, <1>5, <1>6

LEMMA FedIs ==
    ASSUME NEW s, NEW b, NEW v, Fed(s, b, v)
    PROVE  b \in Seq(Symbols) /\ Len(b) \in 0..2
<1>1. CASE b = <<>>
  BY SMT, <1>1
<1>2. ASSUME NEW x \in Symbols, b = <<x>> PROVE b \in Seq(Symbols) /\ Len(b) \in 0..2
  BY SMT, <1>2
<1>3. ASSUME NEW x \in Symbols, NEW y \in Symbols, b = <<x, y>>
      PROVE  b \in Seq(Symbols) /\ Len(b) \in 0..2
  BY SMT, <1>3
<1> QED BY Zenon, <1>1, <1>2, <1>3 DEF Fed

\* A run over what begins with b is fed with it.
LEMMA RunFeeds ==
    ASSUME NEW s, NEW b, NEW v, Fed(s, b, v), NEW w, NEW r, Runs(s, w, r),
           Len(w) \in Nat, Len(b) < Len(w), \A i \in 1..Len(b) : w[i] = b[i]
    PROVE  r[Len(b)] = v
<1>1. r[0] = s /\ \A i \in 1..Len(w) : r[i] = Symbol(r[i - 1], w[i])
  BY Zenon DEF Runs
<1>2. CASE b = <<>> /\ v = s
  <2>1. Len(b) = 0
    BY SMT, <1>2
  <2> QED BY Zenon, <1>1, <1>2, <2>1
<1>3. ASSUME NEW x \in Symbols, b = <<x>>, v = Symbol(s, x) PROVE r[Len(b)] = v
  <2>1. Len(b) = 1 /\ b[1] = x
    BY ONLY SMT, <1>3
  <2>2. 1 \in 1..Len(w) /\ 1 - 1 = 0 /\ 1 \in 1..Len(b)
    BY SMT, <2>1
  <2>3. r[1] = Symbol(r[0], w[1]) /\ w[1] = x
    BY Zenon, <1>1, <2>1, <2>2
  <2> QED BY Zenon, <1>1, <1>3, <2>1, <2>3
<1>4. ASSUME NEW x \in Symbols, NEW y \in Symbols, b = <<x, y>>, v = Symbol(Symbol(s, x), y)
      PROVE  r[Len(b)] = v
  <2>1. Len(b) = 2 /\ b[1] = x /\ b[2] = y
    BY ONLY SMT, <1>4
  <2>2. 1 \in 1..Len(w) /\ 1 - 1 = 0 /\ 1 \in 1..Len(b) /\ 2 \in 1..Len(w) /\ 2 - 1 = 1 /\ 2 \in 1..Len(b)
    BY SMT, <2>1
  <2>3. r[1] = Symbol(r[0], w[1]) /\ w[1] = x /\ r[2] = Symbol(r[1], w[2]) /\ w[2] = y
    BY Zenon, <1>1, <2>1, <2>2
  <2> QED BY Zenon, <1>1, <1>4, <2>1, <2>3
<1> QED BY Zenon, <1>2, <1>3, <1>4 DEF Fed

LEMMA RestIs ==
    ASSUME NEW w \in Seq(Symbols), NEW N \in Nat, N = Len(w) \div 3
    PROVE  /\ Len(w) = 3 * N => Rest(w) = <<>>
           /\ Len(w) = 3 * N + 1 => Rest(w) = <<w[Len(w)]>>
           /\ Len(w) = 3 * N + 2 => Rest(w) = <<w[Len(w) - 1], w[Len(w)]>>
           /\ Len(w) \in {3 * N, 3 * N + 1, 3 * N + 2}
<1>1. PICK W \in Nat : W = Len(w)
  BY SMT
<1>2. N = W \div 3
  BY SMT, <1>1
<1>3. Rest(w) = SubSeq(w, 3 * N + 1, W)
  BY Zenon, <1>1 DEF Rest
<1>4. W \in {3 * N, 3 * N + 1, 3 * N + 2}
  BY ONLY SMT, <1>2
<1>5. CASE W = 3 * N
  <2>1. SubSeq(w, 3 * N + 1, W) = <<>>
    BY SMT, <1>1, <1>5
  <2>2. W # 3 * N + 1 /\ W # 3 * N + 2
    BY SMT, <1>5
  <2> QED BY Zenon, <1>1, <1>3, <1>4, <1>5, <2>1, <2>2
<1>6. CASE W = 3 * N + 1
  <2>1. SubSeq(w, W, W) = <<w[W]>>
    <3>1. W \in 1..W /\ W \in 1..Len(w)
      BY SMT, <1>1, <1>6
    <3>2. PICK q : q = SubSeq(w, W, W)
      BY Zenon
    <3>3. q \in Seq(Symbols) /\ Len(q) = 1
      BY ONLY SMT, <3>1, <3>2
    <3>4. q[1] = w[W]
      BY ONLY SMT, <3>1, <3>2
    <3>5. q = <<q[1]>>
      BY ONLY SMT, <3>3
    <3> QED BY Zenon, <3>2, <3>4, <3>5
  <2>2. W # 3 * N /\ W # 3 * N + 2
    BY SMT, <1>6
  <2> QED BY Zenon, <1>1, <1>3, <1>4, <1>6, <2>1, <2>2
<1>7. CASE W = 3 * N + 2
  <2>1. SubSeq(w, W - 1, W) = <<w[W - 1], w[W]>>
    <3>1. W \in 1..Len(w) /\ W - 1 \in 1..Len(w) /\ W <= Len(w)
      BY SMT, <1>1, <1>7
    <3>2. PICK q : q = SubSeq(w, W - 1, W)
      BY Zenon
    <3>3. q \in Seq(Symbols) /\ Len(q) = 2
      BY ONLY SMT, <3>1, <3>2
    <3>4. q[1] = w[W - 1] /\ q[2] = w[W]
      BY ONLY SMT, <3>1, <3>2
    <3>5. q = <<q[1], q[2]>>
      BY ONLY SMT, <3>3
    <3> QED BY Zenon, <3>2, <3>4, <3>5
  <2>2. W # 3 * N /\ W # 3 * N + 1 /\ W - 1 = 3 * N + 1
    BY SMT, <1>7
  <2> QED BY Zenon, <1>1, <1>3, <1>4, <1>7, <2>1, <2>2
<1> QED BY Zenon, <1>4, <1>5, <1>6, <1>7

\* Wherever encrypt2 is in its buffer, decrypt2 gets the letter it adds.
LEMMA LetterCoded ==
    ASSUME NEW t, Permutation(t, fm_alphabet), NEW e, NEW s, Decodes(t, e, s),
           NEW b, NEW v, Fed(s, b, v), NEW o, NEW xs, NEW l, Is(v, o, <<>>, xs, l),
           NEW c, HasCode(c), NEW w, Word(b, morse(c), w)
    PROVE  \E s2 : /\ Decodes(t, e \o CodesIn(t, w), s2)
                   /\ Hanging(s2, Rest(w), Spaced(o, xs, l), c)
<1>1. PICK code : code = morse(c)
  BY Zenon
<1>2. PICK O : O = Spaced(o, xs, l)
  BY Zenon
<1>3. /\ Coded(code) # {} /\ Letter(code) = c /\ code \in Seq(Marks) /\ Len(code) \in 1..6
  BY Zenon, <1>1, LettersReadBack DEF HasCode, IsCode
<1>4. b \in Seq(Symbols) /\ Len(b) \in 0..2
  BY Zenon, FedIs
<1>5. PICK B \in 0..2 : B = Len(b)
  BY Zenon, <1>4
<1>6. PICK L \in 1..6 : L = Len(code)
  BY Zenon, <1>3
<1>7. /\ Word(b, code, w) /\ w \in Seq(Symbols) /\ Len(w) = B + L + 1
      /\ (\A i \in 1..B : w[i] = b[i]) /\ (\A i \in 1..L : w[B + i] = code[i])
      /\ w[Len(w)] = "x"
  BY Zenon, <1>1, <1>5, <1>6 DEF Word
<1>8. PICK W : W = B + L + 1 /\ W = Len(w) /\ W \in Nat /\ B < W
  BY SMT, <1>7
<1>9. PICK r : Runs(s, w, r)
  BY Zenon, <1>7, DecodesIs, RunExists
<1>10. r[B] = v
  <2>1. Len(w) \in Nat /\ Len(b) < Len(w)
    BY Zenon, <1>5, <1>8
  <2>2. \A i \in 1..Len(b) : w[i] = b[i]
    BY Zenon, <1>5, <1>7
  <2>3. r[Len(b)] = v
    BY Zenon, <1>9, <2>1, <2>2, RunFeeds
  <2> QED BY Zenon, <1>5, <2>3
<1>11. \A j \in 1..L : Is(r[B + j], O, SubSeq(code, 1, j), 0, 0)
  <2>1. Is(r[Len(b)], o, <<>>, xs, l)
    BY Zenon, <1>5, <1>10
  <2> QED BY Zenon, <1>2, <1>3, <1>4, <1>5, <1>6, <1>7, <1>9, <2>1, MarksRead
<1>12. Is(r[W - 1], O, code, 0, 0)
  <2>1. W - 1 = B + L /\ L \in 1..L
    BY SMT, <1>8
  <2>2. SubSeq(code, 1, L) = code
    BY SMT, <1>3, <1>6
  <2> QED BY Zenon, <1>11, <2>1, <2>2
<1>13. r[W] = Symbol(r[W - 1], "x") /\ (W - 1 >= 1 => r[W - 1] = Symbol(r[W - 2], w[W - 1]))
  <2>1. W \in 1..W /\ (W - 1 >= 1 => W - 1 \in 1..W /\ (W - 1) - 1 = W - 2)
    BY SMT, <1>8
  <2> QED BY Zenon, <1>7, <1>8, <1>9, <2>1 DEF Runs
<1>14. Is(r[W], Append(O, c), <<>>, 1, c)
  BY Zenon, <1>3, <1>12, <1>13, FirstX
<1>15. PICK N \in Nat : N = W \div 3
  BY SMT, <1>8
<1>16. ASSUME NEW k \in 1..N PROVE Triple(w, k) # XXX /\ r[3 * k].ok
  <2>1. k \in 1..(Len(w) \div 3)
    BY Zenon, <1>8, <1>15
  <2>2. Triple(w, k) # XXX
    BY Zenon, <1>3, <1>4, <1>7, <2>1, NoXXX
  <2>3. CASE 3 * k = W
    <3>1. r[W].ok
      BY Zenon, <1>14 DEF Is
    <3> QED BY Zenon, <2>2, <2>3, <3>1
  <2>4. CASE 3 * k # W
    <3>1. 3 * k - B \in 1..L /\ B + (3 * k - B) = 3 * k
      BY SMT, <1>8, <1>15, <2>4
    <3>2. Is(r[3 * k], O, SubSeq(code, 1, 3 * k - B), 0, 0)
      BY Zenon, <1>11, <3>1
    <3> QED BY Zenon, <2>2, <3>2 DEF Is
  <2> QED BY Zenon, <2>2, <2>3, <2>4
<1>17. PICK s2 : s2 = r[3 * N]
  BY Zenon
<1>18. Decodes(t, e \o CodesIn(t, w), s2)
  <2>1. N = Len(w) \div 3
    BY Zenon, <1>8, <1>15
  <2> QED BY Zenon, <1>7, <1>9, <1>16, <1>17, <2>1, CodesDecode
<1>19. s2.ok
  BY Zenon, <1>18, DecodesIs
<1>20. /\ W = 3 * N => Rest(w) = <<>>
       /\ W = 3 * N + 1 => Rest(w) = <<"x">>
       /\ W = 3 * N + 2 => Rest(w) = <<w[W - 1], "x">>
       /\ W \in {3 * N, 3 * N + 1, 3 * N + 2}
  <2>1. N = Len(w) \div 3
    BY Zenon, <1>8, <1>15
  <2> QED BY Zenon, <1>7, <1>8, <2>1, RestIs
<1>21. CASE W = 3 * N
  <2>1. s2 = r[W]
    BY Zenon, <1>17, <1>21
  <2> QED BY Zenon, <1>2, <1>14, <1>18, <1>20, <1>21, <2>1 DEF Hanging
<1>22. CASE W = 3 * N + 1
  <2>1. W - 1 = 3 * N
    BY SMT, <1>22
  <2>2. Is(s2, O, code, 0, 0)
    BY Zenon, <1>12, <1>17, <2>1
  <2> QED BY Zenon, <1>1, <1>2, <1>18, <1>20, <1>22, <2>2 DEF Hanging
<1>23. CASE W = 3 * N + 2
  <2>1. W - 2 = 3 * N /\ W - 1 >= 1 /\ B + L = W - 1 /\ L \in 1..L
    BY SMT, <1>8, <1>23
  <2>2. w[W - 1] \in Marks
    <3>1. code[L] \in Marks
      BY SMT, <1>3, <1>6
    <3> QED BY Zenon, <1>7, <2>1, <3>1
  <2>3. Is(Symbol(s2, w[W - 1]), O, code, 0, 0)
    BY Zenon, <1>12, <1>13, <1>17, <2>1
  <2>4. Hanging(s2, Rest(w), O, c)
    BY Zenon, <1>1, <1>19, <1>20, <1>23, <2>2, <2>3 DEF Hanging
  <2> QED BY Zenon, <1>2, <1>18, <2>4
<1> QED BY Zenon, <1>20, <1>21, <1>22, <1>23

\* Fewer than three symbols stay in the buffer.
LEMMA ShortCodes ==
    ASSUME NEW t, NEW e \in Seq(Nat), NEW w \in Seq(Symbols), Len(w) < 3
    PROVE  e \o CodesIn(t, w) = e /\ Rest(w) = w
<1>1. PICK N : N = Len(w) \div 3
  BY Zenon
<1>2. N = 0
  BY SMT, <1>1
<1>3. CodesIn(t, w) = <<>>
  <2>1. 1..N = {}
    BY SMT, <1>2
  <2>2. PICK q : q = CodesIn(t, w)
    BY Zenon
  <2>3. q \in [1..0 -> Nat]
    <3>1. \A i \in 1..N : FALSE
      BY Zenon, <2>1
    <3>2. q \in [1..N -> Nat]
      BY Zenon, <1>1, <2>2, <3>1 DEF CodesIn
    <3> QED BY Zenon, <1>2, <3>2
  <2>4. q = <<>>
    BY ONLY SMT, <2>3
  <2> QED BY Zenon, <2>2, <2>4
<1>4. e \o <<>> = e
  BY SMT
<1>5. SubSeq(w, 3 * 0 + 1, Len(w)) = w
  BY SMT
<1> QED BY Zenon, <1>1, <1>2, <1>3, <1>4, <1>5 DEF Rest

\* What may be in the buffer after a letter and a blank.
Waiting(s, b, o, c) ==
    \/ b = <<>> /\ Is(s, Append(o, c), <<>>, 2, 0)
    \/ b = <<"x">> /\ Is(s, Append(o, c), <<>>, 1, c)
    \/ b = <<"x", "x">> /\ Is(s, o, morse(c), 0, 0)

\* decrypt2's state when a line's last letter is written: it has printed the letter, or
\* has all its marks.
Over(s, o, c) ==
    \/ \E xs \in 1..2 : \E l \in Nat : Is(s, Append(o, c), <<>>, xs, l)
    \/ Is(s, o, morse(c), 0, 0)

LEMMA XFollows ==
    ASSUME NEW s, NEW o, NEW c, HasCode(c)
    PROVE  /\ Is(s, o, morse(c), 0, 0) => Is(Symbol(s, "x"), Append(o, c), <<>>, 1, c)
           /\ Is(s, o, <<>>, 1, c) => Is(Symbol(s, "x"), o, <<>>, 2, 0)
<1>1. Coded(morse(c)) # {} /\ Letter(morse(c)) = c
  BY Zenon, LettersReadBack DEF HasCode
<1>2. Is(s, o, morse(c), 0, 0) => Is(Symbol(s, "x"), Append(o, c), <<>>, 1, c)
  BY Zenon, <1>1, FirstX
<1>3. Is(s, o, <<>>, 1, c) => Is(Symbol(s, "x"), o, <<>>, 2, 0)
  <2>1. 1 # 0 /\ 1 + 1 = 2
    BY SMT
  <2>2. Is(s, o, <<>>, 1, c) => Is(Symbol(s, "x"), o, <<>>, 1 + 1, 0)
    BY Zenon, <2>1, NextX
  <2> QED BY Zenon, <2>1, <2>2
<1> QED BY Zenon, <1>2, <1>3

\* A letter's last mark and two x are one letter more.
LEMMA LastThree ==
    ASSUME NEW t, Permutation(t, fm_alphabet), NEW e, NEW s, Decodes(t, e, s),
           NEW y \in Marks, NEW o, NEW c, HasCode(c), Is(Symbol(s, y), o, morse(c), 0, 0)
    PROVE  LET w == <<y, "x", "x">> IN
           /\ \E s2 : Decodes(t, e \o CodesIn(t, w), s2) /\ Is(s2, Append(o, c), <<>>, 2, 0)
           /\ w \in Seq(Symbols) /\ Len(w) = 3 /\ w # XXX /\ Rest(w) = <<>>
<1>1. PICK w : w = <<y, "x", "x">>
  BY Zenon
<1>2. /\ w \in Seq(Symbols) /\ Len(w) = 3 /\ w[1] = y /\ w[2] = "x" /\ w[3] = "x" /\ w # XXX
  BY SMT, <1>1 DEF Symbols, Marks, XXX
<1>3. PICK r : Runs(s, w, r)
  BY Zenon, <1>2, DecodesIs, RunExists
<1>4. r[1] = Symbol(s, y) /\ r[2] = Symbol(r[1], "x") /\ r[3] = Symbol(r[2], "x")
  <2>1. 1 \in 1..3 /\ 2 \in 1..3 /\ 3 \in 1..3 /\ 1 - 1 = 0 /\ 2 - 1 = 1 /\ 3 - 1 = 2
    BY SMT
  <2> QED BY Zenon, <1>2, <1>3, <2>1 DEF Runs
<1>5. Is(r[3], Append(o, c), <<>>, 2, 0)
  BY Zenon, <1>4, XFollows
<1>6. Len(w) \div 3 = 1 /\ 3 * 1 = 3 /\ 1 \in Nat /\ \A k \in 1..1 : k = 1
  BY SMT, <1>2
<1>7. Triple(w, 1) = w
  <2>1. 3 * 1 - 2 = 1 /\ 3 * 1 - 1 = 2
    BY SMT
  <2> QED BY Zenon, <1>1, <1>2, <1>6, <2>1 DEF Triple
<1>8. \A k \in 1..1 : Triple(w, k) # XXX /\ r[3 * k].ok
  BY Zenon, <1>2, <1>5, <1>6, <1>7 DEF Is
<1>9. Decodes(t, e \o CodesIn(t, w), r[3 * 1])
  BY Zenon, <1>2, <1>3, <1>6, <1>8, CodesDecode
<1>10. Rest(w) = <<>>
  BY Zenon, <1>2, <1>6, RestIs
<1> QED BY Zenon, <1>1, <1>2, <1>5, <1>6, <1>9, <1>10

LEMMA TupleIs ==
    ASSUME NEW D, NEW q \in Seq(D)
    PROVE  /\ Len(q) = 2 => q = <<q[1], q[2]>>
           /\ Len(q) = 3 => q = <<q[1], q[2], q[3]>>
<1>1. Len(q) = 2 => q = <<q[1], q[2]>>
  BY SMT
<1>2. Len(q) = 3 => q = <<q[1], q[2], q[3]>>
  BY SMT
<1> QED BY Zenon, <1>1, <1>2

LEMMA AppendTuple ==
    ASSUME NEW D, NEW x \in D, NEW y \in D, NEW z \in D
    PROVE  Append(<<y>>, x) = <<y, x>> /\ Append(<<y, z>>, x) = <<y, z, x>>
<1>1. Append(<<y>>, x) = <<y, x>>
  <2>1. PICK q : q = Append(<<y>>, x)
    BY Zenon
  <2>2. q \in Seq(D) /\ Len(q) = 2
    BY SMT, <2>1
  <2>3. q[1] = y /\ q[2] = x
    BY SMT, <2>1
  <2> QED BY Zenon, <2>1, <2>2, <2>3, TupleIs
<1>2. Append(<<y, z>>, x) = <<y, z, x>>
  <2>1. PICK q : q = Append(<<y, z>>, x)
    BY Zenon
  <2>2. q \in Seq(D) /\ Len(q) = 3
    BY SMT, <2>1
  <2>3. q[1] = y /\ q[2] = z /\ q[3] = x
    BY SMT, <2>1
  <2> QED BY Zenon, <2>1, <2>2, <2>3, TupleIs
<1> QED BY Zenon, <1>1, <1>2

LEMMA XIsSymbol ==
    /\ "x" \in Symbols /\ <<"x">> \in Seq(Symbols) /\ <<"x", "x">> \in Seq(Symbols)
    /\ <<>> \in Seq(Symbols) /\ Len(<<>>) = 0 /\ Len(<<"x">>) = 1 /\ Len(<<"x", "x">>) = 2
    /\ <<"x">> # <<>> /\ <<"x", "x">> # <<>>
    /\ Append(<<>>, "x") = <<"x">> /\ Append(<<"x">>, "x") = <<"x", "x">>
    /\ \A y \in Marks : /\ Append(<<y, "x">>, "x") = <<y, "x", "x">> /\ y \in Symbols
                        /\ Len(<<y, "x">>) = 2
<1>1. "x" \in Symbols /\ Marks \subseteq Symbols
  BY Zenon DEF Symbols, Marks
<1>2. PICK x : x = "x"
  BY Zenon
<1>3. x \in Symbols /\ \A y \in Marks : y \in Symbols
  BY Zenon, <1>1, <1>2
<1>4. <<x>> \in Seq(Symbols) /\ <<x, x>> \in Seq(Symbols) /\ <<>> \in Seq(Symbols)
  BY ONLY SMT, <1>3
<1>5. Len(<<>>) = 0 /\ Len(<<x>>) = 1 /\ Len(<<x, x>>) = 2
  BY ONLY SMT
<1>6. <<x>> # <<>> /\ <<x, x>> # <<>>
  BY ONLY SMT
<1>7. Append(<<>>, x) = <<x>>
  BY ONLY SMT
<1>8. Append(<<x>>, x) = <<x, x>>
  BY Zenon, <1>3, AppendTuple
<1>9. \A y \in Marks : Append(<<y, x>>, x) = <<y, x, x>> /\ Len(<<y, x>>) = 2
  <2>1. \A y : Len(<<y, x>>) = 2
    BY ONLY SMT
  <2> QED BY Zenon, <1>3, <2>1, AppendTuple
<1> QED BY Zenon, <1>2, <1>3, <1>4, <1>5, <1>6, <1>7, <1>8, <1>9

\* The next letter finds decrypt2 behind this one and one x, or two.
LEMMA HangingFeeds ==
    ASSUME NEW s, NEW b, NEW o, NEW c, HasCode(c), Hanging(s, b, o, c)
    PROVE  \E v : Fed(s, b, v) /\ Is(v, Append(o, c), <<>>, 1, c)
<1>1. CASE b = <<>> /\ Is(s, Append(o, c), <<>>, 1, c)
  BY Zenon, <1>1 DEF Fed
<1>2. CASE b = <<"x">> /\ Is(s, o, morse(c), 0, 0)
  <2>1. Is(Symbol(s, "x"), Append(o, c), <<>>, 1, c)
    BY Zenon, <1>2, XFollows
  <2>2. Fed(s, b, Symbol(s, "x"))
    BY Zenon, <1>2, XIsSymbol DEF Fed
  <2> QED BY Zenon, <2>1, <2>2
<1>3. ASSUME NEW y \in Marks, b = <<y, "x">>, Is(Symbol(s, y), o, morse(c), 0, 0)
      PROVE  \E v : Fed(s, b, v) /\ Is(v, Append(o, c), <<>>, 1, c)
  <2>1. Is(Symbol(Symbol(s, y), "x"), Append(o, c), <<>>, 1, c)
    BY Zenon, <1>3, XFollows
  <2>2. Fed(s, b, Symbol(Symbol(s, y), "x"))
    BY Zenon, <1>3, XIsSymbol DEF Fed
  <2> QED BY Zenon, <2>1, <2>2
<1> QED BY Zenon, <1>1, <1>2, <1>3 DEF Hanging

LEMMA WaitingFeeds ==
    ASSUME NEW s, NEW b, NEW o, NEW c, HasCode(c), Waiting(s, b, o, c)
    PROVE  \E v : Fed(s, b, v) /\ Is(v, Append(o, c), <<>>, 2, 0)
<1>1. CASE b = <<>> /\ Is(s, Append(o, c), <<>>, 2, 0)
  BY Zenon, <1>1 DEF Fed
<1>2. CASE b = <<"x">> /\ Is(s, Append(o, c), <<>>, 1, c)
  <2>1. Is(Symbol(s, "x"), Append(o, c), <<>>, 2, 0)
    BY Zenon, <1>2, XFollows
  <2>2. Fed(s, b, Symbol(s, "x"))
    BY Zenon, <1>2, XIsSymbol DEF Fed
  <2> QED BY Zenon, <2>1, <2>2
<1>3. CASE b = <<"x", "x">> /\ Is(s, o, morse(c), 0, 0)
  <2>1. Is(Symbol(s, "x"), Append(o, c), <<>>, 1, c)
    BY Zenon, <1>3, XFollows
  <2>2. Is(Symbol(Symbol(s, "x"), "x"), Append(o, c), <<>>, 2, 0)
    BY Zenon, <2>1, XFollows
  <2>3. Fed(s, b, Symbol(Symbol(s, "x"), "x"))
    BY Zenon, <1>3, XIsSymbol DEF Fed
  <2> QED BY Zenon, <2>2, <2>3
<1> QED BY Zenon, <1>1, <1>2, <1>3 DEF Waiting

\* The first blank behind a letter.
LEMMA BlankCoded ==
    ASSUME NEW t, Permutation(t, fm_alphabet), NEW e, NEW s, Decodes(t, e, s),
           NEW b, NEW o, NEW c, HasCode(c), Hanging(s, b, o, c)
    PROVE  \E s2 : /\ Decodes(t, e \o CodesIn(t, Append(b, "x")), s2)
                   /\ Waiting(s2, Rest(Append(b, "x")), o, c)
<1>1. e \in Seq(Nat) /\ 1 < 3 /\ 2 < 3
  <2>1. 1 < 3 /\ 2 < 3
    BY SMT
  <2> QED BY Zenon, <2>1, DecodesIs
<1>2. CASE b = <<>> /\ Is(s, Append(o, c), <<>>, 1, c)
  <2>1. Append(b, "x") = <<"x">>
    BY Zenon, <1>2, XIsSymbol
  <2>2. e \o CodesIn(t, <<"x">>) = e /\ Rest(<<"x">>) = <<"x">>
    BY Zenon, <1>1, XIsSymbol, ShortCodes
  <2>3. Waiting(s, <<"x">>, o, c)
    BY Zenon, <1>2 DEF Waiting
  <2> QED BY Zenon, <2>1, <2>2, <2>3
<1>3. CASE b = <<"x">> /\ Is(s, o, morse(c), 0, 0)
  <2>1. Append(b, "x") = <<"x", "x">>
    BY Zenon, <1>3, XIsSymbol
  <2>2. e \o CodesIn(t, <<"x", "x">>) = e /\ Rest(<<"x", "x">>) = <<"x", "x">>
    BY Zenon, <1>1, XIsSymbol, ShortCodes
  <2>3. Waiting(s, <<"x", "x">>, o, c)
    BY Zenon, <1>3 DEF Waiting
  <2> QED BY Zenon, <2>1, <2>2, <2>3
<1>4. ASSUME NEW y \in Marks, b = <<y, "x">>, Is(Symbol(s, y), o, morse(c), 0, 0)
      PROVE  \E s2 : /\ Decodes(t, e \o CodesIn(t, Append(b, "x")), s2)
                     /\ Waiting(s2, Rest(Append(b, "x")), o, c)
  <2>1. Append(b, "x") = <<y, "x", "x">>
    BY Zenon, <1>4, XIsSymbol
  <2>2. /\ \E s2 : Decodes(t, e \o CodesIn(t, <<y, "x", "x">>), s2) /\ Is(s2, Append(o, c), <<>>, 2, 0)
        /\ Rest(<<y, "x", "x">>) = <<>>
    BY Zenon, <1>4, LastThree
  <2> QED BY Zenon, <2>1, <2>2 DEF Waiting
<1> QED BY Zenon, <1>2, <1>3, <1>4 DEF Hanging

\* A line, or the text, that ends behind a letter: a mark in the buffer is written with
\* two x, and what else is in it is not needed.
EndsWith(t, e, b, w, o, c) ==
    /\ \E s2 : Decodes(t, e \o CodesIn(t, w), s2) /\ Over(s2, o, c)
    /\ Append(b, "x") # XXX
    /\ Len(Append(b, "x")) = 3 => w = Append(b, "x")
    /\ Len(Append(b, "x")) # 3 => e \o CodesIn(t, w) = e

LEMMA HangingEnds ==
    ASSUME NEW t, Permutation(t, fm_alphabet), NEW e, NEW s, Decodes(t, e, s),
           NEW b, NEW o, NEW c, HasCode(c), Hanging(s, b, o, c),
           NEW w, w = IF Len(b) > 0 THEN Append(b, "x") ELSE b
    PROVE  EndsWith(t, e, b, w, o, c)
<1>1. /\ e \in Seq(Nat) /\ ~(0 > 0) /\ 0 < 3 /\ 1 > 0 /\ 2 > 0 /\ 2 < 3 /\ 1 # 3 /\ 2 # 3
      /\ 1 \in 1..2 /\ 2 \in 1..2 /\ <<"x">> # XXX /\ <<"x", "x">> # XXX
  <2>1. /\ ~(0 > 0) /\ 0 < 3 /\ 1 > 0 /\ 2 > 0 /\ 2 < 3 /\ 1 # 3 /\ 2 # 3
        /\ 1 \in 1..2 /\ 2 \in 1..2 /\ <<"x">> # XXX /\ <<"x", "x">> # XXX
    BY SMT DEF XXX
  <2> QED BY Zenon, <2>1, DecodesIs
<1>2. CASE b = <<>> /\ Is(s, Append(o, c), <<>>, 1, c)
  <2>1. w = <<>> /\ Append(b, "x") = <<"x">> /\ Len(<<"x">>) = 1
    BY Zenon, <1>1, <1>2, XIsSymbol
  <2>2. e \o CodesIn(t, <<>>) = e
    BY Zenon, <1>1, XIsSymbol, ShortCodes
  <2>3. Over(s, o, c)
    BY Zenon, <1>1, <1>2, StateSet DEF Over
  <2> QED BY Zenon, <1>1, <2>1, <2>2, <2>3 DEF EndsWith
<1>3. CASE b = <<"x">> /\ Is(s, o, morse(c), 0, 0)
  <2>1. w = <<"x", "x">> /\ Append(b, "x") = <<"x", "x">> /\ Len(<<"x", "x">>) = 2
    BY Zenon, <1>1, <1>3, XIsSymbol
  <2>2. e \o CodesIn(t, <<"x", "x">>) = e
    BY Zenon, <1>1, XIsSymbol, ShortCodes
  <2>3. Over(s, o, c)
    BY Zenon, <1>3 DEF Over
  <2> QED BY Zenon, <1>1, <2>1, <2>2, <2>3 DEF EndsWith
<1>4. ASSUME NEW y \in Marks, b = <<y, "x">>, Is(Symbol(s, y), o, morse(c), 0, 0)
      PROVE  /\ \E s2 : Decodes(t, e \o CodesIn(t, w), s2) /\ Over(s2, o, c)
             /\ Append(b, "x") # XXX
             /\ Len(Append(b, "x")) = 3 /\ w = Append(b, "x")
  <2>1. Append(b, "x") = <<y, "x", "x">> /\ w = <<y, "x", "x">>
    BY Zenon, <1>1, <1>4, XIsSymbol
  <2>2. /\ \E s2 : Decodes(t, e \o CodesIn(t, <<y, "x", "x">>), s2) /\ Is(s2, Append(o, c), <<>>, 2, 0)
        /\ <<y, "x", "x">> # XXX /\ Len(<<y, "x", "x">>) = 3
    BY Zenon, <1>4, LastThree
  <2>3. \A s2 : Is(s2, Append(o, c), <<>>, 2, 0) => Over(s2, o, c)
    BY Zenon, <1>1, Constants DEF Over
  <2> QED BY Zenon, <2>1, <2>2, <2>3
<1> QED BY Zenon, <1>2, <1>3, <1>4 DEF Hanging, EndsWith

StaysIn(t, e, s, b, o, c) ==
    /\ Over(s, o, c) /\ e \o CodesIn(t, b) = e /\ Rest(b) = b
    /\ Len(Append(b, "x")) = 3 => Append(b, "x") = XXX

LEMMA WaitingEnds ==
    ASSUME NEW t, NEW e, NEW s, Decodes(t, e, s),
           NEW b, NEW o, NEW c, HasCode(c), Waiting(s, b, o, c)
    PROVE  StaysIn(t, e, s, b, o, c)
<1>1. /\ e \in Seq(Nat) /\ 0 < 3 /\ 1 < 3 /\ 2 < 3 /\ 1 # 3 /\ 2 # 3
      /\ 1 \in 1..2 /\ 2 \in 1..2 /\ Append(<<"x", "x">>, "x") = XXX
  <2>1. 0 < 3 /\ 1 < 3 /\ 2 < 3 /\ 1 # 3 /\ 2 # 3 /\ 1 \in 1..2 /\ 2 \in 1..2
    BY SMT
  <2>2. Append(<<"x", "x">>, "x") = <<"x", "x", "x">>
    BY Zenon, XIsSymbol, AppendTuple
  <2> QED BY Zenon, <2>1, <2>2, DecodesIs DEF XXX
<1>2. b \in Seq(Symbols) /\ Len(b) < 3
  BY Zenon, <1>1, XIsSymbol DEF Waiting
<1>3. e \o CodesIn(t, b) = e /\ Rest(b) = b
  BY Zenon, <1>1, <1>2, ShortCodes
<1>4. Over(s, o, c)
  BY Zenon, <1>1, StateSet DEF Over, Waiting
<1>5. Len(Append(b, "x")) = 3 => Append(b, "x") = XXX
  BY Zenon, <1>1, XIsSymbol DEF Waiting
<1> QED BY Zenon, <1>3, <1>4, <1>5 DEF StaysIn

\* The new line behind it, or the end of the text, prints the letter if need be.
LEMMA OverNewLine ==
    ASSUME NEW t, NEW e, NEW s, Decodes(t, e, s), NEW o, NEW c, HasCode(c), Over(s, o, c)
    PROVE  \E s2 : /\ Decodes(t, Append(e, NEWLINE), s2)
                   /\ \E xs \in 1..2 : Is(s2, Append(Append(o, c), NEWLINE), <<>>, xs, NEWLINE)
<1>1. \E xs \in 1..2 : Is(NewLine(s), Append(Append(o, c), NEWLINE), <<>>, xs, NEWLINE)
  <2>1. ASSUME NEW xs \in 1..2, NEW l \in Nat, Is(s, Append(o, c), <<>>, xs, l)
        PROVE  Is(NewLine(s), Append(Append(o, c), NEWLINE), <<>>, xs, NEWLINE)
    BY Zenon, <2>1, NewLineAfter
  <2>2. ASSUME Is(s, o, morse(c), 0, 0)
        PROVE  Is(NewLine(s), Append(Append(o, c), NEWLINE), <<>>, 1, NEWLINE)
    <3>1. Coded(morse(c)) # {} /\ Letter(morse(c)) = c /\ morse(c) # <<>>
      BY Zenon, LettersReadBack DEF HasCode
    <3>2. Is(NewLine(s), Append(Append(o, c), NEWLINE), <<>>, 0 + 1, NEWLINE)
      BY Zenon, <2>2, <3>1, NewLineWithin
    <3>3. 0 + 1 = 1
      BY SMT
    <3> QED BY Zenon, <3>2, <3>3
  <2>3. 1 \in 1..2
    BY SMT
  <2> QED BY Zenon, <2>1, <2>2, <2>3 DEF Over
<1>2. NewLine(s).ok
  BY Zenon, <1>1 DEF Is
<1>3. Decodes(t, Append(e, NEWLINE), NewLine(s))
  BY Zenon, <1>2, DecodesIs, NewLineDecodes
<1> QED BY Zenon, <1>1, <1>3

\* decrypt2 at the end of e.
Answer(e, s) == IF Len(e) > 0 /\ s.xs = 0 THEN PrintLetter(s) ELSE s
Answers(e, s, o) == Answer(e, s).ok /\ Answer(e, s).out = o

LEMMA OverAnswers ==
    ASSUME NEW t, NEW e, NEW s, Decodes(t, e, s), NEW o, NEW c, HasCode(c), Over(s, o, c)
    PROVE  Answers(e, s, Append(o, c))
<1>1. ASSUME NEW xs \in 1..2, NEW l \in Nat, Is(s, Append(o, c), <<>>, xs, l)
      PROVE  Answers(e, s, Append(o, c))
  <2>1. s.xs # 0
    <3>1. xs # 0
      BY SMT
    <3> QED BY Zenon, <1>1, <3>1 DEF Is
  <2> QED BY Zenon, <1>1, <2>1 DEF Is, Answer, Answers
<1>2. ASSUME Is(s, o, morse(c), 0, 0)
      PROVE  Answers(e, s, Append(o, c))
  <2>1. Coded(morse(c)) # {} /\ Letter(morse(c)) = c /\ morse(c) # <<>>
    BY Zenon, LettersReadBack DEF HasCode
  <2>2. Is(PrintLetter(s), Append(o, c), <<>>, 0 + 1, c)
    BY Zenon, <1>2, <2>1, LetterPrinted
  <2>4. Len(e) > 0
    <3>1. s.buf # <<>>
      BY Zenon, <1>2, <2>1 DEF Is
    <3>2. Start.buf = <<>>
      BY Zenon, StartIs DEF Is
    <3>3. e \in Seq(Nat) /\ s \in States /\ s.ok /\ (s = Start \/ Len(e) > 0)
      BY DecodesIs
    <3> QED BY ONLY Zenon, <3>1, <3>2, <3>3
  <2>5. Answer(e, s) = PrintLetter(s)
    BY Zenon, <1>2, <2>4 DEF Answer, Is
  <2> QED BY Zenon, <2>2, <2>5 DEF Is, Answers
<1> QED BY Zenon, <1>1, <1>2 DEF Over

-----------------------------------------------------------------------------
(* What fractionated Morse keeps of a message *)

\* A letter follows the blank at i on its line.
Follows(m, i) ==
    \E j \in (i + 1)..Len(m) : ~White(m[j]) /\ \A k \in i..j : m[k] # NEWLINE
Separates(m, i) == i > 1 /\ ~White(m[i - 1]) /\ Follows(m, i)

\* h is what is kept of each beginning of m.
Keeps(m, h) ==
    h = [n \in 0..Len(m) |->
            IF n = 0 THEN <<>>
            ELSE IF m[n] \notin Blank THEN Append(h[n - 1], m[n])
            ELSE IF Separates(m, n) THEN Append(h[n - 1], SPACE)
            ELSE h[n - 1]]
Kept(m) == CHOOSE h : Keeps(m, h)

LEMMA NormalIs ==
    ASSUME NEW m
    PROVE  Normal(m) = Kept(m)[Len(m)]
BY Zenon DEF Normal, Kept, Keeps, Separates, Follows

LEMMA KeptIs ==
    ASSUME NEW m \in Seq(Nat)
    PROVE  /\ Kept(m) \in [0..Len(m) -> Seq(Nat)] /\ Kept(m)[0] = <<>>
           /\ \A n \in 1..Len(m) :
                 Kept(m)[n] = IF m[n] \notin Blank THEN Append(Kept(m)[n - 1], m[n])
                              ELSE IF Separates(m, n) THEN Append(Kept(m)[n - 1], SPACE)
                              ELSE Kept(m)[n - 1]
<1> DEFINE s == [n \in 1..Len(m) |-> [q \in Seq(Nat) |->
                    IF m[n] \notin Blank THEN Append(q, m[n])
                    ELSE IF Separates(m, n) THEN Append(q, SPACE) ELSE q]]
<1>1. Len(m) \in Nat /\ \A n \in 1..Len(m) : m[n] \in Nat
  BY SMT
<1>2. s \in [1..Len(m) -> [Seq(Nat) -> Seq(Nat)]]
  <2>1. ASSUME NEW n \in 1..Len(m), NEW q \in Seq(Nat)
        PROVE  (IF m[n] \notin Blank THEN Append(q, m[n])
                ELSE IF Separates(m, n) THEN Append(q, SPACE) ELSE q) \in Seq(Nat)
    <3>1. Append(q, m[n]) \in Seq(Nat) /\ Append(q, SPACE) \in Seq(Nat)
      BY Zenon, <1>1, AppendIs, Constants
    <3> QED BY Zenon, <3>1
  <2> QED BY Zenon, <2>1
<1>3. <<>> \in Seq(Nat)
  BY SMT
<1>4. PICK h \in [0..Len(m) -> Seq(Nat)] : Unrolls(h, Len(m), <<>>, s)
  <2> HIDE DEF s
  <2> QED BY Zenon, <1>1, <1>2, <1>3, UnrollingExists
<1>5. ASSUME NEW n \in 0..Len(m)
      PROVE  h[n] = IF n = 0 THEN <<>>
                    ELSE IF m[n] \notin Blank THEN Append(h[n - 1], m[n])
                    ELSE IF Separates(m, n) THEN Append(h[n - 1], SPACE)
                    ELSE h[n - 1]
  <2>1. CASE n = 0
    BY Zenon, <1>4, <2>1 DEF Unrolls
  <2>2. CASE n # 0
    <3>1. n \in 1..Len(m) /\ n - 1 \in 0..Len(m)
      BY SMT, <1>1, <2>2
    <3>2. h[n] = s[n][h[n - 1]] /\ h[n - 1] \in Seq(Nat)
      BY Zenon, <1>4, <3>1 DEF Unrolls
    <3> QED BY Zenon, <2>2, <3>1, <3>2
  <2> QED BY Zenon, <2>1, <2>2
<1>6. h = [n \in 0..Len(m) |-> h[n]]
  BY Zenon
<1>7. Keeps(m, h)
  BY Zenon, <1>5, <1>6 DEF Keeps
<1>8. PICK g : g = Kept(m)
  BY Zenon
<1>9. Keeps(m, g)
  BY Zenon, <1>7, <1>8 DEF Kept
<1>10. ASSUME NEW n \in 0..Len(m)
       PROVE  g[n] = IF n = 0 THEN <<>>
                     ELSE IF m[n] \notin Blank THEN Append(g[n - 1], m[n])
                     ELSE IF Separates(m, n) THEN Append(g[n - 1], SPACE)
                     ELSE g[n - 1]
  BY Zenon, <1>9 DEF Keeps
<1>11. /\ 0 \in 0..Len(m)
       /\ \A n \in 1..Len(m) : n \in 0..Len(m) /\ n # 0 /\ n - 1 \in 0..Len(m)
  BY SMT, <1>1
<1> DEFINE S == {n \in 0..Len(m) : g[n] = h[n]}
<1>12. 0 \in S
  BY Zenon, <1>5, <1>10, <1>11
<1>13. ASSUME NEW n \in 0..Len(m), n \in S /\ n < Len(m) PROVE n + 1 \in S
  <2>1. PICK k : k = n + 1 /\ k \in 0..Len(m) /\ k # 0 /\ k - 1 = n
    BY SMT, <1>1, <1>13
  <2>2. g[k - 1] = h[k - 1]
    BY Zenon, <1>13, <2>1
  <2>3. g[k] = h[k]
    BY Zenon, <1>5, <1>10, <2>1, <2>2
  <2> QED BY Zenon, <2>1, <2>3
<1>14. \A n \in 0..Len(m) : n \in S
  <2> HIDE DEF S
  <2> QED BY Zenon, <1>1, <1>12, <1>13, InductTo
<1>15. g \in [0..Len(m) -> Seq(Nat)]
  <2>1. PICK D : D = 0..Len(m)
    BY Zenon
  <2>2. g = [n \in D |-> g[n]]
    <3>1. g = [n \in 0..Len(m) |->
                  IF n = 0 THEN <<>>
                  ELSE IF m[n] \notin Blank THEN Append(g[n - 1], m[n])
                  ELSE IF Separates(m, n) THEN Append(g[n - 1], SPACE)
                  ELSE g[n - 1]]
      BY Zenon, <1>9 DEF Keeps
    <3>2. DOMAIN g = D
      BY Zenon, <2>1, <3>1
    <3>3. ASSUME NEW D2, NEW f(_), NEW x, x = [n \in D2 |-> f(n)] PROVE x = [n \in D2 |-> x[n]]
      BY Zenon, <3>3
    <3> QED BY Zenon, <2>1, <3>1, <3>2
  <2>3. \A n \in D : g[n] \in Seq(Nat)
    BY Zenon, <1>14, <2>1
  <2> QED BY Zenon, <2>1, <2>2, <2>3
<1>16. \A n \in 1..Len(m) :
           g[n] = IF m[n] \notin Blank THEN Append(g[n - 1], m[n])
                  ELSE IF Separates(m, n) THEN Append(g[n - 1], SPACE)
                  ELSE g[n - 1]
  BY Zenon, <1>10, <1>11
<1> QED BY Zenon, <1>8, <1>10, <1>11, <1>15, <1>16

LEMMA FollowsIs ==
    ASSUME NEW m \in Seq(Nat), NEW n \in 1..Len(m), m[n] # NEWLINE
    PROVE  /\ n = Len(m) => ~Follows(m, n)
           /\ n + 1 \in 1..Len(m) =>
                 /\ ~White(m[n + 1]) => Follows(m, n)
                 /\ m[n + 1] = NEWLINE => ~Follows(m, n)
                 /\ m[n + 1] \in Blank => (Follows(m, n) <=> Follows(m, n + 1))
<1>1. PICK M \in Nat : M = Len(m)
  BY SMT
<1>2. ASSUME n = Len(m) PROVE ~Follows(m, n)
  <2>1. (n + 1)..M = {}
    BY SMT, <1>1, <1>2
  <2> QED BY Zenon, <1>1, <2>1 DEF Follows
<1>3. ASSUME n + 1 \in 1..Len(m), ~White(m[n + 1]) PROVE Follows(m, n)
  <2>1. PICK j : j = n + 1 /\ j \in (n + 1)..M /\ \A k \in n..j : k = n \/ k = j
    BY SMT, <1>1, <1>3
  <2>2. m[j] # NEWLINE
    BY Zenon, <1>3, <2>1 DEF White
  <2> QED BY Zenon, <1>1, <1>3, <2>1, <2>2 DEF Follows
<1>4. ASSUME n + 1 \in 1..Len(m), m[n + 1] = NEWLINE PROVE ~Follows(m, n)
  <2>1. \A j \in (n + 1)..M : n + 1 \in n..j
    BY SMT
  <2> QED BY Zenon, <1>1, <1>4, <2>1 DEF Follows
<1>5. ASSUME n + 1 \in 1..Len(m), m[n + 1] \in Blank PROVE Follows(m, n) <=> Follows(m, n + 1)
  <2>1. PICK p : p = n + 1
    BY Zenon
  <2>2. White(m[p])
    BY SMT, <1>5, <2>1 DEF White, Blank
  <2>3. ASSUME Follows(m, n) PROVE Follows(m, p)
    <3>1. PICK j \in (n + 1)..M : ~White(m[j]) /\ \A k \in n..j : m[k] # NEWLINE
      BY Zenon, <1>1, <2>3 DEF Follows
    <3>2. j # p
      BY Zenon, <2>2, <3>1
    <3>3. j \in (p + 1)..M /\ \A k \in p..j : k \in n..j
      BY SMT, <2>1, <3>2
    <3> QED BY Zenon, <1>1, <3>1, <3>3 DEF Follows
  <2>4. ASSUME Follows(m, p) PROVE Follows(m, n)
    <3>1. PICK j \in (p + 1)..M : ~White(m[j]) /\ \A k \in p..j : m[k] # NEWLINE
      BY Zenon, <1>1, <2>4 DEF Follows
    <3>2. j \in (n + 1)..M /\ \A k \in n..j : k = n \/ k \in p..j
      BY SMT, <2>1
    <3> QED BY Zenon, <1>1, <3>1, <3>2 DEF Follows
  <2> QED BY Zenon, <2>1, <2>3, <2>4
<1> QED BY Zenon, <1>2, <1>3, <1>4, <1>5

-----------------------------------------------------------------------------
(* A message through encrypt2 and decrypt2, character by character *)

AllWhite(m, n) == \A i \in 1..n : White(m[i])

\* Before the first letter of a line: what came before it is decrypted, all but the letter
\* decrypt2 makes up at the end of nothing but new lines.
Before(m, n, e, s, b, h) ==
    /\ ~h /\ b = <<>> /\ (n = 0 \/ White(m[n]))
    /\ \E xs \in 0..2 : \E l \in Nat :
          /\ Is(s, Kept(m)[n], <<>>, xs, l)
          /\ xs = 2 => l = NEWLINE
          /\ xs = 0 <=> AllWhite(m, n)
          /\ xs = 0 => (Len(e) = 0 <=> \A i \in 1..n : m[i] # NEWLINE)

\* Behind a letter.
Within(m, n, s, b, h, w) ==
    /\ h /\ ~w /\ n # 0 /\ HasCode(m[n])
    /\ \E o \in Seq(Nat) : Kept(m)[n] = Append(o, m[n]) /\ Hanging(s, b, o, m[n])

\* Behind a letter and blanks.
After(m, n, s, b, h, w) ==
    /\ h /\ w /\ n # 0 /\ m[n] \in Blank /\ ~AllWhite(m, n)
    /\ \E c : \E o \in Seq(Nat) :
          /\ HasCode(c)
          /\ Kept(m)[n] = IF Follows(m, n) THEN Append(Append(o, c), SPACE) ELSE Append(o, c)
          /\ Waiting(s, b, o, c)

\* encrypt2 has read n characters of m and has written e, after which decrypt2's state is s.
Line(m, n, e, s, b, h, w) ==
    \/ Before(m, n, e, s, b, h) \/ Within(m, n, s, b, h, w) \/ After(m, n, s, b, h, w)
WrittenTo(t, m, n, e, b, h, w) == \E s : Decodes(t, e, s) /\ Line(m, n, e, s, b, h, w)

LEMMA WhiteIs ==
    ASSUME NEW c
    PROVE  /\ White(c) <=> c \in Blank \/ c = NEWLINE
           /\ HasCode(c) => ~White(c) /\ c \notin Blank /\ c # NEWLINE
           /\ NEWLINE \notin Blank
<1>1. White(c) <=> c \in Blank \/ c = NEWLINE
  BY Zenon DEF White, Blank
<1>2. TAB \notin 33..126 /\ SPACE \notin 33..126 /\ NEWLINE \notin 33..126 /\ NEWLINE \notin Blank
  BY SMT DEF TAB, SPACE, NEWLINE, Blank
<1>3. HasCode(c) => c # TAB /\ c # SPACE /\ c # NEWLINE
  BY Zenon, <1>2 DEF HasCode
<1> QED BY Zenon, <1>1, <1>2, <1>3 DEF Blank

LEMMA AllWhiteIs ==
    ASSUME NEW m, NEW n \in Nat
    PROVE  /\ AllWhite(m, 0)
           /\ AllWhite(m, n + 1) <=> AllWhite(m, n) /\ White(m[n + 1])
           /\ n # 0 /\ AllWhite(m, n) => White(m[n])
           /\ (\A i \in 1..(n + 1) : m[i] # NEWLINE)
                  <=> m[n + 1] # NEWLINE /\ \A i \in 1..n : m[i] # NEWLINE
<1>1. (\A i \in 1..0 : FALSE) /\ (n # 0 => n \in 1..n)
  BY SMT
<1>2. n + 1 \in 1..(n + 1) /\ (\A i \in 1..n : i \in 1..(n + 1))
      /\ \A i \in 1..(n + 1) : i \in 1..n \/ i = n + 1
  BY SMT
<1> QED BY Zenon, <1>1, <1>2 DEF AllWhite

\* What is kept with the next character.
LEMMA KeptNext ==
    ASSUME NEW m \in Seq(Nat), NEW n \in Nat, n + 1 \in 1..Len(m)
    PROVE  /\ Kept(m)[n] \in Seq(Nat) /\ m[n + 1] \in Nat
           /\ m[n + 1] \notin Blank => Kept(m)[n + 1] = Append(Kept(m)[n], m[n + 1])
           /\ m[n + 1] \in Blank /\ (n = 0 \/ White(m[n])) => Kept(m)[n + 1] = Kept(m)[n]
           /\ m[n + 1] \in Blank /\ n # 0 /\ ~White(m[n]) =>
                  Kept(m)[n + 1] = IF Follows(m, n + 1) THEN Append(Kept(m)[n], SPACE) ELSE Kept(m)[n]
<1>1. PICK p : p = n + 1
  BY Zenon
<1>2. p \in 1..Len(m) /\ p - 1 = n /\ n \in 0..Len(m) /\ m[p] \in Nat /\ (n = 0 <=> ~(p > 1))
  BY SMT, <1>1
<1>3. Kept(m)[n] \in Seq(Nat)
  BY Zenon, <1>2, KeptIs
<1>4. Kept(m)[p] = IF m[p] \notin Blank THEN Append(Kept(m)[n], m[p])
                   ELSE IF Separates(m, p) THEN Append(Kept(m)[n], SPACE) ELSE Kept(m)[n]
  BY Zenon, <1>2, KeptIs
<1>5. Separates(m, p) <=> n # 0 /\ ~White(m[n]) /\ Follows(m, p)
  BY Zenon, <1>2 DEF Separates
<1> QED BY Zenon, <1>1, <1>2, <1>3, <1>4, <1>5

LEMMA SpacedIs ==
    ASSUME NEW o, NEW l
    PROVE  /\ Spaced(o, 1, l) = o /\ Spaced(o, 2, 0) = Append(o, SPACE)
           /\ \A xs : (xs = 2 => l = NEWLINE) => Spaced(o, xs, l) = o
<1>1. 1 # 2 /\ 0 # NEWLINE
  BY SMT DEF NEWLINE
<1> QED BY Zenon, <1>1 DEF Spaced

\* The next letter finds decrypt2 behind what is kept so far.
Feeds(m, n, s, b) ==
    \E v, o, xs, l : Fed(s, b, v) /\ Is(v, o, <<>>, xs, l) /\ Spaced(o, xs, l) = Kept(m)[n]

LEMMA LineFeeds ==
    ASSUME NEW m \in Seq(Nat), NEW n \in Nat, n + 1 \in 1..Len(m), HasCode(m[n + 1]),
           NEW e, NEW s, NEW b, NEW h, NEW w, Line(m, n, e, s, b, h, w)
    PROVE  Feeds(m, n, s, b)
<1>1. CASE Before(m, n, e, s, b, h)
  <2>1. PICK xs \in 0..2, l \in Nat : Is(s, Kept(m)[n], <<>>, xs, l) /\ (xs = 2 => l = NEWLINE)
    BY Zenon, <1>1 DEF Before
  <2>2. Fed(s, b, s)
    BY Zenon, <1>1 DEF Before, Fed
  <2>3. Spaced(Kept(m)[n], xs, l) = Kept(m)[n]
    BY Zenon, <2>1, SpacedIs
  <2> QED BY Zenon, <2>1, <2>2, <2>3 DEF Feeds
<1>2. CASE Within(m, n, s, b, h, w)
  <2>1. PICK o : Kept(m)[n] = Append(o, m[n]) /\ Hanging(s, b, o, m[n])
    BY Zenon, <1>2 DEF Within
  <2>2. HasCode(m[n])
    BY Zenon, <1>2 DEF Within
  <2>3. \E v : Fed(s, b, v) /\ Is(v, Append(o, m[n]), <<>>, 1, m[n])
    BY Zenon, <2>1, <2>2, HangingFeeds
  <2>4. Spaced(Append(o, m[n]), 1, m[n]) = Append(o, m[n])
    BY Zenon, SpacedIs
  <2> QED BY Zenon, <2>1, <2>3, <2>4 DEF Feeds
<1>3. CASE After(m, n, s, b, h, w)
  <2>1. PICK c, o : /\ HasCode(c) /\ Waiting(s, b, o, c)
                    /\ Kept(m)[n] = IF Follows(m, n) THEN Append(Append(o, c), SPACE) ELSE Append(o, c)
    BY Zenon, <1>3 DEF After
  <2>2. \E v : Fed(s, b, v) /\ Is(v, Append(o, c), <<>>, 2, 0)
    BY Zenon, <2>1, WaitingFeeds
  <2>3. Follows(m, n)
    <3>1. m[n] # NEWLINE /\ n # 0 /\ ~White(m[n + 1])
      BY Zenon, <1>3, WhiteIs DEF After
    <3>2. n \in 1..Len(m)
      BY SMT, <3>1
    <3> QED BY Zenon, <3>1, <3>2, FollowsIs
  <2>4. Spaced(Append(o, c), 2, 0) = Append(Append(o, c), SPACE)
    BY Zenon, SpacedIs
  <2> QED BY Zenon, <2>1, <2>2, <2>3, <2>4 DEF Feeds
<1> QED BY Zenon, <1>1, <1>2, <1>3 DEF Line

LEMMA LineLetter ==
    ASSUME NEW t, Permutation(t, fm_alphabet),
           NEW m \in Seq(Nat), NEW n \in Nat, n + 1 \in 1..Len(m), HasCode(m[n + 1]),
           NEW e, NEW s, Decodes(t, e, s), NEW b, NEW h, NEW w, Line(m, n, e, s, b, h, w),
           NEW word, Word(b, morse(m[n + 1]), word)
    PROVE  WrittenTo(t, m, n + 1, e \o CodesIn(t, word), Rest(word), TRUE, FALSE)
<1>0. Feeds(m, n, s, b)
  BY Zenon, LineFeeds
<1>1. PICK v, o, xs, l : Fed(s, b, v) /\ Is(v, o, <<>>, xs, l) /\ Spaced(o, xs, l) = Kept(m)[n]
  BY Zenon, <1>0 DEF Feeds
<1>2. PICK s2 : /\ Decodes(t, e \o CodesIn(t, word), s2)
                /\ Hanging(s2, Rest(word), Spaced(o, xs, l), m[n + 1])
  BY Zenon, <1>1, LetterCoded
<1>3. /\ Kept(m)[n] \in Seq(Nat) /\ Kept(m)[n + 1] = Append(Kept(m)[n], m[n + 1])
  BY Zenon, KeptNext, WhiteIs
<1>4. n + 1 # 0
  BY SMT
<1>5. Within(m, n + 1, s2, Rest(word), TRUE, FALSE)
  BY Zenon, <1>1, <1>2, <1>3, <1>4 DEF Within
<1> QED BY Zenon, <1>2, <1>5 DEF Line, WrittenTo

LEMMA NothingCoded ==
    ASSUME NEW t, NEW e, NEW s, Decodes(t, e, s)
    PROVE  e \o CodesIn(t, <<>>) = e /\ Rest(<<>>) = <<>>
<1>1. e \in Seq(Nat) /\ <<>> \in Seq(Symbols) /\ Len(<<>>) < 3
  <2>1. 0 < 3
    BY SMT
  <2> QED BY Zenon, <2>1, DecodesIs, XIsSymbol
<1> QED BY Zenon, <1>1, ShortCodes

\* The buffer with the x that a blank adds, and with the one the end of a line does.
WithBlank(b, h, w) == IF ~w /\ h THEN Append(b, "x") ELSE b
WithEnd(b, w) == IF ~w /\ Len(b) > 0 THEN Append(b, "x") ELSE b

LEMMA LineBlank ==
    ASSUME NEW t, Permutation(t, fm_alphabet),
           NEW m \in Seq(Nat), NEW n \in Nat, n + 1 \in 1..Len(m), m[n + 1] \in Blank,
           NEW e, NEW s, Decodes(t, e, s), NEW b, NEW h, NEW w, Line(m, n, e, s, b, h, w),
           NEW spaced, spaced = WithBlank(b, h, w)
    PROVE  WrittenTo(t, m, n + 1, e \o CodesIn(t, spaced), Rest(spaced), h, TRUE)
<1>1. PICK p : p = n + 1
  BY Zenon
<1>2. p \in Nat /\ p # 0 /\ p \in 1..Len(m) /\ White(m[p]) /\ m[p] \in Blank /\ m[p] # NEWLINE
  BY SMT, <1>1, WhiteIs
<1>3. CASE Before(m, n, e, s, b, h)
  <2>1. spaced = <<>>
    BY Zenon, <1>3 DEF Before, WithBlank
  <2>2. e \o CodesIn(t, spaced) = e /\ Rest(spaced) = <<>>
    BY Zenon, <2>1, NothingCoded
  <2>3. Kept(m)[p] = Kept(m)[n]
    BY Zenon, <1>1, <1>2, <1>3, KeptNext DEF Before
  <2>4. PICK xs \in 0..2, l \in Nat :
            /\ Is(s, Kept(m)[n], <<>>, xs, l)
            /\ xs = 2 => l = NEWLINE
            /\ xs = 0 <=> AllWhite(m, n)
            /\ xs = 0 => (Len(e) = 0 <=> \A i \in 1..n : m[i] # NEWLINE)
    BY Zenon, <1>3 DEF Before
  <2>5. AllWhite(m, p) <=> AllWhite(m, n)
    BY Zenon, <1>1, <1>2, AllWhiteIs
  <2>6. (\A i \in 1..p : m[i] # NEWLINE) <=> \A i \in 1..n : m[i] # NEWLINE
    BY Zenon, <1>1, <1>2, AllWhiteIs
  <2>7. Is(s, Kept(m)[p], <<>>, xs, l) /\ (xs = 0 <=> AllWhite(m, p))
        /\ (xs = 0 => (Len(e) = 0 <=> \A i \in 1..p : m[i] # NEWLINE))
    BY Zenon, <2>3, <2>4, <2>5, <2>6
  <2>8. Before(m, p, e, s, <<>>, h)
    BY Zenon, <1>2, <1>3, <2>4, <2>7 DEF Before
  <2> QED BY Zenon, <1>1, <2>2, <2>8 DEF Line, WrittenTo
<1>4. CASE Within(m, n, s, b, h, w)
  <2>1. PICK o \in Seq(Nat) : Kept(m)[n] = Append(o, m[n]) /\ Hanging(s, b, o, m[n])
    BY Zenon, <1>4 DEF Within
  <2>2. HasCode(m[n]) /\ h /\ n # 0 /\ spaced = Append(b, "x") /\ ~White(m[n])
    BY Zenon, <1>4, WhiteIs DEF Within, WithBlank
  <2>3. PICK s2 : /\ Decodes(t, e \o CodesIn(t, Append(b, "x")), s2)
                  /\ Waiting(s2, Rest(Append(b, "x")), o, m[n])
    BY Zenon, <2>1, <2>2, BlankCoded
  <2>4. Kept(m)[p] = IF Follows(m, p) THEN Append(Append(o, m[n]), SPACE) ELSE Append(o, m[n])
    BY Zenon, <1>1, <1>2, <2>1, <2>2, KeptNext
  <2>5. ~AllWhite(m, p)
    BY Zenon, <1>1, <2>2, AllWhiteIs
  <2>6. After(m, p, s2, Rest(spaced), h, TRUE)
    BY Zenon, <1>2, <2>2, <2>3, <2>4, <2>5 DEF After
  <2> QED BY Zenon, <1>1, <2>2, <2>3, <2>6 DEF Line, WrittenTo
<1>5. CASE After(m, n, s, b, h, w)
  <2>1. h /\ w /\ n # 0 /\ m[n] \in Blank /\ ~AllWhite(m, n) /\ spaced = b
        /\ White(m[n]) /\ m[n] # NEWLINE
    BY Zenon, <1>5, WhiteIs DEF After, WithBlank
  <2>2. PICK c : \E o \in Seq(Nat) :
                    /\ HasCode(c) /\ Waiting(s, b, o, c)
                    /\ Kept(m)[n] = IF Follows(m, n) THEN Append(Append(o, c), SPACE) ELSE Append(o, c)
    BY Zenon, <1>5 DEF After
  <2>3. PICK o \in Seq(Nat) :
                    /\ HasCode(c) /\ Waiting(s, b, o, c)
                    /\ Kept(m)[n] = IF Follows(m, n) THEN Append(Append(o, c), SPACE) ELSE Append(o, c)
    BY Zenon, <2>2
  <2>4. e \o CodesIn(t, spaced) = e /\ Rest(spaced) = b
    <3>1. StaysIn(t, e, s, b, o, c)
      BY Zenon, <2>3, WaitingEnds
    <3> QED BY Zenon, <2>1, <3>1 DEF StaysIn
  <2>5. Kept(m)[p] = Kept(m)[n] /\ ~AllWhite(m, p)
    BY Zenon, <1>1, <1>2, <2>1, KeptNext, AllWhiteIs
  <2>6. Follows(m, n) <=> Follows(m, p)
    <3>1. n \in 1..Len(m)
      BY SMT, <1>1, <1>2, <2>1
    <3> QED BY Zenon, <1>1, <1>2, <2>1, <3>1, FollowsIs
  <2>7. After(m, p, s, b, h, TRUE)
    BY Zenon, <1>2, <2>1, <2>3, <2>5, <2>6 DEF After
  <2> QED BY Zenon, <1>1, <2>4, <2>7 DEF Line, WrittenTo
<1> QED BY Zenon, <1>3, <1>4, <1>5 DEF Line

LEMMA OneMoreIs ==
    ASSUME NEW q \in Seq(Nat)
    PROVE  q \o <<NEWLINE>> = Append(q, NEWLINE)
BY SMT DEF NEWLINE

LEMMA LineNewLine ==
    ASSUME NEW t, Permutation(t, fm_alphabet),
           NEW m \in Seq(Nat), NEW n \in Nat, n + 1 \in 1..Len(m), m[n + 1] = NEWLINE,
           NEW e, NEW s, Decodes(t, e, s), NEW b, NEW h, NEW w, Line(m, n, e, s, b, h, w),
           NEW ended, ended = WithEnd(b, w),
           NEW v
    PROVE  WrittenTo(t, m, n + 1, e \o CodesIn(t, ended) \o <<NEWLINE>>, <<>>, FALSE, v)
<1>1. PICK p : p = n + 1
  BY Zenon
<1>2. PICK e1 : e1 = e \o CodesIn(t, ended)
  BY Zenon
<1>3. PICK e2 : e2 = Append(e1, NEWLINE)
  BY Zenon
<1>4. p \in Nat /\ p # 0 /\ m[p] = NEWLINE /\ White(m[p]) /\ m[p] \notin Blank
  <2>1. p \in Nat /\ p # 0
    BY SMT, <1>1
  <2> QED BY Zenon, <1>1, <2>1, WhiteIs
<1>5. Kept(m)[p] = Append(Kept(m)[n], NEWLINE)
  BY Zenon, <1>1, <1>4, KeptNext
<1>6. AllWhite(m, p) <=> AllWhite(m, n)
  BY Zenon, <1>1, <1>4, AllWhiteIs
<1>7. CASE Before(m, n, e, s, b, h)
  <2>1. ended = <<>>
    <3>1. ~(Len(<<>>) > 0)
      BY SMT
    <3> QED BY Zenon, <1>7, <3>1 DEF Before, WithEnd
  <2>2. e1 = e
    BY Zenon, <1>2, <2>1, NothingCoded
  <2>3. PICK xs \in 0..2, l \in Nat :
            /\ Is(s, Kept(m)[n], <<>>, xs, l) /\ (xs = 0 <=> AllWhite(m, n))
    BY Zenon, <1>7 DEF Before
  <2>4. Is(NewLine(s), Kept(m)[p], <<>>, xs, NEWLINE)
    BY Zenon, <1>5, <2>3, NewLineAfter
  <2>5. Decodes(t, e2, NewLine(s))
    <3>1. NewLine(s).ok
      BY Zenon, <2>4 DEF Is
    <3> QED BY Zenon, <1>3, <2>2, <3>1, DecodesIs, NewLineDecodes
  <2>6. Len(e2) # 0
    <3>1. e \in Seq(Nat) /\ NEWLINE \in Nat
      BY Zenon, DecodesIs, Constants
    <3> QED BY SMT, <1>3, <2>2, <3>1
  <2>7. ~\A i \in 1..p : m[i] # NEWLINE
    BY Zenon, <1>1, <1>4, AllWhiteIs
  <2>8. Before(m, p, e2, NewLine(s), <<>>, FALSE)
    BY Zenon, <1>4, <1>6, <2>3, <2>4, <2>6, <2>7, Constants DEF Before
  <2>9. e1 \o <<NEWLINE>> = e2
    BY Zenon, <1>3, <2>2, DecodesIs, OneMoreIs
  <2> QED BY Zenon, <1>1, <1>2, <2>5, <2>8, <2>9 DEF Line, WrittenTo
<1>8. ASSUME NEW s1, Decodes(t, e1, s1), NEW o, NEW c, HasCode(c), Over(s1, o, c),
             Kept(m)[n] = Append(o, c), ~AllWhite(m, n)
      PROVE  WrittenTo(t, m, p, e1 \o <<NEWLINE>>, <<>>, FALSE, v)
  <2>1. PICK s2 : /\ Decodes(t, e2, s2)
                  /\ \E xs \in 1..2 : Is(s2, Append(Append(o, c), NEWLINE), <<>>, xs, NEWLINE)
    BY Zenon, <1>3, <1>8, OverNewLine
  <2>2. PICK xs \in 1..2 : Is(s2, Kept(m)[p], <<>>, xs, NEWLINE)
    BY Zenon, <1>5, <1>8, <2>1
  <2>3. xs \in 0..2 /\ xs # 0
    BY SMT
  <2>4. Before(m, p, e2, s2, <<>>, FALSE)
    BY Zenon, <1>4, <1>6, <1>8, <2>2, <2>3, Constants DEF Before
  <2>5. e1 \o <<NEWLINE>> = e2
    BY Zenon, <1>3, <1>8, DecodesIs, OneMoreIs
  <2> QED BY Zenon, <2>1, <2>4, <2>5 DEF Line, WrittenTo
<1>9. CASE Within(m, n, s, b, h, w)
  <2>1. PICK o \in Seq(Nat) : Kept(m)[n] = Append(o, m[n]) /\ Hanging(s, b, o, m[n])
    BY Zenon, <1>9 DEF Within
  <2>2. HasCode(m[n]) /\ n # 0 /\ ended = (IF Len(b) > 0 THEN Append(b, "x") ELSE b) /\ ~White(m[n])
    BY Zenon, <1>9, WhiteIs DEF Within, WithEnd
  <2>3. PICK s1 : Decodes(t, e1, s1) /\ Over(s1, o, m[n])
    <3>1. EndsWith(t, e, b, ended, o, m[n])
      BY Zenon, <2>1, <2>2, HangingEnds
    <3> QED BY Zenon, <1>2, <3>1 DEF EndsWith
  <2>4. ~AllWhite(m, n)
    BY Zenon, <2>2, AllWhiteIs
  <2> QED BY Zenon, <1>1, <1>2, <1>8, <2>1, <2>2, <2>3, <2>4
<1>10. CASE After(m, n, s, b, h, w)
  <2>1. h /\ w /\ n # 0 /\ m[n] \in Blank /\ ~AllWhite(m, n) /\ ended = b /\ m[n] # NEWLINE
    BY Zenon, <1>10, WhiteIs DEF After, WithEnd
  <2>2. PICK c, o : /\ HasCode(c) /\ Waiting(s, b, o, c)
                    /\ Kept(m)[n] = IF Follows(m, n) THEN Append(Append(o, c), SPACE) ELSE Append(o, c)
    BY Zenon, <1>10 DEF After
  <2>3. e1 = e /\ Over(s, o, c)
    <3>1. StaysIn(t, e, s, b, o, c)
      BY Zenon, <2>2, WaitingEnds
    <3> QED BY Zenon, <1>2, <2>1, <3>1 DEF StaysIn
  <2>4. ~Follows(m, n)
    <3>1. n \in 1..Len(m)
      BY SMT, <2>1
    <3> QED BY Zenon, <2>1, <3>1, FollowsIs
  <2> QED BY Zenon, <1>1, <1>2, <1>8, <2>1, <2>2, <2>3, <2>4
<1> QED BY Zenon, <1>7, <1>9, <1>10 DEF Line

\* What decrypting gives.
Expected(m) ==
    IF NEWLINE \in Elements(m) /\ \A i \in DOMAIN m : White(m[i])
    THEN Append(Normal(m), 35) ELSE Normal(m)

\* What the end of the text leaves of it.
Finishes(t, m, n, e, ended) ==
    LET e2 == IF Len(ended) = 3 /\ ended # XXX THEN e \o CodesIn(t, ended) ELSE e IN
    /\ ended = XXX => n # 0 /\ m[n] \in Blank
    /\ \E s2 : Decodes(t, e2, s2) /\ Answers(e2, s2, Expected(m))

LEMMA LineEnd ==
    ASSUME NEW t, Permutation(t, fm_alphabet), NEW m \in Seq(Nat), NEW n, n = Len(m),
           NEW e, NEW s, Decodes(t, e, s), NEW b, NEW h, NEW w, Line(m, n, e, s, b, h, w),
           NEW ended, ended = Append(b, "x")
    PROVE  Finishes(t, m, n, e, ended)
<1>1. PICK e2 : e2 = IF Len(ended) = 3 /\ ended # XXX THEN e \o CodesIn(t, ended) ELSE e
  BY Zenon
<1> SUFFICES /\ ended = XXX => n # 0 /\ m[n] \in Blank
             /\ \E s2 : Decodes(t, e2, s2) /\ Answers(e2, s2, Expected(m))
  BY Zenon, <1>1 DEF Finishes
<1>2. n \in Nat /\ DOMAIN m = 1..n /\ Normal(m) = Kept(m)[n]
  <2>1. n \in Nat /\ DOMAIN m = 1..n
    BY SMT
  <2> QED BY Zenon, <2>1, NormalIs
<1>3. (\A i \in DOMAIN m : White(m[i])) <=> AllWhite(m, n)
  BY Zenon, <1>2 DEF AllWhite
<1>4. NEWLINE \in Elements(m) <=> ~\A i \in 1..n : m[i] # NEWLINE
  BY Zenon, <1>2 DEF Elements
<1>5. /\ ~AllWhite(m, n) => Expected(m) = Kept(m)[n]
      /\ (\A i \in 1..n : m[i] # NEWLINE) => Expected(m) = Kept(m)[n]
      /\ AllWhite(m, n) /\ ~(\A i \in 1..n : m[i] # NEWLINE) => Expected(m) = Append(Kept(m)[n], 35)
  BY Zenon, <1>2, <1>3, <1>4 DEF Expected
<1>6. CASE Before(m, n, e, s, b, h)
  <2>1. ended = <<"x">> /\ Len(<<"x">>) = 1 /\ 1 # 3 /\ <<"x">> # XXX
    <3>1. 1 # 3 /\ <<"x">> # XXX
      BY SMT DEF XXX
    <3> QED BY Zenon, <1>6, <3>1, XIsSymbol DEF Before
  <2>2. e2 = e
    BY Zenon, <1>1, <2>1
  <2>3. PICK xs \in 0..2, l \in Nat :
            /\ Is(s, Kept(m)[n], <<>>, xs, l) /\ (xs = 0 <=> AllWhite(m, n))
            /\ xs = 0 => (Len(e) = 0 <=> \A i \in 1..n : m[i] # NEWLINE)
    BY Zenon, <1>6 DEF Before
  <2>4. s.ok /\ s.xs = xs /\ s.out = Kept(m)[n]
    BY Zenon, <2>3 DEF Is
  <2>5. Len(e) > 0 <=> Len(e) # 0
    <3>1. e \in Seq(Nat)
      BY Zenon, DecodesIs
    <3> QED BY SMT, <3>1
  <2>6. CASE xs # 0 \/ Len(e) = 0
    <3>1. Answer(e, s) = s
      BY Zenon, <2>4, <2>5, <2>6 DEF Answer
    <3>2. Expected(m) = Kept(m)[n]
      BY Zenon, <1>5, <2>3, <2>6
    <3> QED BY Zenon, <1>1, <2>1, <2>2, <2>4, <3>1, <3>2 DEF Answers
  <2>7. CASE xs = 0 /\ Len(e) # 0
    <3>1. Answer(e, s) = PrintLetter(s)
      BY Zenon, <2>4, <2>5, <2>7 DEF Answer
    <3>2. Expected(m) = Append(Kept(m)[n], 35)
      BY Zenon, <1>5, <2>3, <2>7
    <3>3. Is(PrintLetter(s), Append(Kept(m)[n], 35), <<>>, xs + 1, 35)
      BY Zenon, <2>3, LetterPrinted, NothingIsHash
    <3>4. PrintLetter(s).ok /\ PrintLetter(s).out = Append(Kept(m)[n], 35)
      BY Zenon, <3>3 DEF Is
    <3> QED BY Zenon, <1>1, <2>1, <2>2, <3>1, <3>2, <3>4 DEF Answers
  <2> QED BY Zenon, <2>6, <2>7
<1>7. CASE Within(m, n, s, b, h, w)
  <2>1. PICK o \in Seq(Nat) : Kept(m)[n] = Append(o, m[n]) /\ Hanging(s, b, o, m[n])
    BY Zenon, <1>7 DEF Within
  <2>2. HasCode(m[n]) /\ n # 0 /\ ~White(m[n])
    BY Zenon, <1>7, WhiteIs DEF Within
  <2>3. PICK word : word = IF Len(b) > 0 THEN Append(b, "x") ELSE b
    BY Zenon
  <2>4. /\ \E s2 : Decodes(t, e \o CodesIn(t, word), s2) /\ Over(s2, o, m[n])
        /\ Append(b, "x") # XXX
        /\ Len(Append(b, "x")) = 3 => word = Append(b, "x")
        /\ Len(Append(b, "x")) # 3 => e \o CodesIn(t, word) = e
    <3>1. EndsWith(t, e, b, word, o, m[n])
      BY Zenon, <2>1, <2>2, <2>3, HangingEnds
    <3> QED BY Zenon, <3>1 DEF EndsWith
  <2>5. e2 = e \o CodesIn(t, word)
    BY Zenon, <1>1, <2>4
  <2>6. PICK s2 : Decodes(t, e2, s2) /\ Over(s2, o, m[n])
    BY Zenon, <2>4, <2>5
  <2>7. Answers(e2, s2, Append(o, m[n]))
    BY Zenon, <2>2, <2>6, OverAnswers
  <2>8. Expected(m) = Append(o, m[n])
    BY Zenon, <1>2, <1>5, <2>1, <2>2, AllWhiteIs
  <2> QED BY Zenon, <1>1, <2>4, <2>6, <2>7, <2>8
<1>8. CASE After(m, n, s, b, h, w)
  <2>1. n # 0 /\ m[n] \in Blank /\ ~AllWhite(m, n) /\ m[n] # NEWLINE
    BY Zenon, <1>8, WhiteIs DEF After
  <2>2. PICK c, o : /\ HasCode(c) /\ Waiting(s, b, o, c)
                    /\ Kept(m)[n] = IF Follows(m, n) THEN Append(Append(o, c), SPACE) ELSE Append(o, c)
    BY Zenon, <1>8 DEF After
  <2>3. Over(s, o, c) /\ (Len(Append(b, "x")) = 3 => Append(b, "x") = XXX)
    <3>1. StaysIn(t, e, s, b, o, c)
      BY Zenon, <2>2, WaitingEnds
    <3> QED BY Zenon, <3>1 DEF StaysIn
  <2>4. Kept(m)[n] = Append(o, c)
    <3>1. n \in 1..Len(m)
      BY SMT, <1>2, <2>1
    <3> QED BY Zenon, <2>1, <2>2, <3>1, FollowsIs
  <2>5. e2 = e
    BY Zenon, <1>1, <2>3
  <2>6. Answers(e, s, Append(o, c))
    BY Zenon, <2>2, <2>3, OverAnswers
  <2> QED BY Zenon, <1>1, <1>5, <2>1, <2>4, <2>5, <2>6
<1> QED BY Zenon, <1>6, <1>7, <1>8 DEF Line

-----------------------------------------------------------------------------
(* The state of a behaviour: fractionated Morse *)

\* The table of the command line's key.
Letters ==
    WithKey(IF command.options = <<>> THEN NULL ELSE command.options[1].arg, fm_alphabet)

MorseRun ==
    phase = "running" /\ command.op # "-p" =>
        /\ command.op = "-f" /\ way \in {"-e", "-d"}
        /\ mode.op = "-f" /\ mode.decrypt = (way = "-d") /\ table = Letters

\* Encrypting, n characters of m are read and e is written, with b in the buffer.
Writing(t, m, i, n, e, b, h, w) ==
    /\ i = m /\ n \in 0..Len(m)
    /\ WrittenTo(t, m, n, e, b, h, w)

\* e decrypts to what is expected of m.
Recovers(t, m, e) == \E f : Decoding(t, e, f) /\ Answers(e, f[Len(e)], Expected(m))

\* Decrypting e, n characters are read, and the variables are what they make.
Holds(s, o, b, xs, l) == o = s.out /\ b = s.buf /\ xs = s.xs /\ l = s.last
Reading(t, m, e, n, o, b, xs, l) ==
    /\ n \in 0..Len(e)
    /\ \E f : /\ Decoding(t, e, f) /\ Answers(e, f[Len(e)], Expected(m))
              /\ Holds(f[n], o, b, xs, l)

Uncoded == \E i \in DOMAIN text : ~White(text[i]) /\ ~InTable(text[i])
Unreadable == text[Len(text)] \in Blank \/ \E i \in DOMAIN text : text[i] > MorseLimit

MorseMessage ==
    /\ way = "-e" /\ phase \in {"args", "running"} =>
           Writing(Letters, text, input, pos, output, buffer, holder, whitespace)
    /\ way = "-e" /\ phase = "done" => Recovers(Letters, text, output)
    /\ phase = "undefined" => way = "-e" /\ Unreadable
    /\ way = "-d" /\ phase \in {"args", "running"} =>
           Reading(Letters, text, input, pos, output, buffer, xTracker, charTracker)
    /\ way = "-d" /\ phase = "done" => output = Expected(text)

MorseInv ==
    /\ MorseRun
    /\ command.op \notin {"-p", "-f"} => phase \notin {"running", "failed", "undefined", "done"}
    /\ command.op = "-f" /\ phase = "failed" => way = "-e" /\ Uncoded
    /\ command.op = "-f" /\ command.way = "-e" => MorseMessage

\* A behaviour's command line and text, and what depends on them only.
LEMMA RunStays ==
    ASSUME UNCHANGED run
    PROVE  /\ command' = command /\ text' = text /\ way' = way /\ Letters' = Letters
           /\ Uncoded' = Uncoded /\ Unreadable' = Unreadable
<1>1. command' = command /\ text' = text /\ way' = way
  BY Zenon DEF run
<1>2. Letters' = Letters
  BY Zenon, <1>1 DEF Letters
<1>3. Uncoded' = Uncoded /\ Unreadable' = Unreadable
  BY Zenon, <1>1 DEF Uncoded, Unreadable, InTable
<1> QED BY Zenon, <1>1, <1>2, <1>3

LEMMA ModesDiffer ==
    /\ "-p" # "-f" /\ "-e" # "-d"
    /\ "running" \notin {"failed", "undefined", "done", "args"}
    /\ "done" \notin {"failed", "undefined", "args", "running"}
    /\ "undefined" \notin {"failed", "done", "args", "running"}
    /\ "failed" \notin {"undefined", "done", "args", "running"}
    /\ "args" \notin {"failed", "undefined", "done", "running"}
BY SMT

\* A step that reads and writes nothing and does not end the run, or ends it before it
\* starts.
LEMMA MorseStays ==
    ASSUME MorseInv, UNCHANGED run, UNCHANGED <<input, pos, output>>, UNCHANGED morseState,
           \/ phase' = phase /\ UNCHANGED <<mode, table>>
           \/ phase' \notin {"args", "running", "failed", "undefined", "done"}
    PROVE  MorseInv'
<1>1. /\ command' = command /\ text' = text /\ way' = way /\ Letters' = Letters
      /\ Uncoded' = Uncoded /\ Unreadable' = Unreadable
  BY Zenon, RunStays
<1>2. /\ input' = input /\ pos' = pos /\ output' = output /\ buffer' = buffer
      /\ holder' = holder /\ whitespace' = whitespace /\ xTracker' = xTracker
      /\ charTracker' = charTracker
  BY Zenon DEF morseState
<1>3. MorseRun'
  BY Zenon, <1>1, <1>2 DEF MorseInv, MorseRun
<1>4. MorseMessage => MorseMessage'
  BY Zenon, <1>1, <1>2 DEF MorseMessage
<1> QED BY Zenon, <1>1, <1>3, <1>4 DEF MorseInv

LEMMA SquareStepKeepsMorse ==
    ASSUME command.op = "-p", UNCHANGED run
    PROVE  MorseInv'
<1>1. command' = command
  BY Zenon DEF run
<1> QED BY Zenon, <1>1, ModesDiffer DEF MorseInv, MorseRun

LEMMA LeaveKeepsMorse ==
    ASSUME MorseInv, NEW how \in {"usage", "help", "crashed", "hangs"}, Leave(how)
    PROVE  MorseInv'
<1>1. phase' = how /\ UNCHANGED run /\ UNCHANGED <<input, pos, output>> /\ UNCHANGED morseState
  BY Zenon DEF Leave, io
<1>2. phase' \notin {"args", "running", "failed", "undefined", "done"}
  BY SMT, <1>1
<1> QED BY Zenon, <1>1, <1>2, MorseStays

LEMMA validargsKeepsMorse ==
    ASSUME MorseInv, validargs
    PROVE  MorseInv'
<1>1. CASE \E how \in {"usage", "help", "crashed", "hangs"} : Leave(how)
  BY Zenon, <1>1, LeaveKeepsMorse
<1>2. CASE Polybius /\ ~(\E how \in {"usage", "help", "crashed", "hangs"} : Leave(how))
  <2>1. command.op = "-p" /\ \E m, k, t : Accept(m, k, t)
    BY Zenon, <1>2 DEF Polybius
  <2>2. UNCHANGED run
    BY Zenon, <2>1 DEF Accept
  <2> QED BY Zenon, <2>1, <2>2, SquareStepKeepsMorse
<1>3. CASE Fractionated /\ ~(\E how \in {"usage", "help", "crashed", "hangs"} : Leave(how))
  <2>1. PICK k : /\ command.op = "-f" /\ way \in {"-e", "-d"}
                 /\ k = IF command.options = <<>> THEN NULL ELSE command.options[1].arg
                 /\ Accept([op |-> "-f", decrypt |-> way = "-d", row |-> 0, col |-> 0],
                           k, WithKey(k, fm_alphabet))
    <3>1. CASE command.options = <<>>
      BY Zenon, <1>3, <3>1 DEF Fractionated
    <3>2. CASE command.options # <<>>
      <4>1. /\ command.op = "-f" /\ way \in {"-e", "-d"}
            /\ \E s \in Behind :
                   IF Elements(command.options[1].arg) \cap Elements(s) # {} THEN Leave("hangs")
                   ELSE Accept([op |-> "-f", decrypt |-> way = "-d", row |-> 0, col |-> 0],
                               command.options[1].arg, WithKey(command.options[1].arg, fm_alphabet))
        BY Zenon, <1>3, <3>2 DEF Fractionated
      <4> QED BY Zenon, <1>3, <3>2, <4>1
    <3> QED BY Zenon, <3>1, <3>2
  <2>2. PICK m : m = [op |-> "-f", decrypt |-> way = "-d", row |-> 0, col |-> 0]
    BY Zenon
  <2>3. m.op = "-f" /\ m.decrypt = (way = "-d")
    BY ONLY Zenon, <2>2
  <2>4. Accept(m, k, Letters)
    BY Zenon, <2>1, <2>2 DEF Letters
  <2>5. /\ phase' = "running" /\ mode' = m /\ table' = Letters
        /\ UNCHANGED run /\ UNCHANGED <<input, pos, output>> /\ UNCHANGED morseState
    BY Zenon, <2>4 DEF Accept, io
  <2>6. /\ command' = command /\ text' = text /\ way' = way /\ Letters' = Letters
    BY Zenon, <2>5, RunStays
  <2>7. /\ input' = input /\ pos' = pos /\ output' = output /\ buffer' = buffer
        /\ holder' = holder /\ whitespace' = whitespace /\ xTracker' = xTracker
        /\ charTracker' = charTracker
    BY Zenon, <2>5 DEF morseState
  <2>8. MorseRun'
    BY Zenon, <2>1, <2>3, <2>5, <2>6 DEF MorseRun
  <2>9. phase = "args"
    BY Zenon DEF validargs
  <2>10. MorseMessage => MorseMessage'
    BY Zenon, <2>5, <2>6, <2>7, <2>9, ModesDiffer DEF MorseMessage
  <2> QED BY Zenon, <2>1, <2>5, <2>6, <2>8, <2>10, ModesDiffer DEF MorseInv
<1>4. CASE Leave("help") \/ Leave("usage")
  BY Zenon, <1>4, LeaveKeepsMorse
<1> QED BY Zenon, <1>1, <1>2, <1>3, <1>4 DEF validargs

\* A run of the square's changes nothing here.
LEMMA SquareKeepsMorse ==
    ASSUME Machine, encrypt \/ decrypt \/ PolybiusEnds
    PROVE  MorseInv'
<1>1. phase = "running" /\ mode.op = "-p" /\ UNCHANGED run
  BY Zenon DEF encrypt, decrypt, PolybiusEnds, More, EndOfText, Running
<1>2. command.op = "-p"
  BY Zenon, <1>1, ModesDiffer DEF Machine, MorseSet
<1> QED BY Zenon, <1>1, <1>2, SquareStepKeepsMorse

LEMMA InitKeepsMorse ==
    ASSUME Init, Machine
    PROVE  MorseInv
<1>1. /\ way = command.way /\ phase = "args" /\ input = text /\ pos = 0 /\ output = <<>>
      /\ buffer = <<>> /\ holder = FALSE
  BY Zenon DEF Init, Fresh
<1>2. text \in Seq(Nat) /\ Len(text) \in Nat
  BY Zenon, TextIs
<1>3. /\ 0 \in 0..Len(text) /\ 0 \in 0..2 /\ 0 \in Nat /\ 0 # 2 /\ Len(<<>>) = 0
      /\ \A i \in 1..0 : FALSE
  BY SMT, <1>2
<1>4. Is(Start, Kept(text)[0], <<>>, 0, 0)
  BY Zenon, <1>2, KeptIs, StartIs
<1>5. AllWhite(text, 0)
  BY Zenon, <1>3 DEF AllWhite
<1>6. Before(text, 0, <<>>, Start, <<>>, FALSE)
  <2>1. Len(<<>>) = 0 <=> \A i \in 1..0 : text[i] # NEWLINE
    BY Zenon, <1>3
  <2> QED BY Zenon, <1>3, <1>4, <1>5, <2>1 DEF Before
<1>7. Writing(Letters, text, input, pos, output, buffer, holder, whitespace)
  BY Zenon, <1>1, <1>3, <1>6, NothingDecodes DEF Writing, Line, WrittenTo
<1>8. command.op = "-f" /\ command.way = "-e" => MorseMessage
  BY Zenon, <1>1, <1>7, ModesDiffer DEF MorseMessage
<1> QED BY Zenon, <1>1, <1>8, ModesDiffer DEF MorseInv, MorseRun

LEMMA AgainKeepsMorse ==
    ASSUME Machine, MorseInv, Again
    PROVE  MorseInv'
<1>1. /\ phase = "done" /\ way = "-e" /\ way' = "-d" /\ phase' = "args" /\ input' = output
      /\ pos' = 0 /\ output' = <<>> /\ buffer' = <<>> /\ xTracker' = 0 /\ charTracker' = 0
      /\ command' = command /\ text' = text
  BY Zenon DEF Again
<1>2. Letters' = Letters
  BY Zenon, <1>1 DEF Letters
<1>3. ASSUME command.op = "-f", command.way = "-e" PROVE MorseMessage'
  <2>1. Recovers(Letters, text, output)
    BY Zenon, <1>1, <1>3 DEF MorseInv, MorseMessage
  <2>2. PICK f : Decoding(Letters, output, f) /\ Answers(output, f[Len(output)], Expected(text))
    BY Zenon, <2>1 DEF Recovers
  <2>3. f[0] = Start /\ output \in Seq(Nat)
    BY Zenon, <2>2 DEF Decoding
  <2>4. 0 \in 0..Len(output)
    BY SMT, <2>3
  <2>5. Holds(f[0], <<>>, <<>>, 0, 0)
    BY Zenon, <2>3, StartIs DEF Is, Holds
  <2>6. Reading(Letters', text', input', pos', output', buffer', xTracker', charTracker')
    BY Zenon, <1>1, <1>2, <2>2, <2>4, <2>5 DEF Reading
  <2> QED BY Zenon, <1>1, <2>6, ModesDiffer DEF MorseMessage
<1> QED BY Zenon, <1>1, <1>3, ModesDiffer DEF MorseInv, MorseRun

-----------------------------------------------------------------------------
(* What the steps keep of fractionated Morse *)

\* A step of a run of fractionated Morse.
LEMMA MorseRuns ==
    ASSUME Machine, MorseInv, phase = "running", mode.op = "-f", UNCHANGED run,
           UNCHANGED <<mode, table>>
    PROVE  /\ command.op = "-f" /\ table = Letters /\ Permutation(Letters, fm_alphabet)
           /\ way \in {"-e", "-d"} /\ mode.decrypt = (way = "-d")
           /\ way = "-e" => command.way = "-e"
           /\ MorseRun'
<1>1. command.op # "-p"
  BY Zenon, ModesDiffer DEF Machine, SquareSet
<1>2. /\ command.op = "-f" /\ way \in {"-e", "-d"} /\ mode.decrypt = (way = "-d") /\ table = Letters
  BY Zenon, <1>1 DEF MorseInv, MorseRun
<1>3. Permutation(Letters, fm_alphabet)
  BY Zenon, <1>1, <1>2 DEF Machine, MorseSet
<1>4. way = "-e" => command.way = "-e"
  BY Zenon, ModesDiffer DEF Machine
<1>5. MorseRun'
  <2>1. command' = command /\ way' = way /\ Letters' = Letters /\ mode' = mode /\ table' = table
    BY Zenon, RunStays
  <2> QED BY Zenon, <1>1, <1>2, <2>1 DEF MorseInv, MorseRun
<1> QED BY Zenon, <1>2, <1>3, <1>4, <1>5

LEMMA CodesAre ==
    ASSUME table = Letters, NEW w
    PROVE  Codes(w) = CodesIn(Letters, w)
<1>1. \A i : CodeOf(Triple(w, i)) = CodeIn(Letters, Triple(w, i))
  BY Zenon DEF CodeOf, CodeIn
<1>2. PICK N : N = Len(w) \div 3
  BY Zenon
<1>3. [i \in 1..N |-> CodeOf(Triple(w, i))] = [i \in 1..N |-> CodeIn(Letters, Triple(w, i))]
  BY Zenon, <1>1
<1> QED BY Zenon, <1>2, <1>3 DEF Codes, CodesIn

\* The symbols in the buffer.
LEMMA BufferIs ==
    ASSUME NEW m \in Seq(Nat), NEW n \in Nat, n + 1 \in 1..Len(m), HasCode(m[n + 1]),
           NEW e, NEW s, NEW b, NEW h, NEW w, Line(m, n, e, s, b, h, w)
    PROVE  Word(b, morse(m[n + 1]), b \o morse(m[n + 1]) \o <<"x">>)
<1>1. Feeds(m, n, s, b)
  BY Zenon, LineFeeds
<1>2. PICK v : Fed(s, b, v)
  BY Zenon, <1>1 DEF Feeds
<1>3. b \in Seq(Symbols)
  BY Zenon, <1>2, FedIs
<1>4. morse(m[n + 1]) \in Seq(Marks)
  BY Zenon, LettersReadBack DEF HasCode, IsCode
<1> QED BY Zenon, <1>3, <1>4, WordIs

LEMMA encrypt2KeepsMorse ==
    ASSUME Machine, MorseInv, encrypt2
    PROVE  MorseInv'
<1>1. /\ phase = "running" /\ mode.op = "-f" /\ mode.decrypt = FALSE
      /\ pos < Len(input) /\ pos' = pos + 1
      /\ UNCHANGED run /\ UNCHANGED <<mode, table>> /\ input' = input
  BY Zenon DEF encrypt2, More, Running, args
<1>2. /\ command.op = "-f" /\ table = Letters /\ Permutation(Letters, fm_alphabet)
      /\ way \in {"-e", "-d"} /\ mode.decrypt = (way = "-d")
      /\ way = "-e" => command.way = "-e"
      /\ MorseRun'
  BY Zenon, <1>1, MorseRuns
<1>3. way = "-e" /\ command.way = "-e"
  BY Zenon, <1>1, <1>2
<1>4. Writing(Letters, text, input, pos, output, buffer, holder, whitespace)
  BY Zenon, <1>1, <1>2, <1>3 DEF MorseInv, MorseMessage
<1>5. /\ input = text /\ pos \in 0..Len(text) /\ text \in Seq(Nat)
  BY Zenon, <1>4, TextIs DEF Writing
<1>6. PICK s : /\ Decodes(Letters, output, s)
               /\ Line(text, pos, output, s, buffer, holder, whitespace)
  BY Zenon, <1>4 DEF Writing, WrittenTo
<1>7. PICK c : c = input[pos + 1]
  BY Zenon
<1>8. /\ pos \in Nat /\ pos + 1 \in 1..Len(text) /\ pos + 1 \in 0..Len(text)
      /\ DOMAIN text = 1..Len(text)
  BY SMT, <1>1, <1>5
<1>9. c = text[pos + 1] /\ (White(c) \/ c \in 33..126)
  BY Zenon, <1>5, <1>7, <1>8, TextIs
<1>10. /\ command' = command /\ text' = text /\ way' = way /\ Letters' = Letters
       /\ Uncoded' = Uncoded /\ Unreadable' = Unreadable
  BY Zenon, <1>1, RunStays
<1>11. ASSUME phase' = "running",
              WrittenTo(Letters, text, pos + 1, output', buffer', holder', whitespace')
       PROVE  MorseInv'
  <2>1. Writing(Letters', text', input', pos', output', buffer', holder', whitespace')
    BY Zenon, <1>1, <1>5, <1>8, <1>10, <1>11 DEF Writing
  <2>2. MorseMessage'
    BY Zenon, <1>3, <1>10, <1>11, <2>1, ModesDiffer DEF MorseMessage
  <2> QED BY Zenon, <1>2, <1>10, <1>11, <2>2, ModesDiffer DEF MorseInv
<1>12. CASE c \in Blank
  <2>1. PICK spaced : spaced = WithBlank(buffer, holder, whitespace)
    BY Zenon
  <2>2. /\ output' = output \o Codes(spaced) /\ buffer' = Rest(spaced)
        /\ whitespace' = TRUE /\ phase' = phase /\ holder' = holder
    BY Zenon, <1>7, <1>12, <2>1, WhiteIs DEF encrypt2, WithBlank
  <2>3. output' = output \o CodesIn(Letters, spaced)
    BY Zenon, <1>2, <2>2, CodesAre
  <2>4. WrittenTo(Letters, text, pos + 1, output \o CodesIn(Letters, spaced), Rest(spaced),
                  holder, TRUE)
    <3>1. text[pos + 1] \in Blank
      BY Zenon, <1>9, <1>12
    <3> QED BY Zenon, <1>2, <1>5, <1>6, <1>8, <2>1, <3>1, LineBlank
  <2> QED BY Zenon, <1>1, <1>11, <2>2, <2>3, <2>4
<1>13. CASE c = NEWLINE
  <2>1. PICK ended : ended = WithEnd(buffer, whitespace)
    BY Zenon
  <2>2. /\ output' = output \o Codes(ended) \o <<NEWLINE>> /\ buffer' = <<>>
        /\ whitespace' = TRUE /\ phase' = phase /\ holder' = FALSE
    BY Zenon, <1>7, <1>13, <2>1, WhiteIs DEF encrypt2, WithEnd
  <2>3. output' = output \o CodesIn(Letters, ended) \o <<NEWLINE>>
    BY Zenon, <1>2, <2>2, CodesAre
  <2>4. WrittenTo(Letters, text, pos + 1, output \o CodesIn(Letters, ended) \o <<NEWLINE>>,
                  <<>>, FALSE, TRUE)
    <3>1. text[pos + 1] = NEWLINE
      BY Zenon, <1>9, <1>13
    <3> QED BY Zenon, <1>2, <1>5, <1>6, <1>8, <2>1, <3>1, LineNewLine
  <2> QED BY Zenon, <1>1, <1>11, <2>2, <2>3, <2>4
<1>14. CASE ~White(c) /\ c <= MorseLimit /\ morse(c) # <<>>
  <2>1. PICK coded : coded = buffer \o morse(c) \o <<"x">>
    BY Zenon
  <2>2. /\ output' = output \o Codes(coded) /\ buffer' = Rest(coded)
        /\ whitespace' = FALSE /\ phase' = phase /\ holder' = TRUE
    <3>1. ~(c > MorseLimit)
      <4>1. c \in 33..126 /\ c <= MorseLimit
        BY Zenon, <1>9, <1>14
      <4> QED BY ONLY SMT, <4>1 DEF MorseLimit
    <3> QED BY Zenon, <1>7, <1>14, <2>1, <3>1, WhiteIs DEF encrypt2
  <2>3. output' = output \o CodesIn(Letters, coded)
    BY Zenon, <1>2, <2>2, CodesAre
  <2>4. HasCode(text[pos + 1])
    BY Zenon, <1>9, <1>14 DEF HasCode
  <2>5. Word(buffer, morse(text[pos + 1]), coded)
    BY Zenon, <1>5, <1>6, <1>8, <1>9, <2>1, <2>4, BufferIs
  <2>6. WrittenTo(Letters, text, pos + 1, output \o CodesIn(Letters, coded), Rest(coded),
                  TRUE, FALSE)
    BY Zenon, <1>2, <1>5, <1>6, <1>8, <2>4, <2>5, LineLetter
  <2> QED BY Zenon, <1>1, <1>11, <2>2, <2>3, <2>6
<1>15. CASE ~White(c) /\ (c > MorseLimit \/ morse(c) = <<>>)
  <2>1. c > MorseLimit <=> ~(c <= MorseLimit)
    <3>1. c \in 33..126
      BY Zenon, <1>9, <1>15
    <3> QED BY SMT, <3>1 DEF MorseLimit
  <2>2. phase' = IF c > MorseLimit THEN "undefined" ELSE "failed"
    BY Zenon, <1>7, <1>15, <2>1, WhiteIs DEF encrypt2
  <2>3. Uncoded /\ (c > MorseLimit => Unreadable)
    BY Zenon, <1>2, <1>8, <1>9, <1>15, <2>1, ModesDiffer DEF Uncoded, Unreadable, InTable
  <2>4. MorseMessage'
    BY Zenon, <1>3, <1>10, <2>2, <2>3, ModesDiffer DEF MorseMessage
  <2> QED BY Zenon, <1>2, <1>3, <1>10, <2>2, <2>3, <2>4, ModesDiffer DEF MorseInv
<1>16. ~White(c) => c <= MorseLimit \/ c > MorseLimit
  BY SMT, <1>9 DEF MorseLimit
<1> QED BY Zenon, <1>12, <1>13, <1>14, <1>15, <1>16, WhiteIs

LEMMA encrypt2EndsKeepsMorse ==
    ASSUME Machine, MorseInv, encrypt2Ends
    PROVE  MorseInv'
<1>0. PICK ended : ended = Append(buffer, "x")
  BY Zenon
<1>1. /\ phase = "running" /\ mode.op = "-f" /\ mode.decrypt = FALSE /\ pos = Len(input)
      /\ phase' \in {"undefined", "done"} /\ (ended # XXX => phase' = "done")
      /\ output' = IF Len(ended) = 3 /\ ended # XXX THEN output \o Codes(ended) ELSE output
      /\ UNCHANGED run /\ UNCHANGED <<mode, table>>
  <2>1. PICK n : EndOfText("-f", FALSE, IF ended = XXX /\ n > 26 THEN "undefined" ELSE "done")
    BY Zenon, <1>0 DEF encrypt2Ends, XXX
  <2>2. output' = IF Len(ended) = 3 /\ ended # XXX THEN output \o Codes(ended) ELSE output
    BY Zenon, <1>0 DEF encrypt2Ends, XXX
  <2> QED BY Zenon, <2>1, <2>2 DEF EndOfText, Running, args
<1>2. /\ command.op = "-f" /\ table = Letters /\ Permutation(Letters, fm_alphabet)
      /\ way \in {"-e", "-d"} /\ mode.decrypt = (way = "-d")
      /\ way = "-e" => command.way = "-e"
      /\ MorseRun'
  BY Zenon, <1>1, MorseRuns
<1>3. way = "-e" /\ command.way = "-e"
  BY Zenon, <1>1, <1>2
<1>4. Writing(Letters, text, input, pos, output, buffer, holder, whitespace)
  BY Zenon, <1>1, <1>2, <1>3 DEF MorseInv, MorseMessage
<1>5. pos = Len(text) /\ text \in Seq(Nat)
  BY Zenon, <1>1, <1>4, TextIs DEF Writing
<1>6. PICK s : /\ Decodes(Letters, output, s)
               /\ Line(text, pos, output, s, buffer, holder, whitespace)
  BY Zenon, <1>4 DEF Writing, WrittenTo
<1>7. PICK e2 : e2 = IF Len(ended) = 3 /\ ended # XXX
                    THEN output \o CodesIn(Letters, ended) ELSE output
  BY Zenon
<1>8. /\ ended = XXX => pos # 0 /\ text[pos] \in Blank
      /\ \E s2 : Decodes(Letters, e2, s2) /\ Answers(e2, s2, Expected(text))
  <2>1. Finishes(Letters, text, pos, output, ended)
    BY Zenon, <1>0, <1>2, <1>5, <1>6, LineEnd
  <2> QED BY Zenon, <1>7, <2>1 DEF Finishes
<1>9. output' = e2
  BY Zenon, <1>1, <1>2, <1>7, CodesAre
<1>10. /\ command' = command /\ text' = text /\ way' = way /\ Letters' = Letters
       /\ Uncoded' = Uncoded /\ Unreadable' = Unreadable
  BY Zenon, <1>1, RunStays
<1>11. CASE phase' = "undefined"
  <2>1. phase' = "undefined" /\ Unreadable
    <3>1. ended = XXX
      BY Zenon, <1>1, <1>11, ModesDiffer
    <3> QED BY Zenon, <1>5, <1>8, <1>11, <3>1 DEF Unreadable
  <2>2. MorseMessage'
    BY Zenon, <1>3, <1>10, <2>1, ModesDiffer DEF MorseMessage
  <2> QED BY Zenon, <1>2, <1>10, <2>1, <2>2, ModesDiffer DEF MorseInv
<1>12. CASE phase' = "done"
  <2>1. phase' = "done" /\ \E s2 : Decodes(Letters, output', s2) /\ Answers(output', s2, Expected(text))
    BY Zenon, <1>1, <1>8, <1>9, <1>12
  <2>2. Recovers(Letters, text, output')
    BY Zenon, <2>1 DEF Recovers, Decodes
  <2>3. MorseMessage'
    BY Zenon, <1>3, <1>10, <2>1, <2>2, ModesDiffer DEF MorseMessage
  <2> QED BY Zenon, <1>2, <1>10, <2>1, <2>3, ModesDiffer DEF MorseInv
<1> QED BY Zenon, <1>1, <1>11, <1>12

LEMMA StateIs ==
    ASSUME NEW s \in States, s.ok, Holds(s, output, buffer, xTracker, charTracker)
    PROVE  State = s
<1>1. s = [ok |-> s.ok, out |-> s.out, buf |-> s.buf, xs |-> s.xs, last |-> s.last]
  <2>1. \A B, O, M : \A u \in [ok : B, out : O, buf : M, xs : Nat, last : Nat] :
            u = [ok |-> u.ok, out |-> u.out, buf |-> u.buf, xs |-> u.xs, last |-> u.last]
    BY ONLY SMT
  <2> QED BY Zenon, <2>1 DEF States
<1>2. s.ok = TRUE
  <2>1. \A B, O, M : \A u \in [ok : B, out : O, buf : M, xs : Nat, last : Nat] : u.ok \in B
    BY ONLY SMT
  <2>2. s.ok \in BOOLEAN
    BY Zenon, <2>1 DEF States
  <2> QED BY Zenon, <2>2
<1> QED BY Zenon, <1>1, <1>2 DEF State, Holds

\* What is read of a ciphertext, and the next character of it.
ReadsNext(t, e, f, n) ==
    /\ e \in Seq(Nat) /\ f[n] \in States /\ f[n].ok
    /\ n < Len(e) =>
          /\ n + 1 \in 0..Len(e) /\ f[n + 1] \in States /\ f[n + 1].ok
          /\ Readable(t, e[n + 1]) /\ f[n + 1] = Decoded(t, f[n], e[n + 1])

LEMMA DecodingIs ==
    ASSUME NEW t, NEW e, NEW f, Decoding(t, e, f), NEW n \in 0..Len(e)
    PROVE  ReadsNext(t, e, f, n)
<1>1. /\ e \in Seq(Nat) /\ f \in [0..Len(e) -> States] /\ f[0] = Start
      /\ \A i \in 1..Len(e) : f[i].ok /\ Readable(t, e[i]) /\ f[i] = Decoded(t, f[i - 1], e[i])
  BY Zenon DEF Decoding
<1>2. /\ n = 0 \/ n \in 1..Len(e)
      /\ n < Len(e) => n + 1 \in 0..Len(e) /\ n + 1 \in 1..Len(e) /\ (n + 1) - 1 = n
  BY SMT, <1>1
<1>3. f[n].ok
  BY Zenon, <1>1, <1>2, StartIs DEF Is
<1> QED BY Zenon, <1>1, <1>2, <1>3 DEF ReadsNext

LEMMA decrypt2KeepsMorse ==
    ASSUME Machine, MorseInv, decrypt2
    PROVE  MorseInv'
<1>1. /\ phase = "running" /\ mode.op = "-f" /\ mode.decrypt = TRUE
      /\ pos < Len(input) /\ pos' = pos + 1
      /\ UNCHANGED run /\ UNCHANGED <<mode, table>> /\ input' = input
  BY Zenon DEF decrypt2, More, Running, args
<1>2. /\ command.op = "-f" /\ table = Letters
      /\ way \in {"-e", "-d"} /\ mode.decrypt = (way = "-d")
      /\ MorseRun'
  BY Zenon, <1>1, MorseRuns
<1>3. way = "-d" /\ phase' \in {"running", "undefined"}
  <2>1. way = "-d"
    BY Zenon, <1>1, <1>2
  <2>2. phase' \in {phase, "undefined"}
    BY Zenon DEF decrypt2, Keep
  <2> QED BY Zenon, <1>1, <2>1, <2>2
<1>4. /\ command' = command /\ text' = text /\ way' = way /\ Letters' = Letters
      /\ Uncoded' = Uncoded /\ Unreadable' = Unreadable
  BY Zenon, <1>1, RunStays
<1>5. phase' # "failed"
  BY Zenon, <1>3, ModesDiffer
<1>6. ASSUME command.way = "-e" PROVE MorseMessage'
  <2>1. Reading(Letters, text, input, pos, output, buffer, xTracker, charTracker)
    BY Zenon, <1>1, <1>2, <1>3, <1>6 DEF MorseInv, MorseMessage
  <2>2. PICK f : /\ Decoding(Letters, input, f) /\ Answers(input, f[Len(input)], Expected(text))
                 /\ Holds(f[pos], output, buffer, xTracker, charTracker)
    BY Zenon, <2>1 DEF Reading
  <2>3. PICK c : c = input[pos + 1]
    BY Zenon
  <2>4. PICK s : s = f[pos + 1]
    BY Zenon
  <2>5. /\ f[pos] \in States /\ f[pos].ok /\ pos + 1 \in 0..Len(input)
        /\ s \in States /\ s.ok /\ Readable(Letters, c) /\ s = Decoded(Letters, f[pos], c)
    <3>1. pos \in 0..Len(input)
      BY Zenon, <2>1 DEF Reading
    <3>2. ReadsNext(Letters, input, f, pos)
      BY Zenon, <2>2, <3>1, DecodingIs
    <3> QED BY Zenon, <1>1, <2>3, <2>4, <3>2 DEF ReadsNext
  <2>6. State = f[pos] /\ State.buf = buffer
    <3>1. State = f[pos]
      BY Zenon, <2>2, <2>5, StateIs
    <3> QED BY Zenon, <3>1 DEF State
  <2>7. Keep(s)
    <3>1. CASE c = NEWLINE
      <4>1. PICK printed : printed = IF buffer # <<>> THEN PrintLetter(State) ELSE State
        BY Zenon
      <4>2. s = NewLine(State)
        BY Zenon, <2>5, <2>6, <3>1 DEF Decoded
      <4>3. printed.ok
        <5>1. NewLine(State).ok = printed.ok
          BY Zenon, <2>5, <2>6, <4>1, NewLineStays
        <5> QED BY Zenon, <2>5, <4>2, <5>1
      <4>4. s = [printed EXCEPT !.out = Append(@, NEWLINE), !.last = NEWLINE]
        BY Zenon, <2>6, <4>1, <4>2 DEF NewLine
      <4>5. Keep(IF printed.ok
                 THEN [printed EXCEPT !.out = Append(@, NEWLINE), !.last = NEWLINE]
                 ELSE printed)
        BY Zenon, <2>3, <3>1, <4>1 DEF decrypt2
      <4> QED BY Zenon, <4>3, <4>4, <4>5
    <3>2. CASE c # NEWLINE
      <4>1. \E i \in 1..26 : table[i] = c
        BY Zenon, <1>2, <2>5, <3>2 DEF Readable
      <4>2. PICK code : code = fractionated_table[Place(c)]
        BY Zenon
      <4>3. Keep(Symbol(Symbol(Symbol(State, code[1]), code[2]), code[3]))
        BY Zenon, <2>3, <3>2, <4>1, <4>2 DEF decrypt2
      <4>4. s = Symbol(Symbol(Symbol(State, code[1]), code[2]), code[3])
        BY Zenon, <1>2, <2>5, <2>6, <3>2, <4>2 DEF Decoded, Thrice, Place, PlaceIn
      <4> QED BY Zenon, <4>3, <4>4
    <3> QED BY Zenon, <3>1, <3>2
  <2>8. phase' = "running" /\ Holds(s, output', buffer', xTracker', charTracker')
    BY Zenon, <1>1, <2>5, <2>7 DEF Keep, Holds
  <2>9. Reading(Letters', text', input', pos', output', buffer', xTracker', charTracker')
    BY Zenon, <1>1, <1>4, <2>2, <2>4, <2>5, <2>8 DEF Reading
  <2> QED BY Zenon, <1>3, <1>4, <2>8, <2>9, ModesDiffer DEF MorseMessage
<1> QED BY Zenon, <1>2, <1>4, <1>5, <1>6 DEF MorseInv

LEMMA decrypt2EndsKeepsMorse ==
    ASSUME Machine, MorseInv, decrypt2Ends
    PROVE  MorseInv'
<1>0. PICK last : last = IF Len(input) > 0 /\ xTracker = 0 THEN PrintLetter(State) ELSE State
  BY Zenon
<1>1. /\ phase = "running" /\ mode.op = "-f" /\ mode.decrypt = TRUE /\ pos = Len(input)
      /\ phase' = (IF last.ok THEN "done" ELSE "undefined") /\ output' = last.out
      /\ UNCHANGED run /\ UNCHANGED <<mode, table>>
  BY Zenon, <1>0 DEF decrypt2Ends, EndOfText, Running, args
<1>2. /\ command.op = "-f" /\ way \in {"-e", "-d"} /\ mode.decrypt = (way = "-d")
      /\ MorseRun'
  BY Zenon, <1>1, MorseRuns
<1>3. way = "-d" /\ phase' # "failed"
  BY Zenon, <1>1, <1>2, ModesDiffer
<1>4. /\ command' = command /\ text' = text /\ way' = way /\ Letters' = Letters
      /\ Uncoded' = Uncoded /\ Unreadable' = Unreadable
  BY Zenon, <1>1, RunStays
<1>5. ASSUME command.way = "-e" PROVE MorseMessage'
  <2>1. Reading(Letters, text, input, pos, output, buffer, xTracker, charTracker)
    BY Zenon, <1>1, <1>2, <1>3, <1>5 DEF MorseInv, MorseMessage
  <2>2. PICK f : /\ Decoding(Letters, input, f) /\ Answers(input, f[Len(input)], Expected(text))
                 /\ Holds(f[pos], output, buffer, xTracker, charTracker)
    BY Zenon, <2>1 DEF Reading
  <2>3. State = f[pos]
    <3>1. pos \in 0..Len(input)
      BY Zenon, <2>1 DEF Reading
    <3>2. f[pos] \in States /\ f[pos].ok
      BY Zenon, <2>2, <3>1, DecodingIs DEF ReadsNext
    <3> QED BY Zenon, <2>2, <3>2, StateIs
  <2>4. last = Answer(input, f[Len(input)])
    <3>1. State.xs = xTracker
      BY Zenon DEF State
    <3> QED BY Zenon, <1>0, <1>1, <2>3, <3>1 DEF Answer
  <2>5. last.ok /\ last.out = Expected(text)
    BY Zenon, <2>2, <2>4 DEF Answers
  <2> QED BY Zenon, <1>1, <1>3, <1>4, <2>5, ModesDiffer DEF MorseMessage
<1> QED BY Zenon, <1>2, <1>3, <1>4, <1>5 DEF MorseInv

LEMMA NextKeepsMorse ==
    ASSUME SquareInv, MorseInv, [Next]_vars
    PROVE  MorseInv'
<1>0. Machine
  BY Zenon DEF SquareInv
<1>1. CASE validargs
  BY Zenon, <1>1, validargsKeepsMorse
<1>2. CASE encrypt \/ decrypt \/ PolybiusEnds
  BY Zenon, <1>0, <1>2, SquareKeepsMorse
<1>3. CASE encrypt2
  BY Zenon, <1>0, <1>3, encrypt2KeepsMorse
<1>4. CASE encrypt2Ends
  BY Zenon, <1>0, <1>4, encrypt2EndsKeepsMorse
<1>5. CASE decrypt2
  BY Zenon, <1>0, <1>5, decrypt2KeepsMorse
<1>6. CASE decrypt2Ends
  BY Zenon, <1>0, <1>6, decrypt2EndsKeepsMorse
<1>7. CASE Again
  BY Zenon, <1>0, <1>7, AgainKeepsMorse
<1>8. CASE UNCHANGED vars
  <2>1. /\ UNCHANGED run /\ phase' = phase /\ UNCHANGED <<mode, table>>
        /\ UNCHANGED <<input, pos, output>> /\ UNCHANGED morseState
    BY Zenon, <1>8 DEF vars, args, io
  <2> QED BY Zenon, <2>1, MorseStays
<1> QED BY Zenon, <1>1, <1>2, <1>3, <1>4, <1>5, <1>6, <1>7, <1>8 DEF Next, Program

-----------------------------------------------------------------------------
(* Theorems *)

LEMMA SquareInvStays == Spec => []SquareInv
<1>1. Init => SquareInv
  BY InitKeeps
<1>2. SquareInv /\ [Next]_vars => SquareInv'
  BY NextKeepsSquare
<1> QED BY <1>1, <1>2, PTL DEF Spec

LEMMA InvMeansPermutation == SquareInv => TableIsPermutation
<1> SUFFICES ASSUME SquareInv, phase = "running" PROVE TableIsPermutation
  BY Zenon DEF TableIsPermutation
<1>1. "-f" # "-p"
  BY SMT
<1>2. CASE command.op = "-p"
  <2>1. SquareSet
    BY Zenon, <1>2 DEF SquareInv, Machine
  <2>2. KeyAccepted(Chosen.key)
    BY Zenon, <2>1 DEF SquareSet, Fitting, Knowledge
  <2>3. Permutation(Square(Chosen), polybius_alphabet)
    BY Zenon, <2>2, AlphabetsAre, KeyMakesPermutation DEF Square, KeyAccepted
  <2> QED BY Zenon, <2>1, <2>3 DEF SquareSet, Permutation, TableIsPermutation
<1>3. CASE command.op # "-p"
  <2>1. MorseSet
    BY Zenon, <1>3 DEF SquareInv, Machine
  <2> QED BY Zenon, <1>1, <2>1 DEF MorseSet, Permutation, TableIsPermutation
<1> QED BY Zenon, <1>2, <1>3

\* Whatever key is on the command line, the table that valid_key and fillTable let the
\* program run with holds each character of the alphabet, and no other, once.
THEOREM TablesArePermutations == Spec => []TableIsPermutation
<1>1. Spec => []SquareInv
  BY SquareInvStays
<1>2. SquareInv => TableIsPermutation
  BY InvMeansPermutation
<1> QED BY <1>1, <1>2, PTL

LEMMA CiphersInvStays == Spec => [](SquareInv /\ MorseInv)
<1>1. Init => SquareInv /\ MorseInv
  BY Zenon, InitKeeps, InitKeepsMorse DEF SquareInv
<1>2. (SquareInv /\ MorseInv) /\ [Next]_vars => (SquareInv /\ MorseInv)'
  BY NextKeepsSquare, NextKeepsMorse
<1> QED BY <1>1, <1>2, PTL DEF Spec

\* What encrypt writes of a whole message decrypt reads back to it, whatever the key and
\* the size of the square; what encrypt2 writes decrypt2 reads back to the message as
\* fractionated Morse keeps it, whatever the key, wherever the symbols of a letter fall
\* among the letters they are written as, and where the end of a line cuts them off.
THEOREM MessagesReadBack == Spec => []ReadsBack
<1>1. Spec => [](SquareInv /\ MorseInv)
  BY CiphersInvStays
<1>2. SquareInv /\ MorseInv => ReadsBack
  <2>1. SUFFICES ASSUME SquareInv, MorseInv, phase = "done", way = "-d", command.way = "-e"
                 PROVE  IF command.op = "-p" THEN output = text ELSE output = Expected(text)
    BY Zenon DEF ReadsBack, Expected
  <2>2. command.op # "-p" => command.op = "-f"
    BY Zenon, <2>1 DEF MorseInv
  <2> QED BY Zenon, <2>1, <2>2 DEF SquareInv, Message, MorseInv, MorseMessage
<1> QED BY <1>1, <1>2, PTL

\* Where a run hangs, the key it was given explains it.
HangInv == phase = "hangs" => Looping

LEMMA NextKeepsHang ==
    ASSUME SquareInv, HangInv, [Next]_vars
    PROVE  HangInv'
<1>0. /\ \A how \in {"usage", "crashed", "help", "running", "failed", "undefined", "done", "args"} :
             how # "hangs"
      /\ command.op = "-p" => command.op # "-f"
  BY SMT
<1>1. command' = command => Looping' = Looping
  BY Zenon DEF Looping
<1>2. SUFFICES ASSUME phase' = "hangs" PROVE command' = command /\ Looping
  BY Zenon, <1>1 DEF HangInv
<1>3. PICK options : options = command.options /\ options \in Seq(Option)
                     /\ \A i \in DOMAIN options : options[i] \in Option
  <2>1. command.options \in Seq(Option)
    BY Zenon, CommandsAssumption DEF SquareInv, Machine, Option
  <2>2. PICK options \in Seq(Option) : options = command.options
    BY Zenon, <2>1
  <2>3. \A i \in DOMAIN options : options[i] \in Option
    BY ONLY SMT, <2>2
  <2> QED BY Zenon, <2>1, <2>2, <2>3
<1>4. CASE Polybius
  <2>1. PICK o : /\ command.op = "-p" /\ o = Options(options)
                 /\ \/ \E how \in {"usage", "crashed"} : Leave(how)
                    \/ o.end = "hang" /\ Leave("hangs")
                    \/ \E m, k, t : Accept(m, k, t)
    BY Zenon, <1>3, <1>4 DEF Polybius
  <2>2. o.end = "hang" /\ Leave("hangs")
    BY Zenon, <1>0, <1>2, <2>1 DEF Leave, Accept
  <2>3. PICK i \in DOMAIN options : HangsAt(options[i])
    BY Zenon, <1>3, <2>1, <2>2, OptionsHang
  <2> QED BY Zenon, <1>3, <2>1, <2>2, <2>3 DEF Looping, HangsAt, Leave, run
<1>5. CASE Fractionated
  <2>1. /\ command.op = "-f" /\ options # <<>>
        /\ options[1].flag = "-k"
        /\ \/ valid_key(options[1].arg, fm_alphabet) = "loops"
           \/ \E s \in Behind : Elements(options[1].arg) \cap Elements(s) # {}
        /\ Leave("hangs")
    BY Zenon, <1>0, <1>2, <1>3, <1>5 DEF Fractionated, Leave, Accept
  <2>2. 1 \in DOMAIN options
    BY ONLY SMT, <1>3, <2>1
  <2>3. options[1].arg \in Seq(Nat)
    BY Zenon, <1>3, <2>2 DEF Option
  <2>4. valid_key(options[1].arg, fm_alphabet) = "loops" => 91 \in Elements(options[1].arg)
    BY Zenon, <2>3, LoopingKeys
  <2> QED BY Zenon, <1>3, <2>1, <2>2, <2>4 DEF Looping, Leave, run
<1>6. CASE validargs
  BY Zenon, <1>0, <1>2, <1>4, <1>5, <1>6 DEF validargs, Leave
<1>7. CASE encrypt \/ decrypt \/ PolybiusEnds \/ encrypt2 \/ encrypt2Ends \/ decrypt2 \/ decrypt2Ends
  <2>1. phase = "running" /\ phase' \in {phase, "failed", "undefined", "done"}
    <3>1. CASE encrypt \/ decrypt
      BY Zenon, <3>1 DEF encrypt, decrypt, More, Running
    <3>2. CASE PolybiusEnds \/ encrypt2Ends \/ decrypt2Ends
      BY Zenon, <3>2 DEF PolybiusEnds, encrypt2Ends, decrypt2Ends, EndOfText, Running
    <3>3. CASE encrypt2
      BY Zenon, <3>3 DEF encrypt2, More, Running
    <3>4. CASE decrypt2
      BY Zenon, <3>4 DEF decrypt2, More, Running, Keep
    <3> QED BY Zenon, <1>7, <3>1, <3>2, <3>3, <3>4
  <2> QED BY Zenon, <1>0, <1>2, <2>1
<1>8. CASE Again
  BY Zenon, <1>0, <1>2, <1>8 DEF Again
<1>9. CASE UNCHANGED vars
  BY Zenon, <1>2, <1>9 DEF vars, run, HangInv
<1> QED BY Zenon, <1>6, <1>7, <1>8, <1>9 DEF Next, Program

\* The square's program finds every character it is given, and reads its own ciphertext
\* without going past its table; what stands behind fractionated Morse's tables decides a
\* run only where the text ends in a blank or has a character beyond the table, or where
\* the key makes the program hang, never what it reads of its own ciphertext; and a text
\* whose characters all have a code is not refused.
THEOREM OutcomesAreOwn == Spec => []OutcomeIsOwn
<1>1. Spec => [](SquareInv /\ MorseInv)
  BY CiphersInvStays
<1>2. Spec => []HangInv
  <2>1. Init => HangInv
    <3>1. "args" # "hangs"
      BY SMT
    <3> QED BY Zenon, <3>1 DEF Init, HangInv
  <2>2. SquareInv /\ HangInv /\ [Next]_vars => HangInv'
    BY NextKeepsHang
  <2> QED BY <1>1, <2>1, <2>2, PTL DEF Spec
<1>3. SquareInv /\ MorseInv /\ HangInv => OutcomeIsOwn
  <2>1. SUFFICES ASSUME SquareInv, MorseInv, HangInv
                 PROVE  /\ phase = "undefined" /\ command.way = "-e" =>
                              way = "-e" /\ command.op = "-f" /\ Unreadable
                        /\ phase = "failed" => Uncoded
    BY Zenon DEF OutcomeIsOwn, Unreadable, Uncoded, HangInv
  <2>2. phase \in {"undefined", "failed"} /\ command.op # "-p" => command.op = "-f"
    BY Zenon, <2>1 DEF MorseInv
  <2>3. phase = "failed" => command.op # "-p"
    BY Zenon, <2>1 DEF SquareInv, Machine
  <2>4. phase = "undefined" /\ command.way = "-e" => command.op # "-p"
    BY Zenon, <2>1 DEF SquareInv, Message
  <2> QED BY Zenon, <2>1, <2>2, <2>3, <2>4 DEF MorseInv, MorseMessage
<1> QED BY <1>1, <1>2, <1>3, PTL
=============================================================================
