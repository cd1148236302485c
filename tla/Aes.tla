-------------------------------- MODULE Aes ---------------------------------
(***************************************************************************)
(* The block cipher of libsrtp (aes.c, gf2_8.c), for the processors that the *)
(* preprocessor tells apart.  An octet is a number below 256, a block a       *)
(* function on 0..15; the gateway is built with CPU_CISC for a little-endian  *)
(* machine.  The rounds for CPU_16 are left out: they do not compile.         *)
(***************************************************************************)
EXTENDS Integers, Sequences, TLC

Octet == 0 .. 255
Index == 0 .. 15

\* f, with its values worked out once.
table(f) == f @@ <<>>

bit(x, i) == (x \div 2 ^ i) % 2
fromBits(b) == b[0] + 2 * b[1] + 4 * b[2] + 8 * b[3]
               + 16 * b[4] + 32 * b[5] + 64 * b[6] + 128 * b[7]

Exor == table([x \in Octet |-> table([y \in Octet |->
           fromBits([i \in 0 .. 7 |-> (bit(x, i) + bit(y, i)) % 2])])])
xor(x, y) == Exor[x][y]
xorAll(s) == LET sum[i \in 0 .. Len(s)] == IF i = 0 THEN 0 ELSE xor(sum[i - 1], s[i])
             IN  sum[Len(s)]
v128_xor(b, c) == table([i \in DOMAIN b |-> xor(b[i], c[i])])

-----------------------------------------------------------------------------
(* The field.                                                              *)

\* The result is kept in an octet.
gf2_8_shift(z) == IF z >= 128 THEN xor((2 * z) % 256, 27) ELSE 2 * z

\* x times the powers of the generator, for the bits of y.
gf2_8_multiply(x, y) ==
  LET shifted[i \in 0 .. 7] == IF i = 0 THEN x ELSE gf2_8_shift(shifted[i - 1])
  IN  xorAll([i \in 1 .. 8 |->
                IF bit(y, i - 1) = 1 THEN shifted[i - 1] ELSE 0])

gf2_8_compute_inverse(x) ==
  IF x = 0 THEN 0 ELSE CHOOSE i \in Octet : gf2_8_multiply(i, x) = 1

-----------------------------------------------------------------------------
(* The tables.                                                             *)

rotateOctet(x, n) == ((x * 2 ^ n) % 256) + ((x * 2 ^ n) \div 256)

aes_sbox ==
  table([x \in Octet |->
           LET b == gf2_8_compute_inverse(x)
           IN  xorAll(<<99, b, rotateOctet(b, 1), rotateOctet(b, 2),
                        rotateOctet(b, 3), rotateOctet(b, 4)>>)])

aes_inv_sbox == table([y \in Octet |-> CHOOSE x \in Octet : aes_sbox[x] = y])

\* A word as a value is a function from 0..3, of the octet with weight 256^k.  A table
\* of words is given by the factors that take what is in the box to the octets.
valueTable(box, factors) ==
  table([x \in Octet |->
           table([k \in 0 .. 3 |-> gf2_8_multiply(box[x], factors[k + 1])])])

(* The factors of the tables for little-endian machines...                 *)
T0 == <<2, 1, 1, 3>>
T1 == <<3, 2, 1, 1>>
T2 == <<1, 3, 2, 1>>
T3 == <<1, 1, 3, 2>>
U0 == <<14, 9, 13, 11>>
U1 == <<11, 14, 9, 13>>
U2 == <<13, 11, 14, 9>>
U3 == <<9, 13, 11, 14>>

(* ... for big-endian ones ...                                             *)
bigT0 == <<3, 1, 1, 2>>
bigT1 == <<1, 1, 2, 3>>
bigT2 == <<1, 2, 3, 1>>
bigT3 == <<2, 3, 1, 1>>
bigU0 == <<11, 13, 9, 14>>
bigU1 == <<13, 9, 14, 11>>
bigU2 == <<9, 14, 11, 13>>
bigU3 == <<14, 11, 13, 9>>

(* ... and of the S-boxes as words, for the rounds of CPU_RISC.             *)
T4 == <<1, 1, 1, 1>>
U4 == <<1, 1, 1, 1>>

\* What the compiler is told: the kind of processor and its byte order.
Builds == [risc : BOOLEAN, big : BOOLEAN]
cisc == [risc |-> FALSE, big |-> FALSE]

\* The four tables of a byte order.
tablesOf(box, little, big) ==
  table([b \in BOOLEAN |->
           table([k \in 1 .. 4 |-> valueTable(box, IF b THEN big[k] ELSE little[k])])])
forwardTables  == tablesOf(aes_sbox, <<T0, T1, T2, T3>>, <<bigT0, bigT1, bigT2, bigT3>>)
backwardTables == tablesOf(aes_inv_sbox, <<U0, U1, U2, U3>>, <<bigU0, bigU1, bigU2, bigU3>>)
forwardWords   == valueTable(aes_sbox, T4)
backwardWords  == valueTable(aes_inv_sbox, U4)

-----------------------------------------------------------------------------
(* Expanded keys, as [num_rounds, round].                                   *)

word(block, w) == [i \in 0 .. 3 |-> block[(4 * w) + i]]

\* Between the octets of a word in memory and its value, either way.
swapped(w, build) == IF build.big THEN [i \in 0 .. 3 |-> w[3 - i]] ELSE w

\* The block whose words have the values column(0) to column(3).
stored(column(_), build) ==
  table([i \in Index |-> swapped(column(i \div 4), build)[i % 4]])

\* A round key from the word that its first word starts as and the round key
\* that its words are combined with.
nextRoundKey(first, back) ==
  table([i \in Index |->
           xorAll(<<first[i % 4]>> \o [n \in 1 .. (i \div 4) + 1 |-> back[(4 * (n - 1)) + (i % 4)]])])

roundConstant[n \in Nat] == IF n = 0 THEN 1 ELSE gf2_8_shift(roundConstant[n - 1])

\* The last word, substituted, and with the constant rotated by one octet.
munged(block, rotate, rc) ==
  [i \in 0 .. 3 |-> xor(aes_sbox[block[12 + ((i + rotate) % 4)]],
                        IF i = 0 THEN rc ELSE 0)]

aes_128_expand_encryption_key(key) ==
  LET upTo[i \in 0 .. 10] ==      \* the round keys 0 to i
        IF i = 0 THEN <<key>>
        ELSE LET r == upTo[i - 1]
             IN  Append(r, nextRoundKey(munged(r[i], 1, roundConstant[i - 1]), r[i]))
      all == upTo[10]
  IN  [num_rounds |-> 10, round |-> [i \in 0 .. 10 |-> all[i + 1]]]

aes_256_expand_encryption_key(key) ==
  LET half(i) == [j \in Index |-> key[(16 * i) + j]]
      upTo[i \in 1 .. 14] ==      \* the round keys 0 to i
        IF i = 1 THEN <<half(0), half(1)>>
        ELSE LET r == upTo[i - 1]
                 last == r[i]
             IN  Append(r, nextRoundKey(IF i % 2 = 0
                                        THEN munged(last, 1, roundConstant[(i \div 2) - 1])
                                        ELSE munged(last, 0, 0),
                                        r[i - 1]))
      all == upTo[14]
  IN  [num_rounds |-> 14, round |-> [i \in 0 .. 14 |-> all[i + 1]]]

\* Keys of 16 and of 32 octets are supported.
aes_expand_encryption_key(key) ==
  IF DOMAIN key = 0 .. 15 THEN aes_128_expand_encryption_key(key)
                          ELSE aes_256_expand_encryption_key(key)

\* The words of a block through the S-box and then the U-tables: octet by octet in
\* memory, or from the most significant one.
inverseMixColumns(block, build) ==
  LET octet(w, k) == IF build.risc THEN swapped(word(block, w), build)[3 - k]
                                   ELSE block[(4 * w) + k]
      column(w)   == [i \in 0 .. 3 |->
                        xorAll([k \in 1 .. 4 |->
                          backwardTables[build.big][k][aes_sbox[octet(w, k - 1)]][i]])]
  IN  stored(column, build)

\* The round keys of an expanded key in the opposite order, the inner ones with mixed
\* columns; for as many rounds as the context said BEFORE the key was expanded in it.
backward(e, before, build) ==
  LET outer == 0 .. (before \div 2) - 1
      reversed == [i \in DOMAIN e.round |->
                     IF i \in outer \/ before - i \in outer THEN e.round[before - i]
                                                         ELSE e.round[i]]
  IN  [e EXCEPT !.round = table(
         [i \in DOMAIN e.round |-> IF i \in 1 .. before - 1
                                   THEN inverseMixColumns(reversed[i], build)
                                   ELSE reversed[i]])]

\* A plausible slip: the first and the last key with mixed columns, too.
backwardAll(e, before, build) ==
  [e EXCEPT !.round = table(
     [i \in DOMAIN e.round |-> inverseMixColumns(e.round[before - i], build)])]

aes_expand_decryption_keyAll(key, before, build) ==
  backwardAll(aes_expand_encryption_key(key), before, build)

aes_expand_decryption_key(key, before, build) ==
  backward(aes_expand_encryption_key(key), before, build)

-----------------------------------------------------------------------------
(* Rounds.                                                                 *)

\* Octet k of word w for the tables: CPU_CISC takes it from memory, CPU_RISC by a
\* shift that depends on the byte order.
octetOf(state, w, k, build) ==
  IF build.risc THEN swapped(word(state, w % 4), build)[IF build.big THEN 3 - k ELSE k]
                ELSE state[(4 * (w % 4)) + k]

\* Column w takes its octets along the diagonal.
aes_round(state, key, build) ==
  LET column(w) == [i \in 0 .. 3 |->
                      xorAll([k \in 1 .. 4 |->
                        forwardTables[build.big][k]
                          [octetOf(state, w + k - 1, k - 1, build)][i]])]
  IN  v128_xor(stored(column, build), key)

\* Back along the diagonal; the little-endian rounds of CPU_RISC go forward.
aes_inv_round(state, key, build) ==
  LET from(w, k) == IF build.risc /\ ~build.big THEN w + k - 1 ELSE w - k + 1
      column(w)  == [i \in 0 .. 3 |->
                       xorAll([k \in 1 .. 4 |->
                         backwardTables[build.big][k]
                           [octetOf(state, from(w, k), k - 1, build)][i]])]
  IN  v128_xor(stored(column, build), key)

\* The octet of weight i of every word through a table of words, from the word that is
\* as many further in the direction dir as the octet is from the most significant.
masked(box, state, dir, build) ==
  LET column(w) ==
        [i \in 0 .. 3 |->
           box[swapped(word(state, (w + (dir * (3 - i))) % 4), build)[i]][i]]
  IN  stored(column, build)

\* Substitution, and row r rotated by r to the left, or to the right.
aes_final_round(state, key, build) ==
  v128_xor(IF build.risc THEN masked(forwardWords, state, 1, build)
           ELSE [i \in Index |-> aes_sbox[state[(i + (4 * (i % 4))) % 16]]], key)

aes_inv_final_round(state, key, build) ==
  v128_xor(IF build.risc THEN masked(backwardWords, state, -1, build)
           ELSE [i \in Index |-> aes_inv_sbox[state[(i - (4 * (i % 4))) % 16]]], key)

aes_encrypt(plaintext, k, build) ==
  LET s[i \in 0 .. k.num_rounds - 1] ==
        IF i = 0 THEN v128_xor(plaintext, k.round[0])
                 ELSE aes_round(s[i - 1], k.round[i], build)
  IN  aes_final_round(s[k.num_rounds - 1], k.round[k.num_rounds], build)

aes_decrypt(ciphertext, k, build) ==
  LET s[i \in 0 .. k.num_rounds - 1] ==
        IF i = 0 THEN v128_xor(ciphertext, k.round[0])
                 ELSE aes_inv_round(s[i - 1], k.round[i], build)
  IN  aes_inv_final_round(s[k.num_rounds - 1], k.round[k.num_rounds], build)
=============================================================================
