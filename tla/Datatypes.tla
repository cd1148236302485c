------------------------------ MODULE Datatypes ------------------------------
(***************************************************************************)
(* Bits and text: the 128-bit value and the bit vector of libsrtp           *)
(* (datatypes.c, datatypes.h), its hexadecimal and base 64 strings, and the  *)
(* base 64 of the gateway (base64.cpp).                                     *)
(*                                                                         *)
(* A word of 32 bits is the set of the positions of its ones; a value is a   *)
(* function from 0, 1, ... to words.  An octet is a number below 256, a text  *)
(* is a sequence of strings of one character.                               *)
(***************************************************************************)
EXTENDS Integers, Sequences, FiniteSets, SequencesExt

bits_per_word == 32
Positions == 0 .. bits_per_word - 1

up(w, n)   == {i + n : i \in w} \cap Positions
down(w, n) == {i - n : i \in w} \cap Positions

\* The assignments w[k] = value(w, k), in the order given, on one and the same memory.
inPlace(words, order, value(_, _)) ==
  LET w[j \in 0 .. Len(order)] ==
        IF j = 0 THEN words
        ELSE [w[j - 1] EXCEPT ![order[j]] = value(w[j - 1], order[j])]
  IN  w[Len(order)]

bitvector_get_bit(x, bit) == (bit % bits_per_word) \in x[bit \div bits_per_word]
bitvector_set_bit(x, bit) == [x EXCEPT ![bit \div bits_per_word] = @ \cup {bit % bits_per_word}]
bitvector_clear_bit(x, bit) == [x EXCEPT ![bit \div bits_per_word] = @ \ {bit % bits_per_word}]

v128_get_bit(x, bit) == bitvector_get_bit(x, bit)
v128_set_bit_to(x, bit, value) ==
  IF value THEN bitvector_set_bit(x, bit) ELSE bitvector_clear_bit(x, bit)

\* The length in bits is rounded up to whole words, all of them zero.
bitvector_alloc(length) ==
  [k \in 0 .. ((length + bits_per_word - 1) \div bits_per_word) - 1 |-> {}]

bitvector_set_to_zero(x) == [k \in DOMAIN x |-> {}]

\* Bits move to lower places, and the words are written from the first to the last.
bitvector_left_shift(x, shift) ==
  LET words == Cardinality(DOMAIN x)
      base == shift \div bits_per_word
      bit  == shift % bits_per_word
      value(w, k) == down(w[k + base], bit)
                       \cup IF k + base + 1 < words THEN up(w[k + base + 1], bits_per_word - bit)
                                                   ELSE {}
      moved == inPlace(x, [j \in 1 .. words - base |-> j - 1], value)
  IN  IF shift >= bits_per_word * words THEN bitvector_set_to_zero(x)
      ELSE [k \in DOMAIN x |-> IF k < words - base THEN moved[k] ELSE {}]

v128_left_shift(x, shift) == bitvector_left_shift(x, shift)

\* Plausible slip: the words in the other order, so that some are read after they
\* have been written.
v128_right_shiftForward(x, shift) ==
  LET base == shift \div bits_per_word
      bit  == shift % bits_per_word
      value(w, k) == up(w[k - base], bit)
                       \cup IF k > base THEN down(w[k - base - 1], bits_per_word - bit) ELSE {}
      moved == inPlace(x, [j \in 1 .. 4 - base |-> base + j - 1], value)
  IN  IF shift > 127 THEN bitvector_set_to_zero(x)
      ELSE [k \in 0 .. 3 |-> IF k >= base THEN moved[k] ELSE {}]

\* Bits move to higher places, and the words are written from the last to the first.
v128_right_shift(x, shift) ==
  LET base == shift \div bits_per_word
      bit  == shift % bits_per_word
      value(w, k) == up(w[k - base], bit)
                       \cup IF k > base THEN down(w[k - base - 1], bits_per_word - bit) ELSE {}
      moved == inPlace(x, [j \in 1 .. 4 - base |-> 4 - j], value)
  IN  IF shift > 127 THEN bitvector_set_to_zero(x)
      ELSE [k \in 0 .. 3 |-> IF k >= base THEN moved[k] ELSE {}]

\* Every word from its highest bit on, as many characters as there is room for.
bitvector_bit_string(x, len) ==
  LET digit(i) == IF 31 - (i % bits_per_word) \in x[i \div bits_per_word] THEN "1" ELSE "0"
      shown == bits_per_word * Cardinality(DOMAIN x)
  IN  [i \in 1 .. (IF shown < len - 1 THEN shown ELSE len - 1) |-> digit(i - 1)]

v128_bit_string(x) == bitvector_bit_string(x, 129)

\* The ones in an octet.
octet_weight ==
  << 0, 1, 1, 2, 1, 2, 2, 3, 1, 2, 2, 3, 2, 3, 3, 4, 1, 2, 2, 3, 2, 3, 3, 4, 2, 3, 3, 4, 3, 4, 4, 5,
     1, 2, 2, 3, 2, 3, 3, 4, 2, 3, 3, 4, 3, 4, 4, 5, 2, 3, 3, 4, 3, 4, 4, 5, 3, 4, 4, 5, 4, 5, 5, 6,
     1, 2, 2, 3, 2, 3, 3, 4, 2, 3, 3, 4, 3, 4, 4, 5, 2, 3, 3, 4, 3, 4, 4, 5, 3, 4, 4, 5, 4, 5, 5, 6,
     2, 3, 3, 4, 3, 4, 4, 5, 3, 4, 4, 5, 4, 5, 5, 6, 3, 4, 4, 5, 4, 5, 5, 6, 4, 5, 5, 6, 5, 6, 6, 7,
     1, 2, 2, 3, 2, 3, 3, 4, 2, 3, 3, 4, 3, 4, 4, 5, 2, 3, 3, 4, 3, 4, 4, 5, 3, 4, 4, 5, 4, 5, 5, 6,
     2, 3, 3, 4, 3, 4, 4, 5, 3, 4, 4, 5, 4, 5, 5, 6, 3, 4, 4, 5, 4, 5, 5, 6, 4, 5, 5, 6, 5, 6, 6, 7,
     2, 3, 3, 4, 3, 4, 4, 5, 3, 4, 4, 5, 4, 5, 5, 6, 3, 4, 4, 5, 4, 5, 5, 6, 4, 5, 5, 6, 5, 6, 6, 7,
     3, 4, 4, 5, 4, 5, 5, 6, 4, 5, 5, 6, 5, 6, 6, 7, 4, 5, 5, 6, 5, 6, 6, 7, 5, 6, 6, 7, 6, 7, 7, 8 >>

octet_get_weight(octet) == octet_weight[octet + 1]

-----------------------------------------------------------------------------
(* Hexadecimal.                                                            *)

MAX_PRINT_STRING_LEN == 1024

Digits == << "0", "1", "2", "3", "4", "5", "6", "7", "8", "9", "a", "b", "c", "d", "e", "f" >>
Capitals == << "A", "B", "C", "D", "E", "F" >>

nibble_to_hex_char(nibble) == Digits[nibble + 1]

hex_char_to_nibble(c) ==
  IF Contains(Digits, c) THEN CHOOSE i \in 0 .. 15 : Digits[i + 1] = c
  ELSE IF Contains(Capitals, c) THEN 9 + CHOOSE i \in 1 .. 6 : Capitals[i] = c
  ELSE -1

is_hex_string(s) == \A i \in DOMAIN s : hex_char_to_nibble(s[i]) # -1

\* Two characters to an octet, in pairs up to the limit: a limit that is odd lets
\* one character too many through, and the end of the string comes after it.
octet_string_hex_string(s) ==
  LET limit == IF 2 * Len(s) > MAX_PRINT_STRING_LEN THEN MAX_PRINT_STRING_LEN - 1 ELSE 2 * Len(s)
      digit(i) == LET octet == s[(i + 1) \div 2]
                  IN  nibble_to_hex_char(IF i % 2 = 1 THEN octet \div 16 ELSE octet % 16)
  IN  [i \in 1 .. 2 * ((limit + 1) \div 2) |-> digit(i)]

v128_hex_string(octets) == octet_string_hex_string(octets)

\* How many characters decoders that take two at a time understand: up to the first that
\* has no code, among those that the length, rounded up to a pair, lets them read.
understood(codes) ==
  LET bad == {i \in DOMAIN codes : codes[i] = -1}
  IN  IF bad = {} THEN Len(codes) ELSE Min(bad) - 1

hex_string_to_octet_string(hex, len) ==
  LET nibbles == [i \in 1 .. 2 * ((len + 1) \div 2) |-> hex_char_to_nibble(hex[i])]
      hex_len == understood(nibbles)
  IN  [hex_len |-> hex_len,
       raw |-> [i \in 1 .. hex_len \div 2 |-> (16 * nibbles[2 * i - 1]) + nibbles[2 * i]]]

\* 1 when the strings differ.
octet_string_is_eq(a, b, len) == IF \E i \in 1 .. len : a[i] # b[i] THEN 1 ELSE 0

-----------------------------------------------------------------------------
(* Base 64.                                                                *)

base64_chars ==
  << "A", "B", "C", "D", "E", "F", "G", "H", "I", "J", "K", "L", "M", "N", "O", "P",
     "Q", "R", "S", "T", "U", "V", "W", "X", "Y", "Z", "a", "b", "c", "d", "e", "f",
     "g", "h", "i", "j", "k", "l", "m", "n", "o", "p", "q", "r", "s", "t", "u", "v",
     "w", "x", "y", "z", "0", "1", "2", "3", "4", "5", "6", "7", "8", "9", "+", "/" >>

is_base64(c) == Contains(base64_chars, c)
sextet(c) == (CHOOSE i \in 1 .. 64 : base64_chars[i] = c) - 1

base64_char_to_sextet(c) == IF c = "=" THEN 64 ELSE IF is_base64(c) THEN sextet(c) ELSE -1

\* Up to three octets as four characters, the missing ones as signs of equality.
quantum(octets) ==
  LET o(i) == IF i <= Len(octets) THEN octets[i] ELSE 0
      s == << o(1) \div 4, (16 * (o(1) % 4)) + (o(2) \div 16),
              (4 * (o(2) % 16)) + (o(3) \div 64), o(3) % 64 >>
  IN  [i \in 1 .. 4 |-> IF i <= Len(octets) + 1 THEN base64_chars[s[i] + 1] ELSE "="]

base64_encode(octets) ==
  LET group(g) == SubSeq(octets, (3 * g) - 2, IF 3 * g < Len(octets) THEN 3 * g ELSE Len(octets))
  IN  FlattenSeq([g \in 1 .. (Len(octets) + 2) \div 3 |-> quantum(group(g))])

\* Plausible slip: the last, incomplete group is dropped.
base64_decodeWhole(text) ==
  LET bad  == {i \in 1 .. Len(text) : ~is_base64(text[i])}
      size == IF bad = {} THEN Len(text) ELSE Min(bad) - 1
      s(i) == sextet(text[i])
      octet(i) == LET p == i + ((i - 1) \div 3) IN
                  CASE i % 3 = 1 -> (4 * s(p)) + (s(p + 1) \div 16)
                    [] i % 3 = 2 -> (16 * (s(p) % 16)) + (s(p + 1) \div 4)
                    [] i % 3 = 0 -> (64 * (s(p) % 4)) + s(p + 1)
  IN  [i \in 1 .. 3 * (size \div 4) |-> octet(i)]

\* The characters up to the first that does not belong: four make three octets, and
\* of the last ones, too few, n make n - 1.
base64_decode(text) ==
  LET bad  == {i \in 1 .. Len(text) : ~is_base64(text[i])}
      size == IF bad = {} THEN Len(text) ELSE Min(bad) - 1
      s(i) == sextet(text[i])
      octet(i) == LET p == i + ((i - 1) \div 3) IN
                  CASE i % 3 = 1 -> (4 * s(p)) + (s(p + 1) \div 16)
                    [] i % 3 = 2 -> (16 * (s(p) % 16)) + (s(p + 1) \div 4)
                    [] i % 3 = 0 -> (64 * (s(p) % 4)) + s(p + 1)
  IN  [i \in 1 .. (3 * (size \div 4)) + (IF size % 4 > 1 THEN (size % 4) - 1 ELSE 0) |-> octet(i)]

\* Whatever its comment says, two characters make one octet, as hexadecimal ones do;
\* of the first sextet the two low bits are kept, a sign of equality is a 64.
base64_string_to_octet_string(base64, len) ==
  LET sextets == [i \in 1 .. 2 * ((len + 1) \div 2) |-> base64_char_to_sextet(base64[i])]
      base64_len == understood(sextets)
      high(i) == {j \in {6, 7} : (sextets[2 * i - 1] \div 2 ^ (j - 6)) % 2 = 1}
      low(i)  == {j \in 0 .. 6 : (sextets[2 * i] \div 2 ^ j) % 2 = 1}
  IN  [base64_len |-> base64_len,
       raw |-> [i \in 1 .. base64_len \div 2 |-> high(i) \cup low(i)]]
=============================================================================
