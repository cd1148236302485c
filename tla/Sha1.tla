-------------------------------- MODULE Sha1 ---------------------------------
(***************************************************************************)
(* The hash function (sha1.c) and the authentication function on top of it    *)
(* (hmac.c).  A word of 32 bits is the set of the positions of its ones; an   *)
(* octet is a number below 256; a message is a sequence of octets.            *)
(***************************************************************************)
EXTENDS Integers, Sequences

Bit == 0 .. 31

exor(x, y)   == (x \ y) \cup (y \ x)
rotate(x, n) == {(i + n) % 32 : i \in x}

\* The sum without the carries, and the carries added to it.
plus(x, y) ==
  LET sum[a \in SUBSET Bit, b \in SUBSET Bit] ==
        IF a \cap b = {} THEN a \cup b
        ELSE sum[exor(a, b), {i + 1 : i \in a \cap b} \ {32}]
  IN  sum[x, y]

\* The word of four octets, the most significant first, and the way back.
be32(o1, o2, o3, o4) ==
  {i \in Bit : ((<<o4, o3, o2, o1>>[(i \div 8) + 1]) \div 2 ^ (i % 8)) % 2 = 1}
octetAt(x, i) ==
  LET one(j) == IF (8 * (3 - i)) + j \in x THEN 2 ^ j ELSE 0
  IN  one(0) + one(1) + one(2) + one(3) + one(4) + one(5) + one(6) + one(7)

f0(B, C, D) == (B \cap C) \cup (D \ B)
f1(B, C, D) == exor(B, exor(C, D))
f2(B, C, D) == (B \cap C) \cup (B \cap D) \cup (C \cap D)
f3(B, C, D) == exor(B, exor(C, D))

SHA_K0 == be32(90, 130, 121, 153)
SHA_K1 == be32(110, 217, 235, 161)
SHA_K2 == be32(143, 27, 188, 220)
SHA_K3 == be32(202, 98, 193, 214)

\* A sequence of words after steps first to last of a loop, the later half of them
\* after the earlier one.
repeated(step(_, _), words, first, last) ==
  LET run[s \in Seq(SUBSET Bit), from \in 1 .. 80, to \in 1 .. 80] ==
        LET middle == (from + to) \div 2
        IN  IF from = to THEN step(s, from) ELSE run[run[s, from, middle], middle + 1, to]
  IN  run[words, first, last]

\* The eighty words that the first sixteen expand to.
expandedWords(first) ==
  LET next(W, t) ==
        Append(W, rotate(exor(exor(W[t - 3], W[t - 8]), exor(W[t - 14], W[t - 16])), 1))
  IN  repeated(next, first, 17, 80)

\* The round for word t of W, of the words A to E.
round(s, t, W) ==
  LET f == CASE t <= 20          -> plus(f0(s[2], s[3], s[4]), SHA_K0)
             [] t \in 21 .. 40   -> plus(f1(s[2], s[3], s[4]), SHA_K1)
             [] t \in 41 .. 60   -> plus(f2(s[2], s[3], s[4]), SHA_K2)
             [] t > 60           -> plus(f3(s[2], s[3], s[4]), SHA_K3)
  IN  <<plus(plus(rotate(s[1], 5), f), plus(s[5], W[t])), s[1], rotate(s[2], 30), s[3], s[4]>>

\* The eighty rounds over the words W, added to H.
rounds(W, H) ==
  LET next(s, t) == round(s, t, W)
      added(s) == [i \in 1 .. 5 |-> plus(H[i], s[i])]
  IN  added(repeated(next, H, 1, 80))

compressed(first, H) == rounds(expandedWords(first), H)

wordsOf(octets) ==
  [i \in 1 .. Len(octets) \div 4 |->
     be32(octets[(4 * i) - 3], octets[(4 * i) - 2], octets[(4 * i) - 1], octets[4 * i])]

sha1_core(M, H) == compressed(wordsOf(M), H)

-----------------------------------------------------------------------------
(* The context: the state vector, the octets that fill the message buffer so far *)
(* and the count of bits.                                                      *)

sha1_init == [H |-> <<be32(103, 69, 35, 1), be32(239, 205, 171, 137),
                      be32(152, 186, 220, 254), be32(16, 50, 84, 118),
                      be32(195, 210, 225, 240)>>,
              buffer |-> <<>>, num_bits_in_msg |-> 0]

\* A plausible slip: what was in the buffer is forgotten when it is full.
sha1_updateForgets(ctx, msg) ==
  LET full   == Len(ctx.buffer) + Len(msg) >= 64
      all    == IF full THEN msg ELSE ctx.buffer \o msg
      blocks == Len(all) \div 64
      H[b \in 0 .. blocks] ==
        IF b = 0 THEN ctx.H
                 ELSE LET before == H[b - 1]
                      IN  sha1_core(SubSeq(all, (64 * b) - 63, 64 * b), before)
  IN  [H |-> H[blocks],
       buffer |-> SubSeq(all, (64 * blocks) + 1, Len(all)),
       num_bits_in_msg |-> ctx.num_bits_in_msg + (8 * Len(msg))]

\* Every full buffer of 64 octets is compressed at once.
sha1_update(ctx, msg) ==
  LET all    == ctx.buffer \o msg
      blocks == Len(all) \div 64
      H[b \in 0 .. blocks] ==
        IF b = 0 THEN ctx.H
                 ELSE LET before == H[b - 1]
                      IN  sha1_core(SubSeq(all, (64 * b) - 63, 64 * b), before)
  IN  [H |-> H[blocks],
       buffer |-> SubSeq(all, (64 * blocks) + 1, Len(all)),
       num_bits_in_msg |-> ctx.num_bits_in_msg + (8 * Len(msg))]

zeros(n) == [i \in 1 .. n |-> 0]

octetsOf(H) == [i \in 1 .. 20 |-> octetAt(H[((i - 1) \div 4) + 1], (i - 1) % 4)]

\* The mark behind the message; with less than eight octets left after it, the count
\* of bits goes into a block of its own.
sha1_final(ctx) ==
  LET n     == Len(ctx.buffer)
      count == <<{}, {i \in 0 .. 30 : (ctx.num_bits_in_msg \div 2 ^ i) % 2 = 1}>>
      first == wordsOf(ctx.buffer \o <<128>> \o zeros(63 - n))
      fits  == n < 56
  IN  octetsOf(compressed((IF fits THEN SubSeq(first, 1, 14) ELSE [i \in 1 .. 14 |-> {}]) \o count,
                          IF fits THEN ctx.H ELSE compressed(first, ctx.H)))

sha1(msg) == sha1_final(sha1_update(sha1_init, msg))

-----------------------------------------------------------------------------
(* The authentication function, keys up to twenty octets.                    *)

octetExor(x, y) == octetAt(exor(be32(0, 0, 0, x), be32(0, 0, 0, y)), 3)

\* The key under a constant, and the constant behind it.
padded(key, constant) ==
  [i \in 1 .. 64 |-> IF i <= Len(key) THEN octetExor(key[i], constant) ELSE constant]

keyed(key, init) == [opad |-> padded(key, 92), init_ctx |-> init, ctx |-> init]
hmac_init(key) == keyed(key, sha1_update(sha1_init, padded(key, 54)))

hmac_start(state) == [state EXCEPT !.ctx = state.init_ctx]

hmac_update(state, message) == [state EXCEPT !.ctx = sha1_update(state.ctx, message)]

\* The tag, and what the context is left with: the outer hash.
tagged(state, outer, tag_len) ==
  [tag |-> SubSeq(sha1_final(outer), 1, tag_len),
   state |-> [state EXCEPT !.ctx = [outer EXCEPT !.buffer = <<>>]]]

hmac_compute(state, message, tag_len) ==
  LET inner == sha1_final(hmac_update(state, message).ctx)
  IN  tagged(state, sha1_update(sha1_update(sha1_init, state.opad), inner), tag_len)
=============================================================================
