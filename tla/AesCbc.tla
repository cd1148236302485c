------------------------------- MODULE AesCbc --------------------------------
(***************************************************************************)
(* The cipher-block-chaining mode (aes_cbc.c) and the transforms that combine *)
(* it with an authentication tag (xfm.c).  Memory is a sequence of octets that *)
(* begins where a call's data begins and is longer than the data.            *)
(***************************************************************************)
EXTENDS Aes, Sha1, SequencesExt

BlockLen == 16
Pad == 160

\* What an allocated context holds is whatever was in the memory before: its number of
\* rounds is ANY, its other members are overwritten before they are read.
aes_cbc_alloc(any) == [expanded_key |-> [num_rounds |-> any, round |-> <<>>],
                       state |-> <<>>, previous |-> <<>>]

aes_cbc_context_init(c, key, dir) ==
  [c EXCEPT !.expanded_key =
     IF dir = "encrypt" THEN aes_expand_encryption_key(key)
     ELSE aes_expand_decryption_key(key, c.expanded_key.num_rounds, cisc)]

aes_cbc_set_iv(c, iv) == [c EXCEPT !.state = iv, !.previous = iv]

blockOf(data, i) == [j \in Index |-> data[(BlockLen * i) + j + 1]]

\* DATA with its first blocks replaced by new ones.
withBlocks(data, new) ==
  LET blocks == table(new)
  IN  table([p \in 1 .. Len(data) |->
         IF p <= BlockLen * Len(new) THEN blocks[((p - 1) \div BlockLen) + 1][(p - 1) % BlockLen]
                                     ELSE data[p]])

\* The results are records of the status, the memory, the length and the context.
result(status, data, n, c) == [status |-> status, data |-> data, n |-> n, context |-> c]

\* After the vector, every block as it came out is combined with the next one.
chained(c, data, n, chain) ==
  result("ok", withBlocks(data, Tail(chain)), n, [c EXCEPT !.state = Last(chain)])

encryptNext(c, data, before, i) ==
  Append(before, aes_encrypt(v128_xor(Last(before), blockOf(data, i - 1)), c.expanded_key, cisc))

aes_cbc_encrypt(c, data, n) ==
  LET chain[i \in 0 .. n \div BlockLen] ==
        IF i = 0 THEN <<c.state>> ELSE encryptNext(c, data, chain[i - 1], i)
  IN  IF n % BlockLen # 0 THEN result("bad_param", data, n, c)
                          ELSE chained(c, data, n, chain[n \div BlockLen])

decryptNext(c, data, before, i) ==
  Append(before, v128_xor(aes_decrypt(blockOf(data, i - 1), c.expanded_key, cisc), Last(before)))

\* A plausible slip: the plaintext, not the ciphertext, chained.
aes_cbc_decryptChained(c, data, n) ==
  LET chain[i \in 0 .. n \div BlockLen] ==
        IF i = 0 THEN <<c.previous>> ELSE decryptNext(c, data, chain[i - 1], i)
  IN  IF n % BlockLen # 0 THEN result("bad_param", data, n, c)
                          ELSE chained(c, data, n, chain[n \div BlockLen])

\* The context is not changed: the next call starts from the initialisation vector.
aes_cbc_decrypt(c, data, n) ==
  IF n % BlockLen # 0 THEN result("bad_param", data, n, c)
  ELSE result("ok", withBlocks(data,
         [i \in 1 .. n \div BlockLen |->
            v128_xor(aes_decrypt(blockOf(data, i - 1), c.expanded_key, cisc),
                     IF i = 1 THEN c.previous ELSE blockOf(data, i - 2))]), n, c)

\* After the mark come as many zeros as octets are padded, one more than there is
\* room for in the last block.
aes_cbc_nist_encrypt(c, data, n) ==
  LET padding == BlockLen - (n % BlockLen)
      marked  == [p \in 1 .. Len(data) |->
                    IF p = n + 1 THEN Pad
                    ELSE IF p \in n + 2 .. n + 1 + padding THEN 0 ELSE data[p]]
  IN  aes_cbc_encrypt(c, marked, n + padding)

\* The mark is looked for backwards from the end, even into what precedes the data; a
\* search that leaves the data ends we do not know where.
unpadded(r) ==
  LET marks == {p \in 1 .. r.n : r.data[p] = Pad}
  IN  IF r.status # "ok" THEN r
      ELSE IF marks = {} THEN [r EXCEPT !.status = "outside"]
      ELSE [r EXCEPT !.n = Max(marks) - 1]

aes_cbc_nist_decrypt(c, data, n) == unpadded(aes_cbc_decrypt(c, data, n))

-----------------------------------------------------------------------------
(* The transforms.  Keys are functions from 0, 1, ... to octets.              *)

KEY_LEN == 16
MAC_KEY_LEN == 16
TAG_LEN == 12
MAX_EXPAND == 27

\* The key of the tags is the tag of "MAC" under the key.
macKey(key) ==
  hmac_compute(hmac_init([i \in 1 .. KEY_LEN |-> key[i - 1]]), <<77, 65, 67>>, MAC_KEY_LEN).tag

auth_tag(key, clear, octets) ==
  hmac_compute(hmac_update(hmac_start(hmac_init(macKey(key))), clear), octets, TAG_LEN).tag

\* The block cipher runs under the key itself; the derived encryption key is not used.
encryptUnder(key, iv, data, n, any) ==
  aes_cbc_nist_encrypt(aes_cbc_set_iv(aes_cbc_context_init(aes_cbc_alloc(any), key, "encrypt"), iv),
                       data, n)
decryptUnder(key, iv, data, n, any) ==
  aes_cbc_nist_decrypt(aes_cbc_set_iv(aes_cbc_context_init(aes_cbc_alloc(any), key, "decrypt"), iv),
                       data, n)

\* The tag of what was encrypted, right behind it.
followed(r, key, clear) ==
  LET tag == auth_tag(key, clear, SubSeq(r.data, 1, r.n))
  IN  [status |-> r.status, n |-> r.n + TAG_LEN,
       data |-> [p \in 1 .. Len(r.data) |->
                   IF p \in r.n + 1 .. r.n + TAG_LEN THEN tag[p - r.n] ELSE r.data[p]]]

aes_128_cbc_hmac_sha1_96_enc(key, clear, iv, data, n, any) ==
  followed(encryptUnder(key, iv, data, n, any), key, clear)

aes_128_cbc_hmac_sha1_96_dec(key, clear, iv, data, n, any) ==
  LET length == n - TAG_LEN
  IN  IF SubSeq(data, length + 1, n) # auth_tag(key, clear, SubSeq(data, 1, length))
      THEN [status |-> "auth_fail", n |-> n, data |-> data]
      ELSE decryptUnder(key, iv, data, length, any)

\* The older pair: the tag apart from the data...
taggedApart(r, key, clear) ==
  [status |-> r.status, n |-> r.n, data |-> r.data,
   tag |-> auth_tag(key, clear, SubSeq(r.data, 1, r.n))]

aes_128_cbc_hmac_sha1_96_func(key, clear, iv, data, n, any) ==
  taggedApart(encryptUnder(key, iv, data, n, any), key, clear)

\* ... and its inverse, which draws a vector of its own and authenticates the plaintext.
authenticated(r, key, clear, tag) ==
  [r EXCEPT !.status = IF @ # "ok" \/ auth_tag(key, clear, SubSeq(r.data, 1, r.n)) = tag
                       THEN @ ELSE "auth_fail"]

aes_128_cbc_hmac_sha1_96_inv(key, clear, drawn, data, n, tag, any) ==
  authenticated(decryptUnder(key, drawn, data, n, any), key, clear, tag)

\* The transform without a cipher: a tag of twelve octets that depends on nothing.
null_enc(data, n) ==
  [status |-> "ok", n |-> n + TAG_LEN,
   data |-> [p \in 1 .. Len(data) |->
               IF p \in n + 1 .. n + TAG_LEN THEN 17 * (p - n - 1) ELSE data[p]]]

null_dec(data, n) == [status |-> "ok", n |-> n - TAG_LEN, data |-> data]
=============================================================================
