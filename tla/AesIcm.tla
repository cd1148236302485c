------------------------------- MODULE AesIcm -------------------------------
(***************************************************************************)
(* AES in integer counter mode (libsrtp, aes_icm.c).  The block cipher is   *)
(* one-to-one, so a block of key stream is represented by the counter that  *)
(* it was made from: the value that aes_icm_set_iv derived from the IV, and *)
(* the block counter in the last two octets.  An octet of key stream is a   *)
(* block and a position in it.                                             *)
(***************************************************************************)
EXTENDS Integers, Sequences

CONSTANTS
  BlockOctets,   \* sizeof(v128_t)
  CtrRange       \* the block counter has 16 bits: it has this many values

ASSUME IcmAssumption ==
  /\ BlockOctets \in Nat \ {0}
  /\ CtrRange \in Nat \ {0}

Block(iv, ctr) == [iv |-> iv, ctr |-> ctr % CtrRange]

\* aes_icm_context_init, and aes_icm_set_iv, which is as good as a new context.
\* What keystream_buffer holds is of no use while bytes_in_buffer is 0.
aes_icm_set_iv(iv) ==
  [counter |-> Block(iv, 0), keystream_buffer |-> Block(iv, 0),
   bytes_in_buffer |-> 0]

\* The buffer is filled, then the counter clocked forward with its carry.
aes_icm_advance(c) ==
  [counter |-> Block(c.counter.iv, c.counter.ctr + 1),
   keystream_buffer |-> c.counter,
   bytes_in_buffer |-> BlockOctets]

\* The octets from first up to, not including, last of a block.
Octets(block, first, last) ==
  [k \in 1 .. last - first |-> [block |-> block, octet |-> first + k - 1]]

\* The next n octets of whole blocks from the counter of c on.
FreshOctets(c, n) ==
  [k \in 1 .. n |-> [block |-> Block(c.counter.iv,
                                     c.counter.ctr + (k - 1) \div BlockOctets),
                     octet |-> (k - 1) % BlockOctets]]

Ceil(n) == (n + BlockOctets - 1) \div BlockOctets

\* The comparison adds octets to blocks.
terminus(c, n) == n + c.counter.ctr > CtrRange - 1

\* The octets of key stream that aes_icm_encrypt adds to n octets of data: what
\* is in the buffer, whole blocks, and the first octets of one more.
keystream(c, n) ==
  IF n <= c.bytes_in_buffer
  THEN LET first == BlockOctets - c.bytes_in_buffer
       IN  Octets(c.keystream_buffer, first, first + n)
  ELSE Octets(c.keystream_buffer, BlockOctets - c.bytes_in_buffer, BlockOctets)
         \o FreshOctets(c, n - c.bytes_in_buffer)

\* The context after aes_icm_encrypt on n octets.
aes_icm_encrypt(c, n) ==
  IF n <= c.bytes_in_buffer
  THEN [c EXCEPT !.bytes_in_buffer = @ - n]
  ELSE LET rest == n - c.bytes_in_buffer
           blocks == Ceil(rest)
       IN  [counter |-> Block(c.counter.iv, c.counter.ctr + blocks),
            keystream_buffer |-> Block(c.counter.iv, c.counter.ctr + blocks - 1),
            bytes_in_buffer |-> BlockOctets * blocks - rest]
=============================================================================
