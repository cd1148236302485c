--------------------------------- MODULE Prng ---------------------------------
(***************************************************************************)
(* The generators of random octets of libsrtp: /dev/urandom (rand_source.c)   *)
(* and the two that stretch a seed from it (prng.c, ctr_prng.c).  The n-th    *)
(* read of the source yields the seed n; an octet of output is known by the     *)
(* seed and by where it lies in what is made of it.                          *)
(***************************************************************************)
EXTENDS AesIcm

CONSTANT MAX_PRNG_OUT_LEN   \* 2^32 - 1 in the code

ASSUME PrngAssumption == MAX_PRNG_OUT_LEN \in Nat

\* The source: whether its descriptor is open, the reads so far and the number of them
\* that succeed.
rand_source_init(source, opens) ==
  IF source.open \/ opens THEN [status |-> "ok", source |-> [source EXCEPT !.open = TRUE]]
  ELSE [status |-> "init_fail", source |-> source]

rand_source_get_octet_string(source) ==
  IF source.open /\ source.reads < source.good
  THEN [status |-> "ok", source |-> [source EXCEPT !.reads = @ + 1]]
  ELSE [status |-> "fail", source |-> source]

-----------------------------------------------------------------------------
(* The counter generator.  Its output is the key stream of a context that     *)
(* the seed determines.                                                     *)

\* Plausible slip: a new count, and the context from the key of the first time.
ctr_prng_initSame(p) ==
  LET drawn == rand_source_get_octet_string(p.source)
  IN  [octet_count |-> 0, source |-> drawn.source, status |-> drawn.status,
       state |-> aes_icm_set_iv(1)]

ctr_prng_init(p) ==
  LET drawn == rand_source_get_octet_string(p.source)
  IN  [octet_count |-> 0, source |-> drawn.source, status |-> drawn.status,
       state |-> IF drawn.status = "ok" THEN aes_icm_set_iv(drawn.source.reads) ELSE p.state]

\* A segment of key stream that is used up is an error, and the count goes on; not until
\* the count is full is there a new key.
ctr_prng_get_octet_string(p, len) ==
  LET ready == IF p.octet_count > MAX_PRNG_OUT_LEN - len THEN ctr_prng_init(p)
               ELSE [p EXCEPT !.status = "ok"]
      counted == [ready EXCEPT !.octet_count = @ + len]
  IN  IF ready.status # "ok" THEN [p |-> ready, octets |-> <<>>]
      ELSE IF terminus(counted.state, len)
      THEN [p |-> [counted EXCEPT !.status = "terminus"], octets |-> <<>>]
      ELSE [p |-> [counted EXCEPT !.state = aes_icm_encrypt(@, len)],
            octets |-> keystream(counted.state, len)]

-----------------------------------------------------------------------------
(* The generator of X9.17: each block moves the state on, the last one even   *)
(* when a part of it is all that is asked for.  The state is a place in the     *)
(* chain that its key makes; a new key without a new state goes on from there.    *)

x917_prng_init(p) ==
  LET key   == rand_source_get_octet_string(p.source)
      drawn == rand_source_get_octet_string(key.source)
      place == IF key.status # "ok" THEN p.state
               ELSE IF drawn.status # "ok" THEN [p.state EXCEPT !.key = key.source.reads]
               ELSE [key |-> key.source.reads, step |-> 0]
  IN  [octet_count |-> 0, source |-> drawn.source, status |-> drawn.status, state |-> place]

x917_prng_get_octet_string(p, len) ==
  LET ready == IF p.octet_count > MAX_PRNG_OUT_LEN - len THEN x917_prng_init(p)
               ELSE [p EXCEPT !.status = "ok"]
      at(n) == [ready.state EXCEPT !.step = @ + n]
  IN  IF ready.status # "ok" THEN [p |-> ready, octets |-> <<>>]
      ELSE [p |-> [ready EXCEPT !.octet_count = @ + len, !.state = at(Ceil(len))],
            octets |-> [k \in 1 .. len |-> [block |-> at((k - 1) \div BlockOctets),
                                            octet |-> (k - 1) % BlockOctets]]]
=============================================================================
