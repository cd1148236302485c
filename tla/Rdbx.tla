-------------------------------- MODULE Rdbx --------------------------------
(***************************************************************************)
(* The replay database of an SRTP stream (libsrtp, rdbx.c): the highest     *)
(* packet index received, of which the wire carries only the lower bits,    *)
(* and a bitmask of the indices just below it.                             *)
(*                                                                         *)
(* The 16 bits of a sequence number become seq_num_max values.  An index    *)
(* has 48 bits in the code, which no stream uses up before its key expires; *)
(* here it is any natural number.                                          *)
(***************************************************************************)
EXTENDS Integers

CONSTANTS
  seq_num_median,   \* half the number of sequence numbers
  WindowSize        \* length of the bitmask

\* srtp_stream_init refuses a window of 2^15 or more.
ASSUME RdbxAssumption ==
  /\ seq_num_median \in Nat \ {0}
  /\ WindowSize \in 1 .. seq_num_median

seq_num_max == 2 * seq_num_median

\* The two parts of an xtd_seq_num_t.
Roc(index) == index \div seq_num_max
Seq16(index) == index % seq_num_max
Index(roc, s) == roc * seq_num_max + s

\* A rdbx_t.  Bit WindowSize - 1 stands for index itself, and lower bits for
\* lower indices.
Database == [index : Nat, bitmask : SUBSET (0 .. WindowSize - 1)]

rdbx_init == [index |-> 0, bitmask |-> {}]

\* The outcome of an estimate: the index, and its difference from the local one.
Estimate(guess, delta) == [guess |-> guess, delta |-> delta]

\* index_guess: of the indices with sequence number s, the one that is closest
\* to local.
index_guess(local, s) ==
  LET roc == Roc(local)
      seq == Seq16(local)
  IN  IF seq < seq_num_median
      THEN IF s - seq > seq_num_median
           THEN Estimate(Index(roc - 1, s), seq_num_max - s + seq)
           ELSE Estimate(Index(roc, s), s - seq)
      ELSE IF seq - seq_num_median > s
           THEN Estimate(Index(roc + 1, s), seq_num_max - seq + s)
           ELSE Estimate(Index(roc, s), s - seq)

\* Plausible bug: the start of a stream is not told from the rest.
rdbx_estimate_indexNoStart(r, s) == index_guess(r.index, s)

\* Until the first half of the sequence numbers has passed, the rollover
\* counter is taken to be 0.
rdbx_estimate_index(r, s) ==
  IF r.index > seq_num_median THEN index_guess(r.index, s)
                              ELSE Estimate(s, s - Seq16(r.index))

\* Plausible bug: the last bit of the window is not looked at.
rdbx_checkShort(r, delta) ==
  LET bit == WindowSize - 1 + delta
  IN  IF delta > 0 THEN "ok"
      ELSE IF bit < 0 THEN "replay_old"
      ELSE IF bit > 0 /\ bit \in r.bitmask THEN "replay_fail" ELSE "ok"

rdbx_check(r, delta) ==
  LET bit == WindowSize - 1 + delta
  IN  IF delta > 0 THEN "ok"
      ELSE IF bit < 0 THEN "replay_old"
      ELSE IF bit \in r.bitmask THEN "replay_fail" ELSE "ok"

\* Plausible bug: the index moves on and the bitmask does not.
rdbx_add_indexNoShift(r, delta) ==
  IF delta > 0
  THEN [index |-> r.index + delta, bitmask |-> r.bitmask \cup {WindowSize - 1}]
  ELSE [r EXCEPT !.bitmask = @ \cup {WindowSize - 1 + delta}]

\* index_advance, bitvector_left_shift and bitvector_set_bit, or the last only.
rdbx_add_index(r, delta) ==
  IF delta > 0
  THEN [index   |-> r.index + delta,
        bitmask |-> {bit \in 0 .. WindowSize - 1 :
                       bit + delta \in r.bitmask \/ bit = WindowSize - 1}]
  ELSE [r EXCEPT !.bitmask = @ \cup {WindowSize - 1 + delta}]
=============================================================================
