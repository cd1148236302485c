-------------------------------- MODULE Rdb --------------------------------
(***************************************************************************)
(* The replay database of an SRTCP stream (libsrtp, rdb.c).  The wire       *)
(* carries the whole index, so nothing is guessed: a receiver keeps a       *)
(* window of indices and the bitmask of those it has seen.  A sender uses   *)
(* the same record, and of it only the start of the window, as its counter. *)
(*                                                                         *)
(* half stands for 2^31: indices have 31 bits, and window_start is a        *)
(* uint32_t, which has 2 * half values.                                    *)
(***************************************************************************)
EXTENDS Integers

CONSTANTS
  half,                \* number of indices
  rdb_bits_in_bitmask  \* length of the bitmask

ASSUME RdbAssumption ==
  /\ half \in Nat \ {0}
  /\ rdb_bits_in_bitmask \in 1 .. half

\* A rdb_t.  Bit 0 of the bitmask stands for window_start itself, and higher
\* bits for higher indices.
RdbDatabase == [window_start : 0 .. 2 * half - 1,
                bitmask : SUBSET (0 .. rdb_bits_in_bitmask - 1)]

rdb_init == [window_start |-> 0, bitmask |-> {}]

\* Plausible bug: what lies before the window is not refused.
rdb_checkNoOld(r, i) ==
  IF i - r.window_start \in r.bitmask THEN "replay_fail" ELSE "ok"

\* The sum is taken in 64 bits and does not wrap.
rdb_check(r, i) ==
  IF i >= r.window_start + rdb_bits_in_bitmask THEN "ok"
  ELSE IF i < r.window_start THEN "replay_old"
  ELSE IF i - r.window_start \in r.bitmask THEN "replay_fail" ELSE "ok"

\* For an index that rdb_check lets through: its bit is set, after the window
\* has moved on just as far as it must to hold it.
rdb_add_index(r, i) ==
  LET delta == i - r.window_start
      shift == delta - (rdb_bits_in_bitmask - 1)
  IN  IF delta < rdb_bits_in_bitmask
      THEN [r EXCEPT !.bitmask = @ \cup {delta}]
      ELSE [window_start |-> r.window_start + shift,
            bitmask |-> {bit \in 0 .. rdb_bits_in_bitmask - 1 :
                           \/ bit + shift \in r.bitmask
                           \/ bit = rdb_bits_in_bitmask - 1}]

\* The counter is compared before it is incremented, and incremented even if
\* the comparison fails.
rdb_increment(r) ==
  [r EXCEPT !.window_start = (@ + 1) % (2 * half)]

rdb_increment_status(r) ==
  IF r.window_start > half - 1 THEN "key_expired" ELSE "ok"

rdb_get_value(r) == r.window_start
=============================================================================
