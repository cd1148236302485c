------------------------------ MODULE KeyLimit ------------------------------
(***************************************************************************)
(* The key usage limit of libsrtp (key.c): a counter of the packets that a  *)
(* key may still protect or unprotect, shared by all streams with that key. *)
(***************************************************************************)
EXTENDS Integers

CONSTANTS
  KeyUses,      \* what srtp_stream_init gives key_limit_set
  soft_limit,   \* key.c
  KeyRange      \* num_left is a uint64_t: it has this many values

ASSUME KeyAssumption ==
  /\ soft_limit \in Nat \ {0}
  /\ KeyUses \in Nat /\ soft_limit <= KeyUses
  /\ KeyRange \in Nat /\ KeyUses < KeyRange

Limit == [num_left : 0 .. KeyRange - 1,
          state : {"normal", "past_soft_limit", "expired"}]

key_limit_set(uses) == [num_left |-> uses, state |-> "normal"]

\* The limit l after num_left has been set to left.
limitWith(l, left) ==
  [num_left |-> left,
   state |-> IF left >= soft_limit THEN l.state
             ELSE IF left = 0 THEN "expired"
             ELSE IF l.state = "normal" THEN "past_soft_limit" ELSE l.state]

\* key_limit_update.  It reports the hard limit when it leaves no use at all,
\* and nobody reads the state.
key_limit_update(l) == limitWith(l, (l.num_left - 1) % KeyRange)
=============================================================================
