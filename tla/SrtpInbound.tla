---------------------------- MODULE SrtpInbound ----------------------------
(***************************************************************************)
(* The decrypting half of an RTPConverter: the libsrtp session that takes   *)
(* the media of one browser, srtp_unprotect (srtp.c), and the key usage     *)
(* limit (key.c).  The session is created with a template and no streams;   *)
(* the streams of the browser, audio and video, are cloned from it as their *)
(* first packets come.                                                     *)
(*                                                                         *)
(* One thread calls it, that of the ICE agent, so a packet is one step.     *)
(* The browser numbers its packets from 0 .. seq_num_max - 1 upwards.       *)
(* Between the two lies UDP: any packet may be lost, overtaken or delivered *)
(* again, however late.                                                    *)
(***************************************************************************)
EXTENDS Rdbx, KeyLimit, FiniteSetsExt

CONSTANTS
  Ssrcs,        \* the streams of the browser
  MaxIndex      \* bound: the last packet a stream sends

ASSUME SrtpAssumption == MaxIndex \in Nat

VARIABLES
  sent,      \* the packets each stream has sent, from the first to the last
  known,     \* the streams in the session's stream_list
  rdbx,      \* their replay databases
  limit,     \* the key_limit_ctx_t, one for the template and its clones
  accepted,  \* history: the packets srtp_unprotect has returned ok for
  again,     \* history: the streams of which it has accepted one twice
  crossed    \* history: the streams of which it has accepted a packet from
             \* before a rollover after one from behind it

session == <<known, rdbx, accepted, again, crossed>>
vars == <<sent, session, limit>>

\* What a stream is cloned with from the template; all else is shared with it.
srtp_stream_clone == rdbx_init

srtp_get_stream(ssrc) == ssrc \in known

\* The replay database that a packet is added to.
databaseFor(ssrc) ==
  IF srtp_get_stream(ssrc) THEN rdbx[ssrc] ELSE srtp_stream_clone

-----------------------------------------------------------------------------

\* The estimate for the packet with sequence number s.  The first packet of a
\* stream is taken to have the rollover counter 0.
estimateFor(ssrc, s) ==
  IF srtp_get_stream(ssrc) THEN rdbx_estimate_index(rdbx[ssrc], s)
                           ELSE Estimate(s, s)

\* Whether the packet i gets past the replay check, which is left out for the
\* template, and the authentication: the tag covers the rollover counter.
Authentic(ssrc, i) ==
  LET e == estimateFor(ssrc, Seq16(i))
  IN  /\ srtp_get_stream(ssrc) => rdbx_check(rdbx[ssrc], e.delta) = "ok"
      /\ e.guess = i

\* The browser sends the next packet of a stream.
Send(ssrc) ==
  /\ \E i \in 0 .. MaxIndex :
       /\ IF sent[ssrc] = {} THEN i < seq_num_max ELSE i = Max(sent[ssrc]) + 1
       /\ sent' = [sent EXCEPT ![ssrc] = @ \cup {i}]
  /\ UNCHANGED <<session, limit>>

\* The packet is decrypted and its index recorded, in a new stream if it is the
\* first.
accept(ssrc, i) ==
  LET r == databaseFor(ssrc)
      e == estimateFor(ssrc, Seq16(i))
  IN  /\ known' = known \cup {ssrc}
      /\ rdbx' = [rdbx EXCEPT ![ssrc] = rdbx_add_index(r, e.delta)]
      /\ accepted' = [accepted EXCEPT ![ssrc] = @ \cup {i}]
      /\ again' = again \cup {n \in {ssrc} : i \in accepted[n]}
      /\ crossed' = crossed \cup {n \in {ssrc} : Roc(i) < Roc(r.index)}

\* Plausible bug: the limit is updated before the packet is authenticated.
srtp_unprotectCountsAll(ssrc, i) ==
  /\ i \in sent[ssrc]
  /\ limit' = key_limit_update(limit)
  /\ \/ Authentic(ssrc, i) /\ limit'.num_left # 0 /\ accept(ssrc, i)
     \/ ~(Authentic(ssrc, i) /\ limit'.num_left # 0) /\ UNCHANGED session
  /\ UNCHANGED sent

\* srtp_unprotect on the packet i.  What the replay check or the authentication
\* refuses leaves no trace; at the hard limit of the key the packet is refused
\* and the limit is updated.
srtp_unprotect(ssrc, i) ==
  /\ i \in sent[ssrc]
  /\ Authentic(ssrc, i)
  /\ limit' = key_limit_update(limit)
  /\ \/ limit'.num_left # 0 /\ accept(ssrc, i)
     \/ limit'.num_left = 0 /\ UNCHANGED session
  /\ UNCHANGED sent

Init ==
  /\ sent = [ssrc \in Ssrcs |-> {}]
  /\ known = {}
  /\ rdbx = [ssrc \in Ssrcs |-> rdbx_init]
  /\ limit = key_limit_set(KeyUses)
  /\ accepted = [ssrc \in Ssrcs |-> {}]
  /\ again = {}
  /\ crossed = {}

Next == \E ssrc \in Ssrcs :
  Send(ssrc) \/ \E i \in 0 .. MaxIndex : srtp_unprotect(ssrc, i)

Spec == Init /\ [][Next]_vars

-----------------------------------------------------------------------------
(* Properties.                                                             *)

\* Every variable has its type.
TypeOK ==
  /\ sent \in [Ssrcs -> SUBSET (0 .. MaxIndex)]
  /\ known \subseteq Ssrcs
  /\ rdbx \in [Ssrcs -> Database]
  /\ limit \in Limit
  /\ accepted \in [Ssrcs -> SUBSET (0 .. MaxIndex)]
  /\ again \subseteq Ssrcs
  /\ crossed \subseteq Ssrcs

\* However the network repeats and reorders, no packet is accepted twice, as
\* long as none is overtaken by the rollover of its sequence numbers.
AcceptedOnce == again \subseteq crossed

\* The replay database is a record of what has been accepted: the highest
\* index, and what the window covers of the rest.
DatabaseIsRecord ==
  \A ssrc \in known \ crossed :
    LET r == rdbx[ssrc] IN
    /\ r.index = Max(accepted[ssrc])
    /\ \A bit \in 0 .. WindowSize - 1 :
         bit \in r.bitmask <=> r.index - (WindowSize - 1) + bit \in accepted[ssrc]

\* What the database r can tell from other indices: less than a window behind,
\* and less than half the sequence numbers ahead or, while the index is in the
\* first half, anything up to the first rollover.
InReach(r, i) ==
  /\ -WindowSize < i - r.index
  /\ \/ i - r.index < seq_num_median
     \/ r.index <= seq_num_median /\ i < seq_num_max

\* A packet that is new is not refused, whether it comes late, within the
\* window, or after the loss of many, even at the start of a stream.
NewIsAccepted ==
  \A ssrc \in known \ crossed : \A i \in sent[ssrc] \ accepted[ssrc] :
    InReach(rdbx[ssrc], i) => Authentic(ssrc, i)

\* The packets accepted so far, of all streams.
Accepted == {p \in Ssrcs \X (0 .. MaxIndex) : p[2] \in accepted[p[1]]}

\* The streams share one limit: until it is hit, each packet accepted in any of
\* them has used the key once.
OneLimit ==
  limit.state # "expired" /\ again = {} =>
    limit.num_left = KeyUses - Cardinality(Accepted)

=============================================================================
