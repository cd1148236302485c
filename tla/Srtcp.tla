------------------------------- MODULE Srtcp --------------------------------
(***************************************************************************)
(* One SRTCP stream from srtp_protect_rtcp to srtp_unprotect_rtcp (srtp.c): *)
(* the receiver reports and key frame requests that the gateway sends to a  *)
(* browser with the same library.  Sender and receiver each have a session  *)
(* with a template and begin without streams.  Between them lies UDP: any   *)
(* packet may be lost, overtaken or delivered again, however late.          *)
(*                                                                         *)
(* A packet is its number among the calls of the sender, its trailer and    *)
(* the index that its key stream was made from.                            *)
(***************************************************************************)
EXTENDS Rdb, FiniteSets

CONSTANT MaxCalls   \* bound: the calls of srtp_protect_rtcp

ASSUME SrtcpAssumption == MaxCalls \in Nat

VARIABLES
  calls,     \* history: how often srtp_protect_rtcp has been called
  sender,    \* the sender's stream_list: none, or the one stream, with its
             \* rtcp_rdb
  sent,      \* the packets it has returned ok for
  receiver,  \* the receiver's stream_list
  accepted,  \* history: the packets srtp_unprotect_rtcp has returned ok for
  again      \* history: it has accepted a packet twice

sending == <<calls, sender, sent>>
receiving == <<receiver, accepted, again>>
vars == <<sending, receiving>>

\* The stream's database.  The template's, of which each new stream is given a
\* copy, is never written.
srtp_get_stream(list) == IF list = {} THEN rdb_init ELSE CHOOSE r \in list : TRUE

\* Plausible bug: the trailer is written before the counter is incremented.
trailerBefore(seq_num) == [E |-> TRUE, index |-> (seq_num - 1) % half]

\* The 32 bits of the trailer, SRTCP_E_BIT | seq_num, as the value of E and the
\* index.  E is the highest bit, and set in both operands if seq_num has it.
trailer(seq_num) == [E |-> TRUE, index |-> seq_num % half]

Packet == [n : 1 .. MaxCalls, trailer : [E : {TRUE}, index : 0 .. half - 1],
           iv : 0 .. 2 * half - 1]

\* Plausible bug: the stream of the template is used, and not a copy.
srtp_protect_rtcpNoClone ==
  /\ calls < MaxCalls
  /\ calls' = calls + 1
  /\ LET r == rdb_increment(rdb_init)
         seq_num == rdb_get_value(r)
     IN  /\ sender' = {r}
         /\ sent' = sent \cup {[n |-> calls', trailer |-> trailer(seq_num),
                                iv |-> seq_num]}
  /\ UNCHANGED receiving

\* srtp_protect_rtcp.  The stream is added, and its counter incremented, even if
\* the call then fails.
srtp_protect_rtcp ==
  /\ calls < MaxCalls
  /\ calls' = calls + 1
  /\ LET old == srtp_get_stream(sender)
         r == rdb_increment(old)
         seq_num == rdb_get_value(r)
     IN  /\ sender' = {r}
         /\ sent' = IF rdb_increment_status(old) = "ok"
                    THEN sent \cup {[n |-> calls', trailer |-> trailer(seq_num),
                                     iv |-> seq_num]}
                    ELSE sent
  /\ UNCHANGED receiving

\* srtp_unprotect_rtcp on a packet of the sender: its tag covers the trailer as
\* sent and is right.  What rdb_check refuses leaves no trace.
srtp_unprotect_rtcp(p) ==
  /\ p \in sent
  /\ LET r == srtp_get_stream(receiver)
         seq_num == p.trailer.index
     IN  /\ rdb_check(r, seq_num) = "ok"
         /\ receiver' = {rdb_add_index(r, seq_num)}
  /\ accepted' = accepted \cup {p}
  /\ again' = (again \/ p \in accepted)
  /\ UNCHANGED sending

Init ==
  /\ calls = 0
  /\ sender = {} /\ receiver = {}
  /\ sent = {} /\ accepted = {}
  /\ again = FALSE

Next == srtp_protect_rtcp \/ \E p \in sent : srtp_unprotect_rtcp(p)

Spec == Init /\ [][Next]_vars

-----------------------------------------------------------------------------
(* Properties.                                                             *)

\* Every variable has its type, and a stream_list has one stream at most.
TypeOK ==
  /\ calls \in 0 .. MaxCalls
  /\ sender \subseteq RdbDatabase /\ Cardinality(sender) <= 1
  /\ sent \subseteq Packet
  /\ receiver \subseteq RdbDatabase /\ Cardinality(receiver) <= 1
  /\ accepted \subseteq sent
  /\ again \in BOOLEAN

\* The indices accepted so far.
Seen == {p.trailer.index : p \in accepted}

\* However the network repeats and reorders, and even after the counter of the
\* sender has wrapped, no packet is accepted twice, nor two packets with one
\* index (rdb_check, rdb_add_index).
AcceptedOnce ==
  /\ ~again
  /\ \A p, q \in accepted : p.trailer = q.trailer => p = q

\* The bits of the receiver's database are what has been accepted, so that
\* every packet that is new and not older than the window is let through.
DatabaseIsRecord ==
  \A r \in receiver :
    /\ \A bit \in 0 .. rdb_bits_in_bitmask - 1 :
         bit \in r.bitmask <=> r.window_start + bit \in Seen
    /\ \A i \in Seen : i < r.window_start + rdb_bits_in_bitmask
    /\ \A i \in 0 .. half - 1 :
         i >= r.window_start /\ i \notin Seen <=> rdb_check(r, i) = "ok"

\* The sender never makes two packets with one key stream, unless it has been
\* called on for as many times as its counter has values (rdb_increment counts
\* on after it has expired, and starts again after it has wrapped).
IvUsedOnce ==
  \A p, q \in sent : p.iv = q.iv => p = q \/ calls > 2 * half

\* What is accepted is decrypted with the key stream it was encrypted with,
\* except for the packet that rdb_increment lets through one too late: its
\* index has 32 bits, and the receiver sees 31 of them.
DecryptedRight ==
  \A p \in accepted : p.trailer.index = p.iv \/ p.iv = half
=============================================================================
