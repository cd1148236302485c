---------------------------- MODULE SrtpOutbound ----------------------------
(***************************************************************************)
(* The encrypting half of an RTPConverter: one libsrtp session, used by     *)
(* three threads without a lock.  The IMS agent's audio helper and the      *)
(* codec converter's video helper each call srtp_protect with a stream of   *)
(* their own, and the ICE loop calls srtp_protect_rtcp with a third.  The   *)
(* session has a template and begins without streams.                      *)
(*                                                                         *)
(* Clones share the cipher, the authentication context and the key limit    *)
(* of the template; RTCP has a cipher and an authentication context of its  *)
(* own.  The steps are the accesses to what is shared.  A media packet has  *)
(* the SSRC of its stream, whatever came in (WebAgent::sendData overwrites  *)
(* it), the sequence number that came in, and a payload, which takes Blocks *)
(* blocks of key stream.  Nothing compares payloads: the payload is that of *)
(* the call, and two calls with one number may bring two of them.          *)
(***************************************************************************)
EXTENDS Rdbx, Rdb, KeyLimit, AesIcm

CONSTANTS
  audio, video, rtcp,  \* the threads, and the streams that they send
  MaxCalls,            \* bound: the packets each thread is given
  Packets,             \* bound: the sequence numbers of the media packets
  Blocks               \* the blocks of a media packet

ASSUME OutboundAssumption ==
  /\ audio # video /\ rtcp \notin {audio, video}
  /\ MaxCalls \in Nat /\ Blocks \in Nat
  /\ Packets \subseteq 0 .. seq_num_max - 1

Media == {audio, video}
Threads == Media \cup {rtcp}

VARIABLES
  stream_list,  \* the streams that can be reached from the session
  rdbx,         \* the replay databases of the media streams
  rtcp_rdb,     \* the counter of the RTCP stream
  limit,        \* the key_limit_ctx_t of the template and its clones
  rtp_cipher,   \* the aes_icm_ctx_t of the template and its clones
  hash,         \* what their hmac_ctx_t has been given since auth_start
  pc,           \* each thread: the access it makes next
  next,         \* each thread: the list head it has read for its new stream
  packet,       \* each thread: the sequence number of its packet
  left,         \* each thread: num_left as it has read it
  est,          \* each thread: the estimated index
  used,         \* each thread: the blocks of key stream its packet has got
  calls,        \* history: how many packets each thread has begun
  given,        \* history: each media thread's sequence numbers, call by call
  sent,         \* history: the packets that have been returned with ok
  dropped,      \* history: some insertion has dropped a stream from the list
  miscounted,   \* history: some update of the limit has been lost
  overlapped    \* history: some thread has set the IV while another was
                \* between setting its own and reading its tag

shared == <<stream_list, rdbx, rtcp_rdb, limit, rtp_cipher, hash>>
locals == <<pc, next, packet, left, est, used>>
history == <<calls, given, sent, dropped, miscounted, overlapped>>
vars == <<shared, locals, history>>

Goto(t, label) == pc' = [pc EXCEPT ![t] = label]

\* Where a thread continues when it has its stream.
afterLookup(t) == IF t = rtcp THEN "protectRtcp" ELSE "readLimit"

\* encryptData or encryptRTCP is called: with any packet, since those of a
\* media stream come over UDP, or with a report.  The stream is looked up.
srtp_get_stream(t) ==
  /\ pc[t] = "idle" /\ calls[t] < MaxCalls
  /\ calls' = [calls EXCEPT ![t] = @ + 1]
  /\ IF t = rtcp THEN UNCHANGED <<packet, given>>
     ELSE \E s \in Packets : /\ packet' = [packet EXCEPT ![t] = s]
                             /\ given' = [given EXCEPT ![t] = Append(@, s)]
  /\ Goto(t, IF t \in stream_list THEN afterLookup(t) ELSE "readHead")
  /\ UNCHANGED <<shared, next, left, est, used, sent, dropped, miscounted,
                 overlapped>>

\* The new stream is cloned from the template, and the list appended to it.
readHead(t) ==
  /\ pc[t] = "readHead"
  /\ next' = [next EXCEPT ![t] = stream_list]
  /\ IF t = rtcp THEN rtcp_rdb' = rdb_init /\ UNCHANGED rdbx
     ELSE rdbx' = [rdbx EXCEPT ![t] = rdbx_init] /\ UNCHANGED rtcp_rdb
  /\ Goto(t, "writeHead")
  /\ UNCHANGED <<stream_list, limit, rtp_cipher, hash, packet, left, est, used,
                 history>>

\* Plausible bug: the new stream is given no successor.
writeHeadAlone(t) ==
  /\ pc[t] = "writeHead"
  /\ stream_list' = {t}
  /\ dropped' = (dropped \/ ~(stream_list \subseteq next[t] \cup {t}))
  /\ next' = [next EXCEPT ![t] = {}]
  /\ Goto(t, afterLookup(t))
  /\ UNCHANGED <<rdbx, rtcp_rdb, limit, rtp_cipher, hash, packet, left,
                 est, used, calls, given, sent, miscounted, overlapped>>

\* The new stream becomes the head.  One that another thread has inserted since
\* the head was read can no longer be reached.
writeHead(t) ==
  /\ pc[t] = "writeHead"
  /\ stream_list' = next[t] \cup {t}
  /\ dropped' = (dropped \/ ~(stream_list \subseteq stream_list'))
  /\ next' = [next EXCEPT ![t] = {}]
  /\ Goto(t, afterLookup(t))
  /\ UNCHANGED <<rdbx, rtcp_rdb, limit, rtp_cipher, hash, packet, left,
                 est, used, calls, given, sent, miscounted, overlapped>>

\* key_limit_update reads the counter ...
readLimit(t) ==
  /\ pc[t] = "readLimit"
  /\ left' = [left EXCEPT ![t] = limit.num_left]
  /\ Goto(t, "writeLimit")
  /\ UNCHANGED <<shared, next, packet, est, used, history>>

\* ... and stores one less.  At the hard limit the packet is refused.
writeLimit(t) ==
  /\ pc[t] = "writeLimit"
  /\ limit' = limitWith(limit, (left[t] - 1) % KeyRange)
  /\ miscounted' = (miscounted \/ limit.num_left # left[t])
  /\ left' = [left EXCEPT ![t] = 0]
  /\ Goto(t, IF limit'.num_left = 0 THEN "idle" ELSE "setIv")
  /\ UNCHANGED <<stream_list, rdbx, rtcp_rdb, rtp_cipher, hash, next, packet,
                 est, used, calls, given, sent, dropped, overlapped>>

\* The control points at which a thread relies on what it left in the cipher or
\* in the authentication context.
Relying == {"advance", "add", "start", "update", "compute"}

\* Plausible bug: the SSRC is not part of the IV.
ivNoSsrc(t, index) == [ssrc |-> audio, index |-> index]

iv(t, index) == [ssrc |-> t, index |-> index]

\* The index of the packet is estimated and recorded in the thread's own replay
\* database: a packet that is sent again (allow_repeat_tx) gets its index again,
\* and an old one is refused.  Then the IV is set.
setIv(t) ==
  LET e == rdbx_estimate_index(rdbx[t], packet[t])
      status == rdbx_check(rdbx[t], e.delta)
  IN
  /\ pc[t] = "setIv"
  /\ rdbx' = IF status = "ok"
             THEN [rdbx EXCEPT ![t] = rdbx_add_index(@, e.delta)]
             ELSE rdbx
  /\ \/ /\ status = "replay_old"
        /\ Goto(t, "idle")
        /\ UNCHANGED <<rtp_cipher, est, overlapped>>
     \/ /\ status # "replay_old"
        /\ est' = [est EXCEPT ![t] = e.guess]
        /\ rtp_cipher' = aes_icm_set_iv(iv(t, e.guess))
        /\ overlapped' = (overlapped \/ \E u \in Media \ {t} : pc[u] \in Relying)
        /\ Goto(t, IF Blocks = 0 THEN "start" ELSE "advance")
  /\ UNCHANGED <<stream_list, rtcp_rdb, limit, hash, next, packet, left, used,
                 calls, given, sent, dropped, miscounted>>

\* aes_icm_encrypt fills the shared keystream_buffer ...
advance(t) ==
  /\ pc[t] = "advance"
  /\ rtp_cipher' = aes_icm_advance(rtp_cipher)
  /\ Goto(t, "add")
  /\ UNCHANGED <<stream_list, rdbx, rtcp_rdb, limit, hash, next, packet, left,
                 est, used, history>>

\* ... and adds what is in it to the data.
add(t) ==
  /\ pc[t] = "add"
  /\ used' = [used EXCEPT ![t] = Append(@, rtp_cipher.keystream_buffer)]
  /\ Goto(t, IF Len(used[t]) + 1 < Blocks THEN "advance" ELSE "start")
  /\ UNCHANGED <<shared, next, packet, left, est, history>>

\* Plausible bug: the context is not reset.
startNot(t) ==
  /\ pc[t] = "start"
  /\ Goto(t, "update")
  /\ UNCHANGED <<shared, next, packet, left, est, used, history>>

\* auth_start
start(t) ==
  /\ pc[t] = "start"
  /\ hash' = <<>>
  /\ Goto(t, "update")
  /\ UNCHANGED <<stream_list, rdbx, rtcp_rdb, limit, rtp_cipher, next, packet,
                 left, est, used, history>>

\* auth_update over the packet, which is by now encrypted.
update(t) ==
  /\ pc[t] = "update"
  /\ hash' = Append(hash, <<t, packet[t], calls[t], used[t]>>)
  /\ Goto(t, "compute")
  /\ UNCHANGED <<stream_list, rdbx, rtcp_rdb, limit, rtp_cipher, next, packet,
                 left, est, used, history>>

\* auth_compute over the rollover counter, which leaves the outer hash in the
\* context.  The packet is returned with its tag.
compute(t) ==
  /\ pc[t] = "compute"
  /\ sent' = sent \cup {[ssrc |-> t, n |-> packet[t], payload |-> calls[t],
                         index |-> est[t], used |-> used[t],
                         tag |-> Append(hash, Roc(est[t]))]}
  /\ hash' = <<"outer">>
  /\ packet' = [packet EXCEPT ![t] = 0]
  /\ est' = [est EXCEPT ![t] = 0]
  /\ used' = [used EXCEPT ![t] = <<>>]
  /\ Goto(t, "idle")
  /\ UNCHANGED <<stream_list, rdbx, rtcp_rdb, limit, rtp_cipher, next, left,
                 calls, given, dropped, miscounted, overlapped>>

\* The rest of srtp_protect_rtcp touches nothing that another thread uses.
srtp_protect_rtcp ==
  /\ pc[rtcp] = "protectRtcp"
  /\ rtcp_rdb' = rdb_increment(rtcp_rdb)
  /\ IF rdb_increment_status(rtcp_rdb) # "ok" THEN UNCHANGED sent
     ELSE LET seq_num == rdb_get_value(rtcp_rdb')
          IN  sent' = sent \cup {[ssrc |-> rtcp, payload |-> calls[rtcp],
                                  index |-> seq_num]}
  /\ Goto(rtcp, "idle")
  /\ UNCHANGED <<stream_list, rdbx, limit, rtp_cipher, hash, next, packet, left,
                 est, used, calls, given, dropped, miscounted, overlapped>>

\* init creates the session.
Init ==
  /\ stream_list = {}
  /\ rdbx = [t \in Media |-> rdbx_init]
  /\ rtcp_rdb = rdb_init
  /\ limit = key_limit_set(KeyUses)
  /\ rtp_cipher = aes_icm_set_iv([ssrc |-> audio, index |-> 0])
  /\ hash = <<>>
  /\ pc = [t \in Threads |-> "idle"]
  /\ next = [t \in Threads |-> {}]
  /\ packet = [t \in Media |-> 0]
  /\ left = [t \in Media |-> 0]
  /\ est = [t \in Media |-> 0]
  /\ used = [t \in Media |-> <<>>]
  /\ calls = [t \in Threads |-> 0]
  /\ given = [t \in Media |-> <<>>]
  /\ sent = {}
  /\ dropped = FALSE /\ miscounted = FALSE /\ overlapped = FALSE

Lookup == \E t \in Threads : srtp_get_stream(t) \/ readHead(t) \/ writeHead(t)

Protect == \E t \in Media :
  \/ readLimit(t) \/ writeLimit(t)
  \/ setIv(t) \/ advance(t) \/ add(t)
  \/ start(t) \/ update(t) \/ compute(t)

\* What an overlap leaves in the packets is anything; the model ends there.
Next == ~overlapped /\ (Lookup \/ Protect \/ srtp_protect_rtcp)

Spec == Init /\ [][Next]_vars

-----------------------------------------------------------------------------
(* Properties.                                                             *)

\* Two packets of one stream, which has been given one number for both.
Repeats(p, q) ==
  /\ p.ssrc = q.ssrc /\ p.payload # q.payload
  /\ given[p.ssrc][p.payload] = given[q.ssrc][q.payload]

\* The key stream of a packet that was encrypted by its thread alone.
OwnKeystream(p) ==
  [b \in 1 .. Blocks |-> Block([ssrc |-> p.ssrc, index |-> p.index], b - 1)]

\* The packets of a media stream that have passed the limit.
passed(t) ==
  IF pc[t] \in {"readHead", "writeHead", "readLimit", "writeLimit"}
  THEN calls[t] - 1 ELSE calls[t]

\* The shared limit counts every packet of either stream that has passed it, as
\* long as no two updates of it overlap.
LimitCounts ==
  ~miscounted =>
    limit.num_left = (KeyUses - (passed(audio) + passed(video))) % KeyRange

\* A media packet leaves with the key stream of its own index and a tag over
\* itself and its own rollover counter, as the receiver will compute them, as
\* long as no thread has set the IV while another was using the contexts; and the
\* key is charged with it.
SoundUnlessOverlap ==
  /\ ~overlapped => \A p \in sent : p.ssrc \in Media =>
       /\ p.used = OwnKeystream(p)
       /\ p.tag = <<<<p.ssrc, p.n, p.payload, p.used>>, Roc(p.index)>>
  /\ LimitCounts

\* Under the same condition no block of key stream hides two payloads, which
\* would give away their difference, except those of two packets that came in for
\* one stream under one sequence number.  For these it does: the second is let
\* through (allow_repeat_tx), its index is that of the first while the estimate
\* stays near, and nothing looks at the payload; srtp.h:226-229 asks the caller
\* that it be the same.
KeystreamUsedOnce ==
  ~overlapped => \A p, q \in sent :
    /\ p.ssrc \in Media /\ q.ssrc \in Media
    /\ \E a, b \in 1 .. Blocks : p.used[a] = q.used[b]
    => p = q \/ Repeats(p, q)

\* No two reports are sent with one index, and so with one key stream, unless
\* two first packets have met in the list and a stream has dropped out of it:
\* it is then cloned again and counts from the beginning; or unless the counter
\* has gone round.
ReportIndexOnce ==
  ~dropped /\ calls[rtcp] <= 2 * half => \A p, q \in sent :
    p.ssrc = rtcp /\ q.ssrc = rtcp /\ p.index = q.index => p = q
=============================================================================
