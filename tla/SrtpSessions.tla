---------------------------- MODULE SrtpSessions ----------------------------
(***************************************************************************)
(* The life of SRTP sessions and of their streams (srtp.c): what is         *)
(* allocated, who points at it and who frees it, when memory may run out at *)
(* any allocation and a policy may be refused at any stage; with the one    *)
(* user the gateway has, RTPConverter (rtpconverter.cpp), beside a program  *)
(* that uses the rest of the interface.                                    *)
(*                                                                         *)
(* An object is named by the session or stream it was allocated for and its *)
(* part.  A freed object stays readable: a pointer that is left to it shows *)
(* as an object that is freed twice.                                       *)
(***************************************************************************)
EXTENDS CryptoKernel, FiniteSets, FiniteSetsExt, Functions

CONSTANTS SSRCs,        \* SSRC values
          ByteOrder,    \* htonl on these values
          MaxObjects,   \* bound: sessions and streams that are told apart
          MaxBlame      \* bound: the kinds of leak before the last step

ASSUME SessionsAssumption ==
  /\ SSRCs # {} /\ ByteOrder \in Bijection(SSRCs, SSRCs)
  /\ MaxObjects \in Nat /\ MaxBlame \in Nat

VARIABLES heap,        \* the objects that are allocated
          misused,     \* an object has been used or freed that was not
          blame,       \* which calls have left memory or a pointer behind
          ctx,         \* srtp_ctx_t of every session
          app,         \* the session of the other program, 0 if it has none
          converter    \* RTPConverter: its two sessions, and ready

sessionVars == <<heap, misused, blame, ctx, app, converter>>

-----------------------------------------------------------------------------
(* Memory, as the record [heap, misused, blame] that the calls pass on.      *)

memory == [heap |-> heap, misused |-> misused, blame |-> blame]

setMemory(m) == heap' = m.heap /\ misused' = m.misused /\ blame' = m.blame

alloc(m, objects) == [m EXCEPT !.heap = @ \cup objects]

free(m, objects) == [m EXCEPT !.heap = @ \ objects,
                              !.misused = @ \/ ~(objects \subseteq m.heap)]

leak(m, what) == [m EXCEPT !.blame = @ \cup {what}]

\* A number under which nothing is allocated and that no pointer holds.
Fresh == (1 .. MaxObjects)
         \ ({o[1] : o \in heap} \cup {app, converter.enc, converter.dec})

\* What a stream owns, in the order of its allocation: the second to the sixth
\* are those that a clone shares with its template.
Parts == <<"str", "rtp_cipher", "rtp_auth", "limit", "rtcp_cipher",
           "rtcp_auth", "rdbx">>
SharedParts == Range(SubSeq(Parts, 2, 6))

Own(id, parts) == {id} \X parts

None == [id |-> 0, ssrc |-> 0, shared |-> 0]
NoContext == [stream_template |-> None, stream_list |-> <<>>]

-----------------------------------------------------------------------------
(* Streams.                                                                *)

\* The objects of a stream, those it shares included.
objectsOf(stream) == Own(stream.id, {"str", "rdbx"})
                     \cup Own(stream.shared, SharedParts)

\* The stages of srtp_add_stream: the allocation of the parts, the last of them
\* in srtp_stream_init, where a policy may also be refused before or after it,
\* and that of the cipher of the key derivation, which does not stay.
Stages == Len(Parts) + 1

\* One number of stages for each way to end: in srtp_stream_alloc, in
\* srtp_stream_init, or not before the end.
Endings == {0, 6, Stages}

\* srtp_stream_alloc undoes what it has done when it fails.
srtp_stream_alloc(m, id, n) ==
  IF n >= 6 /\ CanAlloc
  THEN [status |-> "ok", m |-> alloc(m, Own(id, Range(SubSeq(Parts, 1, 6))))]
  ELSE [status |-> "fail", m |-> m]

\* srtp_stream_init undoes the replay database.
srtp_stream_init(m, id, n) ==
  IF n >= Stages THEN [status |-> "ok", m |-> alloc(m, Own(id, {"rdbx"}))]
  ELSE [status |-> "fail", m |-> m]

\* srtp_add_stream of the policy p to the session c, under the number id, when
\* it gets through n stages.  After a failure to initialise and for an undefined
\* SSRC only the stream itself is freed; a second template is not freed at all.
refused(m, c) == [status |-> "fail", m |-> m, c |-> c]

initialised(i, c, id, p) ==
  LET stream == [id |-> id, ssrc |-> ByteOrder[p.ssrc], shared |-> id]
  IN CASE i.status # "ok" ->
            refused(leak(free(i.m, Own(id, {"str"})), "init failed"), c)
       [] i.status = "ok" /\ p.type = "specific" ->
            [status |-> "ok", m |-> i.m,
             c |-> [c EXCEPT !.stream_list = <<stream>> \o @]]
       [] i.status = "ok" /\ p.type = "any" /\ c.stream_template = None ->
            [status |-> "ok", m |-> i.m,
             c |-> [c EXCEPT !.stream_template = stream]]
       [] i.status = "ok" /\ p.type = "any" /\ c.stream_template # None ->
            refused(leak(i.m, "second template"), c)
       [] i.status = "ok" /\ p.type = "undefined" ->
            refused(leak(free(i.m, Own(id, {"str"})), "undefined SSRC"), c)

allocated(a, c, id, p, n) ==
  IF a.status # "ok" THEN refused(a.m, c)
                     ELSE initialised(srtp_stream_init(a.m, id, n), c, id, p)

srtp_add_stream(m, c, id, p, n) == allocated(srtp_stream_alloc(m, id, n), c, id, p, n)

\* srtp_stream_clone for the SSRC of a packet, as the packet has it, when n of
\* its two allocations succeed.  Without a database the stream is lost.
srtp_stream_clone(m, c, id, ssrc, n) ==
  LET stream == [id |-> id, ssrc |-> ssrc, shared |-> c.stream_template.shared]
  IN CASE n = 0 -> [m |-> m, c |-> c]
       [] n = 1 -> [m |-> leak(alloc(m, Own(id, {"str"})), "clone failed"),
                    c |-> c]
       [] n = 2 -> [m |-> alloc(m, Own(id, {"str", "rdbx"})),
                    c |-> [c EXCEPT !.stream_list = <<stream>> \o @]]

\* Plausible bug: the shared parts go with the first stream.
srtp_stream_deallocShared(m, c, stream) == free(m, objectsOf(stream))

\* The parts that the stream has in common with the template stay.
srtp_stream_dealloc(m, c, stream) ==
  free(m, IF stream.shared = c.stream_template.shared
          THEN Own(stream.id, {"str", "rdbx"}) ELSE objectsOf(stream))

withoutTemplate(m, c) ==
  IF c.stream_template = None THEN m ELSE free(m, objectsOf(c.stream_template))

\* The streams of the list, then the template, then the session.
srtp_dealloc(m, id, c) ==
  LET listed[i \in 0 .. Len(c.stream_list)] ==
        IF i = 0 THEN m ELSE srtp_stream_dealloc(listed[i - 1], c, c.stream_list[i])
  IN  free(withoutTemplate(listed[Len(c.stream_list)], c), Own(id, {"ctx"}))

\* srtp_create for a list of policies, when memory for the session can be had and
\* the streams get through n stages in all.  The session goes by the number of its first stream.
createdWith(r, id, p, n) == IF r.status = "ok" THEN srtp_add_stream(r.m, r.c, id, p, n) ELSE r

createdOrUndone(r, id) ==
  IF r.status = "ok" THEN r ELSE [r EXCEPT !.m = srtp_dealloc(r.m, id, r.c)]

srtp_create(m, ids, policies, n) ==
  LET added[i \in 0 .. Len(policies)] ==
        IF i = 0 THEN [status |-> "ok", m |-> alloc(m, Own(ids[1], {"ctx"})), c |-> NoContext]
        ELSE createdWith(added[i - 1], ids[i], policies[i], n - Stages * (i - 1))
  IN  createdOrUndone(added[Len(policies)], ids[1])

\* The first stream that has the number as it is given, which is not put in
\* network order first, leaves the list and is freed.
srtp_remove_stream(m, c, ssrc) ==
  LET i == SelectInSeq(c.stream_list, LAMBDA s : s.ssrc = ssrc)
  IN  IF i = 0 THEN [m |-> m, c |-> c]
      ELSE [m |-> srtp_stream_dealloc(m, c, c.stream_list[i]),
            c |-> [c EXCEPT !.stream_list = RemoveAt(@, i)]]

-----------------------------------------------------------------------------
(* The other program.                                                      *)

Policies == [type : {"specific"}, ssrc : SSRCs]
            \cup [type : {"any", "undefined"}, ssrc : {CHOOSE x \in SSRCs : TRUE}]

\* The numbers that are given to what a call allocates.
FreshSeq(n) ==
  [i \in 1 .. n |-> CHOOSE x \in Fresh : Cardinality({y \in Fresh : y < x}) = i - 1]

\* srtp_create.
Created(ids, r) ==
  /\ setMemory(r.m)
  /\ IF r.status = "ok" THEN /\ app' = ids[1]
                             /\ ctx' = [ctx EXCEPT ![ids[1]] = r.c]
                        ELSE UNCHANGED <<app, ctx>>

CreateSession ==
  /\ app = 0
  /\ \E policies \in {<<p>> : p \in Policies} \cup (Policies \X Policies) :
     \E n \in {Stages * (Len(policies) - 1) + e : e \in Endings} :
       /\ Cardinality(Fresh) >= Len(policies)
       /\ LET ids == FreshSeq(Len(policies))
          IN  Created(ids, srtp_create(memory, ids, policies, n))
  /\ UNCHANGED converter

\* srtp_add_stream.
AddStream ==
  /\ app # 0 /\ Fresh # {}
  /\ \E p \in Policies, n \in Endings :
       LET r == srtp_add_stream(memory, ctx[app], Min(Fresh), p, n)
       IN  setMemory(r.m) /\ ctx' = [ctx EXCEPT ![app] = r.c]
  /\ UNCHANGED <<app, converter>>

\* srtp_remove_stream.
RemoveStream ==
  /\ app # 0
  /\ \E ssrc \in SSRCs :
       LET r == srtp_remove_stream(memory, ctx[app], ssrc)
       IN  setMemory(r.m) /\ ctx' = [ctx EXCEPT ![app] = r.c]
  /\ UNCHANGED <<app, converter>>

\* srtp_dealloc.
DeallocSession ==
  /\ app # 0
  /\ setMemory(srtp_dealloc(memory, app, ctx[app]))
  /\ ctx' = [ctx EXCEPT ![app] = NoContext]
  /\ app' = 0
  /\ UNCHANGED converter

-----------------------------------------------------------------------------
(* RTPConverter, and the packets of both programs.                          *)

Template == [type |-> "any", ssrc |-> CHOOSE x \in SSRCs : TRUE]

\* What RTPConverter::init leaves behind: what an earlier call has created, an
\* encrypting session without the decrypting one, or, when the destructor trusts
\* both pointers because of an earlier call, one that was freed.
initLeaves(encStarted, enc, decStarted, dec) ==
  {what \in {"second init", "half an init", "stale"} :
     CASE what = "second init"  -> converter.ready /\ encStarted
       [] what = "half an init" -> ~converter.ready /\ enc /\ ~dec
       [] what = "stale"        -> /\ converter.ready
                                   /\ \/ encStarted /\ ~enc
                                      \/ decStarted /\ ~dec}

\* RTPConverter::init: the encrypting session, then the decrypting one, which get
\* through n and k stages, or for which there is no memory.  srtp_create sets the
\* pointer before it can fail.
started(m, id, n) ==
  IF n < 0 THEN [status |-> "fail", m |-> m] ELSE srtp_create(m, <<id>>, <<Template>>, n)

\* With the results e and d of the two.
InitLeft(ids, n, k, e, d) ==
  LET encOk == e.status = "ok"
      decOk == d.status = "ok"
      enc == IF n < 0 THEN converter.enc ELSE ids[1]
      dec == IF k < 0 \/ ~encOk THEN converter.dec ELSE ids[2]
      left == initLeaves(n >= 0, encOk, encOk /\ k >= 0, decOk)
  IN  /\ setMemory([d.m EXCEPT !.blame = @ \cup left])
      /\ converter' = [ready |-> converter.ready \/ decOk, enc |-> enc, dec |-> dec]
      /\ ctx' = [[id \in DOMAIN ctx |->
                    IF id \in {app, enc, dec} THEN ctx[id] ELSE NoContext]
                  EXCEPT ![ids[1]] = IF encOk THEN e.c ELSE NoContext,
                         ![ids[2]] = IF decOk THEN d.c ELSE NoContext]

InitDecryption(ids, n, k, e) ==
  InitLeft(ids, n, k, e, IF e.status = "ok" THEN started(e.m, ids[2], k)
                                            ELSE [status |-> "fail", m |-> e.m])

Init_converter ==
  /\ Cardinality(Fresh) >= 2
  /\ \E n, k \in Endings \cup {-1} :
       LET ids == FreshSeq(2) IN InitDecryption(ids, n, k, started(memory, ids[1], n))
  /\ UNCHANGED app

\* Plausible bug: only one of the sessions is freed.
DestroyOne ==
  /\ IF converter.ready THEN setMemory(srtp_dealloc(memory, converter.dec, ctx[converter.dec]))
                        ELSE UNCHANGED <<heap, misused, blame>>
  /\ ctx' = [id \in DOMAIN ctx |-> IF id = app THEN ctx[id] ELSE NoContext]
  /\ converter' = [ready |-> FALSE, enc |-> 0, dec |-> 0]
  /\ UNCHANGED app

\* ~RTPConverter, and another converter in its place.
Destroy ==
  /\ IF converter.ready
     THEN LET m == srtp_dealloc(memory, converter.dec, ctx[converter.dec])
          IN  setMemory(srtp_dealloc(m, converter.enc, ctx[converter.enc]))
     ELSE UNCHANGED <<heap, misused, blame>>
  /\ ctx' = [id \in DOMAIN ctx |-> IF id = app THEN ctx[id] ELSE NoContext]
  /\ converter' = [ready |-> FALSE, enc |-> 0, dec |-> 0]
  /\ UNCHANGED app

\* The sessions that are used.
InUse == ({app} \ {0})
         \cup (IF converter.ready THEN {converter.enc, converter.dec} ELSE {})

\* A packet of a session: the list is searched, and the template, if there is
\* one, cloned for an SSRC that is not in it.  n allocations succeed.
Packet ==
  \E s \in InUse, ssrc \in SSRCs, n \in 0 .. 2 :
    LET c     == ctx[s]
        known == \E i \in DOMAIN c.stream_list : c.stream_list[i].ssrc = ssrc
    IN  /\ IF <<s, "ctx">> \notin heap
           THEN /\ misused' = TRUE
                /\ UNCHANGED <<heap, blame, ctx>>
           ELSE /\ ~known /\ c.stream_template # None /\ Fresh # {}
                /\ LET r == srtp_stream_clone(memory, c, Min(Fresh), ssrc, n)
                   IN  setMemory(r.m) /\ ctx' = [ctx EXCEPT ![s] = r.c]
        /\ UNCHANGED <<app, converter>>

-----------------------------------------------------------------------------
SessionsStart ==
  /\ heap = {} /\ misused = FALSE /\ blame = {}
  /\ ctx = [id \in 1 .. MaxObjects |-> NoContext]
  /\ app = 0 /\ converter = [ready |-> FALSE, enc |-> 0, dec |-> 0]

Init == KernelStart /\ SessionsStart

\* The kernel is initialised and shut down whatever there is of sessions; a type
\* is replaced, as a bound, only while nothing of them is
\* allocated.  After the use of freed memory the model says nothing.
Next ==
  /\ ~misused /\ Cardinality(blame) <= MaxBlame
  /\ \/ /\ KernelInit \/ KernelShutdown \/ (KernelReplace /\ heap = {})
        /\ UNCHANGED sessionVars
     \/ /\ \/ CreateSession \/ AddStream \/ RemoveStream \/ DeallocSession
           \/ Init_converter \/ Destroy \/ Packet
        /\ UNCHANGED kernelVars

Spec == Init /\ [][Next]_<<kernelVars, sessionVars>>

-----------------------------------------------------------------------------
(* Properties.                                                             *)

\* What the sessions in use lead to.
Reachable ==
  UNION {Own(s, {"ctx"})
         \cup UNION {objectsOf(x) : x \in Range(ctx[s].stream_list)
                                          \cup ({ctx[s].stream_template} \ {None})}
         : s \in InUse}

\* Whatever streams have been added, cloned, removed or refused, and wherever
\* memory has run out, a session that is in use leads to nothing that is freed,
\* and nothing is freed twice; unless a second RTPConverter::init has failed.
LiveIsAllocated ==
  "stale" \notin blame => ~misused /\ Reachable \subseteq heap

\* Everything that is allocated is led to by a session in use, so the end of the
\* session frees it, unless one of the calls that lose memory has taken place: a
\* policy that is refused after the stream's allocation, a second template, an
\* undefined SSRC, a clone whose database cannot be had, and RTPConverter::init
\* that fails half-way or is called twice.
NothingLost == blame = {} => heap \subseteq Reachable
=============================================================================
