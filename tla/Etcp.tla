-------------------------------- MODULE Etcp ---------------------------------
(***************************************************************************)
(* Framing on a TCP connection (etcp.cpp): a packet is its length in four    *)
(* octets and then so many octets.                                          *)
(*                                                                         *)
(* What arrives at a socket is a sequence of events: a segment of octets, a   *)
(* signal that interrupts recv, or an error.  After the last one the peer has  *)
(* closed the connection.                                                   *)
(***************************************************************************)
EXTENDS Integers, Sequences, FiniteSetsExt

Segment(octets) == [kind |-> "segment", octets |-> octets]
Interrupted == [kind |-> "EINTR"]
Error == [kind |-> "error"]

HeaderLen == 4    \* sizeof(u_int32_t)

smaller(m, n) == IF m < n THEN m ELSE n

\* recv: what it returns, the octets it stores and what is left to arrive.  A segment is
\* handed over as far as there is room for it.
recv(s, n) ==
  IF s = <<>> THEN [n |-> 0, octets |-> <<>>, rest |-> <<>>]
  ELSE IF s[1] \in {Interrupted, Error} THEN [n |-> -1, octets |-> <<>>, rest |-> Tail(s)]
  ELSE LET come == s[1].octets
           taken == smaller(n, Len(come)) IN
       [n |-> taken, octets |-> SubSeq(come, 1, taken),
        rest |-> IF taken = Len(come) THEN Tail(s)
                 ELSE <<Segment(SubSeq(come, taken + 1, Len(come)))>> \o Tail(s)]

\* Plausible slip: what one recv returns is taken for everything.
readnOnce(s, n) ==
  IF n = 0 THEN [n |-> 0, octets |-> <<>>, rest |-> s] ELSE recv(s, n)

\* A turn of the loop, with what has come so far and what is left to arrive.
turn(l, len) ==
  LET got == recv(l.rest, len - l.n)
      failed == got.n < 0 /\ l.rest[1] = Error
  IN  IF l.over \/ l.n = len THEN l
      ELSE [n |-> IF failed THEN -1 ELSE l.n + Len(got.octets),
            octets |-> l.octets \o got.octets, rest |-> got.rest,
            over |-> failed \/ got.n = 0]

\* Until len octets have come: interruptions are ignored, an error is an error, and a
\* connection that ends leaves what has come so far.  Each turn but the last takes an event.
readn(s, len) ==
  LET after[k \in 0 .. Len(s) + 1] ==
        IF k = 0 THEN [n |-> 0, octets |-> <<>>, rest |-> s, over |-> FALSE]
        ELSE turn(after[k - 1], len)
  IN  after[Len(s) + 1]

lengthIn(header) == (256 * ((256 * ((256 * header[1]) + header[2])) + header[3])) + header[4]

\* What a reader that stopped short reports: an error, or else the end.
short(read) == [n |-> IF read.n < 0 THEN -1 ELSE 0, octets |-> <<>>, rest |-> read.rest]

\* A packet without room is read to its end, a buffer at a time, and is an error.
discard(s, packetlen, len) ==
  LET rounds == (packetlen + len - 1) \div len
      want(k) == smaller(len, packetlen - (len * (k - 1)))
      read[k \in 0 .. rounds] == IF k = 0 THEN [n |-> 0, octets |-> <<>>, rest |-> s]
                                 ELSE readn(read[k - 1].rest, want(k))
      bad == {k \in 1 .. rounds : read[k].n # want(k)}
  IN  IF bad # {} THEN short(read[Min(bad)])
      ELSE [n |-> -1, octets |-> <<>>, rest |-> read[rounds].rest]

readPacket(s, len) ==
  LET header == readn(s, HeaderLen)
      packetlen == lengthIn(header.octets)
      body == readn(header.rest, packetlen)
  IN  IF header.n # HeaderLen THEN short(header)
      ELSE IF packetlen > len THEN discard(header.rest, packetlen, len)
      ELSE IF body.n # packetlen THEN short(body)
      ELSE body

\* A string is sent with its length before it; nothing is sent of an empty one.
sendPacket(buf) ==
  LET n == Len(buf)
  IN  IF n = 0 THEN <<>>
      ELSE << n \div (256 * 256 * 256), (n \div (256 * 256)) % 256, (n \div 256) % 256, n % 256 >> \o buf

\* The gateway reads packet after packet until one read returns 0 or an error: what it has
\* after so many reads at most.
packets(s, len, reads) ==
  LET read[k \in 0 .. reads] == IF k = 0 THEN [n |-> 0, octets |-> <<>>, rest |-> s]
                                ELSE readPacket(read[k - 1].rest, len)
      last == {k \in 1 .. reads : read[k].n <= 0}
  IN  [k \in 1 .. (IF last = {} THEN reads ELSE Min(last) - 1) |-> read[k].octets]
=============================================================================
