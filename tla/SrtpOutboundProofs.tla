------------------------- MODULE SrtpOutboundProofs -------------------------
(***************************************************************************)
(* The encrypting session and its three threads, for every size of the      *)
(* sequence numbers, of the window, of the block counter and of the key     *)
(* limit, every length of a packet and any number of packets.              *)
(***************************************************************************)
EXTENDS SrtpOutbound, SequenceTheorems, TLAPS

-----------------------------------------------------------------------------
(* The invariant.                                                          *)

\* The first k blocks of the key stream of an index.
Stream(ssrc, index, k) == [b \in 1 .. k |-> Block(iv(ssrc, index), b - 1)]

\* A media packet as it leaves.
Sound(p) ==
  /\ p.used = Stream(p.ssrc, p.index, Blocks)
  /\ p.tag = <<<<p.ssrc, p.n, p.payload, p.used>>, Roc(p.index)>>
  /\ Seq16(p.index) = p.n

ControlPoints ==
  {"idle", "readHead", "writeHead", "protectRtcp", "readLimit", "writeLimit",
   "setIv"} \cup Relying

TypeOK ==
  /\ rdbx \in [Media -> Database]
  /\ rtcp_rdb \in RdbDatabase
  /\ limit \in Limit
  /\ pc \in [Threads -> ControlPoints]
  /\ pc[rtcp] \in {"idle", "readHead", "writeHead", "protectRtcp"}
  /\ \A t \in Media : pc[t] # "protectRtcp"
  /\ packet \in [Media -> 0 .. seq_num_max - 1]
  /\ left \in [Media -> 0 .. KeyRange - 1]
  /\ est \in [Media -> Int]
  /\ DOMAIN used = Media /\ DOMAIN given = Media
  /\ calls \in [Threads -> 0 .. MaxCalls]

\* What the thread t has left in the shared contexts is there when it relies on
\* it, and what it has taken from them so far is the beginning of its own key
\* stream.
Alone(t) ==
  /\ pc[t] \in Relying => Seq16(est[t]) = packet[t]
  /\ pc[t] \notin Relying => used[t] = <<>>
  /\ pc[t] \in {"advance", "add"} => \E k \in 0 .. Blocks - 1 :
       LET v == iv(t, est[t]) IN
       /\ used[t] = Stream(t, est[t], k)
       /\ pc[t] = "advance" => rtp_cipher.counter = Block(v, k)
       /\ pc[t] = "add" => /\ rtp_cipher.counter = Block(v, k + 1)
                           /\ rtp_cipher.keystream_buffer = Block(v, k)
  /\ pc[t] \in {"start", "update", "compute"} =>
       used[t] = Stream(t, est[t], Blocks)
  /\ pc[t] = "update" => hash = <<>>
  /\ pc[t] = "compute" => hash = <<<<t, packet[t], calls[t], used[t]>>>>

OneRelies ==
  \A t, u \in Media : pc[t] \in Relying /\ pc[u] \in Relying => t = u

MediaSound ==
  ~overlapped =>
    /\ OneRelies
    /\ \A t \in Media : Alone(t)
    /\ \A p \in sent : p.ssrc \in Media => Sound(p)

\* The calls of srtp_protect_rtcp that are over.
reported == IF pc[rtcp] = "idle" THEN calls[rtcp] ELSE calls[rtcp] - 1

\* A media packet has the number that came in with its payload, and a call
\* returns at most one packet.
GivenRecorded ==
  /\ \A t \in Media : given[t] \in Seq(Int) /\ Len(given[t]) = calls[t]
  /\ \A t \in Media : pc[t] # "idle" =>
       calls[t] > 0 /\ given[t][calls[t]] = packet[t]
  /\ \A p \in sent : p.ssrc \in Media =>
       /\ p.payload \in 1 .. calls[p.ssrc]
       /\ pc[p.ssrc] # "idle" => p.payload < calls[p.ssrc]
       /\ given[p.ssrc][p.payload] = p.n
  /\ \A p, q \in sent :
       p.ssrc \in Media /\ p.ssrc = q.ssrc /\ p.payload = q.payload => p = q

AReport(p) == p = [ssrc |-> rtcp, payload |-> p.payload, index |-> p.index]

\* A stream of reports that has not been dropped counts the reports.
ReportsCounted ==
  ~dropped =>
    /\ pc[rtcp] \in {"readHead", "writeHead"} => calls[rtcp] = 1
    /\ pc[rtcp] = "protectRtcp" => calls[rtcp] > 0
    /\ pc[rtcp] = "protectRtcp" \/ (pc[rtcp] = "idle" /\ calls[rtcp] > 0)
         => rtcp \in stream_list
    /\ reported < 2 * half => rtcp_rdb.window_start = reported
    /\ \A p \in sent : p.ssrc = rtcp =>
         /\ p.payload \in 1 .. reported
         /\ reported <= 2 * half => p.index = p.payload
         /\ AReport(p)

IInv ==
  TypeOK /\ MediaSound /\ LimitCounts /\ ReportsCounted /\ GivenRecorded
-----------------------------------------------------------------------------
(* Numbers.                                                                *)

LEMMA Sizes == /\ seq_num_median \in Nat /\ seq_num_median > 0
               /\ WindowSize \in Nat /\ WindowSize > 0
               /\ seq_num_max \in Nat /\ seq_num_max > 0
               /\ half \in Nat /\ half > 0
               /\ KeyRange \in Nat /\ KeyRange > 0 /\ KeyUses \in 0 .. KeyRange - 1
               /\ CtrRange \in Nat /\ CtrRange > 0
               /\ MaxCalls \in Nat /\ Blocks \in Nat
  BY RdbxAssumption, RdbAssumption, KeyAssumption, IcmAssumption,
     OutboundAssumption DEF seq_num_max

LEMMA Distinct == audio # video /\ rtcp \notin Media
  BY OutboundAssumption DEF Media

\* Quotient and remainder are determined by the number.
LEMMA OneQuotient ==
  ASSUME NEW m \in Nat, m > 0, NEW q \in Int, NEW p \in Int,
         NEW r \in 0 .. m - 1, NEW s \in 0 .. m - 1, q * m + r = p * m + s
  PROVE  r = s
  <1>1. q < p => q * m + m <= p * m
    OBVIOUS
  <1>2. p < q => p * m + m <= q * m
    OBVIOUS
  <1>3. ~(q < p) /\ ~(p < q)
    BY <1>1, <1>2
  <1>4. q = p
    BY <1>3
  <1>5. QED
    BY <1>4

LEMMA Remainder ==
  ASSUME NEW m \in Nat, m > 0, NEW x \in Int
  PROVE  x \div m \in Int /\ x % m \in 0 .. m - 1 /\ x = (x \div m) * m + (x % m)
  OBVIOUS

LEMMA RemainderOf ==
  ASSUME NEW m \in Nat, m > 0, NEW q \in Int, NEW r \in 0 .. m - 1
  PROVE  (q * m + r) % m = r
  <1> DEFINE x == q * m + r
  <1>1. x \in Int
    OBVIOUS
  <1>2. x \div m \in Int /\ x % m \in 0 .. m - 1 /\ x = (x \div m) * m + (x % m)
    BY <1>1, Remainder
  <1> DEFINE p == x \div m
             s == x % m
  <1>3. p \in Int /\ s \in 0 .. m - 1 /\ q * m + r = p * m + s
    BY <1>2
  <1> HIDE DEF p, s
  <1>4. r = s
    BY <1>3, OneQuotient
  <1>5. QED
    BY <1>4 DEF s

\* A remainder may be taken before an addition.
LEMMA RemainderShift ==
  ASSUME NEW m \in Nat, m > 0, NEW x \in Int, NEW d \in Int
  PROVE  ((x % m) + d) % m = (x + d) % m
  <1> DEFINE y == (x % m) + d
             z == x + d
             r == x % m
             a == x \div m
             b == y \div m
             c == z \div m
             u == y % m
             w == z % m
  <1>1. a \in Int /\ r \in 0 .. m - 1 /\ x = a * m + r
    BY Remainder
  <1>2. y \in Int /\ z \in Int
    BY <1>1
  <1>3. b \in Int /\ u \in 0 .. m - 1 /\ y = b * m + u
    BY <1>2, Remainder
  <1>4. c \in Int /\ w \in 0 .. m - 1 /\ z = c * m + w
    BY <1>2, Remainder
  <1>5. y = r + d /\ z = x + d
    OBVIOUS
  <1> HIDE DEF y, z, r, a, b, c, u, w
  <1>6. z = a * m + y
    BY <1>1, <1>2, <1>5
  <1>7. (a + b) * m = a * m + b * m /\ a * m \in Int /\ b * m \in Int
    BY <1>1, <1>3
  <1>8. z = (a + b) * m + u
    BY <1>2, <1>3, <1>6, <1>7
  <1>9. a + b \in Int /\ (a + b) * m + u = c * m + w
    BY <1>1, <1>3, <1>4, <1>8
  <1>10. u = w
    BY <1>3, <1>4, <1>9, OneQuotient
  <1>11. QED
    BY <1>10 DEF y, z, r, u, w

-----------------------------------------------------------------------------
(* The operators of the model.                                             *)

\* The estimate has the sequence number that it was made for.
LEMMA EstimateFits ==
  ASSUME NEW r \in Database, NEW s \in 0 .. seq_num_max - 1
  PROVE  LET e == rdbx_estimate_index(r, s)
         IN  e.guess \in Int /\ e.delta \in Int /\ Seq16(e.guess) = s
  <1> DEFINE n == r.index
  <1>1. n \in Int /\ Roc(n) \in Int /\ Seq16(n) \in Int
    BY Sizes DEF Database, Roc, Seq16
  <1>2. \A q \in Int : Index(q, s) \in Int /\ Seq16(Index(q, s)) = s
    BY Sizes, RemainderOf DEF Index, Seq16
  <1>3. s \in Int /\ s = Index(0, s)
    BY Sizes DEF Index
  <1>4. Seq16(s) = s
    BY <1>2, <1>3
  <1>5. CASE n > seq_num_median
    <2>1. rdbx_estimate_index(r, s) = index_guess(n, s)
      BY <1>5 DEF rdbx_estimate_index
    <2>2. \/ index_guess(n, s) = Estimate(Index(Roc(n) - 1, s),
                                          seq_num_max - s + Seq16(n))
          \/ index_guess(n, s) = Estimate(Index(Roc(n), s), s - Seq16(n))
          \/ index_guess(n, s) = Estimate(Index(Roc(n) + 1, s),
                                          seq_num_max - Seq16(n) + s)
      BY DEF index_guess
    <2>3. /\ Roc(n) - 1 \in Int /\ Roc(n) + 1 \in Int
          /\ seq_num_max - s + Seq16(n) \in Int /\ s - Seq16(n) \in Int
          /\ seq_num_max - Seq16(n) + s \in Int
      BY <1>1, Sizes
    <2>4. QED
      BY <1>1, <1>2, <2>1, <2>2, <2>3 DEF Estimate
  <1>6. CASE ~(n > seq_num_median)
    <2>1. rdbx_estimate_index(r, s) = Estimate(s, s - Seq16(n))
      BY <1>6 DEF rdbx_estimate_index
    <2>2. s - Seq16(n) \in Int
      BY <1>1, <1>3
    <2>3. QED
      BY <1>3, <1>4, <2>1, <2>2 DEF Estimate
  <1>7. QED
    BY <1>5, <1>6

\* An index that passes the check may be added.
LEMMA AddType ==
  ASSUME NEW r \in Database, NEW d \in Int, rdbx_check(r, d) = "ok"
  PROVE  rdbx_add_index(r, d) \in Database
  <1>1. CASE d > 0
    BY <1>1, Sizes DEF rdbx_add_index, Database
  <1>2. CASE ~(d > 0)
    <2> DEFINE bit == WindowSize - 1 + d
    <2>1. bit \in 0 .. WindowSize - 1
      BY <1>2, Sizes DEF rdbx_check
    <2>2. rdbx_add_index(r, d) = [r EXCEPT !.bitmask = @ \cup {bit}]
      BY <1>2 DEF rdbx_add_index
    <2> HIDE DEF bit
    <2>3. QED
      BY <2>1, <2>2 DEF Database
  <1>3. QED
    BY <1>1, <1>2

\* The counter of the cipher is clocked from one block to the next, with its carry.
LEMMA NextBlock ==
  ASSUME NEW c, NEW v, NEW k \in Nat, c.counter = Block(v, k)
  PROVE  /\ aes_icm_advance(c).counter = Block(v, k + 1)
         /\ aes_icm_advance(c).keystream_buffer = Block(v, k)
  <1>1. ((k % CtrRange) + 1) % CtrRange = (k + 1) % CtrRange
    <2>1. k \in Int /\ 1 \in Int /\ CtrRange \in Nat /\ CtrRange > 0
      BY Sizes
    <2>2. QED
      BY <2>1, RemainderShift, Zenon
  <1>2. Block(c.counter.iv, c.counter.ctr + 1) = Block(v, k + 1)
    BY <1>1 DEF Block
  <1>3. QED
    BY <1>2 DEF aes_icm_advance

LEMMA BlockTellsIv ==
  ASSUME NEW v, NEW w, NEW j, NEW k, Block(v, j) = Block(w, k)
  PROVE  v = w
  <1>1. Block(v, j).iv = v /\ Block(w, k).iv = w
    BY DEF Block
  <1>2. QED
    BY <1>1

\* A key stream grows by a block at a time.
LEMMA StreamGrows ==
  ASSUME NEW ssrc, NEW index, NEW k \in Nat
  PROVE  /\ Len(Stream(ssrc, index, k)) = k
         /\ Append(Stream(ssrc, index, k), Block(iv(ssrc, index), k))
              = Stream(ssrc, index, k + 1)
  <1> DEFINE v == iv(ssrc, index)
             S == {Block(v, b) : b \in Nat}
             s == Stream(ssrc, index, k)
             t == Append(s, Block(v, k))
  <1>1. \A b \in 1 .. k : b - 1 \in Nat /\ Block(v, b - 1) \in S
    OBVIOUS
  <1>2. s \in Seq(S) /\ Len(s) = k
    <2>1. s \in [1 .. k -> S]
      BY <1>1 DEF Stream
    <2>2. QED
      BY <2>1, LenProperties
  <1>3. Block(v, k) \in S
    OBVIOUS
  <1> HIDE DEF S
  <1>4. /\ t \in Seq(S) /\ Len(t) = k + 1
        /\ \A i \in 1 .. k : t[i] = s[i]
        /\ t[k + 1] = Block(v, k)
    BY <1>2, <1>3, AppendProperties
  <1>5. t = [i \in 1 .. k + 1 |-> t[i]]
    BY <1>4, LenProperties
  <1>6. \A i \in 1 .. k + 1 : t[i] = Block(v, i - 1)
    <2> TAKE i \in 1 .. k + 1
    <2>1. CASE i \in 1 .. k
      BY <1>4, <2>1 DEF Stream
    <2>2. CASE i = k + 1
      <3>1. i - 1 = k
        BY <2>2
      <3>2. QED
        BY <1>4, <2>2, <3>1
    <2>3. i \in 1 .. k \/ i = k + 1
      OBVIOUS
    <2>4. QED
      BY <2>1, <2>2, <2>3
  <1>7. Stream(ssrc, index, k + 1) = [i \in 1 .. k + 1 |-> Block(v, i - 1)]
    BY DEF Stream
  <1> HIDE DEF t
  <1>8. QED
    BY <1>2, <1>5, <1>6, <1>7 DEF t

LEMMA AppendToOne ==
  ASSUME NEW a, NEW b
  PROVE  Append(<<a>>, b) = <<a, b>>
  <1> DEFINE s == <<a>>
             t == Append(s, b)
             u == <<a, b>>
  <1>1. PICK S : a \in S /\ b \in S
    <2>1. a \in {a, b} /\ b \in {a, b}
      OBVIOUS
    <2>2. QED
      BY <2>1
  <1>2. s \in Seq(S) /\ Len(s) = 1 /\ s[1] = a
    BY <1>1
  <1>3. u \in Seq(S) /\ Len(u) = 2
    BY <1>1
  <1>4. u[1] = a /\ u[2] = b
    OBVIOUS
  <1> HIDE DEF s, u
  <1>5. t \in Seq(S)
    BY <1>1, <1>2, AppendProperties
  <1>6. Len(t) = 2 /\ t[1] = a /\ t[2] = b
    <2>1. Len(t) = Len(s) + 1
      BY <1>1, <1>2, AppendProperties
    <2>2. t[1] = s[1]
      BY <1>1, <1>2, AppendProperties
    <2>3. t[2] = b
      <3>1. t[Len(s) + 1] = b
        BY <1>1, <1>2, AppendProperties
      <3>2. Len(s) + 1 = 2
        BY <1>2
      <3>3. QED
        BY <3>1, <3>2
    <2> HIDE DEF t
    <2>4. QED
      BY <1>2, <2>1, <2>2, <2>3
  <1> HIDE DEF t
  <1>7. \A i \in 1 .. 2 : i = 1 \/ i = 2
    OBVIOUS
  <1>8. \A i \in 1 .. 2 : t[i] = u[i]
    BY <1>4, <1>6, <1>7
  <1>9. t = u
    BY <1>3, <1>5, <1>6, <1>8, SeqEqual
  <1>10. QED
    BY <1>9 DEF s, t, u

LEMMA EmptyStream ==
  ASSUME NEW ssrc, NEW index
  PROVE  Stream(ssrc, index, 0) = <<>>
  BY DEF Stream
-----------------------------------------------------------------------------
(* The types.                                                              *)

LEMMA GotoMoves ==
  ASSUME NEW t \in Threads, NEW label, DOMAIN pc = Threads, Goto(t, label)
  PROVE  /\ DOMAIN pc' = Threads /\ pc'[t] = label
         /\ \A u \in Threads : u # t => pc'[u] = pc[u]
  BY DEF Goto

\* A thread that goes to a control point of its own keeps the type of pc.
PcType ==
  /\ pc \in [Threads -> ControlPoints]
  /\ pc[rtcp] \in {"idle", "readHead", "writeHead", "protectRtcp"}
  /\ \A t \in Media : pc[t] # "protectRtcp"

LEMMA GotoType ==
  ASSUME PcType, NEW t \in Threads, NEW label \in ControlPoints, Goto(t, label),
         t = rtcp => label \in {"idle", "readHead", "writeHead", "protectRtcp"},
         t \in Media => label # "protectRtcp"
  PROVE  PcType'
  <1>1. pc' = [pc EXCEPT ![t] = label]
    BY DEF Goto
  <1>2. rtcp \in Threads /\ Media \subseteq Threads
    BY DEF Threads
  <1>3. pc' \in [Threads -> ControlPoints]
    BY <1>1 DEF PcType
  <1>4. \A u \in Threads : pc'[u] = IF u = t THEN label ELSE pc[u]
    BY <1>1 DEF PcType
  <1>5. QED
    BY <1>2, <1>3, <1>4 DEF PcType

LEMMA LimitType ==
  ASSUME NEW l \in Limit, NEW n \in 0 .. KeyRange - 1
  PROVE  limitWith(l, n) \in Limit
  BY DEF limitWith, Limit

LEMMA CountedDown ==
  ASSUME NEW n \in Int
  PROVE  (n - 1) % KeyRange \in 0 .. KeyRange - 1
  BY Sizes

LEMMA IncrementType ==
  ASSUME NEW r \in RdbDatabase
  PROVE  rdb_increment(r) \in RdbDatabase
  <1> DEFINE w == (r.window_start + 1) % (2 * half)
  <1>1. r.window_start + 1 \in Int /\ 2 * half \in Nat /\ 2 * half > 0
    BY Sizes DEF RdbDatabase
  <1>2. w \in 0 .. 2 * half - 1
    BY <1>1
  <1> HIDE DEF w
  <1>3. rdb_increment(r) = [r EXCEPT !.window_start = w]
    BY DEF rdb_increment, w
  <1>4. QED
    BY <1>2, <1>3 DEF RdbDatabase

LEMMA TypeInit == Init => TypeOK
  <1> SUFFICES ASSUME Init PROVE TypeOK
    OBVIOUS
  <1>1. rdbx_init \in Database /\ rdb_init \in RdbDatabase
    BY Sizes DEF rdbx_init, rdb_init, Database, RdbDatabase
  <1>2. limit \in Limit
    BY Sizes DEF Init, key_limit_set, Limit
  <1>3. 0 \in 0 .. seq_num_max - 1 /\ 0 \in 0 .. KeyRange - 1 /\ 0 \in 0 .. MaxCalls
    BY Sizes
  <1>4. rtcp \in Threads /\ Media \subseteq Threads
    BY DEF Threads
  <1>5. QED
    BY <1>1, <1>2, <1>3, <1>4 DEF Init, TypeOK, ControlPoints

LEMMA TypeNext == TypeOK /\ [Next]_vars => TypeOK'
  <1> SUFFICES ASSUME TypeOK, [Next]_vars PROVE TypeOK'
    OBVIOUS
  <1>0. PcType /\ rtcp \in Threads /\ Media \subseteq Threads /\ rtcp \notin Media
    BY Distinct DEF TypeOK, PcType, Threads
  <1>1. ASSUME NEW t \in Threads, srtp_get_stream(t) PROVE TypeOK'
    <2>1. PcType'
      <3> DEFINE label == IF t \in stream_list THEN afterLookup(t) ELSE "readHead"
      <3>1. Goto(t, label)
        BY <1>1 DEF srtp_get_stream
      <3>2. /\ label \in ControlPoints
            /\ t = rtcp => label \in {"idle", "readHead", "writeHead", "protectRtcp"}
            /\ t \in Media => label # "protectRtcp"
        BY <1>0 DEF afterLookup, ControlPoints
      <3> HIDE DEF label
      <3>3. QED
        BY <1>0, <3>1, <3>2, GotoType
    <2>2. calls' \in [Threads -> 0 .. MaxCalls]
      <3>1. calls[t] + 1 \in 0 .. MaxCalls
        BY <1>1, Sizes DEF srtp_get_stream, TypeOK
      <3>2. calls' = [calls EXCEPT ![t] = @ + 1]
        BY <1>1 DEF srtp_get_stream
      <3>3. QED
        BY <3>1, <3>2 DEF TypeOK
    <2>3. packet' \in [Media -> 0 .. seq_num_max - 1]
      BY <1>1, OutboundAssumption DEF srtp_get_stream, TypeOK, Threads
    <2>4. UNCHANGED <<rdbx, rtcp_rdb, limit, left, est, used>> /\ DOMAIN given' = Media
      BY <1>1 DEF srtp_get_stream, shared, TypeOK
    <2>5. QED
      BY <2>1, <2>2, <2>3, <2>4 DEF TypeOK, PcType
  <1>2. ASSUME NEW t \in Threads, readHead(t) PROVE TypeOK'
    <2>1. PcType'
      BY <1>0, <1>2, GotoType DEF readHead, ControlPoints
    <2>2. rdbx_init \in Database /\ rdb_init \in RdbDatabase
      BY Sizes DEF rdbx_init, rdb_init, Database, RdbDatabase
    <2>3. rdbx' \in [Media -> Database] /\ rtcp_rdb' \in RdbDatabase
      BY <1>2, <2>2 DEF readHead, TypeOK
    <2>4. UNCHANGED <<limit, packet, left, est, used, calls, given>>
      BY <1>2 DEF readHead, history
    <2>5. QED
      BY <2>1, <2>3, <2>4 DEF TypeOK, PcType
  <1>3. ASSUME NEW t \in Threads, writeHead(t) PROVE TypeOK'
    <2>1. PcType'
      <3>1. /\ afterLookup(t) \in ControlPoints
            /\ t = rtcp => afterLookup(t) \in {"idle", "readHead", "writeHead",
                                               "protectRtcp"}
            /\ t \in Media => afterLookup(t) # "protectRtcp"
        BY <1>0 DEF afterLookup, ControlPoints
      <3>2. QED
        BY <1>0, <1>3, <3>1, GotoType DEF writeHead
    <2>2. UNCHANGED <<rdbx, rtcp_rdb, limit, packet, left, est, used, calls, given>>
      BY <1>3 DEF writeHead
    <2>3. QED
      BY <2>1, <2>2 DEF TypeOK, PcType
  <1>4. ASSUME NEW t \in Media, readLimit(t) PROVE TypeOK'
    <2>1. PcType'
      BY <1>0, <1>4, GotoType DEF readLimit, ControlPoints
    <2>2. left' \in [Media -> 0 .. KeyRange - 1]
      BY <1>4 DEF readLimit, TypeOK, Limit
    <2>3. UNCHANGED <<rdbx, rtcp_rdb, limit, packet, est, used, calls, given>>
      BY <1>4 DEF readLimit, history, shared
    <2>4. QED
      BY <2>1, <2>2, <2>3 DEF TypeOK, PcType
  <1>5. ASSUME NEW t \in Media, writeLimit(t) PROVE TypeOK'
    <2>1. PcType'
      BY <1>0, <1>5, GotoType DEF writeLimit, ControlPoints
    <2>2. left' \in [Media -> 0 .. KeyRange - 1]
      BY <1>5, Sizes DEF writeLimit, TypeOK
    <2>3. limit' \in Limit
      <3>1. left[t] \in Int
        BY DEF TypeOK
      <3>2. (left[t] - 1) % KeyRange \in 0 .. KeyRange - 1
        BY <3>1, CountedDown
      <3>3. QED
        BY <1>5, <3>2, LimitType DEF writeLimit, TypeOK
    <2>4. UNCHANGED <<rdbx, rtcp_rdb, packet, est, used, calls, given>>
      BY <1>5 DEF writeLimit
    <2>5. QED
      BY <2>1, <2>2, <2>3, <2>4 DEF TypeOK, PcType
  <1>6. ASSUME NEW t \in Media, setIv(t) PROVE TypeOK'
    <2> DEFINE e == rdbx_estimate_index(rdbx[t], packet[t])
               status == rdbx_check(rdbx[t], e.delta)
    <2>1. /\ rdbx[t] \in Database /\ e.guess \in Int /\ e.delta \in Int
      BY EstimateFits DEF TypeOK
    <2>2. rdbx' \in [Media -> Database]
      <3>1. status = "ok" => rdbx_add_index(rdbx[t], e.delta) \in Database
        BY <2>1, AddType
      <3>2. rdbx' = IF status = "ok"
                    THEN [rdbx EXCEPT ![t] = rdbx_add_index(rdbx[t], e.delta)]
                    ELSE rdbx
        BY <1>6 DEF setIv
      <3> HIDE DEF status, e
      <3>3. QED
        BY <3>1, <3>2 DEF TypeOK
    <2>3. est' \in [Media -> Int]
      <3>1. UNCHANGED est \/ est' = [est EXCEPT ![t] = e.guess]
        BY <1>6 DEF setIv
      <3> HIDE DEF e
      <3>2. QED
        BY <2>1, <3>1 DEF TypeOK
    <2>4. PcType'
      <3>1. Goto(t, "idle") \/ Goto(t, "start") \/ Goto(t, "advance")
        BY <1>6 DEF setIv
      <3>2. QED
        BY <1>0, <3>1, GotoType DEF ControlPoints, Relying
    <2>5. UNCHANGED <<rtcp_rdb, limit, packet, left, used, calls, given>>
      BY <1>6 DEF setIv
    <2>6. QED
      BY <2>2, <2>3, <2>4, <2>5 DEF TypeOK, PcType
  <1>7. ASSUME NEW t \in Media, advance(t) \/ start(t) \/ update(t) PROVE TypeOK'
    <2>1. Goto(t, "add") \/ Goto(t, "update") \/ Goto(t, "compute")
      BY <1>7 DEF advance, start, update
    <2>2. PcType'
      BY <1>0, <2>1, GotoType DEF ControlPoints, Relying
    <2>3. UNCHANGED <<rdbx, rtcp_rdb, limit, packet, left, est, used, calls, given>>
      BY <1>7 DEF advance, start, update, history
    <2>4. QED
      BY <2>2, <2>3 DEF TypeOK, PcType
  <1>8. ASSUME NEW t \in Media, add(t) PROVE TypeOK'
    <2>1. Goto(t, "advance") \/ Goto(t, "start")
      BY <1>8 DEF add
    <2>2. PcType'
      BY <1>0, <2>1, GotoType DEF ControlPoints, Relying
    <2>3. DOMAIN used' = Media
      BY <1>8 DEF add, TypeOK
    <2>4. UNCHANGED <<rdbx, rtcp_rdb, limit, packet, left, est, calls, given>>
      BY <1>8 DEF add, history, shared
    <2>5. QED
      BY <2>2, <2>3, <2>4 DEF TypeOK, PcType
  <1>9. ASSUME NEW t \in Media, compute(t) PROVE TypeOK'
    <2>1. PcType'
      BY <1>0, <1>9, GotoType DEF compute, ControlPoints
    <2>2. /\ packet' \in [Media -> 0 .. seq_num_max - 1]
          /\ est' \in [Media -> Int] /\ DOMAIN used' = Media
      BY <1>9, Sizes DEF compute, TypeOK
    <2>3. UNCHANGED <<rdbx, rtcp_rdb, limit, left, calls, given>>
      BY <1>9 DEF compute
    <2>4. QED
      BY <2>1, <2>2, <2>3 DEF TypeOK, PcType
  <1>10. ASSUME srtp_protect_rtcp PROVE TypeOK'
    <2>1. PcType'
      BY <1>0, <1>10, GotoType DEF srtp_protect_rtcp, ControlPoints
    <2>2. rtcp_rdb' \in RdbDatabase
      BY <1>10, IncrementType DEF srtp_protect_rtcp, TypeOK
    <2>3. UNCHANGED <<rdbx, limit, packet, left, est, used, calls, given>>
      BY <1>10 DEF srtp_protect_rtcp
    <2>4. QED
      BY <2>1, <2>2, <2>3 DEF TypeOK, PcType
  <1>11. CASE UNCHANGED vars
    BY <1>11 DEF vars, shared, locals, history, TypeOK
  <1>12. QED
    BY <1>1, <1>2, <1>3, <1>4, <1>5, <1>6, <1>7, <1>8, <1>9, <1>10, <1>11
       DEF Next, Lookup, Protect
-----------------------------------------------------------------------------
(* The key usage limit.                                                    *)

BeforeLimit == {"readHead", "writeHead", "readLimit", "writeLimit"}

\* A step that takes no thread past the limit and leaves the limit alone.
LEMMA LimitUntouched ==
  ASSUME LimitCounts, UNCHANGED <<limit, miscounted>>,
         \A t \in Media : passed(t)' = passed(t)
  PROVE  LimitCounts'
  BY DEF LimitCounts, Media

LEMMA LimitInit == Init => LimitCounts
  <1> SUFFICES ASSUME Init PROVE LimitCounts
    OBVIOUS
  <1>1. passed(audio) = 0 /\ passed(video) = 0
    BY DEF Init, passed, Media, Threads
  <1>2. limit.num_left = KeyUses
    BY DEF Init, key_limit_set
  <1>3. (KeyUses - (0 + 0)) % KeyRange = KeyUses
    BY Sizes
  <1>4. QED
    BY <1>1, <1>2, <1>3 DEF LimitCounts

LEMMA LimitNext == TypeOK /\ LimitCounts /\ [Next]_vars => LimitCounts'
  <1> SUFFICES ASSUME TypeOK, LimitCounts, [Next]_vars PROVE LimitCounts'
    OBVIOUS
  <1>0. /\ DOMAIN pc = Threads /\ Media \subseteq Threads /\ rtcp \in Threads
        /\ rtcp \notin Media
        /\ calls \in [Threads -> Nat]
    BY Sizes, Distinct DEF TypeOK, Threads
  <1>1. ASSUME NEW t \in Threads, srtp_get_stream(t) PROVE LimitCounts'
    <2>1. UNCHANGED <<limit, miscounted>>
      BY <1>1 DEF srtp_get_stream, shared
    <2>2. /\ \A u \in Threads : u # t => pc'[u] = pc[u] /\ calls'[u] = calls[u]
          /\ pc[t] = "idle" /\ calls'[t] = calls[t] + 1
          /\ t \in Media => pc'[t] \in BeforeLimit
      BY <1>0, <1>1, GotoMoves
         DEF srtp_get_stream, afterLookup, BeforeLimit
    <2>3. ASSUME NEW u \in Media PROVE passed(u)' = passed(u)
      <3>1. CASE u = t
        BY <1>0, <2>2, <3>1 DEF passed, BeforeLimit
      <3>2. CASE u # t
        BY <1>0, <2>2, <3>2 DEF passed
      <3>3. QED
        BY <3>1, <3>2
    <2>4. QED
      BY <2>1, <2>3, LimitUntouched
  <1>2. ASSUME NEW t \in Threads, readHead(t) \/ writeHead(t) PROVE LimitCounts'
    <2>1. UNCHANGED <<limit, miscounted, calls>>
      BY <1>2 DEF readHead, writeHead, history
    <2>2. /\ \A u \in Threads : u # t => pc'[u] = pc[u]
          /\ pc[t] \in BeforeLimit
          /\ t \in Media => pc'[t] \in BeforeLimit
      BY <1>0, <1>2, GotoMoves DEF readHead, writeHead, afterLookup, BeforeLimit
    <2>3. \A u \in Media : passed(u)' = passed(u)
      BY <1>0, <2>1, <2>2 DEF passed, BeforeLimit
    <2>4. QED
      BY <2>1, <2>3, LimitUntouched
  <1>3. ASSUME NEW t \in Media, readLimit(t) PROVE LimitCounts'
    <2>1. UNCHANGED <<limit, miscounted, calls>>
      BY <1>3 DEF readLimit, history, shared
    <2>2. /\ \A u \in Threads : u # t => pc'[u] = pc[u]
          /\ pc[t] \in BeforeLimit /\ pc'[t] \in BeforeLimit
      BY <1>0, <1>3, GotoMoves DEF readLimit, BeforeLimit
    <2>3. \A u \in Media : passed(u)' = passed(u)
      BY <1>0, <2>1, <2>2 DEF passed, BeforeLimit
    <2>4. QED
      BY <2>1, <2>3, LimitUntouched
  <1>4. ASSUME NEW t \in Media, writeLimit(t) PROVE LimitCounts'
    <2> SUFFICES ASSUME ~miscounted'
                 PROVE  limit'.num_left =
                          (KeyUses - (passed(audio)' + passed(video)')) % KeyRange
      BY DEF LimitCounts
    <2> DEFINE n == passed(audio) + passed(video)
    <2>1. ~miscounted /\ limit.num_left = left[t] /\ UNCHANGED calls
          /\ limit' = limitWith(limit, (left[t] - 1) % KeyRange)
      BY <1>4 DEF writeLimit
    <2>2. limit.num_left = (KeyUses - n) % KeyRange
      BY <2>1 DEF LimitCounts
    <2>3. limit'.num_left = (left[t] - 1) % KeyRange
      BY <2>1 DEF limitWith
    <2>4. /\ \A u \in Threads : u # t => pc'[u] = pc[u]
          /\ pc[t] \in BeforeLimit /\ pc'[t] \notin BeforeLimit
      BY <1>0, <1>4, GotoMoves DEF writeLimit, BeforeLimit
    <2>5. /\ passed(t)' = passed(t) + 1
          /\ \A u \in Media : u # t => passed(u)' = passed(u)
          /\ \A u \in Media : passed(u) \in Int
      BY <1>0, <2>1, <2>4 DEF passed, BeforeLimit
    <2>6. n \in Int /\ passed(audio)' + passed(video)' = n + 1
      BY <2>5, Distinct DEF Media
    <2> HIDE DEF n
    <2>7. KeyUses - n \in Int /\ -1 \in Int /\ KeyRange \in Nat /\ KeyRange > 0
      BY <2>6, Sizes
    <2>8. (((KeyUses - n) % KeyRange) + (-1)) % KeyRange
            = ((KeyUses - n) + (-1)) % KeyRange
      BY <2>7, RemainderShift, Zenon
    <2>9. left[t] - 1 = ((KeyUses - n) % KeyRange) + (-1)
      <3>1. (KeyUses - n) % KeyRange \in Int
        BY <2>7
      <3>2. QED
        BY <2>1, <2>2, <3>1
    <2>10. KeyUses - (n + 1) = (KeyUses - n) + (-1)
      BY <2>6, Sizes
    <2>11. QED
      BY <2>3, <2>6, <2>8, <2>9, <2>10, Zenon
  <1>5. ASSUME NEW t \in Media,
               setIv(t) \/ advance(t) \/ add(t) \/ start(t) \/ update(t) \/ compute(t)
        PROVE  LimitCounts'
    <2>1. UNCHANGED <<limit, miscounted, calls>>
      BY <1>5 DEF setIv, advance, add, start, update, compute, history, shared
    <2>2. PICK label : Goto(t, label) /\ label \notin BeforeLimit
                       /\ pc[t] \notin BeforeLimit
      BY <1>5 DEF setIv, advance, add, start, update, compute, BeforeLimit
    <2>3. /\ \A u \in Threads : u # t => pc'[u] = pc[u]
          /\ pc'[t] \notin BeforeLimit
      BY <1>0, <2>2, GotoMoves
    <2>4. \A u \in Media : passed(u)' = passed(u)
      BY <1>0, <2>1, <2>2, <2>3 DEF passed, BeforeLimit
    <2>5. QED
      BY <2>1, <2>4, LimitUntouched
  <1>6. ASSUME srtp_protect_rtcp PROVE LimitCounts'
    <2>1. UNCHANGED <<limit, miscounted, calls>>
      BY <1>6 DEF srtp_protect_rtcp
    <2>2. \A u \in Media : pc'[u] = pc[u]
      BY <1>0, <1>6, GotoMoves DEF srtp_protect_rtcp
    <2>3. \A u \in Media : passed(u)' = passed(u)
      BY <2>1, <2>2 DEF passed
    <2>4. QED
      BY <2>1, <2>3, LimitUntouched
  <1>7. CASE UNCHANGED vars
    <2>1. UNCHANGED <<limit, miscounted, calls, pc>>
      BY <1>7 DEF vars, shared, locals, history
    <2>2. QED
      BY <2>1, LimitUntouched DEF passed
  <1>8. QED
    BY <1>1, <1>2, <1>3, <1>4, <1>5, <1>6, <1>7 DEF Next, Lookup, Protect
-----------------------------------------------------------------------------
(* The reports.                                                            *)

\* A step of another thread, which neither touches the reports nor drops a
\* stream.
LEMMA ReportsUntouched ==
  ASSUME ReportsCounted, UNCHANGED rtcp_rdb, calls'[rtcp] = calls[rtcp],
         pc'[rtcp] = pc[rtcp], dropped => dropped',
         ~dropped' => stream_list \subseteq stream_list',
         \A p \in sent' : p.ssrc = rtcp => p \in sent
  PROVE  ReportsCounted'
  <1>1. reported' = reported
    BY DEF reported
  <1>2. QED
    BY <1>1 DEF ReportsCounted

LEMMA ReportsInit == Init => ReportsCounted
  <1> SUFFICES ASSUME Init PROVE ReportsCounted
    OBVIOUS
  <1>1. pc[rtcp] = "idle" /\ calls[rtcp] = 0 /\ sent = {}
        /\ rtcp_rdb.window_start = 0
    BY DEF Init, Threads, rdb_init
  <1>2. reported = 0
    BY <1>1 DEF reported
  <1>3. QED
    BY <1>1, <1>2 DEF ReportsCounted

\* What the counter of the stream becomes.
LEMMA Increment ==
  ASSUME NEW r \in RdbDatabase
  PROVE  LET w == rdb_get_value(rdb_increment(r)) IN
         /\ w = rdb_increment(r).window_start
         /\ r.window_start + 1 < 2 * half => w = r.window_start + 1
         /\ rdb_increment_status(r) = "ok" => w = r.window_start + 1
  <1> DEFINE w == (r.window_start + 1) % (2 * half)
  <1>1. r.window_start \in 0 .. 2 * half - 1 /\ 2 * half \in Nat
    BY Sizes DEF RdbDatabase
  <1>2. r.window_start + 1 < 2 * half => w = r.window_start + 1
    BY <1>1
  <1> HIDE DEF w
  <1>3. rdb_increment(r) = [r EXCEPT !.window_start = w]
    BY DEF rdb_increment, w
  <1>4. rdb_increment(r).window_start = w
    BY <1>3 DEF RdbDatabase
  <1>5. rdb_increment_status(r) = "ok" => r.window_start + 1 < 2 * half
    BY <1>1, Sizes DEF rdb_increment_status
  <1>6. QED
    BY <1>2, <1>4, <1>5 DEF rdb_get_value

LEMMA ReportsNext == TypeOK /\ ReportsCounted /\ [Next]_vars => ReportsCounted'
  <1> SUFFICES ASSUME TypeOK, ReportsCounted, [Next]_vars PROVE ReportsCounted'
    OBVIOUS
  <1>0. /\ DOMAIN pc = Threads /\ Media \subseteq Threads /\ rtcp \in Threads
        /\ rtcp \notin Media
        /\ calls[rtcp] \in Nat /\ reported \in Int
        /\ DOMAIN calls = Threads
    BY Sizes, Distinct DEF TypeOK, Threads, reported
  <1>1. ASSUME NEW t \in Threads, srtp_get_stream(t) PROVE ReportsCounted'
    <2>1. /\ UNCHANGED <<rtcp_rdb, stream_list, sent, dropped>>
          /\ pc[t] = "idle" /\ calls' = [calls EXCEPT ![t] = @ + 1]
          /\ pc'[t] = IF t \in stream_list THEN afterLookup(t) ELSE "readHead"
          /\ \A u \in Threads : u # t => pc'[u] = pc[u]
      BY <1>0, <1>1, GotoMoves DEF srtp_get_stream, shared
    <2>2. CASE t # rtcp
      BY <1>0, <2>1, <2>2, ReportsUntouched
    <2>3. CASE t = rtcp
      <3>1. calls'[rtcp] = calls[rtcp] + 1 /\ pc'[rtcp] # "idle"
        BY <1>0, <2>1, <2>3 DEF afterLookup
      <3>2. reported' = reported /\ reported = calls[rtcp]
        BY <1>0, <2>1, <2>3, <3>1 DEF reported
      <3>3. CASE rtcp \in stream_list
        <4>1. pc'[rtcp] = "protectRtcp"
          BY <2>1, <2>3, <3>3 DEF afterLookup
        <4>2. QED
          BY <1>0, <2>1, <3>1, <3>2, <3>3, <4>1 DEF ReportsCounted
      <3>4. CASE rtcp \notin stream_list
        <4>1. pc'[rtcp] = "readHead"
          BY <2>1, <2>3, <3>4
        <4>2. ~dropped => calls[rtcp] = 0
          BY <1>0, <2>1, <2>3, <3>4 DEF ReportsCounted
        <4>3. QED
          BY <1>0, <2>1, <3>1, <3>2, <4>1, <4>2 DEF ReportsCounted
      <3>5. QED
        BY <3>3, <3>4
    <2>4. QED
      BY <2>2, <2>3
  <1>2. ASSUME NEW t \in Threads, readHead(t) PROVE ReportsCounted'
    <2>1. /\ UNCHANGED <<stream_list, sent, dropped, calls>>
          /\ pc[t] = "readHead" /\ pc'[t] = "writeHead"
          /\ \A u \in Threads : u # t => pc'[u] = pc[u]
      BY <1>0, <1>2, GotoMoves DEF readHead, history
    <2>2. CASE t # rtcp
      <3>1. UNCHANGED rtcp_rdb
        BY <1>2, <2>2 DEF readHead
      <3>2. QED
        BY <1>0, <2>1, <2>2, <3>1, ReportsUntouched
    <2>3. CASE t = rtcp
      <3>1. rtcp_rdb'.window_start = 0
        BY <1>2, <2>3 DEF readHead, rdb_init
      <3>2. reported' = reported /\ reported = calls[rtcp] - 1
        BY <2>1, <2>3 DEF reported
      <3>3. QED
        BY <1>0, <2>1, <2>3, <3>1, <3>2 DEF ReportsCounted
    <2>4. QED
      BY <2>2, <2>3
  <1>3. ASSUME NEW t \in Threads, writeHead(t) PROVE ReportsCounted'
    <2>1. /\ UNCHANGED <<rtcp_rdb, sent, calls>>
          /\ pc[t] = "writeHead" /\ pc'[t] = afterLookup(t)
          /\ \A u \in Threads : u # t => pc'[u] = pc[u]
          /\ stream_list' = next[t] \cup {t}
          /\ dropped' = (dropped \/ ~(stream_list \subseteq stream_list'))
      BY <1>0, <1>3, GotoMoves DEF writeHead
    <2>2. /\ dropped => dropped'
          /\ ~dropped' => stream_list \subseteq stream_list'
      BY <2>1
    <2>3. CASE t # rtcp
      BY <1>0, <2>1, <2>2, <2>3, ReportsUntouched
    <2>4. CASE t = rtcp
      <3>1. pc'[rtcp] = "protectRtcp" /\ rtcp \in stream_list'
        BY <2>1, <2>4 DEF afterLookup
      <3>2. reported' = reported
        BY <2>1, <2>4, <3>1 DEF reported
      <3>3. ~dropped' => ~dropped /\ calls[rtcp] = 1
        BY <2>1, <2>2, <2>4 DEF ReportsCounted
      <3>4. QED
        BY <1>0, <2>1, <3>1, <3>2, <3>3 DEF ReportsCounted
    <2>5. QED
      BY <2>3, <2>4
  <1>4. ASSUME NEW t \in Media,
               \/ readLimit(t) \/ writeLimit(t) \/ setIv(t) \/ advance(t)
               \/ add(t) \/ start(t) \/ update(t) \/ compute(t)
        PROVE  ReportsCounted'
    <2>1. UNCHANGED <<rtcp_rdb, stream_list, dropped, calls>>
      BY <1>4 DEF readLimit, writeLimit, setIv, advance, add, start, update,
                  compute, history, shared
    <2>2. \E label : Goto(t, label)
      BY <1>4 DEF readLimit, writeLimit, setIv, advance, add, start, update, compute
    <2>3. pc'[rtcp] = pc[rtcp]
      BY <1>0, <2>2, GotoMoves
    <2>4. \A p \in sent' : p.ssrc = rtcp => p \in sent
      <3>1. CASE compute(t)
        BY <1>0, <3>1 DEF compute
      <3>2. CASE ~compute(t)
        BY <1>4, <3>2 DEF readLimit, writeLimit, setIv, advance, add, start,
                          update, history
      <3>3. QED
        BY <3>1, <3>2
    <2>5. QED
      BY <2>1, <2>3, <2>4, ReportsUntouched
  <1>5. ASSUME srtp_protect_rtcp PROVE ReportsCounted'
    <2> DEFINE r == rdb_increment(rtcp_rdb)
               new == [ssrc |-> rtcp, payload |-> calls[rtcp],
                      index |-> rdb_get_value(r)]
    <2>1. /\ UNCHANGED <<stream_list, dropped, calls>>
          /\ pc[rtcp] = "protectRtcp" /\ pc'[rtcp] = "idle"
          /\ rtcp_rdb' = r
          /\ sent' = IF rdb_increment_status(rtcp_rdb) = "ok" THEN sent \cup {new}
                                                              ELSE sent
      BY <1>0, <1>5, GotoMoves DEF srtp_protect_rtcp
    <2>2. reported = calls[rtcp] - 1 /\ reported' = calls[rtcp]
      BY <2>1 DEF reported
    <2> SUFFICES ASSUME ~dropped'
                 PROVE  /\ calls[rtcp] > 0 => rtcp \in stream_list
                        /\ calls[rtcp] < 2 * half
                             => r.window_start = calls[rtcp]
                        /\ \A p \in sent' : p.ssrc = rtcp =>
                             /\ p.payload \in 1 .. calls[rtcp]
                             /\ calls[rtcp] <= 2 * half => p.index = p.payload
                             /\ AReport(p)
      BY <2>1, <2>2 DEF ReportsCounted
    <2>3. /\ calls[rtcp] > 0 /\ rtcp \in stream_list
          /\ reported < 2 * half => rtcp_rdb.window_start = reported
          /\ \A p \in sent : p.ssrc = rtcp =>
               /\ p.payload \in 1 .. reported
               /\ reported <= 2 * half => p.index = p.payload
               /\ AReport(p)
      BY <2>1 DEF ReportsCounted
    <2>4. /\ rdb_get_value(r) = r.window_start
          /\ rtcp_rdb.window_start + 1 < 2 * half
               => r.window_start = rtcp_rdb.window_start + 1
          /\ rdb_increment_status(rtcp_rdb) = "ok"
               => r.window_start = rtcp_rdb.window_start + 1
      BY Increment DEF TypeOK
    <2>5. new.payload = calls[rtcp] /\ new.index = r.window_start /\ AReport(new)
      BY <2>4 DEF AReport
    <2> HIDE DEF r, new
    <2>6. calls[rtcp] < 2 * half => r.window_start = calls[rtcp]
      BY <1>0, <2>2, <2>3, <2>4, Sizes
    <2>7. ASSUME rdb_increment_status(rtcp_rdb) = "ok", calls[rtcp] <= 2 * half
          PROVE  new.index = new.payload
      BY <1>0, <2>2, <2>3, <2>4, <2>5, <2>7, Sizes
    <2>8. ASSUME NEW p \in sent', p.ssrc = rtcp
          PROVE  /\ p.payload \in 1 .. calls[rtcp]
                 /\ calls[rtcp] <= 2 * half => p.index = p.payload
                 /\ AReport(p)
      <3>1. CASE p \in sent
        <4>1. /\ p.payload \in 1 .. reported
              /\ reported <= 2 * half => p.index = p.payload
              /\ AReport(p)
          BY <2>3, <2>8, <3>1
        <4>2. QED
          BY <1>0, <2>2, <4>1, Sizes
      <3>2. CASE p \notin sent
        <4>1. p = new /\ rdb_increment_status(rtcp_rdb) = "ok"
          BY <2>1, <3>2
        <4>2. QED
          BY <1>0, <2>3, <2>5, <2>7, <4>1
      <3>3. QED
        BY <3>1, <3>2
    <2>9. QED
      BY <2>3, <2>6, <2>8
  <1>6. CASE UNCHANGED vars
    <2>1. UNCHANGED <<rtcp_rdb, stream_list, dropped, calls, pc, sent>>
      BY <1>6 DEF vars, shared, locals, history
    <2>2. QED
      BY <2>1, ReportsUntouched
  <1>7. QED
    BY <1>1, <1>2, <1>3, <1>4, <1>5, <1>6 DEF Next, Lookup, Protect
-----------------------------------------------------------------------------
(* The media packets.                                                      *)

\* A step in which no thread that relies on the contexts takes part.
LEMMA MediaUntouched ==
  ASSUME MediaSound, UNCHANGED <<rtp_cipher, hash, est, used, overlapped>>,
         \A t \in Media :
           \/ pc'[t] = pc[t] /\ packet'[t] = packet[t] /\ calls'[t] = calls[t]
           \/ pc[t] \notin Relying /\ pc'[t] \notin Relying,
         \A p \in sent' : p.ssrc \in Media => p \in sent
  PROVE  MediaSound'
  <1> SUFFICES ASSUME ~overlapped'
               PROVE  /\ OneRelies'
                      /\ \A t \in Media : Alone(t)'
                      /\ \A p \in sent' : p.ssrc \in Media => Sound(p)
    BY DEF MediaSound, Sound
  <1>1. /\ OneRelies /\ \A t \in Media : Alone(t)
        /\ \A p \in sent : p.ssrc \in Media => Sound(p)
    BY DEF MediaSound
  <1>2. OneRelies'
    BY <1>1 DEF OneRelies
  <1>3. ASSUME NEW t \in Media PROVE Alone(t)'
    <2>1. CASE pc'[t] = pc[t] /\ packet'[t] = packet[t] /\ calls'[t] = calls[t]
      BY <1>1, <2>1 DEF Alone
    <2>2. CASE pc[t] \notin Relying /\ pc'[t] \notin Relying
      BY <1>1, <2>2 DEF Alone, Relying
    <2>3. QED
      BY <2>1, <2>2
  <1>4. QED
    BY <1>1, <1>2, <1>3

\* A step of the one thread that does, or of one that begins to.
LEMMA MediaStep ==
  ASSUME MediaSound, ~overlapped, DOMAIN pc = Threads, NEW t \in Media,
         \A u \in Media \ {t} : pc[u] \notin Relying,
         \E label : Goto(t, label),
         \A u \in Media \ {t} : used'[u] = used[u],
         ~overlapped' => Alone(t)',
         \A p \in sent' : p.ssrc \in Media => p \in sent \/ Sound(p)
  PROVE  MediaSound'
  <1> SUFFICES ASSUME ~overlapped'
               PROVE  /\ OneRelies'
                      /\ \A u \in Media : Alone(u)'
                      /\ \A p \in sent' : p.ssrc \in Media => Sound(p)
    BY DEF MediaSound, Sound
  <1>1. \A u \in Media \ {t} : pc'[u] = pc[u] /\ pc'[u] \notin Relying
    BY GotoMoves DEF Threads
  <1>2. OneRelies'
    BY <1>1 DEF OneRelies
  <1>3. ASSUME NEW u \in Media, u # t PROVE Alone(u)'
    <2>1. used[u] = <<>>
      BY <1>3 DEF MediaSound, Alone
    <2>2. used'[u] = <<>> /\ pc'[u] \notin Relying
      BY <1>1, <1>3, <2>1
    <2>3. QED
      BY <2>2 DEF Alone, Relying
  <1>4. QED
    BY <1>2, <1>3 DEF MediaSound

LEMMA MediaInit == Init => MediaSound
  <1> SUFFICES ASSUME Init PROVE MediaSound
    OBVIOUS
  <1>1. \A t \in Media : pc[t] = "idle" /\ used[t] = <<>>
    BY DEF Init, Threads
  <1>2. "idle" \notin Relying
    BY DEF Relying
  <1>3. \A t \in Media : Alone(t)
    BY <1>1, <1>2 DEF Alone
  <1>4. QED
    BY <1>1, <1>2, <1>3 DEF MediaSound, OneRelies, Init

LEMMA MediaNext == TypeOK /\ MediaSound /\ [Next]_vars => MediaSound'
  <1> SUFFICES ASSUME TypeOK, MediaSound, [Next]_vars PROVE MediaSound'
    OBVIOUS
  <1>0. /\ DOMAIN pc = Threads /\ Media \subseteq Threads /\ rtcp \in Threads
        /\ rtcp \notin Media /\ DOMAIN used = Media
        /\ Blocks \in Nat
    BY Sizes, Distinct DEF TypeOK, Threads
  <1>1. ASSUME NEW t \in Threads,
               \/ srtp_get_stream(t) \/ readHead(t) \/ writeHead(t)
        PROVE  MediaSound'
    <2>1. UNCHANGED <<rtp_cipher, hash, est, used, overlapped, sent>>
      BY <1>1 DEF srtp_get_stream, readHead, writeHead, shared, history
    <2>2. PICK label : Goto(t, label) /\ label \notin Relying
                       /\ pc[t] \notin Relying
      BY <1>1 DEF srtp_get_stream, readHead, writeHead, afterLookup, Relying
    <2>3. /\ \A u \in Threads : u # t => pc'[u] = pc[u]
          /\ pc'[t] \notin Relying
      BY <1>0, <2>2, GotoMoves
    <2>4. \A u \in Media : u # t => packet'[u] = packet[u] /\ calls'[u] = calls[u]
      <3>1. CASE srtp_get_stream(t)
        <4>1. calls' = [calls EXCEPT ![t] = @ + 1]
          BY <3>1 DEF srtp_get_stream
        <4>2. UNCHANGED packet \/ \E s \in Packets : packet' = [packet EXCEPT ![t] = s]
          BY <3>1 DEF srtp_get_stream
        <4>3. QED
          BY <1>0, <4>1, <4>2 DEF TypeOK
      <3>2. CASE readHead(t) \/ writeHead(t)
        BY <3>2 DEF readHead, writeHead, history
      <3>3. QED
        BY <1>1, <3>1, <3>2
    <2>5. \A u \in Media : \/ /\ pc'[u] = pc[u] /\ packet'[u] = packet[u]
                              /\ calls'[u] = calls[u]
                           \/ pc[u] \notin Relying /\ pc'[u] \notin Relying
      BY <1>0, <2>2, <2>3, <2>4
    <2>6. QED
      BY <2>1, <2>5, MediaUntouched
  <1>2. ASSUME NEW t \in Media, readLimit(t) \/ writeLimit(t) PROVE MediaSound'
    <2>1. UNCHANGED <<rtp_cipher, hash, est, used, overlapped, sent, packet, calls>>
      BY <1>2 DEF readLimit, writeLimit, shared, history
    <2>2. PICK label : Goto(t, label) /\ label \notin Relying
                       /\ pc[t] \notin Relying
      BY <1>2 DEF readLimit, writeLimit, Relying
    <2>3. /\ \A u \in Threads : u # t => pc'[u] = pc[u]
          /\ pc'[t] \notin Relying
      BY <1>0, <2>2, GotoMoves
    <2>4. QED
      BY <1>0, <2>1, <2>2, <2>3, MediaUntouched
  <1>3. ASSUME srtp_protect_rtcp PROVE MediaSound'
    <2>1. UNCHANGED <<rtp_cipher, hash, est, used, overlapped, packet, calls>>
      BY <1>3 DEF srtp_protect_rtcp
    <2>2. \A u \in Media : pc'[u] = pc[u]
      BY <1>0, <1>3, GotoMoves DEF srtp_protect_rtcp
    <2>3. \A p \in sent' : p.ssrc \in Media => p \in sent
      BY <1>0, <1>3 DEF srtp_protect_rtcp
    <2>4. QED
      BY <2>1, <2>2, <2>3, MediaUntouched
  <1>4. ASSUME ~overlapped, NEW t \in Media, setIv(t) PROVE MediaSound'
    <2> DEFINE e == rdbx_estimate_index(rdbx[t], packet[t])
               v == iv(t, e.guess)
    <2>1. /\ pc[t] = "setIv" /\ UNCHANGED <<hash, used, packet, calls, sent>>
          /\ \/ Goto(t, "idle") /\ UNCHANGED <<rtp_cipher, est, overlapped>>
             \/ /\ Goto(t, IF Blocks = 0 THEN "start" ELSE "advance")
                /\ est' = [est EXCEPT ![t] = e.guess]
                /\ rtp_cipher' = aes_icm_set_iv(v)
                /\ overlapped' = (overlapped \/ \E u \in Media \ {t} :
                                                  pc[u] \in Relying)
      BY <1>4 DEF setIv
    <2>2. Seq16(e.guess) = packet[t]
      BY EstimateFits DEF TypeOK
    <2>3. used[t] = <<>>
      BY <1>4, <2>1 DEF MediaSound, Alone, Relying
    <2> HIDE DEF e
    <2>4. CASE Goto(t, "idle") /\ UNCHANGED <<rtp_cipher, est, overlapped>>
      <3>1. /\ \A u \in Threads : u # t => pc'[u] = pc[u]
            /\ pc'[t] \notin Relying /\ pc[t] \notin Relying
        BY <1>0, <2>1, <2>4, GotoMoves DEF Relying
      <3>2. QED
        BY <1>0, <2>1, <2>4, <3>1, MediaUntouched
    <2>5. CASE /\ Goto(t, IF Blocks = 0 THEN "start" ELSE "advance")
               /\ est' = [est EXCEPT ![t] = e.guess]
               /\ rtp_cipher' = aes_icm_set_iv(v)
               /\ overlapped' = (overlapped \/ \E u \in Media \ {t} :
                                                 pc[u] \in Relying)
      <3>1. CASE overlapped'
        BY <3>1 DEF MediaSound
      <3>2. CASE ~overlapped'
        <4>1. \A u \in Media \ {t} : pc[u] \notin Relying
          BY <2>5, <3>2
        <4>2. /\ pc'[t] = IF Blocks = 0 THEN "start" ELSE "advance"
              /\ est'[t] = e.guess /\ used'[t] = <<>> /\ packet'[t] = packet[t]
              /\ rtp_cipher'.counter = Block(v, 0)
          BY <1>0, <2>1, <2>3, <2>5, GotoMoves DEF aes_icm_set_iv, TypeOK
        <4>3. Alone(t)'
          <5>1. used'[t] = Stream(t, est'[t], 0)
            BY <4>2, EmptyStream
          <5>2. CASE Blocks = 0
            BY <2>2, <4>2, <5>1, <5>2 DEF Alone, Relying
          <5>3. CASE Blocks # 0
            <6>1. 0 \in 0 .. Blocks - 1 /\ pc'[t] = "advance" /\ v = iv(t, est'[t])
              BY <1>0, <4>2, <5>3
            <6>2. \E k \in 0 .. Blocks - 1 :
                    /\ used'[t] = Stream(t, est'[t], k)
                    /\ rtp_cipher'.counter = Block(iv(t, est'[t]), k)
              BY <4>2, <5>1, <6>1
            <6>3. QED
              BY <2>2, <4>2, <6>1, <6>2 DEF Alone, Relying
          <5>4. QED
            BY <5>2, <5>3
        <4>4. \E label : Goto(t, label)
          BY <2>5
        <4>5. QED
          BY <1>0, <1>4, <2>1, <4>1, <4>3, <4>4, MediaStep
      <3>3. QED
        BY <3>1, <3>2
    <2>6. QED
      BY <2>1, <2>4, <2>5
  <1>5. ASSUME ~overlapped, NEW t \in Media, pc[t] \in Relying
        PROVE  /\ \A u \in Media \ {t} : pc[u] \notin Relying
               /\ Alone(t)
    BY <1>5 DEF MediaSound, OneRelies
  <1>6. ASSUME ~overlapped, NEW t \in Media, advance(t) PROVE MediaSound'
    <2>1. /\ pc[t] = "advance" /\ Goto(t, "add")
          /\ rtp_cipher' = aes_icm_advance(rtp_cipher)
          /\ UNCHANGED <<hash, packet, est, used, sent, overlapped>>
      BY <1>6 DEF advance, history
    <2>2. /\ \A u \in Media \ {t} : pc[u] \notin Relying
          /\ Alone(t) /\ pc'[t] = "add"
      BY <1>0, <1>5, <1>6, <2>1, GotoMoves DEF Relying
    <2>3. PICK k \in 0 .. Blocks - 1 :
            /\ used[t] = Stream(t, est[t], k)
            /\ rtp_cipher.counter = Block(iv(t, est[t]), k)
      BY <2>1, <2>2 DEF Alone
    <2>4. k \in Nat
      BY <1>0
    <2>5. /\ rtp_cipher'.counter = Block(iv(t, est[t]), k + 1)
          /\ rtp_cipher'.keystream_buffer = Block(iv(t, est[t]), k)
      BY <2>1, <2>3, <2>4, NextBlock
    <2>6. Seq16(est[t]) = packet[t]
      BY <2>1, <2>2 DEF Alone, Relying
    <2>7. Alone(t)'
      BY <2>1, <2>2, <2>3, <2>5, <2>6 DEF Alone, Relying
    <2>8. QED
      BY <1>0, <1>6, <2>1, <2>2, <2>7, MediaStep
  <1>7. ASSUME ~overlapped, NEW t \in Media, add(t) PROVE MediaSound'
    <2>1. /\ pc[t] = "add"
          /\ Goto(t, IF Len(used[t]) + 1 < Blocks THEN "advance" ELSE "start")
          /\ used' = [used EXCEPT ![t] = Append(@, rtp_cipher.keystream_buffer)]
          /\ UNCHANGED <<rtp_cipher, hash, packet, est, sent, overlapped>>
      BY <1>7 DEF add, shared, history
    <2>2. /\ \A u \in Media \ {t} : pc[u] \notin Relying
          /\ Alone(t)
          /\ pc'[t] = IF Len(used[t]) + 1 < Blocks THEN "advance" ELSE "start"
          /\ Seq16(est[t]) = packet[t]
      BY <1>0, <1>5, <1>7, <2>1, GotoMoves DEF Relying, Alone
    <2>3. PICK k \in 0 .. Blocks - 1 :
            /\ used[t] = Stream(t, est[t], k)
            /\ rtp_cipher.counter = Block(iv(t, est[t]), k + 1)
            /\ rtp_cipher.keystream_buffer = Block(iv(t, est[t]), k)
      BY <2>1, <2>2 DEF Alone
    <2>4. k \in Nat
      BY <1>0
    <2>5. /\ Len(used[t]) = k
          /\ used'[t] = Stream(t, est[t], k + 1)
      <3>1. used'[t] = Append(used[t], rtp_cipher.keystream_buffer)
        BY <1>0, <2>1
      <3>2. QED
        BY <2>3, <2>4, <3>1, StreamGrows
    <2>6. CASE k + 1 < Blocks
      <3>1. pc'[t] = "advance" /\ k + 1 \in 0 .. Blocks - 1
        BY <1>0, <2>2, <2>4, <2>5, <2>6
      <3>2. \E j \in 0 .. Blocks - 1 :
              /\ used'[t] = Stream(t, est[t], j)
              /\ rtp_cipher'.counter = Block(iv(t, est[t]), j)
        BY <2>1, <2>3, <2>5, <3>1
      <3>3. Alone(t)'
        BY <2>1, <2>2, <3>1, <3>2 DEF Alone, Relying
      <3>4. QED
        BY <1>0, <1>7, <2>1, <2>2, <3>3, MediaStep
    <2>7. CASE ~(k + 1 < Blocks)
      <3>1. pc'[t] = "start" /\ k + 1 = Blocks
        BY <1>0, <2>2, <2>4, <2>5, <2>7
      <3>2. Alone(t)'
        BY <2>1, <2>2, <2>5, <3>1 DEF Alone, Relying
      <3>3. QED
        BY <1>0, <1>7, <2>1, <2>2, <3>2, MediaStep
    <2>8. QED
      BY <2>6, <2>7
  <1>8. ASSUME ~overlapped, NEW t \in Media, start(t) PROVE MediaSound'
    <2>1. /\ pc[t] = "start" /\ Goto(t, "update") /\ hash' = <<>>
          /\ UNCHANGED <<packet, est, used, sent, overlapped>>
      BY <1>8 DEF start, history
    <2>2. /\ \A u \in Media \ {t} : pc[u] \notin Relying
          /\ Alone(t) /\ pc'[t] = "update"
      BY <1>0, <1>5, <1>8, <2>1, GotoMoves DEF Relying
    <2>3. Alone(t)'
      BY <2>1, <2>2 DEF Alone, Relying
    <2>4. QED
      BY <1>0, <1>8, <2>1, <2>2, <2>3, MediaStep
  <1>9. ASSUME ~overlapped, NEW t \in Media, update(t) PROVE MediaSound'
    <2>1. /\ pc[t] = "update" /\ Goto(t, "compute")
          /\ hash' = Append(hash, <<t, packet[t], calls[t], used[t]>>)
          /\ UNCHANGED <<packet, calls, est, used, sent, overlapped>>
      BY <1>9 DEF update, history
    <2>2. /\ \A u \in Media \ {t} : pc[u] \notin Relying
          /\ Alone(t) /\ pc'[t] = "compute"
      BY <1>0, <1>5, <1>9, <2>1, GotoMoves DEF Relying
    <2>3. hash' = <<<<t, packet[t], calls[t], used[t]>>>>
      BY <2>1, <2>2 DEF Alone
    <2>4. Alone(t)'
      BY <2>1, <2>2, <2>3 DEF Alone, Relying
    <2>5. QED
      BY <1>0, <1>9, <2>1, <2>2, <2>4, MediaStep
  <1>10. ASSUME ~overlapped, NEW t \in Media, compute(t) PROVE MediaSound'
    <2> DEFINE p == [ssrc |-> t, n |-> packet[t], payload |-> calls[t],
                     index |-> est[t], used |-> used[t], tag |-> Append(hash, Roc(est[t]))]
    <2>1. /\ pc[t] = "compute" /\ Goto(t, "idle")
          /\ sent' = sent \cup {p}
          /\ used' = [used EXCEPT ![t] = <<>>]
          /\ UNCHANGED overlapped
      BY <1>10 DEF compute
    <2>2. /\ \A u \in Media \ {t} : pc[u] \notin Relying
          /\ Alone(t) /\ pc'[t] = "idle" /\ used'[t] = <<>>
      BY <1>0, <1>5, <1>10, <2>1, GotoMoves DEF Relying
    <2>3. Alone(t)'
      BY <2>2 DEF Alone, Relying
    <2>4. Sound(p)
      <3>1. /\ hash = <<<<t, packet[t], calls[t], used[t]>>>>
            /\ used[t] = Stream(t, est[t], Blocks)
            /\ Seq16(est[t]) = packet[t]
        BY <2>1, <2>2 DEF Alone, Relying
      <3>2. p.tag = <<<<t, packet[t], calls[t], used[t]>>, Roc(est[t])>>
        BY <3>1, AppendToOne
      <3>3. QED
        BY <3>1, <3>2 DEF Sound
    <2>5. \A q \in sent' : q.ssrc \in Media => q \in sent \/ Sound(q)
      BY <2>1, <2>4
    <2>6. QED
      BY <1>0, <1>10, <2>1, <2>2, <2>3, <2>5, MediaStep
  <1>11. CASE UNCHANGED vars
    <2>1. UNCHANGED <<rtp_cipher, hash, est, used, overlapped, sent, packet, calls, pc>>
      BY <1>11 DEF vars, shared, locals, history
    <2>2. QED
      BY <2>1, MediaUntouched
  <1>12. QED
    BY <1>1, <1>2, <1>3, <1>4, <1>6, <1>7, <1>8, <1>9, <1>10, <1>11
       DEF Next, Lookup, Protect
-----------------------------------------------------------------------------
(* What came in.                                                           *)

\* A step that gives no packet to a media thread and returns none of a media
\* thread.
LEMMA GivenUntouched ==
  ASSUME GivenRecorded, UNCHANGED given, \A t \in Media : calls'[t] = calls[t],
         \A t \in Media : pc'[t] # "idle" =>
           pc[t] # "idle" /\ packet'[t] = packet[t],
         \A p \in sent' : p.ssrc \in Media => p \in sent
  PROVE  GivenRecorded'
  <1>1. \A p \in sent' : p.ssrc \in Media =>
          /\ p.payload \in 1 .. calls'[p.ssrc]
          /\ pc'[p.ssrc] # "idle" => p.payload < calls'[p.ssrc]
          /\ given'[p.ssrc][p.payload] = p.n
    BY DEF GivenRecorded
  <1>2. QED
    BY <1>1 DEF GivenRecorded

LEMMA GivenInit == Init => GivenRecorded
  <1> SUFFICES ASSUME Init PROVE GivenRecorded
    OBVIOUS
  <1>1. \A t \in Media : pc[t] = "idle" /\ given[t] = <<>> /\ calls[t] = 0
    BY DEF Init, Threads
  <1>2. QED
    BY <1>1 DEF GivenRecorded, Init

LEMMA GivenNext == TypeOK /\ GivenRecorded /\ [Next]_vars => GivenRecorded'
  <1> SUFFICES ASSUME TypeOK, GivenRecorded, [Next]_vars PROVE GivenRecorded'
    OBVIOUS
  <1>0. /\ DOMAIN pc = Threads /\ Media \subseteq Threads /\ rtcp \in Threads
        /\ rtcp \notin Media /\ DOMAIN calls = Threads
        /\ \A t \in Media : calls[t] \in Nat /\ packet[t] \in Int
    BY Sizes, Distinct DEF TypeOK, Threads
  <1>1. ASSUME NEW t \in Threads, srtp_get_stream(t) PROVE GivenRecorded'
    <2>1. /\ pc[t] = "idle" /\ calls' = [calls EXCEPT ![t] = @ + 1]
          /\ \A u \in Threads : u # t => pc'[u] = pc[u]
          /\ UNCHANGED sent
      BY <1>0, <1>1, GotoMoves DEF srtp_get_stream
    <2>2. CASE t = rtcp
      <3>1. /\ UNCHANGED <<given, packet>> /\ \A u \in Media : calls'[u] = calls[u]
        BY <1>0, <1>1, <2>1, <2>2 DEF srtp_get_stream
      <3>2. QED
        BY <1>0, <2>1, <2>2, <3>1, GivenUntouched
    <2>3. CASE t \in Media
      <3>1. PICK s \in Packets : /\ packet' = [packet EXCEPT ![t] = s]
                                 /\ given' = [given EXCEPT ![t] = Append(@, s)]
        BY <1>0, <1>1, <2>3 DEF srtp_get_stream
      <3>2. /\ packet'[t] = s /\ given'[t] = Append(given[t], s)
            /\ calls'[t] = calls[t] + 1
            /\ \A u \in Media : u # t => /\ packet'[u] = packet[u]
                                         /\ given'[u] = given[u]
                                         /\ calls'[u] = calls[u]
                                         /\ pc'[u] = pc[u]
        BY <1>0, <2>1, <2>3, <3>1 DEF TypeOK
      <3>3. s \in Int
        BY OutboundAssumption, Sizes
      <3>4. /\ given[t] \in Seq(Int) /\ Len(given[t]) = calls[t] /\ calls[t] \in Nat
        BY <1>0, <2>3 DEF GivenRecorded
      <3>5. /\ given'[t] \in Seq(Int) /\ Len(given'[t]) = calls'[t]
            /\ given'[t][calls'[t]] = s /\ calls'[t] > 0
            /\ \A i \in 1 .. calls[t] : given'[t][i] = given[t][i]
        BY <3>2, <3>3, <3>4
      <3>6. ASSUME NEW p \in sent, p.ssrc \in Media
            PROVE  /\ p.payload \in 1 .. calls'[p.ssrc]
                   /\ pc'[p.ssrc] # "idle" => p.payload < calls'[p.ssrc]
                   /\ given'[p.ssrc][p.payload] = p.n
        <4>1. /\ p.payload \in 1 .. calls[p.ssrc]
              /\ pc[p.ssrc] # "idle" => p.payload < calls[p.ssrc]
              /\ given[p.ssrc][p.payload] = p.n
          BY <3>6 DEF GivenRecorded
        <4>2. CASE p.ssrc = t
          BY <3>2, <3>4, <3>5, <4>1, <4>2
        <4>3. CASE p.ssrc # t
          BY <3>2, <3>6, <4>1, <4>3
        <4>4. QED
          BY <4>2, <4>3
      <3>7. \A u \in Media : given'[u] \in Seq(Int) /\ Len(given'[u]) = calls'[u]
        BY <3>2, <3>5 DEF GivenRecorded
      <3>8. \A u \in Media : pc'[u] # "idle" =>
              calls'[u] > 0 /\ given'[u][calls'[u]] = packet'[u]
        BY <3>2, <3>5 DEF GivenRecorded
      <3>9. QED
        BY <2>1, <3>6, <3>7, <3>8 DEF GivenRecorded
    <2>4. QED
      BY <2>2, <2>3 DEF Threads
  <1>2. ASSUME NEW t \in Threads, readHead(t) \/ writeHead(t) PROVE GivenRecorded'
    <2>1. /\ UNCHANGED <<given, calls, packet, sent>> /\ pc[t] # "idle"
          /\ \E label : Goto(t, label)
      BY <1>2 DEF readHead, writeHead, history
    <2>2. \A u \in Threads : u # t => pc'[u] = pc[u]
      BY <1>0, <2>1, GotoMoves
    <2>3. QED
      BY <1>0, <2>1, <2>2, GivenUntouched
  <1>3. ASSUME NEW t \in Media,
               \/ readLimit(t) \/ writeLimit(t) \/ setIv(t) \/ advance(t)
               \/ add(t) \/ start(t) \/ update(t)
        PROVE  GivenRecorded'
    <2>1. /\ UNCHANGED <<given, calls, packet, sent>> /\ pc[t] # "idle"
          /\ \E label : Goto(t, label)
      BY <1>3 DEF readLimit, writeLimit, setIv, advance, add, start, update,
                  history, shared
    <2>2. \A u \in Threads : u # t => pc'[u] = pc[u]
      BY <1>0, <2>1, GotoMoves
    <2>3. QED
      BY <1>0, <2>1, <2>2, GivenUntouched
  <1>4. ASSUME NEW t \in Media, compute(t) PROVE GivenRecorded'
    <2> DEFINE new == [ssrc |-> t, n |-> packet[t], payload |-> calls[t],
                       index |-> est[t], used |-> used[t],
                       tag |-> Append(hash, Roc(est[t]))]
    <2>1. /\ sent' = sent \cup {new} /\ UNCHANGED <<given, calls>>
          /\ pc[t] = "compute" /\ pc'[t] = "idle"
          /\ \A u \in Threads : u # t => pc'[u] = pc[u]
          /\ packet' = [packet EXCEPT ![t] = 0]
      BY <1>0, <1>4, GotoMoves DEF compute
    <2>2. new.ssrc = t /\ new.payload = calls[t] /\ new.n = packet[t]
      OBVIOUS
    <2> HIDE DEF new
    <2>3. calls[t] \in 1 .. calls[t] /\ given[t][calls[t]] = packet[t]
      BY <1>0, <2>1 DEF GivenRecorded
    <2>4. \A p \in sent : p.ssrc = t => p.payload < calls[t] /\ p.payload \in Int
      BY <2>1 DEF GivenRecorded
    <2>5. \A p \in sent' : p.ssrc \in Media =>
            /\ p.payload \in 1 .. calls'[p.ssrc]
            /\ pc'[p.ssrc] # "idle" => p.payload < calls'[p.ssrc]
            /\ given'[p.ssrc][p.payload] = p.n
      <3> SUFFICES ASSUME NEW p \in sent', p.ssrc \in Media
                   PROVE  /\ p.payload \in 1 .. calls[p.ssrc]
                          /\ pc'[p.ssrc] # "idle" => p.payload < calls[p.ssrc]
                          /\ given[p.ssrc][p.payload] = p.n
        BY <2>1
      <3>1. CASE p \in sent
        BY <1>0, <2>1, <3>1 DEF GivenRecorded
      <3>2. CASE p = new
        BY <2>1, <2>2, <2>3, <3>2
      <3>3. QED
        BY <2>1, <3>1, <3>2
    <2>6. \A p, q \in sent' :
            p.ssrc \in Media /\ p.ssrc = q.ssrc /\ p.payload = q.payload => p = q
      <3> SUFFICES ASSUME NEW p \in sent', NEW q \in sent',
                          p.ssrc \in Media, p.ssrc = q.ssrc, p.payload = q.payload
                   PROVE  p = q
        OBVIOUS
      <3>1. CASE p \in sent /\ q \in sent
        BY <3>1 DEF GivenRecorded
      <3>2. CASE p = new \/ q = new
        BY <1>0, <2>1, <2>2, <2>4, <3>2
      <3>3. QED
        BY <2>1, <3>1, <3>2
    <2>7. \A u \in Media : given'[u] \in Seq(Int) /\ Len(given'[u]) = calls'[u]
      BY <2>1 DEF GivenRecorded
    <2>8. \A u \in Media : pc'[u] # "idle" =>
            calls'[u] > 0 /\ given'[u][calls'[u]] = packet'[u]
      BY <1>0, <2>1 DEF GivenRecorded, TypeOK
    <2>9. QED
      BY <2>5, <2>6, <2>7, <2>8 DEF GivenRecorded
  <1>5. ASSUME srtp_protect_rtcp PROVE GivenRecorded'
    <2>1. UNCHANGED <<given, calls, packet>>
      BY <1>5 DEF srtp_protect_rtcp
    <2>2. \A u \in Media : pc'[u] = pc[u]
      BY <1>0, <1>5, GotoMoves DEF srtp_protect_rtcp
    <2>3. \A p \in sent' : p.ssrc \in Media => p \in sent
      BY <1>0, <1>5 DEF srtp_protect_rtcp
    <2>4. QED
      BY <2>1, <2>2, <2>3, GivenUntouched
  <1>6. CASE UNCHANGED vars
    <2>1. UNCHANGED <<given, calls, packet, sent, pc>>
      BY <1>6 DEF vars, shared, locals, history
    <2>2. QED
      BY <2>1, GivenUntouched
  <1>7. QED
    BY <1>1, <1>2, <1>3, <1>4, <1>5, <1>6 DEF Next, Lookup, Protect
-----------------------------------------------------------------------------
(* The theorems.                                                           *)

LEMMA IInvHolds == Spec => []IInv
  <1>1. Init => IInv
    BY TypeInit, MediaInit, LimitInit, ReportsInit, GivenInit DEF IInv
  <1>2. IInv /\ [Next]_vars => IInv'
    BY TypeNext, MediaNext, LimitNext, ReportsNext, GivenNext DEF IInv
  <1>3. QED
    BY <1>1, <1>2, PTL DEF Spec

\* Every variable keeps its type: no index is recorded outside a window, and no
\* counter leaves its range.
THEOREM TypeCorrect == Spec => []TypeOK
  <1>1. IInv => TypeOK
    BY DEF IInv
  <1>2. QED
    BY <1>1, IInvHolds, PTL

\* However the three threads interleave, a media packet is encrypted with the key
\* stream of its own index and leaves with its own tag, unless a thread has set
\* the IV while another was using the contexts; and the shared limit is charged
\* with each of them, unless two updates of it have overlapped.
THEOREM SoundWithoutOverlap == Spec => []SoundUnlessOverlap
  <1>1. IInv => SoundUnlessOverlap
    <2>1. ASSUME NEW p, Sound(p)
          PROVE  /\ p.used = OwnKeystream(p)
                 /\ p.tag = <<<<p.ssrc, p.n, p.payload, p.used>>, Roc(p.index)>>
      BY <2>1 DEF Sound, Stream, OwnKeystream, iv
    <2>2. QED
      BY <2>1 DEF IInv, MediaSound, SoundUnlessOverlap
  <1>2. QED
    BY <1>1, IInvHolds, PTL

\* Under the same condition no block of key stream is used for two packets, unless
\* they came in under one number: the IV has the SSRC and the index in it, and the
\* index the sequence number.
THEOREM NoTwoTimePad == Spec => []KeystreamUsedOnce
  <1>1. IInv => KeystreamUsedOnce
    <2> SUFFICES ASSUME IInv, ~overlapped, NEW p \in sent, NEW q \in sent,
                        p.ssrc \in Media, q.ssrc \in Media,
                        NEW a \in 1 .. Blocks, NEW b \in 1 .. Blocks,
                        p.used[a] = q.used[b]
                 PROVE  p = q \/ Repeats(p, q)
      BY DEF KeystreamUsedOnce
    <2>1. Sound(p) /\ Sound(q)
      BY DEF IInv, MediaSound
    <2>2. /\ p.used[a] = Block(iv(p.ssrc, p.index), a - 1)
          /\ q.used[b] = Block(iv(q.ssrc, q.index), b - 1)
      BY <2>1 DEF Sound, Stream
    <2>3. iv(p.ssrc, p.index) = iv(q.ssrc, q.index)
      <3>1. Block(iv(p.ssrc, p.index), a - 1) = Block(iv(q.ssrc, q.index), b - 1)
        BY <2>2
      <3>2. QED
        BY <3>1, BlockTellsIv, Zenon
    <2>4. p.ssrc = q.ssrc /\ p.index = q.index
      BY <2>3 DEF iv
    <2>5. p.n = q.n
      BY <2>1, <2>4 DEF Sound
    <2>6. /\ given[p.ssrc][p.payload] = p.n /\ given[q.ssrc][q.payload] = q.n
          /\ p.payload = q.payload => p = q
      BY <2>4 DEF IInv, GivenRecorded
    <2>7. QED
      BY <2>4, <2>5, <2>6 DEF Repeats
  <1>2. QED
    BY <1>1, IInvHolds, PTL

\* No two reports leave with one index, as long as no stream has dropped out of
\* the list and the counter has not gone round.
THEOREM ReportsApart == Spec => []ReportIndexOnce
  <1>1. IInv => ReportIndexOnce
    <2> SUFFICES ASSUME IInv, ~dropped, calls[rtcp] <= 2 * half,
                        NEW p \in sent, NEW q \in sent,
                        p.ssrc = rtcp, q.ssrc = rtcp, p.index = q.index
                 PROVE  p = q
      BY DEF ReportIndexOnce
    <2>1. calls[rtcp] \in Int /\ half \in Int
      BY Sizes DEF IInv, TypeOK, Threads
    <2>2. reported <= 2 * half
      BY <2>1 DEF reported
    <2>3. /\ p.index = p.payload /\ q.index = q.payload
          /\ AReport(p) /\ AReport(q)
      BY <2>2 DEF IInv, ReportsCounted
    <2>4. QED
      BY <2>3 DEF AReport
  <1>2. QED
    BY <1>1, IInvHolds, PTL
=============================================================================
