------------------------- MODULE SrtpInboundProofs -------------------------
(***************************************************************************)
(* The replay protection of the decrypting session, for every size of the  *)
(* sequence numbers and of the window, and any number of streams.          *)
(***************************************************************************)
EXTENDS SrtpInbound, FiniteSetTheorems, TLAPS

(***************************************************************************)
(* Indices and their parts.                                                *)
(***************************************************************************)

LEMMA Sizes == /\ seq_num_median \in Nat /\ seq_num_median > 0
               /\ WindowSize \in Nat /\ WindowSize > 0
               /\ WindowSize <= seq_num_median
               /\ seq_num_max \in Nat /\ seq_num_max > 0
               /\ seq_num_max = 2 * seq_num_median
  BY RdbxAssumption DEF seq_num_max

\* An index is the number of its rollover counter and its sequence number.
LEMMA Parts ==
  ASSUME NEW i \in Nat
  PROVE  /\ Roc(i) \in Nat
         /\ Seq16(i) \in 0 .. seq_num_max - 1
         /\ i = Index(Roc(i), Seq16(i))
  BY Sizes DEF Roc, Seq16, Index

\* Two numbers with the same value have the same parts.
LEMMA PartsUnique ==
  ASSUME NEW r \in Int, NEW s \in 0 .. seq_num_max - 1,
         NEW q \in Int, NEW t \in 0 .. seq_num_max - 1,
         Index(r, s) = Index(q, t)
  PROVE  r = q /\ s = t
  <1> DEFINE M == seq_num_max
  <1>1. M \in Nat /\ M > 0
    BY Sizes
  <1>2. r * M + s = q * M + t
    BY DEF Index
  <1> HIDE DEF M
  <1>3. ~(r < q)
    <2>1. r < q => r * M + M <= q * M
      BY <1>1
    <2>2. QED
      BY <1>1, <1>2, <2>1 DEF M
  <1>4. ~(q < r)
    <2>1. q < r => q * M + M <= r * M
      BY <1>1
    <2>2. QED
      BY <1>1, <1>2, <2>1 DEF M
  <1>5. r = q
    BY <1>3, <1>4
  <1>6. QED
    BY <1>1, <1>2, <1>5 DEF M

\* The counter of the rollover before and of the one after.
LEMMA NextIndex ==
  ASSUME NEW r \in Int, NEW s \in Int
  PROVE  /\ Index(r + 1, s) = Index(r, s) + seq_num_max
         /\ Index(r - 1, s) = Index(r, s) - seq_num_max
         /\ Index(r, s) \in Int
         /\ Index(r, s) = Index(r, 0) + s
         /\ Index(r, 0) \in Int
  BY Sizes DEF Index

\* An index below seq_num_max has the rollover counter 0.
LEMMA FirstRound ==
  ASSUME NEW i \in Nat, i < seq_num_max
  PROVE  Roc(i) = 0 /\ Seq16(i) = i
  <1>1. i \in 0 .. seq_num_max - 1 /\ i = Index(0, i)
    BY Sizes DEF Index
  <1>2. QED
    BY <1>1, Parts, PartsUnique

(***************************************************************************)
(* The estimate of the index.                                              *)
(***************************************************************************)

\* If the guess is right, and the packet does not come from before a rollover,
\* the difference is right too.
LEMMA RightDifference ==
  ASSUME NEW r \in Database, NEW i \in Nat,
         rdbx_estimate_index(r, Seq16(i)).guess = i,
         Roc(i) >= Roc(r.index)
  PROVE  rdbx_estimate_index(r, Seq16(i)).delta = i - r.index
  <1> DEFINE n == r.index
             s == Seq16(i)
             roc == Roc(n)
             seq == Seq16(n)
             M == seq_num_max
  <1>1. /\ n \in Nat /\ roc \in Nat /\ seq \in 0 .. M - 1 /\ n = Index(roc, seq)
        /\ s \in 0 .. M - 1
    BY Parts DEF Database
  <1>2. CASE n <= seq_num_median
    <2>1. n < M
      BY <1>1, <1>2, Sizes
    <2>2. seq = n
      BY <1>1, <2>1, FirstRound
    <2>3. rdbx_estimate_index(r, s) = Estimate(s, s - seq)
      BY <1>1, <1>2, Sizes DEF rdbx_estimate_index
    <2>4. QED
      BY <2>2, <2>3 DEF Estimate
  <1>3. CASE n > seq_num_median
    <2>0. rdbx_estimate_index(r, s) = index_guess(n, s)
      BY <1>3 DEF rdbx_estimate_index
    <2>1. \A q \in Int : i = Index(q, s) => Roc(i) = q
      BY <1>1, Parts, PartsUnique
    <2>2. /\ Index(roc + 1, s) = Index(roc, 0) + M + s
          /\ Index(roc, s) = Index(roc, 0) + s
          /\ Index(roc, seq) = Index(roc, 0) + seq
          /\ Index(roc, 0) \in Int
      BY <1>1, Sizes, NextIndex
    <2>3. \/ index_guess(n, s) = Estimate(Index(roc - 1, s), M - s + seq)
          \/ index_guess(n, s) = Estimate(Index(roc, s), s - seq)
          \/ index_guess(n, s) = Estimate(Index(roc + 1, s), M - seq + s)
      BY DEF index_guess
    <2>4. CASE index_guess(n, s) = Estimate(Index(roc - 1, s), M - s + seq)
      BY <1>1, <2>0, <2>1, <2>4 DEF Estimate
    <2>5. CASE index_guess(n, s) = Estimate(Index(roc, s), s - seq)
      <3>1. i = Index(roc, s) /\ rdbx_estimate_index(r, s).delta = s - seq
        BY <2>0, <2>5 DEF Estimate
      <3> HIDE DEF n, s, roc, seq, M
      <3>2. s - seq = i - n
        BY <1>1, <2>2, <3>1, Sizes DEF M
      <3>3. QED
        BY <3>1, <3>2 DEF n, s
    <2>6. CASE index_guess(n, s) = Estimate(Index(roc + 1, s), M - seq + s)
      <3>1. i = Index(roc + 1, s) /\ rdbx_estimate_index(r, s).delta = M - seq + s
        BY <2>0, <2>6 DEF Estimate
      <3> HIDE DEF n, s, roc, seq, M
      <3>2. M - seq + s = i - n
        BY <1>1, <2>2, <3>1, Sizes DEF M
      <3>3. QED
        BY <3>1, <3>2 DEF n, s
    <2>7. QED
      BY <2>3, <2>4, <2>5, <2>6
  <1>4. QED
    BY <1>1, <1>2, <1>3, Sizes

\* The difference is an integer, whatever the guess.
LEMMA DifferenceInt ==
  ASSUME NEW r \in Database, NEW i \in Nat
  PROVE  rdbx_estimate_index(r, Seq16(i)).delta \in Int
  <1>1. /\ r.index \in Nat /\ Seq16(i) \in Int /\ Seq16(r.index) \in Int
        /\ seq_num_max \in Int /\ seq_num_median \in Int
    BY Parts, Sizes DEF Database
  <1>2. QED
    BY <1>1 DEF rdbx_estimate_index, index_guess, Estimate

\* The guess is right for every packet in reach of the database.
LEMMA RightGuess ==
  ASSUME NEW r \in Database, NEW i \in Nat, InReach(r, i)
  PROVE  LET e == rdbx_estimate_index(r, Seq16(i))
         IN  /\ e.guess = i
             /\ e.delta > 0 \/ e.delta = i - r.index
  <1> DEFINE n == r.index
             s == Seq16(i)
             roc == Roc(n)
             seq == Seq16(n)
             M == seq_num_max
             d == i - n
  <1>1. /\ n \in Nat /\ roc \in Nat /\ seq \in 0 .. M - 1 /\ n = Index(roc, seq)
        /\ s \in 0 .. M - 1 /\ d \in Int /\ i = n + d
    BY Parts DEF Database
  <1>2. CASE n <= seq_num_median
    <2>1. n < M /\ i < M
      BY <1>1, <1>2, Sizes DEF InReach
    <2>2. seq = n /\ s = i
      BY <1>1, <2>1, FirstRound
    <2>3. rdbx_estimate_index(r, s) = Estimate(s, s - seq)
      BY <1>1, <1>2, Sizes DEF rdbx_estimate_index
    <2>4. QED
      BY <2>2, <2>3 DEF Estimate
  <1>3. CASE n > seq_num_median
    <2>0. rdbx_estimate_index(r, s) = index_guess(n, s)
      BY <1>3 DEF rdbx_estimate_index
    <2>1. \A q \in Int, u \in 0 .. M - 1 : i = Index(q, u) => s = u
      BY <1>1, Parts, PartsUnique
    <2>2. \A u \in Int :
            /\ Index(roc + 1, u) = Index(roc, 0) + M + u
            /\ Index(roc - 1, u) = Index(roc, 0) - M + u
            /\ Index(roc, u) = Index(roc, 0) + u
            /\ Index(roc, 0) \in Int
      <3> TAKE u \in Int
      <3>1. roc \in Int /\ M \in Int
        BY <1>1, Sizes
      <3> HIDE DEF roc
      <3>2. /\ Index(roc + 1, u) = Index(roc, u) + M
            /\ Index(roc - 1, u) = Index(roc, u) - M
            /\ Index(roc, u) = Index(roc, 0) + u
            /\ Index(roc, 0) \in Int
        BY <3>1, NextIndex
      <3> HIDE DEF M
      <3>3. QED
        BY <3>1, <3>2
    <2> DEFINE k == seq + d
    <2>3. -WindowSize < d /\ d < seq_num_median
      BY <1>1, <1>3, Sizes DEF InReach
    <2>k. k \in Int /\ i = Index(roc, 0) + k /\ -M < k /\ k < 2 * M
      BY <1>1, <2>2, <2>3, Sizes
    <2>4. CASE 0 <= k /\ k < M
      <3>1. s = k
        <4>1. k \in 0 .. M - 1 /\ i = Index(roc, k)
          BY <2>k, <2>2, <2>4, Sizes
        <4>2. QED
          BY <1>1, <2>1, <4>1
      <3>2. s - seq = d /\ i = Index(roc, s)
        BY <1>1, <2>k, <2>2, <3>1
      <3>3. ~(seq < seq_num_median /\ s - seq > seq_num_median)
            /\ ~(seq >= seq_num_median /\ seq - seq_num_median > s)
        BY <1>1, <2>3, <3>2, Sizes
      <3>4. index_guess(n, s) = Estimate(Index(roc, s), s - seq)
        BY <1>1, <3>3, Sizes DEF index_guess
      <3>5. QED
        BY <2>0, <3>2, <3>4 DEF Estimate
    <2>5. CASE k >= M
      <3>1. s = k - M
        <4>1. k - M \in 0 .. M - 1 /\ i = Index(roc + 1, k - M)
          BY <1>1, <2>k, <2>2, <2>5, Sizes
        <4>2. QED
          BY <1>1, <2>1, <4>1
      <3>2. M - seq + s = d /\ i = Index(roc + 1, s)
        BY <1>1, <2>k, <2>2, <3>1, Sizes
      <3>3. seq >= seq_num_median /\ seq - seq_num_median > s
        BY <1>1, <2>3, <2>5, <3>1, Sizes
      <3>4. index_guess(n, s) = Estimate(Index(roc + 1, s), M - seq + s)
        BY <1>1, <3>3, Sizes DEF index_guess
      <3>5. QED
        BY <2>0, <3>2, <3>4 DEF Estimate
    <2>6. CASE k < 0
      <3>1. s = k + M
        <4>1. k + M \in 0 .. M - 1 /\ i = Index(roc - 1, k + M)
          BY <1>1, <2>k, <2>2, <2>6, Sizes
        <4>2. QED
          BY <1>1, <2>1, <4>1
      <3>2. i = Index(roc - 1, s) /\ M - s + seq > 0
        BY <1>1, <2>k, <2>2, <3>1, Sizes
      <3>3. seq < seq_num_median /\ s - seq > seq_num_median
        BY <1>1, <2>3, <2>6, <3>1, Sizes
      <3>4. index_guess(n, s) = Estimate(Index(roc - 1, s), M - s + seq)
        BY <1>1, <3>3, Sizes DEF index_guess
      <3>5. QED
        BY <2>0, <3>2, <3>4 DEF Estimate
    <2>7. QED
      BY <2>k, <2>4, <2>5, <2>6, Sizes
  <1>4. QED
    BY <1>1, <1>2, <1>3, Sizes

(***************************************************************************)
(* The database as a record of a set of indices.                           *)
(***************************************************************************)

Recorded(r, A) ==
  /\ r.index \in A
  /\ \A i \in A : i <= r.index
  /\ \A bit \in 0 .. WindowSize - 1 :
       bit \in r.bitmask <=> r.index - (WindowSize - 1) + bit \in A

\* An index that passes the check may be added.
LEMMA AddType ==
  ASSUME NEW r \in Database, NEW d \in Int, rdbx_check(r, d) = "ok"
  PROVE  rdbx_add_index(r, d) \in Database
  <1>1. CASE d > 0
    BY <1>1, Sizes DEF rdbx_add_index, Database
  <1>2. CASE ~(d > 0)
    <2> DEFINE bit == WindowSize - 1 + d
    <2>1. bit \in 0 .. WindowSize - 1
      BY <1>2, Sizes DEF rdbx_check
    <2>2. rdbx_add_index(r, d) = [r EXCEPT !.bitmask = @ \cup {bit}]
      BY <1>2 DEF rdbx_add_index
    <2> HIDE DEF bit
    <2>3. QED
      BY <2>1, <2>2 DEF Database
  <1>3. QED
    BY <1>1, <1>2

\* The check lets no index through that the record has, and adding one that it
\* lets through keeps the record.
LEMMA AddRecorded ==
  ASSUME NEW r \in Database, NEW A \in SUBSET Nat, Recorded(r, A), NEW i \in Nat,
         rdbx_check(r, i - r.index) = "ok"
  PROVE  /\ i \notin A
         /\ Recorded(rdbx_add_index(r, i - r.index), A \cup {i})
  <1> DEFINE n == r.index
             d == i - n
             W == WindowSize
             q == rdbx_add_index(r, d)
  <1>1. n \in Nat /\ d \in Int /\ W \in Nat /\ W > 0 /\ r.bitmask \subseteq 0 .. W - 1
    BY Sizes DEF Database
  <1>2. \A j \in A : j \in Nat /\ j <= n
    BY DEF Recorded
  <1>3. CASE d > 0
    <2>1. i \notin A /\ i > n
      BY <1>1, <1>2, <1>3
    <2>2. q = [index |-> n + d,
               bitmask |-> {bit \in 0 .. W - 1 : bit + d \in r.bitmask \/ bit = W - 1}]
      BY <1>3 DEF rdbx_add_index
    <2>3. q.index = i
      BY <1>1, <2>2
    <2>4. ASSUME NEW bit \in 0 .. W - 1
          PROVE  bit \in q.bitmask <=> i - (W - 1) + bit \in A \cup {i}
      <3>1. CASE bit = W - 1
        BY <1>1, <2>2, <3>1
      <3>2. CASE bit # W - 1
        <4>1. bit \in q.bitmask <=> bit + d \in r.bitmask
          BY <2>2, <3>2
        <4>2. i - (W - 1) + bit = n - (W - 1) + (bit + d)
              /\ i - (W - 1) + bit # i
          BY <1>1, <3>2
        <4>3. CASE bit + d \in 0 .. W - 1
          <5>1. bit + d \in r.bitmask <=> n - (W - 1) + (bit + d) \in A
            BY <4>3 DEF Recorded
          <5>2. QED
            BY <4>1, <4>2, <5>1
        <4>4. CASE bit + d \notin 0 .. W - 1
          <5>1. bit + d \notin r.bitmask
            BY <1>1, <4>4
          <5>2. n - (W - 1) + (bit + d) > n
            BY <1>1, <1>3, <4>4
          <5>3. n - (W - 1) + (bit + d) \notin A
            BY <1>1, <1>2, <5>2
          <5>4. QED
            BY <4>1, <4>2, <5>1, <5>3
        <4>5. QED
          BY <4>3, <4>4
      <3>3. QED
        BY <3>1, <3>2
    <2>5. \A j \in A \cup {i} : j <= i
      BY <1>1, <1>2, <2>1
    <2> HIDE DEF q
    <2>6. Recorded(q, A \cup {i})
      BY <2>3, <2>4, <2>5 DEF Recorded
    <2>7. QED
      BY <2>1, <2>6 DEF q
  <1>4. CASE ~(d > 0)
    <2> DEFINE b == W - 1 + d
    <2>1. b \in 0 .. W - 1 /\ b \notin r.bitmask
      BY <1>1, <1>4, Sizes DEF rdbx_check
    <2>2. n - (W - 1) + b = i /\ i <= n
      BY <1>1, <1>4
    <2>3. i \notin A
      <3>1. b \in r.bitmask <=> n - (W - 1) + b \in A
        BY <2>1 DEF Recorded
      <3>2. QED
        BY <2>1, <2>2, <3>1
    <2>4. q = [r EXCEPT !.bitmask = @ \cup {b}]
      BY <1>4 DEF rdbx_add_index
    <2>5. q.index = n /\ q.bitmask = r.bitmask \cup {b}
      BY <2>4 DEF Database
    <2>6. ASSUME NEW bit \in 0 .. W - 1
          PROVE  bit \in q.bitmask <=> n - (W - 1) + bit \in A \cup {i}
      <3>1. bit \in r.bitmask <=> n - (W - 1) + bit \in A
        BY DEF Recorded
      <3>2. bit = b <=> n - (W - 1) + bit = i
        BY <1>1, <2>2
      <3>3. QED
        BY <2>5, <3>1, <3>2
    <2>7. n \in A \cup {i} /\ \A j \in A \cup {i} : j <= n
      BY <1>2, <2>2 DEF Recorded
    <2> HIDE DEF q
    <2>8. Recorded(q, A \cup {i})
      BY <2>5, <2>6, <2>7 DEF Recorded
    <2>9. QED
      BY <2>3, <2>8 DEF q
  <1>5. QED
    BY <1>3, <1>4

\* The first packet of a stream begins the record.
LEMMA FirstRecorded ==
  ASSUME NEW i \in Nat
  PROVE  /\ Recorded(rdbx_add_index(rdbx_init, i), {i})
         /\ rdbx_add_index(rdbx_init, i) \in Database
  <1>1. WindowSize \in Nat /\ WindowSize > 0
    BY Sizes
  <1>2. CASE i > 0
    BY <1>1, <1>2 DEF rdbx_add_index, rdbx_init, Recorded, Database
  <1>3. CASE i = 0
    BY <1>1, <1>3 DEF rdbx_add_index, rdbx_init, Recorded, Database
  <1>4. QED
    BY <1>2, <1>3

(***************************************************************************)
(* The invariant.                                                          *)
(***************************************************************************)

Record(ssrc) ==
  /\ ssrc \notin known => accepted[ssrc] = {}
  /\ ssrc \in known \ crossed => Recorded(rdbx[ssrc], accepted[ssrc])

IInv == TypeOK /\ AcceptedOnce /\ \A ssrc \in Ssrcs : Record(ssrc)

LEMMA LimitType ==
  ASSUME NEW l \in Limit
  PROVE  key_limit_update(l) \in Limit
  <1> DEFINE left == (l.num_left - 1) % KeyRange
  <1>1. left \in 0 .. KeyRange - 1
    BY KeyAssumption DEF Limit
  <1> HIDE DEF left
  <1>2. key_limit_update(l) =
          [num_left |-> left,
           state |-> IF left >= soft_limit THEN l.state
                     ELSE IF left = 0 THEN "expired"
                     ELSE IF l.state = "normal" THEN "past_soft_limit" ELSE l.state]
    BY DEF key_limit_update, limitWith, left
  <1>3. QED
    BY <1>1, <1>2 DEF Limit

LEMMA IInvInit == Init => IInv
  <1> SUFFICES ASSUME Init PROVE IInv
    OBVIOUS
  <1>1. rdbx_init \in Database
    BY DEF rdbx_init, Database
  <1>2. key_limit_set(KeyUses) \in Limit
    BY KeyAssumption DEF key_limit_set, Limit
  <1>3. TypeOK
    BY <1>1, <1>2 DEF Init, TypeOK
  <1>4. QED
    BY <1>3 DEF Init, IInv, AcceptedOnce, Record

\* What accept does to the stream: the index is new and recorded, unless the
\* packet comes from before a rollover.
LEMMA AcceptRecords ==
  ASSUME IInv, NEW ssrc \in Ssrcs, NEW i \in 0 .. MaxIndex, Authentic(ssrc, i)
  PROVE  LET r == databaseFor(ssrc)
             q == rdbx_add_index(r, estimateFor(ssrc, Seq16(i)).delta)
         IN  /\ q \in Database
             /\ ssrc \notin crossed /\ ~(Roc(i) < Roc(r.index)) =>
                  i \notin accepted[ssrc] /\ Recorded(q, accepted[ssrc] \cup {i})
  <1> DEFINE r == databaseFor(ssrc)
             e == estimateFor(ssrc, Seq16(i))
             q == rdbx_add_index(r, e.delta)
             A == accepted[ssrc]
  <1>1. i \in Nat /\ A \in SUBSET Nat /\ rdbx[ssrc] \in Database
    BY SrtpAssumption DEF IInv, TypeOK
  <1>2. CASE ssrc \in known
    <2>1. r = rdbx[ssrc] /\ e = rdbx_estimate_index(r, Seq16(i))
      BY <1>2 DEF databaseFor, estimateFor, srtp_get_stream
    <2>2. rdbx_check(r, e.delta) = "ok" /\ e.guess = i
      BY <1>2, <2>1 DEF Authentic, srtp_get_stream
    <2>3. e.delta \in Int
      BY <1>1, <2>1, DifferenceInt
    <2>4. q \in Database
      BY <1>1, <2>1, <2>2, <2>3, AddType
    <2>5. ASSUME ssrc \notin crossed, ~(Roc(i) < Roc(r.index))
          PROVE  i \notin A /\ Recorded(q, A \cup {i})
      <3>1. Roc(i) >= Roc(r.index)
        BY <1>1, <2>1, <2>5, Parts DEF Database
      <3>2. e.delta = i - r.index
        BY <1>1, <2>1, <2>2, <3>1, RightDifference
      <3>3. Recorded(r, A)
        BY <1>2, <2>1, <2>5 DEF IInv, Record
      <3>4. QED
        BY <1>1, <2>1, <2>2, <3>2, <3>3, AddRecorded
    <2>6. QED
      BY <2>4, <2>5
  <1>3. CASE ssrc \notin known
    <2>1. r = rdbx_init /\ e = Estimate(Seq16(i), Seq16(i)) /\ A = {}
      BY <1>3 DEF databaseFor, estimateFor, srtp_get_stream, srtp_stream_clone,
                  IInv, Record
    <2>2. e.delta = i
      BY <2>1 DEF Authentic, Estimate
    <2>3. q \in Database /\ Recorded(q, {i})
      BY <1>1, <2>1, <2>2, FirstRecorded
    <2> HIDE DEF q
    <2>4. QED
      BY <2>1, <2>3 DEF q
  <1>4. QED
    BY <1>2, <1>3

LEMMA IInvNext == IInv /\ [Next]_vars => IInv'
  <1> SUFFICES ASSUME IInv, [Next]_vars PROVE IInv'
    OBVIOUS
  <1>1. ASSUME NEW ssrc \in Ssrcs, Send(ssrc) PROVE IInv'
    <2>1. UNCHANGED <<known, rdbx, accepted, again, crossed, limit>>
      BY <1>1 DEF Send, session
    <2>2. sent' \in [Ssrcs -> SUBSET (0 .. MaxIndex)]
      BY <1>1 DEF Send, IInv, TypeOK
    <2>3. QED
      BY <2>1, <2>2 DEF IInv, TypeOK, AcceptedOnce, Record
  <1>2. ASSUME NEW ssrc \in Ssrcs, NEW i \in 0 .. MaxIndex, srtp_unprotect(ssrc, i)
        PROVE  IInv'
    <2>1. limit' \in Limit /\ UNCHANGED sent /\ Authentic(ssrc, i)
      BY <1>2, LimitType DEF srtp_unprotect, IInv, TypeOK
    <2>2. CASE UNCHANGED session
      BY <2>1, <2>2 DEF session, IInv, TypeOK, AcceptedOnce, Record
    <2>3. CASE accept(ssrc, i)
      <3> DEFINE r == databaseFor(ssrc)
                 q == rdbx_add_index(r, estimateFor(ssrc, Seq16(i)).delta)
                 old == Roc(i) < Roc(r.index)
      <3>1. /\ q \in Database
            /\ ssrc \notin crossed /\ ~old =>
                  i \notin accepted[ssrc] /\ Recorded(q, accepted[ssrc] \cup {i})
        BY <2>1, AcceptRecords
      <3>2. /\ known' = known \cup {ssrc}
            /\ rdbx' = [rdbx EXCEPT ![ssrc] = q]
            /\ accepted' = [accepted EXCEPT ![ssrc] = @ \cup {i}]
            /\ again' = again \cup {n \in {ssrc} : i \in accepted[n]}
            /\ crossed' = crossed \cup {n \in {ssrc} : old}
        BY <2>3 DEF accept
      <3> HIDE DEF q, old
      <3>3. TypeOK'
        BY <2>1, <3>1, <3>2 DEF IInv, TypeOK
      <3>4. AcceptedOnce'
        BY <3>1, <3>2 DEF IInv, AcceptedOnce
      <3>5. /\ rdbx'[ssrc] = q /\ accepted'[ssrc] = accepted[ssrc] \cup {i}
            /\ \A n \in Ssrcs \ {ssrc} :
                 rdbx'[n] = rdbx[n] /\ accepted'[n] = accepted[n]
        BY <3>2 DEF IInv, TypeOK
      <3>6. Record(ssrc)'
        BY <3>1, <3>2, <3>5 DEF Record
      <3>7. \A n \in Ssrcs \ {ssrc} : Record(n)'
        BY <3>2, <3>5 DEF IInv, Record
      <3>8. QED
        BY <3>3, <3>4, <3>6, <3>7 DEF IInv
    <2>4. QED
      BY <1>2, <2>2, <2>3 DEF srtp_unprotect
  <1>3. CASE UNCHANGED vars
    BY <1>3 DEF vars, session, IInv, TypeOK, AcceptedOnce, Record
  <1>4. QED
    BY <1>1, <1>2, <1>3 DEF Next

LEMMA IInvHolds == Spec => []IInv
  BY IInvInit, IInvNext, PTL DEF Spec

\* Every variable keeps its type: the replay database never gets a bit outside
\* the window or a negative index.
THEOREM TypeCorrect == Spec => []TypeOK
  <1>1. IInv => TypeOK
    BY DEF IInv
  <1>2. QED
    BY <1>1, IInvHolds, PTL

\* However the network repeats, reorders and loses packets, srtp_unprotect
\* accepts none twice, in any stream that has not had one overtaken by a
\* rollover: for every size of the sequence numbers and of the window.
THEOREM NoReplay == Spec => []AcceptedOnce
  <1>1. IInv => AcceptedOnce
    BY DEF IInv
  <1>2. QED
    BY <1>1, IInvHolds, PTL

\* A record has a highest index.
LEMMA MaxRecorded ==
  ASSUME NEW r \in Database, NEW A \in SUBSET Nat, Recorded(r, A)
  PROVE  r.index = Max(A)
  <1>1. r.index \in A /\ \A j \in A : r.index >= j
    BY DEF Recorded, Database
  <1>2. \A m \in A : (\A j \in A : m >= j) => m = r.index
    BY <1>1 DEF Database
  <1>3. QED
    BY <1>1, <1>2 DEF Max

\* The replay database of a stream is at all times the highest index accepted
\* and the window below it, bit by bit.
THEOREM DatabaseRecords == Spec => []DatabaseIsRecord
  <1>1. IInv => DatabaseIsRecord
    <2> SUFFICES ASSUME IInv, NEW ssrc \in known \ crossed
                 PROVE  LET r == rdbx[ssrc] IN
                        /\ r.index = Max(accepted[ssrc])
                        /\ \A bit \in 0 .. WindowSize - 1 :
                             bit \in r.bitmask
                               <=> r.index - (WindowSize - 1) + bit \in accepted[ssrc]
      BY DEF DatabaseIsRecord
    <2>1. /\ ssrc \in Ssrcs /\ rdbx[ssrc] \in Database
          /\ accepted[ssrc] \in SUBSET Nat
          /\ Recorded(rdbx[ssrc], accepted[ssrc])
      BY SrtpAssumption DEF IInv, TypeOK, Record
    <2>2. QED
      BY <2>1, MaxRecorded DEF Recorded
  <1>2. QED
    BY <1>1, IInvHolds, PTL

\* A packet that has not been accepted yet is let through if it is less than a
\* window late, and less than half the sequence numbers early or, at the start
\* of a stream, before the first rollover.
THEOREM NewGetsThrough == Spec => []NewIsAccepted
  <1>1. IInv => NewIsAccepted
    <2> SUFFICES ASSUME IInv, NEW ssrc \in known \ crossed,
                        NEW i \in sent[ssrc] \ accepted[ssrc],
                        InReach(rdbx[ssrc], i)
                 PROVE  Authentic(ssrc, i)
      BY DEF NewIsAccepted
    <2> DEFINE r == rdbx[ssrc]
               e == rdbx_estimate_index(r, Seq16(i))
    <2>1. /\ ssrc \in Ssrcs /\ r \in Database /\ i \in Nat
          /\ Recorded(r, accepted[ssrc])
      BY SrtpAssumption DEF IInv, TypeOK, Record
    <2>2. e.guess = i /\ (e.delta > 0 \/ e.delta = i - r.index)
      BY <2>1, RightGuess
    <2>3. CASE e.delta > 0
      BY <2>2, <2>3 DEF rdbx_check, Authentic, estimateFor, srtp_get_stream
    <2>4. CASE e.delta = i - r.index
      <3> DEFINE bit == WindowSize - 1 + (i - r.index)
      <3>1. rdbx_check(r, i - r.index) = "ok"
        <4>1. CASE i - r.index > 0
          BY <4>1 DEF rdbx_check
        <4>2. CASE ~(i - r.index > 0)
          <5>1. bit \in 0 .. WindowSize - 1 /\ r.index - (WindowSize - 1) + bit = i
            BY <2>1, <4>2, Sizes DEF Database, InReach
          <5>2. bit \notin r.bitmask
            BY <2>1, <5>1 DEF Recorded
          <5>3. QED
            BY <4>2, <5>1, <5>2, Sizes DEF rdbx_check
        <4>3. QED
          BY <4>1, <4>2
      <3>2. QED
        BY <2>2, <2>4, <3>1 DEF Authentic, estimateFor, srtp_get_stream
    <2>5. QED
      BY <2>2, <2>3, <2>4
  <1>2. QED
    BY <1>1, IInvHolds, PTL

(***************************************************************************)
(* The key usage limit.                                                    *)
(***************************************************************************)

\* What key_limit_update does to a limit that is in use: it takes one use, and
\* the state says so when that was the last; an expired key stays expired.
LEMMA OneUse ==
  ASSUME NEW l \in Limit
  PROVE  LET m == key_limit_update(l)
         IN  /\ m.num_left = 0 => m.state = "expired"
             /\ m.state # "expired" => l.state # "expired"
             /\ l.num_left > 0 => m.num_left = l.num_left - 1
  <1> DEFINE left == (l.num_left - 1) % KeyRange
  <1>1. KeyRange \in Nat /\ KeyRange > 0 /\ 0 < soft_limit
    BY KeyAssumption
  <1>2. l.num_left \in 0 .. KeyRange - 1
    BY DEF Limit
  <1>3. l.num_left > 0 => left = l.num_left - 1
    BY <1>1, <1>2
  <1> HIDE DEF left
  <1>4. key_limit_update(l) =
          [num_left |-> left,
           state |-> IF left >= soft_limit THEN l.state
                     ELSE IF left = 0 THEN "expired"
                     ELSE IF l.state = "normal" THEN "past_soft_limit" ELSE l.state]
    BY DEF key_limit_update, limitWith, left
  <1>5. left = 0 => ~(left >= soft_limit)
    BY KeyAssumption
  <1>6. QED
    BY <1>3, <1>4, <1>5

\* Until the hard limit is hit there is a use left, and the uses that are gone
\* are the packets accepted.
Charged ==
  /\ IsFiniteSet(Accepted)
  /\ limit.state # "expired" => limit.num_left > 0
  /\ OneLimit

LEMMA ChargedInit == Init => Charged
  <1> SUFFICES ASSUME Init PROVE Charged
    OBVIOUS
  <1>1. Accepted = {}
    BY DEF Init, Accepted
  <1>2. limit.num_left = KeyUses /\ KeyUses \in Nat /\ KeyUses > 0
    BY KeyAssumption DEF Init, key_limit_set
  <1>3. QED
    BY <1>1, <1>2, FS_EmptySet DEF Charged, OneLimit

LEMMA ChargedNext == IInv /\ Charged /\ [Next]_vars => Charged'
  <1> SUFFICES ASSUME IInv, Charged, [Next]_vars PROVE Charged'
    OBVIOUS
  <1>1. ASSUME UNCHANGED <<limit, accepted, again>>
        PROVE  Charged'
    BY <1>1 DEF Charged, OneLimit, Accepted
  <1>2. ASSUME NEW ssrc \in Ssrcs, NEW i \in 0 .. MaxIndex, srtp_unprotect(ssrc, i)
        PROVE  Charged'
    <2>1. /\ limit \in Limit /\ limit' = key_limit_update(limit)
          /\ limit'.num_left = 0 => limit'.state = "expired"
          /\ limit'.state # "expired" => limit.state # "expired"
          /\ limit.num_left > 0 => limit'.num_left = limit.num_left - 1
      BY <1>2, OneUse DEF srtp_unprotect, IInv, TypeOK
    <2>2. limit'.num_left \in Nat
      BY <2>1, LimitType, KeyAssumption DEF Limit
    <2>3. limit'.state # "expired" => limit'.num_left > 0
      BY <2>1, <2>2
    <2>4. CASE UNCHANGED session /\ limit'.num_left = 0
      <3>1. Accepted' = Accepted
        BY <2>4 DEF session, Accepted
      <3>2. QED
        BY <2>1, <2>3, <2>4, <3>1 DEF Charged, OneLimit
    <2>5. CASE accept(ssrc, i)
      <3>1. /\ accepted' = [accepted EXCEPT ![ssrc] = @ \cup {i}]
            /\ again' = again \cup {n \in {ssrc} : i \in accepted[n]}
        BY <2>5 DEF accept
      <3>2. Accepted' = Accepted \cup {<<ssrc, i>>}
        <4>1. \A n \in Ssrcs : accepted'[n] = IF n = ssrc THEN accepted[n] \cup {i}
                                                          ELSE accepted[n]
          BY <3>1 DEF IInv, TypeOK
        <4>2. \A p \in Ssrcs \X (0 .. MaxIndex) :
                p[2] \in accepted'[p[1]] <=> p[2] \in accepted[p[1]] \/ p = <<ssrc, i>>
          <5>1. TAKE p \in Ssrcs \X (0 .. MaxIndex)
          <5>2. PICK n \in Ssrcs, j \in 0 .. MaxIndex : p = <<n, j>>
            OBVIOUS
          <5>3. p[1] = n /\ p[2] = j /\ (p = <<ssrc, i>> <=> n = ssrc /\ j = i)
            BY <5>2
          <5>4. j \in accepted'[n] <=> j \in accepted[n] \/ (n = ssrc /\ j = i)
            BY <4>1
          <5>5. QED
            BY <5>3, <5>4
        <4>3. <<ssrc, i>> \in Ssrcs \X (0 .. MaxIndex)
          OBVIOUS
        <4>4. QED
          BY <4>2, <4>3 DEF Accepted
      <3>3. /\ IsFiniteSet(Accepted')
            /\ <<ssrc, i>> \notin Accepted =>
                 Cardinality(Accepted') = Cardinality(Accepted) + 1
        BY <3>2, FS_AddElement DEF Charged
      <3>4. again' = {} => again = {} /\ <<ssrc, i>> \notin Accepted
        BY <3>1 DEF Accepted
      <3>5. Cardinality(Accepted) \in Nat /\ KeyUses \in Nat
            /\ limit.num_left \in Nat
        BY <2>1, FS_CardinalityType, KeyAssumption DEF Charged, Limit
      <3>6. ASSUME limit'.state # "expired", again' = {}
            PROVE  limit'.num_left = KeyUses - Cardinality(Accepted')
        <4>1. /\ limit.num_left = KeyUses - Cardinality(Accepted)
              /\ limit'.num_left = limit.num_left - 1
              /\ Cardinality(Accepted') = Cardinality(Accepted) + 1
          BY <2>1, <3>3, <3>4, <3>6 DEF Charged, OneLimit
        <4>2. QED
          BY <3>5, <4>1
      <3>7. OneLimit'
        BY <3>6 DEF OneLimit
      <3>8. QED
        BY <2>3, <3>3, <3>7 DEF Charged
    <2>6. QED
      BY <1>2, <2>4, <2>5 DEF srtp_unprotect
  <1>3. QED
    BY <1>1, <1>2 DEF Next, Send, session, vars

\* The key is charged once for every packet that is accepted, in whichever
\* stream, and for none that is refused, until its hard limit is hit.
THEOREM KeyIsCharged == Spec => []OneLimit
  <1>1. Charged => OneLimit
    BY DEF Charged
  <1>2. QED
    BY <1>1, ChargedInit, ChargedNext, IInvHolds, PTL DEF Spec
=============================================================================
